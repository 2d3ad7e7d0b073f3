--------------------------- MODULE SignOut_proofs ---------------------------
(* Theorems about SignOut, for any tabs, any bounds, with and without       *)
(* storage events.                                                          *)
EXTENDS SignOut, TLAPS

\* What the shared marks hold, the part of TypeOK the marks of a tab share.
MarksOK ==
    /\ gens \in 0..MaxGen /\ marker \in 0..gens /\ author \in Tabs \cup {None}
    /\ origin \subseteq Tabs /\ confirmed \in [Tabs -> 0..gens]
    /\ events \in [Tabs -> Seq(0..gens)]

\* A write of the marker queues a well-typed event for each other tab.
LEMMA WritesAreTyped ==
    ASSUME NEW t \in Tabs, MarksOK, gens' \in 0..MaxGen, gens <= gens',
           NEW v \in 0..gens', WriteMarker(t, v)
    PROVE  /\ marker' \in 0..gens' /\ author' \in Tabs \cup {None}
           /\ events' \in [Tabs -> Seq(0..gens')]
<1>1. ASSUME NEW x \in Tabs PROVE events[x] \in Seq(0..gens')
  <2>1. Seq(0..gens) \subseteq Seq(0..gens')
    BY BoundsAssumption DEF MarksOK
  <2> QED
    BY <2>1 DEF MarksOK
<1>2. ASSUME NEW x \in Tabs PROVE Append(events[x], v) \in Seq(0..gens')
  BY <1>1
<1>3. events' \in [Tabs -> Seq(0..gens')]
  BY <1>1, <1>2 DEF WriteMarker
<1>4. marker' \in 0..gens' /\ author' \in Tabs \cup {None}
  BY DEF WriteMarker, MarksOK
<1> QED
  BY <1>3, <1>4

\* rememberPendingSignOut keeps the marks well typed.
LEMMA PendingIsTyped ==
    ASSUME NEW t \in Tabs, MarksOK, rememberPendingSignOut(t)
    PROVE  MarksOK'
<1>1. CASE marker # None
  BY <1>1 DEF MarksOK, rememberPendingSignOut, None
<1>2. CASE marker = None
  <2>1. gens' = gens + 1 /\ gens' \in 0..MaxGen /\ WriteMarker(t, gens + 1)
    BY <1>2, BoundsAssumption DEF MarksOK, rememberPendingSignOut
  <2>2. /\ marker' \in 0..gens' /\ author' \in Tabs \cup {None}
        /\ events' \in [Tabs -> Seq(0..gens')]
    <3>1. gens <= gens' /\ gens + 1 \in 0..gens'
      BY <2>1 DEF MarksOK
    <3> QED
      BY <2>1, <3>1, WritesAreTyped
  <2>3. confirmed' \in [Tabs -> 0..gens'] /\ origin' \subseteq Tabs
    BY <2>1 DEF MarksOK, rememberPendingSignOut, None
  <2> QED
    BY <2>1, <2>2, <2>3 DEF MarksOK
<1> QED
  BY <1>1, <1>2

\* forgetPendingSignOut keeps the marks well typed.
LEMMA ForgettingIsTyped ==
    ASSUME NEW t \in Tabs, MarksOK, forgetPendingSignOut(t)
    PROVE  MarksOK'
<1>1. gens' = gens /\ WriteMarker(t, 0) /\ 0 \in 0..gens'
  BY DEF forgetPendingSignOut, MarksOK, None
<1>2. /\ marker' \in 0..gens' /\ author' \in Tabs \cup {None}
      /\ events' \in [Tabs -> Seq(0..gens')]
  <2>1. gens' \in 0..MaxGen /\ gens <= gens'
    BY <1>1 DEF MarksOK
  <2> QED
    BY <1>1, <2>1, WritesAreTyped
<1>3. confirmed' \in [Tabs -> 0..gens'] /\ origin' \subseteq Tabs
  BY <1>1 DEF MarksOK, forgetPendingSignOut, None
<1> QED
  BY <1>1, <1>2, <1>3 DEF MarksOK

\* rememberConfirmedSignOut keeps the marks well typed.
LEMMA ConfirmingIsTyped ==
    ASSUME NEW t \in Tabs, MarksOK, rememberConfirmedSignOut(t)
    PROVE  MarksOK'
BY DEF rememberConfirmedSignOut, MarksOK

\* How a call in flight ends keeps the sessions and the marks well typed.
LEMMA RevocationIsTyped ==
    ASSUME NEW t \in Tabs, NEW c \in Sent, TypeOK, created' = created,
           (RevocationAnswered(t, c) /\ UNCHANGED orphans) \/ RevocationTimesOut(t, c)
    PROVE  /\ valid' \subseteq 1..created' /\ cookie' \in 0..created' /\ MarksOK'
           /\ orphans' \subseteq Session
<1>1. MarksOK'
  <2>1. MarksOK
    BY DEF TypeOK, MarksOK
  <2>2. rememberPendingSignOut(t) \/ rememberConfirmedSignOut(t)
    BY DEF RevocationAnswered, RevocationTimesOut
  <2> QED
    BY <2>1, <2>2, PendingIsTyped, ConfirmingIsTyped
<1>2. valid' \subseteq 1..created' /\ cookie' \in 0..created'
  <2>1. valid' \subseteq valid
    BY DEF RevocationAnswered, RevocationTimesOut, Revoked, Denied, Lost
  <2>2. cookie' = None \/ cookie' = cookie
    BY DEF RevocationAnswered, RevocationTimesOut
  <2> QED
    BY <2>1, <2>2, BoundsAssumption DEF TypeOK, None
<1>3. orphans' \subseteq Session
  BY DEF TypeOK, RevocationAnswered, RevocationTimesOut, Abandon, Sent, None
<1> QED
  BY <1>1, <1>2, <1>3

\* getSession's answers do too.
LEMMA SessionIsTyped ==
    ASSUME NEW t \in Tabs, NEW c, TypeOK, SessionFound(t, c) \/ NoSession(c)
    PROVE  valid' = valid /\ known' \in BOOLEAN /\ MarksOK'
<1>1. MarksOK
  BY DEF TypeOK, MarksOK
<1>2. CASE SessionFound(t, c)
  BY <1>1, <1>2, ForgettingIsTyped DEF SessionFound, Answered, rememberAuthenticatedSession
<1>3. CASE NoSession(c)
  BY <1>1, <1>3 DEF NoSession, Denied, markVars, MarksOK
<1> QED
  BY <1>2, <1>3

\* What a tab sends, and the gates it starts, are well typed.
LEMMA GatesAreTyped ==
    ASSUME TypeOK
    PROVE  /\ SessionToSend \in Sent /\ None \in Sent
           /\ \A t \in Tabs :
                GateStart(t) \in [pc : {"idle", "revoke", "session"}, sent : Sent]
<1>1. SessionToSend \in Sent /\ None \in Sent
  BY BoundsAssumption DEF TypeOK, SessionToSend, Sent, Session, None
<1>2. ASSUME NEW t \in Tabs
      PROVE  GateStart(t) \in [pc : {"idle", "revoke", "session"}, sent : Sent]
  BY <1>1 DEF GateStart, NoGate
<1> QED
  BY <1>1, <1>2

\* Superseding a gate and starting the next one, and the latch.
LEMMA NavigationIsTyped ==
    ASSUME NEW t \in Tabs, TypeOK
    PROVE  /\ Supersede(t) => stale' \subseteq [tab : Tabs, pc : {"revoke", "session"}, sent : Sent]
           /\ BeginGate(t) => /\ gate' \in [Tabs -> [pc : {"idle", "revoke", "session"}, sent : Sent]]
                              /\ inApp' \subseteq Tabs
           /\ Deliver(t) \/ Rearm(t) =>
                /\ delivered' \subseteq Tabs /\ known' \in BOOLEAN /\ inApp' \subseteq Tabs
                /\ gate' \in [Tabs -> [pc : {"idle", "revoke", "session"}, sent : Sent]]
                /\ stale' \subseteq [tab : Tabs, pc : {"revoke", "session"}, sent : Sent]
<1>1. Supersede(t) => stale' \subseteq [tab : Tabs, pc : {"revoke", "session"}, sent : Sent]
  BY DEF Supersede, TypeOK
<1>2. BeginGate(t) => /\ gate' \in [Tabs -> [pc : {"idle", "revoke", "session"}, sent : Sent]]
                      /\ inApp' \subseteq Tabs
  BY GatesAreTyped DEF BeginGate, TypeOK
<1>3. Rearm(t) => /\ delivered' \subseteq Tabs /\ UNCHANGED <<known, inApp, gate, stale>>
  BY DEF Rearm, TypeOK
<1>4. Deliver(t) => /\ delivered' \subseteq Tabs /\ known' \in BOOLEAN
                    /\ UNCHANGED <<inApp, gate, stale>> \/ (Supersede(t) /\ BeginGate(t))
  BY DEF Deliver, TypeOK
<1> QED
  BY <1>1, <1>2, <1>3, <1>4 DEF TypeOK

\* Every reachable state is well typed.
THEOREM TypeCorrect == Spec => []TypeOK
<1> USE DEF None
<1>1. Init => TypeOK
  <2> SUFFICES ASSUME Init PROVE TypeOK
    OBVIOUS
  <2>1. None \in Sent /\ 0 \in 0..MaxSession /\ 0 \in 0..MaxGen
    BY BoundsAssumption DEF Sent
  <2>2. events \in [Tabs -> Seq(0..gens)]
    BY DEF Init
  <2>3. gate \in [Tabs -> [pc : {"idle", "revoke", "session"}, sent : Sent]]
    BY <2>1 DEF Init, NoGate
  <2>4. out \in [Tabs -> [st : {"idle", "revoking", "settled"}, sent : Sent]]
    BY <2>1 DEF Init, NoLogOut
  <2>5. MarksOK
    BY <2>1, <2>2 DEF Init, MarksOK
  <2>6. valid \subseteq 1..created /\ created \in 0..MaxSession /\ cookie \in 0..created
    BY <2>1 DEF Init
  <2> QED
    BY <2>3, <2>4, <2>5, <2>6 DEF Init, TypeOK, MarksOK
<1>2. TypeOK /\ [Next]_vars => TypeOK'
  <2> SUFFICES ASSUME TypeOK, [Next]_vars
               PROVE  TypeOK'
    OBVIOUS
  <2>1. ASSUME NEW t \in Tabs, TabStep(t) PROVE TypeOK'
    <3>1. CASE Load(t)
      BY <3>1, NavigationIsTyped DEF Load, TypeOK, serverVars, markVars
    <3>2. CASE GateSettles(t)
      <4>1. gate'  \in [Tabs -> [pc : {"idle", "revoke", "session"}, sent : Sent]]
        BY <3>2, GatesAreTyped DEF GateSettles, NoGate, TypeOK
      <4>2. gate[t].sent \in Sent /\ inApp' \subseteq Tabs
        BY <3>2 DEF GateSettles, TypeOK
      <4>3. CASE RevocationAnswered(t, gate[t].sent) /\ UNCHANGED known
        BY <3>2, <4>1, <4>2, <4>3, RevocationIsTyped DEF GateSettles, MarksOK, TypeOK
      <4>4. CASE /\ SessionFound(t, gate[t].sent) \/ NoSession(gate[t].sent)
                 /\ UNCHANGED cookie
        BY <3>2, <4>1, <4>2, <4>4, SessionIsTyped DEF GateSettles, MarksOK, TypeOK
      <4>5. CASE UNCHANGED <<valid, known, markVars, cookie>>
        BY <3>2, <4>1, <4>2, <4>5 DEF GateSettles, markVars, TypeOK
      <4> QED
        BY <3>2, <4>3, <4>4, <4>5 DEF GateSettles
    <3>3. CASE GateTimesOut(t)
      <4>1. gate'  \in [Tabs -> [pc : {"idle", "revoke", "session"}, sent : Sent]]
        BY <3>3, GatesAreTyped DEF GateTimesOut, NoGate, TypeOK
      <4>2. gate[t].sent \in Sent
        BY DEF TypeOK
      <4> QED
        BY <3>3, <4>1, <4>2, RevocationIsTyped DEF GateTimesOut, MarksOK, TypeOK
    <3>4. CASE LogOut(t)
      <4>1. MarksOK'
        BY <3>4, PendingIsTyped DEF LogOut, TypeOK, MarksOK
      <4>2. out' \in [Tabs -> [st : {"idle", "revoking", "settled"}, sent : Sent]]
        BY <3>4, GatesAreTyped DEF LogOut, TypeOK
      <4> QED
        BY <3>4, <4>1, <4>2 DEF LogOut, TypeOK, MarksOK, serverVars
    <3>5. CASE LogOutRevoked(t) \/ LogOutTimesOut(t)
      <4>1. out[t].sent \in Sent
        BY DEF TypeOK
      <4>2. out' \in [Tabs -> [st : {"idle", "revoking", "settled"}, sent : Sent]]
        BY <3>5 DEF LogOutRevoked, LogOutTimesOut, TypeOK
      <4> QED
        BY <3>5, <4>1, <4>2, RevocationIsTyped
           DEF LogOutRevoked, LogOutTimesOut, MarksOK, TypeOK
    <3>6. CASE LogOutEnds(t)
      <4>1. out' \in [Tabs -> [st : {"idle", "revoking", "settled"}, sent : Sent]]
        BY <3>6, GatesAreTyped DEF LogOutEnds, NoLogOut, TypeOK
      <4> QED
        BY <3>6, <4>1, NavigationIsTyped DEF LogOutEnds, TypeOK, serverVars, markVars
    <3>7. CASE onStorage(t)
      <4>1. events' \in [Tabs -> Seq(0..gens')]
        BY <3>7 DEF onStorage, TypeOK
      <4> QED
        BY <3>7, <4>1, NavigationIsTyped DEF onStorage, TypeOK, serverVars
    <3>8. CASE Poll(t)
      BY <3>8, NavigationIsTyped DEF Poll, TypeOK, serverVars, markVars
    <3>9. CASE SignIn(t)
      BY <3>9, BoundsAssumption DEF SignIn, TypeOK, markVars
    <3>10. CASE CompleteAuth(t)
      <4>1. MarksOK' /\ known' \in BOOLEAN
        BY <3>10, ForgettingIsTyped
           DEF CompleteAuth, rememberAuthenticatedSession, TypeOK, MarksOK
      <4>2. gate'  \in [Tabs -> [pc : {"idle", "revoke", "session"}, sent : Sent]]
        BY <3>10, GatesAreTyped DEF CompleteAuth, TypeOK
      <4> QED
        BY <3>10, <4>1, <4>2, NavigationIsTyped DEF CompleteAuth, TypeOK, MarksOK, serverVars
    <3>11. CASE Reload(t)
      <4>1. /\ out' \in [Tabs -> [st : {"idle", "revoking", "settled"}, sent : Sent]]
            /\ gate'  \in [Tabs -> [pc : {"idle", "revoke", "session"}, sent : Sent]]
        BY <3>11, GatesAreTyped DEF Reload, NoLogOut, TypeOK
      <4>2. events' \in [Tabs -> Seq(0..gens')]
        BY <3>11 DEF Reload, TypeOK
      <4>3. orphans' \subseteq Session
        BY <3>11 DEF Reload, Abandon, Sent, TypeOK
      <4> QED
        BY <3>11, <4>1, <4>2, <4>3 DEF Reload, TypeOK, serverVars
    <3> QED
      BY <2>1, <3>1, <3>2, <3>3, <3>4, <3>5, <3>6, <3>7, <3>8, <3>9, <3>10, <3>11 DEF TabStep
  <2>2. ASSUME NEW g \in stale, StaleGateSettles(g) PROVE TypeOK'
    <3>1. g.tab \in Tabs /\ g.sent \in Sent
      BY DEF TypeOK
    <3>2. CASE /\ (RevocationAnswered(g.tab, g.sent) /\ UNCHANGED orphans)
                  \/ RevocationTimesOut(g.tab, g.sent)
               /\ UNCHANGED known
      BY <2>2, <3>1, <3>2, RevocationIsTyped DEF StaleGateSettles, MarksOK, TypeOK
    <3>3. CASE /\ SessionFound(g.tab, g.sent) \/ NoSession(g.sent)
               /\ UNCHANGED <<cookie, orphans>>
      BY <2>2, <3>1, <3>3, SessionIsTyped DEF StaleGateSettles, MarksOK, TypeOK
    <3>4. CASE UNCHANGED <<valid, known, markVars, cookie, orphans>>
      BY <2>2, <3>4 DEF StaleGateSettles, markVars, TypeOK
    <3> QED
      BY <2>2, <3>2, <3>3, <3>4 DEF StaleGateSettles
  <2>3. ASSUME NEW s, OrphanArrives(s) \/ SessionExpires(s) PROVE TypeOK'
    <3>1. valid' \subseteq valid /\ created' = created /\ cookie' \in {cookie, 0}
      BY <2>3 DEF OrphanArrives, SessionExpires
    <3>2. valid' \subseteq 1..created' /\ created' \in 0..MaxSession /\ cookie' \in 0..created'
      BY <3>1, BoundsAssumption DEF TypeOK
    <3> QED
      BY <2>3, <3>2 DEF OrphanArrives, SessionExpires, TypeOK, markVars, tabVars
  <2>4. CASE UNCHANGED vars
    BY <2>4 DEF vars, serverVars, markVars, tabVars, TypeOK
  <2> QED
    BY <2>1, <2>2, <2>3, <2>4 DEF Next
<1> QED
  BY <1>1, <1>2, PTL DEF Spec

\* The two writes of the marker keep the author marked.  The third writer of
\* origin, forgetPendingSignOut, unmarks only a tab that clears the marker.
LEMMA MarksFollowMarker ==
    ASSUME NEW t \in Tabs, OriginatorIsMarked,
           rememberPendingSignOut(t) \/ forgetPendingSignOut(t)
    PROVE  OriginatorIsMarked'
BY DEF OriginatorIsMarked, rememberPendingSignOut, forgetPendingSignOut, WriteMarker

\* A revocation's answer writes the marker or leaves the marks alone.
LEMMA AnswersKeepMarks ==
    ASSUME NEW t \in Tabs, NEW c, OriginatorIsMarked,
           RevocationAnswered(t, c) \/ RevocationTimesOut(t, c)
    PROVE  OriginatorIsMarked'
<1>1. CASE rememberPendingSignOut(t)
  BY <1>1, MarksFollowMarker
<1>2. CASE rememberConfirmedSignOut(t)
  BY <1>2 DEF rememberConfirmedSignOut, OriginatorIsMarked
<1> QED
  BY <1>1, <1>2 DEF RevocationAnswered, RevocationTimesOut

\* So do the answers of a gate's getSession.
LEMMA SessionsKeepMarks ==
    ASSUME NEW t \in Tabs, NEW c, OriginatorIsMarked,
           SessionFound(t, c) \/ NoSession(c)
    PROVE  OriginatorIsMarked'
<1>1. CASE SessionFound(t, c)
  BY <1>1, MarksFollowMarker DEF SessionFound, rememberAuthenticatedSession
<1>2. CASE NoSession(c)
  BY <1>2 DEF NoSession, markVars, OriginatorIsMarked
<1> QED
  BY <1>1, <1>2

\* The tab that wrote the pending sign-out carries its own mark for as long as
\* the marker stands, so no poll takes a tab's own sign-out for another tab's
\* (client.ts:86-106, logout-broadcast.ts:47).
THEOREM OriginIsKept == Spec => []OriginatorIsMarked
<1>1. Init => OriginatorIsMarked
  BY DEF Init, OriginatorIsMarked
<1>2. TypeOK /\ OriginatorIsMarked /\ [Next]_vars => OriginatorIsMarked'
  <2> SUFFICES ASSUME TypeOK, OriginatorIsMarked, [Next]_vars
               PROVE  OriginatorIsMarked'
    OBVIOUS
  <2> USE DEF markVars
  <2>1. ASSUME NEW t \in Tabs, TabStep(t) PROVE OriginatorIsMarked'
    <3>1. CASE Load(t) \/ LogOutEnds(t) \/ Poll(t) \/ SignIn(t)
      BY <3>1 DEF Load, LogOutEnds, Poll, SignIn, OriginatorIsMarked
    <3>2. CASE GateSettles(t)
      <4>1. CASE UNCHANGED markVars
        BY <4>1 DEF OriginatorIsMarked
      <4>2. CASE RevocationAnswered(t, gate[t].sent)
        BY <4>2, AnswersKeepMarks
      <4>3. CASE SessionFound(t, gate[t].sent) \/ NoSession(gate[t].sent)
        BY <4>3, SessionsKeepMarks
      <4> QED
        BY <3>2, <4>1, <4>2, <4>3 DEF GateSettles
    <3>3. CASE GateTimesOut(t) \/ LogOutRevoked(t) \/ LogOutTimesOut(t)
      BY <3>3, AnswersKeepMarks DEF GateTimesOut, LogOutRevoked, LogOutTimesOut
    <3>4. CASE Reload(t) \/ onStorage(t)
      BY <3>4 DEF Reload, onStorage, OriginatorIsMarked
    <3>5. CASE LogOut(t)
      BY <3>5, MarksFollowMarker DEF LogOut
    <3>6. CASE CompleteAuth(t)
      BY <3>6, MarksFollowMarker DEF CompleteAuth, rememberAuthenticatedSession
    <3> QED
      BY <2>1, <3>1, <3>2, <3>3, <3>4, <3>5, <3>6 DEF TabStep
  <2>2. ASSUME NEW g \in stale, StaleGateSettles(g) PROVE OriginatorIsMarked'
    <3>1. g.tab \in Tabs
      BY DEF TypeOK
    <3>2. CASE UNCHANGED markVars
      BY <3>2 DEF OriginatorIsMarked
    <3>3. CASE SessionFound(g.tab, g.sent) \/ NoSession(g.sent)
      BY <3>1, <3>3, SessionsKeepMarks
    <3>4. CASE RevocationAnswered(g.tab, g.sent) \/ RevocationTimesOut(g.tab, g.sent)
      BY <3>1, <3>4, AnswersKeepMarks
    <3> QED
      BY <2>2, <3>2, <3>3, <3>4 DEF StaleGateSettles
  <2>3. ASSUME NEW s, OrphanArrives(s) \/ SessionExpires(s) PROVE OriginatorIsMarked'
    BY <2>3 DEF OrphanArrives, SessionExpires, OriginatorIsMarked
  <2>4. CASE UNCHANGED vars
    BY <2>4 DEF vars, OriginatorIsMarked
  <2> QED
    BY <2>1, <2>2, <2>3, <2>4 DEF Next
<1> QED
  BY <1>1, <1>2, TypeCorrect, PTL DEF Spec
=============================================================================
