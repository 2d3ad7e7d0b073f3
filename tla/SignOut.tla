------------------------------ MODULE SignOut ------------------------------
(***************************************************************************)
(* Signing in and out of the tabs of one browser profile: the session gate *)
(* every route loader resolves (client.ts), logoutCurrentUser (logout.ts), *)
(* the broadcast to the other tabs (logout-broadcast.ts, useLogout.tsx)    *)
(* and sign-in (LoginRoute.tsx, AdminRoute.tsx).                           *)
(*                                                                         *)
(* Tabs run concurrently and share localStorage and the session cookie; a  *)
(* JavaScript step between two awaits is one action.  The auth server and  *)
(* the network are external.  A call in flight remembers the session it    *)
(* was sent with if the server accepted it then; how the call ends is      *)
(* chosen when the tab hears of it, and since a session may expire at any  *)
(* moment (SessionExpires) the server may have acted on it earlier.        *)
(***************************************************************************)
EXTENDS Naturals, Sequences, FiniteSets

CONSTANTS Tabs,
          StorageEvents,  \* does the browser send storage events?
          MaxSession,     \* bound on the sessions the server creates
          MaxGen,         \* bound on pending-sign-out generations
          MaxLate         \* bound on each kind of call left running

ASSUME BoundsAssumption ==
    StorageEvents \in BOOLEAN /\ MaxSession \in Nat /\ MaxGen \in Nat /\ MaxLate \in Nat

VARIABLES
    valid,      \* sessions the server accepts
    created,    \* sessions created so far
    cookie,     \* the session cookie the tabs send, or None
    known,      \* localStorage remdo-authenticated-session
    marker,     \* localStorage remdo-pending-sign-out: a generation or None
    gens,       \* generations drawn so far
    author,     \* history: the tab that wrote the marker, or None
    origin,     \* tabs with remdo-pending-sign-out-origin in sessionStorage
    confirmed,  \* sessionStorage remdo-sign-out-confirmed
    events,     \* storage events each tab has not handled
    delivered,  \* tabs whose subscribeToSignOut latch is set
    inApp,      \* tabs that show the app, rather than login or unavailable
    gate,       \* the tab's current resolveSessionGateState
    stale,      \* gates whose navigation was superseded, still running
    out,        \* logoutCurrentUser in flight
    signing,    \* tabs whose sign-in has its cookie but not yet its answer
    orphans     \* sessions in sign-out requests that timed out in their tab

serverVars == <<valid, created>>
markVars == <<marker, gens, author, origin, confirmed, events>>
tabVars == <<delivered, inApp, gate, stale, out, signing>>
vars == <<serverVars, cookie, known, markVars, tabVars, orphans>>

None == 0
Session == 1..MaxSession
Sent == Session \cup {None}

TypeOK ==
    /\ created \in 0..MaxSession /\ valid \subseteq 1..created /\ cookie \in 0..created
    /\ known \in BOOLEAN
    /\ gens \in 0..MaxGen /\ marker \in 0..gens /\ author \in Tabs \cup {None}
    /\ origin \subseteq Tabs /\ confirmed \in [Tabs -> 0..gens]
    /\ events \in [Tabs -> Seq(0..gens)]
    /\ delivered \subseteq Tabs
    /\ inApp \subseteq Tabs
    /\ gate \in [Tabs -> [pc : {"idle", "revoke", "session"}, sent : Sent]]
    /\ stale \subseteq [tab : Tabs, pc : {"revoke", "session"}, sent : Sent]
    /\ out \in [Tabs -> [st : {"idle", "revoking", "settled"}, sent : Sent]]
    /\ signing \subseteq Tabs
    /\ orphans \subseteq Session

NoGate == [pc |-> "idle", sent |-> None]
NoLogOut == [st |-> "idle", sent |-> None]

Init ==
    /\ valid = {} /\ created = 0 /\ cookie = None /\ known = FALSE
    /\ marker = None /\ gens = 0 /\ author = None /\ origin = {}
    /\ confirmed = [t \in Tabs |-> None]
    /\ events = [t \in Tabs |-> <<>>]
    /\ delivered = {}
    /\ inApp = {}
    /\ gate = [t \in Tabs |-> NoGate] /\ stale = {}
    /\ out = [t \in Tabs |-> NoLogOut]
    /\ signing = {} /\ orphans = {}

-----------------------------------------------------------------------------
(* The marks in localStorage and sessionStorage                            *)

\* A write to localStorage; the other tabs get a storage event if it changed.
WriteMarker(t, v) ==
    /\ marker' = v
    /\ author' = IF v # None THEN t ELSE None
    /\ events' = [x \in Tabs |-> IF StorageEvents /\ v # marker /\ x # t
                                 THEN Append(events[x], v) ELSE events[x]]

\* Mutants: the tab does not mark itself; the generation drawn is not new.
MarkOnlyOrigin(t) ==
    /\ confirmed' = [confirmed EXCEPT ![t] = None]
    /\ UNCHANGED origin
    /\ IF marker # None
       THEN UNCHANGED <<marker, author, events, gens>>
       ELSE gens < MaxGen /\ gens' = gens + 1 /\ WriteMarker(t, gens + 1)

rememberPendingSignOut(t) ==
    /\ origin' = origin \cup {t}
    /\ confirmed' = [confirmed EXCEPT ![t] = None]
    /\ IF marker # None
       THEN UNCHANGED <<marker, author, events, gens>>
       ELSE /\ gens < MaxGen
            /\ gens' = gens + 1
            /\ WriteMarker(t, gens + 1)

forgetPendingSignOut(t) ==
    /\ origin' = origin \ {t}
    /\ confirmed' = [confirmed EXCEPT ![t] = None]
    /\ WriteMarker(t, None)
    /\ UNCHANGED gens

\* It confirms whichever generation is current when the answer arrives.
rememberConfirmedSignOut(t) ==
    /\ confirmed' = [confirmed EXCEPT ![t] = IF marker # None THEN marker ELSE @]
    /\ UNCHANGED <<marker, gens, author, origin, events>>

rememberAuthenticatedSession(t) == known' = TRUE /\ forgetPendingSignOut(t)

-----------------------------------------------------------------------------
(* How a call sent with session c can end, and the sessions valid after it *)

SessionToSend == IF cookie \in valid THEN cookie ELSE None

Answered(c) == c # None /\ UNCHANGED valid
Denied(c) == c \notin valid /\ UNCHANGED valid
Revoked(c) == valid' = valid \ {c}
Lost(c) == valid' \in {valid, valid \ {c}}

\* revokeServerSession, answered in time: confirmed, or failed and marked again.
RevocationAnswered(t, c) ==
    \/ Revoked(c) /\ rememberConfirmedSignOut(t) /\ cookie' = None
    \/ (Denied(c) \/ Lost(c)) /\ rememberPendingSignOut(t) /\ UNCHANGED cookie

\* A sign-out request left running; one that is not kept never arrives.
Abandon(c) ==
    \/ UNCHANGED orphans
    \/ /\ c # None /\ Cardinality(orphans) < MaxLate
       /\ orphans' = orphans \cup {c}

\* SERVER_SIGN_OUT_TIMEOUT_MS: the request itself is not aborted.
RevocationTimesOut(t, c) ==
    /\ rememberPendingSignOut(t)
    /\ Abandon(c)
    /\ UNCHANGED <<valid, cookie>>

-----------------------------------------------------------------------------
(* The session gate (resolveSessionGateState), run by every route loader   *)

\* A new navigation supersedes the tab's gate, which still runs to its end.  One
\* that is not kept in stale is one whose call never ends.
Supersede(t) ==
    \/ UNCHANGED stale
    \/ /\ gate[t].pc # "idle" /\ Cardinality(stale) < MaxLate
       /\ stale' = stale \cup {[tab |-> t, pc |-> gate[t].pc, sent |-> gate[t].sent]}

\* Up to the first await: with a pending sign-out the gate revokes, unless this
\* tab has had that generation confirmed.
GateStart(t) ==
    IF marker # None /\ confirmed[t] = marker
    THEN NoGate
    ELSE [pc |-> IF marker # None THEN "revoke" ELSE "session", sent |-> SessionToSend]

BeginGate(t) ==
    /\ gate' = [gate EXCEPT ![t] = GateStart(t)]
    /\ inApp' = IF GateStart(t) = NoGate THEN inApp \ {t} ELSE inApp

\* The user navigates, by a link, back or the address bar.
Load(t) ==
    /\ gate[t].pc = "idle"
    /\ BeginGate(t)
    /\ UNCHANGED <<serverVars, cookie, known, markVars, delivered, stale, out, signing, orphans>>

\* getSession ends and the gate reports what to show.
SessionFound(t, c) ==
    /\ Answered(c)
    /\ rememberAuthenticatedSession(t)

\* forgetAuthenticatedSession, on 401, 403 or an answer without a session.
NoSession(c) ==
    /\ Denied(c)
    /\ known' = FALSE
    /\ UNCHANGED markVars

\* The current gate of t ends with the page it shows.
GateSettles(t) ==
    /\ \/ /\ gate[t].pc = "session"
          /\ \/ SessionFound(t, gate[t].sent) /\ inApp' = inApp \cup {t}
             \/ NoSession(gate[t].sent) /\ inApp' = inApp \ {t}
             \/ \* resolveUnavailableSessionGateState
                /\ \/ known /\ inApp' = inApp \cup {t}
                   \/ inApp' = inApp \ {t}
                /\ UNCHANGED <<valid, known, markVars>>
          /\ UNCHANGED cookie
       \/ /\ gate[t].pc = "revoke"
          /\ RevocationAnswered(t, gate[t].sent)
          /\ inApp' = inApp \ {t}
          /\ UNCHANGED known
    /\ gate' = [gate EXCEPT ![t] = NoGate]
    /\ UNCHANGED <<created, delivered, stale, out, signing, orphans>>

GateTimesOut(t) ==
    /\ gate[t].pc = "revoke"
    /\ RevocationTimesOut(t, gate[t].sent)
    /\ inApp' = inApp \ {t}
    /\ gate' = [gate EXCEPT ![t] = NoGate]
    /\ UNCHANGED <<created, known, delivered, stale, out, signing>>

\* A superseded gate ends: nothing is shown, the marks are written all the same.
StaleGateSettles(g) ==
    /\ \/ /\ g.pc = "session"
          /\ \/ SessionFound(g.tab, g.sent)
             \/ NoSession(g.sent)
             \/ UNCHANGED <<valid, known, markVars>>
          /\ UNCHANGED <<cookie, orphans>>
       \/ /\ g.pc = "revoke"
          /\ \/ RevocationAnswered(g.tab, g.sent) /\ UNCHANGED orphans
             \/ RevocationTimesOut(g.tab, g.sent)
          /\ UNCHANGED known
    /\ stale' = stale \ {g}
    /\ UNCHANGED <<created, delivered, inApp, gate, out, signing>>

-----------------------------------------------------------------------------
(* logoutCurrentUser, and the other tabs' half of it                       *)

LogOut(t) ==
    /\ t \in inApp /\ out[t].st = "idle"
    /\ rememberPendingSignOut(t)
    /\ known' = FALSE
    /\ out' = [out EXCEPT ![t] = [st |-> "revoking", sent |-> SessionToSend]]
    /\ UNCHANGED <<serverVars, cookie, delivered, inApp, gate, stale, signing, orphans>>

LogOutRevoked(t) ==
    /\ out[t].st = "revoking"
    /\ RevocationAnswered(t, out[t].sent)
    /\ out' = [out EXCEPT ![t].st = "settled"]
    /\ UNCHANGED <<created, known, delivered, inApp, gate, stale, signing, orphans>>

\* Mutant: the sign-out of a tab without a session is not raced with a timer.
TimesOutWithSession(t) ==
    /\ out[t].st = "revoking" /\ out[t].sent # None
    /\ RevocationTimesOut(t, out[t].sent)
    /\ out' = [out EXCEPT ![t].st = "settled"]
    /\ UNCHANGED <<created, known, delivered, inApp, gate, stale, signing>>

LogOutTimesOut(t) ==
    /\ out[t].st = "revoking"
    /\ RevocationTimesOut(t, out[t].sent)
    /\ out' = [out EXCEPT ![t].st = "settled"]
    /\ UNCHANGED <<created, known, delivered, inApp, gate, stale, signing>>

\* Revocation and local cleanup are done or out of time: the tab goes to '/'.
LogOutEnds(t) ==
    /\ out[t].st = "settled"
    /\ out' = [out EXCEPT ![t] = NoLogOut]
    /\ Supersede(t) /\ BeginGate(t)
    /\ UNCHANGED <<serverVars, cookie, known, markVars, delivered, signing, orphans>>

\* Mutant: a tab that is already loading is not sent to '/'.
DeliverUnlessLoading(t) ==
    IF t \in delivered
    THEN UNCHANGED <<delivered, known, inApp, gate, stale>>
    ELSE /\ delivered' = delivered \cup {t}
         /\ known' = FALSE
         /\ IF gate[t].pc # "idle" THEN UNCHANGED <<inApp, gate, stale>>
                                   ELSE Supersede(t) /\ BeginGate(t)

\* onSignOut behind the latch: forgetAuthenticatedSession and navigate to '/'.
Deliver(t) ==
    IF t \in delivered
    THEN UNCHANGED <<delivered, known, inApp, gate, stale>>
    ELSE /\ delivered' = delivered \cup {t}
         /\ known' = FALSE
         /\ Supersede(t) /\ BeginGate(t)

Rearm(t) ==
    /\ delivered' = delivered \ {t}
    /\ UNCHANGED <<known, inApp, gate, stale>>

onStorage(t) ==
    /\ events[t] # <<>>
    /\ IF Head(events[t]) # None THEN Deliver(t) ELSE Rearm(t)
    /\ events' = [events EXCEPT ![t] = Tail(@)]
    /\ UNCHANGED <<serverVars, cookie, marker, gens, author, origin, confirmed, out,
                   signing, orphans>>

Poll(t) ==
    /\ \/ marker = None /\ Rearm(t)
       \/ marker # None /\ t \notin origin /\ Deliver(t)
    /\ UNCHANGED <<serverVars, cookie, markVars, out, signing, orphans>>

-----------------------------------------------------------------------------
(* Signing in, and the rest of the world                                   *)

\* The server accepts the credentials of LoginRoute's form, or enrols through
\* AdminRoute's, which any page can open; the browser stores the cookie before
\* the page's script sees the answer.
SignIn(t) ==
    /\ signing = {} /\ out[t].st = "idle" /\ created < MaxSession
    /\ created' = created + 1
    /\ valid' = valid \cup {created'}
    /\ cookie' = created'
    /\ signing' = signing \cup {t}
    /\ UNCHANGED <<known, markVars, delivered, inApp, gate, stale, out, orphans>>

\* completeAuth, then navigate.
CompleteAuth(t) ==
    /\ t \in signing
    /\ rememberAuthenticatedSession(t)
    /\ signing' = signing \ {t}
    /\ Supersede(t)
    /\ gate' = [gate EXCEPT ![t] = [pc |-> "session", sent |-> SessionToSend]]
    /\ UNCHANGED <<serverVars, cookie, delivered, inApp, out, orphans>>

\* The page is reloaded: its memory is lost, sessionStorage is not, and it shows
\* nothing until its gate has ended.
Reload(t) ==
    /\ delivered' = delivered \ {t}
    /\ events' = [events EXCEPT ![t] = <<>>]
    /\ out' = [out EXCEPT ![t] = NoLogOut]
    /\ IF out[t].st = "revoking" THEN Abandon(out[t].sent) ELSE UNCHANGED orphans
    /\ signing' = signing \ {t}
    /\ stale' = {g \in stale : g.tab # t}
    /\ gate' = [gate EXCEPT ![t] = GateStart(t)]
    /\ inApp' = inApp \ {t}
    /\ UNCHANGED <<serverVars, cookie, known, marker, gens, author, origin, confirmed>>

\* A sign-out its tab gave up on still reaches the server, or never does.
OrphanArrives(s) ==
    /\ orphans' = orphans \ {s}
    /\ \/ valid' = valid \ {s} /\ cookie' \in {cookie, None}
       \/ UNCHANGED <<valid, cookie>>
    /\ UNCHANGED <<created, known, markVars, tabVars>>

\* A session expires or is revoked elsewhere.
SessionExpires(s) ==
    /\ valid' = valid \ {s}
    /\ UNCHANGED <<created, cookie, known, markVars, tabVars, orphans>>

-----------------------------------------------------------------------------
TabStep(t) == \/ Load(t) \/ GateSettles(t) \/ GateTimesOut(t) \/ Reload(t)
              \/ LogOut(t) \/ LogOutRevoked(t) \/ LogOutTimesOut(t) \/ LogOutEnds(t)
              \/ onStorage(t) \/ Poll(t)
              \/ SignIn(t) \/ CompleteAuth(t)

Next == \/ \E t \in Tabs : TabStep(t)
        \/ \E g \in stale : StaleGateSettles(g)
        \/ \E s \in orphans : OrphanArrives(s)
        \/ \E s \in valid : SessionExpires(s)

Spec == Init /\ [][Next]_vars

\* Timers fire and posted events are handled; no answer ever has to come.
Fairness ==
    \A t \in Tabs : /\ WF_vars(GateTimesOut(t))
                   /\ WF_vars(LogOutTimesOut(t)) /\ WF_vars(LogOutEnds(t))
                   /\ WF_vars(onStorage(t)) /\ WF_vars(Poll(t))

FairSpec == Spec /\ Fairness

-----------------------------------------------------------------------------
(* Properties                                                              *)

\* The tab that wrote the pending sign-out still carries its own mark, so its
\* poll never takes its own sign-out for another tab's.
OriginatorIsMarked == marker # None => author \in origin

\* Signing out of one tab signs out every other tab, by the poll alone, whatever
\* that tab is doing (access-control.md:48): unless a sign-in or a late session
\* answer takes the sign-out back, or the tab joins it by failing to revoke.  The
\* tabs whose latch or own mark is left from an earlier sign-out are excluded: a
\* storage event that is handled after its tab removed the marker itself leaves
\* the latch set (logout-broadcast.ts:17).
PeersLeave ==
    \A t \in Tabs : (t \in inApp \ (origin \cup delivered) /\ marker # None) ~>
                       (t \notin inApp \/ marker = None \/ t \in origin)

\* Logout always completes, also when nothing answers (up to MaxGen).
LogOutCompletes ==
    \A t \in Tabs : (out[t].st # "idle") ~>
                       (out[t].st = "idle" \/ (gens = MaxGen /\ marker = None))
=============================================================================
