------------------------------- MODULE SignIn -------------------------------
(* Signing in with Google.  A tab goes from a page to the login page, to     *)
(* Google, back to /auth/callback and on to where it was going; the way is   *)
(* kept in the query of each redirect and, while the tab is at Google, in a  *)
(* cookie of its own for each flow.  The tabs of a browser share the cookies *)
(* and the session.  Sessions expire and are revoked, the auth service fails *)
(* and recovers, the user denies, reloads, goes back and signs out.          *)
EXTENDS Integers, FiniteSets

CONSTANTS
    Tabs,       \* tabs of one browser
    Modes,      \* settings to check, out of the four of AuthMode and its errors
    MaxFlows,   \* bound: sign-ins begun
    MaxChanges, \* bound: changes of the session or the service from outside
    MaxHops     \* redirects that may follow one another

ASSUME SignInAssumption ==
    /\ Modes \subseteq {"supabase", "mock", "disabled", "broken"}
    /\ {MaxFlows, MaxChanges, MaxHops} \subseteq Nat

Flows == 1..MaxFlows
NoFlow == 0

\* Pages a tab can be sent to; the last two are what sanitizeNextPath refuses.
Pages == {"/", "/new", "/project"}
Paths == Pages \cup {"elsewhere", "/auth/x"}

VARIABLES
    mode,    \* resolveAuthMode
    session, \* the session cookie
    spent,   \* its refresh token was used and the new cookie not written
    up,      \* the auth service answers
    kept,    \* the continuation cookies, by flow
    codes,   \* codes exchanged, by flow
    tab,     \* where each tab is, and what it carries
    begun, changes

vars == <<mode, session, spent, up, kept, codes, tab, begun, changes>>
outside == <<mode, up, changes>>

(* goal, asked and hops are history: where the user wants to go, whether the  *)
(* way was lost for a reason the user sees, and the redirects since the last  *)
(* step of the user or from outside.                                          *)
At(page) == [at |-> "page", next |-> page, error |-> "none", flow |-> NoFlow,
             arrival |-> "none", goal |-> page, lost |-> FALSE, hops |-> 0]

Init ==
    /\ mode \in Modes
    /\ session = "none" /\ spent = FALSE /\ up = TRUE
    /\ kept = [f \in Flows |-> "gone"]
    /\ codes = [f \in Flows |-> FALSE]
    /\ tab \in [Tabs -> {At("/"), At("/project")}]
    /\ begun = 0 /\ changes = 0

------------------------------------------------------------------------------
(* Helpers of the handlers *)

Sanitized(path) == IF path \in Pages THEN path ELSE "/"

\* A user's step begins a new chain of redirects, a redirect prolongs it.
Step(t, at, next, error) ==
    [tab[t] EXCEPT !.at = at, !.next = next, !.error = error, !.hops = 0]

Redirected(t, at, next, error) ==
    [tab[t] EXCEPT !.at = at, !.next = next, !.error = error, !.hops = @ + 1]
Goes(t, place) == tab' = [tab EXCEPT ![t] = place]

(* The answer also sets the session cookie: for the other tabs that is a      *)
(* change from outside.                                                       *)
GoesWith(t, place, s) ==
    /\ session' = s /\ spent' = (spent /\ s = session)
    /\ tab' = [u \in Tabs |-> IF u = t THEN place
                              ELSE IF s = session THEN tab[u] ELSE [tab[u] EXCEPT !.hops = 0]]

\* Only /new is gated; the other pages show what they can.
OpenAt(path) == IF path = "/new" THEN "new" ELSE "page"

(* The root proxy refreshes an expired session of a request it matches (not   *)
(* of /login), and the answer carries the new cookie.                         *)
AfterProxy ==
    IF session = "expired" /\ up
    THEN IF spent THEN {"valid", "none"} ELSE {"valid"}
    ELSE {session}

Through(t, place) == \E s \in AfterProxy : GoesWith(t, place, s)

(* requireVerifiedIdentity.  Without the service a valid token can be checked *)
(* only while the keys are at hand.  Mutant: an outage is taken for a missing *)
(* session.                                                                   *)
Identity_OutageIsMissing(s) ==
    IF s = "none" \/ (s = "expired" /\ ~up) THEN {"required"} ELSE {"ok"}

Identity(s) ==
    CASE s = "none" -> {"required"}
      [] s = "valid" -> IF up \/ mode = "mock" THEN {"ok"} ELSE {"ok", "unavailable"}
      [] OTHER -> IF ~up THEN {"unavailable"} ELSE IF spent THEN {"ok", "required"} ELSE {"ok"}

------------------------------------------------------------------------------
(* Pages and links *)

(* A click on "make an ad": the session is asked for first. *)
ClickEntry(t) ==
    /\ tab[t].at = "page"
    /\ Goes(t, [Step(t, IF mode \in {"disabled", "broken"} THEN "new" ELSE "asking",
                     "/new", "none") EXCEPT !.goal = "/new", !.lost = FALSE])
    /\ UNCHANGED <<outside, session, spent, kept, codes, begun>>

\* /api/auth/session: an outage is not "signed out".
SessionAnswer(s) ==
    CASE s = "none" -> "anonymous"
      [] s = "valid" /\ (up \/ mode = "mock") -> "authenticated"
      [] OTHER -> "unavailable"

(* resolveCampaignEntryPath: only a certain "no" leads to the sign-in,        *)
(* everything else is left to the page's own gate.                            *)
EntryPath(told) ==
    IF told # "anonymous" THEN "new" ELSE IF mode = "mock" THEN "gate" ELSE "google"

SessionTold(t) ==
    /\ tab[t].at = "asking"
    /\ \E s \in AfterProxy : \E told \in {SessionAnswer(s), "unavailable"} :
        GoesWith(t, Redirected(t, EntryPath(told), "/new", "none"), s)
    /\ UNCHANGED <<outside, kept, codes, begun>>

(* resolveCampaignEntryGate at /new *)
GateResults(s) ==
    CASE mode = "disabled" -> {"ok"}
      [] mode = "broken" -> {"auth_not_configured"}
      [] OTHER -> Identity(s)

OpenNew(t) ==
    /\ tab[t].at = "new"
    /\ \E s \in AfterProxy : \E gate \in GateResults(s) :
        GoesWith(t, CASE gate = "ok" -> [tab[t] EXCEPT !.at = "page"]
                      [] gate = "required" -> Redirected(t, "gate", "/new", "none")
                      [] gate = "unavailable" -> Redirected(t, "gate", "/new", "session_unavailable")
                      [] OTHER -> Redirected(t, "gate", "/new", gate), s)
    /\ UNCHANGED <<outside, kept, codes, begun>>

(* LoginGate.  /login is not matched by the proxy: a session refreshed here   *)
(* is not written back.  Mutant: an error does not keep a signed-in user on   *)
(* the page.                                                                  *)
PassesOn_Always(authenticated, error) == authenticated

PassesOn(authenticated, error) == authenticated /\ error = "none"

LoginGate(t) ==
    /\ tab[t].at = "gate"
    /\ \E identity \in IF mode \in {"disabled", "broken"} THEN {"off"} ELSE Identity(session) :
       LET error == IF tab[t].error # "none" THEN tab[t].error
                    ELSE IF mode = "broken" THEN "auth_not_configured"
                    ELSE IF identity = "unavailable" THEN "session_unavailable" ELSE "none"
       IN  /\ Goes(t, IF PassesOn(identity = "ok", error)
                      THEN Redirected(t, OpenAt(tab[t].next), tab[t].next, "none")
                      ELSE [tab[t] EXCEPT !.at = "login", !.error = error,
                                          !.arrival = IF identity = "ok" THEN "known" ELSE "none"])
           /\ spent' = (spent \/ (session = "expired" /\ identity = "ok"))
    /\ UNCHANGED <<outside, session, kept, codes, begun>>

\* The login page is opened by its own address.
OpenLogin(t) ==
    /\ tab[t].at \in {"page", "login"}
    /\ Goes(t, [Step(t, "gate", "/", "none") EXCEPT !.goal = "/", !.lost = FALSE])
    /\ UNCHANGED <<outside, session, spent, kept, codes, begun>>

(* The button of the login panel.  In mock mode the way leads home. *)
ClickLogin(t) ==
    /\ tab[t].at = "login"
    /\ IF tab[t].arrival = "known"
       THEN Goes(t, Step(t, OpenAt(tab[t].next), tab[t].next, "none"))
       ELSE /\ mode \in {"supabase", "mock"}
            /\ Goes(t, IF mode = "mock"
                       THEN [Step(t, "google", "/", "none") EXCEPT !.lost = TRUE]
                       ELSE Step(t, "google", tab[t].next, "none"))
    /\ UNCHANGED <<outside, session, spent, kept, codes, begun>>

(* A link to the sign-in: the header's, with the page it is on, or any other. *)
FollowLink(t, path) ==
    /\ tab[t].at = "page" /\ mode \in {"supabase", "mock"}
    /\ Goes(t, [Step(t, "google", path, "none") EXCEPT !.goal = Sanitized(path), !.lost = FALSE])
    /\ UNCHANGED <<outside, session, spent, kept, codes, begun>>

------------------------------------------------------------------------------
(* The routes under /auth *)

\* The key of a flow's cookie.  Mutant: one cookie for all flows.
Cookie_Shared(f) == 1

Cookie(f) == f

(* handleGoogleSignIn, with the redirect to the canonical origin before it    *)
(* when the page was opened under another name.                               *)
StartGoogle(t) ==
    /\ tab[t].at = "google" /\ mode = "supabase"
    /\ LET next == Sanitized(tab[t].next) IN
       \/ /\ up /\ begun < MaxFlows
          /\ begun' = begun + 1
          /\ kept' = [kept EXCEPT ![Cookie(begun + 1)] = next]
          /\ Through(t, [Redirected(t, "provider", next, "none") EXCEPT !.flow = begun + 1])
       \/ /\ ~up
          /\ Through(t, Redirected(t, "error", next, "login_failed"))
          /\ UNCHANGED <<kept, begun>>
    /\ UNCHANGED <<outside, codes>>

\* beginPresentationGoogleSignIn
BeginPresentation(t) ==
    /\ tab[t].at = "google" /\ mode = "mock"
    /\ LET next == Sanitized(tab[t].next)
       IN  GoesWith(t, Redirected(t, OpenAt(next), next, "none"), "valid")
    /\ UNCHANGED <<outside, kept, codes, begun>>

\* Google sends the browser back; "garbled" has lost the flow or the code.
ProviderAnswers(t) ==
    /\ tab[t].at = "provider"
    /\ \E arrival \in {"code", "denied", "garbled"} :
        Goes(t, [Step(t, "callback", "/", "none") EXCEPT !.arrival = arrival])
    /\ UNCHANGED <<outside, session, spent, kept, codes, begun>>

\* Back to the address of the callback.
CallAgain(t) ==
    /\ tab[t].at \in {"page", "login"} /\ tab[t].flow # NoFlow /\ mode = "supabase"
    /\ Goes(t, [Step(t, "callback", "/", "none") EXCEPT !.arrival = "code"])
    /\ UNCHANGED <<outside, session, spent, kept, codes, begun>>

(* handleAuthCallback: the continuation is taken before the code is tried. *)
Taken(f) == kept' = [kept EXCEPT ![Cookie(f)] = "gone"]
Continuation(f) == IF kept[Cookie(f)] = "gone" THEN "/" ELSE kept[Cookie(f)]

Callback(t) ==
    /\ tab[t].at = "callback"
    /\ LET f == tab[t].flow
           Sent(at, next, error) ==
               [Redirected(t, at, next, error) EXCEPT !.arrival = "none",
                   !.flow = IF tab[t].arrival = "code" THEN f ELSE NoFlow,
                   !.lost = @ \/ tab[t].arrival = "garbled" \/ kept[f] = "gone"]
       IN \/ /\ tab[t].arrival = "garbled"
             /\ Through(t, Sent("error", "/", "invalid_request"))
             /\ UNCHANGED <<kept, codes>>
          \/ /\ tab[t].arrival = "denied"
             /\ Taken(f) /\ Through(t, Sent("error", Continuation(f), "provider_denied"))
             /\ UNCHANGED codes
          \/ /\ tab[t].arrival = "code" /\ up /\ ~codes[f]
             /\ Taken(f) /\ codes' = [codes EXCEPT ![f] = TRUE]
             /\ GoesWith(t, Sent(OpenAt(Continuation(f)), Continuation(f), "none"), "valid")
          \/ /\ tab[t].arrival = "code" /\ (codes[f] \/ ~up)
             /\ Taken(f) /\ Through(t, Sent("error", Continuation(f), "callback_failed"))
             /\ UNCHANGED codes
    /\ UNCHANGED <<outside, begun>>

(* /auth/error hands the code and the way to the login page. *)
ErrorRoute(t) ==
    /\ tab[t].at = "error"
    /\ Through(t, Redirected(t, "gate", Sanitized(tab[t].next), tab[t].error))
    /\ UNCHANGED <<outside, kept, codes, begun>>

(* handleLogout; without the service it leads to the error page.              *)
Logout(t) ==
    /\ tab[t].at = "page" /\ session # "none" /\ mode = "supabase"
    /\ IF up THEN GoesWith(t, Step(t, OpenAt(tab[t].next), tab[t].next, "none"), "none")
             ELSE Goes(t, Step(t, "error", tab[t].next, "logout_failed"))
                  /\ UNCHANGED <<session, spent>>
    /\ UNCHANGED <<outside, kept, codes, begun>>

EndPresentation(t) ==
    /\ tab[t].at = "page" /\ session # "none" /\ mode = "mock"
    /\ GoesWith(t, Step(t, OpenAt(tab[t].next), tab[t].next, "none"), "none")
    /\ UNCHANGED <<outside, kept, codes, begun>>

------------------------------------------------------------------------------
(* From outside *)

Rested == [t \in Tabs |-> [tab[t] EXCEPT !.hops = 0]]

Outside ==
    /\ changes < MaxChanges /\ changes' = changes + 1
    /\ tab' = Rested
    /\ \/ up' = ~up /\ UNCHANGED <<session, spent, kept>>
       \/ /\ session = "valid"
          /\ session' = IF mode = "mock" THEN "none" ELSE "expired"
          /\ UNCHANGED <<up, spent, kept>>
       \/ session # "none" /\ session' = "none" /\ spent' = FALSE /\ UNCHANGED <<up, kept>>
       \/ \E f \in Flows : /\ kept[f] # "gone"
                           /\ kept' = [kept EXCEPT ![f] = "gone"]
                           /\ UNCHANGED <<up, session, spent>>
    /\ UNCHANGED <<mode, codes, begun>>

Next ==
    \/ \E t \in Tabs :
        \/ ClickEntry(t) \/ SessionTold(t) \/ OpenNew(t) \/ LoginGate(t)
        \/ OpenLogin(t) \/ ClickLogin(t)
        \/ \E path \in Paths : FollowLink(t, path)
        \/ StartGoogle(t) \/ BeginPresentation(t) \/ ProviderAnswers(t) \/ CallAgain(t) \/ Callback(t)
        \/ ErrorRoute(t) \/ Logout(t) \/ EndPresentation(t)
    \/ Outside

Spec == Init /\ [][Next]_vars

------------------------------------------------------------------------------
Errors == {"none", "auth_not_configured", "session_unavailable", "login_failed",
           "callback_failed", "provider_denied", "invalid_request", "logout_failed"}

TypeOK ==
    /\ mode \in Modes /\ session \in {"none", "valid", "expired"}
    /\ spent \in BOOLEAN /\ up \in BOOLEAN
    /\ kept \in [Flows -> Pages \cup {"gone"}] /\ codes \in [Flows -> BOOLEAN]
    /\ tab \in [Tabs -> [at: {"page", "asking", "new", "gate", "login", "google",
                              "provider", "callback", "error"},
                         next: Paths, error: Errors, flow: Flows \cup {NoFlow},
                         arrival: {"none", "code", "denied", "garbled", "known"},
                         goal: Pages, lost: BOOLEAN, hops: Nat]]
    /\ begun \in 0..MaxFlows /\ changes \in 0..MaxChanges

(* Through every redirect, error and second try, and never back and forth     *)
(* between the gates of /new and /login, the tab goes where its user          *)
(* wanted to, whatever the other tabs do, or home once the continuation of    *)
(* its flow was taken, had expired or never came back (sanitizeNextPath, the  *)
(* continuation store, authErrorUrl and LoginGate).                           *)
WayIsKept ==
    \A t \in Tabs :
        /\ tab[t].hops <= MaxHops
        /\ tab[t].at \in {"page", "login"} =>
            tab[t].next = tab[t].goal \/ (tab[t].lost /\ tab[t].next = "/")

(* A step that fails ends at the login page with its error, also when there   *)
(* is a session by then; it is not lost in a redirect.                        *)
FailureIsTold ==
    [][\A t \in Tabs :
        tab[t].error # "none" /\ tab'[t].error = "none" =>
            tab[t].at = "login" \/ tab'[t] = tab[t]]_vars

(* authorization.ts:39: an outage is not shown as a missing session.  A tab   *)
(* is asked to sign in without an explanation only when there is no session,  *)
(* or none that can be refreshed.                                             *)
AskedOnlyWithoutSession ==
    [][\A t \in Tabs :
        /\ tab[t].at = "gate" /\ tab'[t].at = "login" /\ tab'[t].error = "none"
        /\ mode = "supabase"
        => session = "none" \/ spent]_vars

------------------------------------------------------------------------------
(* What the documents say and the code does not do.                           *)

(* supabase/server.ts:27: "The root proxy refreshes sessions before           *)
(* rendering", so that no page refreshes one whose cookie it cannot write.    *)
RefreshIsWritten == ~spent
==============================================================================
