---------------------------- MODULE PublicLanding ----------------------------
(***************************************************************************)
(* The public page of one campaign: the visit it reports, the Turnstile    *)
(* check, the form, and POST /api/reservations from its arrival to its     *)
(* answer.  The transaction that stores a reservation is one step here and *)
(* is modelled in ReservationIntake.                                       *)
(*                                                                         *)
(* A token is good for one verification.  It can be lost on the page, and  *)
(* spent without its reservation being stored; an answer can be lost while *)
(* its request goes on, and the form, which stays open to typing while it  *)
(* waits, can then be sent again.                                          *)
(***************************************************************************)
EXTENDS Naturals, FiniteSets

CONSTANTS
    Forms,        \* the visitors' tabs, each with the form
    Browser,      \* the browser of each tab, which keeps one visitor id
    Emails,
    Requests,     \* requests the server handles at the same time
    NoRequest,    \* no request
    MaxTokens,    \* bound: Turnstile tokens issued
    MaxTroubles,  \* bound: tokens and answers lost, services unavailable, pages left
    MaxDay        \* bound: UTC days

ASSUME NoneAssumption == NoRequest \notin Requests
ASSUME TokensAssumption ==
    /\ MaxTroubles \in Nat /\ MaxDay \in Nat
    /\ MaxTokens \in Nat /\ MaxTokens >= Cardinality(Forms) + 2 * MaxTroubles

VARIABLES
    exists,    \* the campaign is there
    reserved,  \* campaign_reservations: who has reserved
    visits,    \* campaign_daily_visitors: day and visitor
    form,      \* what each tab shows and waits for
    asked,     \* POST /api/reservations, from arrival to answer
    token,     \* what Turnstile knows of each token
    day,
    troubles,
    paid,      \* history: the token with which each reservation was stored
    visitors   \* history: the browsers that opened the page

stored   == <<exists, reserved, visits, paid>>
world    == <<day, troubles, visitors>>
pageVars == <<stored, world, form, asked, token>>

Tokens == 1..MaxTokens
Issued == {k \in Tokens : token[k] # "new"}

\* token 0: the page has none.  sent: the email of the request last sent.
TabStates == [screen: {"closed", "form", "submitted", "duplicate"},
              email: Emails, token: 0..MaxTokens,
              waits: Requests \cup {NoRequest}, sent: Emails]

Answers == {"inserted", "duplicate", "failed"}

RequestStates == [at: {"free", "verify", "record", "answered"}, email: Emails,
                  token: 0..MaxTokens, answer: Answers]

PageTypeOK ==
    /\ exists \in BOOLEAN
    /\ reserved \subseteq Emails
    /\ visits \subseteq (0..MaxDay) \X {Browser[t] : t \in Forms}
    /\ form \in [Forms -> TabStates]
    /\ asked \in [Requests -> RequestStates]
    /\ token \in [Tokens -> {"new", "good", "spent", "expired"}]
    /\ day \in 0..MaxDay
    /\ troubles \in 0..MaxTroubles
    /\ paid \in [Emails -> 0..MaxTokens]
    /\ visitors \subseteq {Browser[t] : t \in Forms}
    /\ \A t \in Forms : form[t].waits # NoRequest => asked[form[t].waits].at # "free"

Anyone == CHOOSE e \in Emails : TRUE

FreeRequest == [at |-> "free", email |-> Anyone, token |-> 0, answer |-> "failed"]

PageInit ==
    /\ exists = TRUE
    /\ reserved = {}
    /\ visits = {}
    /\ form = [t \in Forms |-> [screen |-> "closed", email |-> Anyone, token |-> 0,
                              waits |-> NoRequest, sent |-> Anyone]]
    /\ asked = [r \in Requests |-> FreeRequest]
    /\ token = [k \in Tokens |-> "new"]
    /\ day = 0 /\ troubles = 0
    /\ paid = [e \in Emails |-> 0]
    /\ visitors = {}

-----------------------------------------------------------------------------
(* The page. *)

Trouble ==
    /\ troubles < MaxTroubles
    /\ troubles' = troubles + 1

Filling(t) == form[t].screen = "form"
Submitting(t) == form[t].waits # NoRequest

\* The page reports the visit; the report may be lost, and a preview makes none.
Open(t) ==
    /\ form[t].screen = "closed" /\ exists
    /\ form' = [form EXCEPT ![t].screen = "form"]
    /\ \E reported \in BOOLEAN :
          visits' = IF reported THEN visits \cup {<<day, Browser[t]>>} ELSE visits
    /\ visitors' = visitors \cup {Browser[t]}
    /\ UNCHANGED <<exists, reserved, paid, day, troubles, asked, token>>

\* The request the page waited for is on its own; its answer, if any, is gone.
Forget(t) ==
    asked' = [r \in Requests |->
                  IF r = form[t].waits /\ asked[r].at = "answered"
                  THEN FreeRequest ELSE asked[r]]

\* The visitor leaves or loads the page again; a request goes on.
Leave(t) ==
    /\ Filling(t)
    /\ Trouble
    /\ form' = [form EXCEPT ![t].screen = "closed", ![t].token = 0, ![t].waits = NoRequest]
    /\ Forget(t)
    /\ UNCHANGED <<stored, day, visitors, token>>

\* The fields take what is typed, while a request is on its way too.
Type(t, e) ==
    /\ Filling(t)
    /\ form' = [form EXCEPT ![t].email = e]
    /\ UNCHANGED <<stored, world, asked, token>>

\* The widget hands the page a token.
Solve(t) ==
    /\ Filling(t) /\ form[t].token = 0
    /\ \E k \in Tokens \ Issued :
          /\ \A j \in 1..(k - 1) : j \in Issued
          /\ token' = [token EXCEPT ![k] = "good"]
          /\ form' = [form EXCEPT ![t].token = k]
    /\ UNCHANGED <<stored, world, asked>>

\* The token expires, or the widget fails: the page drops it and asks again.
Expire(t) ==
    /\ Filling(t) /\ form[t].token # 0
    /\ Trouble
    /\ token' = [token EXCEPT ![form[t].token] = IF @ = "good" THEN "expired" ELSE @]
    /\ form' = [form EXCEPT ![t].token = 0]
    /\ UNCHANGED <<stored, day, visitors, asked>>

Submit(t, r) ==
    /\ Filling(t) /\ ~Submitting(t) /\ form[t].token # 0
    /\ asked[r].at = "free"
    /\ asked' = [asked EXCEPT ![r] = [at |-> "verify", email |-> form[t].email,
                                          token |-> form[t].token, answer |-> "failed"]]
    /\ form' = [form EXCEPT ![t].waits = r, ![t].sent = form[t].email]
    /\ UNCHANGED <<stored, world, token>>

\* Mutant: the token is kept for the next try.
AfterFailure_KeepsToken(page) == [page EXCEPT !.waits = NoRequest]

\* resetTurnstile: the token may have been spent.
AfterFailure(page) == [page EXCEPT !.waits = NoRequest, !.token = 0]

\* Mutant: any answer with a body counts as stored.
Shown_Any(answer) == IF answer = "duplicate" THEN "duplicate" ELSE "submitted"

Shown(answer) ==
    CASE answer = "inserted"  -> "submitted"
      [] answer = "duplicate" -> "duplicate"
      [] answer = "failed"    -> "form"

Receive(t) ==
    LET r == form[t].waits IN
    /\ Submitting(t) /\ asked[r].at = "answered"
    /\ form' = [form EXCEPT ![t] =
                  IF Shown(asked[r].answer) = "form" THEN AfterFailure(@)
                  ELSE [@ EXCEPT !.waits = NoRequest, !.screen = Shown(asked[r].answer)]]
    /\ asked' = [asked EXCEPT ![r] = FreeRequest]
    /\ UNCHANGED <<stored, world, token>>

LoseAnswer(t) ==
    /\ Submitting(t)
    /\ Trouble
    /\ form' = [form EXCEPT ![t] = AfterFailure(@)]
    /\ Forget(t)
    /\ UNCHANGED <<stored, day, visitors, token>>

-----------------------------------------------------------------------------
(* The route. *)

Awaited(r) == \E t \in Forms : form[t].waits = r

\* An answer nobody waits for is gone with its request.
Answer(r, answer) ==
    asked' = [asked EXCEPT ![r] =
                   IF Awaited(r) THEN [@ EXCEPT !.at = "answered", !.answer = answer]
                   ELSE FreeRequest]

\* Mutant: the reservation is taken when Turnstile does not answer.
Unverified_FailOpen(r) == asked' = [asked EXCEPT ![r].at = "record"]

\* What becomes of a request whose token Turnstile does not confirm.
Unverified(r) == Answer(r, "failed")

Verify(r) ==
    LET k == asked[r].token IN
    /\ asked[r].at = "verify"
    /\ IF token[k] = "good"
       THEN /\ token' = [token EXCEPT ![k] = "spent"]
            /\ asked' = [asked EXCEPT ![r].at = "record"]
       ELSE Answer(r, "failed") /\ UNCHANGED token
    /\ UNCHANGED <<stored, world, form>>

\* Siteverify fails or takes too long; the token may be spent all the same.
VerifyUnavailable(r) ==
    LET k == asked[r].token IN
    /\ asked[r].at = "verify"
    /\ Trouble
    /\ token' \in {token, [token EXCEPT ![k] = IF @ = "good" THEN "spent" ELSE @]}
    /\ Unverified(r)
    /\ UNCHANGED <<stored, day, visitors, form>>

\* record_campaign_reservation, of an email that is not there.
Insert(r) ==
    /\ reserved' = reserved \cup {asked[r].email}
    /\ paid' = [paid EXCEPT ![asked[r].email] = asked[r].token]
    /\ UNCHANGED <<exists, visits>>

Known(r) == asked[r].email \in reserved

Record(r) ==
    /\ asked[r].at = "record"
    /\ \/ exists /\ ~Known(r) /\ Insert(r) /\ Answer(r, "inserted")
       \/ exists /\ Known(r) /\ Answer(r, "duplicate") /\ UNCHANGED stored
       \/ ~exists /\ Answer(r, "failed") /\ UNCHANGED stored
    /\ UNCHANGED <<world, form, token>>

\* A quota is full, or the store does not answer and may have stored.
RecordFails(r) ==
    /\ asked[r].at = "record"
    /\ Trouble
    /\ \/ exists /\ ~Known(r) /\ Insert(r)
       \/ UNCHANGED stored
    /\ Answer(r, "failed")
    /\ UNCHANGED <<day, visitors, form, token>>

-----------------------------------------------------------------------------
(* The owner deletes the campaign; a day passes. *)

Delete ==
    /\ exists
    /\ exists' = FALSE
    /\ reserved' = {} /\ visits' = {}
    /\ UNCHANGED <<paid, world, form, asked, token>>

NextDay ==
    /\ day < MaxDay
    /\ day' = day + 1
    /\ UNCHANGED <<stored, troubles, visitors, form, asked, token>>

\* The visits of the report.
LandingVisits == Cardinality(visits)

Serve(r) == Verify(r) \/ Record(r)

PageNext ==
    \/ \E t \in Forms :
          \/ Open(t) \/ Leave(t) \/ Solve(t) \/ Expire(t) \/ Receive(t) \/ LoseAnswer(t)
          \/ \E e \in Emails : Type(t, e)
          \/ \E r \in Requests : Submit(t, r)
    \/ \E r \in Requests : Serve(r) \/ VerifyUnavailable(r) \/ RecordFails(r)
    \/ Delete \/ NextDay

PageSpec == PageInit /\ [][PageNext]_pageVars

\* The server and the widget go on, and the visitor tries again.
FairPageSpec ==
    /\ PageSpec
    /\ \A t \in Forms : WF_pageVars(Solve(t)) /\ WF_pageVars(Receive(t))
                       /\ WF_pageVars(\E r \in Requests : Submit(t, r))
    /\ \A r \in Requests : WF_pageVars(Serve(r))

-----------------------------------------------------------------------------
(* Properties *)

\* docs/spec.md:85: a failure is never shown as a success.  Whoever is told that
\* the reservation was taken, or was there already, has one under the email sent,
\* whatever became of the answers before.
ToldIsStored ==
    \A t \in Forms :
        (exists /\ form[t].screen \in {"submitted", "duplicate"})
            => form[t].sent \in reserved

\* Each reservation is stored with a check of its own: no token pays for two, and
\* each was confirmed, though it could be sent again after a lost answer.
OneCheckEach ==
    \A e \in Emails : paid[e] # 0 =>
        /\ token[paid[e]] = "spent"
        /\ \A f \in Emails \ {e} : paid[f] # paid[e]

\* A visitor who keeps trying is told: a failure never leaves the form with a
\* token that can no longer be confirmed.
VisitorIsTold ==
    \A t \in Forms : Filling(t) ~> (~Filling(t) \/ ~exists)

------------------------------------------------------------------------------
(* What the documents say and the code does not do.                           *)

\* public-landing.tsx:355 tells the visitor that the operator can write to the
\* email that was entered.
EnteredIsStored ==
    \A t \in Forms :
        (exists /\ form[t].screen = "submitted") => form[t].email \in reserved

\* docs/spec.md:459: the report shows unique visits.
VisitsAreUnique == LandingVisits <= Cardinality(visitors)
=============================================================================
