---------------------------- MODULE ClientProofs ----------------------------
(***************************************************************************)
(* What holds of the four components that call the server and wait for its *)
(* answer: the wizard and the route that takes its idea (IdeaIntake), the  *)
(* public page and its form (PublicLanding), the way through the sign-in   *)
(* (SignIn), and the loop of the lifecycle worker (LifecycleQueue).  Each  *)
(* has its inductive invariant, a lemma for each action or kind of action, *)
(* and the theorems; no two of them share a variable.                      *)
(***************************************************************************)
EXTENDS IdeaIntake, PublicLanding, SignIn, LifecycleQueue,
        FiniteSetTheorems, WellFoundedInduction, TLAPS

\* Every set of naturals that is not empty has a least element: the intervals up
\* to its elements are finite sets, and strict inclusion of those is well founded.
LEMMA LeastExists ==
  ASSUME NEW S \in SUBSET Nat, S # {}
  PROVE  \E n \in S : \A m \in S : n <= m
<1> DEFINE T == {1..n : n \in S}
           R == StrictSubsetOrdering(Nat)
<1>1. IsWellFoundedOn(R, FiniteSubsetsOf(Nat))
  BY FS_StrictSubsetOrderingWellFounded
<1>2. T \subseteq FiniteSubsetsOf(Nat)
  <2>1. ASSUME NEW n \in S PROVE 1..n \in FiniteSubsetsOf(Nat)
    <3>1. IsFiniteSet(1..n)  BY FS_Interval
    <3>2. 1..n \subseteq Nat  OBVIOUS
    <3> QED BY <3>1, <3>2 DEF FiniteSubsetsOf
  <2> QED BY <2>1
<1>3. PICK x \in T : \A y \in T : ~ (<<y, x>> \in R)
  <2> HIDE DEF T, R
  <2>1. T # {}  BY DEF T
  <2> QED BY <1>1, <1>2, <2>1, WFMin
<1>4. PICK n \in S : x = 1..n  OBVIOUS
<1>5. ASSUME NEW m \in S PROVE n <= m
  <2>1. SUFFICES ASSUME m < n PROVE FALSE  OBVIOUS
  <2>2. 1..m \subseteq 1..n /\ 1..m # 1..n
    <3>1. n \in 1..n /\ n \notin 1..m  BY <2>1
    <3> QED BY <2>1, <3>1
  <2>3. <<1..m, 1..n>> \in R
    <3>1. 1..m \in SUBSET Nat /\ 1..n \in SUBSET Nat  OBVIOUS
    <3> QED BY <2>2, <3>1 DEF StrictSubsetOrdering
  <2> QED BY <1>3, <1>4, <2>3
<1> QED BY <1>5

------------------------------------------------------------------------------
(* IdeaIntake *)

WizardStates ==
    [page: {"wizard", "progress", "left"}, step: 1..2, idea: Ideas \cup {TooShort},
     attempt: [draft: Nat, idea: Ideas \cup {TooShort}],
     submitting: BOOLEAN, request: 0..MaxRequests, on: Int,
     pressed: SUBSET Nat, sent: SUBSET Nat]

PostStates ==
    [from: Wizards \cup Clients \cup {0}, draft: Nat, idea: Ideas \cup {TooShort},
     at: {"unsent", "sent", "absent", "refused", "answered", "delivered"}, answer: Int]

Rows == [draft: Nat, idea: Ideas \cup {TooShort}]

\* What the wizards, the requests and the rows hold.
IntakeShape ==
    /\ wizard \in [Wizards -> WizardStates]
    /\ post \in [1..MaxRequests -> PostStates]
    /\ used \in Nat /\ drawn \in Nat
    /\ DOMAIN campaigns \subseteq 1..used
    /\ \A i \in DOMAIN campaigns : campaigns[i] \in Rows

\* unique (owner_id, draft_id)
OneRowPerDraft ==
    \A i, j \in DOMAIN campaigns : campaigns[i].draft = campaigns[j].draft => i = j

\* Since its last edit a tab has pressed with its last attempt only.
OneAttempt ==
    \A t \in Wizards :
        /\ wizard[t].pressed \subseteq {wizard[t].attempt.draft}
        /\ wizard[t].pressed # {} => wizard[t].attempt.idea = wizard[t].idea

\* Campaign i, if it is there still, is of this idea; it has been there.
IsOf(i, idea) == i <= used /\ (i \in DOMAIN campaigns => campaigns[i].idea = idea)

\* An answer names a campaign of the idea that was sent.
AnswersMatch == \A r \in 1..MaxRequests : IsOf(post[r].answer, post[r].idea)

\* A wizard that waits holds the idea of the request it listens to.
Listening ==
    \A t \in Wizards : LET r == wizard[t].request IN r # 0 =>
        /\ wizard[t].page = "wizard" /\ wizard[t].submitting
        /\ post[r].at # "unsent" /\ post[r].idea = wizard[t].idea

Progress == \A t \in Wizards : wizard[t].page = "progress" => IsOf(wizard[t].on, wizard[t].idea)

IntakeInv == IntakeShape /\ OneRowPerDraft /\ OneAttempt /\ AnswersMatch /\ Listening /\ Progress

LEMMA IntakeStart == IntakeInit => IntakeInv
<1> USE IntakeAssumption
<1> SUFFICES ASSUME IntakeInit PROVE IntakeInv  OBVIOUS
<1>1. IntakeShape
  BY DEF IntakeShape, WizardStates, PostStates, Rows,
         IntakeAssumption, IntakeInit, FreshWizard, NotSent, None
<1>2. OneRowPerDraft /\ OneAttempt /\ Listening /\ Progress
  BY DEF OneRowPerDraft, OneAttempt, Listening, Progress, IntakeInit, FreshWizard, None
<1>3. AnswersMatch
  BY DEF AnswersMatch, IsOf, IntakeInit, NotSent, None
<1> QED BY <1>1, <1>2, <1>3 DEF IntakeInv

\* One tab changes.
LEMMA WizardChanges ==
  ASSUME IntakeShape, NEW t \in Wizards, NEW page \in WizardStates,
         wizard' = [wizard EXCEPT ![t] = page]
  PROVE  /\ wizard' \in [Wizards -> WizardStates]
         /\ wizard'[t] = page
         /\ \A u \in Wizards : u # t => wizard'[u] = wizard[u]
BY DEF IntakeShape

\* One request changes.
LEMMA PostChanges ==
  ASSUME IntakeShape, NEW r \in 1..MaxRequests, NEW new \in PostStates,
         post' = [post EXCEPT ![r] = new]
  PROVE  /\ post' \in [1..MaxRequests -> PostStates]
         /\ post'[r] = new
         /\ \A q \in 1..MaxRequests : q # r => post'[q] = post[q]
BY DEF IntakeShape

\* The next request is one that was not sent.
LEMMA NextIsUnsent ==
  ASSUME Unsent # {}
  PROVE  NextRequest \in 1..MaxRequests /\ post[NextRequest].at = "unsent"
<1> DEFINE S == Unsent
<1>1. S \in SUBSET Nat  BY DEF Unsent
<1>2. \E n \in S : \A m \in S : n <= m
  <2> HIDE DEF S
  <2> QED BY <1>1, LeastExists DEF S
<1>3. NextRequest \in S  BY <1>2 DEF NextRequest
<1> QED BY <1>3 DEF Unsent

\* What a new request changes, and what it does not.
LEMMA Sending ==
  ASSUME IntakeShape, NEW from \in Wizards \cup Clients, NEW draft \in Nat,
         NEW idea \in Ideas, Unsent # {}, Send(from, draft, idea)
  PROVE  LET n == NextRequest IN
         /\ post' \in [1..MaxRequests -> PostStates]
         /\ n \in 1..MaxRequests /\ post[n].at = "unsent"
         /\ post'[n].at = "sent" /\ post'[n].idea = idea /\ post'[n].answer = 0
         /\ \A r \in 1..MaxRequests : r # n => post'[r] = post[r]
<1> DEFINE n == NextRequest
           new == [from |-> from, draft |-> draft, idea |-> idea, at |-> "sent", answer |-> 0]
<1>1. n \in 1..MaxRequests /\ post[n].at = "unsent"  BY NextIsUnsent
<1>2. post' = [post EXCEPT ![n] = new]  BY DEF Send, None
<1>3. new \in PostStates  BY DEF PostStates
<1>4. new.at = "sent" /\ new.idea = idea /\ new.answer = 0  OBVIOUS
<1> HIDE DEF n, new
<1> QED BY <1>1, <1>2, <1>3, <1>4, PostChanges DEF n

LEMMA PressKeeps ==
  ASSUME IntakeAssumption, IntakeInv, NEW t \in Wizards, Press(t)
  PROVE  IntakeInv'
<1> DEFINE attempt == Attempt(t)
           n == NextRequest
           old == wizard[t]
           page == [old EXCEPT !.attempt = attempt, !.submitting = TRUE, !.request = n,
                               !.pressed = @ \cup {attempt.draft},
                               !.sent = @ \cup {attempt.draft}]
<1>0. /\ Editable(t) /\ old.idea # TooShort
      /\ Unsent # {}
      /\ Send(t, attempt.draft, attempt.idea)
      /\ drawn' = IF attempt.draft > drawn THEN attempt.draft ELSE drawn
      /\ UNCHANGED <<campaigns, used>>
  BY DEF Press
<1>1. IntakeShape /\ old \in WizardStates  BY DEF IntakeInv, IntakeShape
<1>2. attempt \in [draft: Nat, idea: Ideas \cup {TooShort}] /\ attempt.idea = old.idea
  BY <1>1 DEF Attempt, IntakeShape, WizardStates
<1>3. old.pressed \subseteq {attempt.draft}
  BY <1>1 DEF Attempt, IntakeInv, OneAttempt
<1>4. old.idea \in Ideas /\ old.page = "wizard" /\ ~old.submitting
  BY <1>0, <1>1 DEF WizardStates, Editable
<1>5. wizard' = [wizard EXCEPT ![t] = page]
  BY <1>1 DEF Press, IntakeShape
<1>6. /\ post' \in [1..MaxRequests -> PostStates]
      /\ n \in 1..MaxRequests /\ post[n].at = "unsent"
      /\ post'[n].at = "sent" /\ post'[n].idea = old.idea /\ post'[n].answer = 0
      /\ \A r \in 1..MaxRequests : r # n => post'[r] = post[r]
  <2> HIDE DEF attempt, n
  <2>1. attempt.draft \in Nat /\ attempt.idea \in Ideas  BY <1>2, <1>4
  <2> QED BY <1>0, <1>1, <1>2, <2>1, Sending DEF n
<1> HIDE DEF attempt, n, old
<1>7. /\ page \in WizardStates
      /\ page.page = "wizard" /\ page.submitting /\ page.idea = old.idea /\ page.request = n
      /\ page.attempt = attempt /\ page.pressed = old.pressed \cup {attempt.draft}
  <2>1. attempt.draft \in Nat /\ n \in 0..MaxRequests  BY <1>2, <1>6
  <2> QED BY <1>1, <1>2, <1>4, <2>1 DEF WizardStates
<1> HIDE DEF page
<1>8. /\ wizard' \in [Wizards -> WizardStates] /\ wizard'[t] = page
      /\ \A u \in Wizards : u # t => wizard'[u] = wizard[u]
  BY <1>1, <1>5, <1>7, WizardChanges
<1>9. IntakeShape'
  BY <1>0, <1>1, <1>2, <1>6, <1>8 DEF IntakeShape
<1>10. OneRowPerDraft'  BY <1>0 DEF IntakeInv, OneRowPerDraft
<1>11. OneAttempt'  BY <1>2, <1>3, <1>7, <1>8 DEF IntakeInv, OneAttempt
<1>12. AnswersMatch'
  <2>1. 0 \notin DOMAIN campaigns /\ used \in Nat  BY <1>1 DEF IntakeShape
  <2> QED BY <1>0, <1>6, <2>1 DEF IntakeInv, AnswersMatch, IsOf
<1>13. Listening'
  <2> SUFFICES ASSUME NEW u \in Wizards, wizard'[u].request # 0
               PROVE  /\ wizard'[u].page = "wizard" /\ wizard'[u].submitting
                      /\ post'[wizard'[u].request].at # "unsent"
                      /\ post'[wizard'[u].request].idea = wizard'[u].idea
    BY DEF Listening
  <2>1. CASE u = t  BY <2>1, <1>6, <1>7, <1>8
  <2>2. CASE u # t
    <3>1. wizard'[u] = wizard[u]  BY <2>2, <1>8
    <3>2. wizard[u].request \in 1..MaxRequests
      BY <3>1, <1>1 DEF IntakeShape, WizardStates
    <3>3. wizard[u].request # n  BY <3>1, <1>6 DEF IntakeInv, Listening
    <3> QED BY <3>1, <3>2, <3>3, <1>6 DEF IntakeInv, Listening
  <2> QED BY <2>1, <2>2
<1>14. Progress'  BY <1>0, <1>7, <1>8 DEF IntakeInv, Progress, IsOf
<1> QED BY <1>9, <1>10, <1>11, <1>12, <1>13, <1>14 DEF IntakeInv

LEMMA ClientPostsKeeps ==
  ASSUME IntakeInv, NEW c \in Clients, NEW draft \in Nat, NEW idea \in Ideas,
         ClientPosts(c, draft, idea)
  PROVE  IntakeInv'
<1> DEFINE n == NextRequest
<1>1. /\ Unsent # {} /\ Send(c, draft, idea)
      /\ UNCHANGED <<wizard, campaigns, used, drawn>>
  BY DEF ClientPosts
<1>2. IntakeShape  BY DEF IntakeInv
<1>3. /\ post' \in [1..MaxRequests -> PostStates]
      /\ n \in 1..MaxRequests /\ post[n].at = "unsent"
      /\ post'[n].at = "sent" /\ post'[n].answer = 0
      /\ \A r \in 1..MaxRequests : r # n => post'[r] = post[r]
  BY <1>1, <1>2, Sending
<1> HIDE DEF n
<1>4. IntakeShape'  BY <1>1, <1>2, <1>3 DEF IntakeShape
<1>5. OneRowPerDraft' /\ OneAttempt' /\ Progress'
  BY <1>1 DEF IntakeInv, OneRowPerDraft, OneAttempt, Progress, IsOf
<1>6. AnswersMatch'
  <2>1. 0 \notin DOMAIN campaigns /\ used \in Nat  BY <1>2 DEF IntakeShape
  <2> QED BY <1>1, <1>3, <2>1 DEF IntakeInv, AnswersMatch, IsOf
<1>7. Listening'
  <2>1. \A u \in Wizards : wizard[u].request \in 0..MaxRequests
    BY <1>2 DEF IntakeShape, WizardStates
  <2> QED BY <1>1, <1>3, <2>1 DEF IntakeInv, Listening
<1> QED BY <1>4, <1>5, <1>6, <1>7 DEF IntakeInv

\* Edit, GoTo, Leave, Open and ConnectionLost change their own tab only.
LEMMA WizardKeeps ==
  ASSUME IntakeAssumption, IntakeInv, NEW t \in Wizards,
         \/ \E idea \in Ideas : Edit(t, idea)
         \/ \E step \in 1..2 : GoTo(t, step)
         \/ LeaveWizard(t) \/ OpenWizard(t) \/ ConnectionLost(t)
  PROVE  IntakeInv'
<1> DEFINE old == wizard[t]
           Kept(page) ==
             /\ page \in WizardStates
             /\ page.request # 0 => /\ page.request = old.request /\ page.page = old.page
                                    /\ page.submitting = old.submitting
                                    /\ page.idea = old.idea
             /\ page.page = "progress" => page = old
             /\ page.pressed # {} => /\ page.pressed = old.pressed
                                     /\ page.attempt = old.attempt /\ page.idea = old.idea
<1>0. UNCHANGED <<post, campaigns, used, drawn>>
  BY DEF Edit, GoTo, LeaveWizard, OpenWizard, ConnectionLost
<1>1. IntakeShape /\ old \in WizardStates  BY DEF IntakeInv, IntakeShape
<1>2. \E page : Kept(page) /\ wizard' = [wizard EXCEPT ![t] = page]
  <2>1. ASSUME NEW idea \in Ideas, Edit(t, idea)
        PROVE  \E page : Kept(page) /\ wizard' = [wizard EXCEPT ![t] = page]
    <3> DEFINE page == [old EXCEPT !.idea = idea, !.pressed = {}]
    <3>1. old.page = "wizard" /\ ~old.submitting /\ old.request = 0
      BY <2>1 DEF Edit, Editable, IntakeInv, Listening
    <3>2. wizard' = [wizard EXCEPT ![t] = page]  BY <2>1, <1>1 DEF Edit, IntakeShape
    <3> HIDE DEF old
    <3>3. Kept(page)  BY <1>1, <3>1 DEF WizardStates
    <3> HIDE DEF page, Kept
    <3> QED BY <3>2, <3>3
  <2>2. ASSUME NEW step \in 1..2, GoTo(t, step)
        PROVE  \E page : Kept(page) /\ wizard' = [wizard EXCEPT ![t] = page]
    <3> DEFINE page == [old EXCEPT !.step = step]
    <3>1. wizard' = [wizard EXCEPT ![t] = page]  BY <2>2, <1>1 DEF GoTo, IntakeShape
    <3>2. old.page = "wizard"  BY <2>2 DEF GoTo
    <3> HIDE DEF old
    <3>3. Kept(page)  BY <1>1, <3>2 DEF WizardStates
    <3> HIDE DEF page, Kept
    <3> QED BY <3>1, <3>3
  <2>3. ASSUME LeaveWizard(t) \/ OpenWizard(t)
        PROVE  \E page : Kept(page) /\ wizard' = [wizard EXCEPT ![t] = page]
    <3> DEFINE page(where) ==
          [page |-> where, step |-> 1, idea |-> TooShort,
           attempt |-> [draft |-> 0, idea |-> TooShort], submitting |-> FALSE,
           request |-> 0, on |-> 0, pressed |-> {}, sent |-> {}]
    <3>1. \E where \in {"wizard", "left"} : wizard' = [wizard EXCEPT ![t] = page(where)]
      BY <2>3 DEF LeaveWizard, OpenWizard, FreshWizard, None
    <3> HIDE DEF old
    <3>2. \A where \in {"wizard", "left"} : Kept(page(where))
      BY DEF WizardStates, IntakeAssumption
    <3> HIDE DEF page, Kept
    <3> QED BY <3>1, <3>2
  <2>4. ASSUME ConnectionLost(t)
        PROVE  \E page : Kept(page) /\ wizard' = [wizard EXCEPT ![t] = page]
    <3> DEFINE page == [old EXCEPT !.request = 0, !.submitting = FALSE]
    <3>1. wizard' = [wizard EXCEPT ![t] = page]
      BY <2>4, <1>1 DEF ConnectionLost, ErrorShown, None, IntakeShape
    <3>2. old.page = "wizard"  BY <2>4 DEF ConnectionLost
    <3> HIDE DEF old
    <3>3. 0 \in 0..MaxRequests  BY DEF IntakeAssumption
    <3>4. Kept(page)  BY <1>1, <3>2, <3>3 DEF WizardStates
    <3> HIDE DEF page, Kept
    <3> QED BY <3>1, <3>4
  <2> QED BY <2>1, <2>2, <2>3, <2>4
<1>3. PICK page : Kept(page) /\ wizard' = [wizard EXCEPT ![t] = page]  BY <1>2
<1>4. /\ wizard' \in [Wizards -> WizardStates] /\ wizard'[t] = page
      /\ \A u \in Wizards : u # t => wizard'[u] = wizard[u]
  BY <1>1, <1>3, WizardChanges
<1>5. IntakeShape'  BY <1>0, <1>1, <1>4 DEF IntakeShape
<1>6. OneRowPerDraft' /\ AnswersMatch'
  BY <1>0 DEF IntakeInv, OneRowPerDraft, AnswersMatch, IsOf
<1>7. OneAttempt'  BY <1>3, <1>4 DEF IntakeInv, OneAttempt
<1>8. Listening'  BY <1>0, <1>3, <1>4 DEF IntakeInv, Listening
<1>9. Progress'  BY <1>0, <1>3, <1>4 DEF IntakeInv, Progress, IsOf
<1> QED BY <1>5, <1>6, <1>7, <1>8, <1>9 DEF IntakeInv

LEMMA AnswerArrivesKeeps ==
  ASSUME IntakeAssumption, IntakeInv, NEW t \in Wizards, NEW r \in 1..MaxRequests,
         AnswerArrives(t, r)
  PROVE  IntakeInv'
<1> DEFINE old == wizard[t]
           page == IF post[r].answer \in CampaignIds
                   THEN [old EXCEPT !.request = 0, !.page = "progress", !.on = post[r].answer]
                   ELSE [old EXCEPT !.request = 0, !.submitting = FALSE]
           new == [post[r] EXCEPT !.at = "delivered"]
<1>0. /\ old.page = "wizard" /\ old.request = r /\ r # 0
      /\ UNCHANGED <<campaigns, used, drawn>>
  BY DEF AnswerArrives, Listens
<1>1. IntakeShape /\ old \in WizardStates /\ post[r] \in PostStates
  BY DEF IntakeInv, IntakeShape
<1>2. wizard' = [wizard EXCEPT ![t] = page]
  BY <1>1 DEF AnswerArrives, ErrorShown, None, IntakeShape
<1>3. post' = [post EXCEPT ![r] = new]
  BY <1>1 DEF AnswerArrives, IntakeShape
<1>4. /\ new \in PostStates /\ new.answer = post[r].answer /\ new.idea = post[r].idea
      /\ new.at = "delivered"
  BY <1>1 DEF PostStates
<1>5. post[r].answer \in Int  BY <1>1 DEF PostStates
<1> HIDE DEF old, new
<1>6. /\ page \in WizardStates /\ page.request = 0 /\ page.idea = old.idea
      /\ page.pressed = old.pressed /\ page.attempt = old.attempt
      /\ page.page = "progress" => page.on = post[r].answer
  <2>1. 0 \in 0..MaxRequests  BY DEF IntakeAssumption
  <2> QED BY <1>0, <1>1, <1>5, <2>1 DEF WizardStates
<1> HIDE DEF page
<1>7. /\ wizard' \in [Wizards -> WizardStates] /\ wizard'[t] = page
      /\ \A u \in Wizards : u # t => wizard'[u] = wizard[u]
  BY <1>1, <1>2, <1>6, WizardChanges
<1>8. /\ post' \in [1..MaxRequests -> PostStates] /\ post'[r] = new
      /\ \A q \in 1..MaxRequests : q # r => post'[q] = post[q]
  BY <1>1, <1>3, <1>4, PostChanges
<1>9. IntakeShape'  BY <1>0, <1>1, <1>7, <1>8 DEF IntakeShape
<1>10. OneRowPerDraft' /\ AnswersMatch'
  BY <1>0, <1>4, <1>8 DEF IntakeInv, OneRowPerDraft, AnswersMatch, IsOf
<1>11. OneAttempt'  BY <1>6, <1>7 DEF IntakeInv, OneAttempt, old
<1>12. Listening'
  <2>1. \A u \in Wizards : wizard[u].request \in 0..MaxRequests
    BY <1>1 DEF IntakeShape, WizardStates
  <2> QED BY <1>4, <1>6, <1>7, <1>8, <2>1 DEF IntakeInv, Listening
<1>13. Progress'
  <2>1. IsOf(post[r].answer, old.idea)
    BY <1>0 DEF IntakeInv, AnswersMatch, Listening, old
  <2> QED BY <1>0, <1>6, <1>7, <2>1 DEF IntakeInv, Progress, IsOf
<1> QED BY <1>9, <1>10, <1>11, <1>12, <1>13 DEF IntakeInv

\* A request that goes on: a step of the server that inserts nothing.
LEMMA GoingOnKeeps ==
  ASSUME IntakeInv, NEW r \in 1..MaxRequests, NEW new \in PostStates,
         UNCHANGED <<wizard, campaigns, used, drawn>>,
         post' = [post EXCEPT ![r] = new],
         new.at # "unsent", new.idea = post[r].idea, IsOf(new.answer, new.idea)
  PROVE  IntakeInv'
<1>1. IntakeShape  BY DEF IntakeInv
<1>2. /\ post' \in [1..MaxRequests -> PostStates] /\ post'[r] = new
      /\ \A q \in 1..MaxRequests : q # r => post'[q] = post[q]
  BY <1>1, PostChanges
<1>3. IntakeShape'  BY <1>1, <1>2 DEF IntakeShape
<1>4. OneRowPerDraft' /\ OneAttempt' /\ Progress'
  BY DEF IntakeInv, OneRowPerDraft, OneAttempt, Progress, IsOf
<1>5. AnswersMatch'  BY <1>2 DEF IntakeInv, AnswersMatch, IsOf
<1>6. Listening'
  <2>1. \A u \in Wizards : wizard[u].request \in 0..MaxRequests
    BY <1>1 DEF IntakeShape, WizardStates
  <2> QED BY <1>2, <2>1 DEF IntakeInv, Listening
<1> QED BY <1>3, <1>4, <1>5, <1>6 DEF IntakeInv

LEMMA AnsweredKeeps ==
  ASSUME IntakeInv, NEW r \in 1..MaxRequests, UNCHANGED <<wizard, campaigns, used, drawn>>,
         NEW answer \in Int, IsOf(answer, post[r].idea), Answered(r, answer)
  PROVE  IntakeInv'
<1> DEFINE old == post[r]
           new == [old EXCEPT !.at = "answered", !.answer = answer]
<1>1. old \in PostStates  BY DEF IntakeInv, IntakeShape
<1>2. post' = [post EXCEPT ![r] = new]
  BY DEF Answered, IntakeInv, IntakeShape
<1> HIDE DEF old
<1>3. new \in PostStates /\ new.at = "answered" /\ new.answer = answer /\ new.idea = old.idea
  BY <1>1 DEF PostStates
<1> HIDE DEF new
<1> QED BY <1>2, <1>3, GoingOnKeeps DEF old

LEMMA WaitingKeeps ==
  ASSUME IntakeInv, NEW r \in 1..MaxRequests, UNCHANGED <<wizard, campaigns, used, drawn>>,
         NEW at \in {"absent", "refused"}, post' = [post EXCEPT ![r].at = at]
  PROVE  IntakeInv'
<1> DEFINE old == post[r]
           new == [old EXCEPT !.at = at]
<1>1. old \in PostStates  BY DEF IntakeInv, IntakeShape
<1>2. post' = [post EXCEPT ![r] = new]  BY DEF IntakeInv, IntakeShape
<1>3. IsOf(old.answer, old.idea)  BY DEF IntakeInv, AnswersMatch
<1> HIDE DEF old
<1>4. new \in PostStates /\ new.at = at /\ new.answer = old.answer /\ new.idea = old.idea
  BY <1>1 DEF PostStates
<1> HIDE DEF new
<1> QED BY <1>2, <1>3, <1>4, GoingOnKeeps DEF old

\* What the server finds under a draft, or an error, is an answer of the idea.
LEMMA FoundIsAnAnswer ==
  ASSUME IntakeInv, NEW r \in 1..MaxRequests,
         FoundDraft(r) \/ Answered(r, Failed)
  PROVE  \E answer \in Int : IsOf(answer, post[r].idea) /\ Answered(r, answer)
<1>1. \A answer \in {Conflict, Failed} : answer \in Int /\ IsOf(answer, post[r].idea)
  BY DEF Conflict, Failed, IsOf, IntakeInv, IntakeShape
<1>2. CASE FoundDraft(r)
  <2>1. PICK i \in DOMAIN campaigns :
            Answered(r, IF SameInput(i, r) THEN i ELSE Conflict)
    BY <1>2 DEF FoundDraft, WithDraft
  <2>2. SameInput(i, r) => i \in Int /\ IsOf(i, post[r].idea)
    BY DEF SameInput, IsOf, IntakeInv, IntakeShape
  <2> QED BY <1>1, <2>1, <2>2
<1> QED BY <1>1, <1>2

LEMMA InsertKeeps ==
  ASSUME IntakeInv, NEW r \in 1..MaxRequests, InsertCampaign(r)
  PROVE  IntakeInv'
<1>1. CASE DraftTaken(post[r].draft)
  BY <1>1, WaitingKeeps DEF InsertCampaign
<1>2. CASE ~DraftTaken(post[r].draft)
  <2> DEFINE old == post[r]
             row == [draft |-> old.draft, idea |-> old.idea]
  <2>1. /\ used' = used + 1 /\ UNCHANGED <<wizard, drawn>>
        /\ campaigns' = [i \in DOMAIN campaigns \cup {used + 1} |->
               IF i = used + 1 THEN row ELSE campaigns[i]]
    BY <1>2 DEF InsertCampaign
  <2>2. PICK answer \in {used + 1, Failed} : Answered(r, answer)
    BY <1>2 DEF InsertCampaign
  <2> DEFINE new == [old EXCEPT !.at = "answered", !.answer = answer]
  <2>3. IntakeShape /\ old \in PostStates  BY DEF IntakeInv, IntakeShape
  <2>4. post' = [post EXCEPT ![r] = new]
    BY <2>2, <2>3 DEF Answered, IntakeShape
  <2>5. \A i \in DOMAIN campaigns : i \in Nat /\ i <= used /\ campaigns[i].draft # old.draft
    BY <1>2, <2>3 DEF DraftTaken, WithDraft, IntakeShape
  <2> HIDE DEF old
  <2>6. row \in Rows /\ row.idea = old.idea /\ row.draft = old.draft
    BY <2>3 DEF PostStates, Rows
  <2>7. answer \in Int /\ (answer = used + 1 \/ answer <= -1)
    BY <2>3 DEF Failed, IntakeShape
  <2>8. new \in PostStates /\ new.at = "answered" /\ new.answer = answer /\ new.idea = old.idea
    BY <2>3, <2>7 DEF PostStates
  <2> HIDE DEF row, new
  <2>9. /\ DOMAIN campaigns' = DOMAIN campaigns \cup {used + 1}
        /\ campaigns'[used + 1] = row
        /\ \A i \in DOMAIN campaigns : i # used + 1 /\ campaigns'[i] = campaigns[i]
    BY <2>1, <2>3, <2>5 DEF IntakeShape
  <2>10. /\ post' \in [1..MaxRequests -> PostStates] /\ post'[r] = new
         /\ \A q \in 1..MaxRequests : q # r => post'[q] = post[q]
    BY <2>3, <2>4, <2>8, PostChanges
  <2>11. ASSUME NEW i \in Int, NEW idea, IsOf(i, idea)
         PROVE  i <= used' /\ (i \in DOMAIN campaigns' => campaigns'[i].idea = idea)
    BY <2>1, <2>3, <2>9, <2>11 DEF IsOf, IntakeShape
  <2>12. IntakeShape'  BY <2>1, <2>3, <2>6, <2>9, <2>10 DEF IntakeShape
  <2>13. OneRowPerDraft'
    <3> SUFFICES ASSUME NEW i \in DOMAIN campaigns', NEW j \in DOMAIN campaigns',
                        campaigns'[i].draft = campaigns'[j].draft
                 PROVE  i = j
      BY DEF OneRowPerDraft
    <3> QED BY <2>5, <2>6, <2>9 DEF IntakeInv, OneRowPerDraft
  <2>14. AnswersMatch'
    <3> SUFFICES ASSUME NEW q \in 1..MaxRequests
                 PROVE  /\ post'[q].answer <= used'
                        /\ post'[q].answer \in DOMAIN campaigns' =>
                               campaigns'[post'[q].answer].idea = post'[q].idea
      BY DEF AnswersMatch, IsOf
    <3>1. CASE q = r
      <4>1. answer <= used'  BY <2>1, <2>3, <2>7 DEF IntakeShape
      <4>2. answer \in DOMAIN campaigns' => answer = used + 1
        BY <2>5, <2>7, <2>9
      <4> QED BY <3>1, <4>1, <4>2, <2>6, <2>8, <2>9, <2>10
    <3>2. CASE q # r
      <4>1. post'[q] = post[q] /\ IsOf(post[q].answer, post[q].idea)
        BY <3>2, <2>10 DEF IntakeInv, AnswersMatch
      <4>2. post[q].answer \in Int  BY <2>3 DEF IntakeShape, PostStates
      <4> QED BY <4>1, <4>2, <2>11
    <3> QED BY <3>1, <3>2
  <2>15. OneAttempt'  BY <2>1 DEF IntakeInv, OneAttempt
  <2>16. Listening'
    <3>1. \A u \in Wizards : wizard[u].request \in 0..MaxRequests
      BY <2>3 DEF IntakeShape, WizardStates
    <3> QED BY <2>1, <2>8, <2>10, <3>1 DEF IntakeInv, Listening, old
  <2>17. Progress'
    <3>1. \A u \in Wizards : wizard[u].on \in Int  BY <2>3 DEF IntakeShape, WizardStates
    <3>2. ASSUME NEW u \in Wizards, wizard[u].page = "progress"
          PROVE  /\ wizard[u].on <= used'
                 /\ wizard[u].on \in DOMAIN campaigns' =>
                        campaigns'[wizard[u].on].idea = wizard[u].idea
      BY <3>1, <3>2, <2>11 DEF IntakeInv, Progress
    <3> QED BY <2>1, <3>2 DEF Progress, IsOf
  <2> QED BY <2>12, <2>13, <2>14, <2>15, <2>16, <2>17 DEF IntakeInv
<1> QED BY <1>1, <1>2

LEMMA ServerKeeps ==
  ASSUME IntakeInv, NEW r \in 1..MaxRequests, ServerStep(r)
  PROVE  IntakeInv'
<1>1. CASE LookUp(r)
  BY <1>1, FoundIsAnAnswer, AnsweredKeeps, WaitingKeeps DEF LookUp
<1>2. CASE InsertCampaign(r)  BY <1>2, InsertKeeps
<1>3. CASE LookUpAgain(r)
  BY <1>3, FoundIsAnAnswer, AnsweredKeeps DEF LookUpAgain
<1>4. CASE ServerFails(r)
  BY <1>4, FoundIsAnAnswer, AnsweredKeeps DEF ServerFails
<1> QED BY <1>1, <1>2, <1>3, <1>4 DEF ServerStep

LEMMA DeleteKeeps ==
  ASSUME IntakeInv, NEW i, DeleteCampaign(i)
  PROVE  IntakeInv'
<1>1. /\ UNCHANGED <<wizard, post, used, drawn>>
      /\ campaigns' = [j \in DOMAIN campaigns \ {i} |-> campaigns[j]]
  BY DEF DeleteCampaign
<1> QED BY <1>1 DEF IntakeInv, IntakeShape, OneRowPerDraft, OneAttempt, AnswersMatch,
                    Listening, Progress, IsOf

LEMMA IntakeStep ==
  ASSUME IntakeInv, [IntakeNext]_intakeVars
  PROVE  IntakeInv'
<1> USE IntakeAssumption
<1>1. CASE UNCHANGED intakeVars
  BY <1>1 DEF intakeVars, IntakeInv, IntakeShape, OneRowPerDraft, OneAttempt, AnswersMatch,
              Listening, Progress, IsOf
<1>2. ASSUME NEW t \in Wizards, Press(t) PROVE IntakeInv'
  BY <1>2, PressKeeps
<1>3. ASSUME NEW t \in Wizards, NEW r \in 1..MaxRequests, AnswerArrives(t, r)
      PROVE  IntakeInv'
  BY <1>3, AnswerArrivesKeeps
<1>4. ASSUME NEW t \in Wizards,
             \/ \E idea \in Ideas : Edit(t, idea)
             \/ \E step \in 1..2 : GoTo(t, step)
             \/ LeaveWizard(t) \/ OpenWizard(t) \/ ConnectionLost(t)
      PROVE  IntakeInv'
  BY <1>4, WizardKeeps
<1>5. ASSUME NEW r \in 1..MaxRequests, ServerStep(r) PROVE IntakeInv'
  BY <1>5, ServerKeeps
<1>6. ASSUME NEW c \in Clients, NEW draft \in Drafts, NEW idea \in Ideas,
             ClientPosts(c, draft, idea)
      PROVE  IntakeInv'
  BY <1>6, ClientPostsKeeps DEF Drafts
<1>7. ASSUME NEW i, DeleteCampaign(i) PROVE IntakeInv'
  BY <1>7, DeleteKeeps
<1> QED BY <1>1, <1>2, <1>3, <1>4, <1>5, <1>6, <1>7 DEF IntakeNext, ServerStep

\* Of createSubmission and the wizard: a draft has one row, an answer names a row of
\* the idea that was sent, and since its last edit a tab sent one draft only.
THEOREM IntakeInvariant ==
  IntakeSpec => []IntakeInv
<1> QED BY IntakeStart, IntakeStep, PTL DEF IntakeSpec

\* PressingAgainIsOneCampaign: createSubmission answers a second press, a lost
\* answer or a race with the campaign that is there.
THEOREM PressesAreOneCampaign ==
  IntakeSpec => []PressingAgainIsOneCampaign
<1>1. ASSUME IntakeInv PROVE PressingAgainIsOneCampaign
  <2>1. ASSUME NEW t \in Wizards
        PROVE  Cardinality(UNION {WithDraft(d) : d \in wizard[t].pressed}) <= 1
    <3> DEFINE S == UNION {WithDraft(d) : d \in wizard[t].pressed}
    <3>1. \A i, j \in S : i = j
      BY <1>1 DEF IntakeInv, OneAttempt, OneRowPerDraft, WithDraft
    <3> HIDE DEF S
    <3>2. CASE S = {}
      <4>1. Cardinality(S) = 0  BY <3>2, FS_EmptySet
      <4> QED BY <4>1 DEF S
    <3>3. CASE S # {}
      <4>1. PICK i \in S : TRUE  BY <3>3
      <4>2. S = {i}  BY <3>1, <4>1
      <4>3. Cardinality(S) = 1  BY <4>2, FS_Singleton
      <4> QED BY <4>3 DEF S
    <3> QED BY <3>2, <3>3
  <2>2. \A S : Cardinality(S) = Cardinality(S)
    BY Zenon DEF Cardinality, Cardinality
  <2> QED BY <2>1, <2>2 DEF PressingAgainIsOneCampaign
<1> QED BY <1>1, IntakeInvariant, PTL

\* ProgressIsOfTheIdeaShown: an answer of an earlier visit is not listened to.
THEOREM ProgressIsOfTheIdea ==
  IntakeSpec => []ProgressIsOfTheIdeaShown
<1>1. IntakeInv => ProgressIsOfTheIdeaShown
  BY DEF IntakeInv, Progress, IsOf, ProgressIsOfTheIdeaShown
<1> QED BY <1>1, IntakeInvariant, PTL

------------------------------------------------------------------------------
(* PublicLanding *)

FormStates ==
    [screen: {"closed", "form", "submitted", "duplicate"}, email: Emails \cup {Anyone},
     token: 0..MaxTokens, waits: Requests \cup {NoRequest}, sent: Emails \cup {Anyone}]

AskedStates ==
    [at: {"free", "verify", "record", "answered"}, email: Emails \cup {Anyone},
     token: 0..MaxTokens, answer: {"inserted", "duplicate", "failed"}]

PageShape ==
    /\ form \in [Forms -> FormStates]
    /\ asked \in [Requests -> AskedStates]
    /\ token \in [1..MaxTokens -> {"new", "good", "spent", "expired"}]
    /\ paid \in [Emails -> 0..MaxTokens]

\* A form waits alone for a request, which carries the email it sent.
WaitingAlone ==
    \A t \in Forms : LET r == form[t].waits IN r # NoRequest =>
        /\ form[t].screen = "form"
        /\ asked[r].at # "free" /\ asked[r].email = form[t].sent
        /\ \A u \in Forms : form[u].waits = r => u = t

\* A request that is answered with a success has its reservation.
AnsweredIsStored ==
    \A r \in Requests :
        (exists /\ asked[r].at = "answered" /\ asked[r].answer # "failed")
            => asked[r].email \in reserved

\* A request that was verified holds a spent token, which is its own and with
\* which nothing was stored yet.
VerifiedOnce ==
    \A r \in Requests :
        /\ asked[r].at \in {"verify", "record"} => asked[r].token # 0
        /\ asked[r].at = "record" =>
              /\ token[asked[r].token] = "spent"
              /\ \A e \in Emails : paid[e] # asked[r].token
              /\ \A q \in Requests :
                     asked[q].at = "record" /\ asked[q].token = asked[r].token => q = r

PageInv ==
    PageShape /\ WaitingAlone /\ AnsweredIsStored /\ VerifiedOnce
    /\ ToldIsStored /\ OneCheckEach

LEMMA PageStart == PageInit => PageInv
<1> USE TokensAssumption
<1> SUFFICES ASSUME PageInit PROVE PageInv  OBVIOUS
<1>0. 0 \in 0..MaxTokens  BY DEF TokensAssumption
<1>1. PageShape
  BY <1>0 DEF PageShape, FormStates, AskedStates, PageInit, FreeRequest, Tokens
<1>2. WaitingAlone /\ AnsweredIsStored /\ VerifiedOnce
  BY DEF WaitingAlone, AnsweredIsStored, VerifiedOnce, PageInit, FreeRequest
<1>3. ToldIsStored /\ OneCheckEach
  BY DEF ToldIsStored, OneCheckEach, PageInit
<1> QED BY <1>1, <1>2, <1>3 DEF PageInv

\* One form changes.
LEMMA FormChanges ==
  ASSUME PageShape, NEW t \in Forms, NEW page \in FormStates,
         form' = [form EXCEPT ![t] = page]
  PROVE  /\ form' \in [Forms -> FormStates]
         /\ form'[t] = page
         /\ \A u \in Forms : u # t => form'[u] = form[u]
BY DEF PageShape

\* The form changes without sending or forgetting a request: Open, Type, Solve
\* and Expire.  A spent token stays spent.
LEMMA FillingKeeps ==
  ASSUME PageInv, NEW t \in Forms, NEW page \in FormStates,
         form' = [form EXCEPT ![t] = page],
         page.waits = form[t].waits, page.sent = form[t].sent,
         page.screen \in {form[t].screen, "form"},
         UNCHANGED <<exists, reserved, paid, asked>>,
         token' \in [1..MaxTokens -> {"new", "good", "spent", "expired"}],
         \A k \in 1..MaxTokens : token[k] = "spent" => token'[k] = "spent"
  PROVE  PageInv'
<1>1. PageShape  BY DEF PageInv
<1>2. /\ form' \in [Forms -> FormStates] /\ form'[t] = page
      /\ \A u \in Forms : u # t => form'[u] = form[u]
  BY <1>1, FormChanges
<1>3. \A u \in Forms : /\ form'[u].waits = form[u].waits /\ form'[u].sent = form[u].sent
                      /\ form'[u].screen \in {form[u].screen, "form"}
  BY <1>2
<1>4. PageShape'  BY <1>1, <1>2 DEF PageShape
<1>5. WaitingAlone'  BY <1>3 DEF PageInv, WaitingAlone
<1>6. AnsweredIsStored'  BY DEF PageInv, AnsweredIsStored
<1>7. VerifiedOnce'
  <2>1. \A r \in Requests : asked[r].token \in 0..MaxTokens
    BY <1>1 DEF PageShape, AskedStates
  <2> QED BY <2>1 DEF PageInv, VerifiedOnce
<1>8. ToldIsStored'
  <2>1. \A u \in Forms : form'[u].screen \in {"submitted", "duplicate"} =>
            form[u].screen \in {"submitted", "duplicate"}
    BY <1>3
  <2> QED BY <1>3, <2>1 DEF PageInv, ToldIsStored
<1>9. OneCheckEach'
  <2>1. \A e \in Emails : paid[e] \in 0..MaxTokens  BY <1>1 DEF PageShape
  <2> QED BY <2>1 DEF PageInv, OneCheckEach
<1> QED BY <1>4, <1>5, <1>6, <1>7, <1>8, <1>9 DEF PageInv

\* The form stops waiting: Leave, Receive and LoseAnswer.  It says that the
\* reservation is there only when it is.
LEMMA StoppingKeeps ==
  ASSUME NoneAssumption, TokensAssumption,
         PageInv, NEW t \in Forms, NEW page \in FormStates,
         form' = [form EXCEPT ![t] = page],
         page.waits = NoRequest, page.sent = form[t].sent,
         (exists /\ page.screen \in {"submitted", "duplicate"}) => page.sent \in reserved,
         UNCHANGED <<exists, reserved, paid, token>>,
         NEW gone \in SUBSET Requests, \A r \in gone : r = form[t].waits,
         asked' = [r \in Requests |-> IF r \in gone THEN FreeRequest ELSE asked[r]]
  PROVE  PageInv'
<1>1. PageShape  BY DEF PageInv
<1>2. /\ form' \in [Forms -> FormStates] /\ form'[t] = page
      /\ \A u \in Forms : u # t => form'[u] = form[u]
  BY <1>1, FormChanges
<1>3. /\ FreeRequest \in AskedStates /\ FreeRequest.at = "free"
  BY DEF FreeRequest, AskedStates, TokensAssumption
<1>4. /\ asked' \in [Requests -> AskedStates]
      /\ \A r \in Requests : asked'[r].at # "free" => asked'[r] = asked[r]
      /\ \A r \in Requests : r # form[t].waits => asked'[r] = asked[r]
  BY <1>1, <1>3 DEF PageShape
<1>5. PageShape'  BY <1>1, <1>2, <1>4 DEF PageShape
<1>6. WaitingAlone'
  <2> SUFFICES ASSUME NEW u \in Forms, form'[u].waits # NoRequest
               PROVE  /\ form'[u].screen = "form"
                      /\ asked'[form'[u].waits].at # "free"
                      /\ asked'[form'[u].waits].email = form'[u].sent
                      /\ \A v \in Forms : form'[v].waits = form'[u].waits => v = u
    BY DEF WaitingAlone
  <2>1. u # t /\ form'[u] = form[u]  BY <1>2
  <2>2. form[u].waits # form[t].waits  BY <2>1 DEF PageInv, WaitingAlone
  <2>3. form[u].waits \in Requests  BY <1>1, <2>1 DEF PageShape, FormStates
  <2>4. asked'[form[u].waits] = asked[form[u].waits]  BY <1>4, <2>2, <2>3
  <2> QED BY <1>2, <2>1, <2>4 DEF PageInv, WaitingAlone
<1>7. AnsweredIsStored'  BY <1>4 DEF PageInv, AnsweredIsStored
<1>8. VerifiedOnce'  BY <1>4 DEF PageInv, VerifiedOnce
<1>9. ToldIsStored'  BY <1>2 DEF PageInv, ToldIsStored
<1>10. OneCheckEach'  BY DEF PageInv, OneCheckEach
<1> QED BY <1>5, <1>6, <1>7, <1>8, <1>9, <1>10 DEF PageInv

LEMMA SubmitKeeps ==
  ASSUME NoneAssumption, PageInv, NEW t \in Forms, NEW r \in Requests, Submit(t, r)
  PROVE  PageInv'
<1> DEFINE old == form[t]
           page == [old EXCEPT !.waits = r, !.sent = old.email]
           new == [at |-> "verify", email |-> old.email, token |-> old.token, answer |-> "failed"]
<1>0. /\ old.screen = "form" /\ old.waits = NoRequest /\ old.token # 0 /\ asked[r].at = "free"
      /\ UNCHANGED <<exists, reserved, paid, token>>
  BY DEF Submit, Filling, Submitting, stored
<1>1. PageShape /\ old \in FormStates  BY DEF PageInv, PageShape
<1>2. form' = [form EXCEPT ![t] = page]  BY <1>1 DEF Submit, PageShape
<1>3. asked' = [asked EXCEPT ![r] = new]  BY DEF Submit
<1> HIDE DEF old
<1>4. /\ page \in FormStates /\ page.screen = "form" /\ page.waits = r
      /\ page.sent = old.email
  BY <1>0, <1>1 DEF FormStates
<1>5. new \in AskedStates /\ new.at = "verify" /\ new.email = old.email /\ new.token # 0
  BY <1>0, <1>1 DEF FormStates, AskedStates
<1> HIDE DEF page, new
<1>6. /\ form' \in [Forms -> FormStates] /\ form'[t] = page
      /\ \A u \in Forms : u # t => form'[u] = form[u]
  BY <1>1, <1>2, <1>4, FormChanges
<1>7. /\ asked' \in [Requests -> AskedStates] /\ asked'[r] = new
      /\ \A q \in Requests : q # r => asked'[q] = asked[q]
  BY <1>1, <1>3, <1>5 DEF PageShape
<1>8. PageShape'  BY <1>0, <1>1, <1>6, <1>7 DEF PageShape
<1>9. WaitingAlone'
  <2>1. \A u \in Forms : form[u].waits # r  BY <1>0 DEF NoneAssumption, PageInv, WaitingAlone
  <2>2. \A u \in Forms : form[u].waits # NoRequest => form[u].waits \in Requests
    BY <1>1 DEF PageShape, FormStates
  <2> SUFFICES ASSUME NEW u \in Forms, form'[u].waits # NoRequest
               PROVE  /\ form'[u].screen = "form"
                      /\ asked'[form'[u].waits].at # "free"
                      /\ asked'[form'[u].waits].email = form'[u].sent
                      /\ \A v \in Forms : form'[v].waits = form'[u].waits => v = u
    BY DEF WaitingAlone
  <2>3. CASE u = t  BY <2>1, <2>3, <1>4, <1>5, <1>6, <1>7
  <2>4. CASE u # t
    <3>1. form'[u] = form[u] /\ asked'[form[u].waits] = asked[form[u].waits]
      BY <1>6, <1>7, <2>1, <2>2, <2>4
    <3> QED BY <3>1, <2>1, <2>4, <1>4, <1>6 DEF PageInv, WaitingAlone
  <2> QED BY <2>3, <2>4
<1>10. AnsweredIsStored'  BY <1>0, <1>5, <1>7 DEF PageInv, AnsweredIsStored
<1>11. VerifiedOnce'  BY <1>0, <1>5, <1>7 DEF PageInv, VerifiedOnce
<1>12. ToldIsStored'  BY <1>0, <1>4, <1>6 DEF PageInv, ToldIsStored
<1>13. OneCheckEach'  BY <1>0 DEF PageInv, OneCheckEach
<1> QED BY <1>8, <1>9, <1>10, <1>11, <1>12, <1>13 DEF PageInv

\* The route is done with a request: it answers, and may have stored first.
LEMMA AnsweringKeeps ==
  ASSUME TokensAssumption, PageInv,
         NEW r \in Requests, asked[r].at \in {"verify", "record"},
         NEW answer \in {"inserted", "duplicate", "failed"}, Answer(r, answer),
         UNCHANGED <<form, exists>>,
         reserved \subseteq reserved',
         (exists /\ answer # "failed") => asked[r].email \in reserved',
         \/ UNCHANGED paid
         \/ asked[r].at = "record" /\ paid' = [paid EXCEPT ![asked[r].email] = asked[r].token],
         token' \in [1..MaxTokens -> {"new", "good", "spent", "expired"}],
         \A k \in 1..MaxTokens : token[k] = "spent" => token'[k] = "spent"
  PROVE  PageInv'
<1> DEFINE old == asked[r]
           new == IF Awaited(r) THEN [old EXCEPT !.at = "answered", !.answer = answer]
                  ELSE FreeRequest
           k == old.token
<1>1. PageShape /\ old \in AskedStates  BY DEF PageInv, PageShape
<1>2. asked' = [asked EXCEPT ![r] = new]  BY <1>1 DEF Answer, PageShape
<1>3. 0 \in 0..MaxTokens  BY DEF TokensAssumption
<1>4. k \in 1..MaxTokens  BY <1>1 DEF AskedStates, PageInv, VerifiedOnce
<1> HIDE DEF old
<1>5. /\ new \in AskedStates /\ new.at \in {"free", "answered"}
      /\ Awaited(r) => new.at = "answered" /\ new.email = old.email
      /\ new.at = "answered" => new.answer = answer /\ new.email = old.email
  BY <1>1, <1>3 DEF AskedStates, FreeRequest
<1> HIDE DEF new, k
<1>6. /\ asked' \in [Requests -> AskedStates] /\ asked'[r] = new
      /\ \A q \in Requests : q # r => asked'[q] = asked[q]
  BY <1>1, <1>2, <1>5 DEF PageShape
<1>7. \A e \in Emails : \/ paid'[e] = paid[e]
                        \/ old.at = "record" /\ e = old.email /\ paid'[e] = k
  <2>1. paid \in [Emails -> 0..MaxTokens]  BY <1>1 DEF PageShape
  <2>2. CASE UNCHANGED paid  BY <2>2
  <2>3. CASE old.at = "record" /\ paid' = [paid EXCEPT ![old.email] = k]
    BY <2>1, <2>3
  <2> QED BY <2>2, <2>3 DEF old, k
<1>8. PageShape'
  <2>1. paid' \in [Emails -> 0..MaxTokens]
    BY <1>1, <1>4 DEF PageShape, old, k
  <2> QED BY <1>1, <1>6, <2>1 DEF PageShape
<1>9. WaitingAlone'
  <2> SUFFICES ASSUME NEW u \in Forms, form[u].waits # NoRequest
               PROVE  /\ asked'[form[u].waits].at # "free"
                      /\ asked'[form[u].waits].email = form[u].sent
    BY DEF PageInv, WaitingAlone
  <2>1. form[u].waits \in Requests  BY <1>1 DEF PageShape, FormStates
  <2>2. CASE form[u].waits = r
    BY <2>2, <1>5, <1>6 DEF PageInv, WaitingAlone, Awaited, old
  <2>3. CASE form[u].waits # r  BY <2>1, <2>3, <1>6 DEF PageInv, WaitingAlone
  <2> QED BY <2>2, <2>3
<1>10. AnsweredIsStored'
  BY <1>5, <1>6 DEF PageInv, AnsweredIsStored, old
<1>11. old.at = "record" => /\ token[k] = "spent"
                            /\ \A e \in Emails : paid[e] # k
                            /\ \A q \in Requests :
                                   asked[q].at = "record" /\ asked[q].token = k => q = r
  BY DEF PageInv, VerifiedOnce, old, k
<1>12. VerifiedOnce'
  <2> SUFFICES ASSUME NEW q \in Requests, asked'[q].at \in {"verify", "record"}
               PROVE  /\ asked'[q].token # 0
                      /\ asked'[q].at = "record" =>
                           /\ token'[asked'[q].token] = "spent"
                           /\ \A e \in Emails : paid'[e] # asked'[q].token
                           /\ \A s \in Requests :
                                  asked'[s].at = "record" /\ asked'[s].token = asked'[q].token
                                      => s = q
    BY DEF VerifiedOnce
  <2>1. q # r /\ asked'[q] = asked[q]  BY <1>5, <1>6
  <2>2. asked[q].token # 0 /\ asked[q].token \in 1..MaxTokens
    BY <2>1, <1>1 DEF PageShape, AskedStates, PageInv, VerifiedOnce
  <2>3. ASSUME asked[q].at = "record" PROVE token'[asked[q].token] = "spent"
    BY <2>2, <2>3 DEF PageInv, VerifiedOnce
  <2>4. ASSUME asked[q].at = "record", NEW e \in Emails PROVE paid'[e] # asked[q].token
    BY <2>1, <2>4, <1>7, <1>11 DEF PageInv, VerifiedOnce
  <2>5. ASSUME asked[q].at = "record", NEW s \in Requests, asked'[s].at = "record",
               asked'[s].token = asked[q].token
        PROVE  s = q
    <3>1. s # r /\ asked'[s] = asked[s]  BY <2>5, <1>5, <1>6
    <3> QED BY <3>1, <2>5 DEF PageInv, VerifiedOnce
  <2> QED BY <2>1, <2>2, <2>3, <2>4, <2>5
<1>13. ToldIsStored'  BY DEF PageInv, ToldIsStored
<1>14. OneCheckEach'
  <2> SUFFICES ASSUME NEW e \in Emails, paid'[e] # 0
               PROVE  /\ token'[paid'[e]] = "spent"
                      /\ \A f \in Emails \ {e} : paid'[f] # paid'[e]
    BY DEF OneCheckEach
  <2>1. paid[e] # 0 => /\ token[paid[e]] = "spent" /\ paid[e] \in 1..MaxTokens
                       /\ \A f \in Emails \ {e} : paid[f] # paid[e]
    BY <1>1 DEF PageInv, PageShape, OneCheckEach
  <2>2. token'[paid'[e]] = "spent"  BY <1>4, <1>7, <1>11, <2>1
  <2>3. ASSUME NEW f \in Emails, f # e PROVE paid'[f] # paid'[e]
    BY <1>7, <1>11, <2>1, <2>3
  <2> QED BY <2>2, <2>3
<1> QED BY <1>8, <1>9, <1>10, <1>12, <1>13, <1>14 DEF PageInv

\* Turnstile confirms the token, for the first and last time.
LEMMA ConfirmedKeeps ==
  ASSUME PageInv, NEW r \in Requests, asked[r].at = "verify",
         token[asked[r].token] = "good", UNCHANGED <<form, exists, reserved, paid>>,
         token' = [token EXCEPT ![asked[r].token] = "spent"],
         asked' = [asked EXCEPT ![r].at = "record"]
  PROVE  PageInv'
<1> DEFINE old == asked[r]
           new == [old EXCEPT !.at = "record"]
           k == old.token
<1>1. PageShape /\ old \in AskedStates  BY DEF PageInv, PageShape
<1>2. k \in 1..MaxTokens  BY <1>1 DEF AskedStates, PageInv, VerifiedOnce
<1>3. asked' = [asked EXCEPT ![r] = new]  BY <1>1 DEF PageShape
<1> HIDE DEF old
<1>4. new \in AskedStates /\ new.at = "record" /\ new.email = old.email /\ new.token = k
  BY <1>1 DEF AskedStates
<1> HIDE DEF new
<1>5. /\ asked' \in [Requests -> AskedStates] /\ asked'[r] = new
      /\ \A q \in Requests : q # r => asked'[q] = asked[q]
  BY <1>1, <1>3, <1>4 DEF PageShape
<1>6. /\ token' \in [1..MaxTokens -> {"new", "good", "spent", "expired"}]
      /\ token'[k] = "spent" /\ token[k] # "spent"
      /\ \A j \in 1..MaxTokens : token[j] = "spent" => token'[j] = "spent"
  BY <1>1, <1>2 DEF PageShape, old
<1> HIDE DEF k
<1>7. PageShape'  BY <1>1, <1>5, <1>6 DEF PageShape
<1>8. WaitingAlone'
  <2>1. \A u \in Forms : form[u].waits # NoRequest => form[u].waits \in Requests
    BY <1>1 DEF PageShape, FormStates
  <2> QED BY <1>4, <1>5, <2>1 DEF PageInv, WaitingAlone, old
<1>9. AnsweredIsStored'  BY <1>4, <1>5 DEF PageInv, AnsweredIsStored
<1>10. \A e \in Emails : paid[e] # k
  BY <1>2, <1>6 DEF PageInv, OneCheckEach
<1>11. \A q \in Requests : asked[q].token \in 0..MaxTokens
                           /\ (asked[q].at = "record" => asked[q].token # k)
  BY <1>1, <1>6 DEF PageShape, AskedStates, PageInv, VerifiedOnce
<1>12. VerifiedOnce'
  <2> SUFFICES ASSUME NEW q \in Requests
               PROVE  /\ asked'[q].at \in {"verify", "record"} => asked'[q].token # 0
                      /\ asked'[q].at = "record" =>
                           /\ token'[asked'[q].token] = "spent"
                           /\ \A e \in Emails : paid[e] # asked'[q].token
                           /\ \A s \in Requests :
                                  asked'[s].at = "record" /\ asked'[s].token = asked'[q].token
                                      => s = q
    BY DEF VerifiedOnce
  <2>1. CASE q = r  BY <2>1, <1>2, <1>4, <1>5, <1>6, <1>10, <1>11
  <2>2. CASE q # r
    BY <2>2, <1>4, <1>5, <1>6, <1>11 DEF PageInv, VerifiedOnce
  <2> QED BY <2>1, <2>2
<1>13. ToldIsStored'  BY DEF PageInv, ToldIsStored
<1>14. OneCheckEach'
  <2>1. \A e \in Emails : paid[e] \in 0..MaxTokens  BY <1>1 DEF PageShape
  <2> QED BY <1>6, <2>1 DEF PageInv, OneCheckEach
<1> QED BY <1>7, <1>8, <1>9, <1>12, <1>13, <1>14 DEF PageInv

LEMMA TabKeeps ==
  ASSUME NoneAssumption, TokensAssumption, PageInv, NEW t \in Forms,
         \/ Open(t) \/ Leave(t) \/ Solve(t) \/ Expire(t)
         \/ Receive(t) \/ LoseAnswer(t)
         \/ \E e \in Emails : Type(t, e)
  PROVE  PageInv'
<1> DEFINE old == form[t]
<1>0. 0 \in 0..MaxTokens  BY DEF TokensAssumption
<1>1. PageShape /\ old \in FormStates  BY DEF PageInv, PageShape
<1>2. CASE Open(t)
  <2> DEFINE page == [old EXCEPT !.screen = "form"]
  <2>1. /\ form' = [form EXCEPT ![t] = page] /\ UNCHANGED <<exists, reserved, paid, asked, token>>
    BY <1>1, <1>2 DEF Open, PageShape
  <2> HIDE DEF old
  <2>2. page \in FormStates /\ page.waits = old.waits /\ page.sent = old.sent /\ page.screen = "form"
    BY <1>1 DEF FormStates
  <2> HIDE DEF page
  <2> QED BY <1>1, <2>1, <2>2, FillingKeeps DEF PageShape, old
<1>3. ASSUME NEW e \in Emails, Type(t, e) PROVE PageInv'
  <2> DEFINE page == [old EXCEPT !.email = e]
  <2>1. /\ form' = [form EXCEPT ![t] = page] /\ UNCHANGED <<exists, reserved, paid, asked, token>>
    BY <1>1, <1>3 DEF Type, stored, PageShape
  <2> HIDE DEF old
  <2>2. page \in FormStates /\ page.waits = old.waits /\ page.sent = old.sent
        /\ page.screen = old.screen
    BY <1>1 DEF FormStates
  <2> HIDE DEF page
  <2> QED BY <1>1, <2>1, <2>2, FillingKeeps DEF PageShape, old
<1>4. CASE Solve(t)
  <2>1. PICK k \in 1..MaxTokens :
            /\ token[k] = "new" /\ token' = [token EXCEPT ![k] = "good"]
            /\ form' = [form EXCEPT ![t].token = k]
            /\ UNCHANGED <<exists, reserved, paid, asked>>
    BY <1>4 DEF Solve, Tokens, Issued, stored
  <2> DEFINE page == [old EXCEPT !.token = k]
  <2>2. form' = [form EXCEPT ![t] = page]  BY <1>1, <2>1 DEF PageShape
  <2> HIDE DEF old
  <2>3. page \in FormStates /\ page.waits = old.waits /\ page.sent = old.sent
        /\ page.screen = old.screen
    BY <1>1 DEF FormStates
  <2> HIDE DEF page
  <2>4. /\ token' \in [1..MaxTokens -> {"new", "good", "spent", "expired"}]
        /\ \A j \in 1..MaxTokens : token[j] = "spent" => token'[j] = "spent"
    BY <1>1, <2>1 DEF PageShape
  <2> QED BY <2>1, <2>2, <2>3, <2>4, FillingKeeps DEF old
<1>5. CASE Expire(t)
  <2> DEFINE page == [old EXCEPT !.token = 0]
  <2>1. /\ form' = [form EXCEPT ![t] = page] /\ UNCHANGED <<exists, reserved, paid, asked>>
        /\ token' = [token EXCEPT ![old.token] = IF @ = "good" THEN "expired" ELSE @]
    BY <1>1, <1>5 DEF Expire, stored, PageShape
  <2> HIDE DEF old
  <2>2. page \in FormStates /\ page.waits = old.waits /\ page.sent = old.sent
        /\ page.screen = old.screen
    BY <1>0, <1>1 DEF FormStates
  <2> HIDE DEF page
  <2>3. /\ token' \in [1..MaxTokens -> {"new", "good", "spent", "expired"}]
        /\ \A j \in 1..MaxTokens : token[j] = "spent" => token'[j] = "spent"
    BY <1>1, <2>1 DEF PageShape
  <2> QED BY <2>1, <2>2, <2>3, FillingKeeps DEF old
<1> DEFINE Gone == {r \in Requests : r = old.waits /\ asked[r].at = "answered"}
<1>6. ASSUME Forget(t)
      PROVE  asked' = [r \in Requests |-> IF r \in Gone THEN FreeRequest ELSE asked[r]]
  BY <1>6 DEF Forget
<1>7. CASE Leave(t)
  <2> DEFINE page == [old EXCEPT !.screen = "closed", !.token = 0, !.waits = NoRequest]
  <2>1. /\ form' = [form EXCEPT ![t] = page] /\ UNCHANGED <<exists, reserved, paid, token>>
        /\ Forget(t)
    BY <1>1, <1>7 DEF Leave, stored, PageShape
  <2> HIDE DEF old
  <2>2. page \in FormStates /\ page.waits = NoRequest /\ page.sent = old.sent
        /\ page.screen = "closed"
    BY <1>0, <1>1 DEF FormStates
  <2> HIDE DEF page
  <2>3. Gone \in SUBSET Requests /\ \A r \in Gone : r = old.waits  OBVIOUS
  <2> HIDE DEF Gone
  <2> QED BY <1>6, <2>1, <2>2, <2>3, StoppingKeeps DEF old
<1>8. CASE LoseAnswer(t)
  <2> DEFINE page == [old EXCEPT !.waits = NoRequest, !.token = 0]
  <2>1. /\ form' = [form EXCEPT ![t] = page] /\ UNCHANGED <<exists, reserved, paid, token>>
        /\ Forget(t) /\ old.waits # NoRequest
    BY <1>1, <1>8 DEF LoseAnswer, AfterFailure, Submitting, stored, PageShape
  <2>2. old.screen = "form"  BY <2>1 DEF PageInv, WaitingAlone
  <2> HIDE DEF old
  <2>3. page \in FormStates /\ page.waits = NoRequest /\ page.sent = old.sent
        /\ page.screen = "form"
    BY <1>0, <1>1, <2>2 DEF FormStates
  <2> HIDE DEF page
  <2>4. Gone \in SUBSET Requests /\ \A r \in Gone : r = old.waits  OBVIOUS
  <2> HIDE DEF Gone
  <2> QED BY <1>6, <2>1, <2>3, <2>4, StoppingKeeps DEF old
<1>9. CASE Receive(t)
  <2> DEFINE r == old.waits
             shown == Shown(asked[r].answer)
             page == IF shown = "form" THEN [old EXCEPT !.waits = NoRequest, !.token = 0]
                     ELSE [old EXCEPT !.waits = NoRequest, !.screen = shown]
  <2>1. /\ r # NoRequest /\ asked[r].at = "answered"
        /\ UNCHANGED <<exists, reserved, paid, token>>
        /\ asked' = [asked EXCEPT ![r] = FreeRequest]
    BY <1>9 DEF Receive, Submitting, stored
  <2>2. form' = [form EXCEPT ![t] = page]
    BY <1>1, <1>9 DEF Receive, AfterFailure, PageShape
  <2>3. /\ r \in Requests /\ asked[r].answer \in {"inserted", "duplicate", "failed"}
        /\ old.screen = "form" /\ asked[r].email = old.sent
    BY <1>1, <2>1 DEF PageShape, FormStates, AskedStates, PageInv, WaitingAlone
  <2>4. /\ shown \in {"submitted", "duplicate", "form"}
        /\ shown # "form" => asked[r].answer # "failed"
    BY <2>3 DEF Shown
  <2>5. (exists /\ shown # "form") => old.sent \in reserved
    BY <2>1, <2>3, <2>4 DEF PageInv, AnsweredIsStored
  <2> HIDE DEF old, shown
  <2>6. page \in FormStates /\ page.waits = NoRequest /\ page.sent = old.sent
        /\ page.screen = shown
    BY <1>0, <1>1, <2>3, <2>4 DEF FormStates
  <2>7. asked' = [q \in Requests |-> IF q \in {r} THEN FreeRequest ELSE asked[q]]
    BY <1>1, <2>1, <2>3 DEF PageShape
  <2>8. {r} \in SUBSET Requests /\ \A q \in {r} : q = old.waits  BY <2>3
  <2>9. (exists /\ page.screen \in {"submitted", "duplicate"}) => page.sent \in reserved
    BY <2>5, <2>6
  <2> HIDE DEF page
  <2> QED BY <2>1, <2>2, <2>6, <2>7, <2>8, <2>9, StoppingKeeps DEF old
<1> QED BY <1>2, <1>3, <1>4, <1>5, <1>7, <1>8, <1>9

LEMMA RouteKeeps ==
  ASSUME TokensAssumption, PageInv, NEW r \in Requests,
         \/ Serve(r) \/ VerifyUnavailable(r) \/ RecordFails(r)
  PROVE  PageInv'
<1>1. /\ token \in [1..MaxTokens -> {"new", "good", "spent", "expired"}]
      /\ asked[r] \in AskedStates
  BY DEF PageInv, PageShape
<1>2. CASE Verify(r)
  <2>1. CASE token[asked[r].token] = "good"
    BY <1>2, <2>1, ConfirmedKeeps DEF Verify, stored
  <2>2. CASE token[asked[r].token] # "good"
    BY <1>1, <1>2, <2>2, AnsweringKeeps DEF Verify, stored
  <2> QED BY <2>1, <2>2
<1>3. CASE VerifyUnavailable(r)
  <2>1. /\ asked[r].at = "verify" /\ Answer(r, "failed")
        /\ UNCHANGED <<form, exists, reserved, paid>>
        /\ token' \in {token, [token EXCEPT ![asked[r].token] = IF @ = "good" THEN "spent" ELSE @]}
    BY <1>3 DEF VerifyUnavailable, Unverified, stored
  <2>2. /\ token' \in [1..MaxTokens -> {"new", "good", "spent", "expired"}]
        /\ \A j \in 1..MaxTokens : token[j] = "spent" => token'[j] = "spent"
    BY <1>1, <2>1
  <2> QED BY <2>1, <2>2, AnsweringKeeps
<1>4. ASSUME Insert(r)
      PROVE  /\ reserved \subseteq reserved' /\ asked[r].email \in reserved'
             /\ paid' = [paid EXCEPT ![asked[r].email] = asked[r].token] /\ UNCHANGED exists
  BY <1>4 DEF Insert
<1>5. CASE Record(r)
  <2>1. asked[r].at = "record" /\ UNCHANGED <<form, token>>
    BY <1>5 DEF Record
  <2>2. CASE Insert(r) /\ Answer(r, "inserted")
    BY <1>1, <1>4, <2>1, <2>2, AnsweringKeeps
  <2>3. CASE Known(r) /\ Answer(r, "duplicate") /\ UNCHANGED stored
    BY <1>1, <2>1, <2>3, AnsweringKeeps DEF Known, stored
  <2>4. CASE Answer(r, "failed") /\ UNCHANGED stored
    BY <1>1, <2>1, <2>4, AnsweringKeeps DEF stored
  <2> QED BY <1>5, <2>2, <2>3, <2>4 DEF Record
<1>6. CASE RecordFails(r)
  <2>1. asked[r].at = "record" /\ Answer(r, "failed") /\ UNCHANGED <<form, token>>
    BY <1>6 DEF RecordFails
  <2>2. CASE Insert(r)  BY <1>1, <1>4, <2>1, <2>2, AnsweringKeeps
  <2>3. CASE UNCHANGED stored
    BY <1>1, <2>1, <2>3, AnsweringKeeps DEF stored
  <2> QED BY <1>6, <2>2, <2>3 DEF RecordFails
<1> QED BY <1>2, <1>3, <1>5, <1>6 DEF Serve

LEMMA PageStep ==
  ASSUME PageInv, [PageNext]_pageVars
  PROVE  PageInv'
<1> USE NoneAssumption, TokensAssumption
<1>1. ASSUME UNCHANGED <<form, asked, token, paid>>, UNCHANGED <<exists, reserved>> \/ ~exists'
      PROVE  PageInv'
  BY <1>1 DEF PageInv, PageShape, WaitingAlone, AnsweredIsStored, VerifiedOnce,
              ToldIsStored, OneCheckEach
<1>2. CASE UNCHANGED pageVars  BY <1>1, <1>2 DEF pageVars, stored
<1>3. CASE Delete \/ NextDay
  BY <1>1, <1>3 DEF Delete, NextDay, stored
<1>4. ASSUME NEW t \in Forms,
             \/ Open(t) \/ Leave(t) \/ Solve(t) \/ Expire(t)
             \/ Receive(t) \/ LoseAnswer(t)
             \/ \E e \in Emails : Type(t, e)
      PROVE  PageInv'
  BY <1>4, TabKeeps
<1>5. ASSUME NEW t \in Forms, NEW r \in Requests, Submit(t, r) PROVE PageInv'
  BY <1>5, SubmitKeeps
<1>6. ASSUME NEW r \in Requests,
             Serve(r) \/ VerifyUnavailable(r) \/ RecordFails(r)
      PROVE  PageInv'
  BY <1>6, RouteKeeps
<1> QED BY <1>2, <1>3, <1>4, <1>5, <1>6 DEF PageNext

\* Of the form and the route of reservations: what is answered is stored, and a
\* verified token belongs to the one request that spent it.
THEOREM PageInvariant ==
  PageSpec => []PageInv
<1> QED BY PageStart, PageStep, PTL DEF PageSpec

\* ToldIsStored: whoever the page tells of a reservation has one.
THEOREM WhoIsToldIsStored ==
  PageSpec => []ToldIsStored
<1>1. PageInv => ToldIsStored  BY DEF PageInv
<1> QED BY <1>1, PageInvariant, PTL

\* OneCheckEach: no Turnstile token pays for two reservations.
THEOREM NoTokenPaysTwice ==
  PageSpec => []OneCheckEach
<1>1. PageInv => OneCheckEach  BY DEF PageInv
<1> QED BY <1>1, PageInvariant, PTL

------------------------------------------------------------------------------
(* SignIn *)

RouteStates ==
    [at: {"page", "asking", "new", "gate", "login", "google", "provider", "callback", "error"},
     next: Paths, error: Errors, flow: 0..MaxFlows,
     arrival: {"none", "code", "denied", "garbled", "known"},
     goal: Pages, lost: BOOLEAN, hops: Nat]

LoginShape ==
    /\ mode \in {"supabase", "mock", "disabled", "broken"}
    /\ session \in {"none", "valid", "expired"}
    /\ spent \in BOOLEAN /\ up \in BOOLEAN
    /\ kept \in [1..MaxFlows -> Pages \cup {"gone"}]
    /\ codes \in [1..MaxFlows -> BOOLEAN]
    /\ tab \in [Tabs -> RouteStates]
    /\ begun \in 0..MaxFlows /\ changes \in Nat

\* The way leads where the user wants to go, or home once it was lost.
Leads(r, path) == path = r.goal \/ (r.lost /\ path = "/")

\* A tab that is here carries its way in the query of its address.
OnTheWay(r) ==
    /\ r.at \notin {"provider", "callback"} => Leads(r, Sanitized(r.next))
    /\ r.at \in {"page", "login", "gate"} => r.next \in Pages
    /\ r.at \in {"asking", "new"} => r.next = "/new"

\* A tab that is away has it in the cookie of its flow, unless that is gone; when
\* the tab is back the cookie of its last flow is gone.
InItsCookie(r, cookies, last) ==
    /\ r.at \in {"provider", "callback"} => r.flow \in 1..last
    /\ r.flow # 0 => /\ r.flow \in 1..last
                     /\ IF r.at \in {"provider", "callback"}
                        THEN cookies[r.flow] = "gone" \/ Leads(r, cookies[r.flow])
                        ELSE cookies[r.flow] = "gone"

\* Redirects that may still follow before a step of the user.
HopsLeft(r, s) ==
    CASE r.at \in {"page", "login", "provider"} -> 0
      [] r.at = "asking" -> 3
      [] r.at \in {"google", "callback"} -> 2
      [] r.at \in {"new", "error"} -> 1
      [] r.at = "gate" -> IF r.error = "none" /\ s # "none" THEN 2 ELSE 0

\* Only these pages know of an error.
Told(r) == /\ r.error # "none" => r.at \in {"error", "gate", "login"}
           /\ r.at = "error" => r.error # "none"

Ways ==
    \A t \in Tabs : /\ OnTheWay(tab[t]) /\ Told(tab[t])
                    /\ InItsCookie(tab[t], kept, begun)
                    /\ tab[t].hops + HopsLeft(tab[t], session) <= 3

LoginInv == LoginShape /\ Ways

USE DEF Flows, NoFlow, Cookie

LEMMA LoginStart == Init => LoginInv
<1> USE SignInAssumption
<1> SUFFICES ASSUME Init PROVE LoginInv  OBVIOUS
<1> DEFINE home == At("/")
           project == At("/project")
<1>1. MaxFlows \in Nat  BY DEF SignInAssumption
<1>2. /\ home \in RouteStates /\ project \in RouteStates
      /\ \A r \in {home, project} : /\ r.at = "page" /\ r.next = r.goal /\ r.error = "none"
                                    /\ r.flow = 0 /\ r.hops = 0 /\ r.next \in Pages
  BY <1>1 DEF RouteStates, At, Pages, Paths, Errors
<1> HIDE DEF home, project
<1>3. tab \in [Tabs -> {home, project}]  BY DEF Init, home, project
<1>4. LoginShape
  <2>1. tab \in [Tabs -> RouteStates]  BY <1>2, <1>3
  <2>2. mode \in {"supabase", "mock", "disabled", "broken"}
    BY DEF Init, SignInAssumption
  <2>3. /\ session = "none" /\ spent = FALSE /\ up = TRUE /\ begun = 0 /\ changes = 0
        /\ kept = [f \in 1..MaxFlows |-> "gone"] /\ codes = [f \in 1..MaxFlows |-> FALSE]
    BY DEF Init
  <2>4. /\ codes \in [1..MaxFlows -> BOOLEAN]
        /\ kept \in [1..MaxFlows -> Pages \cup {"gone"}]
    BY <2>3
  <2>5. begun \in 0..MaxFlows /\ changes \in Nat  BY <1>1, <2>3
  <2>6. spent \in BOOLEAN /\ up \in BOOLEAN  BY <2>3
  <2> QED BY <2>1, <2>2, <2>3, <2>4, <2>5, <2>6 DEF LoginShape
<1>5. Ways
  <2> SUFFICES ASSUME NEW t \in Tabs
               PROVE  /\ OnTheWay(tab[t]) /\ Told(tab[t])
                      /\ InItsCookie(tab[t], kept, begun)
                      /\ tab[t].hops + HopsLeft(tab[t], session) <= 3
    BY DEF Ways
  <2>1. tab[t] \in {home, project}  BY <1>3
  <2> QED BY <1>2, <2>1 DEF OnTheWay, Leads, Told, InItsCookie, HopsLeft, Sanitized
<1> QED BY <1>4, <1>5 DEF LoginInv

\* A rest between two redirects changes nothing else.
LEMMA Resting ==
  ASSUME NEW r \in RouteStates, NEW rested, rested = [r EXCEPT !.hops = 0]
  PROVE  /\ rested \in RouteStates /\ rested.at = r.at /\ rested.next = r.next
         /\ rested.error = r.error /\ rested.flow = r.flow /\ rested.goal = r.goal
         /\ rested.lost = r.lost /\ rested.arrival = r.arrival /\ rested.hops = 0
BY DEF RouteStates

LEMMA FewHopsLeft ==
  ASSUME NEW r \in RouteStates, NEW s PROVE HopsLeft(r, s) \in 0..3
BY DEF HopsLeft, RouteStates

\* The others, while one tab moves: they stay where they are, and what was taken
\* or has expired of the cookies is gone.
LEMMA OthersKeep ==
  ASSUME LoginInv, NEW u \in Tabs, NEW s, NEW cookies, NEW last \in Nat, begun <= last,
         \A f \in 1..begun : cookies[f] \in {kept[f], "gone"},
         NEW r, (r = tab[u] /\ s = session) \/ r = [tab[u] EXCEPT !.hops = 0]
  PROVE  /\ r \in RouteStates /\ OnTheWay(r) /\ Told(r) /\ InItsCookie(r, cookies, last)
         /\ r.hops + HopsLeft(r, s) <= 3
<1> DEFINE old == tab[u]
<1>1. /\ old \in RouteStates /\ begun \in Nat /\ OnTheWay(old) /\ Told(old)
      /\ InItsCookie(old, kept, begun) /\ old.hops + HopsLeft(old, session) <= 3
  BY DEF LoginInv, LoginShape, Ways
<1> HIDE DEF old
<1>2. /\ r \in RouteStates /\ r.at = old.at /\ r.next = old.next /\ r.error = old.error
      /\ r.flow = old.flow /\ r.goal = old.goal /\ r.lost = old.lost
  BY <1>1, Resting DEF old
<1>3. OnTheWay(r) /\ Told(r)  BY <1>1, <1>2 DEF OnTheWay, Leads, Told
<1>4. InItsCookie(r, cookies, last)
  <2>1. r.flow # 0 => r.flow \in 1..begun /\ r.flow \in 1..last
    BY <1>1, <1>2 DEF InItsCookie
  <2> QED BY <1>1, <1>2, <2>1 DEF InItsCookie, Leads
<1>5. r.hops + HopsLeft(r, s) <= 3
  <2>1. CASE r = old /\ s = session  BY <1>1, <2>1
  <2>2. CASE r = [old EXCEPT !.hops = 0]
    <3>1. r.hops = 0  BY <1>1, <2>2, Resting
    <3> QED BY <1>2, <3>1, FewHopsLeft
  <2> QED BY <2>1, <2>2 DEF old
<1> QED BY <1>2, <1>3, <1>4, <1>5

\* One tab moves.  What a step has to show is what it says of that tab.
LEMMA MovingKeeps ==
  ASSUME LoginInv, NEW t \in Tabs, NEW new \in RouteStates,
         tab' = [u \in Tabs |-> IF u = t THEN new
                                  ELSE IF session' = session THEN tab[u]
                                  ELSE [tab[u] EXCEPT !.hops = 0]],
         UNCHANGED <<mode, up, changes>>,
         session' \in {"none", "valid", "expired"}, spent' \in BOOLEAN,
         kept' \in [1..MaxFlows -> Pages \cup {"gone"}],
         codes' \in [1..MaxFlows -> BOOLEAN],
         begun' \in 0..MaxFlows, begun <= begun',
         \A f \in 1..begun : kept'[f] \in {kept[f], "gone"},
         OnTheWay(new), Told(new), InItsCookie(new, kept', begun'),
         new.hops + HopsLeft(new, session') <= 3
  PROVE  LoginInv'
<1>1. LoginShape  BY DEF LoginInv
<1>2. ASSUME NEW u \in Tabs
      PROVE  /\ tab'[u] \in RouteStates /\ OnTheWay(tab'[u]) /\ Told(tab'[u])
             /\ InItsCookie(tab'[u], kept', begun')
             /\ tab'[u].hops + HopsLeft(tab'[u], session') <= 3
  <2>1. CASE u = t  BY <2>1
  <2>2. CASE u # t
    <3>1. \/ tab'[u] = tab[u] /\ session' = session
          \/ tab'[u] = [tab[u] EXCEPT !.hops = 0]
      BY <2>2
    <3>2. begun' \in Nat  OBVIOUS
    <3> QED BY <3>1, <3>2, OthersKeep
  <2> QED BY <2>1, <2>2
<1>3. tab' \in [Tabs -> RouteStates]  BY <1>2
<1>4. LoginShape'  BY <1>1, <1>3 DEF LoginShape
<1>5. Ways'  BY <1>2 DEF Ways
<1> QED BY <1>4, <1>5 DEF LoginInv

\* Where a step of the user leads, and where a redirect leads.
LEMMA StepIs ==
  ASSUME LoginShape, NEW t \in Tabs, NEW onward \in Paths, NEW error \in Errors,
         NEW at \in {"page", "asking", "new", "gate", "login", "google", "provider",
                     "callback", "error"},
         NEW new, new = Step(t, at, onward, error)
  PROVE  /\ new \in RouteStates /\ new.at = at /\ new.next = onward /\ new.error = error
         /\ new.hops = 0 /\ new.flow = tab[t].flow /\ new.goal = tab[t].goal
         /\ new.lost = tab[t].lost /\ new.arrival = tab[t].arrival
<1>1. tab[t] \in RouteStates  BY DEF LoginShape
<1> QED BY <1>1 DEF Step, RouteStates

LEMMA RedirectedIs ==
  ASSUME LoginShape, NEW t \in Tabs, NEW onward \in Paths, NEW error \in Errors,
         NEW at \in {"page", "asking", "new", "gate", "login", "google", "provider",
                     "callback", "error"},
         NEW new, new = Redirected(t, at, onward, error)
  PROVE  /\ new \in RouteStates /\ new.at = at /\ new.next = onward /\ new.error = error
         /\ new.hops = tab[t].hops + 1 /\ new.flow = tab[t].flow
         /\ new.goal = tab[t].goal /\ new.lost = tab[t].lost
         /\ new.arrival = tab[t].arrival
<1>1. tab[t] \in RouteStates  BY DEF LoginShape
<1>2. tab[t].hops + 1 \in Nat  BY <1>1 DEF RouteStates
<1> QED BY <1>1, <1>2 DEF Redirected, RouteStates

LEMMA GoesIs ==
  ASSUME LoginShape, NEW t \in Tabs, NEW place, Goes(t, place), UNCHANGED session
  PROVE  tab' = [u \in Tabs |-> IF u = t THEN place
                                  ELSE IF session' = session THEN tab[u]
                                  ELSE [tab[u] EXCEPT !.hops = 0]]
BY DEF LoginShape, Goes

LEMMA GoesWithIs ==
  ASSUME LoginShape, NEW t \in Tabs, NEW place, NEW s \in {"none", "valid", "expired"},
         GoesWith(t, place, s)
  PROVE  /\ tab' = [u \in Tabs |-> IF u = t THEN place
                                     ELSE IF session' = session THEN tab[u]
                                     ELSE [tab[u] EXCEPT !.hops = 0]]
         /\ session' = s /\ spent' \in BOOLEAN
<1>1. session' = s /\ spent' = (spent /\ s = session)  BY DEF GoesWith
<1>2. tab' = [u \in Tabs |-> IF u = t THEN place
                               ELSE IF s = session THEN tab[u]
                               ELSE [tab[u] EXCEPT !.hops = 0]]
  BY DEF GoesWith
<1> QED BY <1>1, <1>2 DEF LoginShape

\* The proxy makes no session where there is none, and leaves none that has
\* expired while the service is up.
LEMMA ProxyIs ==
  ASSUME LoginShape, NEW s \in AfterProxy
  PROVE  /\ s \in {"none", "valid", "expired"}
         /\ session = "none" => s = "none"
         /\ up => s # "expired"
BY DEF LoginShape, AfterProxy

\* A page whose way is this one.
LEMMA ArrivesIs ==
  ASSUME NEW r \in RouteStates, NEW onward \in Pages, NEW s, Leads(r, onward),
         r.at = OpenAt(onward), r.next = onward, r.error = "none"
  PROVE  OnTheWay(r) /\ Told(r) /\ HopsLeft(r, s) \in 0..1
BY DEF OpenAt, Sanitized, Pages, OnTheWay, Told, HopsLeft, RouteStates, Leads

\* A move from a page of the program to another one.
LEMMA PageMoveKeeps ==
  ASSUME LoginInv, NEW t \in Tabs, NEW new \in RouteStates,
         tab[t].at \notin {"provider", "callback"},
         new.at \notin {"provider", "callback"}, new.flow = tab[t].flow,
         tab' = [u \in Tabs |-> IF u = t THEN new
                                  ELSE IF session' = session THEN tab[u]
                                  ELSE [tab[u] EXCEPT !.hops = 0]],
         UNCHANGED <<mode, up, changes, kept, codes, begun>>,
         session' \in {"none", "valid", "expired"}, spent' \in BOOLEAN,
         OnTheWay(new), Told(new), new.hops + HopsLeft(new, session') <= 3
  PROVE  LoginInv'
<1>1. LoginShape /\ InItsCookie(tab[t], kept, begun)  BY DEF LoginInv, Ways
<1>2. InItsCookie(new, kept', begun')  BY <1>1 DEF InItsCookie
<1>3. /\ begun' \in 0..MaxFlows /\ begun <= begun'
      /\ \A f \in 1..begun : kept'[f] \in {kept[f], "gone"}
      /\ kept' \in [1..MaxFlows -> Pages \cup {"gone"}]
      /\ codes' \in [1..MaxFlows -> BOOLEAN]
  BY <1>1 DEF LoginShape
<1> QED BY <1>2, <1>3, MovingKeeps

\* What holds of the tab that moves.
LEMMA Here ==
  ASSUME LoginInv, NEW t \in Tabs
  PROVE  /\ LoginShape /\ tab[t] \in RouteStates /\ OnTheWay(tab[t]) /\ Told(tab[t])
         /\ InItsCookie(tab[t], kept, begun)
         /\ tab[t].hops \in Nat /\ tab[t].hops + HopsLeft(tab[t], session) <= 3
         /\ session \in {"none", "valid", "expired"} /\ spent \in BOOLEAN
BY DEF LoginInv, LoginShape, Ways, RouteStates

LEMMA LinksKeep ==
  ASSUME LoginInv, NEW t \in Tabs,
         \/ ClickEntry(t) \/ OpenLogin(t) \/ ClickLogin(t)
         \/ \E path \in Paths : FollowLink(t, path)
  PROVE  LoginInv'
<1> DEFINE old == tab[t]
<1>1. /\ LoginShape /\ old \in RouteStates /\ OnTheWay(old) /\ Told(old)
      /\ session \in {"none", "valid", "expired"} /\ spent \in BOOLEAN
  BY Here
<1>2. /\ old.at \in {"page", "login"} /\ UNCHANGED <<mode, up, changes, session, spent, kept, codes, begun>>
  BY DEF ClickEntry, OpenLogin, ClickLogin, FollowLink, outside
<1>3. \E at \in {"page", "new", "asking", "gate", "google"}, onward \in Paths,
       new \in RouteStates :
          /\ Goes(t, new)
          /\ new.at = at /\ new.next = onward /\ new.error = "none"
          /\ new.hops = 0 /\ new.flow = old.flow
          /\ at \in {"asking", "new"} => onward = "/new"
          /\ at \in {"page", "gate"} => onward \in Pages
          /\ Leads(new, Sanitized(onward))
  <2>1. CASE ClickEntry(t)
    <3>1. PICK at \in {"new", "asking"} :
              Goes(t, [Step(t, at, "/new", "none") EXCEPT !.goal = "/new", !.lost = FALSE])
      BY <2>1 DEF ClickEntry
    <3> DEFINE step == Step(t, at, "/new", "none")
               new == [step EXCEPT !.goal = "/new", !.lost = FALSE]
    <3>2. "/new" \in Paths /\ "/new" \in Pages /\ "none" \in Errors
      BY DEF Paths, Pages, Errors
    <3>3. step \in RouteStates /\ step.at = at /\ step.next = "/new" /\ step.error = "none"
          /\ step.hops = 0 /\ step.flow = old.flow
      BY <1>1, <3>2, StepIs
    <3> HIDE DEF step
    <3>4. new \in RouteStates /\ new.at = at /\ new.next = "/new" /\ new.error = "none"
          /\ new.hops = 0 /\ new.flow = old.flow /\ new.goal = "/new"
      BY <3>2, <3>3 DEF RouteStates
    <3>5. Leads(new, Sanitized("/new"))  BY <3>2, <3>4 DEF Leads, Sanitized
    <3> HIDE DEF new
    <3> QED BY <3>1, <3>2, <3>4, <3>5 DEF new, step
  <2>2. CASE OpenLogin(t)
    <3> DEFINE step == Step(t, "gate", "/", "none")
               new == [step EXCEPT !.goal = "/", !.lost = FALSE]
    <3>1. Goes(t, new)  BY <2>2 DEF OpenLogin
    <3>2. "/" \in Paths /\ "/" \in Pages /\ "none" \in Errors
      BY DEF Paths, Pages, Errors
    <3>3. step \in RouteStates /\ step.at = "gate" /\ step.next = "/" /\ step.error = "none"
          /\ step.hops = 0 /\ step.flow = old.flow
      BY <1>1, <3>2, StepIs
    <3> HIDE DEF step
    <3>4. new \in RouteStates /\ new.at = "gate" /\ new.next = "/" /\ new.error = "none"
          /\ new.hops = 0 /\ new.flow = old.flow /\ new.goal = "/"
      BY <3>2, <3>3 DEF RouteStates
    <3>5. Leads(new, Sanitized("/"))  BY <3>2, <3>4 DEF Leads, Sanitized
    <3> HIDE DEF new
    <3> QED BY <3>1, <3>2, <3>4, <3>5
  <2>3. CASE ClickLogin(t) /\ old.arrival = "known"
    <3> DEFINE onward == old.next
               new == Step(t, OpenAt(onward), onward, "none")
    <3>1. Goes(t, new)  BY <2>3 DEF ClickLogin
    <3>2. onward \in Pages /\ onward \in Paths /\ "none" \in Errors
      BY <1>1, <1>2 DEF OnTheWay, Paths, Pages, Errors
    <3>3. OpenAt(onward) \in {"page", "new"} /\ (OpenAt(onward) = "new" => onward = "/new")
      BY DEF OpenAt
    <3>4. Leads(old, Sanitized(onward))  BY <1>1, <1>2 DEF OnTheWay
    <3> HIDE DEF onward
    <3>5. new \in RouteStates /\ new.at = OpenAt(onward) /\ new.next = onward
          /\ new.error = "none" /\ new.hops = 0 /\ new.flow = old.flow
          /\ new.goal = old.goal /\ new.lost = old.lost
      BY <1>1, <3>2, <3>3, StepIs
    <3>6. Leads(new, Sanitized(onward))  BY <3>4, <3>5 DEF Leads
    <3> HIDE DEF new
    <3> QED BY <3>1, <3>2, <3>3, <3>5, <3>6
  <2>4. CASE ClickLogin(t) /\ old.arrival # "known" /\ mode = "mock"
    <3> DEFINE step == Step(t, "google", "/", "none")
               new == [step EXCEPT !.lost = TRUE]
    <3>1. Goes(t, new)  BY <2>4 DEF ClickLogin
    <3>2. "/" \in Paths /\ "/" \in Pages /\ "none" \in Errors
      BY DEF Paths, Pages, Errors
    <3>3. step \in RouteStates /\ step.at = "google" /\ step.next = "/" /\ step.error = "none"
          /\ step.hops = 0 /\ step.flow = old.flow
      BY <1>1, <3>2, StepIs
    <3> HIDE DEF step
    <3>4. new \in RouteStates /\ new.at = "google" /\ new.next = "/" /\ new.error = "none"
          /\ new.hops = 0 /\ new.flow = old.flow /\ new.lost
      BY <3>3 DEF RouteStates
    <3>5. Leads(new, Sanitized("/"))  BY <3>2, <3>4 DEF Leads, Sanitized
    <3> HIDE DEF new
    <3> QED BY <3>1, <3>2, <3>4, <3>5
  <2>5. CASE ClickLogin(t) /\ old.arrival # "known" /\ mode # "mock"
    <3> DEFINE onward == old.next
               new == Step(t, "google", onward, "none")
    <3>1. Goes(t, new)  BY <2>5 DEF ClickLogin
    <3>2. onward \in Paths /\ "none" \in Errors
      BY <1>1 DEF RouteStates, Errors
    <3>3. Leads(old, Sanitized(onward))  BY <1>1, <1>2 DEF OnTheWay
    <3> HIDE DEF onward
    <3>4. new \in RouteStates /\ new.at = "google" /\ new.next = onward
          /\ new.error = "none" /\ new.hops = 0 /\ new.flow = old.flow
          /\ new.goal = old.goal /\ new.lost = old.lost
      BY <1>1, <3>2, StepIs
    <3>5. Leads(new, Sanitized(onward))  BY <3>3, <3>4 DEF Leads
    <3> HIDE DEF new
    <3> QED BY <3>1, <3>2, <3>4, <3>5
  <2>6. ASSUME NEW path \in Paths, FollowLink(t, path)
        PROVE  \E new \in RouteStates :
                   /\ Goes(t, new)
                   /\ new.at = "google" /\ new.next = path
                   /\ new.error = "none" /\ new.hops = 0 /\ new.flow = old.flow
                   /\ Leads(new, Sanitized(path))
    <3> DEFINE step == Step(t, "google", path, "none")
               goal == Sanitized(path)
               new == [step EXCEPT !.goal = goal, !.lost = FALSE]
    <3>1. Goes(t, new)  BY <2>6 DEF FollowLink
    <3>2. goal \in Pages /\ "none" \in Errors
      BY DEF Sanitized, Pages, Errors
    <3>3. step \in RouteStates /\ step.at = "google" /\ step.next = path /\ step.error = "none"
          /\ step.hops = 0 /\ step.flow = old.flow
      BY <1>1, <3>2, StepIs
    <3> HIDE DEF step, goal
    <3>4. new \in RouteStates /\ new.at = "google" /\ new.next = path /\ new.error = "none"
          /\ new.hops = 0 /\ new.flow = old.flow /\ new.goal = goal
      BY <3>2, <3>3 DEF RouteStates
    <3> HIDE DEF new
    <3>5. Leads(new, Sanitized(path))  BY <3>4 DEF Leads, goal
    <3> QED BY <3>1, <3>4, <3>5
  <2> HIDE DEF old
  <2> QED BY <2>1, <2>2, <2>3, <2>4, <2>5, <2>6
<1>4. PICK at \in {"page", "new", "asking", "gate", "google"}, onward \in Paths,
         new \in RouteStates :
          /\ Goes(t, new)
          /\ new.at = at /\ new.next = onward /\ new.error = "none"
          /\ new.hops = 0 /\ new.flow = old.flow
          /\ at \in {"asking", "new"} => onward = "/new"
          /\ at \in {"page", "gate"} => onward \in Pages
          /\ Leads(new, Sanitized(onward))
  BY <1>3
<1>5. OnTheWay(new) /\ Told(new)  BY <1>4 DEF OnTheWay, Told
<1>6. new.hops + HopsLeft(new, session') <= 3  BY <1>4, FewHopsLeft
<1>7. tab' = [u \in Tabs |-> IF u = t THEN new
                               ELSE IF session' = session THEN tab[u]
                               ELSE [tab[u] EXCEPT !.hops = 0]]
  BY <1>1, <1>2, <1>4, GoesIs
<1> QED BY <1>1, <1>2, <1>4, <1>5, <1>6, <1>7, PageMoveKeeps

LEMMA SessionToldKeeps ==
  ASSUME LoginInv, NEW t \in Tabs, SessionTold(t)
  PROVE  LoginInv'
<1> DEFINE old == tab[t]
<1>1. /\ LoginShape /\ old \in RouteStates /\ OnTheWay(old) /\ old.at = "asking"
      /\ old.hops + HopsLeft(old, session) <= 3 /\ old.hops \in Nat
      /\ UNCHANGED <<mode, up, changes, kept, codes, begun>>
  BY Here DEF SessionTold, outside
<1>2. PICK s \in AfterProxy, told \in {"anonymous", "authenticated", "unavailable"} :
          /\ GoesWith(t, Redirected(t, EntryPath(told), "/new", "none"), s)
          /\ told = "anonymous" => s = "none"
  BY DEF SessionTold, SessionAnswer
<1> DEFINE at == EntryPath(told)
           new == Redirected(t, at, "/new", "none")
<1>3. at \in {"new", "gate", "google"} /\ (at = "gate" => s = "none")
  BY <1>2 DEF EntryPath
<1>4. "/new" \in Paths /\ "/new" \in Pages /\ "none" \in Errors
  BY DEF Paths, Pages, Errors
<1>5. s \in {"none", "valid", "expired"}  BY <1>1, ProxyIs
<1>6. old.hops = 0 /\ old.next = "/new" /\ Leads(old, "/new")
  BY <1>1, <1>4 DEF OnTheWay, HopsLeft, Sanitized
<1> HIDE DEF at
<1>7. /\ new \in RouteStates /\ new.at = at /\ new.next = "/new" /\ new.error = "none"
      /\ new.hops = 1 /\ new.flow = old.flow /\ new.goal = old.goal /\ new.lost = old.lost
  BY <1>1, <1>3, <1>4, <1>6, RedirectedIs
<1>8. /\ tab' = [u \in Tabs |-> IF u = t THEN new
                                  ELSE IF session' = session THEN tab[u]
                                  ELSE [tab[u] EXCEPT !.hops = 0]]
      /\ session' = s /\ spent' \in BOOLEAN
  BY <1>1, <1>2, <1>5, GoesWithIs DEF at
<1> HIDE DEF old, new
<1>9. OnTheWay(new) /\ Told(new)
  BY <1>3, <1>4, <1>6, <1>7 DEF OnTheWay, Told, Leads, Sanitized
<1>10. new.hops + HopsLeft(new, session') <= 3
  BY <1>3, <1>7, <1>8 DEF HopsLeft
<1> QED BY <1>1, <1>3, <1>5, <1>7, <1>8, <1>9, <1>10, PageMoveKeeps DEF old

LEMMA OpenNewKeeps ==
  ASSUME LoginInv, NEW t \in Tabs, OpenNew(t)
  PROVE  LoginInv'
<1> DEFINE old == tab[t]
<1>1. /\ LoginShape /\ old \in RouteStates /\ OnTheWay(old) /\ Told(old) /\ old.at = "new"
      /\ old.hops + HopsLeft(old, session) <= 3 /\ old.hops \in Nat
      /\ UNCHANGED <<mode, up, changes, kept, codes, begun>>
  BY Here DEF OpenNew, outside
<1> DEFINE place(gate) ==
             CASE gate = "ok" -> [old EXCEPT !.at = "page"]
               [] gate = "required" -> Redirected(t, "gate", "/new", "none")
               [] gate = "unavailable" -> Redirected(t, "gate", "/new", "session_unavailable")
               [] OTHER -> Redirected(t, "gate", "/new", gate)
<1>a. PICK s \in AfterProxy :
          \E gate \in GateResults(s) : GoesWith(t, place(gate), s)
  BY DEF OpenNew
<1>2. PICK gate \in GateResults(s) : GoesWith(t, place(gate), s)
  BY <1>a
<1>3. s \in {"none", "valid", "expired"} /\ (up => s # "expired")  BY <1>1, ProxyIs
<1>4. /\ gate \in {"ok", "required", "unavailable", "auth_not_configured"}
      /\ gate = "required" => s = "none"
  BY <1>1, <1>3 DEF GateResults, Identity, LoginShape
<1>5. "/new" \in Paths /\ "/new" \in Pages
      /\ {"none", "session_unavailable", "auth_not_configured"} \subseteq Errors
  BY DEF Paths, Pages, Errors
<1>6. /\ old.hops <= 2 /\ old.next = "/new" /\ Leads(old, "/new") /\ old.error = "none"
  BY <1>1, <1>5 DEF OnTheWay, Told, HopsLeft, Sanitized
<1>7. \E new \in RouteStates :
          /\ GoesWith(t, new, s)
          /\ new.at \in {"page", "gate"} /\ new.next = "/new" /\ new.flow = old.flow
          /\ new.goal = old.goal /\ new.lost = old.lost
          /\ IF new.at = "page" THEN new.error = "none" /\ new.hops = old.hops
             ELSE new.hops = old.hops + 1 /\ (new.error # "none" \/ s = "none")
  <2>1. CASE gate = "ok"
    <3> DEFINE new == [old EXCEPT !.at = "page"]
    <3>1. GoesWith(t, new, s)  BY <1>2, <2>1
    <3> HIDE DEF old
    <3>2. /\ new \in RouteStates /\ new.at = "page" /\ new.next = "/new" /\ new.flow = old.flow
          /\ new.goal = old.goal /\ new.lost = old.lost /\ new.error = "none"
          /\ new.hops = old.hops
      BY <1>1, <1>6 DEF RouteStates
    <3> HIDE DEF new
    <3> QED BY <3>1, <3>2
  <2>2. CASE gate # "ok"
    <3>1. PICK error \in {"none", "session_unavailable", "auth_not_configured"} :
              /\ GoesWith(t, Redirected(t, "gate", "/new", error), s)
              /\ error = "none" => s = "none"
      BY <1>2, <1>4, <2>2
    <3> DEFINE new == Redirected(t, "gate", "/new", error)
    <3>2. error \in Errors  BY <1>5
    <3>3. /\ new \in RouteStates /\ new.at = "gate" /\ new.next = "/new" /\ new.flow = old.flow
          /\ new.goal = old.goal /\ new.lost = old.lost /\ new.error = error
          /\ new.hops = old.hops + 1
      BY <1>1, <1>5, <3>2, RedirectedIs
    <3>4. GoesWith(t, new, s)  BY <3>1
    <3> HIDE DEF new, old
    <3> QED BY <3>1, <3>3, <3>4
  <2> QED BY <2>1, <2>2
<1>8. PICK new \in RouteStates :
          /\ GoesWith(t, new, s)
          /\ new.at \in {"page", "gate"} /\ new.next = "/new" /\ new.flow = old.flow
          /\ new.goal = old.goal /\ new.lost = old.lost
          /\ IF new.at = "page" THEN new.error = "none" /\ new.hops = old.hops
             ELSE new.hops = old.hops + 1 /\ (new.error # "none" \/ s = "none")
  BY <1>7
<1>9. /\ tab' = [u \in Tabs |-> IF u = t THEN new
                                  ELSE IF session' = session THEN tab[u]
                                  ELSE [tab[u] EXCEPT !.hops = 0]]
      /\ session' = s /\ spent' \in BOOLEAN
  BY <1>1, <1>3, <1>8, GoesWithIs
<1>10. OnTheWay(new) /\ Told(new)
  BY <1>5, <1>6, <1>8 DEF OnTheWay, Told, Leads, Sanitized
<1>11. new.hops + HopsLeft(new, session') <= 3
  BY <1>1, <1>6, <1>8, <1>9 DEF HopsLeft
<1> QED BY <1>1, <1>3, <1>8, <1>9, <1>10, <1>11, PageMoveKeeps

LEMMA LoginGateKeeps ==
  ASSUME LoginInv, NEW t \in Tabs, LoginGate(t)
  PROVE  LoginInv'
<1> DEFINE old == tab[t]
<1>1. /\ LoginShape /\ old \in RouteStates /\ OnTheWay(old) /\ Told(old) /\ old.at = "gate"
      /\ old.hops + HopsLeft(old, session) <= 3 /\ old.hops \in Nat
      /\ UNCHANGED <<mode, up, changes, session, kept, codes, begun>>
  BY Here DEF LoginGate, outside
<1>2. PICK identity \in {"off", "ok", "required", "unavailable"},
           error \in {old.error, "auth_not_configured", "session_unavailable", "none"} :
          /\ old.error # "none" => error = old.error
          /\ identity = "ok" => session # "none"
          /\ Goes(t, IF PassesOn(identity = "ok", error)
                  THEN Redirected(t, OpenAt(old.next), old.next, "none")
                  ELSE [old EXCEPT !.at = "login", !.error = error,
                            !.arrival = IF identity = "ok" THEN "known" ELSE "none"])
          /\ spent' = (spent \/ (session = "expired" /\ identity = "ok"))
  BY <1>1 DEF LoginGate, Identity, LoginShape
<1>3. spent' \in BOOLEAN  BY <1>2
<1>4. old.next \in Pages /\ Leads(old, old.next)
  BY <1>1 DEF OnTheWay, Sanitized
<1>5. /\ old.next \in Paths /\ "none" \in Errors /\ error \in Errors
  BY <1>1, <1>4 DEF Paths, Errors, RouteStates
<1>6. CASE PassesOn(identity = "ok", error)
  <2> DEFINE at == OpenAt(old.next)
             new == Redirected(t, at, old.next, "none")
  <2>1. old.error = "none" /\ session # "none"  BY <1>2, <1>6 DEF PassesOn
  <2>2. old.hops <= 1  BY <1>1, <2>1 DEF HopsLeft
  <2>3. at \in {"page", "new"}  BY DEF OpenAt
  <2>4. Goes(t, new)  BY <1>2, <1>6
  <2> HIDE DEF at
  <2>5. /\ new \in RouteStates /\ new.at = at /\ new.next = old.next /\ new.error = "none"
        /\ new.hops = old.hops + 1 /\ new.flow = old.flow /\ new.goal = old.goal
        /\ new.lost = old.lost
    BY <1>1, <1>5, <2>3, RedirectedIs
  <2> HIDE DEF new, old
  <2>6. OnTheWay(new) /\ Told(new) /\ HopsLeft(new, session') \in 0..1
    <3>1. Leads(new, old.next)  BY <1>4, <2>5 DEF Leads
    <3> QED BY <1>4, <2>5, <3>1, ArrivesIs DEF at
  <2>7. new.hops + HopsLeft(new, session') <= 3  BY <1>1, <2>2, <2>5, <2>6
  <2>8. tab' = [u \in Tabs |-> IF u = t THEN new
                                 ELSE IF session' = session THEN tab[u]
                                 ELSE [tab[u] EXCEPT !.hops = 0]]
    BY <1>1, <2>4, GoesIs
  <2> QED BY <1>1, <1>3, <2>3, <2>5, <2>6, <2>7, <2>8, PageMoveKeeps DEF old, LoginShape
<1>7. CASE ~PassesOn(identity = "ok", error)
  <2> DEFINE known == IF identity = "ok" THEN "known" ELSE "none"
             new == [old EXCEPT !.at = "login", !.error = error, !.arrival = known]
  <2>1. Goes(t, new)  BY <1>2, <1>7
  <2>2. known \in {"known", "none"}  OBVIOUS
  <2> HIDE DEF old, known
  <2>3. /\ new \in RouteStates /\ new.at = "login" /\ new.next = old.next /\ new.error = error
        /\ new.hops = old.hops /\ new.flow = old.flow /\ new.goal = old.goal
        /\ new.lost = old.lost
    BY <1>1, <1>5, <2>2 DEF RouteStates
  <2> HIDE DEF new
  <2>4. OnTheWay(new) /\ Told(new)
    BY <1>4, <2>3 DEF OnTheWay, Told, Leads, Sanitized
  <2>5. new.hops + HopsLeft(new, session') <= 3
    <3>1. HopsLeft(new, session') = 0  BY <2>3 DEF HopsLeft
    <3>2. HopsLeft(old, session) \in 0..3  BY <1>1, FewHopsLeft
    <3> QED BY <1>1, <2>3, <3>1, <3>2
  <2>6. tab' = [u \in Tabs |-> IF u = t THEN new
                                 ELSE IF session' = session THEN tab[u]
                                 ELSE [tab[u] EXCEPT !.hops = 0]]
    BY <1>1, <2>1, GoesIs
  <2> QED BY <1>1, <1>3, <2>3, <2>4, <2>5, <2>6, PageMoveKeeps DEF old, LoginShape
<1> QED BY <1>6, <1>7

LEMMA BeginPresentationKeeps ==
  ASSUME LoginInv, NEW t \in Tabs, BeginPresentation(t)
  PROVE  LoginInv'
<1> DEFINE old == tab[t]
           onward == Sanitized(old.next)
           at == OpenAt(onward)
           new == Redirected(t, at, onward, "none")
<1>1. /\ LoginShape /\ old \in RouteStates /\ OnTheWay(old) /\ old.at = "google"
      /\ old.hops + HopsLeft(old, session) <= 3 /\ old.hops \in Nat
      /\ UNCHANGED <<mode, up, changes, kept, codes, begun>>
      /\ GoesWith(t, new, "valid")
  BY Here DEF BeginPresentation, outside
<1>2. /\ onward \in Pages /\ onward \in Paths /\ "none" \in Errors
      /\ at \in {"page", "new"} /\ Leads(old, onward) /\ old.hops <= 1
  BY <1>1 DEF Sanitized, Paths, Pages, Errors, OpenAt, OnTheWay,
              HopsLeft
<1> HIDE DEF onward, at
<1>3. /\ new \in RouteStates /\ new.at = at /\ new.next = onward /\ new.error = "none"
      /\ new.hops = old.hops + 1 /\ new.flow = old.flow /\ new.goal = old.goal
      /\ new.lost = old.lost
  BY <1>1, <1>2, RedirectedIs
<1> HIDE DEF new
<1>4. /\ tab' = [u \in Tabs |-> IF u = t THEN new
                                  ELSE IF session' = session THEN tab[u]
                                  ELSE [tab[u] EXCEPT !.hops = 0]]
      /\ session' = "valid" /\ spent' \in BOOLEAN
  BY <1>1, GoesWithIs
<1>5. OnTheWay(new) /\ Told(new) /\ HopsLeft(new, session') \in 0..1
  <2>1. Leads(new, onward)  BY <1>2, <1>3 DEF Leads
  <2> QED BY <1>2, <1>3, <2>1, ArrivesIs DEF at
<1>6. new.hops + HopsLeft(new, session') <= 3  BY <1>1, <1>2, <1>3, <1>5
<1> HIDE DEF old
<1> QED BY <1>1, <1>2, <1>3, <1>4, <1>5, <1>6, PageMoveKeeps DEF old

LEMMA ErrorRouteKeeps ==
  ASSUME LoginInv, NEW t \in Tabs, ErrorRoute(t)
  PROVE  LoginInv'
<1> DEFINE old == tab[t]
           onward == Sanitized(old.next)
           new == Redirected(t, "gate", onward, old.error)
<1>1. /\ LoginShape /\ old \in RouteStates /\ OnTheWay(old) /\ Told(old) /\ old.at = "error"
      /\ old.hops + HopsLeft(old, session) <= 3 /\ old.hops \in Nat
      /\ UNCHANGED <<mode, up, changes, kept, codes, begun>>
  BY Here DEF ErrorRoute, outside
<1>2. PICK s \in AfterProxy : GoesWith(t, new, s)
  BY DEF ErrorRoute, Through
<1>3. s \in {"none", "valid", "expired"}  BY <1>1, ProxyIs
<1>4. /\ onward \in Pages /\ onward \in Paths /\ old.error \in Errors
      /\ Leads(old, onward) /\ old.hops <= 2 /\ old.error # "none"
  BY <1>1 DEF Sanitized, Paths, Pages, OnTheWay, Told, HopsLeft, RouteStates
<1> HIDE DEF onward
<1>5. /\ new \in RouteStates /\ new.at = "gate" /\ new.next = onward /\ new.error = old.error
      /\ new.hops = old.hops + 1 /\ new.flow = old.flow /\ new.goal = old.goal
      /\ new.lost = old.lost
  BY <1>1, <1>4, RedirectedIs
<1> HIDE DEF new
<1>6. /\ tab' = [u \in Tabs |-> IF u = t THEN new
                                  ELSE IF session' = session THEN tab[u]
                                  ELSE [tab[u] EXCEPT !.hops = 0]]
      /\ session' = s /\ spent' \in BOOLEAN
  BY <1>1, <1>2, <1>3, GoesWithIs
<1> HIDE DEF old
<1>7. OnTheWay(new) /\ Told(new)
  BY <1>4, <1>5 DEF OnTheWay, Told, Leads, Sanitized
<1>8. new.hops + HopsLeft(new, session') <= 3
  BY <1>1, <1>4, <1>5 DEF HopsLeft
<1> QED BY <1>1, <1>3, <1>5, <1>6, <1>7, <1>8, PageMoveKeeps DEF old

LEMMA LogoutKeeps ==
  ASSUME LoginInv, NEW t \in Tabs, Logout(t) \/ EndPresentation(t)
  PROVE  LoginInv'
<1> DEFINE old == tab[t]
           onward == old.next
           at == OpenAt(onward)
<1>1. /\ LoginShape /\ old \in RouteStates /\ OnTheWay(old) /\ old.at = "page"
      /\ session \in {"none", "valid", "expired"} /\ spent \in BOOLEAN
      /\ UNCHANGED <<mode, up, changes, kept, codes, begun>>
  BY Here DEF Logout, EndPresentation, outside
<1>2. \/ GoesWith(t, Step(t, at, onward, "none"), "none")
      \/ Goes(t, Step(t, "error", onward, "logout_failed")) /\ UNCHANGED <<session, spent>>
  BY DEF Logout, EndPresentation
<1>3. /\ onward \in Pages /\ onward \in Paths
      /\ {"none", "logout_failed"} \subseteq Errors
      /\ at \in {"page", "new"} /\ Leads(old, onward)
  BY <1>1 DEF Sanitized, Paths, Errors, OpenAt, OnTheWay
<1> HIDE DEF onward, at
<1>4. CASE GoesWith(t, Step(t, at, onward, "none"), "none")
  <2> DEFINE new == Step(t, at, onward, "none")
  <2>1. /\ new \in RouteStates /\ new.at = at /\ new.next = onward /\ new.error = "none"
        /\ new.hops = 0 /\ new.flow = old.flow /\ new.goal = old.goal /\ new.lost = old.lost
    BY <1>1, <1>3, StepIs
  <2>2. /\ tab' = [u \in Tabs |-> IF u = t THEN new
                                    ELSE IF session' = session THEN tab[u]
                                    ELSE [tab[u] EXCEPT !.hops = 0]]
        /\ session' = "none" /\ spent' \in BOOLEAN
    BY <1>1, <1>4, GoesWithIs
  <2> HIDE DEF new, old
  <2>3. OnTheWay(new) /\ Told(new)
    <3>1. Leads(new, onward)  BY <1>3, <2>1 DEF Leads
    <3> QED BY <1>3, <2>1, <3>1, ArrivesIs DEF at
  <2>4. new.hops + HopsLeft(new, session') <= 3  BY <2>1, FewHopsLeft
  <2> QED BY <1>1, <1>3, <2>1, <2>2, <2>3, <2>4, PageMoveKeeps DEF old
<1>5. CASE /\ Goes(t, Step(t, "error", onward, "logout_failed"))
           /\ UNCHANGED <<session, spent>>
  <2> DEFINE new == Step(t, "error", onward, "logout_failed")
  <2>1. /\ new \in RouteStates /\ new.at = "error" /\ new.next = onward
        /\ new.error = "logout_failed"
        /\ new.hops = 0 /\ new.flow = old.flow /\ new.goal = old.goal /\ new.lost = old.lost
    BY <1>1, <1>3, StepIs
  <2>2. tab' = [u \in Tabs |-> IF u = t THEN new
                                 ELSE IF session' = session THEN tab[u]
                                 ELSE [tab[u] EXCEPT !.hops = 0]]
    BY <1>1, <1>5, GoesIs
  <2> HIDE DEF new, old
  <2>3. OnTheWay(new) /\ Told(new)
    BY <1>3, <2>1 DEF OnTheWay, Told, Leads, Sanitized
  <2>4. new.hops + HopsLeft(new, session') <= 3  BY <2>1, FewHopsLeft
  <2> QED BY <1>1, <1>3, <1>5, <2>1, <2>2, <2>3, <2>4, PageMoveKeeps DEF old
<1> QED BY <1>2, <1>4, <1>5

\* What a move leaves of the types.
LEMMA StillTyped ==
  ASSUME LoginInv, UNCHANGED begun
  PROVE  begun' \in 0..MaxFlows /\ begun <= begun'
BY DEF LoginInv, LoginShape

LEMMA StartGoogleKeeps ==
  ASSUME MaxFlows \in Nat, LoginInv, NEW t \in Tabs, StartGoogle(t)
  PROVE  LoginInv'
<1> DEFINE old == tab[t]
           onward == Sanitized(old.next)
<1>1. /\ LoginShape /\ old \in RouteStates /\ OnTheWay(old) /\ Told(old) /\ old.at = "google"
      /\ old.hops + HopsLeft(old, session) <= 3 /\ old.hops \in Nat
      /\ UNCHANGED <<mode, up, changes, codes>>
  BY Here DEF StartGoogle, outside
<1>2. /\ onward \in Pages /\ onward \in Paths
      /\ {"none", "login_failed"} \subseteq Errors
      /\ Leads(old, onward) /\ old.hops <= 1
  BY <1>1 DEF Sanitized, Paths, Pages, Errors, OnTheWay, HopsLeft
<1>3. \/ /\ begun < MaxFlows /\ begun' = begun + 1
         /\ kept' = [kept EXCEPT ![begun + 1] = onward]
         /\ \E s \in AfterProxy :
               GoesWith(t, [Redirected(t, "provider", onward, "none")
                                     EXCEPT !.flow = begun + 1], s)
      \/ /\ UNCHANGED <<kept, begun>>
         /\ \E s \in AfterProxy :
               GoesWith(t, Redirected(t, "error", onward, "login_failed"), s)
  BY DEF StartGoogle, Through
<1> HIDE DEF onward
<1>4. ASSUME begun < MaxFlows, begun' = begun + 1, kept' = [kept EXCEPT ![begun + 1] = onward],
             NEW s \in AfterProxy,
             GoesWith(t, [Redirected(t, "provider", onward, "none")
                                   EXCEPT !.flow = begun + 1], s)
      PROVE  LoginInv'
  <2> DEFINE step == Redirected(t, "provider", onward, "none")
             new == [step EXCEPT !.flow = begun + 1]
  <2>1. /\ begun \in 0..MaxFlows /\ kept \in [1..MaxFlows -> Pages \cup {"gone"}]
        /\ codes \in [1..MaxFlows -> BOOLEAN]
    BY <1>1 DEF LoginShape
  <2>2. begun + 1 \in 1..MaxFlows /\ begun + 1 \in 0..MaxFlows
    BY <1>4, <2>1
  <2>3. /\ step \in RouteStates /\ step.at = "provider" /\ step.next = onward
        /\ step.error = "none" /\ step.hops = old.hops + 1 /\ step.goal = old.goal
        /\ step.lost = old.lost
    BY <1>1, <1>2, RedirectedIs
  <2> HIDE DEF step
  <2>4. /\ new \in RouteStates /\ new.at = "provider" /\ new.flow = begun + 1
        /\ new.error = "none" /\ new.hops = old.hops + 1 /\ new.goal = old.goal
        /\ new.lost = old.lost
    BY <2>2, <2>3 DEF RouteStates
  <2>5. s \in {"none", "valid", "expired"}  BY <1>1, ProxyIs
  <2>6. GoesWith(t, new, s)  BY <1>4 DEF step
  <2> HIDE DEF new
  <2>7. /\ tab' = [u \in Tabs |-> IF u = t THEN new
                                    ELSE IF session' = session THEN tab[u]
                                    ELSE [tab[u] EXCEPT !.hops = 0]]
        /\ session' = s /\ spent' \in BOOLEAN
    BY <1>1, <2>5, <2>6, GoesWithIs
  <2> HIDE DEF old
  <2>8. /\ kept' \in [1..MaxFlows -> Pages \cup {"gone"}]
        /\ kept'[begun + 1] = onward
        /\ \A f \in 1..begun : kept'[f] = kept[f]
    BY <1>2, <1>4, <2>1, <2>2
  <2>9. OnTheWay(new) /\ Told(new)  BY <2>4 DEF OnTheWay, Told
  <2>10. InItsCookie(new, kept', begun')
    BY <1>2, <1>4, <2>1, <2>4, <2>8 DEF InItsCookie, Leads
  <2>11. new.hops + HopsLeft(new, session') <= 3
    BY <1>1, <1>2, <2>4 DEF HopsLeft
  <2>12. begun' \in 0..MaxFlows /\ begun <= begun'  BY <1>4, <2>1, <2>2
  <2>13. codes' \in [1..MaxFlows -> BOOLEAN]  BY <1>1, <2>1
  <2> QED BY <1>1, <2>4, <2>5, <2>7, <2>8, <2>9, <2>10, <2>11, <2>12, <2>13, MovingKeeps
<1>5. ASSUME UNCHANGED <<kept, begun>>, NEW s \in AfterProxy,
             GoesWith(t, Redirected(t, "error", onward, "login_failed"), s)
      PROVE  LoginInv'
  <2> DEFINE new == Redirected(t, "error", onward, "login_failed")
  <2>1. /\ new \in RouteStates /\ new.at = "error" /\ new.next = onward
        /\ new.error = "login_failed" /\ new.hops = old.hops + 1 /\ new.flow = old.flow
        /\ new.goal = old.goal /\ new.lost = old.lost
    BY <1>1, <1>2, RedirectedIs
  <2>2. s \in {"none", "valid", "expired"}  BY <1>1, ProxyIs
  <2>3. GoesWith(t, new, s)  BY <1>5
  <2> HIDE DEF new
  <2>4. /\ tab' = [u \in Tabs |-> IF u = t THEN new
                                    ELSE IF session' = session THEN tab[u]
                                    ELSE [tab[u] EXCEPT !.hops = 0]]
        /\ session' = s /\ spent' \in BOOLEAN
    BY <1>1, <2>2, <2>3, GoesWithIs
  <2> HIDE DEF old
  <2>5. OnTheWay(new) /\ Told(new)
    BY <1>2, <2>1 DEF OnTheWay, Told, Leads, Sanitized
  <2>6. new.hops + HopsLeft(new, session') <= 3
    BY <1>1, <1>2, <2>1 DEF HopsLeft
  <2> QED BY <1>1, <1>5, <2>1, <2>2, <2>4, <2>5, <2>6, PageMoveKeeps DEF old
<1> QED BY <1>3, <1>4, <1>5

\* To the callback, from Google or by the address again.
LEMMA CallingKeeps ==
  ASSUME LoginInv, NEW t \in Tabs, ProviderAnswers(t) \/ CallAgain(t)
  PROVE  LoginInv'
<1> DEFINE old == tab[t]
           step == Step(t, "callback", "/", "none")
<1>1. /\ LoginShape /\ old \in RouteStates /\ InItsCookie(old, kept, begun)
      /\ session \in {"none", "valid", "expired"} /\ spent \in BOOLEAN
      /\ UNCHANGED <<mode, up, changes, session, spent, kept, codes, begun>>
      /\ old.at = "provider" \/ (old.at \in {"page", "login"} /\ old.flow # 0)
  BY Here DEF ProviderAnswers, CallAgain, outside
<1>2. PICK arrival \in {"code", "denied", "garbled"} :
          Goes(t, [step EXCEPT !.arrival = arrival])
  BY DEF ProviderAnswers, CallAgain
<1> DEFINE new == [step EXCEPT !.arrival = arrival]
<1>3. "/" \in Paths /\ "none" \in Errors
  BY DEF Paths, Pages, Errors
<1>4. /\ step \in RouteStates /\ step.at = "callback" /\ step.error = "none" /\ step.hops = 0
      /\ step.flow = old.flow /\ step.goal = old.goal /\ step.lost = old.lost
  BY <1>1, <1>3, StepIs
<1>5. Goes(t, new)  BY <1>2
<1> HIDE DEF step
<1>6. /\ new \in RouteStates /\ new.at = "callback" /\ new.error = "none" /\ new.hops = 0
      /\ new.flow = old.flow /\ new.goal = old.goal /\ new.lost = old.lost
  BY <1>4 DEF RouteStates
<1> HIDE DEF new
<1>7. tab' = [u \in Tabs |-> IF u = t THEN new
                               ELSE IF session' = session THEN tab[u]
                               ELSE [tab[u] EXCEPT !.hops = 0]]
  BY <1>1, <1>5, GoesIs
<1> HIDE DEF old
<1>8. OnTheWay(new) /\ Told(new)  BY <1>6 DEF OnTheWay, Told
<1>9. InItsCookie(new, kept', begun')  BY <1>1, <1>6 DEF InItsCookie, Leads
<1>10. new.hops + HopsLeft(new, session') <= 3  BY <1>6, FewHopsLeft
<1>11. /\ kept' \in [1..MaxFlows -> Pages \cup {"gone"}]
       /\ codes' \in [1..MaxFlows -> BOOLEAN]
       /\ \A f \in 1..begun : kept'[f] \in {kept[f], "gone"}
  BY <1>1 DEF LoginShape
<1> QED BY <1>1, <1>6, <1>7, <1>8, <1>9, <1>10, <1>11, StillTyped, MovingKeeps

\* Where the callback sends the tab, for each of its answers.
LEMMA CallbackKeeps ==
  ASSUME MaxFlows \in Nat, LoginInv, NEW t \in Tabs, Callback(t)
  PROVE  LoginInv'
<1> DEFINE old == tab[t]
           f == old.flow
           way == Continuation(f)
           base(at, onward, error) == Redirected(t, at, onward, error)
           Sent(at, onward, error) ==
               [base(at, onward, error) EXCEPT !.arrival = "none",
                   !.flow = IF old.arrival = "code" THEN f ELSE 0,
                   !.lost = @ \/ old.arrival = "garbled" \/ kept[f] = "gone"]
           taken == [kept EXCEPT ![f] = "gone"]
<1>1. /\ LoginShape /\ old \in RouteStates /\ InItsCookie(old, kept, begun)
      /\ old.at = "callback"
      /\ old.hops + HopsLeft(old, session) <= 3 /\ old.hops \in Nat
      /\ session \in {"none", "valid", "expired"} /\ spent \in BOOLEAN
      /\ UNCHANGED <<mode, up, changes, begun>>
  BY Here DEF Callback, outside
<1>2. /\ f \in 1..begun /\ f \in 1..MaxFlows /\ old.hops <= 1
      /\ kept \in [1..MaxFlows -> Pages \cup {"gone"}]
      /\ codes \in [1..MaxFlows -> BOOLEAN]
      /\ begun \in 0..MaxFlows
      /\ kept[f] = "gone" \/ Leads(old, kept[f])
  BY <1>1 DEF InItsCookie, HopsLeft, LoginShape
<1>3. /\ way \in Pages /\ "/" \in Pages /\ Pages \subseteq Paths
      /\ {"none", "invalid_request", "provider_denied", "callback_failed"} \subseteq Errors
      /\ IF kept[f] = "gone" THEN way = "/" ELSE way = kept[f]
  BY <1>2 DEF Continuation, Paths, Pages, Errors
<1>4. \E at \in {"error", "page", "new"}, error \in Errors, onward \in {"/", way},
         s \in {"none", "valid", "expired"} :
          /\ GoesWith(t, Sent(at, onward, error), s)
          /\ at = "error" => error # "none"
          /\ at # "error" => error = "none" /\ at = OpenAt(onward)
          /\ IF old.arrival = "garbled" THEN onward = "/" /\ UNCHANGED kept
             ELSE onward = way /\ kept' = taken
          /\ codes' \in [1..MaxFlows -> BOOLEAN]
  <2>1. \A s \in AfterProxy : s \in {"none", "valid", "expired"}  BY <1>1, ProxyIs
  <2>2. OpenAt(way) \in {"page", "new"}  BY DEF OpenAt
  <2>3. CASE /\ old.arrival = "garbled" /\ UNCHANGED <<kept, codes>>
             /\ Through(t, Sent("error", "/", "invalid_request"))
    <3>1. PICK s \in AfterProxy : GoesWith(t, Sent("error", "/", "invalid_request"), s)
      BY <2>3 DEF Through
    <3> HIDE DEF Sent
    <3> QED BY <1>2, <1>3, <2>1, <2>3, <3>1
  <2>4. CASE /\ old.arrival = "denied" /\ kept' = taken /\ UNCHANGED codes
             /\ Through(t, Sent("error", way, "provider_denied"))
    <3>1. PICK s \in AfterProxy : GoesWith(t, Sent("error", way, "provider_denied"), s)
      BY <2>4 DEF Through
    <3> HIDE DEF Sent, way, taken
    <3> QED BY <1>2, <1>3, <2>1, <2>4, <3>1
  <2>5. CASE /\ old.arrival = "code" /\ kept' = taken /\ codes' = [codes EXCEPT ![f] = TRUE]
             /\ GoesWith(t, Sent(OpenAt(way), way, "none"), "valid")
    <3>1. codes' \in [1..MaxFlows -> BOOLEAN]  BY <1>2, <2>5
    <3> HIDE DEF Sent, way, taken
    <3> QED BY <1>3, <2>2, <2>5, <3>1
  <2>6. CASE /\ old.arrival = "code" /\ kept' = taken /\ UNCHANGED codes
             /\ Through(t, Sent("error", way, "callback_failed"))
    <3>1. PICK s \in AfterProxy : GoesWith(t, Sent("error", way, "callback_failed"), s)
      BY <2>6 DEF Through
    <3> HIDE DEF Sent, way, taken
    <3> QED BY <1>2, <1>3, <2>1, <2>6, <3>1
  <2> QED BY <2>3, <2>4, <2>5, <2>6 DEF Callback, Taken
<1>5. PICK at \in {"error", "page", "new"}, error \in Errors, onward \in {"/", way},
           s \in {"none", "valid", "expired"} :
          /\ GoesWith(t, Sent(at, onward, error), s)
          /\ at = "error" => error # "none"
          /\ at # "error" => error = "none" /\ at = OpenAt(onward)
          /\ IF old.arrival = "garbled" THEN onward = "/" /\ UNCHANGED kept
             ELSE onward = way /\ kept' = taken
          /\ codes' \in [1..MaxFlows -> BOOLEAN]
  BY <1>4
<1> DEFINE step == base(at, onward, error)
           flow == IF old.arrival = "code" THEN f ELSE 0
           new == Sent(at, onward, error)
<1>6. onward \in Pages /\ onward \in Paths  BY <1>3
<1> HIDE DEF way
<1>7. /\ step \in RouteStates /\ step.at = at /\ step.next = onward /\ step.error = error
      /\ step.hops = old.hops + 1 /\ step.goal = old.goal /\ step.lost = old.lost
  BY <1>1, <1>6, RedirectedIs
<1>8. GoesWith(t, new, s)  BY <1>5
<1> HIDE DEF base
<1>9. /\ new \in RouteStates /\ new.at = at /\ new.next = onward /\ new.error = error
      /\ new.hops = old.hops + 1 /\ new.goal = old.goal /\ new.flow \in {0, f}
      /\ new.flow = f => old.arrival = "code"
      /\ old.lost \/ old.arrival = "garbled" \/ kept[f] = "gone" => new.lost
  <2> DEFINE lost == step.lost \/ old.arrival = "garbled" \/ kept[f] = "gone"
  <2>1. lost \in BOOLEAN /\ flow \in 0..MaxFlows /\ flow \in {0, f}
        /\ (flow = f => old.arrival = "code")
    BY <1>2
  <2>2. new = [step EXCEPT !.arrival = "none", !.flow = flow, !.lost = lost]  OBVIOUS
  <2>3. lost <=> old.lost \/ old.arrival = "garbled" \/ kept[f] = "gone"  BY <1>7
  <2> HIDE DEF new, step, flow, lost, old
  <2> QED BY <1>7, <2>1, <2>2, <2>3 DEF RouteStates
<1> HIDE DEF new
<1>10. /\ tab' = [u \in Tabs |-> IF u = t THEN new
                                   ELSE IF session' = session THEN tab[u]
                                   ELSE [tab[u] EXCEPT !.hops = 0]]
       /\ session' = s /\ spent' \in BOOLEAN
  BY <1>1, <1>8, GoesWithIs
<1> HIDE DEF old, f
<1>11. Leads(new, onward)
  <2>1. CASE old.arrival = "garbled" \/ kept[f] = "gone"
    BY <1>3, <1>5, <1>9, <2>1 DEF Leads
  <2>2. CASE old.arrival # "garbled" /\ kept[f] # "gone"
    BY <1>2, <1>3, <1>5, <1>9, <2>2 DEF Leads
  <2> QED BY <2>1, <2>2
<1>12. OnTheWay(new) /\ Told(new)
  <2>1. CASE at = "error"
    BY <1>5, <1>6, <1>9, <1>11, <2>1 DEF OnTheWay, Told, Sanitized
  <2>2. CASE at # "error"
    BY <1>5, <1>6, <1>9, <1>11, <2>2, ArrivesIs
  <2> QED BY <2>1, <2>2
<1>13. new.hops + HopsLeft(new, session') <= 3
  BY <1>1, <1>2, <1>5, <1>9 DEF HopsLeft
<1>14. /\ kept' \in [1..MaxFlows -> Pages \cup {"gone"}]
       /\ \A g \in 1..begun : kept'[g] \in {kept[g], "gone"}
       /\ old.arrival = "code" => kept'[f] = "gone"
  BY <1>2, <1>5
<1>15. InItsCookie(new, kept', begun')
  <2>1. new.flow # 0 => new.flow = f /\ kept'[f] = "gone"  BY <1>9, <1>14
  <2> QED BY <1>1, <1>2, <1>5, <1>9, <2>1 DEF InItsCookie
<1> QED BY <1>1, <1>5, <1>9, <1>10, <1>12, <1>13, <1>14, <1>15, StillTyped, MovingKeeps

LEMMA OutsideKeeps == ASSUME MaxFlows \in Nat, LoginInv, Outside PROVE LoginInv'
<1>1. LoginShape  BY DEF LoginInv
<1>2. /\ tab' = [u \in Tabs |-> [tab[u] EXCEPT !.hops = 0]]
      /\ changes' = changes + 1 /\ UNCHANGED <<mode, codes, begun>>
  BY DEF Outside, Rested
<1> DEFINE Typed ==
       /\ session' \in {"none", "valid", "expired"} /\ up' \in BOOLEAN /\ spent' \in BOOLEAN
       /\ kept' \in [1..MaxFlows -> Pages \cup {"gone"}]
       /\ \A f \in 1..MaxFlows : kept'[f] \in {kept[f], "gone"}
<1>3. Typed
  <2>1. CASE up' = ~up /\ UNCHANGED <<session, spent, kept>>
    <3>1. up' \in BOOLEAN  BY <2>1
    <3> QED BY <1>1, <2>1, <3>1 DEF LoginShape
  <2>2. CASE /\ session' = IF mode = "mock" THEN "none" ELSE "expired"
             /\ UNCHANGED <<up, spent, kept>>
    BY <1>1, <2>2 DEF LoginShape
  <2>3. CASE session' = "none" /\ spent' = FALSE /\ UNCHANGED <<up, kept>>
    <3>1. spent' \in BOOLEAN  BY <2>3
    <3> QED BY <1>1, <2>3, <3>1 DEF LoginShape
  <2>4. ASSUME NEW f \in 1..MaxFlows, kept' = [kept EXCEPT ![f] = "gone"],
               UNCHANGED <<up, session, spent>>
        PROVE  Typed
    BY <1>1, <2>4 DEF LoginShape
  <2> QED BY <2>1, <2>2, <2>3, <2>4 DEF Outside
<1>4. ASSUME NEW u \in Tabs
      PROVE  /\ tab'[u] \in RouteStates /\ OnTheWay(tab'[u]) /\ Told(tab'[u])
             /\ InItsCookie(tab'[u], kept', begun')
             /\ tab'[u].hops + HopsLeft(tab'[u], session') <= 3
  <2>1. tab'[u] = [tab[u] EXCEPT !.hops = 0]  BY <1>2
  <2>2. begun' \in Nat /\ begun <= begun' /\ 1..begun \subseteq 1..MaxFlows
    BY <1>1, <1>2 DEF LoginShape
  <2>3. \A f \in 1..begun : kept'[f] \in {kept[f], "gone"}  BY <1>3, <2>2
  <2> QED BY <2>1, <2>2, <2>3, OthersKeep
<1>5. tab' \in [Tabs -> RouteStates]  BY <1>2, <1>4
<1>6. LoginShape'  BY <1>1, <1>2, <1>3, <1>5 DEF LoginShape
<1> QED BY <1>4, <1>6 DEF LoginInv, Ways

LEMMA LoginStep ==
  ASSUME LoginInv, [Next]_vars
  PROVE  LoginInv'
<1> USE SignInAssumption
<1>0. MaxFlows \in Nat  BY DEF SignInAssumption
<1>1. CASE UNCHANGED vars
  BY <1>1 DEF vars, LoginInv, LoginShape, Ways
<1>2. ASSUME NEW t \in Tabs,
             \/ ClickEntry(t) \/ OpenLogin(t) \/ ClickLogin(t)
             \/ \E path \in Paths : FollowLink(t, path)
      PROVE  LoginInv'
  BY <1>2, LinksKeep
<1>3. ASSUME NEW t \in Tabs,
             \/ SessionTold(t) \/ OpenNew(t) \/ LoginGate(t)
             \/ BeginPresentation(t) \/ ErrorRoute(t)
             \/ Logout(t) \/ EndPresentation(t)
      PROVE  LoginInv'
  BY <1>3, SessionToldKeeps, OpenNewKeeps, LoginGateKeeps, BeginPresentationKeeps,
     ErrorRouteKeeps, LogoutKeeps
<1>4. ASSUME NEW t \in Tabs,
             \/ StartGoogle(t) \/ ProviderAnswers(t) \/ CallAgain(t)
             \/ Callback(t)
      PROVE  LoginInv'
  BY <1>0, <1>4, StartGoogleKeeps, CallingKeeps, CallbackKeeps
<1>5. CASE Outside  BY <1>0, <1>5, OutsideKeeps
<1> QED BY <1>1, <1>2, <1>3, <1>4, <1>5 DEF Next

\* Of gates, login page and callback: a tab on its way carries the path it is to come
\* back to, in its address or in the cookie of its flow, and how far it has come says
\* how often it was redirected.
THEOREM LoginInvariant ==
  Spec => []LoginInv
<1> QED BY LoginStart, LoginStep, PTL DEF Spec

\* WayIsKept: three redirects are enough, in every mode and whatever the session,
\* the service and the other tabs do.
THEOREM TheWayIsKept ==
  ASSUME MaxHops >= 3
  PROVE  Spec => []WayIsKept
<1>1. ASSUME LoginInv PROVE WayIsKept
  <2> SUFFICES ASSUME NEW t \in Tabs
               PROVE  /\ tab[t].hops <= MaxHops
                      /\ tab[t].at \in {"page", "login"} =>
                            \/ tab[t].next = tab[t].goal
                            \/ tab[t].lost /\ tab[t].next = "/"
    BY DEF WayIsKept
  <2>1. /\ tab[t] \in RouteStates /\ OnTheWay(tab[t]) /\ tab[t].hops \in Nat
        /\ tab[t].hops + HopsLeft(tab[t], session) <= 3
    BY <1>1, Here
  <2>2. HopsLeft(tab[t], session) \in 0..3  BY <2>1, FewHopsLeft
  <2>3. tab[t].hops <= MaxHops  BY <2>1, <2>2, SignInAssumption DEF SignInAssumption
  <2> QED BY <2>1, <2>3 DEF OnTheWay, Leads, Sanitized
<1> QED BY <1>1, LoginInvariant, PTL

\* A step of another tab leaves a tab where it is.
LEMMA OthersRest ==
  ASSUME LoginShape, NEW t \in Tabs, NEW u \in Tabs, u # t,
         \/ \E place : Goes(u, place)
         \/ \E place, s : GoesWith(u, place, s)
  PROVE  tab'[t] = tab[t] \/ tab'[t] = [tab[t] EXCEPT !.hops = 0]
BY DEF LoginShape, Goes, GoesWith

\* A tab leaves the error page and the gate of the login page by their own
\* redirects only.
LEMMA AtTheGate ==
  ASSUME LoginInv, [Next]_vars, NEW t \in Tabs,
         tab[t].at \in {"error", "gate"}
  PROVE  \/ ErrorRoute(t) \/ LoginGate(t)
         \/ tab'[t] = tab[t] \/ tab'[t] = [tab[t] EXCEPT !.hops = 0]
<1>1. LoginShape  BY DEF LoginInv
<1>2. CASE UNCHANGED vars  BY <1>2 DEF vars
<1>3. CASE Outside  BY <1>3 DEF Outside, Rested
<1>4. ASSUME NEW u \in Tabs,
             \/ ClickEntry(u) \/ SessionTold(u) \/ OpenNew(u)
             \/ LoginGate(u) \/ OpenLogin(u) \/ ClickLogin(u)
             \/ \E path \in Paths : FollowLink(u, path)
             \/ StartGoogle(u) \/ BeginPresentation(u)
             \/ ProviderAnswers(u) \/ CallAgain(u) \/ Callback(u)
             \/ ErrorRoute(u) \/ Logout(u) \/ EndPresentation(u)
      PROVE  \/ ErrorRoute(t) \/ LoginGate(t)
             \/ tab'[t] = tab[t] \/ tab'[t] = [tab[t] EXCEPT !.hops = 0]
  <2>1. CASE u = t
    BY <1>4, <2>1 DEF ClickEntry, SessionTold, OpenNew, OpenLogin,
       ClickLogin, FollowLink, StartGoogle, BeginPresentation,
       ProviderAnswers, CallAgain, Callback, Logout,
       EndPresentation
  <2>2. CASE u # t
    <3> DEFINE Moves == \E place : Goes(u, place)
               MovesWith == \E place, s : GoesWith(u, place, s)
    <3>1. ASSUME ClickEntry(u) \/ OpenLogin(u) PROVE Moves
      BY <3>1, Zenon DEF ClickEntry, OpenLogin
    <3>2. ASSUME ClickLogin(u) PROVE Moves  BY <3>2, Zenon DEF ClickLogin
    <3>3. ASSUME NEW path \in Paths, FollowLink(u, path) PROVE Moves
      BY <3>3 DEF FollowLink
    <3>4. ASSUME LoginGate(u) PROVE Moves  BY <3>4, Zenon DEF LoginGate
    <3>5. ASSUME ProviderAnswers(u) \/ CallAgain(u) PROVE Moves
      BY <3>5, Zenon DEF ProviderAnswers, CallAgain
    <3>6. ASSUME SessionTold(u) \/ OpenNew(u) PROVE MovesWith
      BY <3>6, Zenon DEF SessionTold, OpenNew
    <3>7. ASSUME StartGoogle(u) PROVE MovesWith
      BY <3>7, Zenon DEF StartGoogle, Through
    <3>8. ASSUME BeginPresentation(u) PROVE MovesWith
      BY <3>8, Zenon DEF BeginPresentation
    <3>9. ASSUME Callback(u) PROVE MovesWith
      BY <3>9, Zenon DEF Callback, Through
    <3>10. ASSUME ErrorRoute(u) PROVE MovesWith
      BY <3>10, Zenon DEF ErrorRoute, Through
    <3>11. ASSUME Logout(u) \/ EndPresentation(u) PROVE Moves \/ MovesWith
      BY <3>11, Zenon DEF Logout, EndPresentation
    <3>12. Moves \/ MovesWith
      BY <1>4, <3>1, <3>2, <3>3, <3>4, <3>5, <3>6, <3>7, <3>8, <3>9, <3>10, <3>11
    <3> QED BY <1>1, <2>2, <3>12, OthersRest
  <2> QED BY <2>1, <2>2
<1> QED BY <1>2, <1>3, <1>4 DEF Next

\* FailureIsTold: the error is carried to the login page and stays there.
THEOREM FailuresAreTold ==
  Spec => FailureIsTold
<1>1. ASSUME LoginInv, [Next]_vars, NEW t \in Tabs,
             tab[t].error # "none", tab'[t].error = "none"
      PROVE  tab[t].at = "login" \/ tab'[t] = tab[t]
  <2> DEFINE old == tab[t]
  <2>1. /\ LoginShape /\ old \in RouteStates /\ Told(old) /\ OnTheWay(old)  BY <1>1, Here
  <2> SUFFICES ASSUME old.at # "login" PROVE FALSE  OBVIOUS
  <2>2. old.at \in {"error", "gate"}  BY <1>1, <2>1 DEF Told
  <2>3. CASE tab'[t] = old  BY <1>1, <2>3
  <2>4. CASE tab'[t] = [old EXCEPT !.hops = 0]
    BY <1>1, <2>1, <2>4, Resting
  <2>5. CASE LoginGate(t)
    <3>1. PICK identity, error :
              /\ error = old.error
              /\ Goes(t, IF PassesOn(identity = "ok", error)
                      THEN Redirected(t, OpenAt(old.next), old.next, "none")
                      ELSE [old EXCEPT !.at = "login", !.error = error,
                                !.arrival = IF identity = "ok" THEN "known" ELSE "none"])
      BY <1>1, <2>5 DEF LoginGate
    <3> DEFINE new == [old EXCEPT !.at = "login", !.error = error,
                           !.arrival = IF identity = "ok" THEN "known" ELSE "none"]
    <3>2. Goes(t, new)  BY <1>1, <3>1 DEF PassesOn
    <3>3. new.error = error  BY <2>1 DEF RouteStates
    <3> HIDE DEF new
    <3>4. tab'[t] = new  BY <2>1, <3>2 DEF Goes, LoginShape
    <3> QED BY <1>1, <3>1, <3>3, <3>4
  <2>6. CASE ErrorRoute(t)
    <3> DEFINE onward == Sanitized(old.next)
               new == Redirected(t, "gate", onward, old.error)
    <3>1. PICK s : GoesWith(t, new, s)
      BY <2>6, Zenon DEF ErrorRoute, Through
    <3>2. onward \in Paths /\ old.error \in Errors
      BY <2>1 DEF Sanitized, Paths, Pages, RouteStates
    <3> HIDE DEF onward
    <3>3. new.error = old.error  BY <2>1, <3>2, RedirectedIs
    <3> HIDE DEF new
    <3>4. tab'[t] = new  BY <3>1 DEF GoesWith
    <3> QED BY <1>1, <3>3, <3>4
  <2> QED BY <1>1, <2>2, <2>3, <2>4, <2>5, <2>6, AtTheGate
<1>2. LoginInv /\ [Next]_vars =>
        [\A t \in Tabs : tab[t].error # "none" /\ tab'[t].error = "none" =>
            tab[t].at = "login" \/ tab'[t] = tab[t]]_vars
  BY <1>1
<1> QED BY <1>2, LoginInvariant, PTL DEF Spec, FailureIsTold

\* AskedOnlyWithoutSession: an outage is not shown as a missing session.
THEOREM NobodyIsAskedInVain ==
  Spec => AskedOnlyWithoutSession
<1>1. ASSUME LoginInv, [Next]_vars, NEW t \in Tabs, mode = "supabase",
             tab[t].at = "gate", tab'[t].at = "login", tab'[t].error = "none"
      PROVE  session = "none" \/ spent
  <2> DEFINE old == tab[t]
  <2>1. /\ LoginShape /\ old \in RouteStates
        /\ session \in {"none", "valid", "expired"} /\ spent \in BOOLEAN
    BY <1>1, Here
  <2>2. tab'[t] # old /\ tab'[t] # [old EXCEPT !.hops = 0]
    BY <1>1, <2>1, Resting
  <2>3. ~ErrorRoute(t)  BY <1>1 DEF ErrorRoute
  <2>4. LoginGate(t)  BY <1>1, <2>2, <2>3, AtTheGate
  <2>5. PICK identity \in Identity(session),
             error \in {old.error, "auth_not_configured", "session_unavailable", "none"} :
            /\ error = "none" => identity # "unavailable"
            /\ Goes(t, IF PassesOn(identity = "ok", error)
                    THEN Redirected(t, OpenAt(old.next), old.next, "none")
                    ELSE [old EXCEPT !.at = "login", !.error = error,
                              !.arrival = IF identity = "ok" THEN "known" ELSE "none"])
    BY <1>1, <2>4 DEF LoginGate
  <2> DEFINE known == IF identity = "ok" THEN "known" ELSE "none"
             new == [old EXCEPT !.at = "login", !.error = error, !.arrival = known]
  <2>6. CASE PassesOn(identity = "ok", error)
    <3> DEFINE on == Redirected(t, OpenAt(old.next), old.next, "none")
    <3>1. on.at # "login"
      BY <2>1 DEF Redirected, OpenAt, RouteStates
    <3>2. Goes(t, on)  BY <2>5, <2>6
    <3> HIDE DEF on
    <3>3. tab'[t] = on  BY <2>1, <3>2 DEF Goes, LoginShape
    <3> QED BY <1>1, <3>1, <3>3
  <2>7. CASE ~PassesOn(identity = "ok", error)
    <3>1. Goes(t, new)  BY <2>5, <2>7
    <3>2. new.error = error  BY <2>1 DEF RouteStates
    <3> HIDE DEF new
    <3>3. error = "none"
      BY <1>1, <2>1, <3>1, <3>2 DEF Goes, LoginShape
    <3>4. identity \notin {"ok", "unavailable"}  BY <2>5, <2>7, <3>3 DEF PassesOn
    <3> QED BY <1>1, <2>1, <2>5, <3>4 DEF Identity
  <2> QED BY <2>6, <2>7
<1>2. LoginInv /\ [Next]_vars =>
        [\A t \in Tabs :
            /\ tab[t].at = "gate" /\ tab'[t].at = "login" /\ tab'[t].error = "none"
            /\ mode = "supabase"
            => session = "none" \/ spent]_vars
  BY <1>1
<1> QED BY <1>2, LoginInvariant, PTL DEF Spec, AskedOnlyWithoutSession

------------------------------------------------------------------------------
(* LifecycleQueue *)

\* A lease outlasts the batches the rows that do not parse can end, each a minute
\* apart, and a run that is under way.
LeaseOutlastsHoldUp == Lease > Cardinality(Broken) + MaxRun

InWork(b) == batch[b].on # 0

\* What the loop, the batches and the times hold.
QueueShape ==
    /\ left \in [Campaigns -> Int]
    /\ next \in Nat
    /\ wait \in [Campaigns -> Nat]
    /\ lease \in [Campaigns -> Nat]
    /\ batch \in [Batches -> [open: BOOLEAN, taken: Int, on: 0..N, age: 0..MaxRun]]
    /\ loop \in Batches \cup {Waiting, Ready}
    /\ faults \in 0..MaxFaults
    /\ idle \in Nat

\* Only a batch that runs a campaign grows old; the loop listens to an open one.
BatchShape ==
    /\ \A b \in Batches : ~InWork(b) => batch[b].age = 0
    /\ \A b \in Batches : ~batch[b].open => batch[b] = Closed
    /\ loop \in Batches => batch[loop].open
    /\ loop # Ready => Batches # {}

\* The call that follows the minute of waiting is due, or made and still fresh.
Called ==
    \/ loop = Ready /\ \A b \in Batches : ~batch[b].open
    \/ /\ loop \in Batches /\ batch[loop] = Opened
       /\ \A b \in Batches : b # loop => ~batch[b].open

\* The rows of R were leased m minutes ago or less.
Recent(R, m) == \A c \in R : lease[c] >= Lease - m

\* R: the rows that do not parse and ended a batch since a campaign was last run
\* or its outcome could not be written.  Each cost a minute of waiting, and a
\* campaign in work since then its age.
HoldUp(R) ==
    /\ idle <= faults * (Cardinality(Broken) + 1) + Cardinality(R)
    /\ \/ R = {}
       \/ \E b \in Batches : InWork(b) /\ Recent(R, Cardinality(R) + batch[b].age)
       \/ /\ \A b \in Batches : ~InWork(b)
          /\ DueCampaigns \ Broken # {}
          /\ \/ Recent(R, Cardinality(R) - 1)
             \/ Recent(R, Cardinality(R)) /\ Called

QueueInv == QueueShape /\ BatchShape /\ \E R \in SUBSET Broken : HoldUp(R)

LEMMA RowsAtFault ==
  ASSUME QueueAssumption
  PROVE  /\ Cardinality(Broken) \in Nat
         /\ \A R \in SUBSET Broken :
               /\ IsFiniteSet(R) /\ Cardinality(R) \in Nat
               /\ Cardinality(R) <= Cardinality(Broken)
<1>1. IsFiniteSet(1..N)
  BY FS_Interval DEF QueueAssumption
<1>2. IsFiniteSet(Broken)
  BY <1>1, FS_Subset DEF QueueAssumption
<1> QED BY <1>2, FS_Subset, FS_CardinalityType

LEMMA OldestIsDue ==
  ASSUME QueueAssumption, DueCampaigns # {}
  PROVE  Min(DueCampaigns) \in DueCampaigns
<1>1. DueCampaigns \in SUBSET Nat
  BY DEF DueCampaigns, Campaigns, QueueAssumption
<1>2. \E n \in DueCampaigns : \A m \in DueCampaigns : n <= m
  BY <1>1, LeastExists
<1> HIDE DEF DueCampaigns
<1> QED BY <1>2 DEF Min

\* The bound the counter stops at is never reached.
LEMMA WithinLimit ==
  ASSUME QueueAssumption, QueueShape, NEW R \in SUBSET Broken, HoldUp(R)
  PROVE  idle < IdleLimit
<1> DEFINE K == Cardinality(Broken) + 1
<1>1. K \in Nat /\ Cardinality(R) \in Nat /\ Cardinality(R) < K
  BY RowsAtFault
<1>2. faults \in Nat /\ MaxFaults \in Nat /\ faults <= MaxFaults /\ idle \in Nat
  BY DEF QueueShape, QueueAssumption
<1>3. idle <= faults * K + Cardinality(R)
  BY DEF HoldUp
<1>4. IdleLimit = (MaxFaults + 1) * K
  BY DEF IdleLimit
<1> HIDE DEF K
<1>5. (MaxFaults - faults) * K \in Nat
  BY <1>1, <1>2
<1>6. (MaxFaults + 1) * K = faults * K + (MaxFaults - faults) * K + K
  BY <1>1, <1>2
<1>7. faults * K \in Nat
  BY <1>1, <1>2
<1> QED BY <1>1, <1>2, <1>3, <1>4, <1>5, <1>6, <1>7

LEMMA QueueStart == QueueInit => QueueInv
<1> USE QueueAssumption
<1> SUFFICES ASSUME QueueInit PROVE QueueInv  OBVIOUS
<1>1. QueueShape
  BY DEF QueueShape, QueueInit, QueueAssumption, Closed, Waiting,
         Ready, Campaigns
<1>2. BatchShape
  BY DEF BatchShape, InWork, QueueInit, QueueAssumption, Closed, Ready
<1>3. HoldUp({})
  <2>1. Cardinality({}) = 0 /\ Cardinality(Broken) \in Nat
    BY FS_EmptySet, RowsAtFault
  <2> QED BY <2>1 DEF HoldUp, QueueInit, QueueAssumption
<1> QED BY <1>1, <1>2, <1>3 DEF QueueInv

\* A batch that ends was open and is closed; the loop, if it listened, waits.
LEMMA ClosingShape ==
  ASSUME QueueAssumption, QueueShape, BatchShape, NEW b \in Batches,
         batch[b].open, Close(b)
  PROVE  /\ batch' \in [Batches -> [open: BOOLEAN, taken: Int, on: 0..N, age: 0..MaxRun]]
         /\ loop' \in Batches \cup {Waiting, Ready}
         /\ BatchShape'
         /\ \A v \in Batches : v # b => batch'[v] = batch[v]
         /\ ~InWork(b)'
<1>1. batch' = [batch EXCEPT ![b] = Closed]
  BY DEF Close
<1>2. loop' = IF loop = b THEN Waiting ELSE loop
  BY DEF Close
<1>3. Closed \in [open: BOOLEAN, taken: Int, on: 0..N, age: 0..MaxRun]
  BY DEF Closed, QueueAssumption
<1>4. batch' \in [Batches -> [open: BOOLEAN, taken: Int, on: 0..N, age: 0..MaxRun]]
  BY <1>1, <1>3 DEF QueueShape
<1>5. batch'[b] = Closed /\ \A v \in Batches : v # b => batch'[v] = batch[v]
  BY <1>1 DEF QueueShape
<1>6. loop' \in Batches \cup {Waiting, Ready}
  BY <1>2 DEF QueueShape
<1>7. BatchShape'
  <2>1. \A v \in Batches : ~InWork(v)' => batch'[v].age = 0
    BY <1>5 DEF BatchShape, InWork, Closed
  <2>2. \A v \in Batches : ~batch'[v].open => batch'[v] = Closed
    BY <1>5 DEF BatchShape
  <2>3. loop' \in Batches => batch'[loop'].open
    BY <1>2, <1>5 DEF BatchShape, Waiting, QueueAssumption
  <2> QED BY <2>1, <2>2, <2>3 DEF BatchShape
<1> QED BY <1>4, <1>5, <1>6, <1>7 DEF InWork, Closed

LEMMA SubmitQueue ==
  ASSUME QueueAssumption, QueueInv, SubmitCampaign
  PROVE  QueueInv'
<1>1. QueueShape'
  BY DEF QueueInv, QueueShape, SubmitCampaign, Campaigns, QueueAssumption,
         Waiting, Ready
<1>2. BatchShape'
  BY DEF QueueInv, BatchShape, InWork, SubmitCampaign
<1>3. PICK R \in SUBSET Broken : HoldUp(R)
  BY DEF QueueInv
<1>4. HoldUp(R)'
  <2>1. DueCampaigns \subseteq DueCampaigns'
    BY DEF QueueInv, QueueShape, SubmitCampaign, Campaigns, QueueAssumption,
           DueCampaigns, Due
  <2>2. UNCHANGED <<lease, batch, loop, faults, idle>>
    BY DEF SubmitCampaign
  <2> HIDE DEF DueCampaigns
  <2> QED BY <1>3, <2>1, <2>2 DEF HoldUp, InWork, Recent, Called
<1> QED BY <1>1, <1>2, <1>4 DEF QueueInv

LEMMA CallRouteQueue ==
  ASSUME QueueAssumption, QueueInv, NEW b \in Batches, CallRoute(b)
  PROVE  QueueInv'
<1>1. batch'[b] = Opened /\ \A v \in Batches : v # b => batch'[v] = batch[v]
  BY DEF QueueInv, QueueShape, CallRoute
<1>2. loop = Ready /\ loop' = b /\ ~batch[b].open /\ batch[b] = Closed
  BY DEF QueueInv, BatchShape, CallRoute
<1>3. UNCHANGED <<left, next, wait, lease, faults, idle>>
  BY DEF CallRoute
<1>4. QueueShape'
  <2>1. Opened \in [open: BOOLEAN, taken: Int, on: 0..N, age: 0..MaxRun]
    <3>1. 0 \in 0..N /\ 0 \in 0..MaxRun
      BY DEF QueueAssumption
    <3>2. Closed \in [open: BOOLEAN, taken: Int, on: 0..N, age: 0..MaxRun]
      BY <3>1 DEF Closed
    <3> QED BY <3>2 DEF Opened
  <2>2. batch' \in [Batches -> [open: BOOLEAN, taken: Int, on: 0..N, age: 0..MaxRun]]
    BY <2>1 DEF QueueInv, QueueShape, CallRoute
  <2> QED BY <1>2, <1>3, <2>2 DEF QueueInv, QueueShape
<1>5. BatchShape'
  BY <1>1, <1>2 DEF QueueInv, BatchShape, InWork, Opened, Closed
<1>6. PICK R \in SUBSET Broken : HoldUp(R)
  BY DEF QueueInv
<1>7. HoldUp(R)'
  <2>1. \A v \in Batches : (InWork(v)' <=> InWork(v)) /\ (InWork(v) => batch'[v] = batch[v])
    BY <1>1, <1>2 DEF InWork, Opened, Closed
  <2>2. DueCampaigns' = DueCampaigns
    BY <1>3 DEF DueCampaigns, Due, Campaigns
  <2>3. \A m : Recent(R, m)' <=> Recent(R, m)
    BY <1>3 DEF Recent
  <2>4. Called => Called'
    BY <1>1, <1>2 DEF Called, Ready, QueueAssumption
  <2> HIDE DEF DueCampaigns, InWork, Called, Recent
  <2> QED BY <1>3, <1>6, <2>1, <2>2, <2>3, <2>4 DEF HoldUp
<1> QED BY <1>4, <1>5, <1>7 DEF QueueInv

LEMMA ClaimQueue ==
  ASSUME QueueAssumption, QueueInv, NEW b \in Batches, Claim(b)
  PROVE  QueueInv'
<1>1. PICK c \in Healthy :
          /\ lease' = [lease EXCEPT ![c] = Lease]
          /\ batch' = [batch EXCEPT ![b].on = c]
  BY DEF Claim, Leased
<1>2. c \in 1..N /\ c \notin Broken /\ c # 0
  BY DEF Healthy, Campaigns, QueueAssumption
<1>3. batch[b].open /\ ~InWork(b)
  BY DEF Claim, MayClaim, InWork
<1>4. UNCHANGED <<left, next, wait, loop, faults, idle>>
  BY DEF Claim
<1>5. /\ batch'[b] = [batch[b] EXCEPT !.on = c]
      /\ \A v \in Batches : v # b => batch'[v] = batch[v]
  BY <1>1 DEF QueueInv, QueueShape
<1>6. batch[b] \in [open: BOOLEAN, taken: Int, on: 0..N, age: 0..MaxRun]
  BY DEF QueueInv, QueueShape
<1>7. batch'[b].on = c /\ batch'[b].open /\ batch'[b].age = batch[b].age
  BY <1>3, <1>5, <1>6
<1>8. QueueShape'
  <2>1. batch'[b] \in [open: BOOLEAN, taken: Int, on: 0..N, age: 0..MaxRun]
    BY <1>2, <1>5, <1>6
  <2>2. batch' \in [Batches -> [open: BOOLEAN, taken: Int, on: 0..N, age: 0..MaxRun]]
    BY <1>1, <1>2 DEF QueueInv, QueueShape
  <2>3. lease' \in [Campaigns -> Nat]
    BY <1>1 DEF QueueInv, QueueShape, QueueAssumption
  <2> QED BY <1>4, <2>2, <2>3 DEF QueueInv, QueueShape
<1>9. BatchShape'
  <2>1. \A v \in Batches : ~InWork(v)' => batch'[v].age = 0
    BY <1>2, <1>5, <1>7 DEF QueueInv, BatchShape, InWork
  <2>2. \A v \in Batches : ~batch'[v].open => batch'[v] = Closed
    BY <1>5, <1>7 DEF QueueInv, BatchShape
  <2>3. loop' \in Batches => batch'[loop'].open
    BY <1>4, <1>5, <1>7 DEF QueueInv, BatchShape
  <2>4. loop' # Ready => Batches # {}
    OBVIOUS
  <2> QED BY <2>1, <2>2, <2>3, <2>4 DEF BatchShape
<1>10. PICK R \in SUBSET Broken : HoldUp(R)
  BY DEF QueueInv
<1>11. HoldUp(R)'
  <2>1. \A d \in R : lease'[d] = lease[d]
    BY <1>1, <1>2 DEF QueueInv, QueueShape
  <2>2. \A m : Recent(R, m)' <=> Recent(R, m)
    BY <2>1 DEF Recent
  <2>3. CASE R = {}
    BY <1>4, <1>10, <2>3 DEF HoldUp
  <2>4. CASE \E v \in Batches : InWork(v) /\ Recent(R, Cardinality(R) + batch[v].age)
    <3>1. PICK v \in Batches : InWork(v) /\ Recent(R, Cardinality(R) + batch[v].age)
      BY <2>4
    <3>2. v # b /\ batch'[v] = batch[v] /\ InWork(v)'
      BY <1>3, <1>5, <3>1 DEF InWork
    <3> HIDE DEF Recent, InWork
    <3> QED BY <1>4, <1>10, <2>2, <3>1, <3>2 DEF HoldUp
  <2>5. CASE Recent(R, Cardinality(R) - 1) \/ Recent(R, Cardinality(R))
    <3>1. Cardinality(R) \in Nat /\ \A d \in R : d \in Campaigns
      BY RowsAtFault DEF QueueAssumption, Campaigns
    <3>2. Recent(R, Cardinality(R))
      BY <2>5, <3>1 DEF Recent, QueueInv, QueueShape, QueueAssumption
    <3>3. batch'[b].age = 0
      BY <1>3, <1>7 DEF QueueInv, BatchShape
    <3>4. InWork(b)'
      BY <1>2, <1>7 DEF InWork
    <3>5. Cardinality(R) + batch'[b].age = Cardinality(R)
      BY <3>1, <3>3
    <3> HIDE DEF Recent, InWork
    <3> QED BY <1>4, <1>10, <2>2, <3>2, <3>4, <3>5 DEF HoldUp
  <2> HIDE DEF Recent, InWork
  <2> QED BY <1>10, <2>3, <2>4, <2>5 DEF HoldUp
<1> QED BY <1>8, <1>9, <1>11 DEF QueueInv

LEMMA ClaimThrowsQueue ==
  ASSUME QueueAssumption, LeaseOutlastsHoldUp, QueueInv,
         NEW b \in Batches, ClaimThrows(b)
  PROVE  QueueInv'
<1>1. PICK c \in Broken :
          c = Min(DueCampaigns) /\ lease' = [lease EXCEPT ![c] = Lease]
  BY DEF ClaimThrows, Leased
<1>2. c \in DueCampaigns
  BY <1>1, OldestIsDue DEF ClaimThrows
<1>3. c \in Campaigns /\ lease[c] = 0
  BY <1>2 DEF DueCampaigns, Due
<1>4. batch[b].open /\ ~InWork(b) /\ Close(b)
  BY DEF ClaimThrows, MayClaim, InWork
<1>5. UNCHANGED <<left, next, wait, faults>> /\ idle' = IdleAfter(b)
  BY DEF ClaimThrows
<1>6. /\ batch' \in [Batches -> [open: BOOLEAN, taken: Int, on: 0..N, age: 0..MaxRun]]
      /\ loop' \in Batches \cup {Waiting, Ready}
      /\ BatchShape'
      /\ \A v \in Batches : v # b => batch'[v] = batch[v]
      /\ ~InWork(b)'
  BY <1>4, ClosingShape DEF QueueInv
<1>7. QueueShape'
  <2>1. lease' \in [Campaigns -> Nat]
    BY <1>1, <1>3 DEF QueueInv, QueueShape, QueueAssumption
  <2>2. idle' \in Nat
    BY <1>5 DEF QueueInv, QueueShape, IdleAfter
  <2> QED BY <1>5, <1>6, <2>1, <2>2 DEF QueueInv, QueueShape
<1>8. PICK R \in SUBSET Broken : HoldUp(R)
  BY DEF QueueInv
<1>9. /\ IsFiniteSet(R) /\ Cardinality(R) \in Nat
      /\ Cardinality(R) <= Cardinality(Broken) /\ Cardinality(Broken) \in Nat
      /\ Lease \in Nat /\ MaxRun \in Nat /\ R \subseteq Campaigns
  BY RowsAtFault DEF QueueAssumption, Campaigns
\* The rows of R are leased still: this one is not among them.
<1>10. c \notin R
  <2>1. \A m \in Nat : Recent(R, m) /\ m <= Cardinality(Broken) + MaxRun => c \notin R
    BY <1>3, <1>9 DEF Recent, LeaseOutlastsHoldUp
  <2>2. \A v \in Batches : batch[v].age \in 0..MaxRun
    BY DEF QueueInv, QueueShape
  <2>3. CASE \E v \in Batches : InWork(v) /\ Recent(R, Cardinality(R) + batch[v].age)
    BY <1>9, <2>1, <2>2, <2>3
  <2>4. CASE Recent(R, Cardinality(R) - 1) \/ Recent(R, Cardinality(R))
    <3>1. Recent(R, Cardinality(R))
      BY <1>9, <2>4 DEF Recent, QueueInv, QueueShape
    <3> QED BY <1>9, <2>1, <3>1
  <2> HIDE DEF Recent, InWork
  <2> QED BY <1>8, <2>3, <2>4 DEF HoldUp
<1>11. \A d \in R : lease'[d] = lease[d]
  BY <1>1, <1>10, <1>9 DEF QueueInv, QueueShape
<1>12. \A v \in Batches : (InWork(v)' <=> InWork(v)) /\ (InWork(v) => batch'[v] = batch[v])
  BY <1>4, <1>6 DEF InWork
<1>13. DueCampaigns \ Broken = DueCampaigns' \ Broken
  <2>1. \A d \in Campaigns : d # c => lease'[d] = lease[d]
    BY <1>1 DEF QueueInv, QueueShape
  <2> QED BY <1>1, <1>5, <2>1 DEF DueCampaigns, Due, Campaigns
<1>14. CASE idle' = idle + 1
  <2>1. PICK T \in SUBSET Broken : T = R \cup {c}
    OBVIOUS
  <2>2. Cardinality(T) = Cardinality(R) + 1
    BY <1>9, <1>10, <2>1, FS_AddElement
  <2>3. lease'[c] = Lease
    BY <1>1, <1>3 DEF QueueInv, QueueShape
  <2>4. DueCampaigns \ Broken # {}
    BY <1>5, <1>14 DEF IdleAfter, QueueInv, QueueShape
  <2>5. \A m \in Nat : Recent(R, m) => Recent(T, m + 1)'
    BY <1>9, <1>11, <2>1, <2>3 DEF Recent, QueueInv, QueueShape
  <2>6. \A m \in Nat : R = {} => Recent(T, m)'
    BY <1>9, <2>1, <2>3 DEF Recent
  <2>7. idle' <= faults' * (Cardinality(Broken) + 1) + Cardinality(T)
    <3> DEFINE F == faults * (Cardinality(Broken) + 1)
    <3>1. F \in Nat
      BY <1>9 DEF QueueInv, QueueShape, QueueAssumption
    <3>2. idle \in Nat /\ idle <= F + Cardinality(R) /\ faults' = faults
      BY <1>5, <1>8 DEF HoldUp, QueueInv, QueueShape
    <3> HIDE DEF F
    <3>3. idle + 1 <= F + (Cardinality(R) + 1)
      BY <1>9, <3>1, <3>2
    <3> QED BY <1>14, <2>2, <3>2, <3>3 DEF F
  <2>8. ASSUME \E v \in Batches : InWork(v) PROVE HoldUp(T)'
    <3>1. PICK v \in Batches : /\ InWork(v)
                               /\ R = {} \/ Recent(R, Cardinality(R) + batch[v].age)
      <4> HIDE DEF Recent, InWork
      <4> QED BY <1>8, <2>8 DEF HoldUp
    <3>2. batch[v].age \in Nat
      BY DEF QueueInv, QueueShape
    <3>3. Recent(T, Cardinality(T) + batch[v].age)'
      <4>1. PICK m \in Nat : m = Cardinality(R) + batch[v].age
        BY <1>9, <3>2
      <4>2. Cardinality(T) + batch'[v].age = m + 1
        BY <1>9, <1>12, <2>2, <3>1, <3>2, <4>1
      <4>3. Recent(T, m + 1)'
        <5>1. m + 1 \in Nat
          OBVIOUS
        <5> HIDE DEF Recent
        <5> QED BY <2>5, <2>6, <3>1, <4>1, <5>1
      <4> QED BY <4>2, <4>3 DEF Recent
    <3> HIDE DEF Recent, InWork
    <3> QED BY <1>12, <2>7, <3>1, <3>3 DEF HoldUp
  <2>9. ASSUME \A v \in Batches : ~InWork(v) PROVE HoldUp(T)'
    <3>1. Recent(T, Cardinality(T) - 1)'
      <4>1. Cardinality(T) - 1 = Cardinality(R)
        BY <1>9, <2>2
      <4>2. CASE R = {}
        BY <1>9, <2>6, <4>1, <4>2 DEF Recent
      <4>3. CASE R # {}
        <5>1. Recent(R, Cardinality(R) - 1) \/ Recent(R, Cardinality(R))
          <6> HIDE DEF Recent, InWork
          <6> QED BY <1>8, <2>9, <4>3 DEF HoldUp
        <5>2. Recent(R, Cardinality(R))
          BY <1>9, <5>1 DEF Recent, QueueInv, QueueShape
        <5> QED BY <1>9, <1>11, <2>1, <2>3, <4>1, <5>2 DEF Recent
      <4> QED BY <4>2, <4>3
    <3> HIDE DEF Recent, InWork
    <3> QED BY <1>12, <1>13, <2>4, <2>7, <2>9, <3>1 DEF HoldUp
  <2>10. HoldUp(T)'
    BY <2>8, <2>9
  <2> QED BY <1>6, <1>7, <2>1, <2>10 DEF QueueInv
<1>15. CASE idle' = idle
  <2>1. \A m : Recent(R, m)' <=> Recent(R, m)
    BY <1>11 DEF Recent
  \* The batch of a fresh call would have been counted.
  <2>2. Called => DueCampaigns \ Broken = {}
    <3>1. SUFFICES ASSUME Called, DueCampaigns \ Broken # {} PROVE FALSE
      OBVIOUS
    <3>2. batch[b] = Opened
      BY <1>4, <3>1 DEF Called
    <3>3. batch[b].taken = 0
      BY <3>2 DEF Opened, Closed
    <3>4. idle < IdleLimit
      BY <1>8, WithinLimit DEF QueueInv
    <3> QED BY <1>5, <1>15, <3>1, <3>3, <3>4 DEF IdleAfter, QueueInv, QueueShape
  <2>3. HoldUp(R)'
    <3> HIDE DEF Recent, InWork, Called
    <3> QED BY <1>5, <1>8, <1>12, <1>13, <1>15, <2>1, <2>2 DEF HoldUp
  <2> QED BY <1>6, <1>7, <2>3 DEF QueueInv
<1> QED BY <1>5, <1>14, <1>15 DEF IdleAfter

LEMMA RunQueue ==
  ASSUME QueueAssumption, QueueInv, NEW b \in Batches, Run(b)
  PROVE  QueueInv'
<1> DEFINE c == batch[b].on
<1>1. c \in Campaigns
  BY DEF Run, QueueInv, QueueShape, Campaigns, QueueAssumption
<1>2. PICK w \in Waits : wait' = [wait EXCEPT ![c] = w]
  BY DEF Run
<1>3. /\ left' = [left EXCEPT ![c] = @ - 1]
      /\ lease' = [lease EXCEPT ![c] = 0]
      /\ batch' = [batch EXCEPT ![b].on = 0, ![b].age = 0, ![b].taken = @ + 1]
      /\ idle' = 0
      /\ UNCHANGED <<next, loop, faults>>
  BY DEF Run
<1>4. batch[b] \in [open: BOOLEAN, taken: Int, on: 0..N, age: 0..MaxRun]
  BY DEF QueueInv, QueueShape
<1>5. /\ batch'[b] = [batch[b] EXCEPT !.on = 0, !.age = 0, !.taken = @ + 1]
      /\ \A v \in Batches : v # b => batch'[v] = batch[v]
  BY <1>3 DEF QueueInv, QueueShape
<1>6. 0 \in 0..N /\ 0 \in 0..MaxRun
  BY DEF QueueAssumption
<1>7. batch[b].taken + 1 \in Int
  BY <1>4
<1>8. batch'[b].on = 0 /\ batch'[b].age = 0 /\ batch'[b].open = batch[b].open
  BY <1>4, <1>5
<1>9. batch[b].open
  BY DEF QueueInv, BatchShape, Run, Closed
<1>10. QueueShape'
  <2>1. batch' \in [Batches -> [open: BOOLEAN, taken: Int, on: 0..N, age: 0..MaxRun]]
    <3>1. [batch[b] EXCEPT !.on = 0] \in [open: BOOLEAN, taken: Int, on: 0..N, age: 0..MaxRun]
      BY <1>4, <1>6
    <3>2. [batch[b] EXCEPT !.on = 0, !.age = 0]
             \in [open: BOOLEAN, taken: Int, on: 0..N, age: 0..MaxRun]
      BY <1>4, <1>6, <3>1
    <3>3. batch'[b] \in [open: BOOLEAN, taken: Int, on: 0..N, age: 0..MaxRun]
      BY <1>4, <1>5, <1>7, <3>2
    <3> QED BY <1>3, <3>3 DEF QueueInv, QueueShape
  <2>2. left' \in [Campaigns -> Int]
    BY <1>1, <1>3 DEF QueueInv, QueueShape
  <2>3. wait' \in [Campaigns -> Nat] /\ lease' \in [Campaigns -> Nat]
    BY <1>1, <1>2, <1>3 DEF QueueInv, QueueShape, QueueAssumption
  <2> QED BY <1>3, <2>1, <2>2, <2>3 DEF QueueInv, QueueShape
<1>11. BatchShape'
  <2>1. \A v \in Batches : ~InWork(v)' => batch'[v].age = 0
    BY <1>5, <1>8 DEF QueueInv, BatchShape, InWork
  <2>2. \A v \in Batches : ~batch'[v].open => batch'[v] = Closed
    BY <1>5, <1>8, <1>9 DEF QueueInv, BatchShape
  <2>3. loop' \in Batches => batch'[loop'].open
    BY <1>3, <1>5, <1>8, <1>9 DEF QueueInv, BatchShape
  <2> QED BY <2>1, <2>2, <2>3 DEF BatchShape
<1>12. HoldUp({})'
  <2>1. Cardinality({}) = 0 /\ Cardinality(Broken) \in Nat
    BY FS_EmptySet, RowsAtFault
  <2>2. faults \in Nat /\ faults' = faults
    BY <1>3 DEF QueueInv, QueueShape, QueueAssumption
  <2>3. faults' * (Cardinality(Broken) + 1) \in Nat
    BY <2>1, <2>2
  <2>4. idle' <= faults' * (Cardinality(Broken) + 1) + Cardinality({})
    BY <1>3, <2>1, <2>3
  <2> QED BY <2>4 DEF HoldUp
<1> QED BY <1>10, <1>11, <1>12 DEF QueueInv

LEMMA RunThrowsQueue ==
  ASSUME QueueAssumption, QueueInv, NEW b \in Batches, RunThrows(b)
  PROVE  QueueInv'
<1>1. batch[b].open /\ Close(b)
  BY DEF QueueInv, BatchShape, RunThrows, Closed
<1>2. /\ UNCHANGED <<left, next, wait, lease>> /\ idle' = IdleAfter(b)
      /\ faults < MaxFaults /\ faults' = faults + 1
  BY DEF RunThrows
<1>3. /\ batch' \in [Batches -> [open: BOOLEAN, taken: Int, on: 0..N, age: 0..MaxRun]]
      /\ loop' \in Batches \cup {Waiting, Ready}
      /\ BatchShape'
  BY <1>1, ClosingShape DEF QueueInv
<1>4. idle' \in {idle, idle + 1} /\ idle \in Nat /\ faults \in Nat
  BY <1>2 DEF IdleAfter, QueueInv, QueueShape, QueueAssumption
<1>5. QueueShape'
  BY <1>2, <1>3, <1>4 DEF QueueInv, QueueShape, QueueAssumption
<1>6. HoldUp({})'
  <2> DEFINE K == Cardinality(Broken) + 1
  <2>1. PICK R \in SUBSET Broken : HoldUp(R)
    BY DEF QueueInv
  <2>2. Cardinality({}) = 0 /\ K \in Nat /\ Cardinality(R) + 1 <= K /\ Cardinality(R) \in Nat
    BY FS_EmptySet, RowsAtFault
  <2>3. idle <= faults * K + Cardinality(R)
    BY <2>1 DEF HoldUp
  <2> HIDE DEF K
  <2>4. (faults + 1) * K = faults * K + K /\ faults * K \in Nat
    BY <1>4, <2>2
  <2>5. idle' <= faults' * K + Cardinality({})
    BY <1>2, <1>4, <2>2, <2>3, <2>4
  <2> QED BY <2>5 DEF HoldUp, K
<1> QED BY <1>3, <1>5, <1>6 DEF QueueInv

LEMMA EndBatchQueue ==
  ASSUME QueueAssumption, QueueInv, NEW b \in Batches, EndBatch(b)
  PROVE  QueueInv'
<1>1. batch[b].open /\ ~InWork(b) /\ Close(b)
  BY DEF EndBatch, InWork
<1>2. batch[b].taken = MaxSteps \/ DueCampaigns = {}
  BY DEF EndBatch
<1>3. batch[b].taken # 0 \/ DueCampaigns \ Broken = {}
  BY <1>2 DEF QueueAssumption
<1>4. UNCHANGED <<left, next, wait, lease, faults, idle>>
  BY <1>3 DEF EndBatch, IdleAfter
<1>5. /\ batch' \in [Batches -> [open: BOOLEAN, taken: Int, on: 0..N, age: 0..MaxRun]]
      /\ loop' \in Batches \cup {Waiting, Ready}
      /\ BatchShape'
      /\ \A v \in Batches : v # b => batch'[v] = batch[v]
      /\ ~InWork(b)'
  BY <1>1, ClosingShape DEF QueueInv
<1>6. QueueShape'
  BY <1>4, <1>5 DEF QueueInv, QueueShape
<1>7. PICK R \in SUBSET Broken : HoldUp(R)
  BY DEF QueueInv
<1>8. HoldUp(R)'
  <2>1. \A v \in Batches : (InWork(v)' <=> InWork(v)) /\ (InWork(v) => batch'[v] = batch[v])
    BY <1>1, <1>5 DEF InWork
  <2>2. DueCampaigns' = DueCampaigns
    BY <1>4 DEF DueCampaigns, Due, Campaigns
  <2>3. \A m : Recent(R, m)' <=> Recent(R, m)
    BY <1>4 DEF Recent
  <2>4. Called => DueCampaigns \ Broken = {}
    BY <1>1, <1>3 DEF Called, Opened, Closed
  <2> HIDE DEF DueCampaigns, InWork, Called, Recent
  <2> QED BY <1>4, <1>7, <2>1, <2>2, <2>3, <2>4 DEF HoldUp
<1> QED BY <1>5, <1>6, <1>8 DEF QueueInv

LEMMA GiveUpQueue ==
  ASSUME QueueAssumption, QueueInv, GiveUp
  PROVE  QueueInv'
<1>1. loop \in Batches /\ InWork(loop)
  <2>1. loop \in Batches /\ batch[loop].age # 0
    BY DEF GiveUp, QueueInv, QueueShape
  <2> HIDE DEF InWork
  <2> QED BY <2>1 DEF QueueInv, BatchShape
<1>2. loop' = Waiting /\ UNCHANGED <<left, next, wait, lease, batch, faults, idle>>
  BY DEF GiveUp
<1>3. QueueShape'
  BY <1>2 DEF QueueInv, QueueShape
<1>4. BatchShape'
  BY <1>1, <1>2 DEF QueueInv, BatchShape, InWork, Waiting, QueueAssumption
<1>5. PICK R \in SUBSET Broken : HoldUp(R)
  BY DEF QueueInv
<1>6. HoldUp(R)'
  <2>1. \A v \in Batches : (InWork(v)' <=> InWork(v)) /\ batch'[v] = batch[v]
    BY <1>2 DEF InWork
  <2>2. \A m : Recent(R, m)' <=> Recent(R, m)
    BY <1>2 DEF Recent
  <2> HIDE DEF InWork, Recent
  <2> QED BY <1>1, <1>2, <1>5, <2>1, <2>2 DEF HoldUp
<1> QED BY <1>3, <1>4, <1>6 DEF QueueInv

LEMMA TickQueue ==
  ASSUME QueueAssumption, QueueInv, Tick
  PROVE  QueueInv'
<1>1. /\ loop # Ready
      /\ \A v \in Batches : batch[v].open => InWork(v) /\ batch[v].age < MaxRun
      /\ UNCHANGED <<left, next, faults, idle>>
  BY DEF Tick, InWork
<1>2. wait' = [c \in Campaigns |-> IF wait[c] > 0 THEN wait[c] - 1 ELSE 0]
  BY DEF Tick
<1>3. lease' = [c \in Campaigns |-> IF lease[c] > 0 THEN lease[c] - 1 ELSE 0]
  BY DEF Tick
<1>4. batch' = [v \in Batches |->
                   IF batch[v].open THEN [batch[v] EXCEPT !.age = @ + 1] ELSE batch[v]]
  BY DEF Tick
<1>5. loop' = IF loop = Waiting /\ (\E v \in Batches : ~batch[v].open)
              THEN Ready ELSE loop
  BY DEF Tick
<1>6. ASSUME NEW v \in Batches
      PROVE  /\ batch'[v] \in [open: BOOLEAN, taken: Int, on: 0..N, age: 0..MaxRun]
             /\ batch'[v].open = batch[v].open /\ batch'[v].on = batch[v].on
             /\ ~batch[v].open => batch'[v] = batch[v]
             /\ batch[v].open => batch'[v].age = batch[v].age + 1
  <2>1. batch[v] \in [open: BOOLEAN, taken: Int, on: 0..N, age: 0..MaxRun] /\ MaxRun \in Nat
    BY DEF QueueInv, QueueShape, QueueAssumption
  <2>2. CASE batch[v].open
    <3>1. batch'[v] = [batch[v] EXCEPT !.age = @ + 1]
      BY <1>4, <2>2
    <3>2. batch[v].age + 1 \in 0..MaxRun
      BY <1>1, <2>1, <2>2
    <3> QED BY <2>1, <2>2, <3>1, <3>2
  <2>3. CASE ~batch[v].open
    BY <1>4, <2>1, <2>3
  <2> QED BY <2>2, <2>3
<1>7. /\ wait' \in [Campaigns -> Nat]
      /\ \A c \in Campaigns : wait[c] = 0 => wait'[c] = 0
  BY <1>2 DEF QueueInv, QueueShape
<1>8. /\ lease' \in [Campaigns -> Nat]
      /\ \A c \in Campaigns : lease'[c] >= lease[c] - 1 /\ (lease[c] = 0 => lease'[c] = 0)
  BY <1>3 DEF QueueInv, QueueShape
<1>9. QueueShape'
  <2>1. batch' \in [Batches -> [open: BOOLEAN, taken: Int, on: 0..N, age: 0..MaxRun]]
    <3>1. DOMAIN batch' = Batches /\ batch' = [v \in DOMAIN batch' |-> batch'[v]]
      BY <1>4
    <3> QED BY <1>6, <3>1
  <2>2. loop' \in Batches \cup {Waiting, Ready}
    BY <1>5 DEF QueueInv, QueueShape
  <2> QED BY <1>1, <1>7, <1>8, <2>1, <2>2 DEF QueueInv, QueueShape
<1>10. BatchShape'
  <2>1. \A v \in Batches : ~InWork(v)' => batch'[v].age = 0
    BY <1>1, <1>6 DEF QueueInv, BatchShape, InWork
  <2>2. \A v \in Batches : ~batch'[v].open => batch'[v] = Closed
    BY <1>6 DEF QueueInv, BatchShape
  <2>3. loop' \in Batches => batch'[loop'].open
    BY <1>5, <1>6 DEF QueueInv, BatchShape, Ready, QueueAssumption
  <2>4. loop' # Ready => Batches # {}
    BY <1>1 DEF QueueInv, BatchShape
  <2> QED BY <2>1, <2>2, <2>3, <2>4 DEF BatchShape
<1>11. PICK R \in SUBSET Broken : HoldUp(R)
  BY DEF QueueInv
<1>12. \A m \in Int : Recent(R, m) => Recent(R, m + 1)'
  <2>1. \A c \in R : c \in Campaigns
    BY DEF QueueAssumption, Campaigns
  <2> QED BY <1>8, <2>1 DEF Recent, QueueInv, QueueShape, QueueAssumption
<1>13. Cardinality(R) \in Nat
  BY RowsAtFault
<1>14. HoldUp(R)'
  <2>1. CASE R = {}
    BY <1>1, <1>11, <2>1 DEF HoldUp
  <2>2. CASE \E v \in Batches : InWork(v) /\ Recent(R, Cardinality(R) + batch[v].age)
    <3>1. PICK v \in Batches : InWork(v) /\ Recent(R, Cardinality(R) + batch[v].age)
      BY <2>2
    <3>2. batch[v].open
      BY <3>1 DEF QueueInv, BatchShape, InWork, Closed
    <3>3. InWork(v)' /\ batch'[v].age = batch[v].age + 1
      BY <1>6, <3>1, <3>2 DEF InWork
    <3>4. batch[v].age \in Nat
      BY DEF QueueInv, QueueShape
    <3>5. PICK m \in Int : m = Cardinality(R) + batch[v].age
      BY <1>13, <3>4
    <3>6. Cardinality(R) + batch'[v].age = m + 1
      BY <1>13, <3>3, <3>4, <3>5
    <3>7. Recent(R, m + 1)'
      <4> HIDE DEF Recent
      <4> QED BY <1>12, <3>1, <3>5
    <3>8. Recent(R, Cardinality(R) + batch[v].age)'
      BY <3>6, <3>7 DEF Recent
    <3> HIDE DEF InWork, Recent
    <3> QED BY <1>1, <1>11, <3>3, <3>8 DEF HoldUp
  <2>3. CASE /\ R # {} /\ \A v \in Batches : ~InWork(v)
             /\ DueCampaigns \ Broken # {}
             /\ \/ Recent(R, Cardinality(R) - 1)
                \/ Recent(R, Cardinality(R)) /\ Called
    <3>1. \A v \in Batches : ~batch[v].open
      BY <1>1, <2>3
    <3>2. loop = Waiting /\ Batches # {}
      BY <1>1, <3>1 DEF QueueInv, QueueShape, BatchShape
    <3>3. Called'
      BY <1>5, <1>6, <3>1, <3>2 DEF Called
    <3>4. Recent(R, Cardinality(R) - 1)
      BY <1>1, <2>3, <3>1, <3>2 DEF Called, Opened, Closed, Waiting,
                                    Ready, QueueAssumption
    <3>5. Recent(R, Cardinality(R))'
      <4>1. Cardinality(R) - 1 \in Int /\ (Cardinality(R) - 1) + 1 = Cardinality(R)
        BY <1>13
      <4>2. Recent(R, (Cardinality(R) - 1) + 1)'
        BY <1>12, <3>4, <4>1
      <4> QED BY <4>1, <4>2
    <3>6. DueCampaigns \subseteq DueCampaigns'
      BY <1>1, <1>7, <1>8 DEF DueCampaigns, Due, Campaigns
    <3>7. \A v \in Batches : ~InWork(v)'
      BY <1>6, <2>3 DEF InWork
    <3> HIDE DEF InWork, Recent, Called
    <3> QED BY <1>1, <1>11, <2>3, <3>3, <3>5, <3>6, <3>7 DEF HoldUp
  <2> HIDE DEF InWork, Recent, Called
  <2> QED BY <1>11, <2>1, <2>2, <2>3 DEF HoldUp
<1> QED BY <1>9, <1>10, <1>14 DEF QueueInv

LEMMA QueueStep ==
  ASSUME LeaseOutlastsHoldUp
  PROVE  QueueInv /\ [QueueNext]_queueVars => QueueInv'
<1> USE QueueAssumption
<1> SUFFICES ASSUME QueueInv, [QueueNext]_queueVars PROVE QueueInv'  OBVIOUS
<1>1. CASE UNCHANGED queueVars
  BY <1>1 DEF queueVars, QueueInv, QueueShape, BatchShape, InWork, HoldUp, Recent, Called,
              DueCampaigns, Due, Campaigns
<1>2. CASE SubmitCampaign
  BY <1>2, SubmitQueue
<1>3. CASE GiveUp
  BY <1>3, GiveUpQueue
<1>4. CASE Tick
  BY <1>4, TickQueue
<1>5. ASSUME NEW b \in Batches, CallRoute(b) \/ BatchStep(b)
      PROVE  QueueInv'
  BY <1>5, CallRouteQueue, ClaimQueue, ClaimThrowsQueue, RunQueue, RunThrowsQueue, EndBatchQueue
  DEF BatchStep
<1> QED BY <1>1, <1>2, <1>3, <1>4, <1>5 DEF QueueNext

\* Of processCampaignLifecycle and its loop: how long nothing has run is paid for by
\* faults and by rows that do not parse and are leased since.
THEOREM QueueInvariant ==
  ASSUME LeaseOutlastsHoldUp
  PROVE  QueueSpec => []QueueInv
BY QueueStart, QueueStep, PTL DEF QueueSpec

\* Rows that do not parse end at most one batch each between two runs of a campaign,
\* or between a run and a failure to write its outcome: the worker loop that calls
\* processCampaignLifecycle is never held up for longer, if a lease outlasts the
\* batches those rows end and a run.
THEOREM HoldUpBounded ==
  ASSUME LeaseOutlastsHoldUp
  PROVE  QueueSpec => []HoldUpIsBounded
<1>1. QueueInv => HoldUpIsBounded
  BY QueueAssumption, WithinLimit DEF QueueInv, HoldUpIsBounded
<1> QED BY <1>1, QueueInvariant, PTL
=============================================================================
