----------------------------- MODULE IdeaIntake -----------------------------
(* How an idea becomes a campaign.  The wizard of a browser tab posts the    *)
(* idea under a draft id it has drawn, and the server looks the draft up,    *)
(* inserts a row and, when another request was faster, looks it up again.    *)
(* Answers come late or not at all, the owner presses again, edits, leaves   *)
(* the page or deletes the campaign, and other clients of the same account   *)
(* may use the same draft.                                                   *)
(*                                                                           *)
(* An idea stands for the two trimmed texts.  The rows are those of one      *)
(* account: row level security hides the others.                             *)
EXTENDS Integers, FiniteSets

CONSTANTS
    Wizards,     \* browser tabs that show the wizard
    Clients,     \* programs of the account that call the route themselves
    Ideas,       \* ideas long enough to be sent (20 characters each)
    TooShort,    \* what the wizard holds before, and does not send
    MaxRequests, \* bound: POST requests
    MaxPages,    \* bound: times the wizard is opened
    MaxDeletes   \* bound: campaigns the owner deletes

ASSUME IntakeAssumption ==
    /\ TooShort \notin Ideas /\ Wizards \cap Clients = {}
    /\ {MaxRequests, MaxPages, MaxDeletes} \subseteq Nat

Drafts == 1..MaxRequests       \* randomUUID: one per request at most
CampaignIds == 1..MaxRequests
None == 0
Conflict == -409               \* the answer draft_conflict
Failed == -500                 \* any other error answer

VARIABLES
    wizard,    \* what each tab shows and remembers
    post,      \* the POST requests, in the order they were sent
    campaigns, \* the account's rows: draft and idea by campaign id
    used,      \* campaign ids handed out
    drawn,     \* draft ids drawn
    pages,     \* times the wizard was opened
    deletes    \* campaigns deleted

intakeVars == <<wizard, post, campaigns, used, drawn, pages, deletes>>

\* pressed and sent are history: the drafts the tab has sent since its last
\* edit and since it was opened.
FreshWizard == [page |-> "wizard", step |-> 1, idea |-> TooShort,
                attempt |-> [draft |-> None, idea |-> TooShort],
                submitting |-> FALSE, request |-> None, on |-> None,
                pressed |-> {}, sent |-> {}]

NotSent == [from |-> None, draft |-> None, idea |-> TooShort,
            at |-> "unsent", answer |-> None]

IntakeInit ==
    /\ wizard = [t \in Wizards |-> FreshWizard]
    /\ post = [r \in 1..MaxRequests |-> NotSent]
    /\ campaigns = [i \in {} |-> NotSent]
    /\ used = 0
    /\ drawn = 0
    /\ pages = Cardinality(Wizards)
    /\ deletes = 0

------------------------------------------------------------------------------
(* The wizard *)

Editable(t) == wizard[t].page = "wizard" /\ ~wizard[t].submitting

Edit(t, idea) ==
    /\ Editable(t) /\ wizard[t].idea # idea
    /\ wizard' = [wizard EXCEPT ![t].idea = idea, ![t].pressed = {}]
    /\ UNCHANGED <<post, campaigns, used, drawn, pages, deletes>>

(* next() at step 1, and the browser's back and forward at any time. *)
GoTo(t, step) ==
    /\ wizard[t].page = "wizard" /\ wizard[t].step # step
    /\ Editable(t) => step = 1 \/ wizard[t].idea # TooShort
    /\ wizard' = [wizard EXCEPT ![t].step = step]
    /\ UNCHANGED <<post, campaigns, used, drawn, pages, deletes>>

Unsent == {r \in 1..MaxRequests : post[r].at = "unsent"}
NextRequest == CHOOSE r \in Unsent : \A other \in Unsent : r <= other
Send(from, draft, idea) ==
    post' = [post EXCEPT ![NextRequest] =
        [from |-> from, draft |-> draft, idea |-> idea, at |-> "sent", answer |-> None]]

(* The draft of this press: the last attempt's as long as the idea is its own. *)
\* Mutant: every press draws one.
Attempt_Anew(t) == [draft |-> drawn + 1, idea |-> wizard[t].idea]
Attempt(t) ==
    IF wizard[t].attempt.idea = wizard[t].idea THEN wizard[t].attempt
    ELSE [draft |-> drawn + 1, idea |-> wizard[t].idea]

(* next() at step 2 *)
Press(t) ==
    /\ Editable(t) /\ wizard[t].step = 2 /\ wizard[t].idea # TooShort
    /\ Unsent # {}
    /\ LET attempt == Attempt(t) IN
       /\ Send(t, attempt.draft, attempt.idea)
       /\ drawn' = IF attempt.draft > drawn THEN attempt.draft ELSE drawn
       /\ wizard' = [wizard EXCEPT ![t].attempt = attempt, ![t].submitting = TRUE,
                             ![t].request = NextRequest,
                             ![t].pressed = @ \cup {attempt.draft},
                             ![t].sent = @ \cup {attempt.draft}]
    /\ UNCHANGED <<campaigns, used, pages, deletes>>

(* The tab goes elsewhere: the request is aborted, which the server does not  *)
(* notice, and the wizard is empty when it is opened again.                   *)
LeaveWizard(t) ==
    /\ wizard[t].page # "left"
    /\ wizard' = [wizard EXCEPT ![t] = [FreshWizard EXCEPT !.page = "left"]]
    /\ UNCHANGED <<post, campaigns, used, drawn, pages, deletes>>

OpenWizard(t) ==
    /\ wizard[t].page = "left" /\ pages < MaxPages
    /\ wizard' = [wizard EXCEPT ![t] = FreshWizard]
    /\ pages' = pages + 1
    /\ UNCHANGED <<post, campaigns, used, drawn, deletes>>

(* Another program of the account posts an idea under a draft it knows. *)
ClientPosts(c, draft, idea) ==
    /\ Unsent # {} /\ draft \in 1..drawn
    /\ Send(c, draft, idea)
    /\ UNCHANGED <<wizard, campaigns, used, drawn, pages, deletes>>

------------------------------------------------------------------------------
(* createSubmission *)

WithDraft(draft) == {i \in DOMAIN campaigns : campaigns[i].draft = draft}

Answered(r, answer) ==
    post' = [post EXCEPT ![r].at = "answered", ![r].answer = answer]

SameInput(i, r) == campaigns[i].idea = post[r].idea

(* findOwnerCampaignByDraft and the comparison, before the insert and after   *)
(* one that was refused.                                                      *)
FoundDraft(r) ==
    \E i \in WithDraft(post[r].draft) :
        Answered(r, IF SameInput(i, r) THEN i ELSE Conflict)

LookUp(r) ==
    /\ post[r].at = "sent"
    /\ IF WithDraft(post[r].draft) # {} THEN FoundDraft(r)
       ELSE post' = [post EXCEPT ![r].at = "absent"]
    /\ UNCHANGED <<wizard, campaigns, used, drawn, pages, deletes>>

\* unique (owner_id, draft_id).
DraftTaken(draft) == WithDraft(draft) # {}

(* The insert, whose response may be lost although the row is there. *)
InsertCampaign(r) ==
    /\ post[r].at = "absent"
    /\ IF DraftTaken(post[r].draft)
       THEN /\ post' = [post EXCEPT ![r].at = "refused"]
            /\ UNCHANGED <<campaigns, used>>
       ELSE /\ used' = used + 1
            /\ campaigns' = [i \in DOMAIN campaigns \cup {used + 1} |->
                   IF i = used + 1
                   THEN [draft |-> post[r].draft, idea |-> post[r].idea]
                   ELSE campaigns[i]]
            /\ \E answer \in {used + 1, Failed} : Answered(r, answer)
    /\ UNCHANGED <<wizard, drawn, pages, deletes>>

LookUpAgain(r) ==
    /\ post[r].at = "refused"
    /\ IF WithDraft(post[r].draft) # {} THEN FoundDraft(r) ELSE Answered(r, Failed)
    /\ UNCHANGED <<wizard, campaigns, used, drawn, pages, deletes>>

(* No session, no database, a server that stops: nothing more is done. *)
ServerFails(r) ==
    /\ post[r].at \in {"sent", "absent", "refused"}
    /\ Answered(r, Failed)
    /\ UNCHANGED <<wizard, campaigns, used, drawn, pages, deletes>>

DeleteCampaign(i) ==
    /\ i \in DOMAIN campaigns /\ deletes < MaxDeletes
    /\ campaigns' = [j \in DOMAIN campaigns \ {i} |-> campaigns[j]]
    /\ deletes' = deletes + 1
    /\ UNCHANGED <<wizard, post, used, drawn, pages>>

------------------------------------------------------------------------------
(* The answer at the wizard *)

\* Mutant: an aborted request is still listened to.
Listens_Always(t, r) == wizard[t].page = "wizard" /\ post[r].from = t
Listens(t, r) == wizard[t].page = "wizard" /\ wizard[t].request = r

\* Mutant: an error leaves the wizard waiting.
ErrorShown_Waiting(t) == [wizard EXCEPT ![t].request = None]
ErrorShown(t) == [wizard EXCEPT ![t].request = None, ![t].submitting = FALSE]

AnswerArrives(t, r) ==
    /\ Listens(t, r) /\ post[r].at = "answered"
    /\ wizard' = IF post[r].answer \in CampaignIds
              THEN [wizard EXCEPT ![t].request = None, ![t].page = "progress",
                               ![t].on = post[r].answer]
              ELSE ErrorShown(t)
    /\ post' = [post EXCEPT ![r].at = "delivered"]
    /\ UNCHANGED <<campaigns, used, drawn, pages, deletes>>

(* The connection breaks; the server may have the request or still get it. *)
ConnectionLost(t) ==
    /\ wizard[t].page = "wizard" /\ wizard[t].request # None
    /\ wizard' = ErrorShown(t)
    /\ UNCHANGED <<post, campaigns, used, drawn, pages, deletes>>

ServerStep(r) == LookUp(r) \/ InsertCampaign(r) \/ LookUpAgain(r) \/ ServerFails(r)

IntakeNext ==
    \/ \E t \in Wizards :
        \/ \E idea \in Ideas : Edit(t, idea)
        \/ \E step \in 1..2 : GoTo(t, step)
        \/ Press(t) \/ LeaveWizard(t) \/ OpenWizard(t) \/ ConnectionLost(t)
        \/ \E r \in 1..MaxRequests : AnswerArrives(t, r)
    \/ \E r \in 1..MaxRequests :
        \/ LookUp(r) \/ InsertCampaign(r) \/ LookUpAgain(r) \/ ServerFails(r)
    \/ \E c \in Clients, draft \in Drafts, idea \in Ideas : ClientPosts(c, draft, idea)
    \/ \E i \in CampaignIds : DeleteCampaign(i)

IntakeSpec == IntakeInit /\ [][IntakeNext]_intakeVars

\* The server goes on with what it received, and a tab gets what was answered.
IntakeFairness ==
    /\ \A r \in 1..MaxRequests : WF_intakeVars(ServerStep(r))
    /\ \A t \in Wizards, r \in 1..MaxRequests : WF_intakeVars(AnswerArrives(t, r))

FairIntakeSpec == IntakeSpec /\ IntakeFairness

------------------------------------------------------------------------------
IntakeTypeOK ==
    /\ wizard \in [Wizards ->
           [page: {"wizard", "progress", "left"}, step: 1..2, idea: Ideas \cup {TooShort},
            attempt: [draft: Drafts \cup {None}, idea: Ideas \cup {TooShort}],
            submitting: BOOLEAN, request: 0..MaxRequests, on: CampaignIds \cup {None},
            pressed: SUBSET Drafts, sent: SUBSET Drafts]]
    /\ post \in [1..MaxRequests ->
           [from: Wizards \cup Clients \cup {None}, draft: Drafts \cup {None},
            idea: Ideas \cup {TooShort},
            at: {"unsent", "sent", "absent", "refused", "answered", "delivered"},
            answer: CampaignIds \cup {None, Conflict, Failed}]]
    /\ DOMAIN campaigns \subseteq 1..used
    /\ \A i \in DOMAIN campaigns : campaigns[i] \in [draft: Drafts, idea: Ideas]
    /\ used \in 0..MaxRequests /\ drawn \in 0..MaxRequests
    /\ pages \in Nat /\ deletes \in 0..MaxDeletes

(* Lost answers, lost inserts, parallel requests and presses in any number:   *)
(* as long as the owner does not edit, the tab's presses come to one campaign. *)
PressingAgainIsOneCampaign ==
    \A t \in Wizards :
        Cardinality(UNION {WithDraft(d) : d \in wizard[t].pressed}) <= 1

(* A tab never shows the progress of another idea than the one it sent last,  *)
(* whatever answers of earlier visits to the wizard are still on their way.   *)
ProgressIsOfTheIdeaShown ==
    \A t \in Wizards : LET i == wizard[t].on IN
        wizard[t].page = "progress" /\ i \in DOMAIN campaigns =>
            campaigns[i].idea = wizard[t].idea

(* The wizard does not wait for ever: a press leads to the progress page, to  *)
(* an error the owner can act on, or the owner leaves.                        *)
PressIsAnswered ==
    \A t \in Wizards : wizard[t].submitting ~> wizard[t].page # "wizard" \/ ~wizard[t].submitting

------------------------------------------------------------------------------
(* What the documents say and the code does not do.                           *)

(* docs/architecture.md:43: a retry of the same input uses the same draft id. *)
(* The wizard remembers its last attempt only.                                *)
SameIdeaSameDraft ==
    \A t \in Wizards : \A i, j \in UNION {WithDraft(d) : d \in wizard[t].sent} :
        campaigns[i].idea = campaigns[j].idea => i = j
==============================================================================
