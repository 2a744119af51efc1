------------------------------ MODULE MetaDraft ------------------------------
(***************************************************************************)
(* One campaign's way from PREPARING to a running ad while the settings of *)
(* the server change.  Every pass of a worker reads the environment of its *)
(* own process: the account, the budget and the site the draft is built    *)
(* with, and the acknowledgement an activation needs.  A deployment        *)
(* replaces the settings between two passes or beside a slow one, and the  *)
(* draft, the operation, the run and the activation must still agree.      *)
(*                                                                         *)
(* The steps of one Meta call and of the ledger's lease are in             *)
(* MetaOperationLedger; here a step is stored, or it needs a person.       *)
(***************************************************************************)
EXTENDS Naturals

CONSTANTS
    Workers, NoWorker,
    Accounts,         \* META_AD_ACCOUNT_ID
    Sites, NoSite,    \* META_ALLOWED_DESTINATION_ORIGIN
    Environments,     \* the settings a deployment may install
    ErrorLimit,       \* failed attempts of a stage before FAILED (3)
    StageLimit        \* attempts of a stage before FAILED (10)

ASSUME NoWorkerIsNone == NoWorker \notin Workers
ASSUME EnvironmentsAssumption ==
    Environments \subseteq
        [live: BOOLEAN,         \* META_ADS_MODE and the modes it requires
         operator: BOOLEAN,     \* the owner is in META_DRAFT_OPERATOR_USER_IDS
         attested: BOOLEAN,     \* the verified Page and Instagram pair is theirs
         bound: BOOLEAN,        \* account, Page and origin are well formed
         account: Accounts, site: Sites,
         max: Nat, budget: Nat, \* META_MAX_, META_DRAFT_LIFETIME_BUDGET_MINOR
         auto: BOOLEAN,         \* META_AUTO_ACTIVATION_ENABLED
         ackAccount: Accounts, ackBudget: Nat]
ASSUME LimitsAssumption == ErrorLimit \in Nat /\ StageLimit \in Nat

VARIABLES
    env,       \* the settings of the processes started now
    row,       \* the campaign: status, stage attempts and lease holder
    pass,      \* what each worker's pass does, and its settings
    op,        \* the row of meta_ad_operations
    built,     \* the objects in Meta, by step
    run,       \* the row of meta_ad_runs
    granted    \* what the settings acknowledged when the ad was activated

vars == <<env, row, pass, op, built, run, granted>>

\* The images count as one step; then campaign, ad set, creative and ad.
StepCount == 5

------------------------------------------------------------------------------
(* metaConfig.ts: what a process makes of its settings *)

Operator(e) == e.operator
Attested(e) == e.attested
LiveEnvironment(e) == e.live /\ Attested(e)
Bound(e) == e.bound
PolicyReadable(e) == Bound(e) /\ e.budget <= e.max

\* createGraphMetaAdsProviderFromEnvironment does not throw.
Connectable(e) == LiveEnvironment(e) /\ Bound(e)

Authorized(e) ==
    /\ LiveEnvironment(e) /\ Operator(e) /\ e.auto /\ PolicyReadable(e)
    /\ e.ackAccount = e.account
    /\ e.ackBudget <= e.max /\ e.ackBudget = e.budget

\* What prepareMetaDraft asks of the settings.
Usable(e) == Operator(e) /\ PolicyReadable(e) /\ Connectable(e)

\* Mutant: the budget is left out of the fingerprint.
Descriptor_NoBudget(e) ==
    [account |-> e.account, site |-> e.site, budget |-> 0]

\* The operation key (account) and the fingerprint of the rest.  The
\* schedule is left out of it; copy and images are the campaign's own.
Descriptor(e) ==
    [account |-> e.account, site |-> e.site, budget |-> e.budget]

------------------------------------------------------------------------------
NoOperation == [status |-> "NONE"]
NoRun == [status |-> "NONE"]
NoPass == [at |-> "IDLE"]
Nothing == [kind |-> "NOTHING"]

Started(e, at) == [at |-> at, env |-> e]

InsertedOperation(w, d) ==
    [status |-> "PENDING", of |-> d, done |-> 0, holder |-> w,
     attempting |-> FALSE]

\* What an object in Meta shows of the settings it was made with.
MetaObject(e, budget, site) ==
    [kind |-> "OBJECT", account |-> e.account, budget |-> budget, site |-> site]
UploadedImages(e) == MetaObject(e, 0, NoSite)
CreatedCampaign(e) == MetaObject(e, 0, NoSite)
CreatedAdSet(e) == MetaObject(e, e.budget, NoSite)
CreatedCreative(e) == MetaObject(e, 0, e.site)
CreatedAd(e) == MetaObject(e, 0, NoSite)

Made(k, e) ==
    <<UploadedImages(e), CreatedCampaign(e), CreatedAdSet(e),
      CreatedCreative(e), CreatedAd(e)>>[k]

RegisteredRun(e) ==
    [status |-> "PAUSED", account |-> e.account, budget |-> e.budget]

Init ==
    /\ env \in Environments
    /\ row = [status |-> "PREPARING", attempts |-> 0, holder |-> NoWorker]
    /\ pass = [w \in Workers |-> NoPass]
    /\ op = NoOperation
    /\ built = [k \in 1..StepCount |-> Nothing]
    /\ run = NoRun
    /\ granted = Nothing

\* The end of a pass: a transition counts only while the lease is held.
Settle(w, status, attempts) ==
    /\ pass' = [pass EXCEPT ![w] = NoPass]
    /\ row' = IF row.holder = w
              THEN [status |-> status, attempts |-> attempts, holder |-> NoWorker]
              ELSE row

FailPermanently(w) == Settle(w, "FAILED", row.attempts)

\* RETRY_WAIT keeps the stage it returns to.
FailForNow(w) ==
    Settle(w, IF row.attempts >= ErrorLimit THEN "FAILED" ELSE row.status,
           row.attempts)

------------------------------------------------------------------------------
(* Deployments, claims and crashes *)

Deploy ==
    /\ env' \in Environments \ {env}
    /\ UNCHANGED <<row, pass, op, built, run, granted>>

\* A lease that another worker still holds may have run out.
Claim(w) ==
    /\ pass[w].at = "IDLE"
    /\ row.status \in {"PREPARING", "AWAITING_ACTIVATION"}
    /\ IF row.attempts >= StageLimit
       THEN /\ row' = [row EXCEPT !.status = "FAILED", !.holder = NoWorker]
            /\ UNCHANGED pass
       ELSE /\ row' = [row EXCEPT !.attempts = @ + 1, !.holder = w]
            /\ pass' = [pass EXCEPT ![w] = Started(env, row.status)]
    /\ UNCHANGED <<env, op, built, run, granted>>

\* A step begun and not stored stays marked in the operation.
Crash(w) ==
    /\ pass[w].at # "IDLE"
    /\ pass' = [pass EXCEPT ![w] = NoPass]
    /\ UNCHANGED <<env, row, op, built, run, granted>>

------------------------------------------------------------------------------
(* PREPARING *)

LookForRun(w) ==
    /\ pass[w].at = "PREPARING"
    /\ pass' = [pass EXCEPT ![w].at = IF run = NoRun THEN "DRAFTING"
                                      ELSE "REGISTERED"]
    /\ UNCHANGED <<env, row, op, built, run, granted>>

RefuseSettings(w) ==
    /\ pass[w].at = "DRAFTING"
    /\ ~Usable(pass[w].env)
    /\ FailPermanently(w)
    /\ UNCHANGED <<env, op, built, run, granted>>

\* validatePausedCarouselDraftInput: the copy or an image of the campaign.
RefuseInput(w) ==
    /\ pass[w].at = "DRAFTING"
    /\ Usable(pass[w].env)
    /\ FailPermanently(w)
    /\ UNCHANGED <<env, op, built, run, granted>>

\* Mutant: an operation of the campaign is taken whatever it was made of.
SameDescriptor_Any(d) == TRUE

SameDescriptor(d) == op.of = d

Opened(w) == [op EXCEPT !.holder = w]

\* acquire_meta_ad_operation; another holder's lease may have run out.
Acquire(w) ==
    LET d == Descriptor(pass[w].env)
    IN /\ pass[w].at = "DRAFTING"
       /\ Usable(pass[w].env)
       /\ \/ /\ op = NoOperation
             /\ op' = InsertedOperation(w, d)
             /\ pass' = [pass EXCEPT ![w].at = "VERIFYING"]
             /\ UNCHANGED row
          \/ /\ op # NoOperation /\ ~SameDescriptor(d)    \* meta_operation_conflict
             /\ FailForNow(w)
             /\ UNCHANGED op
          \/ /\ op # NoOperation /\ SameDescriptor(d)
             /\ op.status = "COMPLETED"
             /\ op' = Opened(w)
             /\ pass' = [pass EXCEPT ![w].at = "REGISTERING"]
             /\ UNCHANGED row
          \/ /\ op # NoOperation /\ SameDescriptor(d)
             /\ op.status = "PENDING" /\ ~op.attempting
             /\ op' = Opened(w)
             /\ pass' = [pass EXCEPT ![w].at = "VERIFYING"]
             /\ UNCHANGED row
          \/ /\ op # NoOperation /\ SameDescriptor(d)
             /\ op.status = "RECONCILE" \/ op.attempting
             /\ op' = [Opened(w) EXCEPT !.status = "RECONCILE"]
             /\ FailPermanently(w)
       /\ UNCHANGED <<env, built, run, granted>>

\* The operation is busy, or the database or Meta does not answer.
CallFails(w) ==
    /\ pass[w].at \in {"PREPARING", "DRAFTING", "VERIFYING", "REGISTERING",
                       "AWAITING_ACTIVATION"}
    /\ FailForNow(w)
    /\ UNCHANGED <<env, op, built, run, granted>>

\* verifyConfiguredAssets: Meta knows the account, the Page and their link.
AssetsVerified(w) ==
    /\ pass[w].at = "VERIFYING"
    /\ pass' = [pass EXCEPT ![w].at = "CREATING"]
    /\ UNCHANGED <<env, row, op, built, run, granted>>

AssetsUnlinked(w) ==
    /\ pass[w].at = "VERIFYING"
    /\ FailPermanently(w)
    /\ UNCHANGED <<env, op, built, run, granted>>

\* One step without a checkpoint: attempted, made in Meta, stored.  When it
\* is not stored, the object may be there or not.
CreateNext(w) ==
    LET k == op.done + 1
    IN /\ pass[w].at = "CREATING"
       /\ op.holder = w /\ op.status = "PENDING" /\ op.done < StepCount
       /\ \/ /\ op' = [op EXCEPT !.done = k]
             /\ built' = [built EXCEPT ![k] = Made(k, pass[w].env)]
             /\ UNCHANGED <<row, pass>>
          \/ /\ op' = [op EXCEPT !.status = "RECONCILE"]
             /\ built' \in {built, [built EXCEPT ![k] = Made(k, pass[w].env)]}
             /\ FailPermanently(w)
          \/ /\ op' = [op EXCEPT !.attempting = TRUE]           \* a crash
             /\ built' \in {built, [built EXCEPT ![k] = Made(k, pass[w].env)]}
             /\ pass' = [pass EXCEPT ![w] = NoPass]
             /\ UNCHANGED row
       /\ UNCHANGED <<env, run, granted>>

\* The lease of the operation went to another worker.
LoseOperation(w) ==
    /\ pass[w].at = "CREATING"
    /\ op.holder # w \/ op.status # "PENDING"
    /\ FailForNow(w)
    /\ UNCHANGED <<env, op, built, run, granted>>

Complete(w) ==
    /\ pass[w].at = "CREATING"
    /\ op.holder = w /\ op.status = "PENDING" /\ op.done = StepCount
    /\ op' = [op EXCEPT !.status = "COMPLETED"]
    /\ pass' = [pass EXCEPT ![w].at = "REGISTERING"]
    /\ UNCHANGED <<env, row, built, run, granted>>

\* registerMetaAdRun: a run of the same operation is taken when it agrees.
Register(w) ==
    /\ pass[w].at = "REGISTERING"
    /\ \/ /\ run = NoRun
          /\ run' = RegisteredRun(pass[w].env)
          /\ pass' = [pass EXCEPT ![w].at = "REGISTERED"]
          /\ UNCHANGED row
       \/ /\ run # NoRun /\ run.account = pass[w].env.account
          /\ pass' = [pass EXCEPT ![w].at = "REGISTERED"]
          /\ UNCHANGED <<row, run>>
       \/ /\ run # NoRun /\ run.account # pass[w].env.account
          /\ FailForNow(w)
          /\ UNCHANGED run
    /\ UNCHANGED <<env, op, built, granted>>

AwaitNext(w) ==
    /\ pass[w].at = "REGISTERED"
    /\ Settle(w, "AWAITING_ACTIVATION", 0)
    /\ UNCHANGED <<env, op, built, run, granted>>

------------------------------------------------------------------------------
(* AWAITING_ACTIVATION *)

\* createGraphMetaAdsProviderFromEnvironment
NoProvider(w) ==
    /\ pass[w].at = "AWAITING_ACTIVATION"
    /\ ~Connectable(pass[w].env)
    /\ FailPermanently(w)
    /\ UNCHANGED <<env, op, built, run, granted>>

Unauthorized(w) ==
    /\ pass[w].at = "AWAITING_ACTIVATION"
    /\ Connectable(pass[w].env) /\ ~Authorized(pass[w].env)
    /\ run.status \in {"PAUSED", "FAILED"}
    /\ Settle(w, "AWAITING_ACTIVATION", 0)
    /\ UNCHANGED <<env, op, built, run, granted>>

\* Mutant: readiness is not compared with the account of the run.
Ready_AnyAccount(e) == TRUE

Ready(e) == run.account = e.account

Unready(w) ==
    /\ pass[w].at = "AWAITING_ACTIVATION"
    /\ Authorized(pass[w].env) /\ ~Ready(pass[w].env)
    /\ run.status \in {"PAUSED", "FAILED"}
    /\ FailForNow(w)
    /\ UNCHANGED <<env, op, built, run, granted>>

\* activateMetaRun; an activation that fails leaves the run FAILED, and the
\* campaign with it when the objects could not be confirmed paused.
Activate(w) ==
    /\ pass[w].at = "AWAITING_ACTIVATION"
    /\ Authorized(pass[w].env) /\ Ready(pass[w].env)
    /\ run.status \in {"PAUSED", "FAILED"}
    /\ \/ /\ run' = [run EXCEPT !.status = "ACTIVATING"]
          /\ granted' = [kind |-> "GRANT", account |-> pass[w].env.ackAccount,
                         budget |-> pass[w].env.ackBudget]
          /\ Settle(w, "AWAITING_ACTIVATION", 0)
       \/ /\ run' = [run EXCEPT !.status = "FAILED"]
          /\ FailForNow(w) \/ FailPermanently(w)
          /\ UNCHANGED granted
    /\ UNCHANGED <<env, op, built>>

\* The run is ACTIVATING already: CampaignLifecycle has what follows.
Observe(w) ==
    /\ pass[w].at = "AWAITING_ACTIVATION"
    /\ Connectable(pass[w].env)
    /\ run.status = "ACTIVATING"
    /\ Settle(w, "AWAITING_ACTIVATION", 0)
    /\ UNCHANGED <<env, op, built, run, granted>>

------------------------------------------------------------------------------
Prepare(w) ==
    \/ LookForRun(w) \/ RefuseSettings(w) \/ RefuseInput(w) \/ Acquire(w)
    \/ AssetsVerified(w) \/ AssetsUnlinked(w) \/ CreateNext(w) \/ LoseOperation(w) \/ Complete(w)
    \/ Register(w) \/ AwaitNext(w)

AwaitActivation(w) ==
    NoProvider(w) \/ Unauthorized(w) \/ Unready(w) \/ Activate(w) \/ Observe(w)

Next ==
    \/ Deploy
    \/ \E w \in Workers : \/ Claim(w) \/ Crash(w) \/ CallFails(w)
                          \/ Prepare(w) \/ AwaitActivation(w)

Spec == Init /\ [][Next]_vars

------------------------------------------------------------------------------
(* Properties *)

Descriptors == [account: Accounts, site: Sites, budget: Nat]
Grants == [kind: {"GRANT"}, account: Accounts, budget: Nat]
Objects == [kind: {"OBJECT"}, account: Accounts, budget: Nat,
            site: Sites \cup {NoSite}]
Operations ==
    [status: {"PENDING", "COMPLETED", "RECONCILE"}, of: Descriptors,
     done: 0..StepCount, holder: Workers, attempting: BOOLEAN]
Runs == [status: {"PAUSED", "ACTIVATING", "FAILED"}, account: Accounts, budget: Nat]
Passes == [at: {"PREPARING", "DRAFTING", "VERIFYING", "CREATING",
                "REGISTERING", "REGISTERED", "AWAITING_ACTIVATION"}, env: Environments]

\* Every variable has its type, and the attempts of a stage stay in bounds.
TypeOK ==
    /\ env \in Environments
    /\ row \in [status: {"PREPARING", "AWAITING_ACTIVATION", "FAILED"},
                attempts: 0..StageLimit, holder: Workers \cup {NoWorker}]
    /\ pass \in [Workers -> Passes \cup {NoPass}]
    /\ op \in Operations \cup {NoOperation}
    /\ built \in [1..StepCount -> Objects \cup {Nothing}]
    /\ run \in Runs \cup {NoRun}
    /\ granted \in Grants \cup {Nothing}

\* A draft never mixes two settings: every object in Meta was made in the
\* account, for the budget and for the site the operation was opened with,
\* whichever passes made them (the fingerprint of acquire).
DraftIsOfOnePiece ==
    \A k \in 1..StepCount :
        built[k] # Nothing => op # NoOperation /\ built[k] = Made(k, op.of)

\* The run a campaign is reported, activated and accounted by names the
\* account and the budget its objects really have in Meta, although the row
\* is written from the settings of the pass that registers it.
RunRecordsWhatWasBuilt ==
    run # NoRun =>
        \A k \in 1..StepCount :
            /\ built[k] # Nothing
            /\ built[k].account = run.account
            /\ k = 3 => built[k].budget = run.budget      \* the ad set

\* An ad spends only in an account that was acknowledged for automatic
\* activation, even when the server was moved to another account after the
\* draft was made (readiness of activateMetaRun).
ActiveAccountWasAcknowledged ==
    granted # Nothing => built[2].account = granted.account

------------------------------------------------------------------------------
(* What the documents say and the code does not do.                           *)

\* docs/spec.md:161: the budget of each campaign is checked again right
\* before it runs.
ActiveBudgetWasAcknowledged ==
    granted # Nothing => built[3].budget = granted.budget
==============================================================================
