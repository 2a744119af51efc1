----------------------------- MODULE CampaignRow -----------------------------
(***************************************************************************)
(* One row of public.campaigns and what the service-role RPCs of           *)
(* 202608260006_campaign_lifecycle.sql do to it.  Each RPC is one SQL      *)
(* statement, so each is a function from a row to a row with a guard; the  *)
(* processes that call them are in CampaignLifecycle.                      *)
(*                                                                         *)
(* A processing token is a fresh uuid per claim.  A worker process runs    *)
(* one claim at a time and a later claim replaces the token, so the worker *)
(* that made the last claim stands for the token.                          *)
(***************************************************************************)
EXTENDS Integers

CONSTANTS
    Workers,          \* processes that run processCampaignLifecycle
    NoWorker,         \* a null processing_token
    GenerationLimit,  \* generation attempts before a claim gives up (3)
    StageLimit        \* stage attempts before a claim gives up (10)

ASSUME NoWorkerAssumption == NoWorker \notin Workers
ASSUME LimitAssumption ==
    GenerationLimit \in Nat \ {0} /\ StageLimit \in Nat \ {0}

Stages == {"GENERATING", "PREPARING", "AWAITING_ACTIVATION", "COLLECTING",
           "FINALIZING"}

\* The statuses the claim query selects.
Processable == Stages \cup {"SUBMITTED", "RETRY_WAIT"}

\* "DELETED" is not a value of the column: it says that the row is gone.
\* ARCHIVED is written only by the migration's backfill and never claimed.
Statuses == Processable \cup {"COMPLETED", "FAILED", "DELETED"}

Leases == {"none", "live", "expired"}

Rows == [status: Statuses,
         retryFrom: Stages \cup {"NONE"},
         generationAttempts: 0..GenerationLimit,
         stageAttempts: 0..StageLimit,
         materialized: BOOLEAN,      \* spec, slug and published_at are set
         endsAt: Nat,                \* collection_ends_at, 0 when null
         due: BOOLEAN,               \* next_attempt_at <= clock_timestamp()
         token: Workers \cup {NoWorker},
         lease: Leases]              \* processing_lease_until

SubmittedRow == [status |-> "SUBMITTED", retryFrom |-> "NONE",
                 generationAttempts |-> 0, stageAttempts |-> 0,
                 materialized |-> FALSE, endsAt |-> 0, due |-> TRUE,
                 token |-> NoWorker, lease |-> "none"]

DeletedRow == [SubmittedRow EXCEPT !.status = "DELETED", !.due = FALSE]

------------------------------------------------------------------------------
(* claim_campaign_lifecycle *)

\* Mutants: the lease is ignored; an expired lease is not taken over.
Claimable_Leased(row) == row.status \in Processable /\ row.due
Claimable_NeverLeased(row) ==
    row.status \in Processable /\ row.due /\ row.lease = "none"

Claimable(row) ==
    /\ row.status \in Processable
    /\ row.due
    /\ row.lease # "live"

Claimed(row, w) == [row EXCEPT !.token = w, !.lease = "live"]

HoldsLease(row, w) == row.token = w /\ row.lease = "live"

(* renew_campaign_lifecycle_lease; its caller needs HoldsLease *)
Renewed(row, stage) ==
    [row EXCEPT !.status = stage,
                !.generationAttempts =
                    IF stage = "GENERATING" THEN @ + 1 ELSE @,
                !.stageAttempts = @ + 1,
                !.retryFrom = "NONE"]

------------------------------------------------------------------------------
(* transition_campaign_lifecycle.  The column checks reject a RETRY_WAIT    *)
(* whose retry_from_status would be no stage, and an unmaterialized row in *)
(* a status after GENERATING.                                               *)

Unmaterializable == {"SUBMITTED", "GENERATING", "RETRY_WAIT", "FAILED"}

CanTransition(row, w, status, spec) ==
    /\ HoldsLease(row, w)
    /\ status = "RETRY_WAIT" => row.status \in Stages
    /\ row.materialized \/ spec \/ status \in Unmaterializable

\* Mutant: retry_from_status keeps its value, which the renewal cleared.
Transitioned_StaleRetryFrom(row, status, spec, endsAt, due) ==
    [row EXCEPT !.status = status, !.materialized = @ \/ spec,
                !.endsAt = IF endsAt = 0 THEN @ ELSE endsAt, !.due = due,
                !.token = NoWorker, !.lease = "none"]

Transitioned(row, status, spec, endsAt, due) ==
    [row EXCEPT !.status = status,
                !.materialized = @ \/ spec,
                !.endsAt = IF endsAt = 0 THEN @ ELSE endsAt,   \* coalesce
                !.due = due,
                !.stageAttempts =
                    IF status \in {"RETRY_WAIT", "FAILED"} THEN @ ELSE 0,
                !.retryFrom =
                    IF status = "RETRY_WAIT" THEN row.status ELSE "NONE",
                !.token = NoWorker,
                !.lease = "none"]

------------------------------------------------------------------------------
(* targetStage and the attempt limits of processClaimedCampaign *)

\* Mutant: a retry is not told from a status without a stage.
TargetStage_NoRetryFrom(row) ==
    IF ~row.materialized THEN "GENERATING"
    ELSE IF row.status \in Stages THEN row.status ELSE "PREPARING"

TargetStage(row) ==
    IF ~row.materialized THEN "GENERATING"
    ELSE IF row.status = "RETRY_WAIT" /\ row.retryFrom \in Stages
         THEN row.retryFrom
    ELSE IF row.status \in Stages THEN row.status
    ELSE "PREPARING"

\* Mutant: off by one.
Exhausted_OneMore(row) ==
    \/ row.stageAttempts > StageLimit
    \/ TargetStage(row) = "GENERATING" /\ row.generationAttempts > GenerationLimit

Exhausted(row) ==
    \/ row.stageAttempts >= StageLimit
    \/ /\ TargetStage(row) = "GENERATING"
       /\ row.generationAttempts >= GenerationLimit
==============================================================================
