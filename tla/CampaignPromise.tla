--------------------------- MODULE CampaignPromise ---------------------------
(***************************************************************************)
(* What the lifecycle promises of one campaign, without leases, retries,   *)
(* workers or calls: the stage it is at, and whether Meta delivers its ad. *)
(***************************************************************************)

VARIABLES at, live

promiseVars == <<at, live>>

Working == {"GENERATING", "PREPARING", "AWAITING_ACTIVATION", "COLLECTING",
            "FINALIZING"}

Ended == {"COMPLETED", "FAILED", "DELETED"}

\* The stages that may follow each stage.
Follows ==
    [stage \in Working \cup Ended |->
        CASE stage = "GENERATING" -> {"PREPARING", "FAILED", "DELETED"}
          [] stage = "PREPARING"  -> {"AWAITING_ACTIVATION", "FAILED", "DELETED"}
          [] stage = "AWAITING_ACTIVATION" ->
                 {"COLLECTING", "FINALIZING", "FAILED", "DELETED"}
          [] stage = "COLLECTING" -> {"FINALIZING", "FAILED", "DELETED"}
          [] stage = "FINALIZING" -> {"COMPLETED", "FAILED", "DELETED"}
          [] stage \in {"COMPLETED", "FAILED"} -> {"DELETED"}
          [] OTHER -> {}]

\* A campaign is completed or deleted only when nothing is delivered any more.
\* One that fails is left for an operator, whatever its ad does.
Advance ==
    /\ at' \in Follows[at]
    /\ at' \in {"COMPLETED", "DELETED"} => ~live
    /\ UNCHANGED live

\* Delivery begins while activation is awaited and at no other stage.
Start == at = "AWAITING_ACTIVATION" /\ ~live /\ live' /\ UNCHANGED at

Stop == live /\ ~live' /\ UNCHANGED at

PromiseInit == at = "GENERATING" /\ ~live

Promise == PromiseInit /\ [][Advance \/ Start \/ Stop]_promiseVars

\* The part of the promise that needs nothing of the leases: no stage is
\* skipped, repeated or left once the campaign has ended.
StageOrder == at = "GENERATING" /\ [][at' \in Follows[at]]_at
==============================================================================
