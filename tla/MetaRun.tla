------------------------------- MODULE MetaRun -------------------------------
(***************************************************************************)
(* The meta_ad_runs row of a campaign, the three Meta objects it names and *)
(* the paused-draft operation that made them: their states, and the rules  *)
(* by which metaAdRun.ts and metaRunLifecycle.ts change them.              *)
(***************************************************************************)
EXTENDS Integers, Sequences

Objects == {"campaign", "ad-set", "ad"}

\* Children before the parent, so nothing is delivered half configured.
ActivationOrder == <<"ad", "ad-set", "campaign">>

\* The broadest object first, so delivery stops with the first call.
PauseOrder == <<"campaign", "ad-set", "ad">>

Configured == {"ACTIVE", "PAUSED"}

\* Meta delivers only while an ad and both its ancestors are ACTIVE.
Delivering(objects) == \A o \in Objects : objects[o] = "ACTIVE"
AllPaused(objects)  == \A o \in Objects : objects[o] = "PAUSED"

RunStatuses == {"PAUSED", "ACTIVATING", "ACTIVE", "PAUSING", "FAILED"}

\* "NONE": the campaign has no run.  pausedAt is 0 when null.
Runs == [status: RunStatuses \cup {"NONE"}, endsAt: Nat, pausedAt: Nat]

NoRun == [status |-> "NONE", endsAt |-> 0, pausedAt |-> 0]

\* registerMetaAdRun inserts the run PAUSED with the campaign's window.
RegisteredRun(endsAt) == [status |-> "PAUSED", endsAt |-> endsAt, pausedAt |-> 0]

\* expectedStatuses of the updates of activateMetaRun and pauseMetaRun.
Activatable == {"PAUSED", "FAILED"}
Pausable    == {"ACTIVE", "ACTIVATING", "FAILED", "PAUSED"}

------------------------------------------------------------------------------
(* meta_ad_operations, as far as the lifecycle sees it: how many of the     *)
(* external writes up to the ad set (1) and up to the ad (2) have a         *)
(* checkpoint, whether one has been begun and not concluded, and the window *)
(* the ad set was created with.                                             *)

OperationStatuses == {"NONE", "OPEN", "RECONCILIATION_REQUIRED", "COMPLETED"}

NoOperation == [status |-> "NONE", checkpoints |-> 0, attempting |-> FALSE,
                adSetEndsAt |-> 0]

Operations == [status: OperationStatuses, checkpoints: 0..2,
               attempting: BOOLEAN, adSetEndsAt: Nat]
==============================================================================
