--------------------------- MODULE LifecycleQueue ---------------------------
(* The worker loop that feeds the lifecycle processor.  A container calls    *)
(* GET /api/internal/lifecycle, waits for the answer or its own time-out,    *)
(* waits a minute and calls again.  Each call is a batch: it claims the      *)
(* oldest due campaign of all owners, runs one stage of it, and goes on      *)
(* until nothing is due or the step limit is reached.  An exception that     *)
(* leaves the processor ends the batch; the claim it interrupts stays        *)
(* leased.                                                                   *)
(*                                                                           *)
(* Campaigns are numbered by created_at.  Times are the minutes left, so the *)
(* clock needs no bound.  What a stage does is CampaignLifecycle's subject:  *)
(* here it only uses up one of the runs a campaign needs.                    *)
EXTENDS Integers, FiniteSets, FiniteSetsExt

CONSTANTS
    N,         \* campaigns, in the order of created_at
    Broken,    \* those whose row does not parse (an older spec or input schema)
    Runs,      \* runs a campaign takes until its status is no longer claimable
    MaxSteps,  \* claims of one batch (10 in the route)
    Lease,     \* minutes a claim stays leased (10)
    MaxRun,    \* minutes a run may take: the route's own limit (300 s), below Lease
    Waits,     \* minutes a transition may put before next_attempt_at
    MaxFaults, \* bound: runs whose last transition cannot be written
    Batches    \* batches the server may be running at once

ASSUME QueueAssumption ==
    /\ N \in Nat /\ Broken \subseteq 1..N /\ Runs \in Nat \ {0}
    /\ MaxSteps \in Nat \ {0} /\ Lease \in Nat \ {0} /\ MaxRun \in 1..(Lease - 1)
    /\ Waits \subseteq Nat /\ 0 \in Waits /\ IsFiniteSet(Waits)
    /\ MaxFaults \in Nat /\ Batches \subseteq Nat \ {0}

Campaigns == 1..N
Healthy == Campaigns \ Broken

VARIABLES
    left,   \* runs a campaign still needs; 0 before it is submitted and after it settled
    next,   \* next campaign to be submitted
    wait,   \* minutes until next_attempt_at
    lease,  \* minutes until processing_lease_until
    batch,  \* the batches: open, steps taken, campaign in work and its minutes
    loop,   \* the container: waiting a minute, ready, or in a call
    faults, \* runs that could not write their outcome
    idle    \* history: closed batches since a campaign was last run

queueVars == <<left, next, wait, lease, batch, loop, faults, idle>>

Closed == [open |-> FALSE, taken |-> 0, on |-> 0, age |-> 0]
Opened == [Closed EXCEPT !.open = TRUE]
Waiting == 0
Ready == -1

QueueInit ==
    /\ left = [c \in Campaigns |-> 0]
    /\ next = 1
    /\ wait = [c \in Campaigns |-> 0]
    /\ lease = [c \in Campaigns |-> 0]
    /\ batch = [b \in Batches |-> Closed]
    /\ loop = Ready
    /\ faults = 0
    /\ idle = 0

Due(c) == left[c] > 0 /\ wait[c] = 0 /\ lease[c] = 0
DueCampaigns == {c \in Campaigns : Due(c)}

(* The leases after a claim of c. *)
Leased_NotKept(c) == lease
Leased(c) == [lease EXCEPT ![c] = Lease]

(* A POST adds the next campaign; it is due at once. *)
SubmitCampaign ==
    /\ next \in Campaigns
    /\ left' = [left EXCEPT ![next] = Runs]
    /\ next' = next + 1
    /\ UNCHANGED <<wait, lease, batch, loop, faults, idle>>

(* The container calls the route; a batch starts. *)
CallRoute(b) ==
    /\ loop = Ready
    /\ ~batch[b].open
    /\ batch' = [batch EXCEPT ![b] = Opened]
    /\ loop' = b
    /\ UNCHANGED <<left, next, wait, lease, faults, idle>>

(* The batch ends, by its answer or by an exception: both let the container  *)
(* wait a minute, if it is still listening.                                  *)
Close(b) ==
    /\ batch' = [batch EXCEPT ![b] = Closed]
    /\ loop' = IF loop = b THEN Waiting ELSE loop

(* Each failed write may come between two series of rows that do not parse.  *)
IdleLimit == (MaxFaults + 1) * (Cardinality(Broken) + 1)

(* The batches that ran nothing, counted while a healthy campaign was due.   *)
IdleAfter(b) ==
    IF batch[b].taken = 0 /\ idle < IdleLimit /\ DueCampaigns \ Broken # {}
    THEN idle + 1 ELSE idle

MayClaim(b) ==
    batch[b].open /\ batch[b].on = 0 /\ batch[b].taken < MaxSteps

(* claim: the oldest due row is leased in the database, then parsed.  A row  *)
(* that parses goes to work.                                                 *)
Claim(b) ==
    /\ MayClaim(b)
    /\ DueCampaigns # {}
    /\ LET c == Min(DueCampaigns)
       IN  /\ c \in Healthy
           /\ lease' = Leased(c)
           /\ batch' = [batch EXCEPT ![b].on = c]
    /\ UNCHANGED <<left, next, wait, loop, faults, idle>>

(* A row that does not parse throws out of claim, after it was leased.       *)
ClaimThrows(b) ==
    /\ MayClaim(b)
    /\ DueCampaigns # {}
    /\ LET c == Min(DueCampaigns)
       IN  c \in Broken /\ lease' = Leased(c)
    /\ Close(b)
    /\ idle' = IdleAfter(b)
    /\ UNCHANGED <<left, next, wait, faults>>

(* A run ends in a transition: the campaign needs one run less, is due again *)
(* after some minutes, and is free.                                          *)
Run(b) ==
    /\ batch[b].on # 0
    /\ LET c == batch[b].on
       IN  /\ left' = [left EXCEPT ![c] = @ - 1]
           /\ \E w \in Waits : wait' = [wait EXCEPT ![c] = w]
           /\ lease' = [lease EXCEPT ![c] = 0]
    /\ batch' = [batch EXCEPT ![b].on = 0, ![b].age = 0, ![b].taken = @ + 1]
    /\ idle' = 0
    /\ UNCHANGED <<next, loop, faults>>

(* The run cannot write its outcome, nor the failure: the exception leaves   *)
(* the processor and ends the batch; the row stays as it was, leased.        *)
RunThrows(b) ==
    /\ batch[b].on # 0
    /\ faults < MaxFaults
    /\ faults' = faults + 1
    /\ Close(b)
    /\ idle' = IdleAfter(b)
    /\ UNCHANGED <<left, next, wait, lease>>

(* The loop of processCampaignLifecycle stops: nothing due, or enough steps. *)
EndBatch(b) ==
    /\ batch[b].open /\ batch[b].on = 0
    /\ \/ batch[b].taken = MaxSteps
       \/ DueCampaigns = {}
    /\ Close(b)
    /\ idle' = IdleAfter(b)
    /\ UNCHANGED <<left, next, wait, lease, faults>>

(* The container stops listening after 290 s; the batch goes on.             *)
GiveUp ==
    /\ loop \in Batches
    /\ batch[loop].age > 0
    /\ loop' = Waiting
    /\ UNCHANGED <<left, next, wait, lease, batch, faults, idle>>

(* A minute passes.  Claims and the call itself are quick; a run may take    *)
(* minutes, but fewer than its lease (see README, "Leases").                 *)
Tick ==
    /\ loop # Ready
    /\ \A b \in Batches : batch[b].open => batch[b].on # 0 /\ batch[b].age < MaxRun
    /\ wait' = [c \in Campaigns |-> IF wait[c] > 0 THEN wait[c] - 1 ELSE 0]
    /\ lease' = [c \in Campaigns |-> IF lease[c] > 0 THEN lease[c] - 1 ELSE 0]
    /\ batch' = [b \in Batches |->
                    IF batch[b].open THEN [batch[b] EXCEPT !.age = @ + 1] ELSE batch[b]]
    /\ loop' = IF loop = Waiting /\ \E b \in Batches : ~batch[b].open
               THEN Ready ELSE loop
    /\ UNCHANGED <<left, next, faults, idle>>

BatchStep(b) == Claim(b) \/ ClaimThrows(b) \/ Run(b) \/ RunThrows(b) \/ EndBatch(b)

QueueNext ==
    \/ SubmitCampaign
    \/ GiveUp
    \/ Tick
    \/ \E b \in Batches : CallRoute(b) \/ BatchStep(b)

(* The container is restarted unless stopped and its loop never returns; a   *)
(* started batch goes on to its end; time passes.                            *)
QueueFairness ==
    /\ WF_queueVars(Tick)
    /\ WF_queueVars(\E b \in Batches : CallRoute(b))
    /\ \A b \in Batches : WF_queueVars(BatchStep(b))

QueueSpec == QueueInit /\ [][QueueNext]_queueVars
FairQueueSpec == QueueSpec /\ QueueFairness

-----------------------------------------------------------------------------
QueueTypeOK ==
    /\ left \in [Campaigns -> 0..Runs]
    /\ next \in 1..(N + 1)
    /\ wait \in [Campaigns -> 0..Max(Waits)]
    /\ lease \in [Campaigns -> 0..Lease]
    /\ batch \in [Batches -> [open : BOOLEAN, taken : 0..MaxSteps, on : 0..N,
                            age : 0..MaxRun]]
    /\ loop \in Batches \cup {Waiting, Ready}
    /\ faults \in 0..MaxFaults
    /\ idle \in 0..IdleLimit

(* Rows that do not parse hold healthy campaigns up for at most one batch    *)
(* each: no more batches than that pass in a row without a healthy campaign  *)
(* being started, so however the runs that cannot be written fall between    *)
(* them, idle stays within the bound.  It needs the lease to last longer     *)
(* than those batches take.                                                  *)
HoldUpIsBounded == idle < IdleLimit

(* Every campaign whose row parses is run until it settles, however many     *)
(* older campaigns are due and however many rows do not parse (fewer than a  *)
(* lease has minutes).                                                       *)
HealthyCampaignsSettle == \A c \in Healthy : left[c] > 0 ~> left[c] = 0

------------------------------------------------------------------------------
(* What the documents say and the code does not do.                           *)

(* ADR-0023: an error that cannot be continued safely is recorded as FAILED. *)
(* For a row that does not parse this never happens.                         *)
BrokenRowsAreSettled == \A c \in Broken : left[c] > 0 ~> left[c] = 0
=============================================================================
