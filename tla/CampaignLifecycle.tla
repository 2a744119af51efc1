-------------------------- MODULE CampaignLifecycle --------------------------
(***************************************************************************)
(* The durable lifecycle of one campaign: the workers that run             *)
(* processCampaignLifecycle (the request that submitted the campaign and   *)
(* the one-minute cron, on different hosts), the campaigns row they lease, *)
(* the Meta run and its three ad objects, the paused-draft operation, and  *)
(* the owner who may delete the campaign at any time.                      *)
(*                                                                         *)
(* A worker is a process between two of its database or Meta calls: one    *)
(* action per call, so other workers, the owner, the clock and crashes     *)
(* come in between.  A call that goes wrong may or may not have taken      *)
(* effect.  The clock ticks in units longer than every retry back-off; the *)
(* short waits (next_attempt_at, leases) end by actions of their own.      *)
(***************************************************************************)
EXTENDS CampaignRow, MetaRun

CONSTANTS
    ShortBudget,    \* attempts before an early stage fails (3)
    LongBudget,     \* attempts before COLLECTING or FINALIZING fails (10)
    Duration,       \* ticks from now to the end of a fresh window
    Delay,          \* META_INSIGHTS_FINALIZATION_DELAY_MINUTES, in ticks
    PrepareTicks,   \* bound: ticks while no run is registered
    MaxClock,       \* bound on the clock
    MaxFaults,      \* bound: crashes and calls that go wrong
    LeaseOutlivesStep  \* no lease expires under a worker that still runs

ASSUME BudgetAssumption ==
    /\ ShortBudget \in Nat \ {0} /\ LongBudget \in Nat \ {0}
    /\ Duration \in Nat \ {0} /\ Delay \in Nat \ {0}
    /\ PrepareTicks \in Nat /\ MaxClock \in Nat /\ MaxFaults \in Nat
    /\ LeaseOutlivesStep \in BOOLEAN

VARIABLES
    row,          \* public.campaigns
    run,          \* public.meta_ad_runs
    operation,    \* public.meta_ad_operations
    holder,       \* the live lease of the operation
    objects,      \* configured status of the Meta objects
    finals,       \* a meta_insight_snapshots row with is_final is stored
    worker,       \* the workers
    deletion,     \* the DELETE request: "idle" or "checked"
    clock,
    faults,       \* calls that went wrong so far
    generations   \* paid calls of the copy generator so far

metaVars == <<run, operation, holder, objects, finals>>
draftVars == <<operation, holder>>
vars == <<row, run, operation, holder, objects, finals, worker, deletion,
          clock, faults, generations>>

PCs == {"idle", "claimed", "generate", "prepare", "acquire",
        "write", "writing", "register", "observe", "ready", "activate",
        "undo", "undoVerify", "undoRecord", "poll", "confirm", "check",
        "pauseBegin", "pause", "pauseVerify", "pauseRecord", "collect",
        "commit", "catch"}

WorkerStates ==
    [pc: PCs, stage: Stages, attempts: 0..StageLimit, endsAt: Nat, now: Nat,
     run: Runs, step: 1..3, ok: BOOLEAN, goal: Statuses,
     err: {"transient", "permanent"}]

IdleWorker == [pc |-> "idle", stage |-> "GENERATING", attempts |-> 0,
               endsAt |-> 0, now |-> 0, run |-> NoRun, step |-> 1,
               ok |-> TRUE, goal |-> "FAILED", err |-> "transient"]

Init ==
    /\ row = SubmittedRow
    /\ run = NoRun
    /\ operation = NoOperation
    /\ holder = NoWorker
    /\ objects = [o \in Objects |-> "PAUSED"]
    /\ finals = FALSE
    /\ worker = [w \in Workers |-> IdleWorker]
    /\ deletion = "idle"
    /\ clock = 0
    /\ faults = 0
    /\ generations = 0

------------------------------------------------------------------------------
(* What a step of a worker does to the worker. *)

Goto(w, pc) == worker' = [worker EXCEPT ![w].pc = pc]

\* Enters a loop over the three objects.
Loop(w, pc) ==
    worker' = [worker EXCEPT ![w].pc = pc, ![w].step = 1, ![w].ok = TRUE]

Return(w) == worker' = [worker EXCEPT ![w] = IdleWorker]

\* Reaches the transition RPC that ends the step, with the window it writes.
CommitTo(w, status, endsAt) ==
    worker' = [worker EXCEPT ![w] =
        [IdleWorker EXCEPT !.pc = "commit", !.stage = worker[w].stage,
                           !.attempts = worker[w].attempts,
                           !.endsAt = endsAt, !.goal = status]]

\* Reaches the catch block of processClaimedCampaign.
Throw(w, err) ==
    worker' = [worker EXCEPT ![w] =
        [IdleWorker EXCEPT !.pc = "catch", !.stage = worker[w].stage,
                           !.attempts = worker[w].attempts, !.err = err]]

At(w, pc) == worker[w].pc = pc

\* A call goes wrong; the budget bounds how often.
Fault == faults < MaxFaults /\ faults' = faults + 1
NoFault == UNCHANGED faults

------------------------------------------------------------------------------
(* Claim, renew, transition: the worker's calls on the row. *)

\* store.claim, and the limits checked before the lease is renewed.  When the
\* response is lost the worker throws and the lease stays: that is a claim
\* followed by Crash.
Claim(w) ==
    /\ At(w, "idle")
    /\ Claimable(row)
    /\ row' = Claimed(row, w)
    /\ worker' = [worker EXCEPT ![w] =
          [IdleWorker EXCEPT !.pc = IF Exhausted(row) THEN "commit" ELSE "claimed",
                             !.stage = TargetStage(row),
                             !.attempts = row.stageAttempts,
                             !.goal = "FAILED"]]
    /\ NoFault
    /\ UNCHANGED <<metaVars, deletion, clock, generations>>

\* What the worker goes on with once its lease is renewed.
RenewedWorker(w) ==
    [worker[w] EXCEPT
        !.pc = CASE worker[w].stage = "GENERATING" -> "generate"
                 [] worker[w].stage = "PREPARING"  -> "prepare"
                 [] OTHER                          -> "observe",
        !.attempts = row.stageAttempts + 1,
        !.endsAt = row.endsAt,
        !.now = clock]

Renew(w) ==
    /\ At(w, "claimed")
    /\ \/ /\ HoldsLease(row, w)
          /\ row' = Renewed(row, worker[w].stage)
          /\ worker' = [worker EXCEPT ![w] = RenewedWorker(w)]
          /\ NoFault
       \/ /\ ~HoldsLease(row, w)
          /\ Throw(w, "transient")
          /\ NoFault /\ UNCHANGED row
       \/ /\ Fault
          /\ Throw(w, "transient")
          /\ \/ HoldsLease(row, w) /\ row' = Renewed(row, worker[w].stage)
             \/ UNCHANGED row
    /\ UNCHANGED <<metaVars, deletion, clock, generations>>

\* next_attempt_at of a transition: now after GENERATING and PREPARING.
DueAtOnce(w) ==
    /\ worker[w].stage \in {"GENERATING", "PREPARING"}
    /\ worker[w].goal # "FAILED"

CommittedRow(w) ==
    Transitioned(row, worker[w].goal, worker[w].stage = "GENERATING"
                                      /\ worker[w].goal = "PREPARING",
                 worker[w].endsAt, DueAtOnce(w))

\* The transition that ends a stage.  A lost lease, a refused update or a
\* lost response throws into the catch block.
Commit(w) ==
    LET spec == worker[w].stage = "GENERATING" /\ worker[w].goal = "PREPARING"
        allowed == CanTransition(row, w, worker[w].goal, spec)
    IN
    /\ At(w, "commit")
    /\ \/ allowed /\ row' = CommittedRow(w) /\ Return(w) /\ NoFault
       \/ ~allowed /\ UNCHANGED row /\ Throw(w, "transient") /\ NoFault
       \/ /\ Fault
          /\ Throw(w, "transient")
          /\ (allowed /\ row' = CommittedRow(w)) \/ UNCHANGED row
    /\ UNCHANGED <<metaVars, deletion, clock, generations>>

Budget(stage) ==
    IF stage \in {"COLLECTING", "FINALIZING"} THEN LongBudget ELSE ShortBudget

\* The status the catch block records for the error it caught.
FailureStatus(w) ==
    IF worker[w].err = "permanent" \/ worker[w].attempts >= Budget(worker[w].stage)
    THEN "FAILED" ELSE "RETRY_WAIT"

\* The catch block; if its own transition throws, the batch ends.
Catch(w) ==
    LET status  == FailureStatus(w)
        allowed == CanTransition(row, w, status, FALSE)
        failed  == Transitioned(row, status, FALSE, 0, FALSE)
    IN
    /\ At(w, "catch")
    /\ Return(w)
    /\ \/ allowed /\ row' = failed /\ NoFault
       \/ ~allowed /\ UNCHANGED row /\ NoFault
       \/ Fault /\ UNCHANGED row
    /\ UNCHANGED <<metaVars, deletion, clock, generations>>

------------------------------------------------------------------------------
(* GENERATING and PREPARING *)

\* The generator is called once; a call that fails may have been billed.
Generate(w) ==
    /\ At(w, "generate")
    /\ generations' = generations + 1
    /\ \/ CommitTo(w, "PREPARING", 0) /\ NoFault
       \/ Fault /\ \E err \in {"transient", "permanent"} : Throw(w, err)
    /\ UNCHANGED <<row, metaVars, deletion, clock>>

NeedsFreshWindow(w) == worker[w].endsAt <= worker[w].now

\* Takes over a run that exists, or fixes a window, or goes on to the draft.
\* A configuration that forbids the draft is a permanent error.
Prepare(w) ==
    /\ At(w, "prepare")
    /\ \/ /\ run.status # "NONE"
          /\ CommitTo(w, "AWAITING_ACTIVATION", run.endsAt)
          /\ NoFault
       \/ /\ run.status = "NONE"
          /\ IF NeedsFreshWindow(w)
             THEN CommitTo(w, "PREPARING", worker[w].now + Duration)
             ELSE Goto(w, "acquire")
          /\ NoFault
       \/ Fault /\ \E err \in {"transient", "permanent"} : Throw(w, err)
    /\ UNCHANGED <<row, metaVars, deletion, clock, generations>>

\* acquire_meta_ad_operation and the checks of service.create on the record.
\* It inserts the operation, which a deleted campaign no longer allows.  A write
\* that was begun and not concluded is marked for an operator first.
AcquireOperation(w) ==
    LET free      == holder = NoWorker /\ row.status # "DELETED"
        uncertain == operation.status = "RECONCILIATION_REQUIRED"
                     \/ operation.attempting
        acquired  == IF operation.status = "NONE"
                     THEN [operation EXCEPT !.status = "OPEN"] ELSE operation
        marked    == [operation EXCEPT !.status = "RECONCILIATION_REQUIRED",
                                       !.attempting = FALSE]
    IN
    /\ At(w, "acquire")
    /\ \/ /\ free /\ ~uncertain
          /\ operation' = acquired
          /\ IF operation.status = "COMPLETED"
             THEN Goto(w, "register") /\ UNCHANGED holder
             ELSE Goto(w, "write") /\ holder' = w
          /\ NoFault
       \/ /\ free /\ uncertain
          /\ operation' = marked
          /\ \/ Throw(w, "permanent") /\ NoFault /\ UNCHANGED holder
             \/ /\ Fault /\ holder' \in {NoWorker, w}
                /\ \E err \in {"transient", "permanent"} : Throw(w, err)
       \/ ~free /\ Throw(w, "transient") /\ NoFault /\ UNCHANGED draftVars
       \/ /\ Fault
          /\ Throw(w, "transient")
          /\ \/ UNCHANGED draftVars
             \/ free /\ operation' = acquired /\ holder' = w    \* response lost
    /\ UNCHANGED <<row, run, objects, finals, deletion, clock, generations>>

\* withExclusiveOperation releases its lease on every way out; a release that
\* goes wrong is ignored, and the lease stays until it expires.
Release(w) == holder' = IF holder = w THEN NoWorker ELSE holder

\* beginAttempt of the next missing checkpoint, or complete when none is.
\* Both RPCs need the operation's lease.  The configured assets are verified
\* first, and refusing them is permanent.
BeginOrComplete(w) ==
    LET begun == IF operation.checkpoints < 2
                 THEN [operation EXCEPT !.attempting = TRUE]
                 ELSE [operation EXCEPT !.status = "COMPLETED"]
    IN
    /\ At(w, "write")
    /\ \/ /\ holder = w
          /\ operation' = begun
          /\ IF operation.checkpoints < 2
             THEN Goto(w, "writing") /\ UNCHANGED holder /\ NoFault
             ELSE /\ Goto(w, "register")
                  /\ (Release(w) /\ NoFault) \/ (Fault /\ UNCHANGED holder)
       \/ /\ holder # w
          /\ Throw(w, "transient")
          /\ NoFault /\ UNCHANGED draftVars
       \/ /\ Fault
          /\ Release(w) \/ UNCHANGED holder
          /\ \/ /\ Throw(w, "transient")
                /\ (holder = w /\ operation' = begun) \/ UNCHANGED operation
             \/ Throw(w, "permanent") /\ UNCHANGED operation
    /\ UNCHANGED <<row, run, objects, finals, deletion, clock, generations>>

\* The external create and its checkpoint.  The ad set is created with the
\* window of this attempt.  When the answer is not certain the step is marked
\* for an operator, unless the marker cannot be written or the checkpoint was
\* stored and only its response lost; the error is permanent either way.
CreateObject(w) ==
    LET checkpointed == [operation EXCEPT
            !.checkpoints = @ + 1, !.attempting = FALSE,
            !.adSetEndsAt = IF operation.checkpoints = 0
                            THEN worker[w].endsAt ELSE @]
        marked == [operation EXCEPT !.status = "RECONCILIATION_REQUIRED",
                                    !.attempting = FALSE]
    IN
    /\ At(w, "writing")
    /\ \/ /\ holder = w
          /\ operation' = checkpointed
          /\ Goto(w, "write")
          /\ NoFault /\ UNCHANGED holder
       \/ /\ holder # w
          /\ Throw(w, "permanent")
          /\ NoFault /\ UNCHANGED draftVars
       \/ /\ Fault
          /\ Throw(w, "permanent")
          /\ Release(w) \/ UNCHANGED holder
          /\ \/ UNCHANGED operation
             \/ holder = w /\ operation' \in {checkpointed, marked}
    /\ UNCHANGED <<row, run, objects, finals, deletion, clock, generations>>

\* registerMetaAdRun: the run of this operation, inserted with the window of
\* this attempt unless it exists.
RegisterRun(w) ==
    LET registered == IF run.status = "NONE"
                      THEN RegisteredRun(worker[w].endsAt) ELSE run
    IN
    /\ At(w, "register")
    /\ \/ /\ operation.status = "COMPLETED"
          /\ run' = registered
          /\ CommitTo(w, "AWAITING_ACTIVATION", registered.endsAt)
          /\ NoFault
       \/ /\ operation.status # "COMPLETED"      \* deleted meanwhile
          /\ Throw(w, "transient")
          /\ NoFault /\ UNCHANGED run
       \/ /\ Fault
          /\ Throw(w, "transient")
          /\ (operation.status = "COMPLETED" /\ run' = registered) \/ UNCHANGED run
    /\ UNCHANGED <<row, draftVars, objects, finals, deletion, clock, generations>>

------------------------------------------------------------------------------
(* AWAITING_ACTIVATION, COLLECTING and FINALIZING *)

Ended(w) == worker[w].now >= worker[w].run.endsAt

\* Mutant: the delay counts from the planned end only.
FinalizationAt_PlannedEnd(r) == r.endsAt + Delay

\* max(endsAt, pausedAt) + delay, from the run as it was read.
FinalizationAt(r) ==
    (IF r.pausedAt > r.endsAt THEN r.pausedAt ELSE r.endsAt) + Delay

\* Where a stage goes once the run is read.  Whether automatic activation is
\* configured is up to the host the worker runs on, and so is whether its
\* Meta configuration can be read at all.
Observe(w) ==
    LET next(pc) == worker' = [worker EXCEPT ![w].run = run, ![w].pc = pc]
        ended    == worker[w].now >= run.endsAt
        stage    == worker[w].stage
    IN
    /\ At(w, "observe")
    /\ \/ run.status = "NONE" /\ Throw(w, "transient") /\ NoFault
       \/ Fault /\ \E err \in {"transient", "permanent"} : Throw(w, err)
       \/ /\ run.status # "NONE" /\ stage = "COLLECTING"
          /\ next("check") /\ NoFault
       \/ /\ run.status # "NONE"
          /\ stage = "FINALIZING" \/ (stage = "AWAITING_ACTIVATION" /\ ended)
          /\ next(IF run.status = "PAUSED" THEN "collect" ELSE "pauseBegin")
          /\ NoFault
       \/ /\ stage = "AWAITING_ACTIVATION" /\ ~ended
          /\ NoFault
          /\ \/ /\ run.status \in Activatable
                /\ next("ready") \/ CommitTo(w, "AWAITING_ACTIVATION", 0)
             \/ run.status = "PAUSING" /\ CommitTo(w, "FINALIZING", 0)
             \/ run.status \in {"ACTIVATING", "ACTIVE"} /\ next("poll")
    /\ UNCHANGED <<row, metaVars, deletion, clock, generations>>

\* Mutant: an update that matches no row is not noticed.
UpdateRun_Unchecked(expected, new, proceed, fail) ==
    \/ run.status \in expected /\ run' = new /\ proceed /\ NoFault
    \/ run.status \notin expected /\ UNCHANGED run /\ proceed /\ NoFault
    \/ /\ Fault /\ proceed
       /\ (run.status \in expected /\ run' = new) \/ UNCHANGED run

\* updateMetaAdRun: a guarded update of the run's status.  It fails when the
\* row is not in an expected status, and may be applied when it seems to fail.
UpdateRun(expected, new, proceed, fail) ==
    \/ run.status \in expected /\ run' = new /\ proceed /\ NoFault
    \/ run.status \notin expected /\ UNCHANGED run /\ fail /\ NoFault
    \/ /\ Fault /\ fail
       /\ (run.status \in expected /\ run' = new) \/ UNCHANGED run

\* setObjectStatus
SetObject(o, status, proceed, fail) ==
    \/ objects' = [objects EXCEPT ![o] = status] /\ proceed /\ NoFault
    \/ /\ Fault /\ fail
       /\ objects' = [objects EXCEPT ![o] = status] \/ UNCHANGED objects

\* activateMetaRun: the account is read and found ready, and the run taken to
\* ACTIVATING.  An account that is not ready is a call that goes wrong.
Ready(w) ==
    /\ At(w, "ready")
    /\ UpdateRun(Activatable, [run EXCEPT !.status = "ACTIVATING"],
                 Loop(w, "activate"), Throw(w, "transient"))
    /\ UNCHANGED <<row, draftVars, objects, finals, deletion, clock, generations>>

Activate(w) ==
    /\ At(w, "activate")
    /\ SetObject(ActivationOrder[worker[w].step], "ACTIVE",
                 IF worker[w].step < 3
                 THEN worker' = [worker EXCEPT ![w].step = @ + 1]
                 ELSE CommitTo(w, "AWAITING_ACTIVATION", 0),
                 Loop(w, "undo"))
    /\ UNCHANGED <<row, run, draftVars, finals, deletion, clock, generations>>

\* pauseMetaRunObjects throws: activateMetaRun notes it, pauseMetaRun does not
\* catch it.
Unverified(w) ==
    IF worker[w].pc \in {"undo", "undoVerify"}
    THEN worker' = [worker EXCEPT ![w].pc = "undoRecord", ![w].ok = FALSE]
    ELSE Throw(w, "transient")

\* pauseMetaRunObjects: every object is attempted, whatever fails.
PauseObject(w) ==
    LET next(ok) ==
          IF worker[w].step < 3
          THEN worker' = [worker EXCEPT ![w].step = @ + 1, ![w].ok = ok]
          ELSE IF ~ok THEN Unverified(w)
          ELSE Goto(w, IF At(w, "undo") THEN "undoVerify" ELSE "pauseVerify")
    IN
    /\ worker[w].pc \in {"undo", "pause"}
    /\ SetObject(PauseOrder[worker[w].step], "PAUSED",
                 next(worker[w].ok), next(FALSE))
    /\ UNCHANGED <<row, run, draftVars, finals, deletion, clock, generations>>

PauseVerify(w) ==
    /\ worker[w].pc \in {"undoVerify", "pauseVerify"}
    /\ \/ /\ AllPaused(objects)
          /\ Goto(w, IF At(w, "undoVerify") THEN "undoRecord" ELSE "pauseRecord")
          /\ NoFault
       \/ ~AllPaused(objects) /\ Unverified(w) /\ NoFault
       \/ Fault /\ Unverified(w)
    /\ UNCHANGED <<row, metaVars, deletion, clock, generations>>

\* Mutant: a failed activation records the run as PAUSED, verified or not.
UndoRecord_Paused(w) ==
    /\ At(w, "undoRecord")
    /\ UpdateRun({"ACTIVATING"}, [run EXCEPT !.status = "PAUSED"],
                 Throw(w, IF worker[w].ok THEN "transient" ELSE "permanent"),
                 Throw(w, "transient"))
    /\ UNCHANGED <<row, draftVars, objects, finals, deletion, clock, generations>>

\* A failed activation whose objects are not known to be PAUSED is permanent,
\* but only if the run could be marked FAILED.
UndoRecord(w) ==
    /\ At(w, "undoRecord")
    /\ UpdateRun({"ACTIVATING"}, [run EXCEPT !.status = "FAILED"],
                 Throw(w, IF worker[w].ok THEN "transient" ELSE "permanent"),
                 Throw(w, "transient"))
    /\ UNCHANGED <<row, draftVars, objects, finals, deletion, clock, generations>>

\* pauseMetaRun: PAUSING, the three objects, PAUSED.
PauseBegin(w) ==
    /\ At(w, "pauseBegin")
    /\ UpdateRun(Pausable, [run EXCEPT !.status = "PAUSING"],
                 Loop(w, "pause"), Throw(w, "transient"))
    /\ UNCHANGED <<row, draftVars, objects, finals, deletion, clock, generations>>

PauseRecord(w) ==
    /\ At(w, "pauseRecord")
    /\ UpdateRun({"PAUSING"}, [run EXCEPT !.status = "PAUSED", !.pausedAt = clock],
                 IF worker[w].stage = "COLLECTING"
                 THEN CommitTo(w, "FINALIZING", run.endsAt)
                 ELSE Goto(w, "collect"),
                 Throw(w, "transient"))
    /\ UNCHANGED <<row, draftVars, objects, finals, deletion, clock, generations>>

\* Only the way to COLLECTING writes the window of the run.
PollCommit(w, status) ==
    CommitTo(w, status, IF status = "COLLECTING" THEN worker[w].run.endsAt ELSE 0)

\* The three statuses are read.  Meta may show them late ("pending") or with
\* the ad still in review ("configured").  A read that fails, and an effective
\* status such as DISAPPROVED, throws.
Poll(w) ==
    LET readings == IF Delivering(objects)
                    THEN {"pending", "configured", "effective"} ELSE {"pending"}
        goal(r)  == IF r = "effective" THEN "COLLECTING" ELSE "AWAITING_ACTIVATION"
    IN
    /\ At(w, "poll")
    /\ \/ /\ \E r \in readings :
                IF worker[w].run.status = "ACTIVATING" /\ r # "pending"
                THEN worker' = [worker EXCEPT ![w].pc = "confirm", ![w].goal = goal(r)]
                ELSE PollCommit(w, goal(r))
          /\ NoFault
       \/ Fault /\ Throw(w, "transient")
    /\ UNCHANGED <<row, metaVars, deletion, clock, generations>>

Confirm(w) ==
    /\ At(w, "confirm")
    /\ UpdateRun({"ACTIVATING"}, [run EXCEPT !.status = "ACTIVE"],
                 PollCommit(w, worker[w].goal),
                 Throw(w, "transient"))
    /\ UNCHANGED <<row, draftVars, objects, finals, deletion, clock, generations>>

\* COLLECTING reads the objects: one that stopped early is an error.
CheckDelivery(w) ==
    /\ At(w, "check")
    /\ \/ /\ Delivering(objects) \/ Ended(w)
          /\ Goto(w, "collect") /\ NoFault
       \/ ~Delivering(objects) /\ ~Ended(w) /\ Throw(w, "transient") /\ NoFault
       \/ Fault /\ Throw(w, "transient")
    /\ UNCHANGED <<row, metaVars, deletion, clock, generations>>

\* collectMetaInsight, and where its stage goes next.  The snapshot is final
\* in FINALIZING once the delay has passed on the run as it was read.
Collect(w) ==
    LET stage == worker[w].stage
        read  == worker[w].run
        final == stage = "FINALIZING" /\ worker[w].now >= FinalizationAt(read)
        proceed ==
          CASE stage = "AWAITING_ACTIVATION" -> CommitTo(w, "FINALIZING", 0)
            [] stage = "COLLECTING" /\ ~Ended(w) -> CommitTo(w, "COLLECTING", 0)
            [] stage = "COLLECTING" /\ Ended(w) ->
                 IF read.status = "PAUSED"
                 THEN CommitTo(w, "FINALIZING", read.endsAt)
                 ELSE Goto(w, "pauseBegin")
            [] OTHER -> CommitTo(w, IF final THEN "COMPLETED" ELSE "FINALIZING", 0)
    IN
    /\ At(w, "collect")
    /\ \/ /\ run.status # "NONE"
          /\ finals' = (finals \/ final)
          /\ proceed
          /\ NoFault
       \/ run.status = "NONE" /\ Throw(w, "transient") /\ NoFault /\ UNCHANGED finals
       \/ /\ Fault
          /\ Throw(w, "transient")
          /\ (run.status # "NONE" /\ finals' = (finals \/ final)) \/ UNCHANGED finals
    /\ UNCHANGED <<row, run, draftVars, objects, deletion, clock, generations>>

------------------------------------------------------------------------------
(* Crashes, time, Ads Manager and the owner *)

Crash(w) ==
    /\ ~At(w, "idle")
    /\ Fault
    /\ Return(w)
    /\ UNCHANGED <<row, metaVars, deletion, clock, generations>>

\* A lease expires.  Under a worker that still runs only if steps may outlive
\* their leases, and then it counts as a fault.
Expires(abandoned) == IF abandoned THEN NoFault ELSE ~LeaseOutlivesStep /\ Fault

\* The row's ten-minute lease.
LeaseExpires ==
    /\ row.lease = "live"
    /\ Expires(\A w \in Workers : row.token = w => At(w, "idle"))
    /\ row' = [row EXCEPT !.lease = "expired"]
    /\ UNCHANGED <<metaVars, worker, deletion, clock, generations>>

\* The operation's lease.
OperationLeaseExpires ==
    /\ holder # NoWorker
    /\ Expires(worker[holder].pc \notin {"write", "writing"})
    /\ holder' = NoWorker
    /\ UNCHANGED <<row, run, operation, objects, finals, worker, deletion, clock,
                   generations>>

BecomeDue ==
    /\ row.status \in Processable /\ ~row.due
    /\ row' = [row EXCEPT !.due = TRUE]
    /\ UNCHANGED <<metaVars, worker, deletion, clock, faults, generations>>

\* Nothing depends on the time after the final snapshot may be taken.
Tick ==
    /\ clock < IF run.status = "NONE" THEN PrepareTicks ELSE FinalizationAt(run)
    /\ clock < MaxClock
    /\ clock' = clock + 1
    /\ UNCHANGED <<row, metaVars, worker, deletion, faults, generations>>

\* An operator of the ad account stops an object that runs.
PauseInAdsManager(o) ==
    /\ objects[o] = "ACTIVE"
    /\ Fault
    /\ objects' = [objects EXCEPT ![o] = "PAUSED"]
    /\ UNCHANGED <<row, run, draftVars, finals, worker, deletion, clock, generations>>

\* assertCampaignMetaDeletionSafe: before the deletion, outside it.
CheckDeletion ==
    /\ deletion = "idle" /\ row.status # "DELETED"
    /\ run.status = "NONE" \/ (run.status = "PAUSED" /\ AllPaused(objects))
    /\ deletion' = "checked"
    /\ UNCHANGED <<row, metaVars, worker, clock, faults, generations>>

\* Mutant: the deletion trusts the check made before it.
Deletable_NoRunCheck ==
    /\ row.lease # "live"
    /\ operation.status = "NONE" \/ run.status # "NONE"

\* delete_owned_inactive_campaign; the foreign keys cascade.
Deletable ==
    /\ row.lease # "live"
    /\ run.status \in {"NONE", "PAUSED"}
    /\ operation.status = "NONE" \/ run.status # "NONE"

Delete ==
    /\ deletion = "checked"
    /\ deletion' = "idle"
    /\ IF Deletable
       THEN /\ row' = DeletedRow
            /\ run' = NoRun
            /\ operation' = NoOperation
            /\ holder' = NoWorker
            /\ finals' = FALSE
       ELSE UNCHANGED <<row, run, operation, holder, finals>>
    /\ UNCHANGED <<objects, worker, clock, faults, generations>>

------------------------------------------------------------------------------

WorkerStep(w) ==
    \/ Renew(w) \/ Commit(w) \/ Catch(w)
    \/ Generate(w) \/ Prepare(w) \/ AcquireOperation(w) \/ BeginOrComplete(w)
    \/ CreateObject(w) \/ RegisterRun(w)
    \/ Observe(w) \/ Ready(w) \/ Activate(w) \/ PauseObject(w) \/ PauseVerify(w)
    \/ UndoRecord(w) \/ PauseBegin(w) \/ PauseRecord(w)
    \/ Poll(w) \/ Confirm(w) \/ CheckDelivery(w) \/ Collect(w)

Time == LeaseExpires \/ OperationLeaseExpires \/ BecomeDue \/ Tick

Owner == CheckDeletion \/ Delete

Next ==
    \/ \E w \in Workers : Claim(w) \/ WorkerStep(w) \/ Crash(w)
    \/ \E o \in Objects : PauseInAdsManager(o)
    \/ Time
    \/ Owner

Spec == Init /\ [][Next]_vars

\* The cron claims what is due, a worker that runs goes on, and time passes.
FairSpec ==
    /\ Spec
    /\ WF_vars(\E w \in Workers : Claim(w))
    /\ \A w \in Workers : WF_vars(WorkerStep(w))
    /\ WF_vars(LeaseExpires)
    /\ WF_vars(OperationLeaseExpires)
    /\ WF_vars(BecomeDue)
    /\ WF_vars(Tick)

------------------------------------------------------------------------------
(* Properties *)

TypeOK ==
    /\ row \in Rows
    /\ run \in Runs
    /\ operation \in Operations
    /\ holder \in Workers \cup {NoWorker}
    /\ objects \in [Objects -> Configured]
    /\ finals \in BOOLEAN
    /\ worker \in [Workers -> WorkerStates]
    /\ deletion \in {"idle", "checked"}
    /\ clock \in Nat
    /\ faults \in Nat
    /\ generations \in Nat

\* The campaign as CampaignPromise sees it.
StageOf(r) ==
    CASE r.status = "SUBMITTED"  -> "GENERATING"
      [] r.status = "RETRY_WAIT" -> r.retryFrom
      [] OTHER                   -> r.status

Abstract == INSTANCE CampaignPromise
                WITH at <- StageOf(row), live <- Delivering(objects)

\* Through every retry, crash and late worker a campaign follows the order of
\* its stages: none is skipped, redone or revived (targetStage, the retry_from
\* bookkeeping of the RPCs and the token they require).
FollowsStageOrder == Abstract!StageOrder

\* While leases outlive the steps they cover, delivery begins only in
\* AWAITING_ACTIVATION, and a campaign that is COMPLETED or deleted delivers
\* nothing (processClaimedCampaign, metaRunLifecycle, campaignDeletion).
KeepsPromise == Abstract!Promise

\* A campaign waits for a retry of the very stage that failed: the one the
\* worker whose failure is recorded was at work on, which it fixed at its claim,
\* whatever other claims, renewals and late writes came between.  The stage is
\* kept while the campaign waits, and what leaves the wait, other than a failure
\* or a deletion, goes on in it.  GENERATING is not entered again once its result
\* is stored (targetStage, and retry_from_status, which the renewal clears and
\* the failed transition takes from the row).
ResumesWhereItStopped ==
    /\ row'.status = "RETRY_WAIT" /\ row.status # "RETRY_WAIT" =>
          \E w \in Workers : /\ At(w, "catch") /\ HoldsLease(row, w)
                             /\ row'.retryFrom = worker[w].stage
    /\ row.status = "RETRY_WAIT" =>
          \/ row'.status = "RETRY_WAIT" /\ row'.retryFrom = row.retryFrom
          \/ row'.status \in {row.retryFrom, "FAILED", "DELETED"}
    /\ row'.status = "GENERATING" => ~row'.materialized

RetryResumesWhereItStopped == [][ResumesWhereItStopped]_vars

\* The copy generator is called at most GenerationLimit times per campaign,
\* counting the calls of workers that crashed or lost their lease
\* (generation_attempts is taken before the call and checked at the claim).
GenerationBound == generations <= GenerationLimit

\* Between its renewal and its transition a worker acts on Meta, the generator
\* and the run.  While leases outlive steps, one worker does at a time: the
\* claim's lease is the only lock around those calls.
Acting(w) == worker[w].pc \notin {"idle", "claimed", "commit", "catch"}

OneActor == \A v, w \in Workers : Acting(v) /\ Acting(w) => v = w

\* A run that is recorded PAUSED has all its objects PAUSED, whichever calls of
\* an activation or a pause failed on the way (pauseMetaRun and activateMetaRun
\* write it, and delete_owned_inactive_campaign relies on it).
PausedRunIsQuiet == run.status = "PAUSED" => AllPaused(objects)

\* A COMPLETED campaign has its final snapshot and a run that was paused
\* (FINALIZING in processClaimedCampaign).
CompletedIsSettled ==
    row.status = "COMPLETED" => finals /\ run.status = "PAUSED"

\* The final snapshot is taken after the delay on the run as it really ended,
\* though the worker computes the time from the run it read before its own
\* pause (finalizationAt in processClaimedCampaign).
FinalAfterSettlement ==
    [][~finals /\ finals' =>
          /\ AllPaused(objects)
          /\ clock >= run.endsAt + Delay
          /\ clock >= run.pausedAt + Delay]_vars

\* Every campaign ends, whatever finitely many calls, workers and leases are
\* lost on the way: the attempt limits and the end of the window see to it.
Settles == <>(row.status \in {"COMPLETED", "FAILED", "DELETED"})

------------------------------------------------------------------------------
(* What the documents say and the code does not do.                        *)

\* spec.md: at the end of the collection the whole ad is confirmed PAUSED; and
\* ADR-0023: external effects recover by retries.  A pause that was begun is
\* eventually concluded (pauseMetaRun does not accept a PAUSING run).
PauseIsRetried == run.status = "PAUSING" ~> run.status # "PAUSING"

\* userSafeFailureMessage: "could not confirm the activation of the Meta ad and
\* stopped it".  A campaign that fails in AWAITING_ACTIVATION is not delivered.
FailedActivationIsStopped ==
    [][row.status = "AWAITING_ACTIVATION" /\ row'.status = "FAILED" =>
          ~Delivering(objects)]_vars

\* ADR-0021: an ad set that has a checkpoint keeps its schedule.  The run's
\* window, which decides when to pause and to finalize, is the ad set's.
RunKeepsAdSetSchedule ==
    run.status # "NONE" => run.endsAt = operation.adSetEndsAt

\* ADR-0021: an uncertain external write is kept for reconciliation.  When the
\* campaign has failed, no worker will mark it any more (mutate's inner catch).
UncertainWriteIsMarked == row.status = "FAILED" => ~operation.attempting
==============================================================================
