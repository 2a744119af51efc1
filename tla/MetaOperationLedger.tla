-------------------------- MODULE MetaOperationLedger --------------------------
(***************************************************************************)
(* The durable ledger of one paused-draft operation (acquire, transition   *)
(* and resolve_meta_ad_operation), the sessions of                         *)
(* PausedCarouselDraftService.create that write to Meta under its lease,   *)
(* and the operator who reconciles what became uncertain.                  *)
(*                                                                         *)
(* Each call of a session is an action: other sessions, lease expiry and   *)
(* crashes come in between, and a call that goes wrong may have taken      *)
(* effect.  A session has a token of its own, so an expired lease and none *)
(* are the same to every RPC.  CampaignLifecycle sees the same operation   *)
(* with the writes after the ad set taken together.                        *)
(***************************************************************************)
EXTENDS Integers

CONSTANTS
    Sessions,    \* calls of create for this operation
    NoSession,   \* a null or expired lease
    StepCount,   \* external writes of a draft (9)
    MaxFaults    \* bound: calls that go wrong, crashes, leases lost in use

ASSUME SessionAssumption == NoSession \notin Sessions
ASSUME StepAssumption == StepCount \in Nat \ {0} /\ MaxFaults \in Nat

Steps == 1..StepCount

VARIABLES
    operation,   \* the row of meta_ad_operations
    holder,      \* whose live lease it carries
    session,     \* the sessions
    made,        \* how many objects each step has made in Meta
    late,        \* steps with a timed-out write that Meta may still carry out
    faults

vars == <<operation, holder, session, made, late, faults>>

\* A checkpoint is the id of the object, counted per step; 0 when there is none.
Records == [status: {"NONE", "OPEN", "RECONCILIATION_REQUIRED", "COMPLETED"},
            checkpoints: [Steps -> Nat],
            attempting: 0..StepCount,      \* attempting_step, 0 when null
            reconciling: 0..StepCount]     \* reconciliation_step, 0 when null

NoRecord == [status |-> "NONE", checkpoints |-> [k \in Steps |-> 0],
             attempting |-> 0, reconciling |-> 0]

PCs == {"idle", "mark", "write", "create", "checkpoint", "uncertain", "release"}

\* The record as the last response showed it, the step of the write in progress
\* and the id that Meta returned for it.
SessionStates == [pc: PCs, read: Records, step: 0..StepCount, id: Nat]

IdleSession == [pc |-> "idle", read |-> NoRecord, step |-> 0, id |-> 0]

Init ==
    /\ operation = NoRecord
    /\ holder = NoSession
    /\ session = [s \in Sessions |-> IdleSession]
    /\ made = [k \in Steps |-> 0]
    /\ late = {}
    /\ faults = 0

------------------------------------------------------------------------------

At(s, pc) == session[s].pc = pc

Move(s, new) == session' = [session EXCEPT ![s] = new]

Goto(s, pc) == Move(s, [session[s] EXCEPT !.pc = pc])

Return(s) == Move(s, IdleSession)

Fault == faults < MaxFaults /\ faults' = faults + 1
NoFault == UNCHANGED faults

\* A transition RPC for session s.  It is carried out, or refused because the
\* lease is lost or the record does not allow it, or it goes wrong.
Transition(s, allowed, new, proceed, fail) ==
    LET carriedOut == holder = s /\ allowed /\ operation' = new IN
    \/ carriedOut /\ proceed /\ NoFault
    \/ ~(holder = s /\ allowed) /\ UNCHANGED operation /\ fail /\ NoFault
    \/ Fault /\ fail /\ (carriedOut \/ UNCHANGED operation)

------------------------------------------------------------------------------

\* Mutant: a write that was begun and not concluded is simply tried again.
AfterAcquire_IgnoresAttempt(record) ==
    IF record.status \in {"COMPLETED", "RECONCILIATION_REQUIRED"} THEN "release"
    ELSE "write"

\* What create does with the record it has acquired.
AfterAcquire(record) ==
    IF record.status \in {"COMPLETED", "RECONCILIATION_REQUIRED"} THEN "release"
    ELSE IF record.attempting # 0 THEN "mark"
    ELSE "write"

\* acquire_meta_ad_operation inserts the row and takes the lease.  When its
\* response is lost the session ends without the release, and an operation that
\* is busy ends it at once.
Acquire(s) ==
    LET acquired == IF operation.status = "NONE"
                    THEN [operation EXCEPT !.status = "OPEN"] ELSE operation
    IN
    /\ At(s, "idle")
    /\ holder = NoSession
    /\ operation' = acquired
    /\ holder' = s
    /\ \/ /\ Move(s, [IdleSession EXCEPT !.pc = AfterAcquire(acquired),
                                         !.read = acquired])
          /\ NoFault
       \/ Fault /\ UNCHANGED session
    /\ UNCHANGED <<made, late>>

Marked(k) == [operation EXCEPT !.status = "RECONCILIATION_REQUIRED",
                               !.attempting = 0, !.reconciling = k]

\* requireReconciliation: for an attempt found in the record ("mark"), or for
\* the session's own write of which the outcome is not certain.
RequireReconciliation(s) ==
    LET k == IF At(s, "mark") THEN session[s].read.attempting ELSE session[s].step
    IN
    /\ session[s].pc \in {"mark", "uncertain"}
    /\ Transition(s, operation.status # "COMPLETED" /\ operation.attempting = k,
                  Marked(k), Goto(s, "release"), Goto(s, "release"))
    /\ UNCHANGED <<holder, made, late>>

\* Mutant: a checkpoint that is there does not stop the next step.
IsNext_AnyMissing(checkpoints, k) == checkpoints[k] = 0

\* The writes are made in the order of the steps.
IsNext(checkpoints, k) ==
    checkpoints[k] = 0 /\ \A j \in 1..(k - 1) : checkpoints[j] # 0

\* Mutant: beginAttempt renews the lease and records nothing.
Begun_NotRecorded(k) == operation

Begun(k) == [operation EXCEPT !.attempting = k]

\* beginAttempt, before the external write.  The configured assets are verified
\* first; a call that goes wrong stands for a refusal of theirs as well.
Begin(s) ==
    /\ At(s, "write")
    /\ \E k \in Steps :
          /\ IsNext(session[s].read.checkpoints, k)
          /\ Transition(s,
                 /\ operation.status = "OPEN"
                 /\ operation.checkpoints[k] = 0
                 /\ operation.attempting \in {0, k},
                 Begun(k),
                 Move(s, [session[s] EXCEPT !.pc = "create", !.step = k,
                                            !.read = Begun(k)]),
                 Goto(s, "release"))
    /\ UNCHANGED <<holder, made, late>>

\* The external write.  It needs no lease: a session whose lease is lost makes
\* it all the same.  A write that timed out may be carried out later.
Create(s) ==
    LET k == session[s].step
        written == [made EXCEPT ![k] = @ + 1]
    IN
    /\ At(s, "create")
    /\ \/ /\ made' = written /\ UNCHANGED late
          /\ Move(s, [session[s] EXCEPT !.pc = "checkpoint", !.id = made[k] + 1])
          /\ NoFault
       \/ /\ Fault
          /\ Goto(s, "uncertain")
          /\ \/ made' = written /\ UNCHANGED late
             \/ UNCHANGED made /\ late' = late \cup {k}
             \/ UNCHANGED <<made, late>>
    /\ UNCHANGED <<operation, holder>>

\* Meta carries out a late write, or it never does.
Settle(k) ==
    /\ k \in late
    /\ late' = late \ {k}
    /\ made' = [made EXCEPT ![k] = @ + 1] \/ UNCHANGED made
    /\ UNCHANGED <<operation, holder, session, faults>>

\* The SQL compares attempting_step with <>, which a null does not fail.
Checkpoint(s) ==
    LET k  == session[s].step
        id == session[s].id
        checkpointed == [operation EXCEPT !.checkpoints[k] = id, !.attempting = 0]
    IN
    /\ At(s, "checkpoint")
    /\ Transition(s,
           /\ operation.status = "OPEN"
           /\ operation.attempting \in {0, k}
           /\ operation.checkpoints[k] \in {0, id},
           checkpointed,
           Move(s, [session[s] EXCEPT !.pc = "write", !.read = checkpointed]),
           Goto(s, "uncertain"))
    /\ UNCHANGED <<holder, made, late>>

\* complete, with the ids the session has collected.
Complete(s) ==
    LET ids == session[s].read.checkpoints IN
    /\ At(s, "write")
    /\ \A k \in Steps : ids[k] # 0
    /\ Transition(s,
           /\ operation.status = "OPEN"
           /\ operation.attempting = 0
           /\ operation.checkpoints = ids,
           [operation EXCEPT !.status = "COMPLETED"],
           Goto(s, "release"), Goto(s, "release"))
    /\ UNCHANGED <<holder, made, late>>

\* The finally block of withExclusiveOperation ignores what goes wrong.
Release(s) ==
    LET released == holder' = IF holder = s THEN NoSession ELSE holder IN
    /\ At(s, "release")
    /\ Return(s)
    /\ (released /\ NoFault) \/ (Fault /\ UNCHANGED holder)
    /\ UNCHANGED <<operation, made, late>>

Crash(s) ==
    /\ ~At(s, "idle")
    /\ Fault
    /\ Return(s)
    /\ UNCHANGED <<operation, holder, made, late>>

\* The 300-second lease ends, under a session that still runs as a fault.
LeaseExpires ==
    /\ holder # NoSession
    /\ IF At(holder, "idle") THEN NoFault ELSE Fault
    /\ holder' = NoSession
    /\ UNCHANGED <<operation, session, made, late>>

------------------------------------------------------------------------------
(* The operator *)

\* A write of step k may still reach Meta.
InFlight(k) ==
    k \in late \/ \E s \in Sessions : At(s, "create") /\ session[s].step = k

\* resolve_meta_ad_operation_reconciliation.  The operator compares the record
\* with Ads Manager when no write of the step can still arrive, and tells what
\* is there.
Resolve ==
    LET k == operation.reconciling
        resolved == [operation EXCEPT !.status = "OPEN", !.attempting = 0,
                                      !.reconciling = 0]
    IN
    /\ operation.status = "RECONCILIATION_REQUIRED"
    /\ holder = NoSession
    /\ ~InFlight(k)
    /\ \/ \E id \in 1..made[k] :                           \* VERIFIED_CREATED
             /\ operation.checkpoints[k] \in {0, id}
             /\ operation' = [resolved EXCEPT !.checkpoints[k] = id]
       \/ /\ made[k] = 0 /\ operation.checkpoints[k] = 0   \* VERIFIED_NOT_CREATED
          /\ operation' = resolved
    /\ UNCHANGED <<holder, session, made, late, faults>>

------------------------------------------------------------------------------

SessionStep(s) ==
    \/ Acquire(s) \/ RequireReconciliation(s) \/ Begin(s) \/ Create(s)
    \/ Checkpoint(s) \/ Complete(s) \/ Release(s) \/ Crash(s)

Next ==
    \/ \E s \in Sessions : SessionStep(s)
    \/ \E k \in Steps : Settle(k)
    \/ LeaseExpires
    \/ Resolve

Spec == Init /\ [][Next]_vars

------------------------------------------------------------------------------
(* Properties *)

\* The record passes the checks of its table and of parseRecord, so that every
\* response can be read.
TypeOK ==
    /\ operation \in Records
    /\ operation.status = "RECONCILIATION_REQUIRED" <=> operation.reconciling # 0
    /\ operation.attempting # 0 => operation.status = "OPEN"
    /\ holder \in Sessions \cup {NoSession}
    /\ session \in [Sessions -> SessionStates]
    /\ made \in [Steps -> Nat]
    /\ late \subseteq Steps
    /\ faults \in Nat

\* A retry never repeats an external write, through crashes, lost responses,
\* leases lost in the middle of a write and late answers (beginAttempt before
\* the write, the check of attemptingStep in create).
AtMostOnce == \A k \in Steps : made[k] <= 1

\* The record and Meta agree: a checkpoint names an object that was made, and an
\* object without a checkpoint is one whose step is attempted or waits for the
\* operator, so that no draft object is lost sight of.
LedgerMatchesMeta ==
    \A k \in Steps :
        /\ operation.checkpoints[k] # 0 => operation.checkpoints[k] \in 1..made[k]
        /\ made[k] > 0 /\ operation.checkpoints[k] = 0 =>
              k \in {operation.attempting, operation.reconciling}

\* An object is made only when all it is built from has a checkpoint: the ids a
\* session passes on are those the record holds (create reads its checkpoints
\* from the last response).
BuiltOnCheckpoints ==
    \A k \in Steps : made[k] > 0 =>
        \A j \in 1..(k - 1) : operation.checkpoints[j] # 0

Promise == INSTANCE PausedDraft WITH closed <- operation.status = "COMPLETED"

\* The operation implements PausedDraft.
KeepsDraftPromise == Promise!Draft
==============================================================================
