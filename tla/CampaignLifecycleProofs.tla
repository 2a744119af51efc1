----------------------- MODULE CampaignLifecycleProofs -----------------------
(***************************************************************************)
(* What holds of CampaignLifecycle for every number of workers, limit,     *)
(* budget and bound.                                                       *)
(*                                                                         *)
(* The row, with leases that may expire under their workers: the types,    *)
(* the bookkeeping of retries, and the order of the stages.  The inductive *)
(* invariant ties each worker to the row.  What a worker may do next       *)
(* depends on its stage alone (PcOK); and as long as it holds the lease,   *)
(* the row is still where the worker found or put it (Agrees).  A worker   *)
(* that lost its lease may be anywhere: its transitions are refused.       *)
(*                                                                         *)
(* The lease: when none expires under a worker that still runs, a worker   *)
(* that acts holds the lease of the row, and the row names one worker.     *)
(*                                                                         *)
(* The copy generator: an attempt is counted at the renewal, before the    *)
(* call, so the calls made and the calls about to be made never exceed the *)
(* attempts in the row.  This needs no lease: workers that outlive theirs  *)
(* are among those about to call.                                          *)
(*                                                                         *)
(* The Meta objects: while leases outlive steps, one worker acts, and what *)
(* it knows of the run and the objects (Underway) stays true until it is   *)
(* done.  With it each step is a step of CampaignPromise.                  *)
(*                                                                         *)
(* The final snapshot: what a worker read of the run (Settling) is still   *)
(* so when it collects in FINALIZING, for no run is paused there.          *)
(***************************************************************************)
EXTENDS CampaignLifecycle, FiniteSets, FiniteSetTheorems, TLAPS

Later == {"AWAITING_ACTIVATION", "COLLECTING", "FINALIZING"}

\* The statuses a stage may commit, other than FAILED.
After(stage) ==
    CASE stage = "GENERATING" -> {"PREPARING"}
      [] stage = "PREPARING"  -> {"PREPARING", "AWAITING_ACTIVATION"}
      [] stage = "AWAITING_ACTIVATION" -> Later
      [] stage = "COLLECTING" -> {"COLLECTING", "FINALIZING"}
      [] OTHER -> {"FINALIZING", "COMPLETED"}

PcOK(r) ==
    /\ r.pc = "generate" => r.stage = "GENERATING"
    /\ r.pc \in {"prepare", "acquire", "write", "writing", "register"} =>
           r.stage = "PREPARING"
    /\ r.pc \in {"observe", "pauseBegin", "pause", "pauseVerify", "pauseRecord",
                 "collect"} => r.stage \in Later
    /\ r.pc \in {"ready", "activate", "undo", "undoVerify", "undoRecord", "poll",
                 "confirm"} => r.stage = "AWAITING_ACTIVATION"
    /\ r.pc = "check" => r.stage = "COLLECTING"
    /\ r.pc = "confirm" => r.goal \in {"AWAITING_ACTIVATION", "COLLECTING"}
    /\ r.pc = "commit" => r.goal = "FAILED" \/ r.goal \in After(r.stage)

\* A row that waits names a stage, and GENERATING is left exactly when its result
\* is stored.
RowOK(c) ==
    /\ c.status = "RETRY_WAIT" => c.retryFrom \in Stages
    /\ c.status \notin {"FAILED", "DELETED"} =>
          (c.materialized <=> StageOf(c) # "GENERATING")

\* The row and the worker that holds its lease.
Agrees(c, r) ==
    /\ c.status \in Processable
    /\ r.pc # "idle" => r.stage = TargetStage(c)
    /\ r.pc = "claimed" => ~Exhausted(c)
    /\ r.pc \notin {"idle", "claimed", "commit", "catch"} => c.status = r.stage
    /\ r.pc = "commit" /\ r.goal # "FAILED" => c.status = r.stage

WorkerInv(w) ==
    /\ PcOK(worker[w])
    /\ HoldsLease(row, w) => Agrees(row, worker[w])

\* A checkpoint is only added while one is missing.
DraftInv(w) == At(w, "writing") /\ holder = w => operation.checkpoints < 2

IInv ==
    /\ TypeOK
    /\ RowOK(row)
    /\ \A w \in Workers : WorkerInv(w) /\ DraftInv(w)

------------------------------------------------------------------------------
(* What a worker does to its own record. *)

\* The worker goes on in its stage, or stops.
Continues(w) ==
    \E r \in WorkerStates :
        /\ worker' = [worker EXCEPT ![w] = r]
        /\ PcOK(r)
        /\ r.pc \notin {"claimed", "generate"}
        /\ r.stage = worker[w].stage \/ r.pc = "idle"
        /\ r.pc = "writing" => operation'.checkpoints < 2

\* The operation changes only for the worker that holds its lease.
KeepsDraft(w) ==
    \A v \in Workers \ {w} :
        holder' = v => holder = v /\ operation'.checkpoints = operation.checkpoints

LEMMA FieldType ==
  ASSUME NEW r \in WorkerStates
  PROVE  /\ \A pc \in PCs : [r EXCEPT !.pc = pc] \in WorkerStates
         /\ \A i \in 1..3 : [r EXCEPT !.step = i] \in WorkerStates
         /\ \A b \in BOOLEAN : [r EXCEPT !.ok = b] \in WorkerStates
         /\ \A m \in Runs : [r EXCEPT !.run = m] \in WorkerStates
         /\ \A g \in Statuses : [r EXCEPT !.goal = g] \in WorkerStates
         /\ \A g \in Stages : [r EXCEPT !.stage = g] \in WorkerStates
         /\ \A n \in Nat : [r EXCEPT !.now = n] \in WorkerStates
         /\ \A n \in Nat : [r EXCEPT !.endsAt = n] \in WorkerStates
         /\ \A n \in 0..StageLimit : [r EXCEPT !.attempts = n] \in WorkerStates
  BY DEF WorkerStates

LEMMA RowFieldType ==
  ASSUME NEW c \in Rows
  PROVE  /\ \A s \in Statuses : [c EXCEPT !.status = s] \in Rows
         /\ \A s \in Stages \cup {"NONE"} : [c EXCEPT !.retryFrom = s] \in Rows
         /\ \A n \in 0..GenerationLimit : [c EXCEPT !.generationAttempts = n] \in Rows
         /\ \A n \in 0..StageLimit : [c EXCEPT !.stageAttempts = n] \in Rows
         /\ \A n \in Nat : [c EXCEPT !.endsAt = n] \in Rows
         /\ \A b \in BOOLEAN : [c EXCEPT !.due = b] \in Rows
         /\ \A b \in BOOLEAN : [c EXCEPT !.materialized = b] \in Rows
         /\ \A w \in Workers \cup {NoWorker} : [c EXCEPT !.token = w] \in Rows
         /\ \A l \in Leases : [c EXCEPT !.lease = l] \in Rows
  BY DEF Rows

LEMMA IdleType == IdleWorker \in WorkerStates /\ PcOK(IdleWorker)
  BY LimitAssumption DEF IdleWorker, WorkerStates, PCs, Stages, Runs, NoRun, RunStatuses,
     Statuses, Processable, PcOK

\* The catch block is reached from every step.
LEMMA ThrowContinues ==
  ASSUME TypeOK, NEW w \in Workers, NEW err \in {"transient", "permanent"},
         Throw(w, err)
  PROVE  Continues(w)
<1> DEFINE r == [IdleWorker EXCEPT !.pc = "catch", !.stage = worker[w].stage,
                                   !.attempts = worker[w].attempts, !.err = err]
<1>1. worker[w] \in WorkerStates
  BY DEF TypeOK
<1>2. r \in WorkerStates
  BY <1>1, IdleType DEF WorkerStates, PCs
<1>3. PcOK(r) /\ r.pc \notin {"claimed", "generate", "writing"} /\ r.stage = worker[w].stage
  BY <1>1, IdleType DEF PcOK, WorkerStates
<1> QED BY <1>2, <1>3 DEF Continues, Throw

LEMMA CommitToContinues ==
  ASSUME TypeOK, NEW w \in Workers, NEW endsAt \in Nat,
         NEW goal \in After(worker[w].stage) \cup {"FAILED"},
         CommitTo(w, goal, endsAt)
  PROVE  Continues(w)
<1> DEFINE r == [IdleWorker EXCEPT !.pc = "commit", !.stage = worker[w].stage,
                                   !.attempts = worker[w].attempts,
                                   !.endsAt = endsAt, !.goal = goal]
<1>1. worker[w] \in WorkerStates
  BY DEF TypeOK
<1>2. goal \in Statuses
  BY <1>1 DEF After, Later, Statuses, Processable, Stages, WorkerStates
<1>3. r \in WorkerStates
  BY <1>1, <1>2, IdleType DEF WorkerStates, PCs
<1>4. PcOK(r) /\ r.pc \notin {"claimed", "generate", "writing"} /\ r.stage = worker[w].stage
  BY <1>1, IdleType DEF PcOK, WorkerStates
<1> QED BY <1>3, <1>4 DEF Continues, CommitTo

\* A worker that keeps its stage and goes on elsewhere in it.
LEMMA MoveContinues ==
  ASSUME TypeOK, NEW w \in Workers, NEW r \in WorkerStates,
         worker' = [worker EXCEPT ![w] = r], PcOK(r),
         r.pc \notin {"claimed", "generate"},
         r.stage = worker[w].stage,
         r.pc = "writing" => operation'.checkpoints < 2
  PROVE  Continues(w)
  BY DEF Continues

LEMMA GotoContinues ==
  ASSUME TypeOK, NEW w \in Workers,
         NEW pc \in PCs \ {"claimed", "generate", "confirm", "commit"},
         Goto(w, pc), PcOK([worker[w] EXCEPT !.pc = pc]),
         pc = "writing" => operation'.checkpoints < 2
  PROVE  Continues(w)
<1> DEFINE r == [worker[w] EXCEPT !.pc = pc]
<1>1. worker[w] \in WorkerStates
  BY DEF TypeOK
<1>2. r \in WorkerStates /\ r.pc = pc /\ r.stage = worker[w].stage
  BY <1>1 DEF WorkerStates
<1>3. worker' = [worker EXCEPT ![w] = r]
  BY <1>1 DEF Goto
<1> QED BY <1>2, <1>3, MoveContinues

LEMMA LoopContinues ==
  ASSUME TypeOK, NEW w \in Workers, NEW pc \in {"activate", "undo", "pause"},
         Loop(w, pc), PcOK([worker[w] EXCEPT !.pc = pc])
  PROVE  Continues(w)
<1> DEFINE r == [worker[w] EXCEPT !.pc = pc, !.step = 1, !.ok = TRUE]
<1>1. worker[w] \in WorkerStates
  BY DEF TypeOK
<1>2. r \in WorkerStates
  <2> DEFINE r1 == [worker[w] EXCEPT !.pc = pc]
             r2 == [r1 EXCEPT !.step = 1]
  <2>1. r1 \in WorkerStates
    BY <1>1, FieldType DEF PCs
  <2>2. r2 \in WorkerStates
    <3> HIDE DEF r1
    <3>1. 1 \in 1..3
      OBVIOUS
    <3> QED BY <2>1, <3>1, FieldType, Zenon
  <2>3. [r2 EXCEPT !.ok = TRUE] \in WorkerStates
    <3> HIDE DEF r2
    <3> QED BY <2>2, FieldType, Zenon
  <2> QED BY <2>3
<1>3. PcOK(r) /\ r.pc = pc /\ r.stage = worker[w].stage
  BY <1>1 DEF PcOK, WorkerStates
<1>4. worker' = [worker EXCEPT ![w] = r]
  BY <1>1 DEF Loop
<1> QED BY <1>2, <1>3, <1>4, MoveContinues

\* A step that leaves the row alone keeps what is known of the workers: the
\* one that moves stays in its stage, or gives up.
LEMMA ContinuesInv ==
  ASSUME IInv, NEW w \in Workers, Continues(w), UNCHANGED row, KeepsDraft(w),
         \/ Acting(w)
         \/ worker'[w].pc = "idle"
         \/ worker'[w].pc = "catch" /\ ~At(w, "idle")
  PROVE  /\ worker' \in [Workers -> WorkerStates]
         /\ \A v \in Workers : WorkerInv(v)' /\ DraftInv(v)'
<1>1. PICK r \in WorkerStates :
        /\ worker' = [worker EXCEPT ![w] = r]
        /\ PcOK(r) /\ r.pc \notin {"claimed", "generate"}
        /\ r.stage = worker[w].stage \/ r.pc = "idle"
        /\ r.pc = "writing" => operation'.checkpoints < 2
  BY DEF Continues
<1>2. worker \in [Workers -> WorkerStates]
  BY DEF IInv, TypeOK
<1>3. worker' \in [Workers -> WorkerStates] /\ worker'[w] = r
  BY <1>1, <1>2
<1>4. ASSUME NEW v \in Workers PROVE WorkerInv(v)'
  <2>1. CASE v # w
    <3>1. worker'[v] = worker[v]
      BY <1>1, <1>2, <2>1
    <3> QED BY <3>1 DEF IInv, WorkerInv, HoldsLease
  <2>2. CASE v = w
    <3>1. ASSUME HoldsLease(row, w) PROVE Agrees(row, r)
      <4>1. Agrees(row, worker[w])
        BY <3>1 DEF IInv, WorkerInv
      <4>2. CASE r.pc = "idle" \/ (r.pc = "catch" /\ ~At(w, "idle"))
        BY <1>1, <4>1, <4>2 DEF Agrees, At
      <4>3. CASE Acting(w) /\ r.pc # "idle"
        BY <4>1, <4>3, <1>1 DEF Agrees, Acting
      <4> QED BY <4>2, <4>3, <1>3
    <3> QED BY <1>1, <1>3, <2>2, <3>1 DEF WorkerInv, HoldsLease
  <2> QED BY <2>1, <2>2
<1>5. ASSUME NEW v \in Workers PROVE DraftInv(v)'
  <2>1. CASE v # w
    <3>1. worker'[v] = worker[v]
      BY <1>1, <1>2, <2>1
    <3>2. DraftInv(v)
      BY DEF IInv
    <3> QED BY <2>1, <3>1, <3>2 DEF DraftInv, At, KeepsDraft
  <2>2. CASE v = w
    BY <1>1, <1>3, <2>2 DEF DraftInv, At
  <2> QED BY <2>1, <2>2
<1> QED BY <1>3, <1>4, <1>5

------------------------------------------------------------------------------
(* What the RPCs do to the row. *)

\* A claim resumes the stage the campaign is at.
LEMMA TargetStageIsStageOf ==
  ASSUME NEW c \in Rows, RowOK(c), c.status \in Processable
  PROVE  TargetStage(c) = StageOf(c) /\ TargetStage(c) \in Stages
  BY DEF Rows, RowOK, StageOf, TargetStage, Processable, Stages, Statuses

LEMMA ClaimedType ==
  ASSUME NEW c \in Rows, NEW w \in Workers
  PROVE  /\ Claimed(c, w) \in Rows
         /\ RowOK(c) => RowOK(Claimed(c, w))
         /\ StageOf(Claimed(c, w)) = StageOf(c)
         /\ Claimed(c, w).status = c.status
         /\ TargetStage(Claimed(c, w)) = TargetStage(c)
         /\ Exhausted(Claimed(c, w)) <=> Exhausted(c)
  BY DEF Rows, Claimed, RowOK, StageOf, TargetStage, Exhausted, Leases

LEMMA RenewedType ==
  ASSUME NEW c \in Rows, NEW t \in Stages, c.stageAttempts < StageLimit,
         t = "GENERATING" => c.generationAttempts < GenerationLimit
  PROVE  Renewed(c, t) \in Rows
<1> DEFINE g == IF t = "GENERATING" THEN c.generationAttempts + 1
                ELSE c.generationAttempts
<1>1. /\ g \in 0..GenerationLimit
      /\ c.stageAttempts + 1 \in 0..StageLimit
      /\ t \in Statuses
  BY LimitAssumption DEF Rows, Statuses, Processable
<1>2. Renewed(c, t) = [c EXCEPT !.status = t, !.generationAttempts = g,
                                !.stageAttempts = c.stageAttempts + 1,
                                !.retryFrom = "NONE"]
  BY DEF Renewed
<1> DEFINE c1 == [c EXCEPT !.status = t, !.generationAttempts = g]
           c2 == [c1 EXCEPT !.stageAttempts = c.stageAttempts + 1,
                            !.retryFrom = "NONE"]
<1> HIDE DEF g
<1>3. c1 \in Rows
  BY <1>1, RowFieldType
<1>4. c2 \in Rows
  <2> HIDE DEF c1
  <2> QED BY <1>1, <1>3, RowFieldType
<1> QED BY <1>2, <1>4

\* A renewal moves the row into its stage, which is where it was.
LEMMA RenewedRow ==
  ASSUME NEW c \in Rows, RowOK(c), c.status \in Processable, ~Exhausted(c)
  PROVE  /\ Renewed(c, TargetStage(c)) \in Rows
         /\ RowOK(Renewed(c, TargetStage(c)))
         /\ StageOf(Renewed(c, TargetStage(c))) = StageOf(c)
         /\ Renewed(c, TargetStage(c)).status = TargetStage(c)
         /\ c.stageAttempts + 1 \in 0..StageLimit
<1>1. PICK t \in Stages : t = TargetStage(c) /\ t = StageOf(c)
  BY TargetStageIsStageOf
<1>2. c.stageAttempts < StageLimit
  BY LimitAssumption DEF Exhausted, Rows
<1>3. t = "GENERATING" => c.generationAttempts < GenerationLimit
  BY <1>1, LimitAssumption DEF Exhausted, Rows
<1>4. Renewed(c, t) \in Rows
  BY <1>2, <1>3, RenewedType
<1>5. /\ Renewed(c, t).status = t
      /\ Renewed(c, t).materialized = c.materialized
  BY DEF Rows, Renewed
<1>6. StageOf(Renewed(c, t)) = t
  BY <1>5 DEF StageOf, Stages
<1>7. c.materialized <=> t # "GENERATING"
  BY <1>1 DEF RowOK, Processable, Stages
<1>8. RowOK(Renewed(c, t))
  BY <1>5, <1>6, <1>7 DEF RowOK, Stages
<1>9. c.stageAttempts + 1 \in 0..StageLimit
  BY <1>2, LimitAssumption DEF Rows
<1> QED BY <1>1, <1>4, <1>5, <1>6, <1>8, <1>9

LEMMA TransitionedType ==
  ASSUME NEW c \in Rows, NEW status \in Statuses, NEW spec \in BOOLEAN,
         NEW endsAt \in Nat, NEW due \in BOOLEAN,
         status = "RETRY_WAIT" => c.status \in Stages
  PROVE  Transitioned(c, status, spec, endsAt, due) \in Rows
<1> DEFINE e == IF endsAt = 0 THEN c.endsAt ELSE endsAt
           a == IF status \in {"RETRY_WAIT", "FAILED"} THEN c.stageAttempts ELSE 0
           f == IF status = "RETRY_WAIT" THEN c.status ELSE "NONE"
           m == c.materialized \/ spec
<1>1. e \in Nat /\ a \in 0..StageLimit /\ f \in Stages \cup {"NONE"}
  BY LimitAssumption DEF Rows, Statuses, Processable
<1>2. m \in BOOLEAN /\ due \in BOOLEAN
  OBVIOUS
<1>3. Transitioned(c, status, spec, endsAt, due) =
        [c EXCEPT !.status = status, !.materialized = m, !.endsAt = e,
                  !.due = due, !.stageAttempts = a, !.retryFrom = f,
                  !.token = NoWorker, !.lease = "none"]
  BY DEF Transitioned
<1> DEFINE c1 == [c EXCEPT !.status = status, !.materialized = m, !.endsAt = e]
           c2 == [c1 EXCEPT !.due = due, !.stageAttempts = a, !.retryFrom = f]
           c3 == [c2 EXCEPT !.token = NoWorker, !.lease = "none"]
<1> HIDE DEF e, a, f, m
<1>4. c1 \in Rows
  BY <1>1, <1>2, RowFieldType
<1>5. c2 \in Rows
  <2> HIDE DEF c1
  <2> QED BY <1>1, <1>4, RowFieldType
<1>6. c3 \in Rows
  <2> HIDE DEF c2
  <2> QED BY <1>5, RowFieldType DEF Leases
<1> QED BY <1>3, <1>6

LEMMA TransitionedFields ==
  ASSUME NEW c \in Rows, NEW status \in Statuses, NEW spec \in BOOLEAN,
         NEW endsAt \in Nat, NEW due \in BOOLEAN
  PROVE  LET t == Transitioned(c, status, spec, endsAt, due) IN
         /\ t.status = status
         /\ t.materialized <=> c.materialized \/ spec
         /\ t.retryFrom = IF status = "RETRY_WAIT" THEN c.status ELSE "NONE"
         /\ t.lease = "none"
  BY DEF Transitioned, Rows

\* A stage or an end that a transition records is one that follows the stage
\* the campaign is at.
LEMMA TransitionedRow ==
  ASSUME NEW c \in Rows, RowOK(c), c.status \in Processable,
         NEW status \in Statuses, NEW spec \in BOOLEAN,
         NEW endsAt \in Nat, NEW due \in BOOLEAN,
         \/ status = "FAILED" /\ ~spec
         \/ status = "RETRY_WAIT" /\ c.status \in Stages /\ ~spec
         \/ /\ c.status \in Stages /\ status \in After(c.status)
            /\ spec <=> c.status = "GENERATING"
  PROVE  LET t == Transitioned(c, status, spec, endsAt, due) IN
         /\ t \in Rows
         /\ RowOK(t)
         /\ t.lease = "none"
         /\ StageOf(t) = StageOf(c) \/ StageOf(t) \in Abstract!Follows[StageOf(c)]
<1> DEFINE t == Transitioned(c, status, spec, endsAt, due)
<1>1. /\ t.status = status
      /\ t.materialized <=> c.materialized \/ spec
      /\ t.retryFrom = IF status = "RETRY_WAIT" THEN c.status ELSE "NONE"
      /\ t.lease = "none"
  BY TransitionedFields
<1>2. t \in Rows
  <2>1. status = "RETRY_WAIT" => c.status \in Stages
    BY DEF After, Later
  <2> QED BY <2>1, TransitionedType
<1>3. StageOf(c) \in Stages
  BY DEF RowOK, StageOf, Processable, Stages
<1> HIDE DEF t
<1>4. CASE status = "FAILED" /\ ~spec
  <2>1. StageOf(t) = "FAILED" /\ RowOK(t)
    BY <1>1, <1>4 DEF StageOf, RowOK
  <2>2. "FAILED" \in Abstract!Follows[StageOf(c)]
    BY <1>3 DEF Abstract!Follows, Abstract!Working, Abstract!Ended, Stages
  <2> QED BY <1>1, <1>2, <2>1, <2>2 DEF t
<1>5. CASE status = "RETRY_WAIT" /\ c.status \in Stages /\ ~spec
  <2>1. StageOf(c) = c.status /\ StageOf(t) = c.status
    BY <1>1, <1>5 DEF StageOf, Stages
  <2>2. RowOK(t)
    BY <1>1, <1>5, <2>1 DEF RowOK, Stages
  <2> QED BY <1>1, <1>2, <2>1, <2>2 DEF t
<1>6. CASE /\ c.status \in Stages /\ status \in After(c.status)
           /\ spec <=> c.status = "GENERATING"
  <2>1. /\ StageOf(c) = c.status /\ StageOf(t) = status
        /\ status \notin {"GENERATING", "RETRY_WAIT", "FAILED", "DELETED"}
    BY <1>1, <1>6 DEF StageOf, Stages, After, Later
  <2>2. c.materialized <=> c.status # "GENERATING"
    BY <1>6, <2>1 DEF RowOK, Stages
  <2>3. RowOK(t)
    BY <1>1, <1>6, <2>1, <2>2 DEF RowOK
  <2>4. status = c.status \/ status \in Abstract!Follows[c.status]
    BY <1>6 DEF After, Later, Stages, Abstract!Follows, Abstract!Working,
                Abstract!Ended
  <2> QED BY <1>1, <1>2, <2>1, <2>3, <2>4 DEF t
<1> QED BY <1>4, <1>5, <1>6
------------------------------------------------------------------------------
(* The steps of a worker that leave the row alone. *)

StoreOK ==
    /\ run \in Runs
    /\ operation \in Operations
    /\ holder \in Workers \cup {NoWorker}
    /\ objects \in [Objects -> Configured]
    /\ finals \in BOOLEAN
    /\ deletion \in {"idle", "checked"}
    /\ clock \in Nat
    /\ faults \in Nat
    /\ generations \in Nat

Moves(w) ==
    /\ UNCHANGED row
    /\ StoreOK'
    /\ KeepsDraft(w)
    /\ Continues(w)
    /\ \/ Acting(w)
       \/ worker'[w].pc = "idle"
       \/ worker'[w].pc = "catch" /\ ~At(w, "idle")

LEMMA FaultType ==
  ASSUME TypeOK, Fault \/ NoFault
  PROVE  faults' \in Nat
  BY DEF TypeOK, Fault, NoFault

LEMMA WorkerFields ==
  ASSUME TypeOK, NEW w \in Workers
  PROVE  /\ worker[w] \in WorkerStates
         /\ worker[w].endsAt \in Nat
         /\ worker[w].now \in Nat
         /\ worker[w].run.endsAt \in Nat
         /\ worker[w].stage \in Stages
         /\ run.endsAt \in Nat
         /\ worker[w].goal \in Statuses
         /\ worker[w].attempts \in 0..StageLimit
         /\ worker[w].step \in 1..3
  BY DEF TypeOK, WorkerStates, Runs

LEMMA GenerateMoves ==
  ASSUME IInv, NEW w \in Workers, Generate(w)
  PROVE  Moves(w)
<1>1. TypeOK /\ PcOK(worker[w])
  BY DEF IInv, WorkerInv
<1>2. Acting(w) /\ worker[w].stage = "GENERATING"
  BY <1>1 DEF Generate, At, PcOK, Acting
<1>3. Continues(w)
  <2>1. CASE CommitTo(w, "PREPARING", 0)
    BY <1>1, <1>2, <2>1, CommitToContinues DEF After
  <2>2. CASE \E err \in {"transient", "permanent"} : Throw(w, err)
    BY <1>1, <2>2, ThrowContinues
  <2> QED BY <2>1, <2>2 DEF Generate
<1>4. StoreOK'
  BY <1>1, FaultType DEF Generate, TypeOK, StoreOK, metaVars
<1>5. KeepsDraft(w)
  BY DEF KeepsDraft, Generate, metaVars
<1> QED BY <1>2, <1>3, <1>4, <1>5 DEF Moves, Generate

LEMMA PrepareMoves ==
  ASSUME IInv, NEW w \in Workers, Prepare(w)
  PROVE  Moves(w)
<1>1. TypeOK /\ PcOK(worker[w])
  BY DEF IInv, WorkerInv
<1>2. Acting(w) /\ worker[w].stage = "PREPARING"
  BY <1>1 DEF Prepare, At, PcOK, Acting
<1>3. Continues(w)
  <2>1. CASE CommitTo(w, "AWAITING_ACTIVATION", run.endsAt)
    BY <1>1, <1>2, <2>1, CommitToContinues, WorkerFields DEF After
  <2>2. CASE CommitTo(w, "PREPARING", worker[w].now + Duration)
    <3>1. worker[w].now + Duration \in Nat
      BY <1>1, WorkerFields, BudgetAssumption
    <3> QED BY <1>1, <1>2, <2>2, <3>1, CommitToContinues DEF After
  <2>3. CASE Goto(w, "acquire")
    <3>1. PcOK([worker[w] EXCEPT !.pc = "acquire"])
      BY <1>1, <1>2, WorkerFields DEF PcOK, WorkerStates
    <3> QED BY <1>1, <2>3, <3>1, GotoContinues DEF PCs
  <2>4. CASE \E err \in {"transient", "permanent"} : Throw(w, err)
    BY <1>1, <2>4, ThrowContinues
  <2> QED BY <2>1, <2>2, <2>3, <2>4 DEF Prepare
<1>4. StoreOK'
  BY <1>1, FaultType DEF Prepare, TypeOK, StoreOK, metaVars
<1>5. KeepsDraft(w)
  BY DEF KeepsDraft, Prepare, metaVars
<1> QED BY <1>2, <1>3, <1>4, <1>5 DEF Moves, Prepare

LEMMA AcquireOperationMoves ==
  ASSUME IInv, NEW w \in Workers, AcquireOperation(w)
  PROVE  Moves(w)
<1>1. TypeOK /\ PcOK(worker[w])
  BY DEF IInv, WorkerInv
<1>2. Acting(w) /\ worker[w].stage = "PREPARING"
  BY <1>1 DEF AcquireOperation, At, PcOK, Acting
<1>3. Continues(w)
  <2>1. ASSUME NEW pc \in {"register", "write"}, Goto(w, pc)
        PROVE  Continues(w)
    <3>1. PcOK([worker[w] EXCEPT !.pc = pc])
      BY <1>1, <1>2, WorkerFields DEF PcOK, WorkerStates
    <3> QED BY <1>1, <2>1, <3>1, GotoContinues DEF PCs
  <2>2. ASSUME NEW err \in {"transient", "permanent"}, Throw(w, err)
        PROVE  Continues(w)
    BY <1>1, <2>2, ThrowContinues
  <2> QED BY <2>1, <2>2 DEF AcquireOperation
<1>4. operation' \in Operations
  BY <1>1 DEF AcquireOperation, TypeOK, Operations, OperationStatuses, draftVars
<1>5. holder' \in Workers \cup {NoWorker}
  BY <1>1 DEF AcquireOperation, TypeOK, draftVars
<1>6. faults' \in Nat
  BY <1>1, FaultType DEF AcquireOperation
<1>7. StoreOK'
  BY <1>1, <1>4, <1>5, <1>6 DEF AcquireOperation, TypeOK, StoreOK
<1>8. KeepsDraft(w)
  BY <1>1 DEF KeepsDraft, AcquireOperation, draftVars, TypeOK, Operations
<1> QED BY <1>2, <1>3, <1>7, <1>8 DEF Moves, AcquireOperation

LEMMA BeginOrCompleteMoves ==
  ASSUME IInv, NEW w \in Workers, BeginOrComplete(w)
  PROVE  Moves(w)
<1>1. TypeOK /\ PcOK(worker[w])
  BY DEF IInv, WorkerInv
<1>2. Acting(w) /\ worker[w].stage = "PREPARING"
  BY <1>1 DEF BeginOrComplete, At, PcOK, Acting
<1>3. Continues(w)
  <2>1. ASSUME NEW pc \in {"register", "writing"}, Goto(w, pc),
               pc = "writing" => operation'.checkpoints < 2
        PROVE  Continues(w)
    <3>1. PcOK([worker[w] EXCEPT !.pc = pc])
      BY <1>1, <1>2, WorkerFields DEF PcOK, WorkerStates
    <3> QED BY <1>1, <2>1, <3>1, GotoContinues DEF PCs
  <2>2. ASSUME NEW err \in {"transient", "permanent"}, Throw(w, err)
        PROVE  Continues(w)
    BY <1>1, <2>2, ThrowContinues
  <2>3. CASE /\ holder = w /\ operation.checkpoints < 2
             /\ operation' = [operation EXCEPT !.attempting = TRUE]
             /\ Goto(w, "writing")
    BY <1>1, <2>1, <2>3 DEF TypeOK, Operations
  <2>4. CASE Goto(w, "register")
    BY <2>1, <2>4
  <2> QED BY <2>2, <2>3, <2>4 DEF BeginOrComplete
<1>4. operation' \in Operations
  BY <1>1 DEF BeginOrComplete, TypeOK, Operations, OperationStatuses, draftVars
<1>5. holder' \in Workers \cup {NoWorker}
  BY <1>1 DEF BeginOrComplete, TypeOK, draftVars, Release
<1>6. faults' \in Nat
  BY <1>1, FaultType DEF BeginOrComplete
<1>7. StoreOK'
  BY <1>1, <1>4, <1>5, <1>6 DEF BeginOrComplete, TypeOK, StoreOK
<1>8. KeepsDraft(w)
  BY <1>1, NoWorkerAssumption DEF KeepsDraft, BeginOrComplete, draftVars, TypeOK, Operations, Release
<1> QED BY <1>2, <1>3, <1>7, <1>8 DEF Moves, BeginOrComplete

LEMMA CreateObjectMoves ==
  ASSUME IInv, NEW w \in Workers, CreateObject(w)
  PROVE  Moves(w)
<1>1. TypeOK /\ PcOK(worker[w])
  BY DEF IInv, WorkerInv
<1>2. Acting(w) /\ worker[w].stage = "PREPARING"
  BY <1>1 DEF CreateObject, At, PcOK, Acting
<1>3. Continues(w)
  <2>1. ASSUME NEW pc \in {"write"}, Goto(w, pc)
        PROVE  Continues(w)
    <3>1. PcOK([worker[w] EXCEPT !.pc = pc])
      BY <1>1, <1>2, WorkerFields DEF PcOK, WorkerStates
    <3> QED BY <1>1, <2>1, <3>1, GotoContinues DEF PCs
  <2>2. ASSUME NEW err \in {"transient", "permanent"}, Throw(w, err)
        PROVE  Continues(w)
    BY <1>1, <2>2, ThrowContinues
  <2> QED BY <2>1, <2>2 DEF CreateObject
<1>4. operation' \in Operations
  <2>1. holder = w => operation.checkpoints + 1 \in 0..2
    BY <1>1 DEF IInv, DraftInv, CreateObject, TypeOK, Operations
  <2>2. worker[w].endsAt \in Nat
    BY <1>1, WorkerFields
  <2> QED BY <1>1, <2>1, <2>2
        DEF CreateObject, TypeOK, Operations, OperationStatuses, draftVars
<1>5. holder' \in Workers \cup {NoWorker}
  BY <1>1 DEF CreateObject, TypeOK, draftVars, Release
<1>6. faults' \in Nat
  BY <1>1, FaultType DEF CreateObject
<1>7. StoreOK'
  BY <1>1, <1>4, <1>5, <1>6 DEF CreateObject, TypeOK, StoreOK
<1>8. KeepsDraft(w)
  BY <1>1, NoWorkerAssumption
     DEF KeepsDraft, CreateObject, draftVars, TypeOK, Operations, Release
<1> QED BY <1>2, <1>3, <1>7, <1>8 DEF Moves, CreateObject

LEMMA RegisterRunMoves ==
  ASSUME IInv, NEW w \in Workers, RegisterRun(w)
  PROVE  Moves(w)
<1>1. TypeOK /\ PcOK(worker[w])
  BY DEF IInv, WorkerInv
<1>2. Acting(w) /\ worker[w].stage = "PREPARING"
  BY <1>1 DEF RegisterRun, At, PcOK, Acting
<1> DEFINE registered == IF run.status = "NONE"
                         THEN RegisteredRun(worker[w].endsAt) ELSE run
<1>3. registered \in Runs /\ registered.endsAt \in Nat
  BY <1>1, WorkerFields DEF TypeOK, Runs, RegisteredRun, RunStatuses
<1>4. Continues(w)
  <2>1. CASE CommitTo(w, "AWAITING_ACTIVATION", registered.endsAt)
    <3> HIDE DEF registered
    <3> QED BY <1>1, <1>2, <1>3, <2>1, CommitToContinues DEF After
  <2>2. CASE Throw(w, "transient")
    BY <1>1, <2>2, ThrowContinues
  <2> QED BY <2>1, <2>2 DEF RegisterRun
<1>5. run' \in Runs
  BY <1>1, <1>3 DEF RegisterRun, TypeOK
<1>6. StoreOK'
  BY <1>1, <1>5, FaultType DEF RegisterRun, TypeOK, StoreOK, draftVars
<1>7. KeepsDraft(w)
  BY DEF KeepsDraft, RegisterRun, draftVars
<1> QED BY <1>2, <1>4, <1>6, <1>7 DEF Moves, RegisterRun

LEMMA ObserveMoves ==
  ASSUME IInv, NEW w \in Workers, Observe(w)
  PROVE  Moves(w)
<1>1. TypeOK /\ PcOK(worker[w])
  BY DEF IInv, WorkerInv
<1>2. Acting(w) /\ worker[w].stage \in Later
  BY <1>1 DEF Observe, At, PcOK, Acting
<1>3. Continues(w)
  <2>1. ASSUME NEW pc \in {"check", "collect", "pauseBegin", "ready", "poll"},
               worker' = [worker EXCEPT ![w].run = run, ![w].pc = pc],
               pc = "check" => worker[w].stage = "COLLECTING",
               pc \in {"ready", "poll"} => worker[w].stage = "AWAITING_ACTIVATION"
        PROVE  Continues(w)
    <3> DEFINE r1 == [worker[w] EXCEPT !.run = run]
               r  == [r1 EXCEPT !.pc = pc]
    <3>1. r1 \in WorkerStates
      BY <1>1, FieldType, WorkerFields DEF TypeOK
    <3>2. r \in WorkerStates
      <4> HIDE DEF r1
      <4> QED BY <3>1, FieldType DEF PCs
    <3>3. r.pc = pc /\ r.stage = worker[w].stage
      BY <1>1, WorkerFields DEF WorkerStates
    <3>4. PcOK(r)
      <4> HIDE DEF r
      <4> QED BY <1>2, <2>1, <3>3 DEF PcOK
    <3>5. worker' = [worker EXCEPT ![w] = r]
      BY <1>1, <2>1 DEF TypeOK
    <3> HIDE DEF r
    <3> QED BY <1>1, <3>2, <3>3, <3>4, <3>5, MoveContinues
  <2>2. ASSUME NEW err \in {"transient", "permanent"}, Throw(w, err)
        PROVE  Continues(w)
    BY <1>1, <2>2, ThrowContinues
  <2>3. ASSUME NEW goal \in {"AWAITING_ACTIVATION", "FINALIZING"},
               worker[w].stage = "AWAITING_ACTIVATION", CommitTo(w, goal, 0)
        PROVE  Continues(w)
    BY <1>1, <2>3, CommitToContinues DEF After, Later
  <2> QED BY <2>1, <2>2, <2>3 DEF Observe
<1>4. StoreOK'
  BY <1>1, FaultType DEF Observe, TypeOK, StoreOK, metaVars
<1>5. KeepsDraft(w)
  BY DEF KeepsDraft, Observe, metaVars
<1> QED BY <1>2, <1>3, <1>4, <1>5 DEF Moves, Observe

LEMMA ReadyMoves ==
  ASSUME IInv, NEW w \in Workers, Ready(w)
  PROVE  Moves(w)
<1>1. TypeOK /\ PcOK(worker[w])
  BY DEF IInv, WorkerInv
<1>2. Acting(w) /\ worker[w].stage = "AWAITING_ACTIVATION"
  BY <1>1 DEF Ready, At, PcOK, Acting
<1>3. Continues(w)
  <2>1. CASE Loop(w, "activate")
    <3>1. PcOK([worker[w] EXCEPT !.pc = "activate"])
      BY <1>1, <1>2, WorkerFields DEF PcOK, WorkerStates
    <3> QED BY <1>1, <2>1, <3>1, LoopContinues
  <2>2. ASSUME NEW err \in {"transient", "permanent"}, Throw(w, err)
        PROVE  Continues(w)
    BY <1>1, <2>2, ThrowContinues
  <2> QED BY <2>1, <2>2 DEF Ready, UpdateRun
<1>4. run' \in Runs
  BY <1>1, WorkerFields DEF Ready, TypeOK, UpdateRun, Runs, RunStatuses
<1>5. faults' \in Nat
  BY <1>1, FaultType DEF Ready, UpdateRun
<1>6. StoreOK'
  BY <1>1, <1>4, <1>5 DEF Ready, TypeOK, StoreOK, draftVars
<1>7. KeepsDraft(w)
  BY DEF KeepsDraft, Ready, draftVars
<1> QED BY <1>2, <1>3, <1>6, <1>7 DEF Moves, Ready

LEMMA UndoRecordMoves ==
  ASSUME IInv, NEW w \in Workers, UndoRecord(w)
  PROVE  Moves(w)
<1>1. TypeOK /\ PcOK(worker[w])
  BY DEF IInv, WorkerInv
<1>2. Acting(w) /\ worker[w].stage = "AWAITING_ACTIVATION"
  BY <1>1 DEF UndoRecord, At, PcOK, Acting
<1>3. Continues(w)
  <2>1. ASSUME NEW err \in {"transient", "permanent"}, Throw(w, err)
        PROVE  Continues(w)
    BY <1>1, <2>1, ThrowContinues
  <2> QED BY <2>1 DEF UndoRecord, UpdateRun
<1>4. run' \in Runs
  BY <1>1, WorkerFields DEF UndoRecord, TypeOK, UpdateRun, Runs, RunStatuses
<1>5. faults' \in Nat
  BY <1>1, FaultType DEF UndoRecord, UpdateRun
<1>6. StoreOK'
  BY <1>1, <1>4, <1>5 DEF UndoRecord, TypeOK, StoreOK, draftVars
<1>7. KeepsDraft(w)
  BY DEF KeepsDraft, UndoRecord, draftVars
<1> QED BY <1>2, <1>3, <1>6, <1>7 DEF Moves, UndoRecord

LEMMA PauseBeginMoves ==
  ASSUME IInv, NEW w \in Workers, PauseBegin(w)
  PROVE  Moves(w)
<1>1. TypeOK /\ PcOK(worker[w])
  BY DEF IInv, WorkerInv
<1>2. Acting(w) /\ worker[w].stage \in Later
  BY <1>1 DEF PauseBegin, At, PcOK, Acting
<1>3. Continues(w)
  <2>1. CASE Loop(w, "pause")
    <3>1. PcOK([worker[w] EXCEPT !.pc = "pause"])
      BY <1>1, <1>2, WorkerFields DEF PcOK, WorkerStates
    <3> QED BY <1>1, <2>1, <3>1, LoopContinues
  <2>2. ASSUME NEW err \in {"transient", "permanent"}, Throw(w, err)
        PROVE  Continues(w)
    BY <1>1, <2>2, ThrowContinues
  <2> QED BY <2>1, <2>2 DEF PauseBegin, UpdateRun
<1>4. run' \in Runs
  BY <1>1, WorkerFields DEF PauseBegin, TypeOK, UpdateRun, Runs, RunStatuses
<1>5. faults' \in Nat
  BY <1>1, FaultType DEF PauseBegin, UpdateRun
<1>6. StoreOK'
  BY <1>1, <1>4, <1>5 DEF PauseBegin, TypeOK, StoreOK, draftVars
<1>7. KeepsDraft(w)
  BY DEF KeepsDraft, PauseBegin, draftVars
<1> QED BY <1>2, <1>3, <1>6, <1>7 DEF Moves, PauseBegin

LEMMA PauseRecordMoves ==
  ASSUME IInv, NEW w \in Workers, PauseRecord(w)
  PROVE  Moves(w)
<1>1. TypeOK /\ PcOK(worker[w])
  BY DEF IInv, WorkerInv
<1>2. Acting(w) /\ worker[w].stage \in Later
  BY <1>1 DEF PauseRecord, At, PcOK, Acting
<1>3. Continues(w)
  <2>1. CASE worker[w].stage = "COLLECTING" /\ CommitTo(w, "FINALIZING", run.endsAt)
    BY <1>1, <2>1, CommitToContinues, WorkerFields DEF After
  <2>2. CASE Goto(w, "collect")
    <3>1. PcOK([worker[w] EXCEPT !.pc = "collect"])
      BY <1>1, <1>2, WorkerFields DEF PcOK, WorkerStates
    <3> QED BY <1>1, <2>2, <3>1, GotoContinues DEF PCs
  <2>3. ASSUME NEW err \in {"transient", "permanent"}, Throw(w, err)
        PROVE  Continues(w)
    BY <1>1, <2>3, ThrowContinues
  <2> QED BY <2>1, <2>2, <2>3 DEF PauseRecord, UpdateRun
<1>4. run' \in Runs
  BY <1>1, WorkerFields DEF PauseRecord, TypeOK, UpdateRun, Runs, RunStatuses
<1>5. faults' \in Nat
  BY <1>1, FaultType DEF PauseRecord, UpdateRun
<1>6. StoreOK'
  BY <1>1, <1>4, <1>5 DEF PauseRecord, TypeOK, StoreOK, draftVars
<1>7. KeepsDraft(w)
  BY DEF KeepsDraft, PauseRecord, draftVars
<1> QED BY <1>2, <1>3, <1>6, <1>7 DEF Moves, PauseRecord

LEMMA PollCommitContinues ==
  ASSUME TypeOK, NEW w \in Workers, PcOK(worker[w]),
         NEW goal \in After(worker[w].stage), PollCommit(w, goal)
  PROVE  Continues(w)
<1>1. worker[w].run.endsAt \in Nat
  BY WorkerFields
<1>2. CASE goal = "COLLECTING"
  <2>1. CommitTo(w, goal, worker[w].run.endsAt)
    BY <1>2 DEF PollCommit
  <2> QED BY <1>1, <2>1, CommitToContinues
<1>3. CASE goal # "COLLECTING"
  <2>1. CommitTo(w, goal, 0)
    BY <1>3 DEF PollCommit
  <2> QED BY <2>1, CommitToContinues
<1> QED BY <1>2, <1>3

LEMMA ConfirmMoves ==
  ASSUME IInv, NEW w \in Workers, Confirm(w)
  PROVE  Moves(w)
<1>1. TypeOK /\ PcOK(worker[w])
  BY DEF IInv, WorkerInv
<1>2. Acting(w) /\ worker[w].stage = "AWAITING_ACTIVATION"
  BY <1>1 DEF Confirm, At, PcOK, Acting
<1>3. Continues(w)
  <2>1. CASE PollCommit(w, worker[w].goal)
    <3>1. worker[w].goal \in After(worker[w].stage)
      BY <1>1, <1>2 DEF PcOK, Confirm, At, After, Later
    <3> QED BY <1>1, <2>1, <3>1, PollCommitContinues
  <2>2. ASSUME NEW err \in {"transient", "permanent"}, Throw(w, err)
        PROVE  Continues(w)
    BY <1>1, <2>2, ThrowContinues
  <2> QED BY <2>1, <2>2 DEF Confirm, UpdateRun
<1>4. run' \in Runs
  BY <1>1, WorkerFields DEF Confirm, TypeOK, UpdateRun, Runs, RunStatuses
<1>5. faults' \in Nat
  BY <1>1, FaultType DEF Confirm, UpdateRun
<1>6. StoreOK'
  BY <1>1, <1>4, <1>5 DEF Confirm, TypeOK, StoreOK, draftVars
<1>7. KeepsDraft(w)
  BY DEF KeepsDraft, Confirm, draftVars
<1> QED BY <1>2, <1>3, <1>6, <1>7 DEF Moves, Confirm

LEMMA PollMoves ==
  ASSUME IInv, NEW w \in Workers, Poll(w)
  PROVE  Moves(w)
<1>1. TypeOK /\ PcOK(worker[w])
  BY DEF IInv, WorkerInv
<1>2. Acting(w) /\ worker[w].stage = "AWAITING_ACTIVATION"
  BY <1>1 DEF Poll, At, PcOK, Acting
<1>3. Continues(w)
  <2>1. ASSUME NEW goal \in {"AWAITING_ACTIVATION", "COLLECTING"},
               worker' = [worker EXCEPT ![w].pc = "confirm", ![w].goal = goal]
        PROVE  Continues(w)
    <3> DEFINE r1 == [worker[w] EXCEPT !.pc = "confirm"]
               r  == [r1 EXCEPT !.goal = goal]
    <3>1. r1 \in WorkerStates
      BY <1>1, FieldType, WorkerFields DEF PCs
    <3>2. r \in WorkerStates
      <4> HIDE DEF r1
      <4>1. goal \in Statuses
        BY DEF Statuses, Processable, Stages
      <4> QED BY <3>1, <4>1, FieldType, Zenon
    <3>3. r.pc = "confirm" /\ r.goal = goal /\ r.stage = worker[w].stage
      BY <1>1, WorkerFields DEF WorkerStates
    <3>4. worker' = [worker EXCEPT ![w] = r]
      BY <1>1, <2>1 DEF TypeOK
    <3> HIDE DEF r
    <3>5. PcOK(r)
      BY <1>2, <3>3 DEF PcOK
    <3> QED BY <1>1, <3>2, <3>3, <3>4, <3>5, MoveContinues
  <2>2. ASSUME NEW goal \in {"AWAITING_ACTIVATION", "COLLECTING"},
               PollCommit(w, goal)
        PROVE  Continues(w)
    <3>1. goal \in After(worker[w].stage)
      BY <1>2 DEF After, Later
    <3> QED BY <1>1, <2>2, <3>1, PollCommitContinues
  <2>3. ASSUME NEW err \in {"transient", "permanent"}, Throw(w, err)
        PROVE  Continues(w)
    BY <1>1, <2>3, ThrowContinues
  <2> QED BY <2>1, <2>2, <2>3 DEF Poll
<1>4. StoreOK'
  BY <1>1, FaultType DEF Poll, TypeOK, StoreOK, metaVars
<1>5. KeepsDraft(w)
  BY DEF KeepsDraft, Poll, metaVars
<1> QED BY <1>2, <1>3, <1>4, <1>5 DEF Moves, Poll

LEMMA CheckDeliveryMoves ==
  ASSUME IInv, NEW w \in Workers, CheckDelivery(w)
  PROVE  Moves(w)
<1>1. TypeOK /\ PcOK(worker[w])
  BY DEF IInv, WorkerInv
<1>2. Acting(w) /\ worker[w].stage = "COLLECTING"
  BY <1>1 DEF CheckDelivery, At, PcOK, Acting
<1>3. Continues(w)
  <2>1. CASE Goto(w, "collect")
    <3>1. PcOK([worker[w] EXCEPT !.pc = "collect"])
      BY <1>1, <1>2, WorkerFields DEF PcOK, WorkerStates, Later
    <3> QED BY <1>1, <2>1, <3>1, GotoContinues DEF PCs
  <2>2. ASSUME NEW err \in {"transient", "permanent"}, Throw(w, err)
        PROVE  Continues(w)
    BY <1>1, <2>2, ThrowContinues
  <2> QED BY <2>1, <2>2 DEF CheckDelivery
<1>4. StoreOK'
  BY <1>1, FaultType DEF CheckDelivery, TypeOK, StoreOK, metaVars
<1>5. KeepsDraft(w)
  BY DEF KeepsDraft, CheckDelivery, metaVars
<1> QED BY <1>2, <1>3, <1>4, <1>5 DEF Moves, CheckDelivery

LEMMA StepContinues ==
  ASSUME TypeOK, NEW w \in Workers, PcOK(worker[w]), Acting(w), NEW ok \in BOOLEAN,
         worker[w].step < 3, ~At(w, "writing"), ~At(w, "generate"),
         worker' = [worker EXCEPT ![w].step = @ + 1, ![w].ok = ok]
  PROVE  Continues(w)
<1> DEFINE r1 == [worker[w] EXCEPT !.step = worker[w].step + 1]
           r  == [r1 EXCEPT !.ok = ok]
<1>1. worker[w] \in WorkerStates /\ worker[w].step + 1 \in 1..3
  BY WorkerFields
<1>2. r1 \in WorkerStates
  BY <1>1, FieldType, Zenon
<1>3. r \in WorkerStates
  <2> HIDE DEF r1
  <2> QED BY <1>2, FieldType, Zenon
<1>4. r.pc = worker[w].pc /\ r.stage = worker[w].stage /\ r.goal = worker[w].goal
  BY <1>1 DEF WorkerStates
<1>5. worker' = [worker EXCEPT ![w] = r]
  BY <1>1 DEF TypeOK
<1> HIDE DEF r
<1>6. PcOK(r) /\ r.pc \notin {"claimed", "generate", "writing"}
  BY <1>4 DEF PcOK, Acting, At
<1> QED BY <1>3, <1>4, <1>5, <1>6, MoveContinues

LEMMA UnverifiedContinues ==
  ASSUME TypeOK, NEW w \in Workers, PcOK(worker[w]), Unverified(w),
         worker[w].stage \in Later
  PROVE  Continues(w)
<1>1. CASE Throw(w, "transient")
  BY <1>1, ThrowContinues
<1>2. CASE /\ worker[w].pc \in {"undo", "undoVerify"}
           /\ worker' = [worker EXCEPT ![w].pc = "undoRecord", ![w].ok = FALSE]
  <2> DEFINE r1 == [worker[w] EXCEPT !.pc = "undoRecord"]
             r  == [r1 EXCEPT !.ok = FALSE]
  <2>1. r1 \in WorkerStates
    BY FieldType, WorkerFields DEF PCs
  <2>2. r \in WorkerStates
    <3> HIDE DEF r1
    <3> QED BY <2>1, FieldType, Zenon
  <2>3. r.pc = "undoRecord" /\ r.stage = worker[w].stage
    BY WorkerFields DEF WorkerStates
  <2>4. worker' = [worker EXCEPT ![w] = r]
    BY <1>2 DEF TypeOK
  <2> HIDE DEF r
  <2>5. PcOK(r)
    BY <1>2, <2>3 DEF PcOK
  <2> QED BY <2>2, <2>3, <2>4, <2>5, MoveContinues
<1> QED BY <1>1, <1>2 DEF Unverified

LEMMA ActivateMoves ==
  ASSUME IInv, NEW w \in Workers, Activate(w)
  PROVE  Moves(w)
<1>1. TypeOK /\ PcOK(worker[w])
  BY DEF IInv, WorkerInv
<1>2. Acting(w) /\ worker[w].stage = "AWAITING_ACTIVATION" /\ ~At(w, "writing")
  BY <1>1 DEF Activate, At, PcOK, Acting
<1>3. Continues(w)
  <2>1. CASE worker[w].step < 3 /\ worker' = [worker EXCEPT ![w].step = @ + 1]
    <3> DEFINE r == [worker[w] EXCEPT !.step = worker[w].step + 1]
    <3>1. worker[w].step + 1 \in 1..3
      BY <1>1, <2>1, WorkerFields
    <3>2. r \in WorkerStates
      BY <1>1, <3>1, FieldType, WorkerFields, Zenon
    <3>3. r.pc = worker[w].pc /\ r.stage = worker[w].stage
      BY <1>1, WorkerFields DEF WorkerStates
    <3>4. worker' = [worker EXCEPT ![w] = r]
      BY <1>1, <2>1 DEF TypeOK
    <3> HIDE DEF r
    <3>5. worker[w].pc = "activate"
      BY DEF Activate, At
    <3>6. PcOK(r)
      BY <1>2, <3>3, <3>5 DEF PcOK
    <3> QED BY <1>1, <3>2, <3>3, <3>4, <3>5, <3>6, MoveContinues
  <2>2. CASE CommitTo(w, "AWAITING_ACTIVATION", 0)
    BY <1>1, <1>2, <2>2, CommitToContinues DEF After, Later
  <2>3. CASE Loop(w, "undo")
    <3>1. PcOK([worker[w] EXCEPT !.pc = "undo"])
      BY <1>1, <1>2, WorkerFields DEF PcOK, WorkerStates
    <3> QED BY <1>1, <2>3, <3>1, LoopContinues
  <2> QED BY <2>1, <2>2, <2>3 DEF Activate, SetObject
<1>4. objects' \in [Objects -> Configured]
  BY <1>1 DEF Activate, SetObject, TypeOK, Configured
<1>5. faults' \in Nat
  BY <1>1, FaultType DEF Activate, SetObject
<1>6. StoreOK'
  BY <1>1, <1>4, <1>5 DEF Activate, TypeOK, StoreOK, draftVars
<1>7. KeepsDraft(w)
  BY DEF KeepsDraft, Activate, draftVars
<1> QED BY <1>2, <1>3, <1>6, <1>7 DEF Moves, Activate

LEMMA PauseObjectMoves ==
  ASSUME IInv, NEW w \in Workers, PauseObject(w)
  PROVE  Moves(w)
<1>1. TypeOK /\ PcOK(worker[w])
  BY DEF IInv, WorkerInv
<1>2. /\ Acting(w) /\ worker[w].stage \in Later
      /\ ~At(w, "writing") /\ ~At(w, "generate")
  BY <1>1 DEF PauseObject, At, PcOK, Acting, Later
<1>3. Continues(w)
  <2>1. ASSUME NEW ok \in BOOLEAN, worker[w].step < 3,
               worker' = [worker EXCEPT ![w].step = @ + 1, ![w].ok = ok]
        PROVE  Continues(w)
    BY <1>1, <1>2, <2>1, StepContinues
  <2>2. CASE Unverified(w)
    BY <1>1, <1>2, <2>2, UnverifiedContinues
  <2>3. CASE Goto(w, IF At(w, "undo") THEN "undoVerify" ELSE "pauseVerify")
    <3> DEFINE pc == IF At(w, "undo") THEN "undoVerify" ELSE "pauseVerify"
    <3>1. PcOK([worker[w] EXCEPT !.pc = pc])
      BY <1>1, <1>2, WorkerFields DEF PcOK, WorkerStates, At
    <3>2. pc \in PCs \ {"claimed", "generate", "confirm", "commit"} /\ pc # "writing"
      BY DEF PCs
    <3> HIDE DEF pc
    <3> QED BY <1>1, <2>3, <3>1, <3>2, GotoContinues DEF pc
  <2>4. worker[w].ok \in BOOLEAN
    BY <1>1, WorkerFields DEF WorkerStates
  <2> QED BY <2>1, <2>2, <2>3, <2>4 DEF PauseObject, SetObject
<1>4. objects' \in [Objects -> Configured]
  BY <1>1 DEF PauseObject, SetObject, TypeOK, Configured
<1>5. faults' \in Nat
  BY <1>1, FaultType DEF PauseObject, SetObject
<1>6. StoreOK'
  BY <1>1, <1>4, <1>5 DEF PauseObject, TypeOK, StoreOK, draftVars
<1>7. KeepsDraft(w)
  BY DEF KeepsDraft, PauseObject, draftVars
<1> QED BY <1>2, <1>3, <1>6, <1>7 DEF Moves, PauseObject

LEMMA PauseVerifyMoves ==
  ASSUME IInv, NEW w \in Workers, PauseVerify(w)
  PROVE  Moves(w)
<1>1. TypeOK /\ PcOK(worker[w])
  BY DEF IInv, WorkerInv
<1>2. Acting(w) /\ worker[w].stage \in Later
  BY <1>1 DEF PauseVerify, At, PcOK, Acting, Later
<1>3. Continues(w)
  <2>1. CASE Unverified(w)
    BY <1>1, <1>2, <2>1, UnverifiedContinues
  <2>2. CASE Goto(w, IF At(w, "undoVerify") THEN "undoRecord" ELSE "pauseRecord")
    <3> DEFINE pc == IF At(w, "undoVerify") THEN "undoRecord" ELSE "pauseRecord"
    <3>1. PcOK([worker[w] EXCEPT !.pc = pc])
      BY <1>1, <1>2, WorkerFields DEF PcOK, WorkerStates, At
    <3>2. pc \in PCs \ {"claimed", "generate", "confirm", "commit"} /\ pc # "writing"
      BY DEF PCs
    <3> HIDE DEF pc
    <3> QED BY <1>1, <2>2, <3>1, <3>2, GotoContinues DEF pc
  <2> QED BY <2>1, <2>2 DEF PauseVerify
<1>4. StoreOK'
  BY <1>1, FaultType DEF PauseVerify, TypeOK, StoreOK, metaVars
<1>5. KeepsDraft(w)
  BY DEF KeepsDraft, PauseVerify, metaVars
<1> QED BY <1>2, <1>3, <1>4, <1>5 DEF Moves, PauseVerify

LEMMA CollectMoves ==
  ASSUME IInv, NEW w \in Workers, Collect(w)
  PROVE  Moves(w)
<1>1. TypeOK /\ PcOK(worker[w])
  BY DEF IInv, WorkerInv
<1>2. Acting(w) /\ worker[w].stage \in Later
  BY <1>1 DEF Collect, At, PcOK, Acting
<1>3. Continues(w)
  <2>1. ASSUME NEW goal \in After(worker[w].stage), NEW endsAt \in Nat,
               CommitTo(w, goal, endsAt)
        PROVE  Continues(w)
    BY <1>1, <2>1, CommitToContinues
  <2>2. CASE Goto(w, "pauseBegin")
    <3>1. PcOK([worker[w] EXCEPT !.pc = "pauseBegin"])
      BY <1>1, <1>2, WorkerFields DEF PcOK, WorkerStates
    <3> QED BY <1>1, <2>2, <3>1, GotoContinues DEF PCs
  <2>3. CASE Throw(w, "transient")
    BY <1>1, <2>3, ThrowContinues
  <2>4. CASE CommitTo(w, "FINALIZING", 0)
    BY <1>2, <2>1, <2>4 DEF After, Later
  <2>5. CASE worker[w].stage = "COLLECTING" /\ CommitTo(w, "COLLECTING", 0)
    BY <2>1, <2>5 DEF After
  <2>6. CASE CommitTo(w, "FINALIZING", worker[w].run.endsAt)
    BY <1>1, <1>2, <2>1, <2>6, WorkerFields DEF After, Later
  <2>7. CASE worker[w].stage = "FINALIZING" /\ CommitTo(w, "COMPLETED", 0)
    BY <2>1, <2>7 DEF After
  <2> QED BY <1>2, <2>2, <2>3, <2>4, <2>5, <2>6, <2>7 DEF Collect, Later
<1>4. finals' \in BOOLEAN
  BY <1>1 DEF Collect, TypeOK
<1>5. faults' \in Nat
  BY <1>1, FaultType DEF Collect
<1>6. StoreOK'
  BY <1>1, <1>4, <1>5 DEF Collect, TypeOK, StoreOK, draftVars
<1>7. KeepsDraft(w)
  BY DEF KeepsDraft, Collect, draftVars
<1> QED BY <1>2, <1>3, <1>6, <1>7 DEF Moves, Collect

------------------------------------------------------------------------------
(* Every step preserves the invariant and the order of the stages. *)

Ordered ==
    \/ StageOf(row') = StageOf(row)
    \/ StageOf(row') \in Abstract!Follows[StageOf(row)]

LEMMA StoreType ==
  ASSUME TypeOK
  PROVE  StoreOK
  BY DEF TypeOK, StoreOK

LEMMA MovesInv ==
  ASSUME IInv, NEW w \in Workers, Moves(w)
  PROVE  IInv' /\ Ordered
<1>1. /\ worker' \in [Workers -> WorkerStates]
      /\ \A v \in Workers : WorkerInv(v)' /\ DraftInv(v)'
  BY ContinuesInv DEF Moves
<1>2. TypeOK'
  BY <1>1 DEF Moves, StoreOK, IInv, TypeOK
<1>3. RowOK(row)'
  BY DEF Moves, IInv, RowOK, StageOf
<1>4. Ordered
  BY DEF Moves, Ordered
<1> QED BY <1>1, <1>2, <1>3, <1>4 DEF IInv

\* A step that writes the row leaves no other worker with the lease.
LEMMA RowStepInv ==
  ASSUME IInv, NEW w \in Workers, StoreOK', row' \in Rows, RowOK(row'),
         UNCHANGED draftVars, NEW r \in WorkerStates,
         worker' = [worker EXCEPT ![w] = r], PcOK(r), r.pc # "writing",
         HoldsLease(row', w) => Agrees(row', r),
         \A v \in Workers \ {w} : ~HoldsLease(row', v)
  PROVE  IInv'
<1>1. worker' \in [Workers -> WorkerStates] /\ worker'[w] = r
  BY DEF IInv, TypeOK
<1>2. TypeOK'
  BY <1>1 DEF StoreOK, TypeOK
<1>3. RowOK(row)'
  BY DEF RowOK, StageOf
<1>4. ASSUME NEW v \in Workers PROVE WorkerInv(v)' /\ DraftInv(v)'
  <2>1. CASE v = w
    <3>1. HoldsLease(row, v)' <=> HoldsLease(row', w)
      BY <2>1 DEF HoldsLease
    <3> QED BY <1>1, <2>1, <3>1 DEF WorkerInv, DraftInv, At
  <2>2. CASE v # w
    <3>1. worker'[v] = worker[v]
      BY <2>2 DEF IInv, TypeOK
    <3>2. ~HoldsLease(row', v)
      BY <2>2
    <3>3. WorkerInv(v)'
      BY <3>1, <3>2 DEF WorkerInv, IInv, HoldsLease
    <3> QED BY <3>1, <3>3 DEF DraftInv, IInv, draftVars, At
  <2> QED BY <2>1, <2>2
<1> QED BY <1>2, <1>3, <1>4 DEF IInv

LEMMA RowOKIs ==
  ASSUME IInv
  PROVE  row \in Rows /\ RowOK(row)
  BY DEF IInv, TypeOK

LEMMA ThrowMoves ==
  ASSUME IInv, NEW w \in Workers, NEW err \in {"transient", "permanent"},
         Throw(w, err), ~At(w, "idle"), UNCHANGED <<row, draftVars>>, StoreOK'
  PROVE  Moves(w)
<1>1. Continues(w)
  BY ThrowContinues DEF IInv
<1>2. worker'[w].pc = "catch"
  BY IdleType DEF Throw, IInv, TypeOK, WorkerStates
<1>3. KeepsDraft(w)
  BY DEF KeepsDraft, draftVars
<1> QED BY <1>1, <1>2, <1>3 DEF Moves

LEMMA ReturnMoves ==
  ASSUME IInv, NEW w \in Workers, Return(w), UNCHANGED <<row, draftVars>>, StoreOK'
  PROVE  Moves(w)
<1>1. Continues(w) /\ worker'[w].pc = "idle"
  BY IdleType DEF Return, IInv, TypeOK, Continues, IdleWorker
<1>2. KeepsDraft(w)
  BY DEF KeepsDraft, draftVars
<1> QED BY <1>1, <1>2 DEF Moves

LEMMA ClaimInv ==
  ASSUME IInv, NEW w \in Workers, Claim(w)
  PROVE  IInv' /\ Ordered
<1> DEFINE r == [IdleWorker EXCEPT
                   !.pc = IF Exhausted(row) THEN "commit" ELSE "claimed",
                   !.stage = TargetStage(row), !.attempts = row.stageAttempts,
                   !.goal = "FAILED"]
<1>1. row \in Rows /\ RowOK(row) /\ row.status \in Processable
  BY RowOKIs DEF Claim, Claimable
<1>2. TargetStage(row) \in Stages
  BY <1>1, TargetStageIsStageOf
<1>3. r \in WorkerStates
  <2>1. /\ (IF Exhausted(row) THEN "commit" ELSE "claimed") \in PCs
        /\ row.stageAttempts \in 0..StageLimit /\ "FAILED" \in Statuses
    BY <1>1 DEF PCs, Rows, Statuses
  <2> DEFINE r1 == [IdleWorker EXCEPT
                      !.pc = IF Exhausted(row) THEN "commit" ELSE "claimed",
                      !.stage = TargetStage(row)]
             r2 == [r1 EXCEPT !.attempts = row.stageAttempts]
  <2>2. r1 \in WorkerStates
    BY <1>2, <2>1, IdleType, FieldType
  <2>3. r2 \in WorkerStates
    <3> HIDE DEF r1
    <3> QED BY <2>1, <2>2, FieldType, Zenon
  <2>4. [r2 EXCEPT !.goal = "FAILED"] \in WorkerStates
    <3> HIDE DEF r2
    <3> QED BY <2>1, <2>3, FieldType, Zenon
  <2> QED BY <2>4
<1>4. /\ r.pc = IF Exhausted(row) THEN "commit" ELSE "claimed"
      /\ r.stage = TargetStage(row) /\ r.goal = "FAILED"
  BY DEF IdleWorker
<1>5. /\ Claimed(row, w) \in Rows /\ RowOK(Claimed(row, w))
      /\ StageOf(Claimed(row, w)) = StageOf(row)
      /\ Claimed(row, w).status = row.status
      /\ TargetStage(Claimed(row, w)) = TargetStage(row)
      /\ Exhausted(Claimed(row, w)) <=> Exhausted(row)
  BY <1>1, ClaimedType
<1>6. row' = Claimed(row, w) /\ worker' = [worker EXCEPT ![w] = r]
  BY DEF Claim
<1> HIDE DEF r
<1>7. PcOK(r) /\ r.pc # "writing"
  BY <1>4 DEF PcOK
<1>8. Agrees(row', r)
  BY <1>1, <1>4, <1>5, <1>6 DEF Agrees
<1>9. \A v \in Workers \ {w} : ~HoldsLease(row', v)
  BY <1>1, <1>6 DEF Claimed, HoldsLease, Rows
<1>10. StoreOK' /\ UNCHANGED draftVars
  BY FaultType DEF IInv, TypeOK, StoreOK, Claim, metaVars, draftVars
<1>11. IInv'
  BY <1>3, <1>5, <1>6, <1>7, <1>8, <1>9, <1>10, RowStepInv
<1>12. Ordered
  BY <1>5, <1>6 DEF Ordered
<1> QED BY <1>11, <1>12

LEMMA RenewInv ==
  ASSUME IInv, NEW w \in Workers, Renew(w)
  PROVE  IInv' /\ Ordered
<1>1. row \in Rows /\ RowOK(row) /\ TypeOK
  BY RowOKIs DEF IInv
<1>2. StoreOK' /\ UNCHANGED draftVars
  BY <1>1, FaultType DEF TypeOK, StoreOK, Renew, metaVars, draftVars
<1>3. CASE UNCHANGED row /\ Throw(w, "transient")
  <2>1. ~At(w, "idle")
    BY DEF Renew, At
  <2> QED BY <1>2, <1>3, <2>1, ThrowMoves, MovesInv
<1>4. CASE HoldsLease(row, w) /\ row' = Renewed(row, worker[w].stage)
  <2>1. /\ row.status \in Processable /\ ~Exhausted(row)
        /\ worker[w].stage = TargetStage(row)
    BY <1>4 DEF IInv, WorkerInv, Agrees, Renew, At
  <2> DEFINE t == TargetStage(row)
  <2>2. /\ row' \in Rows /\ RowOK(row') /\ StageOf(row') = StageOf(row)
        /\ row'.status = t /\ row.stageAttempts + 1 \in 0..StageLimit
    BY <1>1, <1>4, <2>1, RenewedRow
  <2>3. t \in Stages
    BY <1>1, <2>1, TargetStageIsStageOf
  <2>4. \A v \in Workers \ {w} : ~HoldsLease(row', v)
    BY <1>1, <1>4 DEF Renewed, HoldsLease, Rows
  <2>5. row'.status \in Processable /\ TargetStage(row') = t
    <3>1. row'.status \in Processable
      BY <2>2, <2>3 DEF Processable
    <3> QED BY <1>1, <2>1, <2>2, <3>1, TargetStageIsStageOf
  <2>6. IInv'
    <3>1. CASE Throw(w, "transient")
      <4> DEFINE r == [IdleWorker EXCEPT !.pc = "catch", !.stage = worker[w].stage,
                          !.attempts = worker[w].attempts, !.err = "transient"]
      <4>1. r \in WorkerStates /\ r.pc = "catch" /\ r.stage = t
        BY <1>1, <2>1, WorkerFields, IdleType DEF WorkerStates, PCs
      <4>2. worker' = [worker EXCEPT ![w] = r]
        BY <3>1 DEF Throw
      <4> HIDE DEF r
      <4>3. PcOK(r) /\ r.pc # "writing" /\ Agrees(row', r)
        BY <2>5, <4>1 DEF PcOK, Agrees
      <4> QED BY <1>2, <2>2, <2>4, <4>1, <4>2, <4>3, RowStepInv
    <3>2. CASE worker' = [worker EXCEPT ![w] = RenewedWorker(w)]
      <4> DEFINE pc == CASE t = "GENERATING" -> "generate"
                         [] t = "PREPARING"  -> "prepare"
                         [] OTHER            -> "observe"
                 r  == RenewedWorker(w)
                 r1 == [worker[w] EXCEPT !.pc = pc]
                 r2 == [r1 EXCEPT !.attempts = row.stageAttempts + 1]
                 r3 == [r2 EXCEPT !.endsAt = row.endsAt]
                 r4 == [r3 EXCEPT !.now = clock]
      <4>1. pc \in PCs /\ row.endsAt \in Nat /\ clock \in Nat
        BY <1>1, <2>3 DEF PCs, Rows, TypeOK, Stages
      <4>2. r1 \in WorkerStates
        <5> HIDE DEF pc
        <5> QED BY <1>1, <4>1, WorkerFields, FieldType, Zenon
      <4>3. r2 \in WorkerStates
        <5> HIDE DEF r1
        <5> QED BY <2>2, <4>2, FieldType, Zenon
      <4>4. r3 \in WorkerStates
        <5> HIDE DEF r2
        <5> QED BY <4>1, <4>3, FieldType, Zenon
      <4>5. r4 \in WorkerStates
        <5> HIDE DEF r3
        <5> QED BY <4>1, <4>4, FieldType, Zenon
      <4>6. r = r4
        BY <2>1 DEF RenewedWorker
      <4>7. r.pc = pc /\ r.stage = t
        BY <1>1, <2>1, WorkerFields DEF RenewedWorker, WorkerStates
      <4>8. PcOK(r) /\ r.pc # "writing"
        <5> HIDE DEF r
        <5> QED BY <2>3, <4>7 DEF PcOK, Later, Stages
      <4>9. Agrees(row', r)
        <5> HIDE DEF r
        <5> QED BY <2>2, <2>3, <2>5, <4>7 DEF Agrees, Stages
      <4>10. r \in WorkerStates /\ worker' = [worker EXCEPT ![w] = r]
        BY <3>2, <4>5, <4>6
      <4> HIDE DEF r
      <4> QED BY <1>2, <2>2, <2>4, <4>8, <4>9, <4>10, RowStepInv
    <3> QED BY <3>1, <3>2 DEF Renew
  <2> QED BY <2>2, <2>6 DEF Ordered
<1> QED BY <1>3, <1>4 DEF Renew

\* A transition gives the lease up, and leads to a stage or end that follows.
LEMMA TransitionInv ==
  ASSUME IInv, NEW w \in Workers, StoreOK', UNCHANGED draftVars,
         NEW status \in Statuses, NEW spec \in BOOLEAN, NEW endsAt \in Nat,
         NEW due \in BOOLEAN, HoldsLease(row, w),
         row' = Transitioned(row, status, spec, endsAt, due),
         \/ status = "FAILED" /\ ~spec
         \/ status = "RETRY_WAIT" /\ row.status \in Stages /\ ~spec
         \/ /\ row.status \in Stages /\ status \in After(row.status)
            /\ spec <=> row.status = "GENERATING",
         NEW r \in WorkerStates, worker' = [worker EXCEPT ![w] = r],
         r.pc \in {"idle", "catch"}
  PROVE  IInv' /\ Ordered
<1>1. row \in Rows /\ RowOK(row)
  BY RowOKIs
<1>2. row.status \in Processable
  BY DEF IInv, WorkerInv, Agrees
<1>3. /\ row' \in Rows /\ RowOK(row') /\ row'.lease = "none"
      /\ Ordered
  BY <1>1, <1>2, TransitionedRow DEF Ordered
<1>4. \A v \in Workers : ~HoldsLease(row', v)
  BY <1>3 DEF HoldsLease
<1>5. PcOK(r) /\ r.pc # "writing"
  BY DEF PcOK
<1> QED BY <1>3, <1>4, <1>5, RowStepInv

\* The two records a worker may be in after a transition.
LEMMA AfterTransition ==
  ASSUME TypeOK, NEW w \in Workers, Return(w) \/ Throw(w, "transient")
  PROVE  \E r \in WorkerStates : /\ worker' = [worker EXCEPT ![w] = r]
                                 /\ r.pc \in {"idle", "catch"}
<1>1. CASE Return(w)
  BY <1>1, IdleType DEF Return, IdleWorker
<1>2. CASE Throw(w, "transient")
  <2> DEFINE r == [IdleWorker EXCEPT !.pc = "catch", !.stage = worker[w].stage,
                      !.attempts = worker[w].attempts, !.err = "transient"]
  <2>1. r \in WorkerStates /\ r.pc = "catch"
    BY WorkerFields, IdleType DEF WorkerStates, PCs
  <2> QED BY <1>2, <2>1 DEF Throw
<1> QED BY <1>1, <1>2

LEMMA CommitInv ==
  ASSUME IInv, NEW w \in Workers, Commit(w)
  PROVE  IInv' /\ Ordered
<1> DEFINE spec == worker[w].stage = "GENERATING" /\ worker[w].goal = "PREPARING"
<1>1. TypeOK /\ row \in Rows
  BY RowOKIs DEF IInv
<1>2. StoreOK' /\ UNCHANGED draftVars
  BY <1>1, FaultType DEF TypeOK, StoreOK, Commit, metaVars, draftVars
<1>3. CASE UNCHANGED row /\ Throw(w, "transient")
  <2>1. ~At(w, "idle")
    BY DEF Commit, At
  <2> QED BY <1>2, <1>3, <2>1, ThrowMoves, MovesInv
<1>4. CASE /\ CanTransition(row, w, worker[w].goal, spec)
           /\ row' = CommittedRow(w)
           /\ Return(w) \/ Throw(w, "transient")
  <2>1. HoldsLease(row, w)
    BY <1>4 DEF CanTransition
  <2>2. worker[w].goal = "FAILED" \/ (/\ worker[w].goal \in After(worker[w].stage)
                                      /\ worker[w].goal # "FAILED"
                                      /\ row.status = worker[w].stage)
    BY <2>1 DEF IInv, WorkerInv, Agrees, PcOK, Commit, At
  <2>3. /\ worker[w].goal \in Statuses /\ worker[w].endsAt \in Nat
        /\ worker[w].stage \in Stages
    BY <1>1, WorkerFields
  <2>4. PICK r \in WorkerStates : /\ worker' = [worker EXCEPT ![w] = r]
                                  /\ r.pc \in {"idle", "catch"}
    BY <1>1, <1>4, AfterTransition
  <2>5. \/ worker[w].goal = "FAILED" /\ ~spec
        \/ /\ row.status \in Stages /\ worker[w].goal \in After(row.status)
           /\ spec <=> row.status = "GENERATING"
    BY <2>2, <2>3 DEF After
  <2>6. spec \in BOOLEAN /\ DueAtOnce(w) \in BOOLEAN
    BY DEF DueAtOnce
  <2>7. row' = Transitioned(row, worker[w].goal, spec, worker[w].endsAt,
                            DueAtOnce(w))
    BY <1>4 DEF CommittedRow
  <2> HIDE DEF spec
  <2> QED BY <1>2, <2>1, <2>3, <2>4, <2>5, <2>6, <2>7, TransitionInv
<1> QED BY <1>3, <1>4 DEF Commit

LEMMA CatchInv ==
  ASSUME IInv, NEW w \in Workers, Catch(w)
  PROVE  IInv' /\ Ordered
<1>1. TypeOK /\ row \in Rows /\ Return(w)
  BY RowOKIs DEF IInv, Catch
<1>2. StoreOK' /\ UNCHANGED draftVars
  BY <1>1, FaultType DEF TypeOK, StoreOK, Catch, metaVars, draftVars
<1>3. CASE UNCHANGED row
  BY <1>1, <1>2, <1>3, ReturnMoves, MovesInv
<1>4. CASE /\ CanTransition(row, w, FailureStatus(w), FALSE)
           /\ row' = Transitioned(row, FailureStatus(w), FALSE, 0, FALSE)
  <2>1. HoldsLease(row, w)
    BY <1>4 DEF CanTransition
  <2>2. /\ FailureStatus(w) \in Statuses
        /\ \/ FailureStatus(w) = "FAILED"
           \/ FailureStatus(w) = "RETRY_WAIT" /\ row.status \in Stages
    BY <1>4 DEF FailureStatus, CanTransition, Statuses, Processable
  <2>3. PICK r \in WorkerStates : /\ worker' = [worker EXCEPT ![w] = r]
                                  /\ r.pc \in {"idle", "catch"}
    BY <1>1, AfterTransition
  <2> QED BY <1>2, <1>4, <2>1, <2>2, <2>3, TransitionInv
<1> QED BY <1>3, <1>4 DEF Catch

LEMMA CrashInv ==
  ASSUME IInv, NEW w \in Workers, Crash(w)
  PROVE  IInv' /\ Ordered
<1>1. StoreOK'
  BY FaultType DEF IInv, TypeOK, StoreOK, Crash, metaVars
<1> QED BY <1>1, ReturnMoves, MovesInv DEF Crash, metaVars, draftVars

\* A step of the environment that leaves the workers alone and gives none of
\* them a lease.
LEMMA EnvironmentInv ==
  ASSUME IInv, StoreOK', UNCHANGED worker, row' \in Rows, RowOK(row'),
         \A v \in Workers : HoldsLease(row', v) =>
             /\ HoldsLease(row, v)
             /\ row'.status = row.status
             /\ TargetStage(row') = TargetStage(row)
             /\ Exhausted(row') <=> Exhausted(row),
         \A v \in Workers : holder' = v =>
             holder = v /\ operation'.checkpoints = operation.checkpoints
  PROVE  IInv'
<1>1. TypeOK'
  BY DEF IInv, TypeOK, StoreOK
<1>2. RowOK(row)'
  BY DEF RowOK, StageOf
<1>3. ASSUME NEW v \in Workers PROVE WorkerInv(v)'
  <2>1. WorkerInv(v)
    BY DEF IInv
  <2>2. HoldsLease(row, v)' => HoldsLease(row', v)
    BY DEF HoldsLease
  <2>3. HoldsLease(row', v) => Agrees(row', worker[v])
    BY <2>1 DEF WorkerInv, Agrees
  <2> QED BY <2>1, <2>2, <2>3 DEF WorkerInv
<1>4. ASSUME NEW v \in Workers PROVE DraftInv(v)'
  <2>1. DraftInv(v)
    BY DEF IInv
  <2> QED BY <2>1 DEF DraftInv, At
<1> QED BY <1>1, <1>2, <1>3, <1>4 DEF IInv

LEMMA TimeInv ==
  ASSUME IInv, Time
  PROVE  IInv' /\ Ordered
<1>1. TypeOK /\ row \in Rows /\ RowOK(row)
  BY RowOKIs DEF IInv
<1>2. CASE LeaseExpires
  <2>1. row' = [row EXCEPT !.lease = "expired"]
    BY <1>2 DEF LeaseExpires
  <2>2. /\ row' \in Rows /\ RowOK(row') /\ StageOf(row') = StageOf(row)
        /\ row'.lease = "expired"
    BY <1>1, <2>1 DEF Rows, RowOK, StageOf, Leases
  <2>3. faults' \in Nat
    BY <1>1, <1>2, FaultType DEF LeaseExpires, Expires
  <2>4. StoreOK'
    BY <1>1, <1>2, <2>3 DEF LeaseExpires, TypeOK, StoreOK, metaVars
  <2>5. \A v \in Workers : ~HoldsLease(row', v)
    BY <2>2 DEF HoldsLease
  <2> QED BY <1>2, <2>2, <2>4, <2>5, EnvironmentInv
        DEF LeaseExpires, metaVars, Ordered
<1>3. CASE OperationLeaseExpires
  <2>1. faults' \in Nat
    BY <1>1, <1>3, FaultType DEF OperationLeaseExpires, Expires
  <2>2. StoreOK'
    BY <1>1, <1>3, <2>1 DEF OperationLeaseExpires, TypeOK, StoreOK
  <2>3. UNCHANGED <<row, worker>> /\ holder' = NoWorker
    BY <1>3 DEF OperationLeaseExpires
  <2> QED BY <1>1, <2>2, <2>3, EnvironmentInv, NoWorkerAssumption DEF Ordered
<1>4. CASE BecomeDue
  <2>1. row' = [row EXCEPT !.due = TRUE]
    BY <1>4 DEF BecomeDue
  <2>2. /\ row' \in Rows /\ RowOK(row') /\ StageOf(row') = StageOf(row)
        /\ row'.status = row.status
        /\ TargetStage(row') = TargetStage(row)
        /\ Exhausted(row') <=> Exhausted(row)
        /\ \A v \in Workers : HoldsLease(row', v) => HoldsLease(row, v)
    BY <1>1, <2>1 DEF Rows, RowOK, StageOf, TargetStage, Exhausted, HoldsLease
  <2>3. StoreOK'
    BY <1>1, <1>4 DEF BecomeDue, TypeOK, StoreOK, metaVars
  <2> QED BY <1>4, <2>2, <2>3, EnvironmentInv DEF BecomeDue, metaVars, Ordered
<1>5. CASE Tick
  <2>1. StoreOK' /\ UNCHANGED <<row, worker, holder, operation>>
    BY <1>1, <1>5 DEF Tick, TypeOK, StoreOK, metaVars
  <2> QED BY <1>1, <2>1, EnvironmentInv DEF Ordered
<1> QED BY <1>2, <1>3, <1>4, <1>5 DEF Time

LEMMA SubmittedRowType == SubmittedRow \in Rows
<1>1. /\ 0 \in 0..GenerationLimit /\ 0 \in 0..StageLimit
      /\ "SUBMITTED" \in Statuses /\ "none" \in Leases
  BY LimitAssumption DEF Statuses, Processable, Leases
<1> QED BY <1>1 DEF SubmittedRow, Rows

LEMMA OwnerInv ==
  ASSUME IInv, Owner
  PROVE  IInv' /\ Ordered
<1>1. TypeOK /\ row \in Rows /\ RowOK(row)
  BY RowOKIs DEF IInv
<1>2. CASE UNCHANGED <<row, run, operation, holder, finals, objects, worker,
                       clock, faults, generations>>
           /\ deletion' \in {"idle", "checked"}
  <2>1. StoreOK'
    BY <1>1, <1>2 DEF TypeOK, StoreOK
  <2> QED BY <1>1, <1>2, <2>1, EnvironmentInv DEF Ordered
<1>3. CASE Delete /\ row' = DeletedRow /\ run' = NoRun
           /\ operation' = NoOperation /\ holder' = NoWorker /\ finals' = FALSE
  <2>1. StoreOK'
    <3>1. NoRun \in Runs /\ NoOperation \in Operations
      BY DEF NoRun, Runs, NoOperation, Operations, OperationStatuses
    <3> QED BY <1>1, <1>3, <3>1 DEF TypeOK, StoreOK, Delete
  <2>2. DeletedRow \in Rows
    <3>1. SubmittedRow \in Rows
      BY SubmittedRowType
    <3>2. "DELETED" \in Statuses /\ FALSE \in BOOLEAN
      BY DEF Statuses
    <3> DEFINE c == [SubmittedRow EXCEPT !.status = "DELETED"]
    <3>3. c \in Rows
      BY <3>1, <3>2, RowFieldType, Zenon
    <3>4. [c EXCEPT !.due = FALSE] \in Rows
      <4> HIDE DEF c
      <4> QED BY <3>2, <3>3, RowFieldType, Zenon
    <3> QED BY <3>4 DEF DeletedRow
  <2>3. /\ DeletedRow.status = "DELETED" /\ DeletedRow.lease = "none"
        /\ StageOf(DeletedRow) = "DELETED" /\ RowOK(DeletedRow)
    <3>1. DeletedRow.status = "DELETED" /\ DeletedRow.lease = "none"
      BY DEF DeletedRow, SubmittedRow
    <3> QED BY <3>1 DEF StageOf, RowOK
  <2>4. \A v \in Workers : ~HoldsLease(row', v)
    BY <1>3, <2>3 DEF HoldsLease
  <2>5. IInv'
    BY <1>3, <2>1, <2>2, <2>3, <2>4, EnvironmentInv, NoWorkerAssumption DEF Delete
  <2>6. StageOf(row) \in Stages \cup {"COMPLETED", "FAILED", "DELETED"}
    BY <1>1 DEF Rows, RowOK, StageOf, Statuses, Processable, Stages
  <2>7. \A s \in Stages \cup {"COMPLETED", "FAILED"} :
            "DELETED" \in Abstract!Follows[s]
    BY DEF Stages, Abstract!Follows, Abstract!Working, Abstract!Ended
  <2> QED BY <1>3, <2>3, <2>5, <2>6, <2>7 DEF Ordered
<1> QED BY <1>2, <1>3 DEF Owner, CheckDeletion, Delete, metaVars

LEMMA PauseInAdsManagerInv ==
  ASSUME IInv, NEW o \in Objects, PauseInAdsManager(o)
  PROVE  IInv' /\ Ordered
<1>1. TypeOK /\ row \in Rows /\ RowOK(row)
  BY RowOKIs DEF IInv
<1>2. StoreOK' /\ UNCHANGED <<row, worker, holder, operation>>
  BY <1>1, FaultType DEF PauseInAdsManager, TypeOK, StoreOK, Configured, draftVars
<1> QED BY <1>1, <1>2, EnvironmentInv DEF Ordered

LEMMA InitInv ==
  ASSUME Init
  PROVE  IInv /\ StageOf(row) = "GENERATING"
<1>1. row = SubmittedRow /\ row \in Rows
  BY SubmittedRowType DEF Init
<1>2. /\ row.status = "SUBMITTED" /\ ~row.materialized /\ row.lease = "none"
      /\ StageOf(row) = "GENERATING"
  BY <1>1 DEF SubmittedRow, StageOf
<1>3. worker \in [Workers -> WorkerStates]
  BY IdleType DEF Init
<1>4. run \in Runs /\ operation \in Operations
  BY DEF Init, NoRun, Runs, NoOperation, Operations, OperationStatuses
<1>5. TypeOK
  BY <1>1, <1>3, <1>4 DEF Init, TypeOK, Configured
<1>6. RowOK(row)
  BY <1>2 DEF RowOK
<1>7. ASSUME NEW w \in Workers PROVE WorkerInv(w) /\ DraftInv(w)
  <2>1. worker[w] = IdleWorker
    BY DEF Init
  <2> QED BY <1>2, <2>1, IdleType DEF WorkerInv, HoldsLease, DraftInv, At, IdleWorker
<1> QED BY <1>2, <1>5, <1>6, <1>7 DEF IInv

LEMMA WorkerStepInv ==
  ASSUME IInv, NEW w \in Workers, WorkerStep(w)
  PROVE  IInv' /\ Ordered
<1>1. CASE Renew(w)            BY <1>1, RenewInv
<1>2. CASE Commit(w)           BY <1>2, CommitInv
<1>3. CASE Catch(w)            BY <1>3, CatchInv
<1>4. CASE Generate(w)         BY <1>4, GenerateMoves, MovesInv
<1>5. CASE Prepare(w)          BY <1>5, PrepareMoves, MovesInv
<1>6. CASE AcquireOperation(w) BY <1>6, AcquireOperationMoves, MovesInv
<1>7. CASE BeginOrComplete(w)  BY <1>7, BeginOrCompleteMoves, MovesInv
<1>8. CASE CreateObject(w)     BY <1>8, CreateObjectMoves, MovesInv
<1>9. CASE RegisterRun(w)      BY <1>9, RegisterRunMoves, MovesInv
<1>10. CASE Observe(w)         BY <1>10, ObserveMoves, MovesInv
<1>11. CASE Ready(w)           BY <1>11, ReadyMoves, MovesInv
<1>12. CASE Activate(w)        BY <1>12, ActivateMoves, MovesInv
<1>13. CASE PauseObject(w)     BY <1>13, PauseObjectMoves, MovesInv
<1>14. CASE PauseVerify(w)     BY <1>14, PauseVerifyMoves, MovesInv
<1>15. CASE UndoRecord(w)      BY <1>15, UndoRecordMoves, MovesInv
<1>16. CASE PauseBegin(w)      BY <1>16, PauseBeginMoves, MovesInv
<1>17. CASE PauseRecord(w)     BY <1>17, PauseRecordMoves, MovesInv
<1>18. CASE Poll(w)            BY <1>18, PollMoves, MovesInv
<1>19. CASE Confirm(w)         BY <1>19, ConfirmMoves, MovesInv
<1>20. CASE CheckDelivery(w)   BY <1>20, CheckDeliveryMoves, MovesInv
<1>21. CASE Collect(w)         BY <1>21, CollectMoves, MovesInv
<1> QED BY <1>1, <1>2, <1>3, <1>4, <1>5, <1>6, <1>7, <1>8, <1>9, <1>10, <1>11,
           <1>12, <1>13, <1>14, <1>15, <1>16, <1>17, <1>18, <1>19, <1>20, <1>21
        DEF WorkerStep

LEMMA NextInv ==
  ASSUME IInv, [Next]_vars
  PROVE  IInv' /\ Ordered
<1>1. ASSUME NEW w \in Workers, Claim(w) \/ WorkerStep(w) \/ Crash(w)
      PROVE  IInv' /\ Ordered
  BY <1>1, ClaimInv, WorkerStepInv, CrashInv
<1>2. ASSUME NEW o \in Objects, PauseInAdsManager(o) PROVE IInv' /\ Ordered
  BY <1>2, PauseInAdsManagerInv
<1>3. CASE Time
  BY <1>3, TimeInv
<1>4. CASE Owner
  BY <1>4, OwnerInv
<1>5. CASE UNCHANGED vars
  <2>1. StoreOK'
    BY <1>5 DEF IInv, TypeOK, StoreOK, vars
  <2> QED BY <1>5, <2>1, EnvironmentInv, RowOKIs DEF vars, Ordered
<1> QED BY <1>1, <1>2, <1>3, <1>4, <1>5 DEF Next

------------------------------------------------------------------------------
(* A retry and the stage that failed *)

LEMMA SameStatusResumes ==
  ASSUME IInv', row'.status = row.status, row'.retryFrom = row.retryFrom
  PROVE  ResumesWhereItStopped
<1>1. row'.status = "GENERATING" => ~row'.materialized
  BY DEF IInv, RowOK, StageOf
<1> QED BY <1>1 DEF ResumesWhereItStopped

\* A worker that holds the lease works on the stage the row is at.
LEMMA HolderStage ==
  ASSUME IInv, NEW w \in Workers, HoldsLease(row, w), ~At(w, "idle")
  PROVE  /\ worker[w].stage = StageOf(row) /\ worker[w].stage \in Stages
         /\ row.status \in Stages => row.status = worker[w].stage
<1>1. row.status \in Processable /\ worker[w].stage = TargetStage(row)
  BY DEF IInv, WorkerInv, Agrees, At
<1>2. TargetStage(row) = StageOf(row) /\ TargetStage(row) \in Stages
  BY <1>1, RowOKIs, TargetStageIsStageOf
<1> QED BY <1>1, <1>2 DEF StageOf, Stages

LEMMA RowStepResumes ==
  ASSUME IInv, IInv', NEW w \in Workers, Renew(w) \/ Commit(w) \/ Catch(w)
  PROVE  ResumesWhereItStopped
<1>1. row \in Rows /\ TypeOK
  BY RowOKIs DEF IInv
<1>2. row'.status = "GENERATING" => ~row'.materialized
  BY DEF IInv, RowOK, StageOf
<1>3. CASE UNCHANGED row
  BY <1>3, SameStatusResumes
<1>4. CASE /\ At(w, "claimed") /\ HoldsLease(row, w)
           /\ row' = Renewed(row, worker[w].stage)
  <2>1. worker[w].stage = StageOf(row) /\ worker[w].stage \in Stages
    BY <1>4, HolderStage DEF At
  <2>2. row'.status = worker[w].stage
    BY <1>1, <1>4 DEF Renewed, Rows
  <2> QED BY <1>2, <2>1, <2>2 DEF ResumesWhereItStopped, StageOf, Stages
<1>5. CASE /\ At(w, "commit") /\ HoldsLease(row, w) /\ row' = CommittedRow(w)
  <2>1. row'.status = worker[w].goal
    BY <1>1, <1>5 DEF CommittedRow, Transitioned, Rows
  <2>2. \/ worker[w].goal = "FAILED"
        \/ worker[w].goal \in After(worker[w].stage) /\ row.status = worker[w].stage
    BY <1>5 DEF IInv, WorkerInv, Agrees, PcOK, At
  <2>3. worker[w].stage \in Stages
    BY <1>1, WorkerFields
  <2>4. worker[w].goal # "RETRY_WAIT"
    BY <2>2, <2>3 DEF After, Later
  <2>5. row.status = "RETRY_WAIT" => worker[w].goal = "FAILED"
    BY <2>2, <2>3 DEF Stages
  <2> QED BY <1>2, <2>1, <2>4, <2>5 DEF ResumesWhereItStopped
<1>6. CASE /\ At(w, "catch") /\ CanTransition(row, w, FailureStatus(w), FALSE)
           /\ row' = Transitioned(row, FailureStatus(w), FALSE, 0, FALSE)
  <2>1. /\ HoldsLease(row, w)
        /\ FailureStatus(w) = "RETRY_WAIT" => row.status \in Stages
    BY <1>6 DEF CanTransition
  <2>2. row'.status = FailureStatus(w)
    BY <1>1, <1>6 DEF Transitioned, Rows
  <2>3. CASE FailureStatus(w) = "RETRY_WAIT"
    <3>1. row'.retryFrom = row.status
      BY <1>1, <1>6, <2>3 DEF Transitioned, Rows
    <3>2. row.status = worker[w].stage /\ row.status # "RETRY_WAIT"
      BY <1>6, <2>1, <2>3, HolderStage DEF At, Stages
    <3> QED BY <1>2, <1>6, <2>1, <2>2, <2>3, <3>1, <3>2 DEF ResumesWhereItStopped
  <2>4. CASE FailureStatus(w) = "FAILED"
    BY <1>2, <2>2, <2>4 DEF ResumesWhereItStopped
  <2> QED BY <2>3, <2>4 DEF FailureStatus
<1>7. CASE Renew(w)
  BY <1>3, <1>4, <1>7 DEF Renew
<1>8. CASE Commit(w)
  BY <1>3, <1>5, <1>8 DEF Commit, CanTransition
<1>9. CASE Catch(w)
  BY <1>3, <1>6, <1>9 DEF Catch
<1> QED BY <1>7, <1>8, <1>9

LEMMA OtherWorkerSteps ==
  ASSUME IInv, NEW w \in Workers, WorkerStep(w)
  PROVE  Renew(w) \/ Commit(w) \/ Catch(w) \/ UNCHANGED row
<1>1. Generate(w) \/ Prepare(w) \/ AcquireOperation(w) \/ BeginOrComplete(w)
      \/ CreateObject(w) \/ RegisterRun(w) => UNCHANGED row
  BY DEF Generate, Prepare, AcquireOperation, BeginOrComplete, CreateObject, RegisterRun
<1>2. Observe(w) \/ Ready(w) \/ Activate(w) \/ PauseObject(w) \/ PauseVerify(w)
      \/ UndoRecord(w) \/ PauseBegin(w) \/ PauseRecord(w) => UNCHANGED row
  BY ObserveMoves, ReadyMoves, ActivateMoves, PauseObjectMoves, PauseVerifyMoves,
     UndoRecordMoves, PauseBeginMoves, PauseRecordMoves DEF Moves
<1>3. Poll(w) \/ Confirm(w) \/ CheckDelivery(w) \/ Collect(w) => UNCHANGED row
  BY PollMoves, ConfirmMoves, CheckDeliveryMoves, CollectMoves DEF Moves
<1> QED BY <1>1, <1>2, <1>3 DEF WorkerStep

LEMMA NextResumes ==
  ASSUME IInv, [Next]_vars
  PROVE  ResumesWhereItStopped
<1>1. IInv' /\ row \in Rows
  BY NextInv, RowOKIs
<1>2. CASE UNCHANGED row
  BY <1>1, <1>2, SameStatusResumes
<1>3. ASSUME NEW w \in Workers, Claim(w) PROVE ResumesWhereItStopped
  <2>1. row' = Claimed(row, w)
    BY <1>3 DEF Claim
  <2>2. row'.status = row.status /\ row'.retryFrom = row.retryFrom
    BY <1>1, <2>1 DEF Claimed, Rows
  <2> QED BY <1>1, <2>2, SameStatusResumes
<1>4. ASSUME NEW w \in Workers, WorkerStep(w) PROVE ResumesWhereItStopped
  BY <1>1, <1>2, <1>4, OtherWorkerSteps, RowStepResumes
<1>5. ASSUME NEW w \in Workers, Crash(w) PROVE ResumesWhereItStopped
  BY <1>2, <1>5 DEF Crash
<1>6. ASSUME NEW o \in Objects, PauseInAdsManager(o) PROVE ResumesWhereItStopped
  BY <1>2, <1>6 DEF PauseInAdsManager
<1>7. CASE Time
  <2>1. \/ UNCHANGED row
        \/ row' = [row EXCEPT !.lease = "expired"]
        \/ row' = [row EXCEPT !.due = TRUE]
    BY <1>7 DEF Time, LeaseExpires, OperationLeaseExpires, BecomeDue, Tick
  <2>2. row'.status = row.status /\ row'.retryFrom = row.retryFrom
    BY <1>1, <2>1 DEF Rows
  <2> QED BY <1>1, <2>2, SameStatusResumes
<1>8. CASE Owner
  <2>1. UNCHANGED row \/ row' = DeletedRow
    BY <1>8 DEF Owner, CheckDeletion, Delete
  <2>2. DeletedRow.status = "DELETED"
    BY DEF DeletedRow, SubmittedRow
  <2>3. CASE row' = DeletedRow
    BY <2>2, <2>3 DEF ResumesWhereItStopped
  <2> QED BY <1>2, <2>1, <2>3
<1>9. CASE UNCHANGED vars
  BY <1>2, <1>9 DEF vars
<1> QED BY <1>3, <1>4, <1>5, <1>6, <1>7, <1>8, <1>9 DEF Next

------------------------------------------------------------------------------
(* The theorems *)

\* Every reachable state is well typed, with the attempt counters of the row
\* inside their limits and at most the two checkpoints of the draft.
THEOREM TypeCorrect == Spec => []TypeOK
<1>1. Init => IInv
  BY InitInv
<1>2. IInv /\ [Next]_vars => IInv'
  BY NextInv
<1>3. IInv => TypeOK
  BY DEF IInv
<1> QED BY <1>1, <1>2, <1>3, PTL DEF Spec

\* A campaign waits for a retry of the stage that failed, keeps it while it waits
\* and goes on in it, however many workers there are and whenever their leases
\* expire.
THEOREM RetryBookkeeping == Spec => RetryResumesWhereItStopped
<1>1. Init => IInv
  BY InitInv
<1>2. IInv /\ [Next]_vars => IInv'
  BY NextInv
<1>3. IInv /\ [Next]_vars => [ResumesWhereItStopped]_vars
  BY NextResumes
<1> QED BY <1>1, <1>2, <1>3, PTL DEF Spec, RetryResumesWhereItStopped

\* No stage is skipped, redone or revived, whatever workers, crashes and late
\* calls do: the lifecycle implements the order of CampaignPromise.
THEOREM StageOrderKept == Spec => FollowsStageOrder
<1>1. Init => IInv /\ StageOf(row) = "GENERATING"
  BY InitInv
<1>2. IInv /\ [Next]_vars => IInv'
  BY NextInv
<1>3. IInv /\ [Next]_vars =>
        [StageOf(row)' \in Abstract!Follows[StageOf(row)]]_(StageOf(row))
  BY NextInv DEF Ordered, StageOf
<1> QED BY <1>1, <1>2, <1>3, PTL DEF Spec, FollowsStageOrder, Abstract!StageOrder

(***************************************************************************)
(* The lease.                                                              *)
(***************************************************************************)
LeaseInv == \A w \in Workers : Acting(w) => HoldsLease(row, w)

LEMMA MovesLease ==
  ASSUME IInv, LeaseInv, NEW w \in Workers, Moves(w)
  PROVE  LeaseInv'
<1>1. PICK r \in WorkerStates : worker' = [worker EXCEPT ![w] = r]
  BY DEF Moves, Continues
<1>2. ASSUME NEW v \in Workers, Acting(v)' PROVE HoldsLease(row, v)'
  <2>1. Acting(v)
    <3>1. CASE v = w
      BY <1>2, <3>1 DEF Moves, Acting
    <3>2. CASE v # w
      BY <1>1, <1>2, <3>2 DEF IInv, TypeOK, Acting
    <3> QED BY <3>1, <3>2
  <2> QED BY <2>1 DEF LeaseInv, Moves, HoldsLease
<1> QED BY <1>2 DEF LeaseInv

\* A step of the worker that holds or takes the lease; no other one acts.
LEMMA SoleActor ==
  ASSUME IInv, LeaseInv, NEW w \in Workers, NEW r \in WorkerStates,
         worker' = [worker EXCEPT ![w] = r],
         HoldsLease(row, w) \/ row.lease # "live",
         r.pc \notin {"idle", "claimed", "commit", "catch"} => HoldsLease(row', w)
  PROVE  LeaseInv'
<1>1. ASSUME NEW v \in Workers, Acting(v)' PROVE HoldsLease(row, v)'
  <2>1. CASE v = w
    <3>1. worker'[w] = r
      BY DEF IInv, TypeOK
    <3> QED BY <1>1, <2>1, <3>1 DEF Acting, HoldsLease
  <2>2. CASE v # w
    <3>1. Acting(v)
      BY <1>1, <2>2 DEF IInv, TypeOK, Acting
    <3> QED BY <2>2, <3>1 DEF LeaseInv, HoldsLease
  <2> QED BY <2>1, <2>2
<1> QED BY <1>1 DEF LeaseInv

LEMMA ClaimLease ==
  ASSUME IInv, LeaseInv, NEW w \in Workers, Claim(w)
  PROVE  LeaseInv'
<1>1. PICK pc \in {"commit", "claimed"} :
        worker' = [worker EXCEPT ![w] =
          [IdleWorker EXCEPT !.pc = pc, !.stage = TargetStage(row),
                             !.attempts = row.stageAttempts, !.goal = "FAILED"]]
  BY DEF Claim
<1>2. ASSUME NEW v \in Workers, Acting(v)' PROVE FALSE
  <2>1. CASE v = w
    BY <1>1, <1>2, <2>1 DEF IInv, TypeOK, Acting, IdleWorker
  <2>2. CASE v # w
    BY <1>1, <1>2, <2>2 DEF IInv, TypeOK, Acting, LeaseInv, HoldsLease, Claim,
         Claimable
  <2> QED BY <2>1, <2>2
<1> QED BY <1>2 DEF LeaseInv

LEMMA RenewLease ==
  ASSUME IInv, LeaseInv, NEW w \in Workers, Renew(w)
  PROVE  LeaseInv'
<1>1. StoreOK' /\ UNCHANGED draftVars
  BY FaultType DEF IInv, TypeOK, StoreOK, Renew, metaVars, draftVars
<1>2. CASE UNCHANGED row /\ Throw(w, "transient")
  <2>1. ~At(w, "idle")
    BY DEF Renew, At
  <2> QED BY <1>1, <1>2, <2>1, ThrowMoves, MovesLease
<1>3. CASE HoldsLease(row, w) /\ row' = Renewed(row, worker[w].stage)
  <2>1. HoldsLease(row', w)
    BY <1>3, RowOKIs DEF HoldsLease, Renewed, Rows
  <2>2. PICK r : worker' = [worker EXCEPT ![w] = r]
    BY DEF Renew, Throw
  <2>3. IInv'
    BY RenewInv
  <2>4. r \in WorkerStates
    BY <2>2, <2>3 DEF IInv, TypeOK
  <2> QED BY <1>3, <2>1, <2>2, <2>4, SoleActor
<1> QED BY <1>2, <1>3 DEF Renew

LEMMA CommitLease ==
  ASSUME IInv, LeaseInv, NEW w \in Workers, Commit(w) \/ Catch(w)
  PROVE  LeaseInv'
<1>1. StoreOK' /\ UNCHANGED draftVars
  BY FaultType DEF IInv, TypeOK, StoreOK, Commit, Catch, metaVars, draftVars
<1>2. CASE UNCHANGED row /\ (Throw(w, "transient") \/ Return(w))
  <2>1. ~At(w, "idle")
    BY DEF Commit, Catch, At
  <2> QED BY <1>1, <1>2, <2>1, ThrowMoves, ReturnMoves, MovesLease
<1>3. CASE HoldsLease(row, w) /\ (Return(w) \/ Throw(w, "transient"))
  <2>1. PICK r \in WorkerStates : /\ worker' = [worker EXCEPT ![w] = r]
                                  /\ r.pc \in {"idle", "catch"}
    BY <1>3, AfterTransition DEF IInv
  <2> QED BY <1>3, <2>1, SoleActor
<1> QED BY <1>2, <1>3 DEF Commit, Catch, CanTransition

LEMMA CrashLease ==
  ASSUME IInv, LeaseInv, NEW w \in Workers, Crash(w)
  PROVE  LeaseInv'
<1>1. StoreOK'
  BY FaultType DEF IInv, TypeOK, StoreOK, Crash, metaVars
<1> QED BY <1>1, ReturnMoves, MovesLease DEF Crash, metaVars, draftVars

LEMMA EnvironmentLease ==
  ASSUME IInv, LeaseInv, LeaseOutlivesStep,
         \/ Time \/ Owner \/ UNCHANGED vars
         \/ \E o \in Objects : PauseInAdsManager(o)
  PROVE  LeaseInv'
<1>1. CASE UNCHANGED <<row, worker>>
  BY <1>1 DEF LeaseInv, Acting, HoldsLease
<1>2. CASE LeaseExpires
  <2>1. \A w \in Workers : row.token = w => At(w, "idle")
    BY <1>2 DEF LeaseExpires, Expires
  <2>2. \A w \in Workers : ~Acting(w)
    BY <2>1 DEF LeaseInv, HoldsLease, Acting, At
  <2> QED BY <1>2, <2>2 DEF LeaseExpires, LeaseInv, Acting
<1>3. CASE BecomeDue
  BY <1>3, RowOKIs DEF BecomeDue, LeaseInv, Acting, HoldsLease, Rows
<1>4. CASE Delete /\ Deletable
  <2>1. \A w \in Workers : ~Acting(w)
    BY <1>4 DEF LeaseInv, HoldsLease, Deletable
  <2> QED BY <1>4, <2>1 DEF Delete, LeaseInv, Acting
<1> QED BY <1>1, <1>2, <1>3, <1>4
      DEF Time, OperationLeaseExpires, Tick, Owner, CheckDeletion, Delete, vars,
          metaVars, PauseInAdsManager

LEMMA NextLease ==
  ASSUME IInv, LeaseInv, LeaseOutlivesStep, [Next]_vars
  PROVE  LeaseInv'
<1>1. ASSUME NEW w \in Workers, WorkerStep(w) PROVE LeaseInv'
  <2>1. CASE Renew(w)
    BY <2>1, RenewLease
  <2>2. CASE Commit(w) \/ Catch(w)
    BY <2>2, CommitLease
  <2>3. CASE \/ Generate(w) \/ Prepare(w) \/ AcquireOperation(w)
             \/ BeginOrComplete(w) \/ CreateObject(w) \/ RegisterRun(w)
             \/ Observe(w) \/ Ready(w) \/ Activate(w) \/ PauseObject(w)
    BY <2>3, MovesLease, GenerateMoves, PrepareMoves, AcquireOperationMoves,
       BeginOrCompleteMoves, CreateObjectMoves, RegisterRunMoves, ObserveMoves,
       ReadyMoves, ActivateMoves, PauseObjectMoves
  <2>4. CASE \/ PauseVerify(w) \/ UndoRecord(w) \/ PauseBegin(w) \/ PauseRecord(w)
             \/ Poll(w) \/ Confirm(w) \/ CheckDelivery(w) \/ Collect(w)
    BY <2>4, MovesLease, PauseVerifyMoves, UndoRecordMoves, PauseBeginMoves,
       PauseRecordMoves, PollMoves, ConfirmMoves, CheckDeliveryMoves, CollectMoves
  <2> QED BY <1>1, <2>1, <2>2, <2>3, <2>4 DEF WorkerStep
<1>2. ASSUME NEW w \in Workers, Claim(w) \/ Crash(w) PROVE LeaseInv'
  BY <1>2, ClaimLease, CrashLease
<1> QED BY <1>1, <1>2, EnvironmentLease DEF Next

\* Two workers never act on Meta, the generator or the run at the same time,
\* if a lease always outlives the step it covers: the claim alone excludes
\* them, there is no other lock around those calls.
THEOREM OneActorAtATime == LeaseOutlivesStep /\ Spec => []OneActor
<1> SUFFICES ASSUME LeaseOutlivesStep PROVE Spec => []OneActor
  OBVIOUS
<1>1. Init => IInv /\ LeaseInv
  <2>1. Init => \A w \in Workers : worker[w].pc = "idle"
    <3>1. IdleWorker.pc = "idle"
      BY DEF IdleWorker
    <3> QED BY <3>1 DEF Init
  <2>2. Init => IInv
    BY InitInv
  <2>3. Init => LeaseInv
    BY <2>1 DEF LeaseInv, Acting
  <2> QED BY <2>2, <2>3
<1>2. IInv /\ LeaseInv /\ [Next]_vars => IInv' /\ LeaseInv'
  BY NextInv, NextLease
<1>3. LeaseInv => OneActor
  BY DEF LeaseInv, OneActor, HoldsLease
<1> QED BY <1>1, <1>2, <1>3, PTL DEF Spec

(***************************************************************************)
(* The copy generator.                                                     *)
(***************************************************************************)
Callers == {w \in Workers : At(w, "generate")}

BoundInv ==
    /\ row.status # "DELETED" =>
          generations + Cardinality(Callers) <= row.generationAttempts
    /\ generations + Cardinality(Callers) <= GenerationLimit

LEMMA CallersFinite ==
  ASSUME IsFiniteSet(Workers)
  PROVE  /\ IsFiniteSet(Callers) /\ Cardinality(Callers) \in Nat
         /\ IsFiniteSet(Callers') /\ Cardinality(Callers') \in Nat
<1>1. Callers \in SUBSET Workers /\ Callers' \in SUBSET Workers
  BY DEF Callers
<1>2. IsFiniteSet(Callers) /\ IsFiniteSet(Callers')
  BY <1>1, FS_Subset
<1> QED BY <1>2, FS_CardinalityType

\* A step that makes no call and lets nobody reach one.
LEMMA NoCallBound ==
  ASSUME IInv, BoundInv, IsFiniteSet(Workers), UNCHANGED generations,
         Callers' \subseteq Callers,
         \/ row'.status = "DELETED"
         \/ row.status # "DELETED" /\ row'.generationAttempts = row.generationAttempts
  PROVE  BoundInv'
<1>1. Cardinality(Callers') <= Cardinality(Callers)
  BY CallersFinite, FS_Subset
<1>2. generations \in Nat /\ row.generationAttempts \in Nat /\ GenerationLimit \in Nat
  BY LimitAssumption, RowOKIs DEF IInv, TypeOK, Rows
<1> HIDE DEF Callers
<1> QED BY <1>1, <1>2, CallersFinite DEF BoundInv

\* The worker that moves does not reach its call, and no other moves.
LEMMA CallersLess ==
  ASSUME TypeOK, NEW w \in Workers, NEW r,
         worker' = [worker EXCEPT ![w] = r], r.pc # "generate"
  PROVE  Callers' = Callers \ {w}
<1>1. ASSUME NEW v \in Workers
      PROVE  worker'[v].pc = "generate" <=> worker[v].pc = "generate" /\ v # w
  BY DEF TypeOK
<1> QED BY <1>1 DEF Callers, At

LEMMA MovesBound ==
  ASSUME IInv, BoundInv, IsFiniteSet(Workers), NEW w \in Workers, Moves(w),
         UNCHANGED generations
  PROVE  BoundInv'
<1>1. PICK r \in WorkerStates : /\ worker' = [worker EXCEPT ![w] = r]
                                /\ r.pc # "generate"
  BY DEF Moves, Continues
<1>2. Callers' = Callers \ {w}
  BY <1>1, CallersLess DEF IInv
<1>3. UNCHANGED row
  BY DEF Moves
<1> HIDE DEF Callers
<1> QED BY <1>2, <1>3, NoCallBound

\* The call: one caller less, one generation more.
LEMMA GenerateBound ==
  ASSUME IInv, BoundInv, IsFiniteSet(Workers), NEW w \in Workers, Generate(w)
  PROVE  BoundInv'
<1>1. PICK r \in WorkerStates : /\ worker' = [worker EXCEPT ![w] = r]
                                /\ r.pc # "generate"
  BY GenerateMoves DEF Moves, Continues
<1>2. Callers' = Callers \ {w} /\ w \in Callers
  <2>1. Callers' = Callers \ {w}
    BY <1>1, CallersLess DEF IInv
  <2> QED BY <2>1 DEF Generate, Callers
<1>3. generations' = generations + 1 /\ UNCHANGED row
  BY DEF Generate
<1>4. generations \in Nat /\ row.generationAttempts \in Nat /\ GenerationLimit \in Nat
  BY LimitAssumption, RowOKIs DEF IInv, TypeOK, Rows
<1> HIDE DEF Callers
<1>5. Cardinality(Callers') = Cardinality(Callers) - 1
  BY <1>2, CallersFinite, FS_RemoveElement
<1> QED BY <1>3, <1>4, <1>5, CallersFinite DEF BoundInv

\* The renewal: at most one caller more, and one attempt more in the row.
LEMMA RenewBound ==
  ASSUME IInv, BoundInv, IsFiniteSet(Workers), NEW w \in Workers, Renew(w)
  PROVE  BoundInv'
<1>1. row \in Rows /\ TypeOK /\ row' \in Rows /\ UNCHANGED generations
  BY RowOKIs, RenewInv DEF IInv, TypeOK, Renew
<1>2. CASE UNCHANGED row /\ Throw(w, "transient")
  <2>1. StoreOK' /\ UNCHANGED draftVars
    BY <1>1, FaultType DEF TypeOK, StoreOK, Renew, metaVars, draftVars
  <2>2. Moves(w)
    <3>1. ~At(w, "idle")
      BY DEF Renew, At
    <3> QED BY <1>2, <2>1, <3>1, ThrowMoves
  <2> QED BY <1>1, <2>2, MovesBound
<1>3. CASE HoldsLease(row, w) /\ row' = Renewed(row, worker[w].stage)
  <2>1. row.status \in Processable /\ worker[w].stage \in Stages
    BY <1>1, <1>3, WorkerFields DEF IInv, WorkerInv, Agrees
  <2>2. row.status # "DELETED"
    BY <2>1 DEF Processable, Stages
  <2>3. row'.status # "DELETED"
    BY <1>1, <1>3, <2>1 DEF Renewed, Rows, Stages
  <2>4. /\ row'.generationAttempts \in 0..GenerationLimit
        /\ row'.generationAttempts = row.generationAttempts
              + (IF worker[w].stage = "GENERATING" THEN 1 ELSE 0)
    <3>1. row'.generationAttempts = IF worker[w].stage = "GENERATING"
                                    THEN row.generationAttempts + 1
                                    ELSE row.generationAttempts
      BY <1>1, <1>3 DEF Renewed, Rows
    <3>2. /\ row.generationAttempts \in Nat
          /\ row'.generationAttempts \in 0..GenerationLimit
      BY <1>1 DEF Rows
    <3> QED BY <3>1, <3>2
  <2>5. generations \in Nat /\ row.generationAttempts \in Nat /\ GenerationLimit \in Nat
    BY <1>1, LimitAssumption DEF TypeOK, Rows
  <2>6. Cardinality(Callers') <= Cardinality(Callers)
                + (IF worker[w].stage = "GENERATING" THEN 1 ELSE 0)
    <3>1. PICK r : worker' = [worker EXCEPT ![w] = r] /\ (r.pc = "generate" =>
                                              worker[w].stage = "GENERATING")
      <4>1. CASE Throw(w, "transient")
        BY <1>1, <4>1, AfterTransition
      <4>2. CASE worker' = [worker EXCEPT ![w] = RenewedWorker(w)]
        <5>1. RenewedWorker(w).pc = CASE worker[w].stage = "GENERATING" -> "generate"
                                      [] worker[w].stage = "PREPARING"  -> "prepare"
                                      [] OTHER                          -> "observe"
          BY <1>1, WorkerFields DEF RenewedWorker, WorkerStates
        <5> QED BY <4>2, <5>1
      <4> QED BY <4>1, <4>2 DEF Renew
    <3>2. CASE r.pc # "generate"
      <4>1. Callers' \subseteq Callers
        BY <1>1, <3>1, <3>2, CallersLess
      <4>2. Cardinality(Callers') <= Cardinality(Callers)
        BY <4>1, CallersFinite, FS_Subset
      <4> QED BY <4>2, CallersFinite
    <3>3. CASE r.pc = "generate"
      <4>1. Callers' \subseteq Callers \cup {w}
        BY <1>1, <3>1 DEF TypeOK, Callers, At
      <4>2. IsFiniteSet(Callers \cup {w})
            /\ Cardinality(Callers \cup {w}) \in {Cardinality(Callers),
                                                  Cardinality(Callers) + 1}
        BY CallersFinite, FS_AddElement
      <4>3. Cardinality(Callers') <= Cardinality(Callers \cup {w})
        BY <4>1, <4>2, FS_Subset
      <4>4. worker[w].stage = "GENERATING"
        BY <3>1, <3>3
      <4> QED BY <4>2, <4>3, <4>4, CallersFinite
    <3> QED BY <3>2, <3>3
  <2> HIDE DEF Callers
  <2> QED BY <1>1, <2>2, <2>4, <2>5, <2>6, CallersFinite DEF BoundInv
<1> QED BY <1>2, <1>3 DEF Renew

LEMMA TransitionBound ==
  ASSUME IInv, BoundInv, IsFiniteSet(Workers), NEW w \in Workers,
         Commit(w) \/ Catch(w)
  PROVE  BoundInv'
<1>1. row \in Rows /\ TypeOK /\ UNCHANGED generations
  BY RowOKIs DEF IInv, Commit, Catch
<1>2. Callers' \subseteq Callers
  <2>1. PICK r \in WorkerStates : /\ worker' = [worker EXCEPT ![w] = r]
                                  /\ r.pc \in {"idle", "catch"}
    BY <1>1, AfterTransition DEF Commit, Catch
  <2> QED BY <1>1, <2>1, CallersLess
<1>3. CASE UNCHANGED row
  BY <1>1, <1>2, <1>3, NoCallBound DEF BoundInv
<1>4. CASE /\ HoldsLease(row, w)
           /\ row'.generationAttempts = row.generationAttempts
  <2>1. row.status # "DELETED"
    BY <1>4 DEF IInv, WorkerInv, Agrees, Processable, Stages
  <2> QED BY <1>1, <1>2, <1>4, <2>1, NoCallBound
<1> QED BY <1>1, <1>3, <1>4
        DEF Commit, Catch, CanTransition, CommittedRow, Transitioned, Rows

LEMMA WorkerBound ==
  ASSUME IInv, BoundInv, IsFiniteSet(Workers), NEW w \in Workers,
         Claim(w) \/ WorkerStep(w) \/ Crash(w)
  PROVE  BoundInv'
<1>1. CASE Claim(w)
  <2>1. PICK pc \in {"commit", "claimed"} :
          worker' = [worker EXCEPT ![w] =
            [IdleWorker EXCEPT !.pc = pc, !.stage = TargetStage(row),
                               !.attempts = row.stageAttempts, !.goal = "FAILED"]]
    BY <1>1 DEF Claim
  <2>2. Callers' = Callers \ {w}
    <3> DEFINE r == [IdleWorker EXCEPT !.pc = pc, !.stage = TargetStage(row),
                               !.attempts = row.stageAttempts, !.goal = "FAILED"]
    <3>1. r.pc # "generate"
      BY DEF IdleWorker
    <3>2. worker' = [worker EXCEPT ![w] = r]
      BY <2>1
    <3> HIDE DEF r
    <3> QED BY <3>1, <3>2, CallersLess DEF IInv
  <2>3. row'.generationAttempts = row.generationAttempts
    BY <1>1, RowOKIs DEF Claim, Claimed, Rows
  <2>4. row.status # "DELETED" /\ UNCHANGED generations
    BY <1>1 DEF Claim, Claimable, Processable, Stages
  <2> HIDE DEF Callers
  <2> QED BY <2>2, <2>3, <2>4, NoCallBound
<1>2. CASE Crash(w)
  <2>1. worker' = [worker EXCEPT ![w] = IdleWorker] /\ UNCHANGED <<row, generations>>
    BY <1>2 DEF Crash, Return
  <2>2. Callers' = Callers \ {w}
    <3>1. IdleWorker.pc # "generate"
      BY DEF IdleWorker
    <3> QED BY <2>1, <3>1, CallersLess DEF IInv
  <2> HIDE DEF Callers
  <2> QED BY <2>1, <2>2, NoCallBound
<1>3. CASE Renew(w)
  BY <1>3, RenewBound
<1>4. CASE Commit(w) \/ Catch(w)
  BY <1>4, TransitionBound
<1>5. CASE Generate(w)
  BY <1>5, GenerateBound
<1>6. ASSUME Moves(w), UNCHANGED generations PROVE BoundInv'
  BY <1>6, MovesBound
<1>7. CASE \/ Prepare(w) \/ AcquireOperation(w) \/ BeginOrComplete(w)
           \/ CreateObject(w) \/ RegisterRun(w) \/ Observe(w) \/ Ready(w)
           \/ Activate(w) \/ PauseObject(w)
  <2>1. Moves(w)
    BY <1>7, PrepareMoves, AcquireOperationMoves, BeginOrCompleteMoves,
       CreateObjectMoves, RegisterRunMoves, ObserveMoves, ReadyMoves,
       ActivateMoves, PauseObjectMoves
  <2>2. UNCHANGED generations
    BY <1>7 DEF Prepare, AcquireOperation, BeginOrComplete, CreateObject,
                RegisterRun, Observe, Ready, Activate, PauseObject
  <2> QED BY <1>6, <2>1, <2>2
<1>8. CASE \/ PauseVerify(w) \/ UndoRecord(w) \/ PauseBegin(w) \/ PauseRecord(w)
           \/ Poll(w) \/ Confirm(w) \/ CheckDelivery(w) \/ Collect(w)
  <2>1. Moves(w)
    BY <1>8, PauseVerifyMoves, UndoRecordMoves, PauseBeginMoves, PauseRecordMoves,
       PollMoves, ConfirmMoves, CheckDeliveryMoves, CollectMoves
  <2>2. UNCHANGED generations
    BY <1>8 DEF PauseVerify, UndoRecord, PauseBegin, PauseRecord, Poll, Confirm,
                CheckDelivery, Collect
  <2> QED BY <1>6, <2>1, <2>2
<1> QED BY <1>1, <1>2, <1>3, <1>4, <1>5, <1>7, <1>8 DEF WorkerStep

LEMMA EnvironmentBound ==
  ASSUME IInv, BoundInv, IsFiniteSet(Workers),
         \/ Time \/ Owner \/ UNCHANGED vars
         \/ \E o \in Objects : PauseInAdsManager(o)
  PROVE  BoundInv'
<1>1. UNCHANGED <<worker, generations>>
  BY DEF Time, LeaseExpires, OperationLeaseExpires, BecomeDue, Tick, Owner,
         CheckDeletion, Delete, PauseInAdsManager, vars
<1>2. Callers' = Callers
  BY <1>1 DEF Callers, At
<1>3. \/ row'.status = "DELETED"
      \/ /\ row'.status = row.status
         /\ row'.generationAttempts = row.generationAttempts
  BY RowOKIs DEF Time, LeaseExpires, OperationLeaseExpires, BecomeDue, Tick, Owner,
     CheckDeletion, Delete, PauseInAdsManager, vars, DeletedRow, SubmittedRow, Rows
<1> HIDE DEF Callers
<1> QED BY <1>1, <1>2, <1>3, NoCallBound

\* The generator is called at most GenerationLimit times for a campaign, with
\* any finite number of workers, and though they may outlive their leases or
\* crash between the renewal and the call (generation_attempts is raised by the
\* renewal, and the claim gives up at the limit).
THEOREM GenerationsBounded == IsFiniteSet(Workers) /\ Spec => []GenerationBound
<1> SUFFICES ASSUME IsFiniteSet(Workers) PROVE Spec => []GenerationBound
  OBVIOUS
<1>1. Init => IInv /\ BoundInv
  <2> SUFFICES ASSUME Init PROVE IInv /\ BoundInv
    OBVIOUS
  <2>1. Callers = {}
    BY DEF Init, IdleWorker, Callers, At
  <2>2. Cardinality(Callers) = 0
    BY <2>1, FS_EmptySet
  <2>3. /\ generations = 0 /\ row.generationAttempts = 0 /\ GenerationLimit \in Nat
    BY LimitAssumption DEF Init, SubmittedRow
  <2> QED BY <2>2, <2>3, InitInv DEF BoundInv
<1>2. IInv /\ BoundInv /\ [Next]_vars => IInv' /\ BoundInv'
  BY NextInv, WorkerBound, EnvironmentBound DEF Next
<1>3. IInv /\ BoundInv => GenerationBound
  <2> SUFFICES ASSUME IInv, BoundInv PROVE GenerationBound
    OBVIOUS
  <2>1. generations \in Nat /\ GenerationLimit \in Nat
    BY LimitAssumption DEF IInv, TypeOK
  <2> HIDE DEF Callers
  <2> QED BY <2>1, CallersFinite DEF BoundInv, GenerationBound
<1> QED BY <1>1, <1>2, <1>3, PTL DEF Spec
------------------------------------------------------------------------------
(* The run, the objects and the final snapshot, while leases outlive steps *)

\* A run that does not exist or is recorded PAUSED delivers nothing.
Quiet == run.status \in {"NONE", "PAUSED"} => AllPaused(objects)

\* What the worker in the middle of an activation, a pause or a finalization
\* relies on.
Underway(r) ==
    /\ r.pc \in {"activate", "undo", "undoVerify", "undoRecord"} =>
          run.status = "ACTIVATING"
    /\ r.pc = "pauseRecord" => AllPaused(objects)
    /\ r.pc = "collect" /\ r.stage = "FINALIZING" => run.status = "PAUSED"
    /\ r.pc = "commit" /\ r.goal = "COMPLETED" => run.status = "PAUSED" /\ finals

SafeInv ==
    /\ LeaseInv
    /\ Quiet
    /\ CompletedIsSettled
    /\ \A w \in Workers : HoldsLease(row, w) => Underway(worker[w])

\* What a step leaves its worker with.
LEMMA Became ==
  ASSUME TypeOK, NEW w \in Workers
  PROVE  /\ \A err \in {"transient", "permanent"} :
               Throw(w, err) => worker'[w].pc = "catch"
         /\ \A goal \in Statuses, endsAt \in Nat : CommitTo(w, goal, endsAt) =>
               worker'[w].pc = "commit" /\ worker'[w].goal = goal
         /\ \A pc \in PCs : Goto(w, pc) =>
               worker'[w].pc = pc /\ worker'[w].stage = worker[w].stage
         /\ \A pc \in PCs : Loop(w, pc) => worker'[w].pc = pc
<1>1. /\ worker \in [Workers -> WorkerStates] /\ worker[w] \in WorkerStates
      /\ IdleWorker \in WorkerStates
  BY IdleType DEF TypeOK
<1>2. ASSUME NEW err \in {"transient", "permanent"}, Throw(w, err)
      PROVE  worker'[w].pc = "catch"
  BY <1>1, <1>2 DEF Throw, WorkerStates
<1>3. ASSUME NEW goal \in Statuses, NEW endsAt \in Nat, CommitTo(w, goal, endsAt)
      PROVE  worker'[w].pc = "commit" /\ worker'[w].goal = goal
  BY <1>1, <1>3 DEF CommitTo, WorkerStates
<1>4. ASSUME NEW pc \in PCs, Goto(w, pc)
      PROVE  worker'[w].pc = pc /\ worker'[w].stage = worker[w].stage
  BY <1>1, <1>4 DEF Goto, WorkerStates
<1>5. ASSUME NEW pc \in PCs, Loop(w, pc) PROVE worker'[w].pc = pc
  BY <1>1, <1>5 DEF Loop, WorkerStates
<1> QED BY <1>2, <1>3, <1>4, <1>5

\* The step of a worker that acts: no other holds the lease, the campaign is
\* still processed, and nothing else can be affected.
LEMMA ActingSafe ==
  ASSUME IInv, SafeInv, NEW w \in Workers, Acting(w), Moves(w),
         Quiet', Underway(worker[w])'
  PROVE  SafeInv'
<1>1. HoldsLease(row, w) /\ UNCHANGED row /\ LeaseInv'
  BY MovesLease DEF SafeInv, LeaseInv, Moves
<1>2. \A v \in Workers : HoldsLease(row, v)' => v = w
  BY <1>1 DEF HoldsLease
<1>3. row.status # "COMPLETED"
  BY <1>1 DEF IInv, WorkerInv, Agrees, Processable, Stages
<1>4. CompletedIsSettled'
  BY <1>1, <1>3 DEF CompletedIsSettled
<1> QED BY <1>1, <1>2, <1>4 DEF SafeInv

\* A step of a worker that leaves the run and the objects alone and reaches
\* none of the program counters Underway speaks of.
LEMMA IdlySafe ==
  ASSUME IInv, SafeInv, NEW w \in Workers, Acting(w), Moves(w),
         UNCHANGED <<run, objects>>,
         \/ worker'[w].pc \notin {"activate", "undo", "undoVerify", "undoRecord",
                                  "pauseRecord", "collect", "commit"}
         \/ worker'[w].pc = "commit" /\ worker'[w].goal # "COMPLETED"
  PROVE  SafeInv'
<1>1. Quiet'
  BY DEF SafeInv, Quiet, AllPaused
<1>2. Underway(worker[w])'
  BY DEF Underway
<1> QED BY <1>1, <1>2, ActingSafe

LEMMA EarlySafe ==
  ASSUME IInv, SafeInv, NEW w \in Workers,
         \/ Generate(w) \/ Prepare(w) \/ AcquireOperation(w)
         \/ BeginOrComplete(w) \/ CreateObject(w)
  PROVE  SafeInv'
<1>1. TypeOK /\ Moves(w) /\ Acting(w)
  BY GenerateMoves, PrepareMoves, AcquireOperationMoves, BeginOrCompleteMoves,
     CreateObjectMoves DEF IInv, Generate, Prepare, AcquireOperation,
     BeginOrComplete, CreateObject, At, Acting
<1>2. UNCHANGED <<run, objects>>
  BY DEF Generate, Prepare, AcquireOperation, BeginOrComplete, CreateObject, metaVars
<1>3. \/ worker'[w].pc \in {"acquire", "write", "writing", "register", "catch"}
      \/ worker'[w].pc = "commit" /\ worker'[w].goal # "COMPLETED"
  <2>1. /\ run.endsAt \in Nat /\ worker[w].now + Duration \in Nat /\ 0 \in Nat
        /\ {"PREPARING", "AWAITING_ACTIVATION"} \subseteq Statuses
        /\ {"acquire", "write", "writing", "register"} \subseteq PCs
    BY <1>1, WorkerFields, BudgetAssumption DEF Statuses, Processable, Stages, PCs
  <2>2. CASE Generate(w)
    BY <1>1, <2>1, <2>2, Became DEF Generate
  <2>3. CASE Prepare(w)
    BY <1>1, <2>1, <2>3, Became DEF Prepare
  <2>4. CASE AcquireOperation(w)
    BY <1>1, <2>1, <2>4, Became DEF AcquireOperation
  <2>5. CASE BeginOrComplete(w)
    BY <1>1, <2>1, <2>5, Became DEF BeginOrComplete
  <2>6. CASE CreateObject(w)
    BY <1>1, <2>1, <2>6, Became DEF CreateObject
  <2> QED BY <2>2, <2>3, <2>4, <2>5, <2>6
<1> QED BY <1>1, <1>2, <1>3, IdlySafe
LEMMA HeldUnderway ==
  ASSUME SafeInv, NEW w \in Workers, Acting(w)
  PROVE  Underway(worker[w])
  BY DEF SafeInv, LeaseInv

LEMMA RegisterRunSafe ==
  ASSUME IInv, SafeInv, NEW w \in Workers, RegisterRun(w)
  PROVE  SafeInv'
<1>1. TypeOK /\ Moves(w) /\ Acting(w) /\ UNCHANGED objects
  BY RegisterRunMoves DEF IInv, RegisterRun, At, Acting
<1>2. /\ run.endsAt \in Nat /\ worker[w].endsAt \in Nat
      /\ "AWAITING_ACTIVATION" \in Statuses
  BY <1>1, WorkerFields DEF Statuses, Processable, Stages
<1>3. run' = run \/ (run.status = "NONE" /\ run'.status = "PAUSED")
  BY DEF RegisterRun, RegisteredRun
<1>4. Quiet'
  BY <1>1, <1>3 DEF SafeInv, Quiet, AllPaused
<1>5. \/ worker'[w].pc = "catch"
      \/ worker'[w].pc = "commit" /\ worker'[w].goal = "AWAITING_ACTIVATION"
  BY <1>1, <1>2, Became DEF RegisterRun, RegisteredRun
<1>6. Underway(worker[w])'
  BY <1>5 DEF Underway
<1> QED BY <1>1, <1>4, <1>6, ActingSafe

LEMMA ObserveSafe ==
  ASSUME IInv, SafeInv, NEW w \in Workers, Observe(w)
  PROVE  SafeInv'
<1>1. /\ TypeOK /\ Moves(w) /\ Acting(w) /\ UNCHANGED <<run, objects>>
      /\ worker[w] \in WorkerStates /\ worker \in [Workers -> WorkerStates]
  BY ObserveMoves DEF IInv, TypeOK, Observe, At, Acting, metaVars
<1>2. ASSUME NEW pc \in {"check", "collect", "pauseBegin", "ready", "poll"},
             worker' = [worker EXCEPT ![w].run = run, ![w].pc = pc],
             pc = "collect" => run.status = "PAUSED"
      PROVE  SafeInv'
  <2>1. worker'[w].pc = pc
    BY <1>1, <1>2 DEF WorkerStates
  <2>2. Underway(worker[w])'
    BY <1>1, <1>2, <2>1 DEF Underway
  <2>3. Quiet'
    BY <1>1 DEF SafeInv, Quiet, AllPaused
  <2> QED BY <1>1, <2>2, <2>3, ActingSafe
<1>3. ASSUME NEW err \in {"transient", "permanent"}, Throw(w, err) PROVE SafeInv'
  <2>1. worker'[w].pc = "catch"
    BY <1>1, <1>3, Became
  <2> QED BY <1>1, <2>1, IdlySafe
<1>4. ASSUME NEW goal \in {"AWAITING_ACTIVATION", "FINALIZING"}, CommitTo(w, goal, 0)
      PROVE  SafeInv'
  <2>1. worker'[w].pc = "commit" /\ worker'[w].goal = goal
    BY <1>1, <1>4, Became DEF Statuses, Processable, Stages
  <2> QED BY <1>1, <2>1, IdlySafe
<1>5. CASE /\ worker[w].stage = "FINALIZING"
              \/ (worker[w].stage = "AWAITING_ACTIVATION"
                  /\ worker[w].now >= run.endsAt)
           /\ LET pc == IF run.status = "PAUSED" THEN "collect" ELSE "pauseBegin"
              IN  worker' = [worker EXCEPT ![w].run = run, ![w].pc = pc]
  <2>1. CASE run.status = "PAUSED"
    BY <1>2, <1>5, <2>1
  <2>2. CASE run.status # "PAUSED"
    BY <1>2, <1>5, <2>2
  <2> QED BY <2>1, <2>2
<1>6. CASE worker' = [worker EXCEPT ![w].run = run, ![w].pc = "check"]
  BY <1>2, <1>6
<1>7. CASE worker' = [worker EXCEPT ![w].run = run, ![w].pc = "ready"]
  BY <1>2, <1>7
<1>8. CASE worker' = [worker EXCEPT ![w].run = run, ![w].pc = "poll"]
  BY <1>2, <1>8
<1> QED BY <1>3, <1>4, <1>5, <1>6, <1>7, <1>8 DEF Observe

\* The updates of the run that begin an activation or a pause, or record that
\* one failed: the run stays or leaves PAUSED behind.
LEMMA MarkSafe ==
  ASSUME IInv, SafeInv, NEW w \in Workers, Ready(w) \/ UndoRecord(w) \/ PauseBegin(w)
  PROVE  SafeInv'
<1>1. /\ TypeOK /\ Moves(w) /\ Acting(w) /\ UNCHANGED objects /\ run \in Runs
      /\ {"activate", "pause"} \subseteq PCs
  BY ReadyMoves, UndoRecordMoves, PauseBeginMoves
     DEF IInv, TypeOK, Ready, UndoRecord, PauseBegin, At, Acting, PCs
<1>2. run' = run \/ run'.status \in {"ACTIVATING", "FAILED", "PAUSING"}
  BY <1>1 DEF Ready, UndoRecord, PauseBegin, UpdateRun, Runs
<1>3. Quiet'
  BY <1>1, <1>2 DEF SafeInv, Quiet, AllPaused
<1>4. \/ worker'[w].pc \in {"catch", "pause"}
      \/ worker'[w].pc = "activate" /\ run'.status = "ACTIVATING"
  <2>1. CASE Ready(w)
    <3>1. [run EXCEPT !.status = "ACTIVATING"].status = "ACTIVATING"
      BY <1>1 DEF Runs
    <3> QED BY <1>1, <2>1, <3>1, Became DEF Ready, UpdateRun
  <2>2. CASE UndoRecord(w)
    BY <1>1, <2>2, Became DEF UndoRecord, UpdateRun
  <2>3. CASE PauseBegin(w)
    BY <1>1, <2>3, Became DEF PauseBegin, UpdateRun
  <2> QED BY <2>1, <2>2, <2>3
<1>5. Underway(worker[w])'
  BY <1>4 DEF Underway
<1> QED BY <1>1, <1>3, <1>5, ActingSafe

LEMMA ActivateSafe ==
  ASSUME IInv, SafeInv, NEW w \in Workers, Activate(w)
  PROVE  SafeInv'
<1>1. /\ TypeOK /\ Moves(w) /\ Acting(w) /\ UNCHANGED run
      /\ worker[w] \in WorkerStates /\ worker \in [Workers -> WorkerStates]
  BY ActivateMoves DEF IInv, TypeOK, Activate, At, Acting
<1>2. run.status = "ACTIVATING"
  BY <1>1, HeldUnderway DEF Activate, At, Underway
<1>3. Quiet'
  BY <1>1, <1>2 DEF Quiet
<1>4. \/ worker'[w].pc \in {"activate", "undo"}
      \/ worker'[w].pc = "commit" /\ worker'[w].goal = "AWAITING_ACTIVATION"
  <2>1. CASE worker' = [worker EXCEPT ![w].step = @ + 1]
    BY <1>1, <2>1 DEF Activate, At, WorkerStates
  <2>2. CASE CommitTo(w, "AWAITING_ACTIVATION", 0)
    BY <1>1, <2>2, Became DEF Statuses, Processable, Stages
  <2>3. CASE Loop(w, "undo")
    BY <1>1, <2>3, Became DEF PCs
  <2> QED BY <2>1, <2>2, <2>3 DEF Activate, SetObject
<1>5. Underway(worker[w])'
  BY <1>1, <1>2, <1>4 DEF Underway
<1> QED BY <1>1, <1>3, <1>5, ActingSafe
\* Pausing an object, or finding them all PAUSED, on the way of a pause or of
\* a failed activation.
LEMMA UnverifiedBecame ==
  ASSUME TypeOK, NEW w \in Workers, Unverified(w)
  PROVE  \/ worker'[w].pc = "catch"
         \/ worker'[w].pc = "undoRecord" /\ worker[w].pc \in {"undo", "undoVerify"}
<1>1. worker[w] \in WorkerStates /\ worker \in [Workers -> WorkerStates]
  BY DEF TypeOK
<1> QED BY <1>1, Became DEF Unverified, WorkerStates

LEMMA PauseObjectSafe ==
  ASSUME IInv, SafeInv, NEW w \in Workers, PauseObject(w)
  PROVE  SafeInv'
<1>1. /\ TypeOK /\ Moves(w) /\ Acting(w) /\ UNCHANGED run
      /\ worker[w] \in WorkerStates /\ worker \in [Workers -> WorkerStates]
      /\ objects \in [Objects -> Configured]
  BY PauseObjectMoves DEF IInv, TypeOK, PauseObject, At, Acting
<1>2. Underway(worker[w]) /\ worker[w].pc \in {"undo", "pause"}
  BY <1>1, HeldUnderway DEF PauseObject
<1>3. AllPaused(objects) => AllPaused(objects')
  BY <1>1 DEF AllPaused, PauseObject, SetObject
<1>4. Quiet'
  BY <1>1, <1>3 DEF SafeInv, Quiet
<1>5. \/ worker'[w].pc \in {"catch", "pause", "pauseVerify"}
      \/ /\ worker'[w].pc \in {"undo", "undoVerify", "undoRecord"}
         /\ worker[w].pc \in {"undo", "undoVerify"}
  <2>1. ASSUME NEW ok \in BOOLEAN,
               worker' = [worker EXCEPT ![w].step = @ + 1, ![w].ok = ok]
        PROVE  worker'[w].pc = worker[w].pc
    BY <1>1, <2>1 DEF WorkerStates
  <2>2. CASE Unverified(w)
    BY <1>1, <2>2, UnverifiedBecame
  <2>3. CASE Goto(w, IF At(w, "undo") THEN "undoVerify" ELSE "pauseVerify")
    <3>1. {"undoVerify", "pauseVerify"} \subseteq PCs
      BY DEF PCs
    <3>2. CASE At(w, "undo")
      BY <1>1, <2>3, <3>1, <3>2, Became DEF At
    <3>3. CASE ~At(w, "undo")
      BY <1>1, <2>3, <3>1, <3>3, Became DEF At
    <3> QED BY <3>2, <3>3
  <2>4. worker[w].ok \in BOOLEAN
    BY <1>1 DEF WorkerStates
  <2>5. worker'[w].pc = worker[w].pc \/ Unverified(w)
        \/ Goto(w, IF At(w, "undo") THEN "undoVerify" ELSE "pauseVerify")
    BY <2>1, <2>4 DEF PauseObject, SetObject
  <2> QED BY <1>2, <2>2, <2>3, <2>5
<1>6. Underway(worker[w])'
  BY <1>1, <1>2, <1>5 DEF Underway
<1> QED BY <1>1, <1>4, <1>6, ActingSafe

LEMMA PauseVerifySafe ==
  ASSUME IInv, SafeInv, NEW w \in Workers, PauseVerify(w)
  PROVE  SafeInv'
<1>1. /\ TypeOK /\ Moves(w) /\ Acting(w) /\ UNCHANGED <<run, objects>>
      /\ worker[w] \in WorkerStates /\ worker \in [Workers -> WorkerStates]
  BY PauseVerifyMoves DEF IInv, TypeOK, PauseVerify, At, Acting, metaVars
<1>2. Underway(worker[w]) /\ worker[w].pc \in {"undoVerify", "pauseVerify"}
  BY <1>1, HeldUnderway DEF PauseVerify
<1>3. Quiet'
  BY <1>1 DEF SafeInv, Quiet, AllPaused
<1>4. \/ worker'[w].pc = "catch"
      \/ worker'[w].pc = "pauseRecord" /\ AllPaused(objects)
      \/ worker'[w].pc = "undoRecord" /\ worker[w].pc = "undoVerify"
  <2>1. {"undoRecord", "pauseRecord"} \subseteq PCs
    BY DEF PCs
  <2>2. CASE Unverified(w)
    BY <1>1, <1>2, <2>2, UnverifiedBecame
  <2>3. CASE /\ AllPaused(objects)
             /\ Goto(w, IF At(w, "undoVerify") THEN "undoRecord" ELSE "pauseRecord")
    <3>1. CASE At(w, "undoVerify")
      BY <1>1, <2>1, <2>3, <3>1, Became DEF At
    <3>2. CASE ~At(w, "undoVerify")
      BY <1>1, <2>1, <2>3, <3>2, Became
    <3> QED BY <3>1, <3>2
  <2> QED BY <2>2, <2>3 DEF PauseVerify
<1>5. Underway(worker[w])'
  BY <1>1, <1>2, <1>4 DEF Underway, AllPaused
<1> QED BY <1>1, <1>3, <1>5, ActingSafe

\* The run becomes PAUSED only with every object PAUSED.
LEMMA PauseRecordSafe ==
  ASSUME IInv, SafeInv, NEW w \in Workers, PauseRecord(w)
  PROVE  SafeInv'
<1>1. /\ TypeOK /\ Moves(w) /\ Acting(w) /\ UNCHANGED objects
      /\ run \in Runs /\ clock \in Nat
  BY PauseRecordMoves DEF IInv, TypeOK, PauseRecord, At, Acting
<1>2. AllPaused(objects)
  BY <1>1, HeldUnderway DEF PauseRecord, At, Underway
<1>3. Quiet'
  BY <1>1, <1>2 DEF Quiet, AllPaused
<1>4. \/ worker'[w].pc = "catch"
      \/ worker'[w].pc = "commit" /\ worker'[w].goal = "FINALIZING"
      \/ worker'[w].pc = "collect" /\ run'.status = "PAUSED"
  <2>1. /\ [run EXCEPT !.status = "PAUSED", !.pausedAt = clock].status = "PAUSED"
        /\ run.endsAt \in Nat /\ "FINALIZING" \in Statuses /\ "collect" \in PCs
    BY <1>1 DEF Runs, Statuses, Processable, Stages, PCs
  <2> QED BY <1>1, <2>1, Became DEF PauseRecord, UpdateRun
<1>5. Underway(worker[w])'
  BY <1>4 DEF Underway
<1> QED BY <1>1, <1>3, <1>5, ActingSafe

LEMMA PollCommitBecame ==
  ASSUME TypeOK, NEW w \in Workers,
         NEW goal \in {"AWAITING_ACTIVATION", "COLLECTING"}, PollCommit(w, goal)
  PROVE  worker'[w].pc = "commit" /\ worker'[w].goal = goal
<1>1. (IF goal = "COLLECTING" THEN worker[w].run.endsAt ELSE 0) \in Nat
  BY WorkerFields
<1> QED BY <1>1, Became DEF PollCommit, Statuses, Processable, Stages

LEMMA DeliverySafe ==
  ASSUME IInv, SafeInv, NEW w \in Workers, Poll(w) \/ CheckDelivery(w)
  PROVE  SafeInv'
<1>1. /\ TypeOK /\ Moves(w) /\ Acting(w) /\ UNCHANGED <<run, objects>>
      /\ PcOK(worker[w])
      /\ worker[w] \in WorkerStates /\ worker \in [Workers -> WorkerStates]
  BY PollMoves, CheckDeliveryMoves
     DEF IInv, TypeOK, WorkerInv, Poll, CheckDelivery, At, Acting, metaVars
<1>2. \/ worker'[w].pc \in {"catch", "confirm"}
      \/ worker'[w].pc = "commit" /\ worker'[w].goal # "COMPLETED"
      \/ worker'[w].pc = "collect" /\ worker'[w].stage = "COLLECTING"
  <2>1. CASE Throw(w, "transient")
    BY <1>1, <2>1, Became
  <2>2. CASE At(w, "check") /\ Goto(w, "collect")
    BY <1>1, <2>2, Became DEF PcOK, At, PCs
  <2>3. ASSUME NEW goal \in {"AWAITING_ACTIVATION", "COLLECTING"},
               \/ worker' = [worker EXCEPT ![w].pc = "confirm", ![w].goal = goal]
               \/ PollCommit(w, goal)
        PROVE  \/ worker'[w].pc = "confirm"
               \/ worker'[w].pc = "commit" /\ worker'[w].goal # "COMPLETED"
    BY <1>1, <2>3, PollCommitBecame DEF WorkerStates
  <2> QED BY <2>1, <2>2, <2>3 DEF Poll, CheckDelivery
<1>3. Quiet'
  BY <1>1 DEF SafeInv, Quiet, AllPaused
<1>4. Underway(worker[w])'
  BY <1>2 DEF Underway
<1> QED BY <1>1, <1>3, <1>4, ActingSafe

LEMMA ConfirmSafe ==
  ASSUME IInv, SafeInv, NEW w \in Workers, Confirm(w)
  PROVE  SafeInv'
<1>1. /\ TypeOK /\ Moves(w) /\ Acting(w) /\ UNCHANGED objects /\ run \in Runs
      /\ worker[w].goal \in {"AWAITING_ACTIVATION", "COLLECTING"}
  BY ConfirmMoves DEF IInv, TypeOK, WorkerInv, PcOK, Confirm, At, Acting
<1>2. run' = run \/ run'.status = "ACTIVE"
  BY <1>1 DEF Confirm, UpdateRun, Runs
<1>3. Quiet'
  BY <1>1, <1>2 DEF SafeInv, Quiet, AllPaused
<1>4. \/ worker'[w].pc = "catch"
      \/ worker'[w].pc = "commit" /\ worker'[w].goal # "COMPLETED"
  BY <1>1, Became, PollCommitBecame DEF Confirm, UpdateRun
<1>5. Underway(worker[w])'
  BY <1>4 DEF Underway
<1> QED BY <1>1, <1>3, <1>5, ActingSafe

\* The final snapshot and the way to COMPLETED, both from FINALIZING.
LEMMA CollectSafe ==
  ASSUME IInv, SafeInv, NEW w \in Workers, Collect(w)
  PROVE  SafeInv'
<1> DEFINE final == /\ worker[w].stage = "FINALIZING"
                    /\ worker[w].now >= FinalizationAt(worker[w].run)
<1>1. /\ TypeOK /\ Moves(w) /\ Acting(w) /\ UNCHANGED <<run, objects>>
      /\ worker[w].run.endsAt \in Nat /\ worker[w].stage \in Stages
  BY CollectMoves, WorkerFields DEF IInv, Collect, At, Acting
<1>2. worker[w].stage = "FINALIZING" => run.status = "PAUSED"
  BY <1>1, HeldUnderway DEF Collect, At, Underway
<1>3. Quiet'
  BY <1>1 DEF SafeInv, Quiet, AllPaused
<1>4. \/ worker'[w].pc \in {"catch", "pauseBegin"}
      \/ worker'[w].pc = "commit" /\ worker'[w].goal # "COMPLETED"
      \/ worker'[w].pc = "commit" /\ final /\ finals'
  <2>1. /\ {"COLLECTING", "FINALIZING", "COMPLETED"} \subseteq Statuses
        /\ 0 \in Nat /\ "pauseBegin" \in PCs
    BY DEF Statuses, Processable, Stages, PCs
  <2>2. CASE Throw(w, "transient")
    BY <1>1, <2>2, Became
  <2>3. CASE Goto(w, "pauseBegin")
    BY <1>1, <2>1, <2>3, Became
  <2>4. ASSUME NEW goal \in {"COLLECTING", "FINALIZING"}, NEW endsAt \in Nat,
               CommitTo(w, goal, endsAt)
        PROVE  worker'[w].pc = "commit" /\ worker'[w].goal # "COMPLETED"
    BY <1>1, <2>1, <2>4, Became
  <2>5. CASE /\ finals' = (finals \/ final)
             /\ CommitTo(w, IF final THEN "COMPLETED" ELSE "FINALIZING", 0)
    <3>1. CASE final
      BY <1>1, <2>1, <2>5, <3>1, Became
    <3>2. CASE ~final
      BY <2>1, <2>4, <2>5, <3>2
    <3> QED BY <3>1, <3>2
  <2> HIDE DEF final
  <2> QED BY <1>1, <2>1, <2>2, <2>3, <2>4, <2>5 DEF Collect, final
<1>5. Underway(worker[w])'
  BY <1>1, <1>2, <1>4 DEF Underway
<1> QED BY <1>1, <1>3, <1>5, ActingSafe
\* A step of a worker on the row.
LEMMA RowSafe ==
  ASSUME IInv, SafeInv, LeaseInv', NEW w \in Workers, NEW r \in WorkerStates,
         worker' = [worker EXCEPT ![w] = r], UNCHANGED <<run, objects, finals>>,
         HoldsLease(row', w) => Underway(r),
         \A v \in Workers \ {w} : HoldsLease(row', v) => HoldsLease(row, v),
         row'.status = "COMPLETED" => finals /\ run.status = "PAUSED"
  PROVE  SafeInv'
<1>1. Quiet' /\ CompletedIsSettled'
  BY DEF SafeInv, Quiet, AllPaused, CompletedIsSettled
<1>2. ASSUME NEW v \in Workers, HoldsLease(row, v)' PROVE Underway(worker[v])'
  <2>1. CASE v = w
    <3>1. worker'[v] = r
      BY <2>1 DEF IInv, TypeOK
    <3>2. Underway(r)
      BY <1>2, <2>1 DEF HoldsLease
    <3> QED BY <3>1, <3>2 DEF Underway, AllPaused
  <2>2. CASE v # w
    <3>1. worker'[v] = worker[v]
      BY <2>2 DEF IInv, TypeOK
    <3>2. HoldsLease(row, v)
      BY <1>2, <2>2 DEF HoldsLease
    <3>3. Underway(worker[v])
      BY <3>2 DEF SafeInv
    <3> QED BY <3>1, <3>3 DEF Underway, AllPaused
  <2> QED BY <2>1, <2>2
<1> QED BY <1>1, <1>2 DEF SafeInv

LEMMA ClaimSafe ==
  ASSUME IInv, SafeInv, NEW w \in Workers, Claim(w)
  PROVE  SafeInv'
<1>1. PICK pc \in {"commit", "claimed"} :
        worker' = [worker EXCEPT ![w] =
          [IdleWorker EXCEPT !.pc = pc, !.stage = TargetStage(row),
                             !.attempts = row.stageAttempts, !.goal = "FAILED"]]
  BY DEF Claim
<1> DEFINE r == [IdleWorker EXCEPT !.pc = pc, !.stage = TargetStage(row),
                             !.attempts = row.stageAttempts, !.goal = "FAILED"]
<1>2. r.pc = pc /\ r.goal = "FAILED"
  BY DEF IdleWorker
<1>3. worker' = [worker EXCEPT ![w] = r]
  BY <1>1
<1> HIDE DEF r
<1>4. r \in WorkerStates
  <2>1. worker' \in [Workers -> WorkerStates]
    BY ClaimInv DEF IInv, TypeOK
  <2> QED BY <1>3, <2>1 DEF IInv, TypeOK
<1>5. Underway(r)
  BY <1>2 DEF Underway
<1>6. /\ \A v \in Workers \ {w} : ~HoldsLease(row', v)
      /\ row'.status # "COMPLETED"
  BY RowOKIs DEF Claim, Claimable, Claimed, HoldsLease, Rows, Processable, Stages
<1>7. LeaseInv' /\ UNCHANGED <<run, objects, finals>>
  BY ClaimLease DEF SafeInv, Claim, metaVars
<1> QED BY <1>3, <1>4, <1>5, <1>6, <1>7, RowSafe

LEMMA RenewSafe ==
  ASSUME IInv, SafeInv, NEW w \in Workers, Renew(w)
  PROVE  SafeInv'
<1>1. /\ TypeOK /\ row \in Rows /\ UNCHANGED <<run, objects, finals>> /\ LeaseInv'
      /\ worker' \in [Workers -> WorkerStates]
  BY RowOKIs, RenewInv, RenewLease DEF IInv, TypeOK, SafeInv, Renew, metaVars
<1>2. PICK r \in WorkerStates :
        /\ worker' = [worker EXCEPT ![w] = r]
        /\ r.pc \in {"catch", "generate", "prepare", "observe"}
  <2>1. CASE Throw(w, "transient")
    <3>1. worker'[w].pc = "catch" /\ worker'[w] \in WorkerStates
      BY <1>1, <2>1, Became
    <3> QED BY <1>1, <2>1, <3>1 DEF Throw, TypeOK
  <2>2. CASE worker' = [worker EXCEPT ![w] = RenewedWorker(w)]
    <3>1. RenewedWorker(w) \in WorkerStates
      BY <1>1, <2>2 DEF TypeOK
    <3>2. RenewedWorker(w).pc \in {"generate", "prepare", "observe"}
      <4>1. worker[w] \in WorkerStates
        BY <1>1, WorkerFields
      <4> QED BY <4>1 DEF RenewedWorker, WorkerStates
    <3> QED BY <2>2, <3>1, <3>2
  <2> QED BY <2>1, <2>2 DEF Renew
<1>3. Underway(r)
  BY <1>2 DEF Underway
<1>4. \A v \in Workers : HoldsLease(row', v) => HoldsLease(row, v)
  BY <1>1 DEF Renew, Renewed, HoldsLease, Rows
<1>5. row'.status = "COMPLETED" => row.status = "COMPLETED"
  BY <1>1, WorkerFields DEF Renew, Renewed, Rows, Stages
<1>6. row'.status = "COMPLETED" => finals /\ run.status = "PAUSED"
  BY <1>5 DEF SafeInv, CompletedIsSettled
<1> QED BY <1>1, <1>2, <1>3, <1>4, <1>6, RowSafe

\* COMPLETED is written by the holder of the lease alone, who has seen to the
\* final snapshot under that lease.
LEMMA TransitionSafe ==
  ASSUME IInv, SafeInv, NEW w \in Workers, Commit(w) \/ Catch(w)
  PROVE  SafeInv'
<1>1. TypeOK /\ row \in Rows /\ UNCHANGED <<run, objects, finals>> /\ LeaseInv'
  BY RowOKIs, CommitLease DEF IInv, SafeInv, Commit, Catch, metaVars
<1>2. PICK r \in WorkerStates : /\ worker' = [worker EXCEPT ![w] = r]
                                /\ r.pc \in {"idle", "catch"}
  BY <1>1, AfterTransition DEF Commit, Catch
<1>3. Underway(r)
  BY <1>2 DEF Underway
<1>4. CASE UNCHANGED row
  BY <1>1, <1>2, <1>3, <1>4, RowSafe DEF SafeInv, CompletedIsSettled
<1>5. CASE Commit(w) /\ HoldsLease(row, w) /\ row' = CommittedRow(w)
  <2>1. row'.lease = "none" /\ row'.status = worker[w].goal
    BY <1>1, <1>5, WorkerFields DEF CommittedRow, Transitioned, Rows
  <2>2. Underway(worker[w]) /\ worker[w].pc = "commit"
    BY <1>5 DEF SafeInv, Commit, At
  <2>3. row'.status = "COMPLETED" => finals /\ run.status = "PAUSED"
    BY <2>1, <2>2 DEF Underway
  <2>4. \A v \in Workers : ~HoldsLease(row', v)
    BY <2>1 DEF HoldsLease
  <2> QED BY <1>1, <1>2, <1>3, <2>3, <2>4, RowSafe
<1>6. CASE row' = Transitioned(row, FailureStatus(w), FALSE, 0, FALSE)
  <2>1. row'.lease = "none" /\ row'.status \in {"FAILED", "RETRY_WAIT"}
    BY <1>1, <1>6 DEF FailureStatus, Transitioned, Rows
  <2>2. \A v \in Workers : ~HoldsLease(row', v)
    BY <2>1 DEF HoldsLease
  <2> QED BY <1>1, <1>2, <1>3, <2>1, <2>2, RowSafe
<1> QED BY <1>4, <1>5, <1>6 DEF Commit, Catch, CanTransition

LEMMA CrashSafe ==
  ASSUME IInv, SafeInv, NEW w \in Workers, Crash(w)
  PROVE  SafeInv'
<1>1. /\ worker' = [worker EXCEPT ![w] = IdleWorker] /\ LeaseInv'
      /\ UNCHANGED <<row, run, objects, finals>> /\ IdleWorker \in WorkerStates
  BY CrashLease, IdleType DEF SafeInv, Crash, Return, metaVars
<1>2. Underway(IdleWorker)
  BY DEF Underway, IdleWorker
<1> QED BY <1>1, <1>2, RowSafe DEF SafeInv, CompletedIsSettled

LEMMA EnvironmentSafe ==
  ASSUME IInv, SafeInv, LeaseOutlivesStep,
         \/ Time \/ Owner \/ UNCHANGED vars
         \/ \E o \in Objects : PauseInAdsManager(o)
  PROVE  SafeInv'
<1>1. LeaseInv' /\ UNCHANGED worker
  BY EnvironmentLease DEF SafeInv, Time, LeaseExpires, OperationLeaseExpires,
     BecomeDue, Tick, Owner, CheckDeletion, Delete, PauseInAdsManager, vars
<1>2. CASE UNCHANGED <<run, objects, finals>>
           /\ row'.status \in {row.status, "DELETED"}
           /\ \A v \in Workers : HoldsLease(row', v) => HoldsLease(row, v)
  BY <1>1, <1>2 DEF SafeInv, Quiet, AllPaused, CompletedIsSettled, Underway,
     HoldsLease
<1>3. CASE Time \/ CheckDeletion \/ UNCHANGED vars
  <2>1. UNCHANGED <<run, objects, finals>>
    BY <1>3 DEF Time, LeaseExpires, OperationLeaseExpires, BecomeDue, Tick,
       CheckDeletion, vars, metaVars
  <2>2. /\ row'.status = row.status
        /\ \A v \in Workers : HoldsLease(row', v) => HoldsLease(row, v)
    BY <1>3, RowOKIs DEF Time, LeaseExpires, OperationLeaseExpires, BecomeDue, Tick,
       CheckDeletion, vars, HoldsLease, Rows
  <2> QED BY <1>2, <2>1, <2>2
<1>4. CASE Delete
  <2>1. CASE Deletable
    <3>1. run' = NoRun /\ row' = DeletedRow /\ UNCHANGED objects
      BY <1>4, <2>1 DEF Delete
    <3>2. AllPaused(objects)
      BY <2>1 DEF Deletable, SafeInv, Quiet
    <3>3. row'.status = "DELETED" /\ row'.lease = "none"
      BY <3>1 DEF DeletedRow, SubmittedRow
    <3> QED BY <1>1, <3>1, <3>2, <3>3
         DEF SafeInv, Quiet, AllPaused, CompletedIsSettled, HoldsLease
  <2>2. CASE ~Deletable
    BY <1>2, <1>4, <2>2 DEF Delete, HoldsLease
  <2> QED BY <2>1, <2>2
<1>5. ASSUME NEW o \in Objects, PauseInAdsManager(o) PROVE SafeInv'
  <2>1. /\ objects' = [objects EXCEPT ![o] = "PAUSED"]
        /\ UNCHANGED <<row, run, finals>> /\ objects \in [Objects -> Configured]
    BY <1>5 DEF PauseInAdsManager, IInv, TypeOK
  <2>2. AllPaused(objects) => AllPaused(objects')
    BY <2>1 DEF AllPaused
  <2> QED BY <1>1, <2>1, <2>2 DEF SafeInv, Quiet, CompletedIsSettled, Underway,
       HoldsLease, AllPaused
<1> QED BY <1>3, <1>4, <1>5 DEF Owner

LEMMA NextSafe ==
  ASSUME IInv, SafeInv, LeaseOutlivesStep, [Next]_vars
  PROVE  SafeInv'
<1>1. ASSUME NEW w \in Workers, WorkerStep(w) PROVE SafeInv'
  BY <1>1, RenewSafe, TransitionSafe, EarlySafe, RegisterRunSafe, ObserveSafe,
     MarkSafe, ActivateSafe, PauseObjectSafe, PauseVerifySafe, PauseRecordSafe,
     DeliverySafe, ConfirmSafe, CollectSafe DEF WorkerStep
<1>2. ASSUME NEW w \in Workers, Claim(w) \/ Crash(w) PROVE SafeInv'
  BY <1>2, ClaimSafe, CrashSafe
<1> QED BY <1>1, <1>2, EnvironmentSafe DEF Next

LEMMA SafeInvariant == LeaseOutlivesStep /\ Spec => []SafeInv
<1> SUFFICES ASSUME LeaseOutlivesStep PROVE Spec => []SafeInv
  OBVIOUS
<1>1. Init => IInv /\ SafeInv
  <2> SUFFICES ASSUME Init PROVE IInv /\ SafeInv
    OBVIOUS
  <2>1. IdleWorker.pc = "idle" /\ SubmittedRow.status = "SUBMITTED"
        /\ SubmittedRow.lease = "none"
    BY DEF IdleWorker, SubmittedRow
  <2>2. \A w \in Workers : worker[w].pc = "idle" /\ ~HoldsLease(row, w)
    BY <2>1 DEF Init, HoldsLease
  <2>3. AllPaused(objects) /\ row.status = "SUBMITTED"
    BY <2>1 DEF Init, AllPaused
  <2> QED BY <2>2, <2>3, InitInv
       DEF SafeInv, LeaseInv, Acting, Quiet, CompletedIsSettled
<1>2. IInv /\ SafeInv /\ [Next]_vars => IInv' /\ SafeInv'
  BY NextInv, NextSafe
<1> QED BY <1>1, <1>2, PTL DEF Spec

\* A run recorded PAUSED has all three objects PAUSED, whichever calls of an
\* activation or a pause failed on the way, if a lease always outlives its step.
THEOREM PausedRunsAreQuiet == LeaseOutlivesStep /\ Spec => []PausedRunIsQuiet
<1>1. SafeInv => PausedRunIsQuiet
  BY DEF SafeInv, Quiet, PausedRunIsQuiet
<1> QED BY <1>1, SafeInvariant, PTL

\* A COMPLETED campaign has its final snapshot and a run that was paused, and
\* no worker undoes either afterwards, if a lease always outlives its step.
THEOREM CompletedCampaignsAreSettled == LeaseOutlivesStep /\ Spec => []CompletedIsSettled
<1>1. SafeInv => CompletedIsSettled
  BY DEF SafeInv
<1> QED BY <1>1, SafeInvariant, PTL
------------------------------------------------------------------------------
(* The detailed lifecycle implements CampaignPromise. *)

Promised ==
    [Abstract!Advance \/ Abstract!Start \/ Abstract!Stop]_<<StageOf(row), Delivering(objects)>>

LEMMA QuietIsNotLive == AllPaused(objects) => ~Delivering(objects)
  BY DEF AllPaused, Delivering, Objects

\* A step that writes the row and leaves the objects alone.
LEMMA RowPromised ==
  ASSUME IInv, SafeInv, LeaseOutlivesStep, [Next]_vars, UNCHANGED objects,
         row'.status = "DELETED" => row.status = "DELETED" \/ AllPaused(objects)
  PROVE  Promised
<1>1. IInv' /\ Ordered /\ SafeInv'
  BY NextInv, NextSafe
<1>2. UNCHANGED Delivering(objects)
  BY DEF Delivering
<1>3. CASE StageOf(row') = StageOf(row)
  BY <1>2, <1>3 DEF Promised
<1>4. CASE StageOf(row') # StageOf(row)
  <2>1. StageOf(row') \in Abstract!Follows[StageOf(row)]
    BY <1>1, <1>4 DEF Ordered
  <2>2. CASE StageOf(row') = "COMPLETED"
    <3>1. row'.status = "COMPLETED"
      BY <1>1, <2>2, RowOKIs DEF StageOf, IInv, RowOK, Stages
    <3>2. AllPaused(objects')
      BY <1>1, <3>1 DEF SafeInv, CompletedIsSettled, Quiet
    <3>3. ~Delivering(objects)
      BY <3>2, QuietIsNotLive DEF AllPaused
    <3> QED BY <1>2, <2>1, <3>3 DEF Promised, Abstract!Advance
  <2>3. CASE StageOf(row') = "DELETED"
    <3>1. row'.status = "DELETED"
      BY <1>1, <2>3, RowOKIs DEF StageOf, IInv, RowOK, Stages
    <3>2. row.status # "DELETED"
      BY <1>4, <2>3 DEF StageOf
    <3>3. ~Delivering(objects)
      BY <3>1, <3>2, QuietIsNotLive
    <3> QED BY <1>2, <2>1, <3>3 DEF Promised, Abstract!Advance
  <2>4. CASE StageOf(row') \notin {"COMPLETED", "DELETED"}
    BY <1>2, <2>1, <2>4 DEF Promised, Abstract!Advance
  <2> QED BY <2>2, <2>3, <2>4
<1> QED BY <1>3, <1>4

\* A step that pauses or activates an object.
LEMMA ObjectPromised ==
  ASSUME IInv, UNCHANGED row, NEW o \in Objects, NEW status \in Configured,
         \/ UNCHANGED objects
         \/ objects' = [objects EXCEPT ![o] = status],
         status = "ACTIVE" => StageOf(row) = "AWAITING_ACTIVATION"
  PROVE  Promised
<1>1. objects \in [Objects -> Configured] /\ UNCHANGED StageOf(row)
  BY DEF IInv, TypeOK, StageOf
<1>2. status = "PAUSED" => (Delivering(objects') => Delivering(objects))
  BY <1>1 DEF Delivering
<1>3. Delivering(objects)' = Delivering(objects') /\ Delivering(objects) \in BOOLEAN
      /\ Delivering(objects') \in BOOLEAN
  BY DEF Delivering
<1>4. CASE Delivering(objects') <=> Delivering(objects)
  BY <1>1, <1>3, <1>4 DEF Promised
<1>5. CASE Delivering(objects') /\ ~Delivering(objects)
  BY <1>1, <1>2, <1>3, <1>5 DEF Promised, Abstract!Start, Configured
<1>6. CASE ~Delivering(objects') /\ Delivering(objects)
  BY <1>1, <1>3, <1>6 DEF Promised, Abstract!Stop
<1> QED BY <1>4, <1>5, <1>6

LEMMA NextPromised ==
  ASSUME IInv, SafeInv, LeaseOutlivesStep, [Next]_vars
  PROVE  Promised
<1>1. ASSUME NEW w \in Workers, Activate(w) PROVE Promised
  <2>1. Acting(w) /\ UNCHANGED row /\ worker[w].step \in 1..3
    BY <1>1, WorkerFields DEF IInv, Activate, At, Acting
  <2>2. HoldsLease(row, w) /\ worker[w].stage = "AWAITING_ACTIVATION"
    BY <1>1, <2>1 DEF SafeInv, LeaseInv, IInv, WorkerInv, PcOK, Activate, At
  <2>3. StageOf(row) = "AWAITING_ACTIVATION"
    BY <2>1, <2>2 DEF IInv, WorkerInv, Agrees, Acting, StageOf
  <2>4. PICK o \in Objects : \/ UNCHANGED objects
                             \/ objects' = [objects EXCEPT ![o] = "ACTIVE"]
    BY <1>1, <2>1 DEF Activate, SetObject, ActivationOrder, Objects
  <2> QED BY <2>1, <2>3, <2>4, ObjectPromised DEF Configured
<1>2. ASSUME NEW w \in Workers, PauseObject(w) PROVE Promised
  <2>1. UNCHANGED row /\ worker[w].step \in 1..3
    BY <1>2, WorkerFields DEF IInv, PauseObject
  <2>2. PICK o \in Objects : \/ UNCHANGED objects
                             \/ objects' = [objects EXCEPT ![o] = "PAUSED"]
    BY <1>2, <2>1 DEF PauseObject, SetObject, PauseOrder, Objects
  <2> QED BY <2>1, <2>2, ObjectPromised DEF Configured
<1>3. ASSUME NEW o \in Objects, PauseInAdsManager(o) PROVE Promised
  BY <1>3, ObjectPromised DEF PauseInAdsManager, Configured
<1>4. ASSUME NEW w \in Workers, WorkerStep(w), ~Activate(w), ~PauseObject(w)
      PROVE  UNCHANGED objects
  BY <1>4 DEF WorkerStep, Renew, Commit, Catch, Generate, Prepare, AcquireOperation,
     BeginOrComplete, CreateObject, RegisterRun, Observe, Ready, PauseVerify,
     UndoRecord, PauseBegin, PauseRecord, Poll, Confirm, CheckDelivery, Collect,
     metaVars
<1>5. ASSUME NEW w \in Workers, Claim(w) \/ WorkerStep(w) \/ Crash(w)
      PROVE  row'.status # "DELETED" \/ row.status = "DELETED"
  <2>1. CASE Claim(w) \/ Renew(w) \/ Commit(w) \/ Catch(w)
    <3>1. /\ row \in Rows /\ worker[w].stage \in Stages /\ worker[w].goal \in Statuses
          /\ PcOK(worker[w])
      BY RowOKIs, WorkerFields DEF IInv, WorkerInv
    <3>2. CASE Claim(w)
      BY <3>1, <3>2 DEF Claim, Claimed, Rows
    <3>3. CASE Renew(w)
      BY <3>1, <3>3 DEF Renew, Renewed, Rows, Stages
    <3>4. CASE Commit(w)
      <4>1. worker[w].goal # "DELETED"
        BY <3>1, <3>4 DEF Commit, At, PcOK, After, Later
      <4>2. UNCHANGED row \/ row' = CommittedRow(w)
        BY <3>4 DEF Commit
      <4>3. CommittedRow(w).status = worker[w].goal
        BY <3>1 DEF CommittedRow, Transitioned, Rows
      <4> QED BY <4>1, <4>2, <4>3
    <3>5. CASE Catch(w)
      BY <3>1, <3>5 DEF Catch, FailureStatus, Transitioned, Rows
    <3> QED BY <2>1, <3>2, <3>3, <3>4, <3>5
  <2>2. CASE UNCHANGED row
    BY <2>2
  <2> QED BY <1>5, <2>1, <2>2
       DEF WorkerStep, Generate, Prepare, AcquireOperation, BeginOrComplete,
           CreateObject, RegisterRun, Observe, Ready, Activate, PauseObject,
           PauseVerify, UndoRecord, PauseBegin, PauseRecord, Poll, Confirm,
           CheckDelivery, Collect, Crash
<1>6. ASSUME NEW w \in Workers, Claim(w) \/ WorkerStep(w) \/ Crash(w)
      PROVE  Promised
  <2>1. Activate(w) \/ PauseObject(w) \/ UNCHANGED objects
    BY <1>4, <1>6 DEF Claim, Crash, metaVars
  <2> QED BY <1>1, <1>2, <1>5, <1>6, <2>1, RowPromised
<1>7. CASE Time \/ CheckDeletion \/ UNCHANGED vars
  <2>1. UNCHANGED objects
    BY <1>7 DEF Time, LeaseExpires, OperationLeaseExpires, BecomeDue, Tick,
       CheckDeletion, vars, metaVars
  <2>2. row'.status = row.status
    BY <1>7, RowOKIs DEF Time, LeaseExpires, OperationLeaseExpires, BecomeDue, Tick,
       CheckDeletion, vars, Rows
  <2> QED BY <2>1, <2>2, RowPromised
<1>8. CASE Delete
  <2>1. UNCHANGED objects /\ (Deletable => AllPaused(objects))
    BY <1>8 DEF Delete, Deletable, SafeInv, Quiet
  <2>2. ~Deletable => UNCHANGED row
    BY <1>8 DEF Delete
  <2> QED BY <2>1, <2>2, RowPromised
<1> QED BY <1>3, <1>6, <1>7, <1>8 DEF Next, Owner

\* While leases outlive the steps they cover, the lifecycle implements its
\* abstract specification: each step of each worker, of the owner and of time is
\* an advance by one stage, a start of the delivery in AWAITING_ACTIVATION, a
\* stop, or invisible; and COMPLETED and deleted campaigns deliver nothing.
THEOREM PromiseKept == LeaseOutlivesStep /\ Spec => KeepsPromise
<1> SUFFICES ASSUME LeaseOutlivesStep PROVE Spec => KeepsPromise
  OBVIOUS
<1>1. Init => Abstract!PromiseInit
  <2> SUFFICES ASSUME Init PROVE Abstract!PromiseInit
    OBVIOUS
  <2>1. StageOf(row) = "GENERATING"
    BY InitInv
  <2>2. ~Delivering(objects)
    BY DEF Init, Delivering, Objects
  <2> QED BY <2>1, <2>2 DEF Abstract!PromiseInit
<1>2. Init => IInv
  BY InitInv
<1>3. IInv /\ [Next]_vars => IInv'
  BY NextInv
<1>4. IInv /\ SafeInv /\ [Next]_vars =>
        [Abstract!Advance \/ Abstract!Start \/ Abstract!Stop]_(Abstract!promiseVars)
  BY NextPromised DEF Promised, Abstract!promiseVars
<1> QED BY <1>1, <1>2, <1>3, <1>4, SafeInvariant, PTL
        DEF Spec, KeepsPromise, Abstract!Promise
------------------------------------------------------------------------------
(* When the final snapshot is taken.  A run is never paused in FINALIZING:  *)
(* the campaign gets there with a run that is PAUSED, or stuck in PAUSING,  *)
(* so the run a worker read there is still the run when it collects.        *)

Settling(r) ==
    /\ r.now <= clock
    /\ r.stage = "FINALIZING" => r.pc \notin {"pause", "pauseVerify", "pauseRecord"}
    /\ r.stage = "FINALIZING" /\ r.pc = "pauseBegin" => run.status = "PAUSING"
    /\ r.stage \in {"COLLECTING", "FINALIZING"} /\ r.pc \in {"check", "collect"} =>
          run = r.run
    /\ r.stage = "AWAITING_ACTIVATION" /\ r.pc = "collect" => run.status = "PAUSED"
    /\ r.pc = "commit" /\ r.goal = "FINALIZING" => run.status \in {"PAUSED", "PAUSING"}

SettleInv ==
    /\ StageOf(row) = "FINALIZING" => run.status \in {"PAUSED", "PAUSING"}
    /\ \A w \in Workers : HoldsLease(row, w) => Settling(worker[w])

\* More of what a step leaves its worker with.
LEMMA BecameAlso ==
  ASSUME TypeOK, NEW w \in Workers
  PROVE  /\ \A err \in {"transient", "permanent"} :
               Throw(w, err) => worker'[w].pc = "catch" /\ worker'[w].now = 0
         /\ \A goal \in Statuses, endsAt \in Nat : CommitTo(w, goal, endsAt) =>
               worker'[w].pc = "commit" /\ worker'[w].goal = goal /\ worker'[w].now = 0
         /\ \A pc \in PCs : Goto(w, pc) =>
               /\ worker'[w].pc = pc /\ worker'[w].stage = worker[w].stage
               /\ worker'[w].now = worker[w].now /\ worker'[w].run = worker[w].run
         /\ \A pc \in PCs : Loop(w, pc) =>
               /\ worker'[w].pc = pc /\ worker'[w].stage = worker[w].stage
               /\ worker'[w].now = worker[w].now
<1>1. /\ worker \in [Workers -> WorkerStates] /\ worker[w] \in WorkerStates
      /\ IdleWorker \in WorkerStates /\ IdleWorker.now = 0
  BY IdleType DEF TypeOK, IdleWorker
<1>2. ASSUME NEW err \in {"transient", "permanent"}, Throw(w, err)
      PROVE  worker'[w].now = 0
  BY <1>1, <1>2 DEF Throw, WorkerStates
<1>3. ASSUME NEW goal \in Statuses, NEW endsAt \in Nat, CommitTo(w, goal, endsAt)
      PROVE  worker'[w].now = 0
  BY <1>1, <1>3 DEF CommitTo, WorkerStates
<1>4. ASSUME NEW pc \in PCs, Goto(w, pc)
      PROVE  worker'[w].now = worker[w].now /\ worker'[w].run = worker[w].run
  BY <1>1, <1>4 DEF Goto, WorkerStates
<1>5. ASSUME NEW pc \in PCs, Loop(w, pc)
      PROVE  worker'[w].stage = worker[w].stage /\ worker'[w].now = worker[w].now
  BY <1>1, <1>5 DEF Loop, WorkerStates
<1> QED BY <1>2, <1>3, <1>4, <1>5, Became

LEMMA HeldSettling ==
  ASSUME IInv, SafeInv, SettleInv, NEW w \in Workers, Acting(w)
  PROVE  /\ Settling(worker[w]) /\ Underway(worker[w]) /\ PcOK(worker[w])
         /\ StageOf(row) = worker[w].stage
<1>1. HoldsLease(row, w)
  BY DEF SafeInv, LeaseInv
<1>2. row.status = worker[w].stage /\ worker[w].stage \in Stages
  BY <1>1, WorkerFields DEF IInv, WorkerInv, Agrees, Acting
<1>3. StageOf(row) = worker[w].stage
  BY <1>2 DEF StageOf, Stages
<1> QED BY <1>1, <1>3 DEF SettleInv, SafeInv, IInv, WorkerInv

\* The step of a worker that acts.
LEMMA ActingSettles ==
  ASSUME IInv, SafeInv, SettleInv, NEW w \in Workers, Acting(w), Moves(w),
         Settling(worker[w])',
         worker[w].stage = "FINALIZING" => run'.status \in {"PAUSED", "PAUSING"}
  PROVE  SettleInv'
<1>1. HoldsLease(row, w) /\ UNCHANGED row
  BY DEF SafeInv, LeaseInv, Moves
<1>2. \A v \in Workers : HoldsLease(row, v)' => v = w
  BY <1>1 DEF HoldsLease
<1>3. StageOf(row)' = worker[w].stage
  BY <1>1, HeldSettling DEF StageOf
<1> QED BY <1>2, <1>3 DEF SettleInv

\* A step that ends in the catch block, or in a commit to another stage than
\* FINALIZING.
LEMMA LeavesSettled ==
  ASSUME IInv, SafeInv, SettleInv, NEW w \in Workers, Acting(w), Moves(w),
         UNCHANGED clock, UNCHANGED run \/ worker[w].stage # "FINALIZING",
         worker'[w].now <= clock,
         \/ worker'[w].pc \in {"catch", "acquire", "write", "writing", "register",
                               "ready", "activate", "undo", "undoVerify",
                               "undoRecord", "poll", "confirm"}
         \/ worker'[w].pc = "commit" /\ worker'[w].goal # "FINALIZING"
  PROVE  SettleInv'
<1>1. Settling(worker[w])'
  BY DEF Settling
<1>2. worker[w].stage = "FINALIZING" => run'.status \in {"PAUSED", "PAUSING"}
  BY HeldSettling DEF SettleInv
<1> QED BY <1>1, <1>2, ActingSettles

LEMMA EarlySettles ==
  ASSUME IInv, SafeInv, SettleInv, NEW w \in Workers,
         \/ Generate(w) \/ Prepare(w) \/ AcquireOperation(w)
         \/ BeginOrComplete(w) \/ CreateObject(w) \/ RegisterRun(w)
  PROVE  SettleInv'
<1>1. /\ TypeOK /\ Moves(w) /\ Acting(w) /\ UNCHANGED clock /\ clock \in Nat
      /\ worker[w].now \in Nat
  BY GenerateMoves, PrepareMoves, AcquireOperationMoves, BeginOrCompleteMoves,
     CreateObjectMoves, RegisterRunMoves, WorkerFields
     DEF IInv, TypeOK, Generate, Prepare, AcquireOperation, BeginOrComplete,
         CreateObject, RegisterRun, At, Acting
<1>2. worker[w].stage # "FINALIZING" /\ worker[w].now <= clock
  BY <1>1, HeldSettling DEF PcOK, Settling, Generate, Prepare, AcquireOperation,
     BeginOrComplete, CreateObject, RegisterRun, At
<1>3. /\ \/ worker'[w].pc \in {"acquire", "write", "writing", "register", "catch"}
         \/ worker'[w].pc = "commit" /\ worker'[w].goal # "FINALIZING"
      /\ worker'[w].now \in {0, worker[w].now}
  <2>1. /\ run.endsAt \in Nat /\ worker[w].now + Duration \in Nat /\ 0 \in Nat
        /\ worker[w].endsAt \in Nat
        /\ {"PREPARING", "AWAITING_ACTIVATION"} \subseteq Statuses
        /\ {"acquire", "write", "writing", "register"} \subseteq PCs
    BY <1>1, WorkerFields, BudgetAssumption DEF Statuses, Processable, Stages, PCs
  <2>2. CASE Generate(w)
    BY <1>1, <2>1, <2>2, BecameAlso DEF Generate
  <2>3. CASE Prepare(w)
    BY <1>1, <2>1, <2>3, BecameAlso DEF Prepare
  <2>4. CASE AcquireOperation(w)
    BY <1>1, <2>1, <2>4, BecameAlso DEF AcquireOperation
  <2>5. CASE BeginOrComplete(w)
    BY <1>1, <2>1, <2>5, BecameAlso DEF BeginOrComplete
  <2>6. CASE CreateObject(w)
    BY <1>1, <2>1, <2>6, BecameAlso DEF CreateObject
  <2>7. CASE RegisterRun(w)
    BY <1>1, <2>1, <2>7, BecameAlso DEF RegisterRun, RegisteredRun
  <2> QED BY <2>2, <2>3, <2>4, <2>5, <2>6, <2>7
<1>4. worker'[w].now <= clock
  BY <1>1, <1>2, <1>3
<1> QED BY <1>1, <1>2, <1>3, <1>4, LeavesSettled
LEMMA ObserveSettles ==
  ASSUME IInv, SafeInv, SettleInv, NEW w \in Workers, Observe(w)
  PROVE  SettleInv'
<1>1. /\ TypeOK /\ Moves(w) /\ Acting(w) /\ UNCHANGED <<run, clock>>
      /\ clock \in Nat /\ Settling(worker[w]) /\ worker[w].now \in Nat
      /\ worker[w] \in WorkerStates /\ worker \in [Workers -> WorkerStates]
  BY ObserveMoves, HeldSettling, WorkerFields
     DEF IInv, TypeOK, Observe, At, Acting, metaVars
<1>2. ASSUME NEW pc \in {"check", "collect", "pauseBegin", "ready", "poll"},
             worker' = [worker EXCEPT ![w].run = run, ![w].pc = pc],
             /\ pc = "pauseBegin" /\ worker[w].stage = "FINALIZING" =>
                   run.status # "PAUSED"
             /\ pc = "collect" => run.status = "PAUSED"
      PROVE  SettleInv'
  <2>1. /\ worker'[w].pc = pc /\ worker'[w].stage = worker[w].stage
        /\ worker'[w].now = worker[w].now /\ worker'[w].run = run
    BY <1>1, <1>2 DEF WorkerStates, TypeOK
  <2>2. worker[w].stage = "FINALIZING" => run.status \in {"PAUSED", "PAUSING"}
    BY <1>1, HeldSettling DEF SettleInv
  <2>3. Settling(worker[w])'
    BY <1>1, <1>2, <2>1, <2>2 DEF Settling
  <2> QED BY <1>1, <2>2, <2>3, ActingSettles
<1>3. ASSUME NEW err \in {"transient", "permanent"}, Throw(w, err) PROVE SettleInv'
  <2>1. worker'[w].pc = "catch" /\ worker'[w].now <= clock
    BY <1>1, <1>3, BecameAlso
  <2> QED BY <1>1, <2>1, LeavesSettled
<1>4. CASE CommitTo(w, "AWAITING_ACTIVATION", 0)
  <2>1. worker'[w].pc = "commit" /\ worker'[w].goal = "AWAITING_ACTIVATION"
        /\ worker'[w].now <= clock
    BY <1>1, <1>4, BecameAlso DEF Statuses, Processable, Stages
  <2> QED BY <1>1, <2>1, LeavesSettled
<1>5. CASE run.status = "PAUSING" /\ CommitTo(w, "FINALIZING", 0)
  <2>1. worker'[w].pc = "commit" /\ worker'[w].goal = "FINALIZING"
        /\ worker'[w].now <= clock
    BY <1>1, <1>5, BecameAlso DEF Statuses, Processable, Stages
  <2>2. Settling(worker[w])'
    BY <1>1, <1>5, <2>1 DEF Settling
  <2> QED BY <1>1, <1>5, <2>2, ActingSettles
<1>6. ASSUME NEW pc \in {"collect", "pauseBegin"},
             pc = IF run.status = "PAUSED" THEN "collect" ELSE "pauseBegin",
             worker' = [worker EXCEPT ![w].run = run, ![w].pc = pc]
      PROVE  SettleInv'
  BY <1>2, <1>6
<1>7. CASE worker' = [worker EXCEPT ![w].run = run, ![w].pc = "check"]
  BY <1>2, <1>7
<1>8. CASE worker' = [worker EXCEPT ![w].run = run, ![w].pc = "ready"]
  BY <1>2, <1>8
<1>9. CASE worker' = [worker EXCEPT ![w].run = run, ![w].pc = "poll"]
  BY <1>2, <1>9
<1> QED BY <1>3, <1>4, <1>5, <1>6, <1>7, <1>8, <1>9 DEF Observe

\* Activation is tried in AWAITING_ACTIVATION alone.
LEMMA ActivationSettles ==
  ASSUME IInv, SafeInv, SettleInv, NEW w \in Workers,
         Ready(w) \/ Activate(w) \/ UndoRecord(w) \/ Poll(w) \/ Confirm(w)
  PROVE  SettleInv'
<1>1. /\ TypeOK /\ Moves(w) /\ Acting(w) /\ UNCHANGED clock
      /\ clock \in Nat /\ worker[w].now \in Nat
      /\ worker[w] \in WorkerStates /\ worker \in [Workers -> WorkerStates]
  BY ReadyMoves, ActivateMoves, UndoRecordMoves, PollMoves, ConfirmMoves, WorkerFields
     DEF IInv, TypeOK, Ready, Activate, UndoRecord, Poll, Confirm, At, Acting, metaVars
<1>2. /\ worker[w].stage # "FINALIZING" /\ worker[w].now <= clock
      /\ worker[w].pc = "confirm" =>
            worker[w].goal \in {"AWAITING_ACTIVATION", "COLLECTING"}
  BY <1>1, HeldSettling DEF PcOK, Settling, Ready, Activate, UndoRecord, Poll,
     Confirm, At
<1>3. /\ worker'[w].now \in {0, worker[w].now}
      /\ \/ worker'[w].pc \in {"catch", "activate", "undo", "confirm"}
         \/ worker'[w].pc = "commit" /\ worker'[w].goal # "FINALIZING"
  <2>1. ASSUME NEW goal \in {"AWAITING_ACTIVATION", "COLLECTING"}, PollCommit(w, goal)
        PROVE  /\ worker'[w].pc = "commit" /\ worker'[w].goal = goal
               /\ worker'[w].now = 0
    <3>1. (IF goal = "COLLECTING" THEN worker[w].run.endsAt ELSE 0) \in Nat
      BY <1>1, WorkerFields
    <3> QED BY <1>1, <2>1, <3>1, BecameAlso
         DEF PollCommit, Statuses, Processable, Stages
  <2>2. CASE Throw(w, "transient") \/ Throw(w, "permanent")
    BY <1>1, <2>2, BecameAlso
  <2>3. CASE Ready(w)
    BY <1>1, <2>3, BecameAlso DEF Ready, UpdateRun, PCs
  <2>4. CASE Activate(w)
    <3>1. CASE worker' = [worker EXCEPT ![w].step = @ + 1]
      BY <1>1, <2>4, <3>1 DEF Activate, At, WorkerStates
    <3>2. CASE CommitTo(w, "AWAITING_ACTIVATION", 0)
      BY <1>1, <3>2, BecameAlso DEF Statuses, Processable, Stages
    <3>3. CASE Loop(w, "undo")
      BY <1>1, <3>3, BecameAlso DEF PCs
    <3> QED BY <2>4, <3>1, <3>2, <3>3 DEF Activate, SetObject
  <2>5. CASE UndoRecord(w)
    BY <2>2, <2>5 DEF UndoRecord, UpdateRun
  <2>6. CASE Poll(w)
    <3>1. ASSUME NEW goal \in {"AWAITING_ACTIVATION", "COLLECTING"},
                 worker' = [worker EXCEPT ![w].pc = "confirm", ![w].goal = goal]
          PROVE  worker'[w].pc = "confirm" /\ worker'[w].now = worker[w].now
      BY <1>1, <3>1 DEF WorkerStates
    <3> QED BY <2>1, <2>2, <2>6, <3>1 DEF Poll
  <2>7. CASE Confirm(w)
    <3>1. worker[w].pc = "confirm"
      BY <2>7 DEF Confirm, At
    <3> QED BY <1>2, <2>1, <2>2, <2>7, <3>1 DEF Confirm, UpdateRun
  <2> QED BY <2>3, <2>4, <2>5, <2>6, <2>7
<1>4. worker'[w].now <= clock
  BY <1>1, <1>2, <1>3
<1> QED BY <1>1, <1>2, <1>3, <1>4, LeavesSettled

\* A pause is begun, attempted and verified outside FINALIZING alone: there the
\* run is PAUSED, or PAUSING and refuses to begin.
LEMMA PauseSettles ==
  ASSUME IInv, SafeInv, SettleInv, NEW w \in Workers,
         PauseBegin(w) \/ PauseObject(w) \/ PauseVerify(w)
  PROVE  SettleInv'
<1>1. /\ TypeOK /\ Moves(w) /\ Acting(w) /\ UNCHANGED clock
      /\ clock \in Nat /\ worker[w].now \in Nat
      /\ worker[w] \in WorkerStates /\ worker \in [Workers -> WorkerStates]
      /\ Settling(worker[w]) /\ PcOK(worker[w])
  BY PauseBeginMoves, PauseObjectMoves, PauseVerifyMoves, WorkerFields, HeldSettling
     DEF IInv, TypeOK, PauseBegin, PauseObject, PauseVerify, At, Acting, metaVars
<1>2. CASE worker[w].stage = "FINALIZING"
  <2>1. PauseBegin(w) /\ run.status = "PAUSING"
    BY <1>1, <1>2 DEF PauseBegin, PauseObject, PauseVerify, At, Settling, PcOK
  <2>2. Throw(w, "transient") /\ UNCHANGED run
    BY <2>1 DEF PauseBegin, UpdateRun, Pausable
  <2>3. worker'[w].pc = "catch" /\ worker'[w].now <= clock
    BY <1>1, <2>2, BecameAlso
  <2> QED BY <1>1, <2>2, <2>3, LeavesSettled
<1>3. CASE worker[w].stage # "FINALIZING"
  <2>1. \/ worker'[w].pc = "catch" /\ worker'[w].now = 0
        \/ /\ worker'[w].pc \in {"pause", "pauseVerify", "pauseRecord", "undo",
                                 "undoVerify", "undoRecord"}
           /\ worker'[w].stage = worker[w].stage /\ worker'[w].now = worker[w].now
    <3>1. CASE Throw(w, "transient")
      BY <1>1, <3>1, BecameAlso
    <3>2. ASSUME NEW ok \in BOOLEAN,
                 \/ worker' = [worker EXCEPT ![w].step = @ + 1, ![w].ok = ok]
                 \/ worker' = [worker EXCEPT ![w].pc = "undoRecord", ![w].ok = ok]
          PROVE  /\ worker'[w].pc = worker[w].pc \/ worker'[w].pc = "undoRecord"
                 /\ worker'[w].stage = worker[w].stage
                 /\ worker'[w].now = worker[w].now
      BY <1>1, <3>2 DEF WorkerStates
    <3>3. ASSUME NEW pc \in {"undoVerify", "pauseVerify", "undoRecord", "pauseRecord"},
                 Goto(w, pc)
          PROVE  /\ worker'[w].pc = pc /\ worker'[w].stage = worker[w].stage
                 /\ worker'[w].now = worker[w].now
      BY <1>1, <3>3, BecameAlso DEF PCs
    <3>4. CASE Unverified(w)
      BY <3>1, <3>2, <3>4 DEF Unverified
    <3>5. CASE PauseBegin(w)
      BY <1>1, <3>1, <3>5, BecameAlso DEF PauseBegin, UpdateRun, PCs
    <3>6. CASE PauseObject(w)
      <4>1. worker[w].ok \in BOOLEAN /\ worker[w].pc \in {"undo", "pause"}
        BY <1>1, <3>6 DEF WorkerStates, PauseObject
      <4>2. \/ \E ok \in BOOLEAN :
                   worker' = [worker EXCEPT ![w].step = @ + 1, ![w].ok = ok]
            \/ Unverified(w)
            \/ Goto(w, IF At(w, "undo") THEN "undoVerify" ELSE "pauseVerify")
        BY <3>6, <4>1 DEF PauseObject, SetObject
      <4> QED BY <3>2, <3>3, <3>4, <4>1, <4>2
    <3>7. CASE PauseVerify(w)
      BY <3>3, <3>4, <3>7 DEF PauseVerify
    <3> QED BY <3>5, <3>6, <3>7
  <2>2. Settling(worker[w])'
    BY <1>1, <1>3, <2>1 DEF Settling
  <2> QED BY <1>1, <1>3, <2>2, ActingSettles
<1> QED BY <1>2, <1>3

LEMMA PauseRecordSettles ==
  ASSUME IInv, SafeInv, SettleInv, NEW w \in Workers, PauseRecord(w)
  PROVE  SettleInv'
<1>1. /\ TypeOK /\ Moves(w) /\ Acting(w) /\ UNCHANGED clock
      /\ clock \in Nat /\ worker[w].now \in Nat /\ run \in Runs /\ run.endsAt \in Nat
      /\ worker[w].stage # "FINALIZING" /\ worker[w].now <= clock
  BY PauseRecordMoves, HeldSettling, WorkerFields
     DEF IInv, TypeOK, PauseRecord, At, Acting, Settling
<1>2. \/ worker'[w].pc = "catch" /\ worker'[w].now = 0
      \/ /\ run'.status = "PAUSED" /\ worker'[w].now \in {0, worker[w].now}
         /\ \/ worker'[w].pc = "commit"
            \/ /\ worker'[w].pc = "collect"
               /\ worker'[w].stage = worker[w].stage /\ worker[w].stage # "COLLECTING"
  <2>1. [run EXCEPT !.status = "PAUSED", !.pausedAt = clock].status = "PAUSED"
    BY <1>1 DEF Runs
  <2>2. "FINALIZING" \in Statuses /\ "collect" \in PCs
    BY DEF Statuses, Processable, Stages, PCs
  <2>3. CASE worker[w].stage = "COLLECTING"
    BY <1>1, <2>1, <2>2, <2>3, BecameAlso DEF PauseRecord, UpdateRun
  <2>4. CASE worker[w].stage # "COLLECTING"
    <3>1. CASE Throw(w, "transient")
      BY <1>1, <3>1, BecameAlso
    <3>2. CASE Goto(w, "collect") /\ run' = [run EXCEPT !.status = "PAUSED",
                                                       !.pausedAt = clock]
      <4>1. /\ worker'[w].pc = "collect" /\ worker'[w].stage = worker[w].stage
            /\ worker'[w].now = worker[w].now
        BY <1>1, <2>2, <3>2, BecameAlso
      <4> QED BY <2>1, <2>4, <3>2, <4>1
    <3> QED BY <2>4, <3>1, <3>2 DEF PauseRecord, UpdateRun
  <2> QED BY <2>3, <2>4
<1>3. Settling(worker[w])'
  BY <1>1, <1>2 DEF Settling
<1> QED BY <1>1, <1>3, ActingSettles
LEMMA CheckDeliverySettles ==
  ASSUME IInv, SafeInv, SettleInv, NEW w \in Workers, CheckDelivery(w)
  PROVE  SettleInv'
<1>1. /\ TypeOK /\ Moves(w) /\ Acting(w) /\ UNCHANGED <<run, clock>> /\ clock \in Nat
      /\ Settling(worker[w]) /\ worker[w].pc = "check" /\ worker[w].stage = "COLLECTING"
  BY CheckDeliveryMoves, HeldSettling
     DEF IInv, TypeOK, CheckDelivery, At, Acting, PcOK, metaVars
<1>2. CASE Goto(w, "collect")
  <2>1. /\ worker'[w].pc = "collect" /\ worker'[w].stage = "COLLECTING"
        /\ worker'[w].now = worker[w].now /\ worker'[w].run = worker[w].run
    BY <1>1, <1>2, BecameAlso DEF PCs
  <2>2. Settling(worker[w])'
    BY <1>1, <2>1 DEF Settling
  <2> QED BY <1>1, <2>2, ActingSettles
<1>3. CASE Throw(w, "transient")
  <2>1. worker'[w].pc = "catch" /\ worker'[w].now <= clock
    BY <1>1, <1>3, BecameAlso
  <2> QED BY <1>1, <2>1, LeavesSettled
<1> QED BY <1>2, <1>3 DEF CheckDelivery

LEMMA CollectSettles ==
  ASSUME IInv, SafeInv, SettleInv, NEW w \in Workers, Collect(w)
  PROVE  SettleInv'
<1>1. /\ TypeOK /\ Moves(w) /\ Acting(w) /\ UNCHANGED <<run, clock>> /\ clock \in Nat
      /\ Settling(worker[w]) /\ Underway(worker[w]) /\ worker[w].pc = "collect"
      /\ worker[w].stage \in Later /\ worker[w].now \in Nat
      /\ worker[w].run.endsAt \in Nat
  BY CollectMoves, HeldSettling, WorkerFields
     DEF IInv, TypeOK, Collect, At, Acting, PcOK
<1>2. /\ worker[w].stage = "COLLECTING" => run = worker[w].run
      /\ worker[w].stage # "COLLECTING" => run.status = "PAUSED"
  BY <1>1 DEF Settling, Underway, Later
<1>3. ASSUME NEW goal \in {"COLLECTING", "FINALIZING", "COMPLETED"},
             NEW endsAt \in Nat, CommitTo(w, goal, endsAt),
             goal = "FINALIZING" => run.status = "PAUSED"
      PROVE  SettleInv'
  <2>1. worker'[w].pc = "commit" /\ worker'[w].goal = goal /\ worker'[w].now = 0
    BY <1>1, <1>3, BecameAlso DEF Statuses, Processable, Stages
  <2>2. Settling(worker[w])'
    BY <1>1, <1>3, <2>1 DEF Settling
  <2> QED BY <1>1, <1>2, <2>2, ActingSettles
<1>4. CASE Throw(w, "transient")
  <2>1. worker'[w].pc = "catch" /\ worker'[w].now <= clock
    BY <1>1, <1>4, BecameAlso
  <2> QED BY <1>1, <2>1, LeavesSettled
<1>5. CASE worker[w].stage = "COLLECTING" /\ Goto(w, "pauseBegin")
  <2>1. /\ worker'[w].pc = "pauseBegin" /\ worker'[w].stage = "COLLECTING"
        /\ worker'[w].now = worker[w].now
    BY <1>1, <1>5, BecameAlso DEF PCs
  <2>2. Settling(worker[w])'
    BY <1>1, <2>1 DEF Settling
  <2> QED BY <1>1, <1>5, <2>2, ActingSettles
<1>6. CASE worker[w].stage # "COLLECTING" /\ CommitTo(w, "FINALIZING", 0)
  BY <1>2, <1>3, <1>6
<1>7. CASE CommitTo(w, "COLLECTING", 0)
  BY <1>3, <1>7
<1>8. CASE /\ worker[w].stage = "COLLECTING" /\ worker[w].run.status = "PAUSED"
           /\ CommitTo(w, "FINALIZING", worker[w].run.endsAt)
  BY <1>1, <1>2, <1>3, <1>8
<1>9. CASE CommitTo(w, "COMPLETED", 0)
  BY <1>3, <1>9
<1> QED BY <1>1, <1>4, <1>5, <1>6, <1>7, <1>8, <1>9 DEF Collect, Later

\* A step of a worker on the row.
LEMMA RowSettles ==
  ASSUME IInv, SafeInv, SettleInv, NEW w \in Workers, NEW r \in WorkerStates,
         worker' = [worker EXCEPT ![w] = r], UNCHANGED <<run, clock>>,
         HoldsLease(row', w) => Settling(r),
         \A v \in Workers \ {w} : HoldsLease(row', v) => HoldsLease(row, v),
         StageOf(row') = "FINALIZING" =>
             StageOf(row) = "FINALIZING" \/ run.status \in {"PAUSED", "PAUSING"}
  PROVE  SettleInv'
<1>1. ASSUME NEW v \in Workers, HoldsLease(row, v)' PROVE Settling(worker[v])'
  <2>1. CASE v = w
    <3>1. worker'[v] = r
      BY <2>1 DEF IInv, TypeOK
    <3>2. Settling(r)
      BY <1>1, <2>1 DEF HoldsLease
    <3> QED BY <3>1, <3>2 DEF Settling
  <2>2. CASE v # w
    <3>1. worker'[v] = worker[v]
      BY <2>2 DEF IInv, TypeOK
    <3>2. HoldsLease(row, v)
      BY <1>1, <2>2 DEF HoldsLease
    <3>3. Settling(worker[v])
      BY <3>2 DEF SettleInv
    <3> QED BY <3>1, <3>3 DEF Settling
  <2> QED BY <2>1, <2>2
<1>2. StageOf(row)' = StageOf(row')
  BY DEF StageOf
<1> QED BY <1>1, <1>2 DEF SettleInv

LEMMA ClaimSettles ==
  ASSUME IInv, SafeInv, SettleInv, NEW w \in Workers, Claim(w)
  PROVE  SettleInv'
<1>1. PICK pc \in {"commit", "claimed"} :
        worker' = [worker EXCEPT ![w] =
          [IdleWorker EXCEPT !.pc = pc, !.stage = TargetStage(row),
                             !.attempts = row.stageAttempts, !.goal = "FAILED"]]
  BY DEF Claim
<1> DEFINE r == [IdleWorker EXCEPT !.pc = pc, !.stage = TargetStage(row),
                             !.attempts = row.stageAttempts, !.goal = "FAILED"]
<1>2. r.pc = pc /\ r.goal = "FAILED" /\ r.now = 0
  BY DEF IdleWorker
<1>3. worker' = [worker EXCEPT ![w] = r]
  BY <1>1
<1> HIDE DEF r
<1>4. r \in WorkerStates
  <2>1. worker' \in [Workers -> WorkerStates]
    BY ClaimInv DEF IInv, TypeOK
  <2> QED BY <1>3, <2>1 DEF IInv, TypeOK
<1>5. Settling(r)
  BY <1>2 DEF Settling, IInv, TypeOK
<1>6. /\ \A v \in Workers \ {w} : ~HoldsLease(row', v)
      /\ StageOf(row') = StageOf(row)
  BY RowOKIs DEF Claim, Claimable, Claimed, HoldsLease, Rows, StageOf
<1>7. UNCHANGED <<run, clock>>
  BY DEF Claim, metaVars
<1> QED BY <1>3, <1>4, <1>5, <1>6, <1>7, RowSettles

LEMMA RenewSettles ==
  ASSUME IInv, SafeInv, SettleInv, NEW w \in Workers, Renew(w)
  PROVE  SettleInv'
<1>1. /\ TypeOK /\ row \in Rows /\ RowOK(row) /\ UNCHANGED <<run, clock>>
      /\ worker' \in [Workers -> WorkerStates]
  BY RowOKIs, RenewInv DEF IInv, TypeOK, Renew, metaVars
<1>2. PICK r \in WorkerStates :
        /\ worker' = [worker EXCEPT ![w] = r]
        /\ r.pc \in {"catch", "generate", "prepare", "observe"} /\ r.now <= clock
  <2>1. CASE Throw(w, "transient")
    <3>1. worker'[w].pc = "catch" /\ worker'[w].now <= clock
          /\ worker'[w] \in WorkerStates
      BY <1>1, <2>1, BecameAlso DEF TypeOK
    <3> QED BY <1>1, <2>1, <3>1 DEF Throw, TypeOK
  <2>2. CASE worker' = [worker EXCEPT ![w] = RenewedWorker(w)]
    <3>1. RenewedWorker(w) \in WorkerStates
      BY <1>1, <2>2 DEF TypeOK
    <3>2. RenewedWorker(w).pc \in {"generate", "prepare", "observe"}
          /\ RenewedWorker(w).now <= clock
      <4>1. worker[w] \in WorkerStates /\ clock \in Nat
        BY <1>1, WorkerFields DEF TypeOK
      <4> QED BY <4>1 DEF RenewedWorker, WorkerStates
    <3> QED BY <2>2, <3>1, <3>2
  <2> QED BY <2>1, <2>2 DEF Renew
<1>3. Settling(r)
  BY <1>2 DEF Settling
<1>4. \A v \in Workers : HoldsLease(row', v) => HoldsLease(row, v)
  BY <1>1 DEF Renew, Renewed, HoldsLease, Rows
<1>5. StageOf(row') = StageOf(row)
  <2>1. CASE UNCHANGED row
    BY <2>1 DEF StageOf
  <2>2. CASE HoldsLease(row, w) /\ row' = Renewed(row, worker[w].stage)
    <3>1. /\ row.status \in Processable /\ ~Exhausted(row)
          /\ worker[w].stage = TargetStage(row)
      BY <2>2 DEF IInv, WorkerInv, Agrees, Renew, At
    <3> QED BY <1>1, <2>2, <3>1, RenewedRow
  <2> QED BY <2>1, <2>2 DEF Renew
<1> QED BY <1>1, <1>2, <1>3, <1>4, <1>5, RowSettles

LEMMA TransitionSettles ==
  ASSUME IInv, SafeInv, SettleInv, NEW w \in Workers, Commit(w) \/ Catch(w)
  PROVE  SettleInv'
<1>1. TypeOK /\ row \in Rows /\ UNCHANGED <<run, clock>>
  BY RowOKIs DEF IInv, Commit, Catch, metaVars
<1>2. PICK r \in WorkerStates : /\ worker' = [worker EXCEPT ![w] = r]
                                /\ r.pc \in {"idle", "catch"}
  BY <1>1, AfterTransition DEF Commit, Catch
<1>3. Settling(r)
  <2>1. r.now = 0
    <3>1. CASE Return(w)
      BY <1>1, <1>2, <3>1 DEF Return, IdleWorker, TypeOK
    <3>2. CASE Throw(w, "transient")
      BY <1>1, <1>2, <3>2, BecameAlso DEF TypeOK
    <3> QED BY <3>1, <3>2 DEF Commit, Catch
  <2> QED BY <1>1, <1>2, <2>1 DEF Settling, TypeOK
<1>4. CASE UNCHANGED row
  BY <1>1, <1>2, <1>3, <1>4, RowSettles
<1>5. CASE Commit(w) /\ HoldsLease(row, w) /\ row' = CommittedRow(w)
  <2>1. row'.lease = "none" /\ row'.status = worker[w].goal
    BY <1>1, <1>5, WorkerFields DEF CommittedRow, Transitioned, Rows
  <2>2. Settling(worker[w]) /\ worker[w].pc = "commit" /\ PcOK(worker[w])
    BY <1>5 DEF SettleInv, IInv, WorkerInv, Commit, At
  <2>3. worker[w].goal # "RETRY_WAIT"
    BY <2>2 DEF PcOK, After, Later
  <2>4. StageOf(row') = "FINALIZING" => worker[w].goal = "FINALIZING"
    BY <2>1, <2>3 DEF StageOf
  <2>5. StageOf(row') = "FINALIZING" => run.status \in {"PAUSED", "PAUSING"}
    BY <2>2, <2>4 DEF Settling
  <2>6. \A v \in Workers : ~HoldsLease(row', v)
    BY <2>1 DEF HoldsLease
  <2> QED BY <1>1, <1>2, <2>5, <2>6, RowSettles
<1>6. CASE /\ CanTransition(row, w, FailureStatus(w), FALSE)
           /\ row' = Transitioned(row, FailureStatus(w), FALSE, 0, FALSE)
  <2>1. /\ row'.lease = "none" /\ row'.status = FailureStatus(w)
        /\ FailureStatus(w) \in {"FAILED", "RETRY_WAIT"}
        /\ FailureStatus(w) = "RETRY_WAIT" => row'.retryFrom = row.status
    BY <1>1, <1>6 DEF FailureStatus, Transitioned, Rows
  <2>2. StageOf(row') = "FINALIZING" => StageOf(row) = "FINALIZING"
    BY <2>1 DEF StageOf
  <2>3. \A v \in Workers : ~HoldsLease(row', v)
    BY <2>1 DEF HoldsLease
  <2> QED BY <1>1, <1>2, <2>2, <2>3, RowSettles
<1> QED BY <1>4, <1>5, <1>6 DEF Commit, Catch, CanTransition
LEMMA CrashSettles ==
  ASSUME IInv, SafeInv, SettleInv, NEW w \in Workers, Crash(w)
  PROVE  SettleInv'
<1>1. /\ worker' = [worker EXCEPT ![w] = IdleWorker]
      /\ UNCHANGED <<row, run, clock>> /\ IdleWorker \in WorkerStates
  BY IdleType DEF Crash, Return, metaVars
<1>2. Settling(IdleWorker)
  BY DEF Settling, IdleWorker, IInv, TypeOK
<1> QED BY <1>1, <1>2, RowSettles

LEMMA EnvironmentSettles ==
  ASSUME IInv, SafeInv, SettleInv,
         \/ Time \/ Owner \/ UNCHANGED vars
         \/ \E o \in Objects : PauseInAdsManager(o)
  PROVE  SettleInv'
<1>1. UNCHANGED worker /\ clock' >= clock
  <2>1. clock \in Nat
    BY DEF IInv, TypeOK
  <2>2. UNCHANGED worker /\ clock' \in {clock, clock + 1}
    BY DEF Time, LeaseExpires, OperationLeaseExpires, BecomeDue, Tick, Owner,
       CheckDeletion, Delete, PauseInAdsManager, vars
  <2> QED BY <2>1, <2>2
<1>2. CASE Delete /\ Deletable
  <2>1. row' = DeletedRow
    BY <1>2 DEF Delete
  <2>2. row'.status = "DELETED" /\ row'.lease = "none"
    BY <2>1 DEF DeletedRow, SubmittedRow
  <2> QED BY <2>2 DEF SettleInv, StageOf, HoldsLease
<1>3. CASE ~(Delete /\ Deletable)
  <2>1. UNCHANGED run
    BY <1>3 DEF Time, LeaseExpires, OperationLeaseExpires, BecomeDue, Tick, Owner,
       CheckDeletion, Delete, PauseInAdsManager, vars, metaVars
  <2>2. /\ row'.status = row.status /\ row'.retryFrom = row.retryFrom
        /\ \A v \in Workers : HoldsLease(row', v) => HoldsLease(row, v)
    BY <1>3, RowOKIs DEF Time, LeaseExpires, OperationLeaseExpires, BecomeDue, Tick,
       Owner, CheckDeletion, Delete, PauseInAdsManager, vars, metaVars, Rows,
       HoldsLease
  <2>3. StageOf(row)' = StageOf(row)
    BY <2>2 DEF StageOf
  <2>4. ASSUME NEW v \in Workers, HoldsLease(row, v)' PROVE Settling(worker[v])'
    <3>1. Settling(worker[v])
      BY <2>2, <2>4 DEF SettleInv, HoldsLease
    <3>2. worker[v].now \in Nat /\ clock \in Nat /\ clock' \in Nat
      BY NextInv, WorkerFields DEF IInv, TypeOK, Next
    <3>3. worker[v].now <= clock'
      BY <1>1, <3>1, <3>2 DEF Settling
    <3> QED BY <1>1, <2>1, <3>1, <3>3 DEF Settling
  <2> QED BY <2>1, <2>3, <2>4 DEF SettleInv
<1> QED BY <1>2, <1>3

LEMMA NextSettles ==
  ASSUME IInv, SafeInv, SettleInv, [Next]_vars
  PROVE  SettleInv'
<1>1. ASSUME NEW w \in Workers, WorkerStep(w) PROVE SettleInv'
  BY <1>1, RenewSettles, TransitionSettles, EarlySettles, ObserveSettles,
     ActivationSettles, PauseSettles, PauseRecordSettles, CheckDeliverySettles,
     CollectSettles DEF WorkerStep
<1>2. ASSUME NEW w \in Workers, Claim(w) \/ Crash(w) PROVE SettleInv'
  BY <1>2, ClaimSettles, CrashSettles
<1> QED BY <1>1, <1>2, EnvironmentSettles DEF Next

\* The step that stores the final snapshot.
LEMMA FinalStep ==
  ASSUME IInv, SafeInv, SettleInv, [Next]_vars, ~finals, finals'
  PROVE  /\ AllPaused(objects)
         /\ clock >= run.endsAt + Delay
         /\ clock >= run.pausedAt + Delay
<1>1. PICK w \in Workers : Collect(w)
  BY DEF Next, Claim, WorkerStep, Crash, Renew, Commit, Catch, Generate, Prepare,
     AcquireOperation, BeginOrComplete, CreateObject, RegisterRun, Observe, Ready,
     Activate, PauseObject, PauseVerify, UndoRecord, PauseBegin, PauseRecord, Poll,
     Confirm, CheckDelivery, PauseInAdsManager, Time, LeaseExpires,
     OperationLeaseExpires, BecomeDue, Tick, Owner, CheckDeletion, Delete, vars,
     metaVars
<1>2. /\ worker[w].pc = "collect" /\ worker[w].stage = "FINALIZING"
      /\ worker[w].now >= FinalizationAt(worker[w].run)
  BY <1>1 DEF Collect, At
<1>3. Settling(worker[w]) /\ Underway(worker[w])
  BY <1>2, HeldSettling DEF Acting
<1>4. run = worker[w].run /\ run.status = "PAUSED" /\ worker[w].now <= clock
  BY <1>2, <1>3 DEF Settling, Underway
<1>5. /\ run.endsAt \in Nat /\ run.pausedAt \in Nat /\ Delay \in Nat
      /\ clock \in Nat /\ worker[w].now \in Nat
  BY BudgetAssumption, WorkerFields DEF IInv, TypeOK, Runs
<1>6. clock >= FinalizationAt(run)
  BY <1>2, <1>4, <1>5 DEF FinalizationAt
<1>7. clock >= run.endsAt + Delay /\ clock >= run.pausedAt + Delay
  BY <1>5, <1>6 DEF FinalizationAt
<1> QED BY <1>4, <1>7 DEF SafeInv, Quiet

\* The final snapshot is taken after the delay on the run as it really ended,
\* though the worker computes the time from the run it read before its own
\* calls, if a lease always outlives its step: FINALIZING never pauses a run.
THEOREM FinalSnapshotIsLate == LeaseOutlivesStep /\ Spec => FinalAfterSettlement
<1> SUFFICES ASSUME LeaseOutlivesStep PROVE Spec => FinalAfterSettlement
  OBVIOUS
<1>1. Init => IInv /\ SettleInv
  <2> SUFFICES ASSUME Init PROVE IInv /\ SettleInv
    OBVIOUS
  <2>1. IInv /\ StageOf(row) = "GENERATING"
    BY InitInv
  <2>2. SubmittedRow.lease = "none"
    BY DEF SubmittedRow
  <2>3. \A w \in Workers : ~HoldsLease(row, w)
    BY <2>2 DEF Init, HoldsLease
  <2> QED BY <2>1, <2>3 DEF SettleInv
<1>2. IInv /\ SafeInv /\ SettleInv /\ [Next]_vars => IInv' /\ SettleInv'
  BY NextInv, NextSettles
<1>3. IInv /\ SafeInv /\ SettleInv /\ [Next]_vars =>
        [~finals /\ finals' => /\ AllPaused(objects)
                               /\ clock >= run.endsAt + Delay
                               /\ clock >= run.pausedAt + Delay]_vars
  BY FinalStep
<1> QED BY <1>1, <1>2, <1>3, SafeInvariant, PTL DEF Spec, FinalAfterSettlement
=============================================================================
