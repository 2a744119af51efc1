--------------------------- MODULE MetaDraftProofs ---------------------------
(***************************************************************************)
(* The draft is of one piece, the run tells the truth about it, and an ad  *)
(* spends only in an acknowledged account: for any settings, any number of *)
(* workers and any limits.                                                 *)
(*                                                                         *)
(* A pass that makes or registers anything holds the descriptor of the     *)
(* operation; the operation never changes its descriptor and is never      *)
(* removed; so what is built, and the run, agree with the operation.       *)
(***************************************************************************)
EXTENDS MetaDraft, TLAPS

Drafting == {"VERIFYING", "CREATING", "REGISTERING"}

PassHasDescriptor ==
    \A w \in Workers :
        pass[w].at \in Drafting =>
            op # NoOperation /\ op.of = Descriptor(pass[w].env)

Recorded ==
    op # NoOperation =>
        /\ \A k \in 1..op.done : built[k] # Nothing
        /\ op.status = "COMPLETED" => op.done = StepCount

Registering ==
    \A w \in Workers : pass[w].at = "REGISTERING" => op.done = StepCount

RunAgrees ==
    run # NoRun =>
        /\ op # NoOperation /\ op.done = StepCount
        /\ run.account = op.of.account
        /\ run.budget = op.of.budget

GrantAgrees ==
    granted # Nothing => run # NoRun /\ granted.account = run.account

IInv ==
    /\ TypeOK /\ PassHasDescriptor /\ Recorded /\ Registering /\ RunAgrees
    /\ GrantAgrees /\ DraftIsOfOnePiece
------------------------------------------------------------------------------
(* The parts of the state a step changes *)

LEMMA Limits == StageLimit \in Nat /\ ErrorLimit \in Nat
BY LimitsAssumption

LEMMA Environment ==
  ASSUME NEW e \in Environments
  PROVE  /\ e.account \in Accounts /\ e.site \in Sites
         /\ e.budget \in Nat /\ e.ackAccount \in Accounts /\ e.ackBudget \in Nat
         /\ Descriptor(e) \in Descriptors
BY EnvironmentsAssumption DEF Descriptor, Descriptors

\* What a step makes depends on the descriptor alone.
LEMMA MadeFromDescriptor ==
  ASSUME NEW e \in Environments, NEW k \in 1..StepCount
  PROVE  /\ Made(k, e) = Made(k, Descriptor(e))
         /\ Made(k, e) \in Objects
         /\ Made(k, e) # Nothing
         /\ Made(k, e).account = e.account
         /\ k = 3 => Made(k, e).budget = e.budget
<1> USE DEF MetaObject, UploadedImages, CreatedCampaign, CreatedAdSet,
            CreatedCreative, CreatedAd, Descriptor
<1>1. k = 1 \/ k = 2 \/ k = 3 \/ k = 4 \/ k = 5
  BY DEF StepCount
<1>2. \A d \in {e, Descriptor(e)} :
        /\ k = 1 => Made(k, d) = MetaObject(d, 0, NoSite)
        /\ k = 2 => Made(k, d) = MetaObject(d, 0, NoSite)
        /\ k = 3 => Made(k, d) = MetaObject(d, d.budget, NoSite)
        /\ k = 4 => Made(k, d) = MetaObject(d, 0, d.site)
        /\ k = 5 => Made(k, d) = MetaObject(d, 0, NoSite)
  BY DEF Made
<1>3. Made(k, e) = Made(k, Descriptor(e))
  BY <1>1, <1>2
<1>4. /\ Made(k, e) \in Objects
      /\ Made(k, e).account = e.account
      /\ k = 3 => Made(k, e).budget = e.budget
  BY <1>1, <1>2, Environment DEF Objects
<1>5. Made(k, e) # Nothing
  BY <1>4 DEF Objects, Nothing
<1> QED
  BY <1>3, <1>4, <1>5

\* A pass ends; only the campaign's row may change with it.
LEMMA PassEnds ==
  ASSUME IInv, NEW w \in Workers, pass' = [pass EXCEPT ![w] = NoPass],
         row' \in [status: {"PREPARING", "AWAITING_ACTIVATION", "FAILED"},
                   attempts: 0..StageLimit, holder: Workers \cup {NoWorker}],
         UNCHANGED <<env, op, built, run, granted>>
  PROVE  IInv'
<1>1. TypeOK'
  BY DEF IInv, TypeOK
<1>2. \A v \in Workers : pass'[v].at \in Drafting => pass'[v] = pass[v]
  BY DEF IInv, TypeOK, NoPass, Drafting
<1>3. PassHasDescriptor' /\ Registering'
  BY <1>2 DEF IInv, PassHasDescriptor, Registering, Drafting
<1> QED
  BY <1>1, <1>3 DEF IInv, Recorded, RunAgrees, GrantAgrees, DraftIsOfOnePiece

LEMMA Settled ==
  ASSUME TypeOK, NEW w \in Workers, NEW attempts \in 0..StageLimit,
         NEW status \in {"PREPARING", "AWAITING_ACTIVATION", "FAILED"},
         Settle(w, status, attempts)
  PROVE  /\ pass' = [pass EXCEPT ![w] = NoPass]
         /\ row' \in [status: {"PREPARING", "AWAITING_ACTIVATION", "FAILED"},
                      attempts: 0..StageLimit, holder: Workers \cup {NoWorker}]
BY DEF Settle, TypeOK

\* The three ways a pass settles the campaign.
LEMMA Settlements ==
  ASSUME TypeOK, NEW w \in Workers,
         \/ FailPermanently(w) \/ FailForNow(w)
         \/ Settle(w, "AWAITING_ACTIVATION", 0)
  PROVE  /\ pass' = [pass EXCEPT ![w] = NoPass]
         /\ row' \in [status: {"PREPARING", "AWAITING_ACTIVATION", "FAILED"},
                      attempts: 0..StageLimit, holder: Workers \cup {NoWorker}]
<1>1. row.attempts \in 0..StageLimit /\ 0 \in 0..StageLimit
      /\ row.status \in {"PREPARING", "AWAITING_ACTIVATION", "FAILED"}
  BY Limits DEF TypeOK
<1>2. CASE FailPermanently(w)
  BY <1>1, <1>2, Settled DEF FailPermanently
<1>3. CASE FailForNow(w)
  <2> DEFINE status == IF row.attempts >= ErrorLimit THEN "FAILED" ELSE row.status
  <2>1. status \in {"PREPARING", "AWAITING_ACTIVATION", "FAILED"}
    BY <1>1
  <2>2. Settle(w, status, row.attempts)
    BY <1>3 DEF FailForNow
  <2> HIDE DEF status
  <2> QED
    BY <1>1, <2>1, <2>2, Settled
<1>4. CASE Settle(w, "AWAITING_ACTIVATION", 0)
  BY <1>1, <1>4, Settled
<1> QED
  BY <1>2, <1>3, <1>4

------------------------------------------------------------------------------
(* The steps of a pass *)

\* Every way a pass ends without a word to Meta or to the tables.
LEMMA EndingSteps ==
  ASSUME IInv, NEW w \in Workers,
         \/ RefuseSettings(w) \/ RefuseInput(w) \/ CallFails(w)
         \/ AssetsUnlinked(w) \/ LoseOperation(w) \/ AwaitNext(w)
         \/ NoProvider(w) \/ Unauthorized(w) \/ Unready(w) \/ Observe(w)
  PROVE  IInv'
<1>1. /\ UNCHANGED <<env, op, built, run, granted>>
      /\ \/ FailPermanently(w) \/ FailForNow(w)
         \/ Settle(w, "AWAITING_ACTIVATION", 0)
  BY DEF RefuseSettings, RefuseInput, CallFails, AssetsUnlinked, LoseOperation,
         AwaitNext, NoProvider, Unauthorized, Unready, Observe
<1> QED
  BY <1>1, Settlements, PassEnds DEF IInv

LEMMA CrashStep ==
  ASSUME IInv, NEW w \in Workers, Crash(w)
  PROVE  IInv'
BY PassEnds DEF Crash, IInv, TypeOK

\* A pass goes on and takes no part in drafting yet, or keeps its part.
LEMMA PassMoves ==
  ASSUME IInv, NEW w \in Workers, NEW p \in Passes \cup {NoPass},
         pass' = [pass EXCEPT ![w] = p],
         p.at \in Drafting => /\ p.at # "REGISTERING"
                              /\ pass[w].at \in Drafting /\ p.env = pass[w].env,
         row' \in [status: {"PREPARING", "AWAITING_ACTIVATION", "FAILED"},
                   attempts: 0..StageLimit, holder: Workers \cup {NoWorker}],
         UNCHANGED <<env, op, built, run, granted>>
  PROVE  IInv'
<1>1. TypeOK'
  BY DEF IInv, TypeOK
<1>2. \A v \in Workers :
          pass'[v].at \in Drafting =>
              pass[v].at \in Drafting /\ pass'[v].env = pass[v].env
  BY DEF IInv, TypeOK
<1>3. PassHasDescriptor'
  BY <1>2 DEF IInv, PassHasDescriptor
<1>4. \A v \in Workers : pass'[v].at = "REGISTERING" => pass[v].at = "REGISTERING"
  BY DEF IInv, TypeOK, Drafting
<1>5. Registering'
  BY <1>4 DEF IInv, Registering
<1> QED
  BY <1>1, <1>3, <1>5 DEF IInv, Recorded, RunAgrees, GrantAgrees, DraftIsOfOnePiece

LEMMA ClaimStep ==
  ASSUME IInv, NEW w \in Workers, Claim(w)
  PROVE  IInv'
<1>0. TypeOK
  BY DEF IInv
<1>1. CASE row.attempts >= StageLimit
  <2>1. TypeOK' /\ pass' = pass
    BY <1>0, <1>1 DEF Claim, TypeOK
  <2> QED
    BY <1>1, <2>1 DEF Claim, IInv, PassHasDescriptor, Registering, Recorded,
                      RunAgrees, GrantAgrees, DraftIsOfOnePiece
<1>2. CASE ~(row.attempts >= StageLimit)
  <2> DEFINE p == Started(env, row.status)
  <2>1. p \in Passes /\ p.at \notin Drafting
    BY <1>0 DEF Claim, TypeOK, Started, Passes, Drafting
  <2>2. pass' = [pass EXCEPT ![w] = p]
    BY <1>2 DEF Claim
  <2>3. row' \in [status: {"PREPARING", "AWAITING_ACTIVATION", "FAILED"},
                  attempts: 0..StageLimit, holder: Workers \cup {NoWorker}]
    <3>1. row.attempts \in Nat /\ row.attempts + 1 \in 0..StageLimit
      BY <1>0, <1>2, Limits DEF TypeOK
    <3>2. row' = [row EXCEPT !.attempts = row.attempts + 1, !.holder = w]
      BY <1>2 DEF Claim
    <3> QED
      BY <1>0, <3>1, <3>2 DEF TypeOK
  <2>4. UNCHANGED <<env, op, built, run, granted>>
    BY DEF Claim
  <2> HIDE DEF p
  <2> QED
    BY <2>1, <2>2, <2>3, <2>4, PassMoves
<1> QED
  BY <1>1, <1>2

\* What a pass that is not idle holds.
LEMMA BusyPass ==
  ASSUME TypeOK, NEW w \in Workers, pass[w].at # "IDLE"
  PROVE  pass[w] \in Passes /\ pass[w].env \in Environments
BY DEF TypeOK, NoPass, Passes

LEMMA LookForRunStep ==
  ASSUME IInv, NEW w \in Workers, LookForRun(w)
  PROVE  IInv'
<1> DEFINE p == [pass[w] EXCEPT !.at = IF run = NoRun THEN "DRAFTING"
                                       ELSE "REGISTERED"]
<1>1. p \in Passes /\ p.at \notin Drafting
  BY BusyPass DEF IInv, LookForRun, Passes, Drafting
<1>2. pass' = [pass EXCEPT ![w] = p]
  BY DEF LookForRun
<1>3. row' = row /\ UNCHANGED <<env, op, built, run, granted>>
  BY DEF LookForRun
<1> HIDE DEF p
<1> QED
  BY <1>1, <1>2, <1>3, PassMoves DEF IInv, TypeOK

LEMMA AssetsVerifiedStep ==
  ASSUME IInv, NEW w \in Workers, AssetsVerified(w)
  PROVE  IInv'
<1> DEFINE p == [pass[w] EXCEPT !.at = "CREATING"]
<1>1. /\ p \in Passes /\ p.at # "REGISTERING"
      /\ pass[w].at \in Drafting /\ p.env = pass[w].env
  BY BusyPass DEF IInv, AssetsVerified, Passes, Drafting
<1>2. pass' = [pass EXCEPT ![w] = p]
  BY DEF AssetsVerified
<1>3. row' = row /\ UNCHANGED <<env, op, built, run, granted>>
  BY DEF AssetsVerified
<1> HIDE DEF p
<1> QED
  BY <1>1, <1>2, <1>3, PassMoves DEF IInv, TypeOK

\* A step of one pass on the operation: it keeps its descriptor and what is
\* done; the pass that moves on drafts from the same settings.
LEMMA OperationMoves ==
  ASSUME IInv, NEW w \in Workers, NEW p \in Passes \cup {NoPass},
         pass' = [pass EXCEPT ![w] = p],
         p.at \in Drafting => Descriptor(p.env) = op'.of,
         p.at = "REGISTERING" => op'.done = StepCount,
         op' \in Operations,
         op # NoOperation => op'.of = op.of /\ op'.done = op.done,
         op = NoOperation => op'.done = 0,
         op'.status = "COMPLETED" => op'.done = StepCount,
         row' \in [status: {"PREPARING", "AWAITING_ACTIVATION", "FAILED"},
                   attempts: 0..StageLimit, holder: Workers \cup {NoWorker}],
         UNCHANGED <<env, built, run, granted>>
  PROVE  IInv'
<1>0. op' # NoOperation
  BY DEF Operations, NoOperation
<1>1. TypeOK'
  BY DEF IInv, TypeOK
<1>2. \A v \in Workers : v # w => pass'[v] = pass[v]
  BY DEF IInv, TypeOK
<1>3. pass'[w] = p
  BY DEF IInv, TypeOK
<1>4. PassHasDescriptor'
  BY <1>0, <1>2, <1>3 DEF IInv, PassHasDescriptor
<1>5. Registering'
  <2>1. ASSUME NEW v \in Workers, pass'[v].at = "REGISTERING"
        PROVE  op'.done = StepCount
    <3>1. CASE v = w
      BY <1>3, <2>1, <3>1
    <3>2. CASE v # w
      BY <1>2, <2>1, <3>2 DEF IInv, Registering, PassHasDescriptor, Drafting
    <3> QED
      BY <3>1, <3>2
  <2> QED
    BY <2>1 DEF Registering
<1>6. Recorded'
  <2>1. CASE op = NoOperation
    BY <2>1 DEF Recorded
  <2>2. CASE op # NoOperation
    BY <2>2 DEF IInv, Recorded
  <2> QED
    BY <2>1, <2>2
<1>7. RunAgrees' /\ GrantAgrees' /\ DraftIsOfOnePiece'
  BY <1>0 DEF IInv, RunAgrees, GrantAgrees, DraftIsOfOnePiece
<1> QED
  BY <1>1, <1>4, <1>5, <1>6, <1>7 DEF IInv

LEMMA AcquireStep ==
  ASSUME IInv, NEW w \in Workers, Acquire(w)
  PROVE  IInv'
<1> DEFINE d == Descriptor(pass[w].env)
           at(phase) == [pass[w] EXCEPT !.at = phase]
<1>0. /\ TypeOK /\ pass[w] \in Passes /\ pass[w].env \in Environments
      /\ d \in Descriptors
      /\ UNCHANGED <<env, built, run, granted>>
  BY BusyPass, Environment DEF IInv, Acquire
<1>a. \A phase \in Drafting :
         at(phase) \in Passes /\ at(phase).at = phase /\ at(phase).env = pass[w].env
  BY <1>0 DEF Passes, Drafting
<1>b. op # NoOperation => op \in Operations
  BY <1>0 DEF TypeOK
<1>c. row \in [status: {"PREPARING", "AWAITING_ACTIVATION", "FAILED"},
               attempts: 0..StageLimit, holder: Workers \cup {NoWorker}]
  BY <1>0 DEF TypeOK
<1>1. CASE /\ op = NoOperation /\ op' = InsertedOperation(w, d)
           /\ pass' = [pass EXCEPT ![w].at = "VERIFYING"] /\ UNCHANGED row
  <2>1. op' \in Operations /\ op'.of = d /\ op'.done = 0 /\ op'.status = "PENDING"
    BY <1>0, <1>1 DEF InsertedOperation, Operations, StepCount
  <2> DEFINE p == at("VERIFYING")
  <2>2. pass' = [pass EXCEPT ![w] = p]
    BY <1>1
  <2>3. p \in Passes /\ p.at = "VERIFYING" /\ Descriptor(p.env) = d
    BY <1>a DEF Drafting
  <2> HIDE DEF at, p, d
  <2> QED
    BY <1>0, <1>1, <1>a, <1>c, <2>1, <2>2, <2>3, OperationMoves
<1>2. CASE op # NoOperation /\ FailForNow(w) /\ UNCHANGED op
  BY <1>0, <1>2, Settlements, PassEnds
<1>3. CASE /\ op # NoOperation /\ SameDescriptor(d) /\ op.status = "COMPLETED"
           /\ op' = Opened(w)
           /\ pass' = [pass EXCEPT ![w].at = "REGISTERING"] /\ UNCHANGED row
  <2>1. /\ op' \in Operations /\ op'.of = op.of /\ op'.done = op.done
        /\ op'.status = op.status /\ op.of = d /\ op.done = StepCount
    BY <1>3, <1>b DEF Opened, Operations, SameDescriptor, IInv, Recorded
  <2> DEFINE p == at("REGISTERING")
  <2>2. pass' = [pass EXCEPT ![w] = p]
    BY <1>3
  <2>3. p \in Passes /\ p.at = "REGISTERING" /\ Descriptor(p.env) = d
    BY <1>a DEF Drafting
  <2>4. Descriptor(p.env) = op'.of
    BY <2>1, <2>3
  <2>5. op # NoOperation /\ UNCHANGED <<env, built, run, granted>> /\ row' = row
    BY <1>0, <1>3
  <2> HIDE DEF at, p, d
  <2> QED
    BY <1>c, <2>1, <2>2, <2>3, <2>4, <2>5, OperationMoves
<1>4. CASE /\ op # NoOperation /\ SameDescriptor(d)
           /\ op.status = "PENDING" /\ op' = Opened(w)
           /\ pass' = [pass EXCEPT ![w].at = "VERIFYING"] /\ UNCHANGED row
  <2>1. /\ op' \in Operations /\ op'.of = op.of /\ op'.done = op.done
        /\ op'.status = "PENDING" /\ op.of = d
    BY <1>4, <1>b DEF Opened, Operations, SameDescriptor
  <2> DEFINE p == at("VERIFYING")
  <2>2. pass' = [pass EXCEPT ![w] = p]
    BY <1>4
  <2>3. p \in Passes /\ p.at = "VERIFYING" /\ Descriptor(p.env) = d
    BY <1>a DEF Drafting
  <2>4. Descriptor(p.env) = op'.of
    BY <2>1, <2>3
  <2>5. op # NoOperation /\ UNCHANGED <<env, built, run, granted>> /\ row' = row
    BY <1>0, <1>4
  <2> HIDE DEF at, p, d
  <2> QED
    BY <1>c, <2>1, <2>2, <2>3, <2>4, <2>5, OperationMoves
<1>5. CASE /\ op # NoOperation
           /\ op' = [Opened(w) EXCEPT !.status = "RECONCILE"]
           /\ FailPermanently(w)
  <2>1. /\ op' \in Operations /\ op'.of = op.of /\ op'.done = op.done
        /\ op'.status = "RECONCILE"
    BY <1>5, <1>b DEF Opened, Operations
  <2>2. NoPass.at \notin Drafting
    BY DEF NoPass, Drafting
  <2>3. /\ pass' = [pass EXCEPT ![w] = NoPass]
        /\ row' \in [status: {"PREPARING", "AWAITING_ACTIVATION", "FAILED"},
                     attempts: 0..StageLimit, holder: Workers \cup {NoWorker}]
    BY <1>0, <1>5, Settlements
  <2>4. "REGISTERING" \in Drafting
    BY DEF Drafting
  <2> QED
    BY <1>0, <1>5, <2>1, <2>2, <2>3, <2>4, OperationMoves
<1> QED
  BY <1>1, <1>2, <1>3, <1>4, <1>5 DEF Acquire

\* What the pass that creates knows of the operation.
LEMMA Creating ==
  ASSUME IInv, NEW w \in Workers, pass[w].at = "CREATING"
  PROVE  /\ op \in Operations /\ op # NoOperation
         /\ op.of = Descriptor(pass[w].env)
         /\ pass[w] \in Passes /\ pass[w].env \in Environments
BY BusyPass DEF IInv, TypeOK, PassHasDescriptor, Drafting

\* An object is added to what was built with the operation's descriptor.
LEMMA ObjectAdded ==
  ASSUME IInv, NEW w \in Workers, pass[w].at = "CREATING",
         NEW k \in 1..StepCount,
         op' \in Operations, op'.of = op.of,
         built' \in {built, [built EXCEPT ![k] = Made(k, pass[w].env)]}
  PROVE  /\ built' \in [1..StepCount -> Objects \cup {Nothing}]
         /\ DraftIsOfOnePiece'
         /\ \A j \in 1..StepCount : built[j] # Nothing => built'[j] # Nothing
<1> DEFINE o == Made(k, pass[w].env)
<1>1. o \in Objects /\ o # Nothing /\ o = Made(k, op.of)
  BY Creating, MadeFromDescriptor
<1>2. built \in [1..StepCount -> Objects \cup {Nothing}]
  BY DEF IInv, TypeOK
<1>3. op' # NoOperation
  BY DEF Operations, NoOperation
<1>4. \A j \in 1..StepCount : built'[j] = built[j] \/ (j = k /\ built'[j] = o)
  BY <1>2
<1>5. \A j \in 1..StepCount : built'[j] # Nothing => built'[j] = Made(j, op'.of)
  BY <1>1, <1>4 DEF IInv, DraftIsOfOnePiece
<1>6. DraftIsOfOnePiece'
  BY <1>3, <1>5 DEF DraftIsOfOnePiece
<1>7. built' \in [1..StepCount -> Objects \cup {Nothing}]
  BY <1>1, <1>2
<1>8. \A j \in 1..StepCount : built[j] # Nothing => built'[j] # Nothing
  BY <1>1, <1>4
<1> QED
  BY <1>6, <1>7, <1>8

LEMMA CreateNextStep ==
  ASSUME IInv, NEW w \in Workers, CreateNext(w)
  PROVE  IInv'
<1> DEFINE k == op.done + 1
           o == Made(k, pass[w].env)
<1>0. /\ TypeOK /\ pass[w].at = "CREATING" /\ UNCHANGED <<env, run, granted>>
      /\ op.status = "PENDING" /\ op.done < StepCount
  BY DEF IInv, CreateNext
<1>1. /\ op \in Operations /\ op # NoOperation
      /\ op.of = Descriptor(pass[w].env)
  BY <1>0, Creating
<1>2. k \in 1..StepCount /\ op.done \in 0..StepCount /\ op.done # StepCount
  BY <1>0, <1>1 DEF Operations, StepCount
<1>3. run = NoRun
  BY <1>1, <1>2 DEF IInv, RunAgrees
<1>4. \A v \in Workers : pass[v].at # "REGISTERING"
  BY <1>2 DEF IInv, Registering
<1>5. /\ op' \in Operations /\ op'.of = op.of /\ op'.status # "COMPLETED"
      /\ built' \in {built, [built EXCEPT ![k] = o]}
      /\ \/ op'.done = op.done
         \/ op'.done = k /\ built' = [built EXCEPT ![k] = o]
      /\ \/ UNCHANGED <<row, pass>>
         \/ FailPermanently(w)
         \/ pass' = [pass EXCEPT ![w] = NoPass] /\ row' = row
  <2>1. CASE /\ op' = [op EXCEPT !.done = k]
             /\ built' = [built EXCEPT ![k] = o] /\ UNCHANGED <<row, pass>>
    BY <1>0, <1>1, <1>2, <2>1 DEF Operations
  <2>2. CASE /\ op' = [op EXCEPT !.status = "RECONCILE"]
             /\ built' \in {built, [built EXCEPT ![k] = o]} /\ FailPermanently(w)
    <3>1. op' \in Operations /\ op'.of = op.of /\ op'.status = "RECONCILE"
          /\ op'.done = op.done
      BY <1>1, <2>2 DEF Operations
    <3>2. op'.status # "COMPLETED"
      BY <3>1
    <3> HIDE DEF k, o
    <3> QED
      BY <2>2, <3>1, <3>2, Zenon
  <2>3. CASE /\ op' = [op EXCEPT !.attempting = TRUE]
             /\ built' \in {built, [built EXCEPT ![k] = o]}
             /\ pass' = [pass EXCEPT ![w] = NoPass] /\ UNCHANGED row
    <3>1. op' \in Operations /\ op'.of = op.of /\ op'.status = op.status
          /\ op'.done = op.done
      BY <1>1, <2>3 DEF Operations
    <3>2. op'.status # "COMPLETED"
      BY <1>0, <3>1
    <3> HIDE DEF k, o
    <3> QED
      BY <2>3, <3>1, <3>2, Zenon
  <2> QED
    BY <2>1, <2>2, <2>3 DEF CreateNext
<1>6. /\ built' \in [1..StepCount -> Objects \cup {Nothing}]
      /\ DraftIsOfOnePiece'
      /\ \A j \in 1..StepCount : built[j] # Nothing => built'[j] # Nothing
  BY <1>0, <1>2, <1>5, ObjectAdded
<1>7. /\ pass' = pass \/ pass' = [pass EXCEPT ![w] = NoPass]
      /\ row' \in [status: {"PREPARING", "AWAITING_ACTIVATION", "FAILED"},
                   attempts: 0..StageLimit, holder: Workers \cup {NoWorker}]
  BY <1>0, <1>5, Settlements DEF TypeOK
<1>8. TypeOK'
  BY <1>0, <1>5, <1>6, <1>7 DEF TypeOK
<1>9. \A v \in Workers : pass'[v].at \in Drafting => pass'[v] = pass[v]
  BY <1>0, <1>7 DEF TypeOK, NoPass, Drafting
<1>10. PassHasDescriptor'
  <2>1. op' # NoOperation
    BY <1>5 DEF Operations, NoOperation
  <2> QED
    BY <1>5, <1>9, <2>1 DEF IInv, PassHasDescriptor
<1>11. Registering'
  BY <1>4, <1>9 DEF Registering, Drafting
<1>12. Recorded'
  <2>1. \A j \in 1..op.done : built[j] # Nothing
    BY <1>1 DEF IInv, Recorded
  <2>2. CASE op'.done = op.done
    <3>1. \A j \in 1..op'.done : j \in 1..StepCount /\ j \in 1..op.done
      BY <1>2, <2>2 DEF StepCount
    <3>2. \A j \in 1..op'.done : built'[j] # Nothing
      BY <1>6, <2>1, <3>1
    <3> QED
      BY <1>5, <3>2 DEF Recorded
  <2>3. CASE op'.done = k /\ built' = [built EXCEPT ![k] = o]
    <3>1. o # Nothing
      BY <1>0, <1>2, Creating, MadeFromDescriptor
    <3>2. built'[k] = o
      BY <1>0, <1>2, <2>3 DEF TypeOK
    <3>3. \A j \in 1..k : j = k \/ (j \in 1..op.done /\ j \in 1..StepCount)
      BY <1>2 DEF StepCount
    <3>4. ASSUME NEW j \in 1..op'.done PROVE built'[j] # Nothing
      <4>1. CASE j = k
        BY <3>1, <3>2, <4>1
      <4>2. CASE j # k
        BY <1>6, <2>1, <2>3, <3>3, <4>2
      <4> QED
        BY <4>1, <4>2
    <3> QED
      BY <1>5, <3>4 DEF Recorded
  <2> QED
    BY <1>5, <2>2, <2>3
<1>13. RunAgrees' /\ GrantAgrees'
  BY <1>0, <1>3 DEF IInv, RunAgrees, GrantAgrees
<1> QED
  BY <1>6, <1>8, <1>10, <1>11, <1>12, <1>13 DEF IInv

LEMMA CompleteStep ==
  ASSUME IInv, NEW w \in Workers, Complete(w)
  PROVE  IInv'
<1> DEFINE p == [pass[w] EXCEPT !.at = "REGISTERING"]
<1>1. /\ op \in Operations /\ op # NoOperation
      /\ op.of = Descriptor(pass[w].env) /\ pass[w] \in Passes
  BY Creating DEF Complete
<1>2. /\ op' \in Operations /\ op'.of = op.of /\ op'.done = op.done
      /\ op'.done = StepCount
  BY <1>1 DEF Complete, Operations
<1>3. p \in Passes /\ Descriptor(p.env) = op'.of
  BY <1>1, <1>2 DEF Passes
<1>4. pass' = [pass EXCEPT ![w] = p] /\ row' = row
      /\ UNCHANGED <<env, built, run, granted>>
  BY DEF Complete
<1>5. row \in [status: {"PREPARING", "AWAITING_ACTIVATION", "FAILED"},
               attempts: 0..StageLimit, holder: Workers \cup {NoWorker}]
  BY DEF IInv, TypeOK
<1> HIDE DEF p
<1> QED
  BY <1>1, <1>2, <1>3, <1>4, <1>5, OperationMoves

\* The run is written, or found as it was, by a pass with the descriptor.
LEMMA RegisterStep ==
  ASSUME IInv, NEW w \in Workers, Register(w)
  PROVE  IInv'
<1> DEFINE e == pass[w].env
           p == [pass[w] EXCEPT !.at = "REGISTERED"]
<1>0. /\ TypeOK /\ pass[w].at = "REGISTERING" /\ pass[w] \in Passes
      /\ e \in Environments /\ UNCHANGED <<env, op, built, granted>>
  BY BusyPass DEF IInv, Register
<1>1. /\ op # NoOperation /\ op.done = StepCount
      /\ op.of = Descriptor(e)
  BY <1>0 DEF IInv, PassHasDescriptor, Registering, Drafting
<1>2. p \in Passes /\ p.at \notin Drafting
  BY <1>0 DEF Passes, Drafting
<1>3. CASE /\ run = NoRun /\ run' = RegisteredRun(e)
           /\ pass' = [pass EXCEPT ![w].at = "REGISTERED"] /\ UNCHANGED row
  <2>1. /\ run' \in Runs
        /\ run'.account = op.of.account /\ run'.budget = op.of.budget
    BY <1>0, <1>1, <1>3, Environment DEF RegisteredRun, Runs, Descriptor
  <2>2. pass' = [pass EXCEPT ![w] = p]
    BY <1>3
  <2>3. TypeOK'
    BY <1>0, <1>2, <1>3, <2>1, <2>2 DEF TypeOK
  <2>4. \A v \in Workers : pass'[v].at \in Drafting => pass'[v] = pass[v]
    BY <1>0, <1>2, <2>2 DEF TypeOK
  <2>5. PassHasDescriptor' /\ Registering'
    BY <1>0, <2>4 DEF IInv, PassHasDescriptor, Registering, Drafting
  <2>6. RunAgrees' /\ GrantAgrees'
    BY <1>0, <1>1, <1>3, <2>1 DEF IInv, RunAgrees, GrantAgrees
  <2> QED
    BY <1>0, <2>3, <2>5, <2>6 DEF IInv, Recorded, DraftIsOfOnePiece
<1>4. CASE pass' = [pass EXCEPT ![w].at = "REGISTERED"] /\ UNCHANGED <<row, run>>
  <2>1. pass' = [pass EXCEPT ![w] = p]
    BY <1>4
  <2>2. row \in [status: {"PREPARING", "AWAITING_ACTIVATION", "FAILED"},
                 attempts: 0..StageLimit, holder: Workers \cup {NoWorker}]
    BY <1>0 DEF TypeOK
  <2> HIDE DEF p
  <2> QED
    BY <1>0, <1>2, <1>4, <2>1, <2>2, PassMoves
<1>5. CASE FailForNow(w) /\ UNCHANGED run
  BY <1>0, <1>5, Settlements, PassEnds
<1> QED
  BY <1>3, <1>4, <1>5 DEF Register

\* The acknowledged account is the one the settings name, and the run's.
LEMMA ActivateStep ==
  ASSUME IInv, NEW w \in Workers, Activate(w)
  PROVE  IInv'
<1> DEFINE e == pass[w].env
<1>0. /\ TypeOK /\ e \in Environments /\ UNCHANGED <<env, op, built>>
      /\ run.account = e.account /\ e.ackAccount = e.account
      /\ run.status \in {"PAUSED", "FAILED"}
  BY BusyPass DEF IInv, Activate, Ready, Authorized
<1>1. run \in Runs /\ run # NoRun
  BY <1>0 DEF TypeOK, NoRun
<1>2. /\ run' \in Runs /\ run' # NoRun
      /\ run'.account = run.account /\ run'.budget = run.budget
  <2>1. \/ run' = [run EXCEPT !.status = "ACTIVATING"]
        \/ run' = [run EXCEPT !.status = "FAILED"]
    BY DEF Activate
  <2>2. run' \in Runs /\ run'.account = run.account /\ run'.budget = run.budget
    BY <1>1, <2>1 DEF Runs
  <2> QED
    BY <2>2 DEF Runs, NoRun
<1>3. /\ granted' \in Grants \cup {Nothing}
      /\ granted' # Nothing => granted'.account = run.account
  <2>1. CASE granted' = granted
    BY <1>0, <2>1 DEF IInv, GrantAgrees, TypeOK
  <2>2. CASE granted' = [kind |-> "GRANT", account |-> e.ackAccount,
                         budget |-> e.ackBudget]
    BY <1>0, <2>2, Environment DEF Grants
  <2> QED
    BY <2>1, <2>2 DEF Activate
<1>4. /\ pass' = [pass EXCEPT ![w] = NoPass]
      /\ row' \in [status: {"PREPARING", "AWAITING_ACTIVATION", "FAILED"},
                   attempts: 0..StageLimit, holder: Workers \cup {NoWorker}]
  <2>1. \/ FailPermanently(w) \/ FailForNow(w)
        \/ Settle(w, "AWAITING_ACTIVATION", 0)
    BY DEF Activate
  <2> QED
    BY <1>0, <2>1, Settlements
<1>5. TypeOK'
  BY <1>0, <1>2, <1>3, <1>4 DEF TypeOK
<1>6. \A v \in Workers : pass'[v].at \in Drafting => pass'[v] = pass[v]
  BY <1>0, <1>4 DEF TypeOK, NoPass, Drafting
<1>7. PassHasDescriptor' /\ Registering'
  BY <1>0, <1>6 DEF IInv, PassHasDescriptor, Registering, Drafting
<1>8. RunAgrees' /\ GrantAgrees'
  BY <1>0, <1>1, <1>2, <1>3 DEF IInv, RunAgrees, GrantAgrees
<1> QED
  BY <1>0, <1>5, <1>7, <1>8 DEF IInv, Recorded, DraftIsOfOnePiece

------------------------------------------------------------------------------
(* The invariant *)

LEMMA Initially == Init => IInv
<1> SUFFICES ASSUME Init
             PROVE  IInv
  OBVIOUS
<1>1. TypeOK
  BY Limits DEF Init, TypeOK
<1>2. \A w \in Workers : pass[w].at \notin Drafting
  BY DEF Init, NoPass, Drafting
<1>3. PassHasDescriptor /\ Registering
  BY <1>2 DEF PassHasDescriptor, Registering, Drafting
<1>4. Recorded /\ RunAgrees /\ GrantAgrees
  BY DEF Init, Recorded, RunAgrees, GrantAgrees
<1>5. DraftIsOfOnePiece
  BY DEF Init, DraftIsOfOnePiece
<1> QED
  BY <1>1, <1>3, <1>4, <1>5 DEF IInv

LEMMA Stutter ==
  ASSUME IInv, env' \in Environments,
         UNCHANGED <<row, pass, op, built, run, granted>>
  PROVE  IInv'
<1>1. TypeOK'
  BY DEF IInv, TypeOK
<1> QED
  BY <1>1 DEF IInv, PassHasDescriptor, Registering, Recorded, RunAgrees,
              GrantAgrees, DraftIsOfOnePiece

LEMMA Stepwise == IInv /\ [Next]_vars => IInv'
<1> SUFFICES ASSUME IInv, [Next]_vars
             PROVE  IInv'
  OBVIOUS
<1>1. CASE Deploy
  BY <1>1, Stutter DEF Deploy
<1>2. CASE UNCHANGED vars
  BY <1>2, Stutter DEF vars, IInv, TypeOK
<1>3. ASSUME NEW w \in Workers,
             \/ Claim(w) \/ Crash(w) \/ CallFails(w) \/ Prepare(w)
             \/ AwaitActivation(w)
      PROVE  IInv'
  <2>1. CASE Claim(w)
    BY <2>1, ClaimStep
  <2>2. CASE Crash(w)
    BY <2>2, CrashStep
  <2>3. CASE CallFails(w)
    BY <2>3, EndingSteps
  <2>4. CASE Prepare(w)
    BY <2>4, LookForRunStep, EndingSteps, AcquireStep, AssetsVerifiedStep,
       CreateNextStep, CompleteStep, RegisterStep DEF Prepare
  <2>5. CASE AwaitActivation(w)
    BY <2>5, EndingSteps, ActivateStep DEF AwaitActivation
  <2> QED
    BY <1>3, <2>1, <2>2, <2>3, <2>4, <2>5
<1> QED
  BY <1>1, <1>2, <1>3 DEF Next

\* The strengthening holds in every state: what is built and what is
\* registered agree with the operation, whatever settings came and went.
THEOREM Invariant == Spec => []IInv
BY Initially, Stepwise, PTL DEF Spec

\* Type correctness, and the bound on the attempts of a stage.
THEOREM TypeCorrect == Spec => []TypeOK
<1>1. IInv => TypeOK
  BY DEF IInv
<1> QED
  BY <1>1, Invariant, PTL

\* All objects of a draft were made for one account, budget and site: the
\* fingerprint of acquire_meta_ad_operation keeps other settings out.
THEOREM OnePiece == Spec => []DraftIsOfOnePiece
<1>1. IInv => DraftIsOfOnePiece
  BY DEF IInv
<1> QED
  BY <1>1, Invariant, PTL

LEMMA BuiltAsRegistered ==
  ASSUME IInv, run # NoRun, NEW k \in 1..StepCount
  PROVE  /\ built[k] # Nothing
         /\ built[k].account = run.account
         /\ k = 3 => built[k].budget = run.budget
<1>1. op # NoOperation /\ op.done = StepCount /\ run.account = op.of.account
      /\ run.budget = op.of.budget
  BY DEF IInv, RunAgrees
<1>2. built[k] # Nothing /\ built[k] = Made(k, op.of)
  BY <1>1 DEF IInv, Recorded, DraftIsOfOnePiece
<1>3. k = 1 \/ k = 2 \/ k = 3 \/ k = 4 \/ k = 5
  BY DEF StepCount
<1>4. Made(k, op.of).account = op.of.account
      /\ (k = 3 => Made(k, op.of).budget = op.of.budget)
  BY <1>3 DEF Made, MetaObject, UploadedImages, CreatedCampaign, CreatedAdSet,
              CreatedCreative, CreatedAd
<1> QED
  BY <1>1, <1>2, <1>4

\* The registered run names the account and the budget its objects have in
\* Meta, although registerMetaAdRun writes the settings of its own pass.
THEOREM RunIsTrue == Spec => []RunRecordsWhatWasBuilt
<1>1. IInv => RunRecordsWhatWasBuilt
  BY BuiltAsRegistered DEF RunRecordsWhatWasBuilt
<1> QED
  BY <1>1, Invariant, PTL

\* What activateMetaRun sets ACTIVE lies in an account that the settings of
\* that moment acknowledge.
THEOREM OnlyAcknowledgedAccounts == Spec => []ActiveAccountWasAcknowledged
<1>1. IInv => ActiveAccountWasAcknowledged
  BY BuiltAsRegistered DEF IInv, GrantAgrees, ActiveAccountWasAcknowledged,
                           StepCount
<1> QED
  BY <1>1, Invariant, PTL
==============================================================================
