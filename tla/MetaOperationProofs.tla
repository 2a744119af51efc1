-------------------------- MODULE MetaOperationProofs --------------------------
(***************************************************************************)
(* Proofs about MetaOperationLedger for every number of sessions, steps    *)
(* and faults: a draft object is made at most once, the record agrees with *)
(* Meta, and objects are built on checkpoints only.                        *)
(*                                                                         *)
(* The inductive invariant says what a write in progress leaves behind.  A *)
(* step whose write may still reach Meta (a session at "create", or a late *)
(* write) is open: nothing was made for it, it has no checkpoint, and the  *)
(* record names it as attempted or waiting for the operator.  So while it  *)
(* is open no session can begin it again, whoever holds the lease.         *)
(***************************************************************************)
EXTENDS MetaOperationLedger, TLAPS

\* The record names step k as one that may have been written.
Named(k) == k \in {operation.attempting, operation.reconciling}

Open(k) == made[k] = 0 /\ operation.checkpoints[k] = 0 /\ Named(k)

\* Everything that step k builds on has a checkpoint.
Reached(k) == \A j \in 1..(k - 1) : operation.checkpoints[j] # 0

\* What the record, Meta and the late writes say of each step.
StepInv ==
    /\ AtMostOnce
    /\ LedgerMatchesMeta
    /\ BuiltOnCheckpoints
    /\ \A k \in late : Open(k)
    /\ \A k \in Steps : Named(k) => operation.checkpoints[k] = 0 /\ Reached(k)

\* A session that writes is at a step, and its write is the only one of it; under
\* its lease it sees the record as it is.
SessionInv(s) ==
    /\ session[s].pc \in {"create", "checkpoint", "uncertain"} =>
          session[s].step \in Steps
    /\ At(s, "create") => Open(session[s].step) /\ session[s].step \notin late
    /\ At(s, "mark") => session[s].read.attempting \in Steps
    /\ holder = s /\ At(s, "write") =>
          session[s].read = operation /\ operation.attempting = 0
    /\ holder = s /\ session[s].pc \in {"create", "checkpoint"} =>
          operation.attempting = session[s].step
    /\ holder = s /\ At(s, "checkpoint") =>
          made[session[s].step] = 1 /\ session[s].id = 1

OneWrite ==
    \A s, t \in Sessions :
        At(s, "create") /\ At(t, "create") /\ session[s].step = session[t].step
            => s = t

IInv ==
    /\ TypeOK
    /\ StepInv
    /\ OneWrite
    /\ \A s \in Sessions : SessionInv(s)

------------------------------------------------------------------------------
(* Types and sessions *)

LEMMA StepFacts == StepCount \in Nat /\ StepCount >= 1 /\ Steps = 1..StepCount
BY StepAssumption DEF Steps

LEMMA FaultType ==
  ASSUME faults \in Nat, Fault \/ NoFault
  PROVE  faults' \in Nat
BY DEF Fault, NoFault

LEMMA IdleType == NoRecord \in Records /\ IdleSession \in SessionStates
<1>1. NoRecord \in Records
  BY StepFacts DEF NoRecord, Records
<1> QED BY <1>1, StepFacts DEF IdleSession, SessionStates, PCs

LEMMA Moved ==
  ASSUME TypeOK, NEW s \in Sessions, NEW new \in SessionStates, Move(s, new)
  PROVE  /\ session' \in [Sessions -> SessionStates]
         /\ session'[s] = new
         /\ \A t \in Sessions : t # s => session'[t] = session[t]
BY DEF TypeOK, Move

LEMMA Went ==
  ASSUME TypeOK, NEW s \in Sessions, NEW pc \in PCs, Goto(s, pc)
  PROVE  /\ session' \in [Sessions -> SessionStates]
         /\ session'[s].pc = pc
         /\ session'[s].read = session[s].read
         /\ session'[s].step = session[s].step
         /\ session'[s].id = session[s].id
         /\ \A t \in Sessions : t # s => session'[t] = session[t]
<1> DEFINE new == [session[s] EXCEPT !.pc = pc]
<1>1. session[s] \in SessionStates
  BY DEF TypeOK
<1>2. /\ new \in SessionStates /\ new.pc = pc
      /\ new.read = session[s].read /\ new.step = session[s].step
      /\ new.id = session[s].id
  BY <1>1 DEF SessionStates
<1>3. Move(s, new)
  BY DEF Goto
<1> HIDE DEF new
<1> QED BY <1>2, <1>3, Moved

LEMMA Returned ==
  ASSUME TypeOK, NEW s \in Sessions, Return(s)
  PROVE  /\ session' \in [Sessions -> SessionStates]
         /\ session'[s].pc = "idle"
         /\ \A t \in Sessions : t # s => session'[t] = session[t]
<1>1. Move(s, IdleSession) /\ IdleSession.pc = "idle"
  BY DEF Return, IdleSession
<1> QED BY <1>1, IdleType, Moved

\* A step that leaves record, Meta and late writes alone and in which sessions
\* only stop, and nobody gains the lease.
LEMMA StopInv ==
  ASSUME IInv, UNCHANGED <<operation, made, late>>, faults' \in Nat,
         session' \in [Sessions -> SessionStates],
         holder' \in {holder, NoSession},
         \A t \in Sessions :
            \/ session'[t] = session[t]
            \/ session'[t].pc \in {"idle", "release"}
            \/ session'[t].pc = "uncertain" /\ session'[t].step \in Steps
  PROVE  IInv'
<1>1. TypeOK'
  BY DEF IInv, TypeOK
<1>2. StepInv'
  BY DEF IInv, StepInv, AtMostOnce, LedgerMatchesMeta, BuiltOnCheckpoints, Open,
         Named, Reached
<1>3. ASSUME NEW t \in Sessions PROVE SessionInv(t)'
  <2>1. CASE session'[t] = session[t]
    BY <2>1, SessionAssumption DEF IInv, SessionInv, At, Open, Named
  <2>2. CASE session'[t].pc \in {"idle", "release"}
    BY <2>2 DEF SessionInv, At
  <2>3. CASE session'[t].pc = "uncertain" /\ session'[t].step \in Steps
    BY <2>3 DEF SessionInv, At, Steps
  <2> QED BY <2>1, <2>2, <2>3
<1>4. OneWrite'
  BY DEF IInv, OneWrite, At
<1> QED BY <1>1, <1>2, <1>3, <1>4 DEF IInv

\* No session writes, and nothing is late, while the record names no step.
LEMMA NothingOpen ==
  ASSUME IInv, operation.attempting = 0, operation.reconciling = 0
  PROVE  /\ late = {}
         /\ \A t \in Sessions : ~At(t, "create")
         /\ \A k \in Steps : operation.checkpoints[k] = 0 => made[k] = 0
<1>1. \A k \in Steps : ~Named(k)
  BY StepFacts DEF Named
<1>2. late = {}
  BY <1>1 DEF IInv, StepInv, TypeOK, Open
<1>3. \A t \in Sessions : ~At(t, "create")
  BY <1>1 DEF IInv, SessionInv, Open, At
<1>4. ASSUME NEW k \in Steps, operation.checkpoints[k] = 0 PROVE made[k] = 0
  BY <1>1, <1>4 DEF IInv, StepInv, LedgerMatchesMeta, TypeOK, Named
<1> QED BY <1>2, <1>3, <1>4

------------------------------------------------------------------------------
(* The actions *)

\* The type invariant without the sessions and the fault count.
RecordOK ==
    /\ operation \in Records
    /\ operation.status = "RECONCILIATION_REQUIRED" <=> operation.reconciling # 0
    /\ operation.attempting # 0 => operation.status = "OPEN"

LEMMA TypeParts ==
  TypeOK <=> /\ RecordOK
             /\ holder \in Sessions \cup {NoSession}
             /\ session \in [Sessions -> SessionStates]
             /\ made \in [Steps -> Nat]
             /\ late \subseteq Steps
             /\ faults \in Nat
BY DEF TypeOK, RecordOK

LEMMA AcquireInv == ASSUME IInv, NEW s \in Sessions, Acquire(s) PROVE IInv'
<1> DEFINE acquired == IF operation.status = "NONE"
                       THEN [operation EXCEPT !.status = "OPEN"] ELSE operation
           new == [IdleSession EXCEPT !.pc = AfterAcquire(acquired), !.read = acquired]
<1>1. TypeOK /\ At(s, "idle") /\ operation' = acquired /\ holder' = s
      /\ holder = NoSession /\ UNCHANGED <<made, late>>
  BY DEF Acquire, IInv
<1>2. acquired \in Records /\ acquired.checkpoints = operation.checkpoints
      /\ acquired.attempting = operation.attempting
      /\ acquired.reconciling = operation.reconciling
  BY <1>1 DEF TypeOK, Records
<1>3. RecordOK'
  BY <1>1, <1>2 DEF TypeOK, RecordOK, Records
<1>4. StepInv'
  BY <1>1, <1>2 DEF IInv, StepInv, AtMostOnce, LedgerMatchesMeta, BuiltOnCheckpoints,
                    Open, Named, Reached
<1>5. /\ new \in SessionStates /\ new.read = acquired
      /\ new.pc = AfterAcquire(acquired) /\ new.pc \in {"release", "mark", "write"}
  <2>1. AfterAcquire(acquired) \in {"release", "mark", "write"}
    BY DEF AfterAcquire
  <2> QED BY <1>2, <2>1, IdleType DEF SessionStates, PCs, IdleSession
<1>6. faults' \in Nat
  BY <1>1, FaultType DEF Acquire, TypeOK
<1>7. CASE Move(s, new)
  <2>1. /\ session' \in [Sessions -> SessionStates] /\ session'[s] = new
        /\ \A t \in Sessions : t # s => session'[t] = session[t]
    <3> HIDE DEF new
    <3> QED BY <1>1, <1>5, <1>7, Moved
  <2>2. SessionInv(s)'
    <3> HIDE DEF new
    <3>1. new.pc = "write" => operation'.attempting = 0
      BY <1>1, <1>5 DEF AfterAcquire
    <3>2. new.pc = "mark" => new.read.attempting \in Steps
      BY <1>1, <1>2, <1>5, StepFacts DEF AfterAcquire, Records
    <3> HIDE DEF acquired
    <3> QED BY <1>1, <1>5, <2>1, <3>1, <3>2 DEF SessionInv, At
  <2>3. \A t \in Sessions : t # s => SessionInv(t)'
    BY <1>1, <1>2, <2>1, SessionAssumption DEF IInv, SessionInv, At, Open, Named
  <2>4. OneWrite'
    <3>1. session'[s].pc # "create"
      BY <1>5, <2>1
    <3> QED BY <2>1, <3>1 DEF IInv, OneWrite, At
  <2>5. TypeOK'
    BY <1>1, <1>3, <1>6, <2>1, TypeParts DEF TypeOK, RecordOK
  <2> QED BY <1>4, <2>2, <2>3, <2>4, <2>5 DEF IInv
<1>8. CASE UNCHANGED session
  <2>1. TypeOK'
    BY <1>1, <1>3, <1>6, <1>8 DEF TypeOK, RecordOK
  <2>2. \A t \in Sessions : SessionInv(t)'
    BY <1>1, <1>2, <1>8, SessionAssumption DEF IInv, SessionInv, At, Open, Named
  <2>3. OneWrite'
    BY <1>8 DEF IInv, OneWrite, At
  <2> QED BY <1>4, <2>1, <2>2, <2>3 DEF IInv
<1> QED BY <1>7, <1>8 DEF Acquire

\* Whoever marks a step, the record still names it and nothing else.
LEMMA MarkedInv ==
  ASSUME IInv, NEW s \in Sessions, NEW k \in Steps, operation.attempting = k,
         operation' = Marked(k), UNCHANGED <<made, late, holder>>, faults' \in Nat,
         session' \in [Sessions -> SessionStates], session'[s].pc = "release",
         holder = s,
         \A t \in Sessions : t # s => session'[t] = session[t]
  PROVE  IInv'
<1>1. /\ operation' \in Records /\ operation'.status = "RECONCILIATION_REQUIRED"
      /\ operation'.checkpoints = operation.checkpoints
      /\ operation'.attempting = 0 /\ operation'.reconciling = k
  BY StepFacts DEF IInv, TypeOK, Records, Marked
<1>2. operation.reconciling = 0
  BY StepFacts DEF IInv, TypeOK, Records
<1>3. \A j \in Steps : Named(j)' <=> Named(j)
  BY <1>1, <1>2, StepFacts DEF Named
<1>4. TypeOK'
  BY <1>1, StepFacts DEF IInv, TypeOK
<1>5. \A j \in Steps : (Open(j)' <=> Open(j)) /\ (Reached(j)' <=> Reached(j))
  BY <1>1, <1>3 DEF Open, Reached
<1>6. LedgerMatchesMeta'
  BY <1>1, <1>3 DEF IInv, StepInv, LedgerMatchesMeta, Named
<1>7. StepInv'
  BY <1>1, <1>3, <1>5, <1>6 DEF IInv, StepInv, TypeOK, AtMostOnce, BuiltOnCheckpoints
<1>8. \A t \in Sessions : SessionInv(t)'
  <2>1. SessionInv(s)'
    BY DEF SessionInv, At
  <2>2. \A t \in Sessions : t # s => SessionInv(t)'
    BY <1>5 DEF IInv, SessionInv, At
  <2> QED BY <2>1, <2>2
<1>9. OneWrite'
  BY DEF IInv, OneWrite, At
<1> QED BY <1>4, <1>7, <1>8, <1>9 DEF IInv

LEMMA RequireReconciliationInv ==
  ASSUME IInv, NEW s \in Sessions, RequireReconciliation(s) PROVE IInv'
<1> DEFINE k == IF At(s, "mark") THEN session[s].read.attempting ELSE session[s].step
<1>1. TypeOK /\ session[s].pc \in {"mark", "uncertain"} /\ UNCHANGED <<holder, made, late>>
  BY DEF IInv, RequireReconciliation
<1>2. k \in Steps
  BY <1>1 DEF IInv, SessionInv, At
<1>3. /\ session' \in [Sessions -> SessionStates] /\ session'[s].pc = "release"
      /\ \A t \in Sessions : t # s => session'[t] = session[t]
  <2>1. Goto(s, "release")
    BY DEF RequireReconciliation, Transition
  <2> QED BY <1>1, <2>1, Went DEF PCs
<1>4. faults' \in Nat
  BY <1>1, FaultType DEF RequireReconciliation, Transition, TypeOK
<1>5. CASE holder = s /\ operation.attempting = k /\ operation' = Marked(k)
  <2> HIDE DEF k
  <2> QED BY <1>1, <1>2, <1>3, <1>4, <1>5, MarkedInv
<1>6. CASE UNCHANGED operation
  BY <1>1, <1>3, <1>4, <1>6, StopInv DEF TypeOK
<1> QED BY <1>5, <1>6 DEF RequireReconciliation, Transition

\* Beginning step k while the record names none: only k becomes open.
LEMMA BegunInv ==
  ASSUME IInv, NEW s \in Sessions, NEW k \in Steps, holder = s,
         operation.attempting = 0, operation.status = "OPEN",
         IsNext(operation.checkpoints, k),
         operation' = Begun(k), UNCHANGED <<made, late, holder>>, faults' \in Nat,
         session' \in [Sessions -> SessionStates],
         \/ session'[s].pc = "create" /\ session'[s].step = k
         \/ session'[s].pc = "release",
         \A t \in Sessions : t # s => session'[t] = session[t]
  PROVE  IInv'
<1>1. /\ operation' \in Records /\ operation'.status = "OPEN"
      /\ operation'.checkpoints = operation.checkpoints
      /\ operation'.attempting = k /\ operation'.reconciling = operation.reconciling
  <2>1. operation \in Records /\ k \in 0..StepCount
    BY StepFacts DEF IInv, TypeOK
  <2>2. operation' = [operation EXCEPT !.attempting = k]
    BY DEF Begun
  <2> QED BY <2>1, <2>2 DEF Records
<1>2. operation.reconciling = 0
  BY DEF IInv, TypeOK
<1>3. /\ late = {} /\ \A t \in Sessions : ~At(t, "create")
      /\ \A j \in Steps : operation.checkpoints[j] = 0 => made[j] = 0
  BY <1>2, NothingOpen
<1>4. /\ operation.checkpoints[k] = 0 /\ Reached(k)
      /\ \A j \in Steps : Named(j)' <=> j = k
  BY <1>1, <1>2, StepFacts DEF IsNext, Named, Reached
<1>5. TypeOK'
  BY <1>1, <1>2 DEF IInv, TypeOK
<1>6. StepInv'
  <2>1. AtMostOnce' /\ LedgerMatchesMeta' /\ BuiltOnCheckpoints'
    BY <1>1, <1>3 DEF IInv, StepInv, AtMostOnce, LedgerMatchesMeta, BuiltOnCheckpoints,
                      TypeOK
  <2>2. \A j \in Steps : Named(j)' => operation'.checkpoints[j] = 0 /\ Reached(j)'
    BY <1>1, <1>4 DEF Reached
  <2> QED BY <1>3, <2>1, <2>2 DEF StepInv
<1>7. Open(k)'
  BY <1>1, <1>3, <1>4 DEF Open
<1>8. \A t \in Sessions : SessionInv(t)'
  <2>1. SessionInv(s)'
    BY <1>1, <1>3, <1>7 DEF SessionInv, At
  <2>2. \A t \in Sessions : t # s => SessionInv(t)'
    BY <1>3 DEF IInv, SessionInv, At
  <2> QED BY <2>1, <2>2
<1>9. OneWrite'
  BY <1>3 DEF OneWrite, At
<1> QED BY <1>5, <1>6, <1>8, <1>9 DEF IInv

LEMMA BeginInv == ASSUME IInv, NEW s \in Sessions, Begin(s) PROVE IInv'
<1>1. TypeOK /\ At(s, "write") /\ UNCHANGED <<holder, made, late>>
  BY DEF IInv, Begin
<1>2. PICK k \in Steps :
        /\ IsNext(session[s].read.checkpoints, k)
        /\ Transition(s,
               /\ operation.status = "OPEN"
               /\ operation.checkpoints[k] = 0
               /\ operation.attempting \in {0, k},
               Begun(k),
               Move(s, [session[s] EXCEPT !.pc = "create", !.step = k,
                                          !.read = Begun(k)]),
               Goto(s, "release"))
  BY DEF Begin
<1> DEFINE new == [session[s] EXCEPT !.pc = "create", !.step = k, !.read = Begun(k)]
           carriedOut == holder = s /\ operation.status = "OPEN" /\ operation' = Begun(k)
<1>3. faults' \in Nat
  BY <1>1, <1>2, FaultType DEF Transition, TypeOK
<1>4. Begun(k) \in Records
  BY <1>1, StepFacts DEF TypeOK, Records, Begun
<1>5. new \in SessionStates /\ new.pc = "create" /\ new.step = k
  <2> DEFINE a == [session[s] EXCEPT !.pc = "create"]
             b == [a EXCEPT !.step = k]
             c == [b EXCEPT !.read = Begun(k)]
  <2>1. session[s] \in SessionStates
    BY <1>1 DEF TypeOK
  <2>2. a \in SessionStates /\ a.pc = "create"
    BY <2>1 DEF SessionStates, PCs
  <2> HIDE DEF a
  <2>3. b \in SessionStates /\ b.pc = "create" /\ b.step = k
    BY <2>2, StepFacts DEF SessionStates
  <2> HIDE DEF b
  <2>4. c \in SessionStates /\ c.pc = "create" /\ c.step = k
    BY <1>4, <2>3 DEF SessionStates
  <2>5. new = c
    BY DEF a, b
  <2> HIDE DEF new, c
  <2> QED BY <2>4, <2>5
<1>6. \/ carriedOut /\ Move(s, new)
      \/ carriedOut /\ Goto(s, "release")
      \/ UNCHANGED operation /\ Goto(s, "release")
  BY <1>2 DEF Transition
<1>7. carriedOut => operation.attempting = 0 /\ IsNext(operation.checkpoints, k)
  BY <1>1, <1>2 DEF IInv, SessionInv
<1>8. CASE carriedOut /\ Move(s, new)
  <2> HIDE DEF new
  <2>1. /\ session' \in [Sessions -> SessionStates] /\ session'[s] = new
        /\ \A t \in Sessions : t # s => session'[t] = session[t]
    BY <1>1, <1>5, <1>8, Moved
  <2> QED BY <1>1, <1>3, <1>5, <1>7, <1>8, <2>1, BegunInv
<1>9. ASSUME Goto(s, "release")
      PROVE  /\ session' \in [Sessions -> SessionStates] /\ session'[s].pc = "release"
             /\ \A t \in Sessions : t # s => session'[t] = session[t]
  BY <1>1, <1>9, Went DEF PCs
<1>10. CASE carriedOut /\ Goto(s, "release")
  BY <1>1, <1>3, <1>7, <1>9, <1>10, BegunInv
<1>11. CASE UNCHANGED operation /\ Goto(s, "release")
  BY <1>1, <1>3, <1>9, <1>11, StopInv DEF TypeOK
<1> QED BY <1>6, <1>8, <1>10, <1>11

\* The object of an open step is made.
LEMMA WrittenInv ==
  ASSUME IInv, NEW k \in Steps, Open(k), made' = [made EXCEPT ![k] = @ + 1]
  PROVE  /\ made' \in [Steps -> Nat] /\ made'[k] = 1
         /\ \A j \in Steps : j # k => made'[j] = made[j]
         /\ UNCHANGED operation =>
               /\ AtMostOnce' /\ LedgerMatchesMeta' /\ BuiltOnCheckpoints'
               /\ \A j \in Steps : j # k => (Open(j)' <=> Open(j))
               /\ \A j \in Steps :
                     Named(j)' => operation'.checkpoints[j] = 0 /\ Reached(j)'
<1>1. /\ made' \in [Steps -> Nat] /\ made'[k] = 1
      /\ \A j \in Steps : j # k => made'[j] = made[j]
  BY DEF IInv, TypeOK, Open
<1>2. ASSUME UNCHANGED operation
      PROVE  /\ AtMostOnce' /\ LedgerMatchesMeta' /\ BuiltOnCheckpoints'
             /\ \A j \in Steps : j # k => (Open(j)' <=> Open(j))
             /\ \A j \in Steps :
                   Named(j)' => operation'.checkpoints[j] = 0 /\ Reached(j)'
  <2>1. AtMostOnce'
    BY <1>1 DEF IInv, StepInv, AtMostOnce
  <2>2. LedgerMatchesMeta'
    BY <1>1, <1>2 DEF IInv, StepInv, LedgerMatchesMeta, Open, Named
  <2>3. BuiltOnCheckpoints'
    BY <1>1, <1>2 DEF IInv, StepInv, BuiltOnCheckpoints, Open, Named, Reached
  <2>4. \A j \in Steps : j # k => (Open(j)' <=> Open(j))
    BY <1>1, <1>2 DEF Open, Named
  <2>5. \A j \in Steps : Named(j)' => operation'.checkpoints[j] = 0 /\ Reached(j)'
    BY <1>2 DEF IInv, StepInv, Named, Reached
  <2> QED BY <2>1, <2>2, <2>3, <2>4, <2>5
<1> QED BY <1>1, <1>2

LEMMA CreateInv == ASSUME IInv, NEW s \in Sessions, Create(s) PROVE IInv'
<1> DEFINE k == session[s].step
           written == [made EXCEPT ![k] = @ + 1]
           new == [session[s] EXCEPT !.pc = "checkpoint", !.id = made[k] + 1]
<1>1. TypeOK /\ At(s, "create") /\ UNCHANGED <<operation, holder>>
  BY DEF IInv, Create
<1>2. k \in Steps /\ Open(k) /\ k \notin late
  BY <1>1 DEF IInv, SessionInv, At
<1>3. \A t \in Sessions : At(t, "create") /\ session[t].step = k => t = s
  BY <1>1 DEF IInv, OneWrite
<1>4. faults' \in Nat
  BY <1>1, FaultType DEF Create, TypeOK
<1>5. \/ made' = written /\ UNCHANGED late /\ Move(s, new)
      \/ made' = written /\ UNCHANGED late /\ Goto(s, "uncertain")
      \/ UNCHANGED made /\ late' = late \cup {k} /\ Goto(s, "uncertain")
      \/ UNCHANGED <<made, late>> /\ Goto(s, "uncertain")
  BY DEF Create
<1>6. ASSUME Move(s, new)
      PROVE  /\ session' \in [Sessions -> SessionStates]
             /\ session'[s].pc = "checkpoint" /\ session'[s].step = k
             /\ session'[s].id = 1
             /\ \A t \in Sessions : t # s => session'[t] = session[t]
  <2> DEFINE a == [session[s] EXCEPT !.pc = "checkpoint"]
             b == [a EXCEPT !.id = 1]
  <2>1. session[s] \in SessionStates /\ made[k] = 0
    BY <1>1, <1>2 DEF TypeOK, Open
  <2>2. a \in SessionStates /\ a.pc = "checkpoint" /\ a.step = k
    BY <2>1 DEF SessionStates, PCs
  <2> HIDE DEF a
  <2>3. b \in SessionStates /\ b.pc = "checkpoint" /\ b.step = k /\ b.id = 1
    BY <2>2 DEF SessionStates
  <2>4. made[k] + 1 = 1
    BY <2>1
  <2>5. new = b
    BY <2>4 DEF a
  <2> HIDE DEF b
  <2>6. Move(s, b)
    BY <1>6, <2>5
  <2> QED BY <1>1, <2>3, <2>6, Moved
<1>7. ASSUME Goto(s, "uncertain")
      PROVE  /\ session' \in [Sessions -> SessionStates]
             /\ session'[s].pc = "uncertain" /\ session'[s].step = k
             /\ \A t \in Sessions : t # s => session'[t] = session[t]
  BY <1>1, <1>7, Went DEF PCs
<1>8. ASSUME made' = written, UNCHANGED late,
             session' \in [Sessions -> SessionStates],
             \/ /\ session'[s].pc = "checkpoint" /\ session'[s].step = k
                /\ session'[s].id = 1
             \/ session'[s].pc = "uncertain" /\ session'[s].step = k,
             \A t \in Sessions : t # s => session'[t] = session[t]
      PROVE  IInv'
  <2> HIDE DEF k
  <2>1. /\ made' \in [Steps -> Nat] /\ made'[k] = 1
        /\ \A j \in Steps : j # k => made'[j] = made[j]
        /\ AtMostOnce' /\ LedgerMatchesMeta' /\ BuiltOnCheckpoints'
        /\ \A j \in Steps : j # k => (Open(j)' <=> Open(j))
        /\ \A j \in Steps : Named(j)' => operation'.checkpoints[j] = 0 /\ Reached(j)'
    BY <1>1, <1>2, <1>8, WrittenInv
  <2>2. TypeOK'
    BY <1>1, <1>4, <1>8, <2>1 DEF TypeOK
  <2>3. \A j \in late' : Open(j)'
    BY <1>1, <1>2, <1>8, <2>1 DEF IInv, StepInv, TypeOK
  <2>4. StepInv'
    BY <2>1, <2>3 DEF StepInv
  <2>5. SessionInv(s)'
    BY <1>1, <1>2, <1>8, <2>1 DEF IInv, SessionInv, At, k
  <2>6. ASSUME NEW t \in Sessions, t # s PROVE SessionInv(t)'
    <3>1. session'[t] = session[t] /\ SessionInv(t)
      BY <1>8, <2>6 DEF IInv
    <3>2. At(t, "create") => session[t].step \in Steps /\ session[t].step # k
      BY <1>3, <2>6, <3>1 DEF SessionInv, At
    <3>3. made[k] = 0
      BY <1>2 DEF Open
    <3>4. session[t].pc = "checkpoint" /\ holder = t =>
             made'[session[t].step] = 1
      BY <2>1, <3>1, <3>3 DEF SessionInv, At
    <3> QED BY <1>1, <1>8, <2>1, <3>1, <3>2, <3>4 DEF SessionInv, At
  <2>7. OneWrite'
    BY <1>8 DEF IInv, OneWrite, At
  <2> QED BY <2>2, <2>4, <2>5, <2>6, <2>7 DEF IInv
<1>9. CASE made' = written /\ UNCHANGED late /\ Move(s, new)
  <2> HIDE DEF k, written, new
  <2> QED BY <1>6, <1>8, <1>9
<1>10. CASE made' = written /\ UNCHANGED late /\ Goto(s, "uncertain")
  <2> HIDE DEF k, written
  <2> QED BY <1>7, <1>8, <1>10
<1>11. CASE UNCHANGED made /\ late' = late \cup {k} /\ Goto(s, "uncertain")
  <2> HIDE DEF k
  <2>1. TypeOK'
    BY <1>1, <1>2, <1>4, <1>7, <1>11 DEF TypeOK
  <2>2. \A j \in Steps : Open(j)' <=> Open(j)
    BY <1>1, <1>11 DEF Open, Named
  <2>3. \A j \in late' : Open(j)'
    BY <1>1, <1>2, <1>11, <2>2 DEF IInv, StepInv, TypeOK
  <2>4. StepInv'
    BY <1>1, <1>11, <2>3 DEF IInv, StepInv, AtMostOnce, LedgerMatchesMeta,
                             BuiltOnCheckpoints, Named, Reached
  <2>5. SessionInv(s)'
    BY <1>2, <1>7, <1>11 DEF SessionInv, At
  <2>6. ASSUME NEW t \in Sessions, t # s PROVE SessionInv(t)'
    <3>1. session'[t] = session[t] /\ SessionInv(t)
      BY <1>7, <1>11, <2>6 DEF IInv
    <3>2. At(t, "create") => session[t].step # k /\ Open(session[t].step)'
      BY <1>3, <2>2, <2>6, <3>1 DEF SessionInv, At
    <3> QED BY <1>1, <1>11, <3>1, <3>2 DEF SessionInv, At
  <2>7. OneWrite'
    BY <1>7, <1>11 DEF IInv, OneWrite, At
  <2> QED BY <2>1, <2>4, <2>5, <2>6, <2>7 DEF IInv
<1>12. CASE UNCHANGED <<made, late>> /\ Goto(s, "uncertain")
  <2> HIDE DEF k
  <2>1. UNCHANGED <<operation, made, late>> /\ holder' = holder
        /\ session'[s].pc = "uncertain" /\ session'[s].step \in Steps
    BY <1>1, <1>2, <1>7, <1>12
  <2> QED BY <1>4, <1>7, <1>12, <2>1, StopInv
<1> QED BY <1>5, <1>9, <1>10, <1>11, <1>12

LEMMA SettleInv == ASSUME IInv, NEW k \in Steps, Settle(k) PROVE IInv'
<1>1. /\ TypeOK /\ k \in late /\ late' = late \ {k}
      /\ UNCHANGED <<operation, holder, session, faults>>
  BY DEF IInv, Settle
<1>2. Open(k) /\ \A t \in Sessions : At(t, "create") => session[t].step # k
  BY <1>1 DEF IInv, StepInv, SessionInv
<1>3. CASE UNCHANGED made
  <2>1. TypeOK'
    BY <1>1, <1>3 DEF TypeOK
  <2>2. StepInv'
    BY <1>1, <1>3 DEF IInv, StepInv, AtMostOnce, LedgerMatchesMeta, BuiltOnCheckpoints,
                      Open, Named, Reached
  <2>3. \A t \in Sessions : SessionInv(t)'
    BY <1>1, <1>3 DEF IInv, SessionInv, At, Open, Named
  <2>4. OneWrite'
    BY <1>1 DEF IInv, OneWrite, At
  <2> QED BY <2>1, <2>2, <2>3, <2>4 DEF IInv
<1>4. CASE made' = [made EXCEPT ![k] = @ + 1]
  <2>1. /\ made' \in [Steps -> Nat] /\ made'[k] = 1
        /\ \A j \in Steps : j # k => made'[j] = made[j]
        /\ AtMostOnce' /\ LedgerMatchesMeta' /\ BuiltOnCheckpoints'
        /\ \A j \in Steps : j # k => (Open(j)' <=> Open(j))
        /\ \A j \in Steps : Named(j)' => operation'.checkpoints[j] = 0 /\ Reached(j)'
    BY <1>1, <1>2, <1>4, WrittenInv
  <2>2. TypeOK'
    BY <1>1, <2>1 DEF TypeOK
  <2>3. \A j \in late' : Open(j)'
    BY <1>1, <2>1 DEF IInv, StepInv, TypeOK
  <2>4. StepInv'
    BY <2>1, <2>3 DEF StepInv
  <2>5. ASSUME NEW t \in Sessions PROVE SessionInv(t)'
    <3>1. session'[t] = session[t] /\ SessionInv(t) /\ made[k] = 0
      BY <1>1, <1>2 DEF IInv, Open
    <3>2. At(t, "create") => session[t].step \in Steps /\ Open(session[t].step)'
      BY <1>2, <2>1, <3>1 DEF SessionInv, At
    <3>3. session[t].pc = "checkpoint" /\ holder = t => made'[session[t].step] = 1
      BY <2>1, <3>1 DEF SessionInv, At
    <3> QED BY <1>1, <3>1, <3>2, <3>3 DEF SessionInv, At
  <2>6. OneWrite'
    BY <1>1 DEF IInv, OneWrite, At
  <2> QED BY <2>2, <2>4, <2>5, <2>6 DEF IInv
<1> QED BY <1>3, <1>4 DEF Settle

\* The one step k that the record names, of which no write can arrive any more,
\* is concluded: the record has its object, or there is none.
LEMMA ConcludedInv ==
  ASSUME IInv, NEW k \in Steps, \A j \in Steps : Named(j) <=> j = k,
         k \notin late, \A t \in Sessions : At(t, "create") => session[t].step # k,
         operation' \in Records, operation'.status = "OPEN",
         operation'.attempting = 0, operation'.reconciling = 0,
         operation'.checkpoints = [operation.checkpoints EXCEPT ![k] = made[k]],
         UNCHANGED <<made, late, holder>>, faults' \in Nat,
         session' \in [Sessions -> SessionStates],
         \A t \in Sessions :
            \/ session'[t] = session[t] /\ holder # t
            \/ session'[t].pc = "write" /\ session'[t].read = operation'
            \/ session'[t].pc = "uncertain" /\ session'[t].step \in Steps
  PROVE  IInv'
<1>1. late = {} /\ \A t \in Sessions : ~At(t, "create")
  <2>1. late = {}
    BY DEF IInv, StepInv, TypeOK, Open
  <2>2. \A t \in Sessions : ~At(t, "create")
    BY DEF IInv, SessionInv, Open, At
  <2> QED BY <2>1, <2>2
<1>2. \A j \in Steps : ~Named(j)'
  BY StepFacts DEF Named
<1>3. /\ operation.checkpoints \in [Steps -> Nat] /\ operation.checkpoints[k] = 0
      /\ made \in [Steps -> Nat] /\ made[k] <= 1
  BY DEF IInv, StepInv, TypeOK, Records, AtMostOnce
<1>4. /\ operation'.checkpoints[k] = made[k]
      /\ \A j \in Steps : j # k => operation'.checkpoints[j] = operation.checkpoints[j]
  BY <1>3
<1>5. TypeOK'
  BY StepFacts DEF IInv, TypeOK
<1>6. StepInv'
  <2>1. AtMostOnce'
    BY DEF IInv, StepInv, AtMostOnce
  <2>2. ASSUME NEW j \in Steps
        PROVE  /\ operation'.checkpoints[j] # 0 => operation'.checkpoints[j] \in 1..made[j]
               /\ ~(made[j] > 0 /\ operation'.checkpoints[j] = 0)
    <3>1. CASE j = k
      BY <1>3, <1>4, <3>1
    <3>2. CASE j # k
      BY <1>4, <3>2 DEF IInv, StepInv, LedgerMatchesMeta, Named
    <3> QED BY <3>1, <3>2
  <2>3. LedgerMatchesMeta'
    BY <2>2 DEF LedgerMatchesMeta
  <2>4. BuiltOnCheckpoints'
    <3>1. \A j \in Steps : operation.checkpoints[j] # 0 => operation'.checkpoints[j] # 0
      BY <1>3, <1>4
    <3>2. \A i \in Steps : \A j \in 1..(i - 1) : j \in Steps
      BY StepFacts
    <3> QED BY <3>1, <3>2 DEF IInv, StepInv, BuiltOnCheckpoints
  <2> QED BY <1>1, <1>2, <2>1, <2>3, <2>4 DEF StepInv
<1>7. ASSUME NEW t \in Sessions PROVE SessionInv(t)'
  <2>1. CASE session'[t] = session[t] /\ holder # t
    BY <1>1, <2>1 DEF IInv, SessionInv, At
  <2>2. CASE session'[t].pc = "write" /\ session'[t].read = operation'
    BY <2>2 DEF SessionInv, At
  <2>3. CASE session'[t].pc = "uncertain" /\ session'[t].step \in Steps
    BY <2>3 DEF SessionInv, At
  <2> QED BY <2>1, <2>2, <2>3
<1>8. OneWrite'
  BY <1>1 DEF OneWrite, At
<1> QED BY <1>5, <1>6, <1>7, <1>8 DEF IInv

LEMMA CheckpointInv == ASSUME IInv, NEW s \in Sessions, Checkpoint(s) PROVE IInv'
<1> DEFINE k == session[s].step
           id == session[s].id
           checkpointed == [operation EXCEPT !.checkpoints[k] = id, !.attempting = 0]
           new == [session[s] EXCEPT !.pc = "write", !.read = checkpointed]
           allowed == operation.status = "OPEN" /\ operation.attempting \in {0, k}
                      /\ operation.checkpoints[k] \in {0, id}
           carriedOut == holder = s /\ allowed /\ operation' = checkpointed
<1>1. TypeOK /\ At(s, "checkpoint") /\ UNCHANGED <<holder, made, late>>
  BY DEF IInv, Checkpoint
<1>2. k \in Steps /\ id \in Nat /\ session[s] \in SessionStates
  BY <1>1 DEF IInv, SessionInv, TypeOK, SessionStates, At
<1>3. faults' \in Nat
  BY <1>1, FaultType DEF Checkpoint, Transition, TypeOK
<1>4. \/ carriedOut /\ Move(s, new)
      \/ carriedOut /\ Goto(s, "uncertain")
      \/ UNCHANGED operation /\ Goto(s, "uncertain")
  BY DEF Checkpoint, Transition
<1>5. ASSUME Goto(s, "uncertain")
      PROVE  /\ session' \in [Sessions -> SessionStates]
             /\ session'[s].pc = "uncertain" /\ session'[s].step = k
             /\ \A t \in Sessions : t # s => session'[t] = session[t]
  BY <1>1, <1>5, Went DEF PCs
<1>6. CASE carriedOut
  <2>1. operation.attempting = k /\ made[k] = 1 /\ id = 1
    BY <1>1, <1>6 DEF IInv, SessionInv, At
  <2>2. operation.status = "OPEN" /\ operation.reconciling = 0
    BY <1>6 DEF IInv, TypeOK
  <2>3. \A j \in Steps : Named(j) <=> j = k
    BY <2>1, <2>2, StepFacts DEF Named
  <2>4. k \notin late /\ \A t \in Sessions : At(t, "create") => session[t].step # k
    BY <2>1 DEF IInv, StepInv, SessionInv, Open
  <2>5. /\ checkpointed \in Records /\ checkpointed.status = "OPEN"
        /\ checkpointed.attempting = 0 /\ checkpointed.reconciling = 0
        /\ checkpointed.checkpoints = [operation.checkpoints EXCEPT ![k] = made[k]]
    <3> DEFINE ids == [operation.checkpoints EXCEPT ![k] = id]
               a == [operation EXCEPT !.checkpoints = ids]
    <3>1. operation \in Records /\ ids \in [Steps -> Nat]
      BY <1>1, <1>2 DEF TypeOK, Records
    <3>2. ids = [operation.checkpoints EXCEPT ![k] = made[k]]
      BY <2>1
    <3>3. checkpointed = [a EXCEPT !.attempting = 0]
      OBVIOUS
    <3> HIDE DEF ids, checkpointed
    <3>4. a \in Records /\ a.status = "OPEN" /\ a.reconciling = 0 /\ a.checkpoints = ids
      BY <2>2, <3>1 DEF Records
    <3> HIDE DEF a
    <3> QED BY <3>2, <3>3, <3>4, StepFacts DEF Records
  <2>6. ASSUME Move(s, new)
        PROVE  /\ session' \in [Sessions -> SessionStates]
               /\ session'[s].pc = "write" /\ session'[s].read = operation'
               /\ \A t \in Sessions : t # s => session'[t] = session[t]
    <3> DEFINE a == [session[s] EXCEPT !.pc = "write"]
               b == [a EXCEPT !.read = checkpointed]
    <3>1. new = b /\ operation' = checkpointed
      BY <1>6
    <3> HIDE DEF checkpointed, new
    <3>2. a \in SessionStates /\ a.pc = "write"
      BY <1>2 DEF SessionStates, PCs
    <3> HIDE DEF a
    <3>3. b \in SessionStates /\ b.pc = "write" /\ b.read = checkpointed
      BY <2>5, <3>2 DEF SessionStates
    <3> HIDE DEF b
    <3> QED BY <1>1, <2>6, <3>1, <3>3, Moved
  <2>7. /\ session' \in [Sessions -> SessionStates]
        /\ \A t \in Sessions :
            \/ session'[t] = session[t] /\ holder # t
            \/ session'[t].pc = "write" /\ session'[t].read = operation'
            \/ session'[t].pc = "uncertain" /\ session'[t].step \in Steps
    <3>1. \A t \in Sessions : t # s => holder # t
      BY <1>6
    <3> HIDE DEF new, checkpointed, k
    <3> QED BY <1>2, <1>4, <1>5, <1>6, <2>6, <3>1
  <2> HIDE DEF new, k, id, checkpointed
  <2>8. operation' = checkpointed
    BY <1>6
  <2> QED BY <1>1, <1>2, <1>3, <2>3, <2>4, <2>5, <2>7, <2>8, ConcludedInv
<1>7. CASE UNCHANGED operation /\ Goto(s, "uncertain")
  BY <1>1, <1>2, <1>3, <1>5, <1>7, StopInv DEF TypeOK
<1> QED BY <1>4, <1>6, <1>7

LEMMA ResolveInv == ASSUME IInv, Resolve PROVE IInv'
<1> DEFINE k == operation.reconciling
           resolved == [operation EXCEPT !.status = "OPEN", !.attempting = 0,
                                         !.reconciling = 0]
<1>1. /\ TypeOK /\ operation.status = "RECONCILIATION_REQUIRED"
      /\ holder = NoSession /\ ~InFlight(k)
      /\ UNCHANGED <<holder, session, made, late, faults>>
  BY DEF IInv, Resolve
<1>2. operation \in Records /\ k \in Steps /\ operation.attempting = 0
  BY <1>1, StepFacts DEF TypeOK, Records
<1>3. \A j \in Steps : Named(j) <=> j = k
  BY <1>2, StepFacts DEF Named
<1>4. k \notin late /\ \A t \in Sessions : At(t, "create") => session[t].step # k
  BY <1>1 DEF InFlight
<1>5. operation.checkpoints[k] = 0 /\ made[k] \in {0, 1}
      /\ operation.checkpoints \in [Steps -> Nat]
  BY <1>1, <1>2, <1>3 DEF IInv, StepInv, TypeOK, AtMostOnce, Records
<1>6. /\ resolved \in Records /\ resolved.status = "OPEN"
      /\ resolved.attempting = 0 /\ resolved.reconciling = 0
      /\ resolved.checkpoints = operation.checkpoints
  <2> DEFINE a == [operation EXCEPT !.status = "OPEN"]
             b == [a EXCEPT !.attempting = 0]
             c == [b EXCEPT !.reconciling = 0]
  <2>1. a \in Records /\ a.status = "OPEN" /\ a.checkpoints = operation.checkpoints
    BY <1>2 DEF Records
  <2> HIDE DEF a
  <2>2. /\ b \in Records /\ b.status = "OPEN" /\ b.attempting = 0
        /\ b.checkpoints = operation.checkpoints
    BY <2>1, StepFacts DEF Records
  <2> HIDE DEF b
  <2>3. /\ c \in Records /\ c.status = "OPEN" /\ c.attempting = 0 /\ c.reconciling = 0
        /\ c.checkpoints = operation.checkpoints
    BY <2>2, StepFacts DEF Records
  <2>4. resolved = c
    BY DEF a, b
  <2> HIDE DEF resolved, c
  <2> QED BY <2>3, <2>4
<1> DEFINE ids == [operation.checkpoints EXCEPT ![k] = made[k]]
<1>7. operation' = [resolved EXCEPT !.checkpoints = ids]
  <2>1. CASE \E id \in 1..made[k] : operation' = [resolved EXCEPT !.checkpoints[k] = id]
    <3> HIDE DEF resolved
    <3>1. operation' = [resolved EXCEPT !.checkpoints[k] = made[k]]
      BY <1>5, <2>1
    <3>2. operation' = [resolved EXCEPT
                           !.checkpoints = [resolved.checkpoints EXCEPT ![k] = made[k]]]
      BY <3>1
    <3> QED BY <1>6, <3>2
  <2>2. CASE made[k] = 0 /\ operation' = resolved
    <3>1. ids = operation.checkpoints
      BY <1>5, <2>2
    <3> HIDE DEF ids, resolved
    <3>2. [resolved EXCEPT !.checkpoints = ids] = resolved
      BY <1>6, <3>1 DEF Records
    <3> QED BY <2>2, <3>2
  <2> QED BY <2>1, <2>2 DEF Resolve
<1>8. /\ operation' \in Records /\ operation'.status = "OPEN"
      /\ operation'.attempting = 0 /\ operation'.reconciling = 0
      /\ operation'.checkpoints = ids
  <2>1. ids \in [Steps -> Nat]
    BY <1>2, <1>5
  <2> HIDE DEF ids, resolved
  <2> QED BY <1>6, <1>7, <2>1 DEF Records
<1>9. \A t \in Sessions : session'[t] = session[t] /\ holder # t
  BY <1>1, SessionAssumption
<1> HIDE DEF k
<1> QED BY <1>1, <1>2, <1>3, <1>4, <1>8, <1>9, ConcludedInv DEF TypeOK

LEMMA CompleteInv == ASSUME IInv, NEW s \in Sessions, Complete(s) PROVE IInv'
<1> DEFINE completed == [operation EXCEPT !.status = "COMPLETED"]
<1>1. TypeOK /\ UNCHANGED <<holder, made, late>>
  BY DEF IInv, Complete
<1>2. faults' \in Nat
  BY <1>1, FaultType DEF Complete, Transition, TypeOK
<1>3. /\ session' \in [Sessions -> SessionStates] /\ session'[s].pc = "release"
      /\ \A t \in Sessions : t # s => session'[t] = session[t]
  <2>1. Goto(s, "release")
    BY DEF Complete, Transition
  <2> QED BY <1>1, <2>1, Went DEF PCs
<1>4. CASE /\ holder = s /\ operation.status = "OPEN" /\ operation.attempting = 0
           /\ operation' = completed
  <2>1. /\ operation' \in Records /\ operation'.status = "COMPLETED"
        /\ operation'.checkpoints = operation.checkpoints
        /\ operation'.attempting = operation.attempting
        /\ operation'.reconciling = operation.reconciling
    BY <1>1, <1>4 DEF TypeOK, Records
  <2>2. TypeOK'
    BY <1>1, <1>2, <1>3, <1>4, <2>1 DEF TypeOK
  <2>3. StepInv'
    BY <1>1, <2>1 DEF IInv, StepInv, AtMostOnce, LedgerMatchesMeta, BuiltOnCheckpoints,
                      Open, Named, Reached
  <2>4. SessionInv(s)'
    BY <1>3 DEF SessionInv, At
  <2>5. \A t \in Sessions : t # s => SessionInv(t)'
    BY <1>1, <1>3, <1>4, <2>1 DEF IInv, SessionInv, At, Open, Named
  <2>6. OneWrite'
    BY <1>3 DEF IInv, OneWrite, At
  <2> QED BY <2>2, <2>3, <2>4, <2>5, <2>6 DEF IInv
<1>5. CASE UNCHANGED operation
  BY <1>1, <1>2, <1>3, <1>5, StopInv DEF TypeOK
<1> QED BY <1>4, <1>5 DEF Complete, Transition

LEMMA StoppingInv ==
  ASSUME IInv, (\E s \in Sessions : Release(s) \/ Crash(s)) \/ LeaseExpires
  PROVE  IInv'
<1>1. TypeOK
  BY DEF IInv
<1>2. ASSUME NEW s \in Sessions, Release(s) \/ Crash(s) PROVE IInv'
  <2>1. /\ UNCHANGED <<operation, made, late>> /\ holder' \in {holder, NoSession}
        /\ Return(s) /\ faults' \in Nat
    BY <1>1, <1>2, FaultType DEF Release, Crash, TypeOK
  <2>2. /\ session' \in [Sessions -> SessionStates] /\ session'[s].pc = "idle"
        /\ \A t \in Sessions : t # s => session'[t] = session[t]
    BY <1>1, <2>1, Returned
  <2> QED BY <2>1, <2>2, StopInv
<1>3. CASE LeaseExpires
  <2>1. UNCHANGED <<operation, made, late, session>> /\ holder' = NoSession
        /\ faults' \in Nat
    BY <1>1, <1>3, FaultType DEF LeaseExpires, TypeOK
  <2> QED BY <1>1, <2>1, StopInv DEF TypeOK
<1> QED BY <1>2, <1>3

LEMMA InitInv == Init => IInv
<1> SUFFICES ASSUME Init PROVE IInv
  OBVIOUS
<1>1. /\ operation = NoRecord /\ holder = NoSession /\ late = {}
      /\ made = [k \in Steps |-> 0] /\ session = [s \in Sessions |-> IdleSession]
      /\ faults = 0
  BY DEF Init
<1>2. /\ operation.status = "NONE" /\ operation.attempting = 0
      /\ operation.reconciling = 0 /\ \A k \in Steps : operation.checkpoints[k] = 0
  BY <1>1 DEF NoRecord
<1>3. \A k \in Steps : made[k] = 0 /\ ~Named(k)
  BY <1>1, <1>2, StepFacts DEF Named
<1>4. TypeOK
  BY <1>1, <1>2, IdleType DEF TypeOK
<1>5. StepInv
  BY <1>1, <1>2, <1>3 DEF StepInv, AtMostOnce, LedgerMatchesMeta, BuiltOnCheckpoints
<1>6. \A s \in Sessions : session[s].pc = "idle"
  BY <1>1 DEF IdleSession
<1> QED BY <1>4, <1>5, <1>6 DEF IInv, OneWrite, SessionInv, At

LEMMA NextInv == IInv /\ [Next]_vars => IInv'
<1> SUFFICES ASSUME IInv, [Next]_vars PROVE IInv'
  OBVIOUS
<1>1. ASSUME NEW s \in Sessions, SessionStep(s) PROVE IInv'
  BY <1>1, AcquireInv, RequireReconciliationInv, BeginInv, CreateInv, CheckpointInv,
     CompleteInv, StoppingInv DEF SessionStep
<1>2. ASSUME NEW k \in Steps, Settle(k) PROVE IInv'
  BY <1>2, SettleInv
<1>3. CASE LeaseExpires
  BY <1>3, StoppingInv
<1>4. CASE Resolve
  BY <1>4, ResolveInv
<1>5. CASE UNCHANGED vars
  <2>1. UNCHANGED <<operation, made, late, session, holder, faults>>
    BY <1>5 DEF vars
  <2> QED BY <2>1, StopInv DEF IInv, TypeOK
<1> QED BY <1>1, <1>2, <1>3, <1>4, <1>5 DEF Next

------------------------------------------------------------------------------
(* The theorems *)

\* The ledger's invariant holds of every state.
THEOREM Invariance == Spec => []IInv
BY InitInv, NextInv, PTL DEF Spec

\* Every response of the ledger can be read (TypeOK).
THEOREM LedgerTyped == Spec => []TypeOK
<1>1. IInv => TypeOK
  BY DEF IInv
<1> QED BY <1>1, Invariance, PTL

\* No external write is repeated, whatever number of sessions run, crash or lose
\* their lease (AtMostOnce).
THEOREM NoWriteRepeated == Spec => []AtMostOnce
<1>1. IInv => AtMostOnce
  BY DEF IInv, StepInv
<1> QED BY <1>1, Invariance, PTL

\* The record and Meta agree at every moment, also in the middle of a write
\* (LedgerMatchesMeta).
THEOREM NoObjectLost == Spec => []LedgerMatchesMeta
<1>1. IInv => LedgerMatchesMeta
  BY DEF IInv, StepInv
<1> QED BY <1>1, Invariance, PTL

\* No object is made before all that it is built on has a checkpoint
\* (BuiltOnCheckpoints).
THEOREM ObjectsInOrder == Spec => []BuiltOnCheckpoints
<1>1. IInv => BuiltOnCheckpoints
  BY DEF IInv, StepInv
<1> QED BY <1>1, Invariance, PTL

------------------------------------------------------------------------------
(* The operation implements PausedDraft *)

closed == operation.status = "COMPLETED"

\* A write of an open step is the next object of the draft.
LEMMA WriteMakes ==
  ASSUME IInv, NEW k \in Steps, Open(k), made' = [made EXCEPT ![k] = @ + 1],
         UNCHANGED operation
  PROVE  Promise!Make(k)
<1>1. operation.status # "COMPLETED"
  BY StepFacts DEF IInv, TypeOK, Open, Named
<1>2. made[k] = 0 /\ Reached(k)
  BY DEF IInv, StepInv, Open
<1>3. ASSUME NEW j \in 1..(k - 1) PROVE made[j] = 1
  <2>1. j \in Steps /\ operation.checkpoints[j] # 0
    BY <1>2, StepFacts DEF Reached
  <2>2. operation.checkpoints[j] \in 1..made[j] /\ made[j] <= 1 /\ made[j] \in Nat
    BY <2>1 DEF IInv, StepInv, LedgerMatchesMeta, AtMostOnce, TypeOK
  <2> QED BY <2>2
<1>4. made' = [made EXCEPT ![k] = 1]
  BY <1>2 DEF IInv, TypeOK
<1> QED BY <1>1, <1>2, <1>3, <1>4 DEF Promise!Make

\* complete is carried out when every object is there.
LEMMA CompleteCloses ==
  ASSUME IInv, UNCHANGED made, operation'.status = "COMPLETED",
         \A k \in Steps : operation.checkpoints[k] # 0
  PROVE  Promise!Close
<1>1. ASSUME NEW k \in Steps PROVE made[k] = 1
  BY DEF IInv, StepInv, LedgerMatchesMeta, AtMostOnce, TypeOK
<1> QED BY <1>1 DEF Promise!Close, Steps

\* What a session does to the record when it makes nothing.
LEMMA RecordStep ==
  ASSUME IInv, NEW s \in Sessions, SessionStep(s), UNCHANGED made
  PROVE  Promise!Close \/ UNCHANGED <<made, operation.status = "COMPLETED">>
<1>1. operation \in Records
  BY DEF IInv, TypeOK
<1>2. CASE Acquire(s)
  BY <1>1, <1>2 DEF Acquire, Records
<1>3. CASE RequireReconciliation(s)
  <2> DEFINE k == IF At(s, "mark") THEN session[s].read.attempting ELSE session[s].step
  <2>1. \/ UNCHANGED operation
        \/ operation.status # "COMPLETED" /\ operation' = Marked(k)
    BY <1>3 DEF RequireReconciliation, Transition
  <2> HIDE DEF k
  <2>2. Marked(k).status # "COMPLETED"
    BY <1>1 DEF Marked, Records
  <2> QED BY <2>1, <2>2
<1>4. CASE Begin(s)
  <2>1. PICK k \in Steps :
           UNCHANGED operation \/ (operation.status = "OPEN" /\ operation' = Begun(k))
    BY <1>4 DEF Begin, Transition
  <2>2. Begun(k).status = operation.status
    BY <1>1 DEF Begun, Records
  <2> QED BY <2>1, <2>2
<1>5. CASE Create(s)
  BY <1>5 DEF Create
<1>6. CASE Checkpoint(s)
  <2> DEFINE k == session[s].step
             id == session[s].id
             ids == [operation.checkpoints EXCEPT ![k] = id]
             a == [operation EXCEPT !.checkpoints = ids]
             b == [a EXCEPT !.attempting = 0]
             checkpointed == [operation EXCEPT !.checkpoints[k] = id, !.attempting = 0]
  <2>1. UNCHANGED operation \/ operation' = checkpointed
    BY <1>6 DEF Checkpoint, Transition
  <2>2. checkpointed = b
    OBVIOUS
  <2> HIDE DEF ids, checkpointed
  <2>3. a.status = operation.status
    BY <1>1 DEF Records
  <2>4. b.status = operation.status
    BY <1>1, <2>3 DEF Records
  <2> HIDE DEF b
  <2> QED BY <2>1, <2>2, <2>4
<1>7. CASE Complete(s)
  <2>1. \/ UNCHANGED operation
        \/ /\ operation' = [operation EXCEPT !.status = "COMPLETED"]
           /\ operation.checkpoints = session[s].read.checkpoints
    BY <1>7 DEF Complete, Transition
  <2>2. \A k \in Steps : session[s].read.checkpoints[k] # 0
    BY <1>7 DEF Complete
  <2>3. CASE operation' = [operation EXCEPT !.status = "COMPLETED"]
             /\ operation.checkpoints = session[s].read.checkpoints
    <3>1. operation'.status = "COMPLETED"
      BY <1>1, <2>3 DEF Records
    <3> QED BY <2>2, <2>3, <3>1, CompleteCloses
  <2> QED BY <2>1, <2>3
<1>8. CASE Release(s) \/ Crash(s)
  BY <1>8 DEF Release, Crash
<1> QED BY <1>2, <1>3, <1>4, <1>5, <1>6, <1>7, <1>8 DEF SessionStep

LEMMA NextKeepsDraft ==
  IInv /\ [Next]_vars =>
     [Promise!Close \/ \E k \in 1..StepCount : Promise!Make(k)]_<<made, closed>>
<1> SUFFICES ASSUME IInv, [Next]_vars
             PROVE  \/ Promise!Close \/ \E k \in Steps : Promise!Make(k)
                    \/ UNCHANGED <<made, closed>>
  BY DEF Steps
<1>1. ASSUME NEW s \in Sessions, SessionStep(s)
      PROVE  \/ Promise!Close \/ \E k \in Steps : Promise!Make(k)
             \/ UNCHANGED <<made, closed>>
  <2>1. CASE UNCHANGED made
    BY <1>1, <2>1, RecordStep DEF closed
  <2>2. CASE Create(s) /\ made' # made
    <3> DEFINE k == session[s].step
    <3>1. k \in Steps /\ Open(k) /\ UNCHANGED operation
      BY <2>2 DEF IInv, SessionInv, Create, At
    <3>2. made' = [made EXCEPT ![k] = @ + 1]
      BY <2>2 DEF Create
    <3> HIDE DEF k
    <3> QED BY <3>1, <3>2, WriteMakes
  <2>3. Create(s) \/ UNCHANGED made
    BY <1>1 DEF SessionStep, Acquire, RequireReconciliation, Begin, Checkpoint, Complete,
                Release, Crash
  <2> QED BY <2>1, <2>2, <2>3
<1>2. ASSUME NEW k \in Steps, Settle(k)
      PROVE  Promise!Make(k) \/ UNCHANGED <<made, closed>>
  <2>1. Open(k) /\ UNCHANGED operation
    BY <1>2 DEF Settle, IInv, StepInv
  <2> QED BY <1>2, <2>1, WriteMakes DEF Settle, closed
<1>3. CASE LeaseExpires
  BY <1>3 DEF LeaseExpires, closed
<1>4. CASE Resolve
  <2> DEFINE k == operation.reconciling
             a == [operation EXCEPT !.status = "OPEN"]
             b == [a EXCEPT !.attempting = 0]
             c == [b EXCEPT !.reconciling = 0]
             resolved == [operation EXCEPT !.status = "OPEN", !.attempting = 0,
                                           !.reconciling = 0]
  <2>1. operation \in Records /\ operation.status = "RECONCILIATION_REQUIRED"
        /\ UNCHANGED made
    BY <1>4 DEF IInv, TypeOK, Resolve
  <2>2. \/ \E id \in 1..made[k] : operation' = [resolved EXCEPT !.checkpoints[k] = id]
        \/ operation' = resolved
    BY <1>4 DEF Resolve
  <2>3. a \in Records /\ a.status = "OPEN"
    BY <2>1 DEF Records
  <2>4. resolved = c
    OBVIOUS
  <2> HIDE DEF a, resolved
  <2>5. b \in Records /\ b.status = "OPEN"
    BY <2>3, StepFacts DEF Records
  <2> HIDE DEF b
  <2>6. c \in Records /\ c.status = "OPEN"
    BY <2>5, StepFacts DEF Records
  <2> HIDE DEF c
  <2>7. ASSUME NEW id \in 1..made[k]
        PROVE  [resolved EXCEPT !.checkpoints[k] = id].status = "OPEN"
    BY <2>4, <2>6 DEF Records
  <2>8. operation'.status = "OPEN"
    BY <2>2, <2>4, <2>6, <2>7
  <2> QED BY <2>1, <2>8 DEF closed
<1>5. CASE UNCHANGED vars
  BY <1>5 DEF vars, closed
<1> QED BY <1>1, <1>2, <1>3, <1>4, <1>5 DEF Next

\* The ledger, its sessions and its operator make the draft that PausedDraft
\* promises (KeepsDraftPromise).
THEOREM DraftKept == Spec => KeepsDraftPromise
<1>1. Init => made = [k \in 1..StepCount |-> 0] /\ ~closed
  BY DEF Init, NoRecord, closed, Steps
<1>2. IInv /\ [Next]_vars =>
        [Promise!Close \/ \E k \in 1..StepCount : Promise!Make(k)]_<<made, closed>>
  BY NextKeepsDraft
<1> QED BY <1>1, <1>2, Invariance, PTL DEF Spec, KeepsDraftPromise, Promise!Draft, closed
==============================================================================
