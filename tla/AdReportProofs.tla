--------------------------- MODULE AdReportProofs ----------------------------
(* The figures of the report, for all windows, zones, delays and numbers of  *)
(* workers: the invariant of AdReport and what follows from it.              *)
EXTENDS AdReport, TLAPS

Run == window.startsAt .. window.endsAt - 1

\* What is behind every stored or asked figure lies in the past.
Past ==
    /\ pausedAt <= clock
    /\ window.startsAt <= clock
    /\ \A w \in Workers : worker[w].now <= clock /\ worker[w].pausedAt <= clock

\* Figures on their way, and the ones stored, are among those Meta shows now.
Seen ==
    /\ latest.hours \subseteq shown \intersect Asked
    /\ \A w \in Workers :
          At(w, "store") => worker[w].hours \subseteq shown \intersect Asked

\* Final figures are whole, stored or on their way.
Whole ==
    /\ FinalCountsRun
    /\ \A w \in Workers : At(w, "store") /\ IsFinal(w) =>
          ShownInTime \subseteq worker[w].hours /\ worker[w].hours \subseteq AskedOfRun

\* Only a step that has stored its snapshot is about to complete the campaign.
Completing ==
    \A w \in Workers : worker[w].goal = "COMPLETED" => At(w, "commit")

\* Where no step outlives its lease: the holder alone acts, on figures that are
\* no older than the report's, and completes after the final ones.
Fenced ==
    ~Stalls =>
        /\ \A w \in Workers : ~At(w, "idle") => holder = w
        /\ \A w \in Workers : At(w, "store") => latest.hours \subseteq worker[w].hours
        /\ \A w \in Workers : worker[w].goal = "COMPLETED" => latest.final
        /\ stage = "COMPLETED" => latest.final /\ holder = NoWorker

IInv == TypeOK /\ Past /\ Seen /\ Whole /\ Completing /\ Fenced

------------------------------------------------------------------------------
(* Days *)

\* A later hour is not on an earlier day.
LEMMA DaysFollow ==
    ASSUME NEW a \in Nat, NEW b \in Nat, a <= b
    PROVE  /\ a \div DayLength \in Nat
           /\ a \div DayLength <= b \div DayLength
<1>1. DayLength \in Nat /\ DayLength > 0
  BY TimeAssumption
<1>2. PICK d \in Nat : d = DayLength /\ d > 0
  BY <1>1
<1>. DEFINE p == a \div d   q == b \div d
<1>3. p \in Int /\ q \in Int /\ d * p <= a /\ a < d * p + d
      /\ d * q <= b /\ b < d * q + d
  BY <1>2, SMT
<1>4. p >= 0
  <2>. SUFFICES ASSUME p <= -1 PROVE FALSE
    BY <1>3
  <2>. HIDE DEF p
  <2>. d * p <= -d
    BY <1>2, <1>3, SMT
  <2>. QED BY <1>2, <1>3
<1>5. p <= q
  <2>. SUFFICES ASSUME p >= q + 1 PROVE FALSE
    BY <1>3
  <2>. HIDE DEF p, q
  <2>. d * p >= d * q + d
    BY <1>2, <1>3, SMT
  <2>. QED BY <1>2, <1>3
<1>. QED BY <1>2, <1>3, <1>4, <1>5

LEMMA WindowIsNat ==
    ASSUME TypeOK
    PROVE  /\ window.startsAt \in Nat /\ window.endsAt \in Nat
           /\ window.startsAt < window.endsAt
           /\ clock \in Nat /\ clock <= MaxClock
<1>1. PICK s \in Starts, e \in Ends : s = window.startsAt /\ e = window.endsAt
  BY DEF TypeOK
<1>2. s \in Nat /\ e \in Nat /\ s < e
  BY TimeAssumption
<1>3. clock \in 0 .. MaxClock
  BY DEF TypeOK, Hours
<1>4. clock \in Nat /\ clock <= MaxClock
  BY <1>3, BoundsAssumption
<1>. QED BY <1>1, <1>2, <1>4

\* Once the run has ended, AskedOfRun is what is asked for of it.
LEMMA RunIsAsked ==
    ASSUME TypeOK, clock >= window.endsAt
    PROVE  Run \intersect Asked = AskedOfRun
<1>1. PICK s \in Nat, e \in Nat : s = window.startsAt /\ e = window.endsAt /\ s < e
  BY WindowIsNat
<1>2. clock \in Nat /\ clock <= MaxClock /\ e <= clock
  BY <1>1, WindowIsNat
<1>3. Earlier(clock, e) = e
  BY <1>1, <1>2 DEF Earlier
<1>4. Since = UtcDay(s) /\ Until = UtcDay(e)
  BY <1>1, <1>3 DEF Since, Until
<1>5. Run = s .. e - 1 /\ Run \subseteq Hours
  BY <1>1, <1>2, BoundsAssumption DEF Run, Hours
<1>. QED BY <1>1, <1>4, <1>5 DEF Asked, AskedOfRun

\* A later request asks for no day less.
LEMMA AskedGrows ==
    ASSUME TypeOK, TypeOK', window' = window, clock <= clock'
    PROVE  Asked \subseteq Asked'
<1>1. PICK s \in Nat, e \in Nat : s = window.startsAt /\ e = window.endsAt
  BY WindowIsNat
<1>2. clock \in Nat /\ clock' \in Nat
  BY BoundsAssumption DEF TypeOK, Hours
<1>3. Earlier(clock, e) \in Nat /\ Earlier(clock', e) \in Nat
      /\ Earlier(clock, e) <= Earlier(clock', e)
  BY <1>1, <1>2 DEF Earlier
<1>4. UtcDay(Earlier(clock, e)) \in Nat /\ UtcDay(Earlier(clock', e)) \in Nat
      /\ UtcDay(Earlier(clock, e)) <= UtcDay(Earlier(clock', e))
  BY <1>3, DaysFollow DEF UtcDay
<1>5. UtcDay(s) \in Nat
  BY DaysFollow DEF UtcDay
<1>6. UtcDay(s) .. UtcDay(Earlier(clock, e))
        \subseteq UtcDay(s) .. UtcDay(Earlier(clock', e))
  BY <1>4, <1>5
<1>7. Since = UtcDay(s) /\ Since' = UtcDay(s)
      /\ Until = UtcDay(Earlier(clock, e)) /\ Until' = UtcDay(Earlier(clock', e))
  BY <1>1 DEF Since, Until, UtcDay, Earlier
<1>. QED BY <1>6, <1>7 DEF Asked, AccountDay, Hours

------------------------------------------------------------------------------
(* What the steps of a worker and of time keep *)

\* A worker's final answer, when it was given, counted what was delivered by
\* the end and is shown by the end of the wait.
LEMMA AnswerIsWhole ==
    ASSUME TypeOK, Past, NEW w \in Workers, Fetch(w), IsFinal(w)
    PROVE  ShownInTime \subseteq worker'[w].hours /\ worker'[w].hours \subseteq AskedOfRun
<1>1. PICK s \in Nat, e \in Nat : s = window.startsAt /\ e = window.endsAt /\ s < e
  BY WindowIsNat
<1>2. clock \in Nat /\ worker[w].now \in Int /\ worker[w].pausedAt \in Int
      /\ worker[w].now <= clock
  BY BoundsAssumption DEF TypeOK, WorkerStates, Hours, Past, Never
<1>3. worker[w].now >= e + Delay
  BY <1>1, <1>2, TimeAssumption DEF IsFinal, FinalizationAt, Later
<1>4. clock >= e + Delay /\ clock >= e
  BY <1>1, <1>2, <1>3, TimeAssumption
<1>5. Delivered = Run
  BY <1>1, <1>2, <1>4 DEF Delivered, Run
<1>6. ShownInTime \subseteq Settled
  <2>. SUFFICES ASSUME NEW h \in ShownInTime PROVE h \in Settled
    OBVIOUS
  <2>1. h \in s .. e - 1 /\ h + 1 + Lag <= e + Delay
    BY <1>1 DEF ShownInTime, AskedOfRun
  <2>2. h + 1 + Lag <= clock /\ h \in Run
    BY <1>1, <1>2, <1>4, <2>1, TimeAssumption DEF Run
  <2>. QED BY <1>5, <2>2 DEF Settled
<1>7. Settled \subseteq shown' /\ shown' \subseteq Run
  BY <1>5 DEF Fetch, Settled
<1>8. Run \intersect Asked = AskedOfRun
  BY <1>1, <1>4, RunIsAsked
<1>9. worker'[w].hours = shown' \intersect Asked
  BY DEF Fetch, TypeOK
<1>10. ShownInTime \subseteq AskedOfRun
  BY DEF ShownInTime
<1>. QED BY <1>6, <1>7, <1>8, <1>9, <1>10

\* Only the clock and what Meta shows may change: figures that were seen still
\* are, and whole ones stay whole.
LEMMA SeenStays ==
    ASSUME TypeOK, TypeOK', Seen, window' = window, clock <= clock',
           shown \subseteq shown', latest' = latest,
           \A w \in Workers : At(w, "store")' =>
               At(w, "store") /\ worker'[w].hours = worker[w].hours
    PROVE  Seen'
<1>1. Asked \subseteq Asked'
  BY AskedGrows
<1>. QED BY <1>1 DEF Seen

LEMMA WholeStays ==
    ASSUME Whole, window' = window, latest' = latest,
           \A w \in Workers : At(w, "store")' => worker'[w] = worker[w]
    PROVE  Whole'
<1>1. AskedOfRun' = AskedOfRun /\ ShownInTime' = ShownInTime
  BY DEF AskedOfRun, ShownInTime, AccountDay, UtcDay
<1>2. \A w \in Workers : At(w, "store")' =>
          At(w, "store") /\ IsFinal(w)' = IsFinal(w)
  BY DEF At, IsFinal, FinalizationAt, Later
<1>. QED BY <1>1, <1>2 DEF Whole, FinalCountsRun

------------------------------------------------------------------------------
(* The invariant *)

\* The report begins empty, with nobody at work.
THEOREM InitEstablishes == Init => IInv
<1>. SUFFICES ASSUME Init PROVE IInv
  OBVIOUS
<1>1. PICK s \in Starts, e \in Ends, z \in Zones :
         window = [startsAt |-> s, endsAt |-> e, zone |-> z]
  BY DEF Init
<1>2. s \in Nat /\ e \in Nat /\ s < e /\ s <= MaxClock /\ clock = s /\ dueAt = s
  BY <1>1, TimeAssumption, BoundsAssumption DEF Init
<1>3. window.startsAt = s /\ window.endsAt = e
  BY <1>1
<1>4. Delivered = {}
  BY <1>2, <1>3 DEF Delivered
<1>5. \A w \in Workers : worker[w] = IdleWorker /\ ~At(w, "store") /\ At(w, "idle")
  BY DEF Init, IdleWorker, At
<1>6. TypeOK
  <2>1. dueAt \in 0 .. Later(clock, window.endsAt) + Delay
    BY <1>2, <1>3, TimeAssumption DEF Later
  <2>2. clock \in Hours /\ 0 \in Hours
    BY <1>2, BoundsAssumption DEF Hours
  <2>3. window \in [startsAt : Starts, endsAt : Ends, zone : Zones]
    BY <1>1
  <2>4. latest \in [hours : SUBSET Delivered, final : BOOLEAN, exists : BOOLEAN]
    BY DEF Init, NoSnapshot
  <2>5. IdleWorker \in WorkerStates
    BY <2>2 DEF IdleWorker, WorkerStates
  <2>6. faults \in 0 .. MaxFaults
    BY BoundsAssumption DEF Init
  <2>. QED BY <2>1, <2>2, <2>3, <2>4, <2>5, <2>6 DEF TypeOK, Init
<1>7. Past
  BY <1>2, <1>3, <1>5 DEF Past, Init, IdleWorker, Never
<1>8. Seen /\ Whole
  BY <1>5 DEF Seen, Whole, FinalCountsRun, Init, NoSnapshot
<1>9. Completing /\ Fenced
  BY <1>5 DEF Completing, Fenced, Init, IdleWorker, NoSnapshot
<1>. QED BY <1>6, <1>7, <1>8, <1>9 DEF IInv

\* What a step leaves of the other workers, and of its own worker's record.
Moved(w, new) ==
    worker' = [v \in Workers |-> IF v = w THEN new ELSE worker[v]]

\* Each step of a worker, with the record it ends in.
LEMMA ClaimMoves ==
    ASSUME TypeOK, NEW w \in Workers, Claim(w)
    PROVE  Moved(w, [IdleWorker EXCEPT
              !.pc = IF stage = "FINALIZING" /\ pausedAt = Never
                     THEN "pause" ELSE "fetch",
              !.now = clock, !.stage = stage, !.pausedAt = pausedAt])
BY DEF Claim, TypeOK, Moved

LEMMA FetchMoves ==
    ASSUME TypeOK, NEW w \in Workers, Fetch(w)
    PROVE  Moved(w, [worker[w] EXCEPT !.pc = "store",
                                      !.hours = shown' \intersect Asked])
BY DEF Fetch, TypeOK, Moved

LEMMA StoreMoves ==
    ASSUME TypeOK, NEW w \in Workers, Store(w)
    PROVE  Moved(w, [worker[w] EXCEPT
              !.pc = IF worker[w].stage = "COLLECTING" /\ Ended(w)
                        /\ worker[w].pausedAt = Never
                     THEN "pause" ELSE "commit",
              !.goal = NextStage(w)])
BY DEF Store, TypeOK, Moved

LEMMA PauseMoves ==
    ASSUME TypeOK, NEW w \in Workers, Pause(w)
    PROVE  Moved(w, [worker[w] EXCEPT
              !.pc = IF worker[w].stage = "FINALIZING" THEN "fetch" ELSE "commit"])
BY DEF Pause, Goto, TypeOK, Moved

LEMMA ReturnMoves ==
    ASSUME TypeOK, NEW w \in Workers, Return(w)
    PROVE  Moved(w, IdleWorker)
BY DEF Return, TypeOK, Moved

\* A worker's new record of the right kind keeps the whole of them so.
LEMMA WorkersStayTyped ==
    ASSUME TypeOK, window' = window, clock' = clock, NEW w \in Workers,
           NEW new \in WorkerStates, Moved(w, new)
    PROVE  worker' \in [Workers -> WorkerStates']
BY DEF TypeOK, WorkerStates, Delivered, Hours, Moved

\* With the clock and the window nothing of the days changes.
LEMMA DaysStay ==
    ASSUME UNCHANGED time
    PROVE  /\ Delivered' = Delivered /\ Settled' = Settled /\ Asked' = Asked
           /\ WorkerStates' = WorkerStates /\ Run' = Run
           /\ AskedOfRun' = AskedOfRun /\ ShownInTime' = ShownInTime
BY DEF time, Delivered, Settled, Asked, Since, Until, Earlier, UtcDay, AccountDay,
       Hours, WorkerStates, Run, AskedOfRun, ShownInTime

LEMMA ClaimKeeps ==
    ASSUME IInv, NEW w \in Workers, Claim(w)
    PROVE  IInv'
<1>. DEFINE new == [IdleWorker EXCEPT
              !.pc = IF stage = "FINALIZING" /\ pausedAt = Never
                     THEN "pause" ELSE "fetch",
              !.now = clock, !.stage = stage, !.pausedAt = pausedAt]
<1>1. Moved(w, new)
  BY ClaimMoves DEF IInv
<1>2. /\ new.pc \in {"pause", "fetch"} /\ new.now = clock
      /\ new.pausedAt = pausedAt /\ new.goal = "COLLECTING"
  BY DEF IdleWorker
<1>3. new \in WorkerStates
  BY DEF IdleWorker, IInv, TypeOK, WorkerStates, Claim
<1>. HIDE DEF new
<1>4. worker'[w] = new /\ \A v \in Workers : v # w => worker'[v] = worker[v]
  BY <1>1 DEF Moved
<1>5. UNCHANGED <<time, stage, dueAt, pausedAt, shown, latest, faults>>
  BY DEF Claim
<1>6. TypeOK'
  <2>1. worker' \in [Workers -> WorkerStates']
    BY <1>1, <1>3, <1>5, DaysStay DEF IInv, TypeOK, Moved
  <2>. QED BY <1>5, <2>1, DaysStay DEF IInv, TypeOK, Claim, time
<1>7. Past'
  BY <1>2, <1>4, <1>5, WindowIsNat DEF IInv, Past, time
<1>8. Seen'
  BY <1>2, <1>4, <1>5, DaysStay DEF IInv, Seen, At
<1>9. Whole'
  <2>1. UNCHANGED <<window, latest>>
    BY <1>5 DEF time
  <2>2. \A v \in Workers : At(v, "store")' => worker'[v] = worker[v]
    BY <1>2, <1>4 DEF At
  <2>. QED BY <2>1, <2>2, WholeStays DEF IInv
<1>10. Completing'
  BY <1>2, <1>4 DEF IInv, Completing, At
<1>11. Fenced'
  BY <1>2, <1>4, <1>5, WorkersAssumption DEF IInv, Fenced, At, Claim
<1>. QED BY <1>6, <1>7, <1>8, <1>9, <1>10, <1>11 DEF IInv

LEMMA FetchKeeps ==
    ASSUME IInv, NEW w \in Workers, Fetch(w)
    PROVE  IInv'
<1>. DEFINE new == [worker[w] EXCEPT !.pc = "store",
                                     !.hours = shown' \intersect Asked]
<1>1. Moved(w, new)
  BY FetchMoves DEF IInv
<1>2. PICK r \in WorkerStates : r = worker[w]
  BY DEF IInv, TypeOK
<1>3. /\ new.pc = "store" /\ new.now = r.now /\ new.stage = r.stage
      /\ new.pausedAt = r.pausedAt /\ new.goal = r.goal
      /\ new.hours = shown' \intersect Asked
  BY <1>2 DEF WorkerStates
<1>4. shown \subseteq shown' /\ shown' \subseteq Delivered
  BY DEF IInv, TypeOK, Fetch
<1>5. new \in WorkerStates
  BY <1>2, <1>4 DEF WorkerStates
<1>. HIDE DEF new
<1>6. worker'[w] = new /\ \A v \in Workers : v # w => worker'[v] = worker[v]
  BY <1>1 DEF Moved
<1>7. UNCHANGED <<time, stage, holder, dueAt, pausedAt, latest, faults>>
  BY DEF Fetch
<1>8. TypeOK'
  <2>1. worker' \in [Workers -> WorkerStates']
    BY <1>1, <1>5, <1>7, DaysStay DEF IInv, TypeOK, Moved
  <2>. QED BY <1>4, <1>7, <2>1, DaysStay DEF IInv, TypeOK, time
<1>9. Past'
  BY <1>2, <1>3, <1>6, <1>7 DEF IInv, Past, time
<1>10. Seen'
  BY <1>3, <1>4, <1>6, <1>7, DaysStay DEF IInv, Seen, At
<1>11. Whole'
  <2>1. IsFinal(w)' = IsFinal(w)
    BY <1>2, <1>3, <1>6, <1>7 DEF IsFinal, FinalizationAt, time
  <2>2. IsFinal(w) => /\ ShownInTime \subseteq worker'[w].hours
                      /\ worker'[w].hours \subseteq AskedOfRun
    BY AnswerIsWhole DEF IInv
  <2>3. \A v \in Workers : v # w => At(v, "store")' = At(v, "store")
                                  /\ IsFinal(v)' = IsFinal(v)
                                  /\ worker'[v].hours = worker[v].hours
    BY <1>6, <1>7 DEF At, IsFinal, FinalizationAt, time
  <2>. QED BY <1>7, <2>1, <2>2, <2>3, DaysStay DEF IInv, Whole, FinalCountsRun
<1>12. Completing'
  <2>1. r.goal # "COMPLETED"
    BY <1>2 DEF IInv, Completing, Fetch, At
  <2>. QED BY <1>3, <1>6, <2>1 DEF IInv, Completing, At
<1>13. Fenced'
  <2>. SUFFICES ASSUME ~Stalls PROVE Fenced'
    BY DEF Fenced
  <2>1. holder = w
    BY DEF IInv, Fenced, Fetch, At
  <2>2. latest.hours \subseteq new.hours
    BY <1>3, <1>4 DEF IInv, Seen
  <2>3. r.goal # "COMPLETED"
    BY <1>2 DEF IInv, Completing, Fetch, At
  <2>. QED BY <1>3, <1>6, <1>7, <2>1, <2>2, <2>3 DEF IInv, Fenced, At
<1>. QED BY <1>8, <1>9, <1>10, <1>11, <1>12, <1>13 DEF IInv

LEMMA StoreKeeps ==
    ASSUME IInv, NEW w \in Workers, Store(w)
    PROVE  IInv'
<1>. DEFINE new == [worker[w] EXCEPT
              !.pc = IF worker[w].stage = "COLLECTING" /\ Ended(w)
                        /\ worker[w].pausedAt = Never
                     THEN "pause" ELSE "commit",
              !.goal = NextStage(w)]
<1>1. Moved(w, new)
  BY StoreMoves DEF IInv
<1>2. PICK r \in WorkerStates : r = worker[w]
  BY DEF IInv, TypeOK
<1>3. /\ new.pc \in {"pause", "commit"} /\ new.now = r.now /\ new.stage = r.stage
      /\ new.pausedAt = r.pausedAt /\ new.goal = NextStage(w)
      /\ r.stage = "FINALIZING" => new.pc = "commit"
  BY <1>2 DEF WorkerStates
<1>4. NextStage(w) \in {"COLLECTING", "FINALIZING", "COMPLETED"}
      /\ (NextStage(w) = "COMPLETED" => r.stage = "FINALIZING" /\ IsFinal(w))
  BY <1>2 DEF NextStage, WorkerStates
<1>5. new \in WorkerStates
  BY <1>2, <1>4 DEF WorkerStates
<1>. HIDE DEF new
<1>6. worker'[w] = new /\ \A v \in Workers : v # w => worker'[v] = worker[v]
  BY <1>1 DEF Moved
<1>7. UNCHANGED <<time, stage, holder, dueAt, pausedAt, shown, faults>>
  BY DEF Store
<1>8. latest'.hours = r.hours /\ latest'.final = IsFinal(w) /\ latest'.exists = TRUE
      /\ r.pc = "store"
  BY <1>2 DEF Store, At
<1>9. TypeOK'
  <2>1. worker' \in [Workers -> WorkerStates']
    BY <1>1, <1>5, <1>7, DaysStay DEF IInv, TypeOK, Moved
  <2>2. r.hours \in SUBSET Delivered
    BY DEF WorkerStates
  <2>3. IsFinal(w) \in BOOLEAN
    BY DEF IsFinal
  <2>4. latest' \in [hours : SUBSET Delivered, final : BOOLEAN, exists : BOOLEAN]
    BY <1>2, <2>2, <2>3 DEF Store
  <2>. QED BY <1>7, <2>1, <2>4, DaysStay DEF IInv, TypeOK, time
<1>10. Past'
  BY <1>2, <1>3, <1>6, <1>7 DEF IInv, Past, time
<1>11. Seen'
  BY <1>2, <1>3, <1>6, <1>7, <1>8, DaysStay DEF IInv, Seen, At
<1>12. Whole'
  <2>1. \A v \in Workers : v # w => At(v, "store")' = At(v, "store")
                                  /\ IsFinal(v)' = IsFinal(v)
                                  /\ worker'[v].hours = worker[v].hours
    BY <1>6, <1>7 DEF At, IsFinal, FinalizationAt, time
  <2>2. ~At(w, "store")'
    BY <1>3, <1>6 DEF At
  <2>3. latest'.final => /\ ShownInTime \subseteq latest'.hours
                         /\ latest'.hours \subseteq AskedOfRun
    BY <1>2, <1>8 DEF IInv, Whole, At
  <2>. QED BY <1>7, <2>1, <2>2, <2>3, DaysStay DEF IInv, Whole, FinalCountsRun
<1>13. Completing'
  BY <1>3, <1>4, <1>6 DEF IInv, Completing, At
<1>14. Fenced'
  <2>. SUFFICES ASSUME ~Stalls PROVE Fenced'
    BY DEF Fenced
  <2>1. holder = w /\ \A v \in Workers : v # w => At(v, "idle")
    BY <1>2, <1>8 DEF IInv, Fenced, At
  <2>2. \A v \in Workers : v # w => worker[v].goal # "COMPLETED"
    BY <2>1 DEF IInv, Completing, At
  <2>3. stage # "COMPLETED"
    BY <2>1, WorkersAssumption DEF IInv, Fenced
  <2>4. new.goal = "COMPLETED" => latest'.final
    BY <1>3, <1>4, <1>8
  <2>. QED BY <1>3, <1>6, <1>7, <2>1, <2>2, <2>3, <2>4 DEF Fenced, At
<1>. QED BY <1>9, <1>10, <1>11, <1>12, <1>13, <1>14 DEF IInv

LEMMA PauseKeeps ==
    ASSUME IInv, NEW w \in Workers, Pause(w)
    PROVE  IInv'
<1>. DEFINE new == [worker[w] EXCEPT
              !.pc = IF worker[w].stage = "FINALIZING" THEN "fetch" ELSE "commit"]
<1>1. Moved(w, new)
  BY PauseMoves DEF IInv
<1>2. PICK r \in WorkerStates : r = worker[w]
  BY DEF IInv, TypeOK
<1>3. /\ new.pc \in {"fetch", "commit"} /\ new.now = r.now
      /\ new.pausedAt = r.pausedAt /\ new.goal = r.goal
  BY <1>2 DEF WorkerStates
<1>4. new \in WorkerStates
  BY <1>2 DEF WorkerStates
<1>. HIDE DEF new
<1>5. worker'[w] = new /\ \A v \in Workers : v # w => worker'[v] = worker[v]
  BY <1>1 DEF Moved
<1>6. UNCHANGED <<time, stage, holder, dueAt, shown, latest, faults>>
      /\ pausedAt' = clock
  BY DEF Pause
<1>7. TypeOK'
  <2>1. worker' \in [Workers -> WorkerStates']
    BY <1>1, <1>4, <1>6, DaysStay DEF IInv, TypeOK, Moved
  <2>. QED BY <1>6, <2>1, DaysStay DEF IInv, TypeOK, time
<1>8. Past'
  BY <1>2, <1>3, <1>5, <1>6, WindowIsNat DEF IInv, Past, time
<1>9. Seen'
  BY <1>3, <1>5, <1>6, DaysStay DEF IInv, Seen, At
<1>10. Whole'
  <2>1. UNCHANGED <<window, latest>>
    BY <1>6 DEF time
  <2>2. \A v \in Workers : At(v, "store")' => worker'[v] = worker[v]
    BY <1>3, <1>5 DEF At
  <2>. QED BY <2>1, <2>2, WholeStays DEF IInv
<1>11. r.goal # "COMPLETED"
  BY <1>2 DEF IInv, Completing, Pause, At
<1>12. Completing'
  BY <1>3, <1>5, <1>11 DEF IInv, Completing, At
<1>13. Fenced'
  <2>1. ~At(w, "idle")
    BY DEF Pause, At
  <2>. QED BY <1>3, <1>5, <1>6, <1>11, <2>1 DEF IInv, Fenced, At
<1>. QED BY <1>7, <1>8, <1>9, <1>10, <1>12, <1>13 DEF IInv

\* A worker that returns leaves nothing behind, whatever becomes of the row.
LEMMA ReturnKeeps ==
    ASSUME IInv, NEW w \in Workers, Return(w),
           UNCHANGED <<time, pausedAt, shown, latest>>
    PROVE  /\ worker' \in [Workers -> WorkerStates']
           /\ Past' /\ Seen' /\ Whole' /\ Completing'
           /\ worker'[w] = IdleWorker
           /\ \A v \in Workers : v # w => worker'[v] = worker[v]
<1>1. Moved(w, IdleWorker)
  BY ReturnMoves DEF IInv
<1>2. worker'[w] = IdleWorker /\ \A v \in Workers : v # w => worker'[v] = worker[v]
  BY <1>1 DEF Moved
<1>3. 0 \in Hours
  BY BoundsAssumption DEF Hours
<1>4. IdleWorker \in WorkerStates
  BY <1>3 DEF IdleWorker, WorkerStates
<1>5. worker' \in [Workers -> WorkerStates']
  BY <1>1, <1>4, DaysStay DEF IInv, TypeOK, Moved
<1>6. IdleWorker.pc = "idle" /\ IdleWorker.now = 0 /\ IdleWorker.pausedAt = -1
      /\ IdleWorker.goal = "COLLECTING"
  BY DEF IdleWorker, Never
<1>7. Past'
  BY <1>2, <1>6, WindowIsNat DEF IInv, Past, time
<1>8. Seen'
  BY <1>2, <1>6, DaysStay DEF IInv, Seen, At
<1>9. Whole'
  <2>1. UNCHANGED <<window, latest>>
    BY DEF time
  <2>2. \A v \in Workers : At(v, "store")' => worker'[v] = worker[v]
    BY <1>2, <1>6 DEF At
  <2>. QED BY <2>1, <2>2, WholeStays DEF IInv
<1>10. Completing'
  BY <1>2, <1>6 DEF IInv, Completing, At
<1>. QED BY <1>2, <1>5, <1>7, <1>8, <1>9, <1>10

LEMMA CommitKeeps ==
    ASSUME IInv, NEW w \in Workers, Commit(w)
    PROVE  IInv'
<1>1. Return(w) /\ UNCHANGED <<time, pausedAt, shown, latest, faults>>
  BY DEF Commit
<1>2. /\ worker' \in [Workers -> WorkerStates']
      /\ Past' /\ Seen' /\ Whole' /\ Completing'
      /\ worker'[w] = IdleWorker
      /\ \A v \in Workers : v # w => worker'[v] = worker[v]
  BY <1>1, ReturnKeeps
<1>3. PICK r \in WorkerStates : r = worker[w]
  BY DEF IInv, TypeOK
<1>4. TypeOK'
  <2>1. PICK e \in Nat, c \in Nat : e = window.endsAt /\ c = clock
    BY WindowIsNat DEF IInv
  <2>2. r.pausedAt \in Int /\ r.pausedAt <= c
    BY <1>3, <2>1, BoundsAssumption DEF IInv, Past, WorkerStates, Hours, Never
  <2>3. Delay \in Nat /\ Delay >= 1
    BY TimeAssumption
  <2>4. NextAttempt(w) \in 0 .. Later(clock, window.endsAt) + Delay
    <3>1. FinalizationAt(w) \in 0 .. Later(c, e) + Delay
      BY <1>3, <2>1, <2>2, <2>3 DEF FinalizationAt, Later
    <3>2. c + 1 \in 0 .. Later(c, e) + Delay
      BY <2>3 DEF Later
    <3>. QED BY <2>1, <3>1, <3>2 DEF NextAttempt
  <2>5. dueAt' \in 0 .. (Later(clock, window.endsAt) + Delay)
    BY <2>4 DEF Commit, IInv, TypeOK
  <2>6. stage' \in {"COLLECTING", "FINALIZING", "COMPLETED", "FAILED"}
        /\ holder' \in Workers \union {NoWorker}
    BY <1>3 DEF Commit, IInv, TypeOK, WorkerStates
  <2>. QED BY <1>1, <1>2, <2>5, <2>6, DaysStay DEF IInv, TypeOK, time
<1>5. Fenced'
  <2>. SUFFICES ASSUME ~Stalls PROVE Fenced'
    BY DEF Fenced
  <2>1. holder = w /\ holder' = NoWorker /\ stage' = worker[w].goal
    BY DEF IInv, Fenced, Commit, At
  <2>2. \A v \in Workers : v # w => At(v, "idle")
    BY <2>1 DEF IInv, Fenced
  <2>. QED BY <1>1, <1>2, <2>1, <2>2 DEF IInv, Fenced, At, IdleWorker
<1>. QED BY <1>2, <1>4, <1>5 DEF IInv

LEMMA ThrowKeeps ==
    ASSUME IInv, NEW w \in Workers, Throw(w)
    PROVE  IInv'
<1>1. Return(w) /\ UNCHANGED <<time, pausedAt, shown, latest>>
  BY DEF Throw
<1>2. /\ worker' \in [Workers -> WorkerStates']
      /\ Past' /\ Seen' /\ Whole' /\ Completing'
      /\ worker'[w] = IdleWorker
      /\ \A v \in Workers : v # w => worker'[v] = worker[v]
  BY <1>1, ReturnKeeps
<1>3. TypeOK'
  <2>1. PICK e \in Nat, c \in Nat : e = window.endsAt /\ c = clock
    BY WindowIsNat DEF IInv
  <2>2. c + 1 \in 0 .. Later(c, e) + Delay
    BY <2>1, TimeAssumption DEF Later
  <2>3. dueAt' \in 0 .. (Later(clock, window.endsAt) + Delay)
    BY <2>1, <2>2 DEF Throw, IInv, TypeOK
  <2>4. stage' \in {"COLLECTING", "FINALIZING", "COMPLETED", "FAILED"}
        /\ holder' \in Workers \union {NoWorker}
    BY DEF Throw, IInv, TypeOK
  <2>5. faults' \in 0 .. MaxFaults
    BY BoundsAssumption DEF Throw, Fault, IInv, TypeOK
  <2>. QED BY <1>1, <1>2, <2>3, <2>4, <2>5, DaysStay DEF IInv, TypeOK, time
<1>4. Fenced'
  <2>. SUFFICES ASSUME ~Stalls PROVE Fenced'
    BY DEF Fenced
  <2>1. ~At(w, "idle")
    BY DEF Throw, At
  <2>2. holder = w /\ holder' = NoWorker /\ stage' \in {stage, "FAILED"}
    BY <2>1 DEF IInv, Fenced, Throw
  <2>3. \A v \in Workers : v # w => At(v, "idle")
    BY <2>2 DEF IInv, Fenced
  <2>4. stage # "COMPLETED"
    BY <2>2, WorkersAssumption DEF IInv, Fenced
  <2>. QED BY <1>1, <1>2, <2>2, <2>3, <2>4 DEF IInv, Fenced, At, IdleWorker
<1>. QED BY <1>2, <1>3, <1>4 DEF IInv

LEMMA CrashKeeps ==
    ASSUME IInv, NEW w \in Workers, Crash(w)
    PROVE  IInv'
<1>1. Return(w) /\ UNCHANGED <<time, stage, holder, dueAt, pausedAt, shown, latest>>
  BY DEF Crash
<1>2. /\ worker' \in [Workers -> WorkerStates']
      /\ Past' /\ Seen' /\ Whole' /\ Completing'
      /\ worker'[w] = IdleWorker
      /\ \A v \in Workers : v # w => worker'[v] = worker[v]
  BY <1>1, ReturnKeeps
<1>3. TypeOK'
  <2>1. faults' \in 0 .. MaxFaults
    BY BoundsAssumption DEF Crash, Fault, IInv, TypeOK
  <2>. QED BY <1>1, <1>2, <2>1, DaysStay DEF IInv, TypeOK, time
<1>4. Fenced'
  BY <1>1, <1>2 DEF IInv, Fenced, At, IdleWorker
<1>. QED BY <1>2, <1>3, <1>4 DEF IInv

LEMMA LeaseExpiresKeeps ==
    ASSUME IInv, LeaseExpires
    PROVE  IInv'
<1>1. UNCHANGED <<time, stage, dueAt, pausedAt, shown, latest, worker, faults>>
      /\ holder' = NoWorker
  BY DEF LeaseExpires
<1>2. TypeOK'
  BY <1>1, DaysStay DEF IInv, TypeOK, time
<1>3. Past' /\ Completing'
  BY <1>1 DEF IInv, Past, Completing, At, time
<1>4. Seen'
  BY <1>1, DaysStay DEF IInv, Seen, At
<1>5. Whole'
  BY <1>1, WholeStays DEF IInv, At, time
<1>6. Fenced'
  <2>. SUFFICES ASSUME ~Stalls PROVE Fenced'
    BY DEF Fenced
  <2>1. holder \in Workers /\ At(holder, "idle")
    BY DEF LeaseExpires, IInv, TypeOK
  <2>2. \A v \in Workers : At(v, "idle")
    BY <2>1 DEF IInv, Fenced
  <2>. QED BY <1>1, <2>2 DEF IInv, Fenced, At
<1>. QED BY <1>2, <1>3, <1>4, <1>5, <1>6 DEF IInv

LEMMA TickKeeps ==
    ASSUME IInv, Tick
    PROVE  IInv'
<1>1. UNCHANGED <<window, stage, holder, dueAt, pausedAt, shown, latest, worker,
                  faults>>
      /\ clock' = clock + 1 /\ clock < MaxClock
  BY DEF Tick
<1>2. PICK s \in Nat, e \in Nat, c \in Nat :
         s = window.startsAt /\ e = window.endsAt /\ c = clock
  BY WindowIsNat DEF IInv
<1>3. Delivered \subseteq Delivered'
  BY <1>1, <1>2 DEF Delivered
<1>4. TypeOK'
  <2>1. clock' \in Hours /\ Hours' = Hours
    BY <1>1, <1>2, BoundsAssumption DEF Hours
  <2>2. WorkerStates \subseteq WorkerStates'
    BY <1>3, <2>1 DEF WorkerStates
  <2>3. dueAt' \in 0 .. (Later(clock', window'.endsAt) + Delay)
    <3>1. Later(c, e) \in Nat /\ Later(c + 1, e) \in Nat /\ Later(c, e) <= Later(c + 1, e)
      BY DEF Later
    <3>2. dueAt \in 0 .. Later(c, e) + Delay
      BY <1>2 DEF IInv, TypeOK
    <3>3. dueAt \in 0 .. Later(c + 1, e) + Delay
      BY <3>1, <3>2, TimeAssumption
    <3>. QED BY <1>1, <1>2, <3>3
  <2>4. worker' \in [Workers -> WorkerStates']
    BY <1>1, <2>2 DEF IInv, TypeOK
  <2>5. shown' \subseteq Delivered'
        /\ latest' \in [hours : SUBSET Delivered', final : BOOLEAN, exists : BOOLEAN]
    BY <1>1, <1>3 DEF IInv, TypeOK
  <2>. QED BY <1>1, <2>1, <2>3, <2>4, <2>5 DEF IInv, TypeOK, Later
<1>5. Past'
  <2>1. pausedAt \in Int /\ \A w \in Workers : worker[w].now \in Int
                                            /\ worker[w].pausedAt \in Int
    BY BoundsAssumption DEF IInv, TypeOK, WorkerStates, Hours, Never
  <2>. QED BY <1>1, <1>2, <2>1 DEF IInv, Past
<1>6. Seen'
  BY <1>1, <1>2, <1>4, SeenStays DEF IInv, At
<1>7. Whole'
  BY <1>1, WholeStays DEF IInv, At
<1>8. Completing' /\ Fenced'
  BY <1>1 DEF IInv, Completing, Fenced, At
<1>. QED BY <1>4, <1>5, <1>6, <1>7, <1>8 DEF IInv

\* Every step, of a worker, of a lease and of time, keeps the invariant.
THEOREM StepPreserves == IInv /\ [Next]_vars => IInv'
<1>. SUFFICES ASSUME IInv, [Next]_vars PROVE IInv'
  OBVIOUS
<1>1. CASE Tick
  BY <1>1, TickKeeps
<1>2. CASE LeaseExpires
  BY <1>2, LeaseExpiresKeeps
<1>3. ASSUME NEW w \in Workers, Step(w) PROVE IInv'
  BY <1>3, ClaimKeeps, FetchKeeps, StoreKeeps, PauseKeeps, CommitKeeps,
     ThrowKeeps, CrashKeeps DEF Step
<1>4. CASE UNCHANGED vars
  <2>1. UNCHANGED <<time, stage, holder, dueAt, pausedAt, shown, latest, worker,
                    faults>>
    BY <1>4 DEF vars, time
  <2>2. TypeOK'
    BY <2>1, DaysStay DEF IInv, TypeOK, time
  <2>3. Past' /\ Completing' /\ Fenced'
    BY <2>1 DEF IInv, Past, Completing, Fenced, At, time
  <2>4. Seen'
    BY <2>1, DaysStay DEF IInv, Seen, At
  <2>5. Whole'
    BY <2>1, WholeStays DEF IInv, At, time
  <2>. QED BY <2>2, <2>3, <2>4, <2>5 DEF IInv
<1>. QED BY <1>1, <1>2, <1>3, <1>4 DEF Next

\* The invariant holds in every state of every behaviour.
THEOREM Invariant == Spec => []IInv
BY InitEstablishes, StepPreserves, PTL DEF Spec

------------------------------------------------------------------------------
(* What it shows *)

\* The stages, leases, snapshots and workers keep the form TypeOK gives them.
THEOREM TypeCorrect == Spec => []TypeOK
<1>1. IInv => TypeOK
  BY DEF IInv
<1>. QED BY <1>1, Invariant, PTL

\* A final snapshot counts the hours of the run that are asked for and shown in
\* time, and no other, with any number of workers, stalled or not, for accounts
\* ahead of UTC and behind it, and however short the wait is.
THEOREM FinalFiguresAreWhole == Spec => []FinalCountsRun
<1>1. IInv => FinalCountsRun
  BY DEF IInv, Whole
<1>. QED BY <1>1, Invariant, PTL

\* Where no step outlives its lease a COMPLETED campaign reports final figures.
THEOREM CompletedReportIsFinal == ASSUME ~Stalls PROVE Spec => []CompletedShowsFinal
<1>1. IInv => CompletedShowsFinal
  BY DEF IInv, Fenced, CompletedShowsFinal
<1>. QED BY <1>1, Invariant, PTL

\* Where no step outlives its lease the report's figures never go back.
THEOREM FiguresOnlyGrow == ASSUME ~Stalls PROVE Spec => ReportNeverShrinks
<1>1. ASSUME IInv, [Next]_vars PROVE [latest.hours \subseteq latest'.hours]_vars
  <2>1. CASE UNCHANGED latest
    BY <2>1
  <2>2. ASSUME NEW w \in Workers, Store(w) PROVE latest.hours \subseteq latest'.hours
    BY <1>1, <2>2 DEF Store, At, IInv, Fenced
  <2>3. UNCHANGED latest \/ \E w \in Workers : Store(w)
    <3>1. CASE UNCHANGED vars \/ Tick \/ LeaseExpires
      BY <3>1 DEF vars, Tick, LeaseExpires
    <3>2. ASSUME NEW w \in Workers, Step(w) PROVE UNCHANGED latest \/ Store(w)
      BY <3>2 DEF Step, Claim, Fetch, Pause, Commit, Throw, Crash
    <3>. QED BY <1>1, <3>1, <3>2 DEF Next
  <2>. QED BY <2>1, <2>2, <2>3
<1>. QED BY <1>1, Invariant, PTL DEF Spec, ReportNeverShrinks
==============================================================================
