------------------------------ MODULE AdReport -------------------------------
(* The figures of an ad on their way into the report of its campaign: the   *)
(* COLLECTING and FINALIZING stages of processClaimedCampaign ask Meta for   *)
(* the insights of the run, store each answer as a row of                    *)
(* meta_insight_snapshots, and getCampaignAnalytics shows the newest row.    *)
(*                                                                           *)
(* A figure is abstracted to the hours of delivery it counts.  Meta shows an *)
(* hour some time after it was delivered, and reads the days of a request in *)
(* the time zone of the ad account; getInsights writes them in UTC.  The     *)
(* lifecycle of the campaign and the calls that pause the objects are in     *)
(* CampaignLifecycle; what is kept of them here is who holds the lease, the  *)
(* stage, and when the run was paused.                                       *)
EXTENDS Integers

CONSTANTS
    Workers,     \* the processes that run processClaimedCampaign
    NoWorker,    \* no one holds the lease
    Starts,      \* the hours (UTC) at which a run may start
    Ends,        \* the hours at which it may end
    DayLength,   \* hours in a day
    Zones,       \* by how many hours an ad account may be ahead of UTC
    Lag,         \* after so many hours Meta shows what it delivered
    Delay,       \* META_INSIGHTS_FINALIZATION_DELAY_MINUTES, in hours
    Stalls,      \* whether a step may outlive its lease
    MaxFaults,   \* bound: calls, workers and leases lost
    MaxClock     \* bound: the last hour

ASSUME WorkersAssumption == NoWorker \notin Workers /\ Stalls \in BOOLEAN
ASSUME TimeAssumption ==
    /\ Starts \subseteq Nat /\ Ends \subseteq Nat
    /\ \A s \in Starts, e \in Ends : s < e
    /\ DayLength \in Nat \ {0} /\ Zones \subseteq Int
    /\ Lag \in Nat /\ Delay \in Nat \ {0}
ASSUME BoundsAssumption ==
    /\ MaxFaults \in Nat /\ MaxClock \in Nat
    /\ \A s \in Starts : s <= MaxClock

VARIABLES
    clock,       \* the hour
    window,      \* startsAt and endsAt of the run, and the zone of its account
    stage,       \* the lifecycle status, under RETRY_WAIT the one retried
    holder,      \* who holds the lease of the campaign
    dueAt,       \* next_attempt_at
    pausedAt,    \* paused_at of the run, -1 while it is not PAUSED
    shown,       \* the hours whose delivery Meta shows
    latest,      \* the snapshot with the newest fetched_at
    worker,
    faults

time == <<clock, window>>
vars == <<clock, window, stage, holder, dueAt, pausedAt, shown, latest, worker,
          faults>>

Hours == 0 .. MaxClock
Never == -1
NoSnapshot == [hours |-> {}, final |-> FALSE, exists |-> FALSE]

IdleWorker == [pc |-> "idle", now |-> 0, stage |-> "COLLECTING",
               pausedAt |-> Never, hours |-> {}, goal |-> "COLLECTING"]

Init ==
    /\ \E s \in Starts, e \in Ends, z \in Zones :
          window = [startsAt |-> s, endsAt |-> e, zone |-> z]
    /\ clock = window.startsAt
    /\ stage = "COLLECTING"
    /\ holder = NoWorker
    /\ dueAt = window.startsAt
    /\ pausedAt = Never
    /\ shown = {}
    /\ latest = NoSnapshot
    /\ worker = [w \in Workers |-> IdleWorker]
    /\ faults = 0

------------------------------------------------------------------------------
(* Days, delivery and what Meta answers *)

Earlier(a, b) == IF a < b THEN a ELSE b
Later(a, b) == IF a > b THEN a ELSE b

UtcDay(h) == h \div DayLength
AccountDay(h) == (h + window.zone) \div DayLength

\* The ad set has the window as its schedule: it delivers in every hour of it.
Delivered == {h \in window.startsAt .. window.endsAt - 1 : h < clock}
Settled == {h \in Delivered : h + 1 + Lag <= clock}

\* A bug the checks would find: the period begins today.
Since_Today == UtcDay(Earlier(clock, window.endsAt))

\* since and until of getInsights, days of UTC.
Since == UtcDay(window.startsAt)
Until == UtcDay(Earlier(clock, window.endsAt))

\* The hours a time_range asks for: Meta reads its days in the account's zone.
Asked == {h \in Hours : AccountDay(h) \in Since .. Until}

------------------------------------------------------------------------------
(* The worker *)

At(w, pc) == worker[w].pc = pc
Goto(w, pc) == worker' = [worker EXCEPT ![w].pc = pc]
Return(w) == worker' = [worker EXCEPT ![w] = IdleWorker]
Fault == faults < MaxFaults /\ faults' = faults + 1

Ended(w) == worker[w].now >= window.endsAt

\* A bug the checks would find: the wait for the last figures is forgotten.
FinalizationAt_NoDelay(w) == Later(window.endsAt, worker[w].pausedAt)

\* When the figures are final, by the run as the worker read it.
FinalizationAt(w) == Later(window.endsAt, worker[w].pausedAt) + Delay
IsFinal(w) == worker[w].stage = "FINALIZING" /\ worker[w].now >= FinalizationAt(w)

\* claim, renew and the read of the run.  FINALIZING begins with the pause of a
\* run that is not PAUSED.
Claim(w) ==
    /\ At(w, "idle")
    /\ holder = NoWorker
    /\ stage \in {"COLLECTING", "FINALIZING"}
    /\ clock >= dueAt
    /\ holder' = w
    /\ worker' = [worker EXCEPT ![w] =
          [IdleWorker EXCEPT
              !.pc = IF stage = "FINALIZING" /\ pausedAt = Never
                     THEN "pause" ELSE "fetch",
              !.now = clock, !.stage = stage, !.pausedAt = pausedAt]]
    /\ UNCHANGED <<time, stage, dueAt, pausedAt, shown, latest, faults>>

\* Meta answers with what it shows by now of the days it is asked for.
Fetch(w) ==
    /\ At(w, "fetch")
    /\ \E late \in SUBSET (Delivered \ (shown \union Settled)) :
          /\ shown' = Delivered \ late
          /\ worker' = [worker EXCEPT ![w].pc = "store",
                                      ![w].hours = shown' \intersect Asked]
    /\ UNCHANGED <<time, stage, holder, dueAt, pausedAt, latest, faults>>

\* A bug the checks would find: every snapshot of FINALIZING completes.
NextStage_Hurried(w) ==
    CASE worker[w].stage = "COLLECTING" ->
           IF Ended(w) THEN "FINALIZING" ELSE "COLLECTING"
      [] OTHER -> "COMPLETED"

\* Where a stage goes once its snapshot is stored.
NextStage(w) ==
    CASE worker[w].stage = "COLLECTING" ->
           IF Ended(w) THEN "FINALIZING" ELSE "COLLECTING"
      [] OTHER -> IF IsFinal(w) THEN "COMPLETED" ELSE "FINALIZING"

\* storeMetaInsightSnapshot: the row is written whoever holds the lease by now,
\* and fetched_at is the time of the insert.
Store(w) ==
    /\ At(w, "store")
    /\ latest' = [hours |-> worker[w].hours, final |-> IsFinal(w), exists |-> TRUE]
    /\ worker' = [worker EXCEPT
          ![w].pc = IF worker[w].stage = "COLLECTING" /\ Ended(w)
                       /\ worker[w].pausedAt = Never
                    THEN "pause" ELSE "commit",
          ![w].goal = NextStage(w)]
    /\ UNCHANGED <<time, stage, holder, dueAt, pausedAt, shown, faults>>

\* pauseMetaRun, in FINALIZING before the figures are asked for.
Pause(w) ==
    /\ At(w, "pause")
    /\ pausedAt' = clock
    /\ Goto(w, IF worker[w].stage = "FINALIZING" THEN "fetch" ELSE "commit")
    /\ UNCHANGED <<time, stage, holder, dueAt, shown, latest, faults>>

\* When the row is due again.
NextAttempt(w) ==
    IF worker[w].stage = "FINALIZING" THEN FinalizationAt(w) ELSE clock + 1

\* transition: without the lease it throws, and so does the one of the catch.
Commit(w) ==
    /\ At(w, "commit")
    /\ \/ /\ holder = w
          /\ stage' = worker[w].goal
          /\ dueAt' = NextAttempt(w)
          /\ holder' = NoWorker
       \/ holder # w /\ UNCHANGED <<stage, dueAt, holder>>
    /\ Return(w)
    /\ UNCHANGED <<time, pausedAt, shown, latest, faults>>

\* A call fails, after or before it took effect, and the catch retries the
\* stage later, or gives up when its attempts are used.
Throw(w) ==
    /\ worker[w].pc \in {"fetch", "store", "pause", "commit"}
    /\ Fault
    /\ \/ /\ holder = w
          /\ stage' \in {stage, "FAILED"}
          /\ dueAt' = clock + 1
          /\ holder' = NoWorker
       \/ holder # w /\ UNCHANGED <<stage, dueAt, holder>>
    /\ Return(w)
    /\ UNCHANGED <<time, pausedAt, shown, latest>>

Crash(w) ==
    /\ ~At(w, "idle")
    /\ Fault
    /\ Return(w)
    /\ UNCHANGED <<time, stage, holder, dueAt, pausedAt, shown, latest>>

\* The lease runs out.  Its holder still runs only where steps may stall.
LeaseExpires ==
    /\ holder # NoWorker
    /\ Stalls \/ At(holder, "idle")
    /\ holder' = NoWorker
    /\ UNCHANGED <<time, stage, dueAt, pausedAt, shown, latest, worker, faults>>

Tick ==
    /\ clock < MaxClock
    /\ clock' = clock + 1
    /\ UNCHANGED <<window, stage, holder, dueAt, pausedAt, shown, latest, worker,
                   faults>>

Step(w) ==
    \/ Claim(w) \/ Fetch(w) \/ Store(w) \/ Pause(w) \/ Commit(w)
    \/ Throw(w) \/ Crash(w)

Next == Tick \/ LeaseExpires \/ \E w \in Workers : Step(w)

Spec == Init /\ [][Next]_vars

------------------------------------------------------------------------------
(* Properties *)

WorkerStates ==
    [pc : {"idle", "fetch", "store", "pause", "commit"}, now : Hours,
     stage : {"COLLECTING", "FINALIZING"}, pausedAt : {Never} \union Hours,
     hours : SUBSET Delivered, goal : {"COLLECTING", "FINALIZING", "COMPLETED"}]

TypeOK ==
    /\ clock \in Hours
    /\ window \in [startsAt : Starts, endsAt : Ends, zone : Zones]
    /\ stage \in {"COLLECTING", "FINALIZING", "COMPLETED", "FAILED"}
    /\ holder \in Workers \union {NoWorker}
    /\ dueAt \in 0 .. Later(clock, window.endsAt) + Delay
    /\ pausedAt \in {Never} \union Hours
    /\ shown \subseteq Delivered
    /\ latest \in [hours : SUBSET Delivered, final : BOOLEAN, exists : BOOLEAN]
    /\ worker \in [Workers -> WorkerStates]
    /\ faults \in 0 .. MaxFaults

\* The hours of the run on the days that getInsights asks for at its end.  An
\* account ahead of UTC loses the hours after its midnight when the run ends
\* before that of UTC, and one behind UTC those before its first midnight.
AskedOfRun ==
    {h \in window.startsAt .. window.endsAt - 1 :
        AccountDay(h) \in UtcDay(window.startsAt) .. UtcDay(window.endsAt)}

\* Those of them that Meta shows by the end of the wait of FINALIZING: all,
\* where the wait is as long as what Meta shows late.
ShownInTime == {h \in AskedOfRun : h + 1 + Lag <= window.endsAt + Delay}

\* Final figures count every hour of the run that is asked for and shown in
\* time, whatever was retried, and nothing that is not of the run
\* (processClaimedCampaign, getInsights).
FinalCountsRun ==
    latest.final =>
        ShownInTime \subseteq latest.hours /\ latest.hours \subseteq AskedOfRun

\* Where no step outlives its lease, and Meta takes back no figure it has shown,
\* the report of a campaign never goes back from one look to the next, though
\* calls fail and workers change (storeMetaInsightSnapshot,
\* getCampaignAnalytics).
ReportNeverShrinks == [][latest.hours \subseteq latest'.hours]_vars

\* Where no step outlives its lease, the report of a COMPLETED campaign is the
\* final one (the newest row is all getCampaignAnalytics reads).
CompletedShowsFinal == stage = "COMPLETED" => latest.final

------------------------------------------------------------------------------
(* What the documents say and the code does not do.                           *)

\* What the documents say of every run: the final report counts it whole.
FinalCountsWholeRun ==
    latest.final => latest.hours = window.startsAt .. window.endsAt - 1
==============================================================================
