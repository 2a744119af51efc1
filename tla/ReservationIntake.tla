--------------------------- MODULE ReservationIntake ---------------------------
(***************************************************************************)
(* Reservations on the public pages: POST requests that run the            *)
(* transaction record_campaign_reservation at the same time, and owners    *)
(* who delete campaigns.                                                   *)
(*                                                                         *)
(* The transaction is READ COMMITTED.  It takes its time at its start,     *)
(* then waits for the row of the global counter and for that of the        *)
(* campaign, and holds each to its end: others come in between, and it may *)
(* be rolled back.  What it reads under the locks decides what it writes,  *)
(* and the others see what it wrote when it commits.                       *)
(* A request that fails the checks before the transaction (origin, form,   *)
(* Turnstile) changes nothing and is left out; a retry is a new request.   *)
(***************************************************************************)
EXTENDS Integers, FiniteSets

CONSTANTS
    Requests,             \* POST requests that run at the same time
    None,                 \* no lock, no campaign, no person
    Campaigns,
    People,               \* email addresses
    CampaignMinuteLimit,  \* RESERVATION_CAMPAIGN_MINUTE_LIMIT (10)
    GlobalMinuteLimit,    \* RESERVATION_GLOBAL_MINUTE_LIMIT (120)
    TotalLimit,           \* RESERVATION_CAMPAIGN_TOTAL_LIMIT (1000)
    Minute,               \* ticks in a minute
    MaxWait,              \* bound: ticks a transaction waits for the lock
    MaxClock              \* bound on the clock

ASSUME NoneAssumption == None \notin Requests
ASSUME QuotaAssumption ==
    /\ CampaignMinuteLimit \in Nat \ {0} /\ TotalLimit \in Nat \ {0}
    /\ GlobalMinuteLimit \in Nat /\ CampaignMinuteLimit <= GlobalMinuteLimit
ASSUME TimeAssumption ==
    /\ Minute \in Nat \ {0} /\ MaxWait \in 0..(Minute - 1)
    /\ MaxClock \in Nat /\ MaxClock >= Minute

VARIABLES
    campaigns,    \* the campaigns that exist
    reserved,     \* campaign_reservations: who has reserved
    globalUsage,  \* reservation_global_minute_usage
    usage,        \* reservation_campaign_minute_usage
    lock,         \* the transaction that holds the row of globalUsage
    request,
    clock,
    passedAll,    \* history: requests counted up to the end of each tick
    passed        \* the same of each campaign

tables == <<campaigns, reserved, globalUsage, usage>>
history == <<passedAll, passed>>
vars == <<tables, history, lock, request, clock>>

\* A row that is not there yet is one whose minute is over: time begins at Minute.
Usages(limit) == [start: Nat, count: 0..limit]
NoUsage == [start |-> 0, count |-> 0]

RequestStates == [pc: {"idle", "begin", "global", "campaign", "record"},
                  campaign: Campaigns \cup {None}, person: People \cup {None},
                  now: Nat, room: BOOLEAN]

IdleRequest == [pc |-> "idle", campaign |-> None, person |-> None, now |-> 0,
                room |-> FALSE]

Init ==
    /\ campaigns = Campaigns
    /\ reserved = [c \in Campaigns |-> {}]
    /\ globalUsage = NoUsage
    /\ usage = [c \in Campaigns |-> NoUsage]
    /\ lock = None
    /\ request = [r \in Requests |-> IdleRequest]
    /\ clock = Minute
    /\ passedAll = [t \in 0..MaxClock |-> 0]
    /\ passed = [c \in Campaigns |-> [t \in 0..MaxClock |-> 0]]

------------------------------------------------------------------------------

At(r, pc) == request[r].pc = pc

\* The answer, at the end of the transaction.
Answer(r) ==
    /\ request' = [request EXCEPT ![r] = IdleRequest]
    /\ lock' = IF lock = r THEN None ELSE lock

\* Mutant: a counter starts again for every one who comes later.
Opened_Early(u, now) ==
    IF u.start < now THEN [start |-> now, count |-> 0] ELSE u

\* A counter whose minute is over starts again.
Opened(u, now) ==
    IF u.start <= now - Minute THEN [start |-> now, count |-> 0] ELSE u

Counted(u) == [u EXCEPT !.count = @ + 1]

Arrive(r, c, p) ==
    /\ At(r, "idle")
    /\ request' = [request EXCEPT ![r] = [IdleRequest EXCEPT
                        !.pc = "begin", !.campaign = c, !.person = p]]
    /\ UNCHANGED <<tables, history, lock, clock>>

\* clock_timestamp() and the first look at the campaign.
Begin(r) ==
    /\ At(r, "begin")
    /\ IF request[r].campaign \in campaigns
       THEN /\ request' = [request EXCEPT ![r].pc = "global", ![r].now = clock]
            /\ UNCHANGED lock
       ELSE Answer(r)                                               \* not_found
    /\ UNCHANGED <<tables, history, clock>>

\* Mutant: the counter is read without its lock.
Free_Read(r) == TRUE

Free(r) == lock = None

\* The counter of all reservations, for update.
TakeGlobal(r) ==
    /\ At(r, "global") /\ Free(r)
    /\ IF Opened(globalUsage, request[r].now).count < GlobalMinuteLimit
       THEN request' = [request EXCEPT ![r].pc = "campaign"] /\ lock' = r
       ELSE Answer(r)                                            \* rate_limited
    /\ UNCHANGED <<tables, history, clock>>

HasRoom(c) == Cardinality(reserved[c]) < TotalLimit

\* Mutant: the minute of a campaign is not kept.
WithinMinute_Any(u) == TRUE

WithinMinute(u) == u.count < CampaignMinuteLimit

\* The campaign's row, for update, and what is read under the locks: the minute
\* of the campaign and the number of its reservations.  A campaign that is gone
\* by now is not found; a counter that has started again stays so.
TakeCampaign(r) ==
    LET c == request[r].campaign
        u == Opened(usage[c], request[r].now)
    IN
    /\ At(r, "campaign")
    /\ IF c \in campaigns /\ WithinMinute(u)
       THEN /\ request' = [request EXCEPT ![r].pc = "record",
                                          ![r].room = HasRoom(c)]
            /\ UNCHANGED <<globalUsage, usage, lock>>
       ELSE /\ globalUsage' = Opened(globalUsage, request[r].now)
            /\ usage' = IF c \in campaigns THEN [usage EXCEPT ![c] = u] ELSE usage
            /\ Answer(r)
    /\ UNCHANGED <<campaigns, reserved, history, clock>>

\* The writes of the transaction and its commit.  A request that is a duplicate or
\* has found the campaign full is counted all the same.
Record(r) ==
    LET c == request[r].campaign
        now == request[r].now
    IN
    /\ At(r, "record")
    /\ globalUsage' = Counted(Opened(globalUsage, now))
    /\ usage' = [usage EXCEPT ![c] = Counted(Opened(@, now))]
    /\ reserved' = IF request[r].room
                   THEN [reserved EXCEPT ![c] = @ \cup {request[r].person}]
                   ELSE reserved
    /\ passedAll' = [passedAll EXCEPT ![clock] = @ + 1]
    /\ passed' = [passed EXCEPT ![c][clock] = @ + 1]
    /\ Answer(r)
    /\ UNCHANGED <<campaigns, clock>>

InTransaction(r) == request[r].pc \in {"global", "campaign", "record"}

\* The transaction is rolled back: the connection is lost or it waits too long.
Abort(r) ==
    /\ InTransaction(r)
    /\ Answer(r)
    /\ UNCHANGED <<tables, history, clock>>

\* A transaction holds the row of the campaign.
Locked(c) == \E r \in Requests : At(r, "record") /\ request[r].campaign = c

\* delete_owned_inactive_campaign; what refers to the campaign goes with it.
Delete(c) ==
    /\ c \in campaigns /\ ~Locked(c)
    /\ campaigns' = campaigns \ {c}
    /\ reserved' = [reserved EXCEPT ![c] = {}]
    /\ usage' = [usage EXCEPT ![c] = NoUsage]
    /\ UNCHANGED <<globalUsage, history, lock, request, clock>>

\* No transaction that still holds or awaits a lock is older than MaxWait.
Tick ==
    /\ clock < MaxClock
    /\ \A r \in Requests : InTransaction(r) => clock < request[r].now + MaxWait
    /\ clock' = clock + 1
    /\ passedAll' = [passedAll EXCEPT ![clock + 1] = passedAll[clock]]
    /\ passed' = [c \in Campaigns |->
                    [passed[c] EXCEPT ![clock + 1] = passed[c][clock]]]
    /\ UNCHANGED <<tables, lock, request>>

RequestStep(r) ==
    \/ \E c \in Campaigns, p \in People : Arrive(r, c, p)
    \/ Begin(r) \/ TakeGlobal(r) \/ TakeCampaign(r) \/ Record(r) \/ Abort(r)

Next ==
    \/ \E r \in Requests : RequestStep(r)
    \/ \E c \in Campaigns : Delete(c)
    \/ Tick

Spec == Init /\ [][Next]_vars

------------------------------------------------------------------------------
(* Properties *)

\* The tables and requests are well formed, and no counter of a minute ever exceeds
\* its limit: nobody passes the check of the quota while another is counted.
TypeOK ==
    /\ campaigns \subseteq Campaigns
    /\ reserved \in [Campaigns -> SUBSET People]
    /\ globalUsage \in Usages(GlobalMinuteLimit)
    /\ usage \in [Campaigns -> Usages(CampaignMinuteLimit)]
    /\ lock \in Requests \cup {None}
    /\ request \in [Requests -> RequestStates]
    /\ clock \in Minute..MaxClock
    /\ passedAll \in [0..MaxClock -> Nat]
    /\ passed \in [Campaigns -> [0..MaxClock -> Nat]]

\* A reservation is inserted on the count that was read before it.  The locks of
\* record_campaign_reservation keep others from inserting in between: parallel
\* reservations do not exceed the total of a campaign.
TotalKept == \A c \in Campaigns : Cardinality(reserved[c]) <= TotalLimit

\* Requests counted in the last ticks of a minute, less what a transaction waits.
Pace(upTo) == upTo[clock] - upTo[clock - (Minute - MaxWait)]

\* The minute is fixed, not sliding, and each transaction measures it with the
\* time at which it began to wait.  So a real minute, shortened by the wait, sees
\* at most the quota of two minutes, never of three.
GlobalPace == Pace(passedAll) <= 2 * GlobalMinuteLimit

\* The same of the quota of each campaign, for as long as the campaign is there.
CampaignPace ==
    \A c \in campaigns : Pace(passed[c]) <= 2 * CampaignMinuteLimit
==============================================================================
