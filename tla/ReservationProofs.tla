--------------------------- MODULE ReservationProofs ---------------------------
(***************************************************************************)
(* Proofs about ReservationIntake for every number of requests, campaigns  *)
(* and people, and for every limit: the total of a campaign and the pace   *)
(* of the reservations are kept.                                           *)
(*                                                                         *)
(* The inductive invariant says what a counter knows of the history.  What *)
(* was counted since its minute surely began (its start and the longest    *)
(* wait) is in its count; the minute before it had ended by its start, so  *)
(* what was counted since that one ended is in its count and one limit.    *)
(***************************************************************************)
EXTENDS ReservationIntake, FiniteSetTheorems, TLAPS

\* What counter u knows at time now of the requests counted up to each tick.
Window(u, upTo, limit, now) ==
    /\ u.start <= now
    /\ \A t \in 0..now :
          /\ t >= u.start + MaxWait => upTo[now] - upTo[t] <= u.count
          /\ t >= u.start - (Minute - MaxWait) =>
                upTo[now] - upTo[t] <= limit + u.count

\* A transaction that holds the counter of all reservations.
Holds(r) == request[r].pc \in {"campaign", "record"}

\* The holder of the lock has found the quota of all reservations open, and nobody
\* else changes it.  Once it holds the campaign's row as well, the campaign stays
\* there with its minute open, and with room if the holder has counted so.
RequestInv(r) ==
    /\ Holds(r) <=> lock = r
    /\ ~At(r, "idle") => request[r].campaign \in Campaigns
                         /\ request[r].person \in People
    /\ InTransaction(r) =>
          request[r].now <= clock /\ clock <= request[r].now + MaxWait
    /\ Holds(r) => Opened(globalUsage, request[r].now).count < GlobalMinuteLimit
    /\ At(r, "record") =>
          /\ request[r].campaign \in campaigns
          /\ WithinMinute(Opened(usage[request[r].campaign], request[r].now))
          /\ request[r].room => HasRoom(request[r].campaign)

CountersInv ==
    /\ Window(globalUsage, passedAll, GlobalMinuteLimit, clock)
    /\ \A c \in campaigns : Window(usage[c], passed[c], CampaignMinuteLimit, clock)

IInv ==
    /\ TypeOK
    /\ \A r \in Requests : RequestInv(r)
    /\ CountersInv

------------------------------------------------------------------------------
(* Counters *)

LEMMA Constants ==
    /\ CampaignMinuteLimit \in Nat /\ CampaignMinuteLimit >= 1
    /\ GlobalMinuteLimit \in Nat /\ GlobalMinuteLimit >= 1
    /\ TotalLimit \in Nat /\ TotalLimit >= 1
    /\ Minute \in Nat /\ Minute >= 1
    /\ MaxWait \in Nat /\ MaxWait < Minute
    /\ MaxClock \in Nat /\ MaxClock >= Minute
BY QuotaAssumption, TimeAssumption

LEMMA OneMore ==
  ASSUME NEW upTo \in [0..MaxClock -> Nat], NEW now \in 0..MaxClock
  PROVE  [upTo EXCEPT ![now] = @ + 1] \in [0..MaxClock -> Nat]
OBVIOUS

\* A tick in which nothing is counted yet.
LEMMA WindowTicks ==
  ASSUME NEW limit \in Nat, NEW u \in Usages(limit),
         NEW upTo \in [0..MaxClock -> Nat],
         NEW now \in 0..MaxClock, now < MaxClock,
         Window(u, upTo, limit, now)
  PROVE  Window(u, [upTo EXCEPT ![now + 1] = upTo[now]], limit, now + 1)
<1> DEFINE later == [upTo EXCEPT ![now + 1] = upTo[now]]
<1>1. u.start \in Nat /\ u.count \in Nat
  BY DEF Usages
<1>2. later[now + 1] = upTo[now] /\ (\A t \in 0..now : later[t] = upTo[t])
  BY Constants
<1>3. ASSUME NEW t \in 0..(now + 1)
      PROVE  /\ t >= u.start + MaxWait => later[now + 1] - later[t] <= u.count
             /\ t >= u.start - (Minute - MaxWait) =>
                   later[now + 1] - later[t] <= limit + u.count
  <2>1. CASE t = now + 1
    <3> upTo[now] \in Nat
      OBVIOUS
    <3> QED BY <2>1, <1>1, <1>2
  <2>2. CASE t \in 0..now
    BY <2>2, <1>2 DEF Window
  <2> QED BY <2>1, <2>2
<1> HIDE DEF later
<1>4. u.start <= now + 1
  BY <1>1 DEF Window
<1> QED BY <1>3, <1>4 DEF Window, later

\* A transaction that waited no longer than MaxWait opens the counter, or finds it
\* open.
LEMMA WindowOpens ==
  ASSUME NEW limit \in Nat, NEW u \in Usages(limit),
         NEW upTo \in [0..MaxClock -> Nat],
         NEW now \in 0..MaxClock, NEW began \in Nat,
         began <= now, now <= began + MaxWait,
         Window(u, upTo, limit, now)
  PROVE  /\ Opened(u, began) \in Usages(limit)
         /\ Window(Opened(u, began), upTo, limit, now)
<1>1. CASE ~(u.start <= began - Minute)
  BY <1>1 DEF Opened
<1>2. CASE u.start <= began - Minute
  <2> DEFINE new == [start |-> began, count |-> 0]
  <2>1. Opened(u, began) = new /\ new \in Usages(limit)
    BY <1>2 DEF Opened, Usages
  <2>2. u.start \in Nat /\ u.count \in 0..limit
    BY DEF Usages
  <2>3. ASSUME NEW t \in 0..now
        PROVE  /\ t >= began + MaxWait => upTo[now] - upTo[t] <= 0
               /\ t >= began - (Minute - MaxWait) => upTo[now] - upTo[t] <= limit
    <3>1. upTo[now] \in Nat /\ upTo[t] \in Nat
      <4>1. t \in 0..MaxClock
        BY Constants
      <4> QED BY <4>1
    <3>2. t >= began + MaxWait => t = now
      BY Constants
    <3>3. t >= began - (Minute - MaxWait) => t >= u.start + MaxWait
      BY <1>2, <2>2, Constants
    <3>4. t >= u.start + MaxWait => upTo[now] - upTo[t] <= u.count
      BY DEF Window
    <3> QED BY <3>1, <3>2, <3>3, <3>4, <2>2
  <2>4. Window(new, upTo, limit, now)
    BY <2>3 DEF Window
  <2> QED BY <2>1, <2>4
<1> QED BY <1>1, <1>2

\* One more is counted.
LEMMA WindowCounts ==
  ASSUME NEW limit \in Nat, NEW u \in Usages(limit), u.count < limit,
         NEW upTo \in [0..MaxClock -> Nat], NEW now \in 0..MaxClock,
         Window(u, upTo, limit, now)
  PROVE  /\ Counted(u) \in Usages(limit)
         /\ Window(Counted(u), [upTo EXCEPT ![now] = @ + 1], limit, now)
<1> DEFINE more == [upTo EXCEPT ![now] = @ + 1]
<1>1. u.start \in Nat /\ u.count \in 0..limit
  BY DEF Usages
<1>2. Counted(u) = [start |-> u.start, count |-> u.count + 1]
  BY DEF Counted, Usages
<1>3. more[now] = upTo[now] + 1 /\ (\A t \in 0..now : t # now => more[t] = upTo[t])
  OBVIOUS
<1>4. ASSUME NEW t \in 0..now
      PROVE  /\ t >= u.start + MaxWait => more[now] - more[t] <= u.count + 1
             /\ t >= u.start - (Minute - MaxWait) =>
                   more[now] - more[t] <= limit + (u.count + 1)
  <2>1. upTo[now] \in Nat /\ upTo[t] \in Nat
    <3>1. t \in 0..MaxClock
      BY Constants
    <3> QED BY <3>1
  <2>2. CASE t = now
    BY <2>1, <2>2, <1>1, <1>3
  <2>3. CASE t # now
    <3>1. /\ t >= u.start + MaxWait => upTo[now] - upTo[t] <= u.count
          /\ t >= u.start - (Minute - MaxWait) => upTo[now] - upTo[t] <= limit + u.count
      BY DEF Window
    <3>2. more[now] - more[t] = (upTo[now] - upTo[t]) + 1
      BY <2>1, <2>3, <1>3
    <3> HIDE DEF more
    <3> QED BY <3>1, <3>2, <2>1, <1>1
  <2> QED BY <2>2, <2>3
<1> HIDE DEF more
<1>5. Window(Counted(u), more, limit, now)
  BY <1>1, <1>2, <1>4 DEF Window
<1>6. Counted(u) \in Usages(limit)
  BY <1>1, <1>2 DEF Usages
<1> QED BY <1>5, <1>6 DEF more

------------------------------------------------------------------------------
(* The invariant, action by action *)

LEMMA ClockFacts ==
  ASSUME TypeOK PROVE clock \in 0..MaxClock /\ clock \in Nat /\ clock >= Minute
BY Constants DEF TypeOK

LEMMA IdleType == IdleRequest \in RequestStates
BY DEF IdleRequest, RequestStates

LEMMA Initial == Init => IInv
<1> SUFFICES ASSUME Init PROVE IInv
  OBVIOUS
<1> USE DEF Init
<1>1. TypeOK
  <2>1. globalUsage \in Usages(GlobalMinuteLimit)
    BY Constants DEF Usages, NoUsage
  <2>2. usage \in [Campaigns -> Usages(CampaignMinuteLimit)]
    BY Constants DEF Usages, NoUsage
  <2> QED BY <2>1, <2>2, IdleType, Constants DEF TypeOK
<1>2. ASSUME NEW r \in Requests PROVE RequestInv(r)
  BY NoneAssumption DEF RequestInv, Holds, At, InTransaction, IdleRequest
<1>3. ASSUME NEW limit \in Nat
      PROVE  Window(NoUsage, [t \in 0..MaxClock |-> 0], limit, clock)
  BY Constants DEF Window, NoUsage
<1>4. CountersInv
  BY <1>3, Constants DEF CountersInv
<1> QED BY <1>1, <1>2, <1>4 DEF IInv

\* The end of a transaction, and of what it holds.
LEMMA Answered ==
  ASSUME TypeOK, \A q \in Requests : RequestInv(q), NEW r \in Requests, Answer(r)
  PROVE  /\ request' \in [Requests -> RequestStates]
         /\ lock' \in Requests \cup {None}
         /\ request'[r] = IdleRequest
         /\ \A q \in Requests : q # r => request'[q] = request[q]
         /\ lock' # r
         /\ \A q \in Requests : q # r => (lock' = q <=> lock = q)
BY IdleType, NoneAssumption DEF Answer, TypeOK

\* A request keeps what it knows if the tables stay, and one that holds no lock
\* knows nothing of them.
LEMMA RequestKept ==
  ASSUME NEW q \in Requests, RequestInv(q), request'[q] = request[q],
         lock' = q <=> lock = q, clock' = clock, UNCHANGED tables
  PROVE  RequestInv(q)'
BY DEF RequestInv, Holds, At, InTransaction, Opened, WithinMinute, HasRoom, tables

LEMMA RequestWaits ==
  ASSUME NEW q \in Requests, RequestInv(q), ~Holds(q), request'[q] = request[q],
         lock' = q <=> lock = q, clock' = clock
  PROVE  RequestInv(q)'
BY DEF RequestInv, Holds, At, InTransaction

\* One that has ended says nothing.
LEMMA RequestEnded ==
  ASSUME NEW r \in Requests, request'[r] = IdleRequest, lock' # r
  PROVE  RequestInv(r)'
BY DEF RequestInv, Holds, At, InTransaction, IdleRequest

LEMMA EndKeeps ==
  ASSUME IInv, NEW r \in Requests, Answer(r), UNCHANGED <<tables, history, clock>>
  PROVE  IInv'
<1>1. TypeOK /\ (\A q \in Requests : RequestInv(q)) /\ CountersInv
  BY DEF IInv
<1>2. TypeOK'
  BY <1>1, Answered DEF TypeOK, tables, history
<1>3. ASSUME NEW q \in Requests PROVE RequestInv(q)'
  <2>1. CASE q = r
    BY <2>1, <1>1, Answered, RequestEnded
  <2>2. CASE q # r
    BY <2>2, <1>1, Answered, RequestKept
  <2> QED BY <2>1, <2>2
<1>4. CountersInv'
  BY <1>1 DEF CountersInv, Window, tables, history
<1> QED BY <1>2, <1>3, <1>4 DEF IInv

LEMMA ArriveKeeps ==
  ASSUME IInv, NEW r \in Requests, NEW c \in Campaigns, NEW p \in People,
         Arrive(r, c, p)
  PROVE  IInv'
<1> DEFINE new == [pc |-> "begin", campaign |-> c, person |-> p, now |-> 0,
                   room |-> FALSE]
<1>1. TypeOK /\ (\A q \in Requests : RequestInv(q)) /\ CountersInv
  BY DEF IInv
<1>2. new \in RequestStates
  BY DEF RequestStates
<1>3. /\ request' \in [Requests -> RequestStates]
      /\ request'[r] = new
      /\ \A q \in Requests : q # r => request'[q] = request[q]
  BY <1>1, <1>2 DEF Arrive, TypeOK, IdleRequest
<1>4. TypeOK'
  BY <1>1, <1>3 DEF TypeOK, Arrive, tables, history
<1>5. ASSUME NEW q \in Requests PROVE RequestInv(q)'
  <2>1. CASE q = r
    <3>1. lock # r
      BY <1>1 DEF RequestInv, Holds, Arrive, At
    <3> QED BY <2>1, <3>1, <1>3 DEF RequestInv, Holds, Arrive, At, InTransaction
  <2>2. CASE q # r
    BY <2>2, <1>1, <1>3, RequestKept DEF Arrive
  <2> QED BY <2>1, <2>2
<1>6. CountersInv'
  BY <1>1 DEF CountersInv, Window, Arrive, tables, history
<1> QED BY <1>4, <1>5, <1>6 DEF IInv

LEMMA BeginKeeps ==
  ASSUME IInv, NEW r \in Requests, Begin(r) PROVE IInv'
<1>1. TypeOK /\ (\A q \in Requests : RequestInv(q)) /\ CountersInv
  BY DEF IInv
<1>2. CASE request[r].campaign \notin campaigns
  <2>1. Answer(r)
    BY <1>2 DEF Begin
  <2> QED BY <2>1, EndKeeps DEF Begin
<1>3. CASE request[r].campaign \in campaigns
  <2> DEFINE new == [request[r] EXCEPT !.pc = "global", !.now = clock]
  <2>1. request' = [request EXCEPT ![r] = new] /\ lock' = lock
    BY <1>3 DEF Begin
  <2>2. new \in RequestStates
    BY <1>1, ClockFacts DEF RequestStates, TypeOK
  <2>3. /\ request' \in [Requests -> RequestStates]
        /\ request'[r] = new
        /\ \A q \in Requests : q # r => request'[q] = request[q]
    BY <1>1, <2>1, <2>2 DEF TypeOK
  <2>4. new.pc = "global" /\ new.now = clock
        /\ new.campaign = request[r].campaign /\ new.person = request[r].person
    BY <1>1 DEF TypeOK, RequestStates
  <2> HIDE DEF new
  <2>5. TypeOK'
    BY <1>1, <2>1, <2>3 DEF TypeOK, Begin, tables, history
  <2>6. ASSUME NEW q \in Requests PROVE RequestInv(q)'
    <3>1. CASE q = r
      <4>1. lock # r /\ request[r].campaign \in Campaigns
            /\ request[r].person \in People
        BY <1>1 DEF RequestInv, Holds, Begin, At
      <4>2. clock' = clock /\ clock <= clock + MaxWait
        BY <1>1, ClockFacts, Constants DEF Begin
      <4> QED BY <3>1, <4>1, <4>2, <2>1, <2>3, <2>4, <1>1, ClockFacts
              DEF RequestInv, Holds, At, InTransaction
    <3>2. CASE q # r
      BY <3>2, <1>1, <2>1, <2>3, RequestKept DEF Begin
    <3> QED BY <3>1, <3>2
  <2>7. CountersInv'
    BY <1>1 DEF CountersInv, Window, Begin, tables, history
  <2> QED BY <2>5, <2>6, <2>7 DEF IInv
<1> QED BY <1>2, <1>3

LEMMA TakeGlobalKeeps ==
  ASSUME IInv, NEW r \in Requests, TakeGlobal(r) PROVE IInv'
<1> DEFINE open == Opened(globalUsage, request[r].now).count < GlobalMinuteLimit
<1>1. TypeOK /\ (\A q \in Requests : RequestInv(q)) /\ CountersInv
  BY DEF IInv
<1>2. CASE ~open
  <2>1. Answer(r)
    BY <1>2 DEF TakeGlobal
  <2> QED BY <2>1, EndKeeps DEF TakeGlobal
<1>3. CASE open
  <2> DEFINE new == [request[r] EXCEPT !.pc = "campaign"]
  <2>1. request' = [request EXCEPT ![r] = new] /\ lock' = r
    BY <1>3 DEF TakeGlobal
  <2>2. new \in RequestStates
    BY <1>1 DEF RequestStates, TypeOK
  <2>3. /\ request' \in [Requests -> RequestStates]
        /\ request'[r] = new
        /\ \A q \in Requests : q # r => request'[q] = request[q]
    BY <1>1, <2>1, <2>2 DEF TypeOK
  <2>4. new.pc = "campaign" /\ new.now = request[r].now
        /\ new.campaign = request[r].campaign /\ new.person = request[r].person
    BY <1>1 DEF TypeOK, RequestStates
  <2> HIDE DEF new
  <2>5. TypeOK'
    BY <1>1, <2>1, <2>3 DEF TypeOK, TakeGlobal, tables, history
  <2>6. ASSUME NEW q \in Requests PROVE RequestInv(q)'
    <3>1. CASE q = r
      <4>1. /\ request[r].campaign \in Campaigns /\ request[r].person \in People
            /\ request[r].now <= clock /\ clock <= request[r].now + MaxWait
        BY <1>1 DEF RequestInv, TakeGlobal, At, InTransaction
      <4>2. clock' = clock /\ globalUsage' = globalUsage
        BY DEF TakeGlobal, tables
      <4> QED BY <3>1, <4>1, <4>2, <2>1, <2>3, <2>4, <1>3
              DEF RequestInv, Holds, At, InTransaction, Opened
    <3>2. CASE q # r
      <4>1. lock # q
        BY NoneAssumption DEF TakeGlobal, Free
      <4> QED BY <3>2, <4>1, <1>1, <2>1, <2>3, RequestKept DEF TakeGlobal
    <3> QED BY <3>1, <3>2
  <2>7. CountersInv'
    BY <1>1 DEF CountersInv, Window, TakeGlobal, tables, history
  <2> QED BY <2>5, <2>6, <2>7 DEF IInv
<1> QED BY <1>2, <1>3

\* What the holder of the lock makes of the counter of all reservations.
LEMMA GlobalOpens ==
  ASSUME IInv, NEW r \in Requests, Holds(r)
  PROVE  LET g == Opened(globalUsage, request[r].now) IN
         /\ g \in Usages(GlobalMinuteLimit) /\ g.count < GlobalMinuteLimit
         /\ Window(g, passedAll, GlobalMinuteLimit, clock)
<1>1. TypeOK /\ RequestInv(r) /\ CountersInv
  BY DEF IInv
<1>2. /\ request[r].now \in Nat /\ request[r].now <= clock
      /\ clock <= request[r].now + MaxWait
      /\ globalUsage \in Usages(GlobalMinuteLimit)
      /\ passedAll \in [0..MaxClock -> Nat]
      /\ Window(globalUsage, passedAll, GlobalMinuteLimit, clock)
  BY <1>1 DEF TypeOK, RequestStates, RequestInv, InTransaction, Holds, CountersInv
<1>3. Opened(globalUsage, request[r].now).count < GlobalMinuteLimit
  BY <1>1 DEF RequestInv
<1> QED BY <1>1, <1>2, <1>3, ClockFacts, Constants, WindowOpens

\* What it makes of the counter of a campaign that is there.
LEMMA CampaignOpens ==
  ASSUME IInv, NEW r \in Requests, Holds(r), request[r].campaign \in campaigns
  PROVE  LET u == Opened(usage[request[r].campaign], request[r].now) IN
         /\ u \in Usages(CampaignMinuteLimit)
         /\ Window(u, passed[request[r].campaign], CampaignMinuteLimit, clock)
<1>1. TypeOK /\ RequestInv(r) /\ CountersInv
  BY DEF IInv
<1>2. PICK c \in campaigns : c = request[r].campaign
  OBVIOUS
<1>3. /\ request[r].now \in Nat /\ request[r].now <= clock
      /\ clock <= request[r].now + MaxWait
  BY <1>1 DEF TypeOK, RequestStates, RequestInv, InTransaction, Holds
<1>4. /\ c \in Campaigns
      /\ usage[c] \in Usages(CampaignMinuteLimit)
      /\ passed[c] \in [0..MaxClock -> Nat]
      /\ Window(usage[c], passed[c], CampaignMinuteLimit, clock)
  BY <1>1 DEF TypeOK, CountersInv
<1> QED BY <1>1, <1>2, <1>3, <1>4, ClockFacts, Constants, WindowOpens

\* A request that ends with the lock leaves the others as they were: they hold
\* none.
LEMMA HolderEnds ==
  ASSUME IInv, NEW r \in Requests, Holds(r), Answer(r), clock' = clock,
         NEW q \in Requests
  PROVE  RequestInv(q)'
<1>1. TypeOK /\ (\A p \in Requests : RequestInv(p))
  BY DEF IInv
<1>2. CASE q = r
  BY <1>1, <1>2, Answered, RequestEnded
<1>3. CASE q # r
  <2>1. lock = r /\ ~Holds(q)
    BY <1>1, <1>3 DEF RequestInv
  <2> QED BY <1>1, <1>3, <2>1, Answered, RequestWaits
<1> QED BY <1>2, <1>3

LEMMA TakeCampaignKeeps ==
  ASSUME IInv, NEW r \in Requests, TakeCampaign(r) PROVE IInv'
<1> DEFINE c == request[r].campaign
           u == Opened(usage[c], request[r].now)
           g == Opened(globalUsage, request[r].now)
<1>1. TypeOK /\ (\A q \in Requests : RequestInv(q)) /\ CountersInv
      /\ At(r, "campaign") /\ Holds(r)
  BY DEF IInv, TakeCampaign, At, Holds
<1>2. UNCHANGED <<campaigns, reserved, history, clock>>
  BY DEF TakeCampaign
<1>3. c \in Campaigns /\ request[r].person \in People
  BY <1>1 DEF RequestInv, At
<1>4. CASE c \in campaigns /\ WithinMinute(u)
  <2> DEFINE new == [request[r] EXCEPT !.pc = "record", !.room = HasRoom(c)]
  <2>1. request' = [request EXCEPT ![r] = new]
        /\ UNCHANGED <<globalUsage, usage, lock>>
    BY <1>4 DEF TakeCampaign
  <2>2. HasRoom(c) \in BOOLEAN
    BY DEF HasRoom
  <2>3. new \in RequestStates
    BY <1>1, <2>2 DEF RequestStates, TypeOK
  <2>4. /\ request' \in [Requests -> RequestStates]
        /\ request'[r] = new
        /\ \A q \in Requests : q # r => request'[q] = request[q]
    BY <1>1, <2>1, <2>3 DEF TypeOK
  <2>5. new.pc = "record" /\ new.now = request[r].now /\ new.room = HasRoom(c)
        /\ new.campaign = request[r].campaign /\ new.person = request[r].person
    BY <1>1 DEF TypeOK, RequestStates
  <2> HIDE DEF new
  <2>6. UNCHANGED tables
    BY <1>2, <2>1 DEF tables
  <2>7. TypeOK'
    BY <1>1, <1>2, <2>1, <2>4 DEF TypeOK, history
  <2>8. ASSUME NEW q \in Requests PROVE RequestInv(q)'
    <3>1. CASE q = r
      BY <3>1, <1>1, <1>2, <1>3, <1>4, <2>1, <2>4, <2>5
         DEF RequestInv, Holds, At, InTransaction, Opened, WithinMinute, HasRoom
    <3>2. CASE q # r
      BY <3>2, <1>1, <1>2, <2>1, <2>4, <2>6, RequestKept
    <3> QED BY <3>1, <3>2
  <2>9. CountersInv'
    BY <1>1, <1>2, <2>1 DEF CountersInv, Window, history
  <2> QED BY <2>7, <2>8, <2>9 DEF IInv
<1>5. CASE ~(c \in campaigns /\ WithinMinute(u))
  <2>1. /\ Answer(r) /\ globalUsage' = g
        /\ usage' = IF c \in campaigns THEN [usage EXCEPT ![c] = u] ELSE usage
    BY <1>5 DEF TakeCampaign
  <2>2. /\ g \in Usages(GlobalMinuteLimit)
        /\ Window(g, passedAll, GlobalMinuteLimit, clock)
    BY <1>1, GlobalOpens
  <2>3. c \in campaigns => /\ u \in Usages(CampaignMinuteLimit)
                           /\ Window(u, passed[c], CampaignMinuteLimit, clock)
    BY <1>1, CampaignOpens
  <2> HIDE DEF c, u, g
  <2>4. usage' \in [Campaigns -> Usages(CampaignMinuteLimit)]
    BY <1>1, <2>1, <2>3 DEF TypeOK
  <2>5. TypeOK'
    BY <1>1, <1>2, <2>1, <2>2, <2>4, Answered DEF TypeOK, history
  <2>6. \A d \in campaigns : Window(usage'[d], passed[d], CampaignMinuteLimit, clock)
    BY <1>1, <2>1, <2>3 DEF TypeOK, CountersInv
  <2>7. CountersInv'
    BY <1>2, <2>1, <2>2, <2>6 DEF CountersInv, Window, history
  <2>8. \A q \in Requests : RequestInv(q)'
    BY <1>1, <1>2, <2>1, HolderEnds
  <2> QED BY <2>5, <2>7, <2>8 DEF IInv
<1> QED BY <1>4, <1>5

LEMMA RecordKeeps ==
  ASSUME IInv, NEW r \in Requests, Record(r) PROVE IInv'
<1> DEFINE c == request[r].campaign
           u == Opened(usage[c], request[r].now)
           g == Opened(globalUsage, request[r].now)
           more == [passed[c] EXCEPT ![clock] = @ + 1]
<1>1. TypeOK /\ (\A q \in Requests : RequestInv(q)) /\ CountersInv
      /\ At(r, "record") /\ Holds(r)
  BY DEF IInv, Record, At, Holds
<1>2. c \in Campaigns /\ c \in campaigns /\ request[r].person \in People
      /\ WithinMinute(u)
  BY <1>1 DEF RequestInv, At
<1>3. /\ Answer(r) /\ UNCHANGED <<campaigns, clock>>
      /\ globalUsage' = Counted(g)
      /\ usage' = [usage EXCEPT ![c] = Counted(u)]
      /\ passedAll' = [passedAll EXCEPT ![clock] = @ + 1]
      /\ passed' = [passed EXCEPT ![c] = more]
  BY DEF Record
<1>4. reserved' \in [Campaigns -> SUBSET People]
  BY <1>1, <1>2 DEF Record, TypeOK
<1>5. /\ passedAll \in [0..MaxClock -> Nat] /\ passed[c] \in [0..MaxClock -> Nat]
      /\ clock \in 0..MaxClock
  BY <1>1, <1>2, ClockFacts DEF TypeOK
<1>6. /\ Counted(g) \in Usages(GlobalMinuteLimit)
      /\ Window(Counted(g), passedAll', GlobalMinuteLimit, clock)
      /\ passedAll' \in [0..MaxClock -> Nat]
  <2>1. /\ g \in Usages(GlobalMinuteLimit) /\ g.count < GlobalMinuteLimit
        /\ Window(g, passedAll, GlobalMinuteLimit, clock)
    BY <1>1, GlobalOpens
  <2> HIDE DEF g
  <2> QED BY <1>3, <1>5, <2>1, Constants, WindowCounts, OneMore
<1>7. /\ Counted(u) \in Usages(CampaignMinuteLimit)
      /\ Window(Counted(u), more, CampaignMinuteLimit, clock)
      /\ more \in [0..MaxClock -> Nat]
  <2>1. /\ u \in Usages(CampaignMinuteLimit) /\ u.count < CampaignMinuteLimit
        /\ Window(u, passed[c], CampaignMinuteLimit, clock)
    BY <1>1, <1>2, CampaignOpens DEF WithinMinute
  <2> HIDE DEF u, c
  <2> QED BY <1>5, <2>1, Constants, WindowCounts, OneMore
<1> HIDE DEF c, u, g, more
<1>8. TypeOK'
  <2>1. usage' \in [Campaigns -> Usages(CampaignMinuteLimit)]
        /\ passed' \in [Campaigns -> [0..MaxClock -> Nat]]
    BY <1>1, <1>2, <1>3, <1>7 DEF TypeOK
  <2> QED BY <1>1, <1>3, <1>4, <1>6, <2>1, Answered DEF TypeOK
<1>9. \A d \in campaigns :
         Window(usage'[d], passed'[d], CampaignMinuteLimit, clock)
  BY <1>1, <1>2, <1>3, <1>7 DEF TypeOK, CountersInv
<1>10. CountersInv'
  BY <1>3, <1>6, <1>9 DEF CountersInv, Window
<1>11. \A q \in Requests : RequestInv(q)'
  BY <1>1, <1>3, HolderEnds
<1> QED BY <1>8, <1>10, <1>11 DEF IInv

LEMMA DeleteKeeps ==
  ASSUME IInv, NEW c \in Campaigns, Delete(c) PROVE IInv'
<1>1. TypeOK /\ (\A q \in Requests : RequestInv(q)) /\ CountersInv
  BY DEF IInv
<1>2. NoUsage \in Usages(CampaignMinuteLimit)
  BY Constants DEF NoUsage, Usages
<1>3. TypeOK'
  BY <1>1, <1>2 DEF TypeOK, Delete, history
\* The campaign of a request that holds its row is not deleted.
<1>4. ASSUME NEW q \in Requests PROVE RequestInv(q)'
  <2>1. UNCHANGED <<globalUsage, lock, request, clock>>
    BY DEF Delete
  <2>2. At(q, "record") =>
           /\ request[q].campaign \in campaigns /\ request[q].campaign # c
           /\ request[q].campaign \in Campaigns
    BY <1>1 DEF RequestInv, Delete, Locked, At
  <2>3. At(q, "record") =>
           /\ request[q].campaign \in campaigns'
           /\ usage'[request[q].campaign] = usage[request[q].campaign]
           /\ reserved'[request[q].campaign] = reserved[request[q].campaign]
    BY <1>1, <2>2 DEF Delete, TypeOK
  <2> QED BY <1>1, <2>1, <2>3 DEF RequestInv, Holds, At, InTransaction, Opened,
                                  WithinMinute, HasRoom
<1>5. ASSUME NEW d \in campaigns' PROVE usage'[d] = usage[d] /\ d \in campaigns
  BY <1>1 DEF Delete, TypeOK
<1>6. CountersInv'
  BY <1>1, <1>5 DEF CountersInv, Window, Delete, history
<1> QED BY <1>3, <1>4, <1>6 DEF IInv

LEMMA TickKeeps ==
  ASSUME IInv, Tick PROVE IInv'
<1>1. TypeOK /\ (\A q \in Requests : RequestInv(q)) /\ CountersInv
  BY DEF IInv
<1>2. clock < MaxClock /\ clock' = clock + 1 /\ clock' \in 0..MaxClock
  BY <1>1, ClockFacts, Constants DEF Tick
<1>3. TypeOK'
  <2>1. passedAll' \in [0..MaxClock -> Nat]
    BY <1>1, <1>2, ClockFacts DEF TypeOK, Tick
  <2>2. passed' \in [Campaigns -> [0..MaxClock -> Nat]]
    BY <1>1, <1>2, ClockFacts DEF TypeOK, Tick
  <2>3. clock' \in Minute..MaxClock
    BY <1>1, <1>2, ClockFacts, Constants
  <2> QED BY <1>1, <2>1, <2>2, <2>3 DEF TypeOK, Tick, tables
<1>4. ASSUME NEW q \in Requests PROVE RequestInv(q)'
  <2>1. InTransaction(q) => /\ request[q].now <= clock + 1
                            /\ clock + 1 <= request[q].now + MaxWait
    <3>1. request[q].now \in Nat
      BY <1>1 DEF TypeOK, RequestStates
    <3>2. InTransaction(q) => request[q].now <= clock /\ clock < request[q].now + MaxWait
      BY <1>1 DEF RequestInv, InTransaction, Tick
    <3> QED BY <3>1, <3>2, <1>1, ClockFacts, Constants
  <2>2. UNCHANGED <<campaigns, reserved, globalUsage, usage, lock, request>>
    BY DEF Tick, tables
  <2> QED BY <1>1, <1>2, <2>1, <2>2 DEF RequestInv, Holds, At, InTransaction, Opened,
                                        WithinMinute, HasRoom
<1>5. Window(globalUsage, passedAll, GlobalMinuteLimit, clock)'
  <2>1. Window(globalUsage, passedAll', GlobalMinuteLimit, clock + 1)
    BY <1>1, <1>2, ClockFacts, Constants, WindowTicks
       DEF TypeOK, CountersInv, Tick
  <2> QED BY <2>1, <1>2 DEF Window, Tick, tables
<1>6. ASSUME NEW c \in campaigns'
      PROVE  Window(usage'[c], passed'[c], CampaignMinuteLimit, clock')
  <2>1. c \in campaigns /\ c \in Campaigns /\ usage' = usage
        /\ passed'[c] = [passed[c] EXCEPT ![clock + 1] = passed[c][clock]]
    BY <1>1 DEF Tick, tables, TypeOK
  <2>2. /\ usage[c] \in Usages(CampaignMinuteLimit)
        /\ passed[c] \in [0..MaxClock -> Nat]
        /\ Window(usage[c], passed[c], CampaignMinuteLimit, clock)
    BY <1>1, <2>1 DEF TypeOK, CountersInv
  <2>3. Window(usage[c], [passed[c] EXCEPT ![clock + 1] = passed[c][clock]],
               CampaignMinuteLimit, clock + 1)
    BY <1>1, <1>2, <2>2, ClockFacts, Constants, WindowTicks
  <2> QED BY <2>1, <2>3, <1>2
<1>7. CountersInv'
  BY <1>5, <1>6 DEF CountersInv, Window
<1> QED BY <1>3, <1>4, <1>7 DEF IInv

LEMMA Invariance == Spec => []IInv
<1>1. Init => IInv
  BY Initial
<1>2. IInv /\ [Next]_vars => IInv'
  <2> SUFFICES ASSUME IInv, [Next]_vars PROVE IInv'
    OBVIOUS
  <2>1. CASE UNCHANGED vars
    <3>1. UNCHANGED <<campaigns, reserved, globalUsage, usage, passedAll, passed, lock,
                      request, clock>>
      BY <2>1 DEF vars, tables, history
    <3> QED BY <3>1 DEF IInv, TypeOK, RequestInv, CountersInv, Window, At, Holds,
                        InTransaction, Opened, WithinMinute, HasRoom
  <2>2. ASSUME NEW r \in Requests, NEW c \in Campaigns, NEW p \in People,
               Arrive(r, c, p)
        PROVE  IInv'
    BY <2>2, ArriveKeeps
  <2>3. ASSUME NEW r \in Requests, Begin(r) PROVE IInv'
    BY <2>3, BeginKeeps
  <2>4. ASSUME NEW r \in Requests, TakeGlobal(r) PROVE IInv'
    BY <2>4, TakeGlobalKeeps
  <2>5. ASSUME NEW r \in Requests, TakeCampaign(r) \/ Record(r) PROVE IInv'
    BY <2>5, TakeCampaignKeeps, RecordKeeps
  <2>6. ASSUME NEW r \in Requests, Abort(r) PROVE IInv'
    BY <2>6, EndKeeps DEF Abort
  <2>7. ASSUME NEW c \in Campaigns, Delete(c) PROVE IInv'
    BY <2>7, DeleteKeeps
  <2>8. CASE Tick
    BY <2>8, TickKeeps
  <2> QED BY <2>1, <2>2, <2>3, <2>4, <2>5, <2>6, <2>7, <2>8 DEF Next, RequestStep
<1> QED BY <1>1, <1>2, PTL DEF Spec

------------------------------------------------------------------------------
(* The theorems *)

\* Every table and every request is well formed, and no counter of a minute ever
\* exceeds its limit, whatever requests wait for one another
\* (record_campaign_reservation).
THEOREM CountersTyped == Spec => []TypeOK
<1>1. IInv => TypeOK
  BY DEF IInv
<1> QED BY <1>1, Invariance, PTL

\* What a counter knows bounds what was counted in the last ticks of a minute.
LEMMA WindowPace ==
  ASSUME NEW limit \in Nat, NEW u \in Usages(limit),
         NEW upTo \in [0..MaxClock -> Nat],
         clock \in 0..MaxClock, clock >= Minute, Window(u, upTo, limit, clock)
  PROVE  Pace(upTo) <= 2 * limit
<1> DEFINE t == clock - (Minute - MaxWait)
<1>1. t \in 0..clock /\ t \in 0..MaxClock
  BY Constants
<1>2. u.start \in Nat /\ u.count \in 0..limit
  BY DEF Usages
<1>3. t >= u.start - (Minute - MaxWait)
  BY <1>2, Constants DEF Window
<1>4. upTo[clock] - upTo[t] <= limit + u.count
  <2> HIDE DEF t
  <2> QED BY <1>1, <1>3 DEF Window
<1>5. upTo[clock] \in Nat /\ upTo[t] \in Nat
  <2> HIDE DEF t
  <2> QED BY <1>1
<1>6. Pace(upTo) = upTo[clock] - upTo[t]
  BY DEF Pace
<1> HIDE DEF t
<1> QED BY <1>2, <1>4, <1>5, <1>6

\* No minute less the longest wait sees more than twice the quota of all
\* reservations (the lock of reservation_global_minute_usage).
THEOREM GlobalPaceKept == Spec => []GlobalPace
<1>1. IInv => GlobalPace
  <2> SUFFICES ASSUME IInv PROVE GlobalPace
    OBVIOUS
  <2>1. /\ clock \in 0..MaxClock /\ clock >= Minute
        /\ globalUsage \in Usages(GlobalMinuteLimit)
        /\ passedAll \in [0..MaxClock -> Nat]
        /\ Window(globalUsage, passedAll, GlobalMinuteLimit, clock)
    BY ClockFacts DEF IInv, TypeOK, CountersInv
  <2> QED BY <2>1, Constants, WindowPace DEF GlobalPace
<1> QED BY <1>1, Invariance, PTL

\* Nor more than twice the quota of a campaign, as long as the campaign is there
\* (reservation_campaign_minute_usage).
THEOREM CampaignPaceKept == Spec => []CampaignPace
<1>1. IInv => CampaignPace
  <2> SUFFICES ASSUME IInv, NEW c \in campaigns
               PROVE  Pace(passed[c]) <= 2 * CampaignMinuteLimit
    BY DEF CampaignPace
  <2>1. /\ clock \in 0..MaxClock /\ clock >= Minute
        /\ usage[c] \in Usages(CampaignMinuteLimit)
        /\ passed[c] \in [0..MaxClock -> Nat]
        /\ Window(usage[c], passed[c], CampaignMinuteLimit, clock)
    BY ClockFacts DEF IInv, TypeOK, CountersInv
  <2> QED BY <2>1, Constants, WindowPace
<1> QED BY <1>1, Invariance, PTL

\* The reservations of a campaign are finitely many, and within the total.
Total == \A c \in Campaigns :
            IsFiniteSet(reserved[c]) /\ Cardinality(reserved[c]) <= TotalLimit

LEMMA RecordKeepsTotal ==
  ASSUME IInv, Total, NEW r \in Requests, Record(r) PROVE Total'
<1> DEFINE c == request[r].campaign
           more == reserved[c] \cup {request[r].person}
<1>1. c \in Campaigns /\ reserved \in [Campaigns -> SUBSET People]
  BY DEF IInv, TypeOK, RequestInv, Record, At
<1>2. CASE reserved' = reserved
  BY <1>2 DEF Total
<1>3. CASE reserved' # reserved
  <2>1. HasRoom(c) /\ reserved' = [reserved EXCEPT ![c] = more]
    BY <1>3 DEF Record, IInv, RequestInv
  <2>2. IsFiniteSet(reserved[c]) /\ Cardinality(reserved[c]) \in Nat
    BY <1>1, FS_CardinalityType DEF Total
  <2>3. IsFiniteSet(more) /\ Cardinality(more) <= TotalLimit
    BY <2>1, <2>2, Constants, FS_AddElement DEF HasRoom
  <2> HIDE DEF c, more
  <2>4. \A d \in Campaigns : reserved'[d] = IF d = c THEN more ELSE reserved[d]
    BY <1>1, <2>1
  <2> QED BY <2>3, <2>4 DEF Total
<1> QED BY <1>2, <1>3

\* No parallel reservations exceed the total of a campaign: the lock held from the
\* count to the insert keeps the count true.
THEOREM TotalOfCampaign == Spec => []TotalKept
<1>1. Init => Total
  BY FS_EmptySet, Constants DEF Init, Total
<1>2. IInv /\ Total /\ [Next]_vars => Total'
  <2> SUFFICES ASSUME IInv, Total, [Next]_vars PROVE Total'
    OBVIOUS
  <2>1. ASSUME NEW r \in Requests, Record(r) PROVE Total'
    BY <2>1, RecordKeepsTotal
  <2>2. ASSUME NEW c \in Campaigns, Delete(c) PROVE Total'
    <3>1. reserved \in [Campaigns -> SUBSET People]
      BY DEF IInv, TypeOK
    <3>2. \A d \in Campaigns : reserved'[d] = IF d = c THEN {} ELSE reserved[d]
      BY <2>2, <3>1 DEF Delete
    <3> QED BY <3>2, FS_EmptySet, Constants DEF Total
  <2>3. CASE UNCHANGED reserved
    BY <2>3 DEF Total
  <2> QED BY <2>1, <2>2, <2>3
          DEF Next, RequestStep, Arrive, Begin, TakeGlobal, TakeCampaign, Abort, Tick, vars, tables
<1>3. Total => TotalKept
  BY DEF Total, TotalKept
<1> QED BY <1>1, <1>2, <1>3, Invariance, PTL DEF Spec
==============================================================================
