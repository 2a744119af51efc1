# Market Valley in TLA+

Market Valley takes an idea from its owner, writes campaign copy with a paid
model, makes a paused carousel ad in Meta, activates it for a window, collects
its figures, pauses it and closes the campaign, with no person in the loop. What
makes this hard is that the state is spread over Postgres rows, Meta objects,
browser tabs, cookies, containers and worker processes that can stop anywhere,
and that the effects outside Postgres cost money and cannot be rolled back. This
directory models that program, checks it with TLC on small instances, and proves
the central facts with TLAPS for instances of every size.

## 1. Inventory

Paths are relative to the repository.

| Component | Code | State it keeps | Operations | Talks to |
|---|---|---|---|---|
| Campaign row | `supabase/migrations/202608260006_campaign_lifecycle.sql`, `lib/lifecycle/campaignLifecycleStore.ts` | `campaigns`: status, `retry_from_status`, two attempt counters, window, `next_attempt_at`, processing token and lease | claim, renew, transition | called by the processor |
| Lifecycle processor | `lib/lifecycle/campaignLifecycleProcessor.ts`, `app/api/internal/lifecycle/route.ts`, worker in `deploy/compose.production.yml` | a local copy of the claimed row; the loop's own timer | the five stages, the catch block, the batch | the row, the generator, the draft service, the run lifecycle |
| Meta run | `lib/meta/metaAdRun.ts`, `lib/meta/metaRunLifecycle.ts`, migration 0005 | `meta_ad_runs`, `meta_insight_snapshots`; the status of three Meta objects | register, activate and its undo, pause, poll, collect | Graph API |
| Draft operation ledger | `lib/meta/pausedCarouselDraftService.ts`, `lib/meta/supabaseMetaOperationLedger.ts`, migrations 0003, 0004, 0010 | `meta_ad_operations`: status, nine checkpoints, attempting and reconciliation step, lease | acquire, begin, checkpoint, reconcile, complete, release, resolve | Graph API, the operator |
| Meta settings | `lib/meta/metaConfig.ts`, `lib/meta/campaignDraftInput.ts`, `lib/meta/graphMetaAdsProvider.ts` | the environment of each process | readiness of a draft, authorization of an activation | replaced by deployments |
| Campaign deletion | `lib/meta/campaignDeletion.ts`, migration 0008, `DELETE` in `app/api/campaigns/route.ts` | none | check of Meta, deleting statement | all rows of a campaign |
| Campaign repository | `lib/supabase/campaignRepository.ts` | `campaigns` | submit, read, delete | the owner's requests |
| Wizard | `components/campaign-wizard.tsx`, `app/api/campaigns/route.ts` | the idea, the last attempt and its draft id | press, answer, edit, leave | the repository |
| Reservations | `components/renderers/public-landing.tsx`, `app/api/reservations/route.ts`, migrations 0001, 0002, `lib/security` | `campaign_reservations`, the counters of the rate limits, the form | token, submit, verify, record | public requests, Turnstile |
| Visits and analytics | `app/api/analytics/visits/route.ts`, `lib/analytics`, `lib/meta/metaAdRun.ts` | `campaign_daily_visitors`, `meta_insight_snapshots` | count, store a snapshot, report | public requests, Meta |
| Generator | `lib/ai`, `lib/contracts/campaign.ts` | none | one paid call, repairs, safety check, schema | Anthropic |
| Authentication | `lib/auth`, `lib/supabase/proxy.ts`, `proxy.ts`, `components/login-gate.tsx` | session, continuation cookies | login, callback, continuation, logout | Supabase Auth |
| Release scripts | `deploy/remote-release.sh` and its callers | release directories, image tags, containers, Caddyfile, `current`, `previous-release` | deploy, rollback, prune | Docker |
| The rest | list, progress and report pages, card renderer, demo repository, infrastructure, scripts | none that outlives a request | | |

### Where it is hard, and what must hold

- **Lease of the row.** The request that submits a campaign and the worker loop
  claim rows at the same time; a worker may be slower than its lease. One worker
  at a time must act (`OneActor`), and if two do, no stage may be skipped, redone
  or revived (`FollowsStageOrder`).
- **Retries.** The stage that failed, two counters and the budgets are kept in the
  row over crashes. A retry must be of the stage that failed, and resume there
  (`RetryResumesWhereItStopped`), paid calls are bounded (`GenerationBound`), and
  every campaign ends (`Settles`).
- **The queue.** The oldest due campaign of all owners is claimed first. A row
  that does not parse, or a batch that outlives its caller, must not hold up the
  rest for ever (`HealthyCampaignsSettle`), nor for long (`HoldUpIsBounded`).
- **Meta and its record.** Activation and pause are several calls, any of which
  may fail half-way or go through with the response lost. A run recorded as
  paused is quiet (`PausedRunIsQuiet`), a completed campaign is settled
  (`CompletedIsSettled`, `FinalAfterSettlement`).
- **The draft.** A write that costs money may go through and its checkpoint be
  lost. It must not be repeated (`AtMostOnce`), no object may be lost sight of
  (`LedgerMatchesMeta`), and what is built on an object uses the recorded one
  (`BuiltOnCheckpoints`).
- **Settings that change.** A draft is made in several passes and activated hours
  later, each pass under the settings deployed then. Its objects must belong
  together (`DraftIsOfOnePiece`), the run must name what was built
  (`RunRecordsWhatWasBuilt`), and only an acknowledged account may spend
  (`ActiveAccountWasAcknowledged`).
- **Repairs of generated copy** change the text the checks are about: what is
  shown must be grounded (`StoredCopyIsGrounded`), a flaw that is repaired must
  not cost the answer (`RepairedFlawsDoNotReject`), and no repair may break the
  stored schema (`OnlyAssumptionsFailLate`).
- **Figures** are asked for, answered, stored and shown at different times, Meta
  shows them late and counts by days of its own. The final ones must not depend
  on what was retried (`FinalCountsRun`, `CompletedShowsFinal`,
  `ReportNeverShrinks`).
- **Retried submissions.** Answers are lost, rows are inserted by the slower
  request, pages are left (`PressingAgainIsOneCampaign`,
  `ProgressIsOfTheIdeaShown`, `PressIsAnswered`).
- **Reservations** come in parallel, with one-use tokens and lost answers. Quotas
  and totals hold whoever waits for whom (`GlobalPace`, `CampaignPace`,
  `TotalKept`), and the visitor is told the truth, in the end (`ToldIsStored`,
  `OneCheckEach`, `VisitorIsTold`).
- **Signing in** crosses four hosts and two tabs with shared cookies (`WayIsKept`,
  `FailureIsTold`, `AskedOnlyWithoutSession`).
- **Releases** keep state in six places and may be killed between any two steps
  (`CurrentIsDeployable`, `SettledServesCurrent`, `FreshRollbackTarget`).
- **Deletion** checks Meta in one step and deletes in another (`KeepsPromise`).

`PROJECT.json` lists the hazards at their lines.

## 2. Modules

    CampaignRow   MetaRun                     PausedDraft
           \       /                              ^ implements
        CampaignLifecycle --> CampaignPromise   MetaOperationLedger
         |         implements                     |          |
         |                                        |   MetaOperationProofs
         +-- MCCampaignLifecycle          MCMetaOperationLedger
         +-- CampaignLifecycleProofs

    LifecycleQueue  <- MC  \                MetaDraft          <- MC, Proofs
    IdeaIntake      <- MC   \               AdReport           <- MC, Proofs
    SignIn          <- MC   /  ClientProofs ReservationIntake  <- MC, Proofs
    PublicLanding   <- MC  /                Releases           <- MC, Proofs
                                            CampaignCopy       <- MC, Proofs

| Module | What it is |
|---|---|
| `CampaignRow` | The row and the three RPCs. Each RPC is one SQL statement, so it is a guard and a function from row to row. The back-off is a flag `due`, the lease one of none, live, expired. |
| `MetaRun` | The run record, the three objects (campaign, ad set, ad) and when Meta delivers. |
| `CampaignLifecycle` | Workers, row, run, operation, objects, owner, clock. One action per call a worker makes. |
| `CampaignPromise` | The stages in their order and whether the ad is delivered: what the lifecycle implements. |
| `LifecycleQueue` | Several campaigns, the batches that claim them and the container that calls the batches. |
| `MetaOperationLedger` | The ledger in full: sessions, every write, late writes, the operator. |
| `PausedDraft` | Objects made in order and once, and the draft closed at the end: what the ledger implements. |
| `MetaDraft` | One draft across passes and deployments that change the settings: descriptor, objects, run, authorization. |
| `AdReport` | Insights from Meta through the snapshots to the report. |
| `CampaignCopy` | An answer of the model through repairs, safety check and schemas. |
| `IdeaIntake` | The wizard, `POST /api/campaigns` and `createSubmission`. |
| `ReservationIntake` | Requests that run the transaction of a reservation, the counters of both quotas, the deletion of a campaign. |
| `PublicLanding` | The public page and the route around that transaction: token, form, check, answers; visits. |
| `SignIn` | Tabs, cookies, session, gates, the login page, Google and the callback. |
| `Releases` | Deploy, rollback and the switch they share, step by step. |
| `MC...` | Model values, sets and symmetry for TLC. |
| `...Proofs` | The theorems, for each component in a module of its own; those of the four that call the server and wait (`IdeaIntake`, `PublicLanding`, `SignIn`, `LifecycleQueue`) are together in `ClientProofs`, which extends all four: they share no variable, and names every module has (`Init`, `Spec`, the tabs) have a prefix or a word of their own in three of them. |

The modules meet where one abstracts the other: `CampaignLifecycle` takes the
draft in two checkpoints and one stage of copy, `MetaOperationLedger` and
`CampaignCopy` have them in full; `LifecycleQueue` counts the runs of a campaign
and leaves their content to `CampaignLifecycle`; `PublicLanding` stores a
reservation in one step, `ReservationIntake` has the transaction; `AdReport`
keeps of the lifecycle the lease, the stage and the time of the pause.

### How the code maps to `CampaignLifecycle`

A worker is `worker[w]`: its `pc` is the call it makes next, the rest is what
`processClaimedCampaign` holds in local variables across awaits: the stage, the
attempts the renewal returned, the window, its time, the run it read (`run` may
be stale, and the model keeps the stale copy), the step of a loop over objects.
`Claim`, `Renew` and `Commit` are the three RPCs. `Generate`, `Prepare`,
`AcquireOperation`, `BeginOrComplete`, `CreateObject` and `RegisterRun` are the
first two stages; `Ready`, `Activate`, `Undo*`, `Poll`, `Confirm`, `CheckDelivery`,
`Collect` and `Pause*` the other three; `Catch` is the catch block. Every call
may go wrong and then may or may not have taken effect, which is what a lost
response is.

- *Token.* A claim draws a fresh uuid. A process has one claim at a time and a
  later claim replaces the token, so the last claiming worker stands for it.
- *Time.* The clock ticks in units longer than every back-off. `next_attempt_at`
  and leases end by actions of their own (`BecomeDue`, `LeaseExpires`), at any
  moment. `BecomeDue` may come before the real back-off has passed: a superset of
  the real behaviours.
- *The draft operation* is taken in two checkpoints here, the ad set (which has
  the schedule) and the rest. The lifecycle never calls resolve, so the operator
  is in the ledger's module.
- *A deleted campaign* leaves its Meta objects where they are; the foreign keys
  cascade to run, operation and snapshots.

### `LifecycleQueue`

Campaigns are numbered by `created_at`. `left[c]` is how many runs a campaign
still needs, `wait[c]` and `lease[c]` are minutes left, so that the clock needs no
bound. A batch (`batch[b]`) claims the oldest due row, works on it and goes on
until nothing is due or the step limit is reached. A row in `Broken` is leased by
the statement and then fails to parse, which ends the batch with the lease in
place. The container gives up on a call after its own time-out, but the server
may go on with the batch: so several may run at once.

### `MetaOperationLedger`

A session is one call of `create`. Its `pc` names the RPC or the write that comes
next, `read` is the record of the last response, from which `create` decides
what is left to do. `Transition` is the common frame of the RPC: carried out,
refused, or gone wrong. `Create` is the external write and needs no lease. A
write that timed out stays in `late` and may be carried out at any later moment
(`Settle`). `made[k]` counts the objects that step k has made in Meta. The
operator (`Resolve`) acts when no write of the step can arrive any more
(`InFlight`): the RPC cannot know, so this is an assumption about a person, and it
is needed. Nothing retries the campaign after the operator, so a session of the
module may start at any time and no liveness is stated. A fingerprint that does
not match is a refused call and leaves no trace.

### `MetaDraft`

A pass of a worker reads the environment of its own process (`pass[w].env`), which
a deployment (`Deploy`) may already have replaced. PREPARING checks the readiness
of the settings, acquires the operation under the descriptor they give (account,
budget, site), and makes the missing steps; a pass with another descriptor is
refused by the fingerprint. AWAITING_ACTIVATION compares account and budget with
the acknowledgement and activates. `built` is what each object was made with,
`granted` what the settings acknowledged at the activation.

### `AdReport`

A worker in COLLECTING or FINALIZING computes the period of a request, gets an
answer (`shown`: the hours Meta shows at that moment), inserts it, and commits its
stage. The report reads the snapshot with the newest `fetched_at`. A figure is the
set of hours it counts. Under `Stalls` a step may outlive its lease.

The code never reads the zone of the ad account: `since` and `until` are UTC
dates, and Meta reads them in that zone (`window.zone`, any number of hours ahead
of UTC or behind it). `AskedOfRun` says what this leaves of a run: without the
hours after the account's midnight when the account is ahead and the run ends
before UTC's, without those before its first midnight when it is behind.
`FinalCountsRun` says that final figures count these hours and no others, less
those that Meta shows after the wait (`ShownInTime`); the wait may be as short as
the setting allows. `FinalCountsWholeRun` (section 4) asks for all hours.

### `CampaignCopy`

A text is a sequence of words; rules of the code that look for patterns are sets
of words and of pairs of neighbours. `PublicCopy` is the repairs in the code's
order: channels replaced, texts cut, then ungrounded tags and questions; the
safety check is on the result, the schema of the spec after it. Fields under the
same rules are represented by one. Three lists are stored and not shown, and
`publicCopyGroups` leaves them out: `removed` has a repair of its own, while
`visualPrompts` and `claimsToReview` go through the replacement of channels and
the cut only (`anthropicCampaignGenerator.ts:583`, `:586`). So
`StoredCopyIsGrounded` says of the texts that are shown (`PublicTexts`) that they
have no ungrounded term and no claim, and of the others (`HiddenTexts`) that they
name no ungrounded channel; what else stands in those two lists is checked by
nothing. In this repository only scripts and tests read them. The environment of the call (time-outs,
billing) and the retries of the lifecycle are around it. `Words` is whatever a
text may be made of. `Only` and `Once` are `filter` and `new Set`, `Replaced` the
replacement of channels word by word (`Said`, `Put`), `Joined` the removal of
white space from a tag. The `ASSUME`s say what the code's own constants satisfy: the
replacement for a channel is none, the schema asks for three questions and there
are three of the server's own, which differ and name nothing of the lists.

### `IdeaIntake`

A tab (`wizard[t]`) holds the idea, the last attempt and the step it shows. A
request (`post[r]`) goes through lookup, insert and second lookup; its answer arrives, is lost, or comes
when the wizard has been left or opened again. A program of the same account uses
the same route with a draft it knows. Row level security hides other accounts, so
the table is that of one.

### `ReservationIntake`

A request is `request[r]`; its `pc` is what the transaction
`record_campaign_reservation` does next. `Begin` takes the transaction's time
(`v_now`) and looks at the campaign, `TakeGlobal` waits for the row of the counter
of all reservations, which stays locked (`lock`) to the end. `TakeCampaign` locks
the row of the campaign (`Locked`) and reads under the locks what decides: the
minute of the campaign and the number of its reservations (`room`). `Record` has
the writes, which others see when it commits. That the number is still true
then is what the locks are for: without them (`Free_Read`) TLC finds two requests
that count the same number and insert one each. Time is counted in ticks, and
`passedAll` and `passed` remember how many requests had been counted by the end
of each. A refused request that had opened a minute leaves it open.

### `PublicLanding`

The widget issues tokens, resets and expires; the form keeps its email editable
while it waits; the server verifies the token, which spends it, and stores the
reservation or finds it stored. `form[t]` is what a tab shows, `asked[r]` a request
from its arrival to its answer. Answers and tokens are lost, Siteverify and the
database fail, the page is left and opened again, the campaign is deleted.

### `SignIn`

A tab is at a page, at the login page, at Google or on its way. `mode` is the
setting of `resolveAuthMode`, `kept` the continuation cookies, one for each flow,
`session` the shared session. Every redirect of gate, handlers and proxy is an
action. Sessions expire and are revoked, the service fails and recovers, the user
denies, reloads, goes back and signs out.

### `Releases`

`op` is the operation that holds the lock and the step it is at. A step succeeds
or fails; a failure runs the script's own rollback, each part of which may fail as
well; a kill drops the lock and leaves everything where it is; a reboot restarts
the containers. A build is named by the operation that made it, since building a
release again moves its tag.

## 3. Runs

| Run | Question | Instance | Distinct states |
|---|---|---|---|
| `honoured` | While leases outlive steps: does one worker act, does Meta agree with the run, is `CampaignPromise` implemented, does every campaign end? | 2 workers, 3 faults, 9 ticks, fair | 1,277,000 |
| `slow` | What is left when a lease ends under a running worker: the order of stages, whether a retry is of the stage that failed, the bound on paid calls | 2 workers, 2 faults, 9 ticks | 1,613,000 |
| `queue_progress` | Do rows that do not parse, lost transitions and calls that were given up hold up the other campaigns? | 4 campaigns, 2 of them broken, 2 batches, fair | 25,000 |
| `once` | The ledger's safety and `PausedDraft` | 3 sessions, 3 writes, 5 faults | 135,000 |
| `draft_settings` | Is a draft of one piece, its run true and its account acknowledged while settings are deployed? | 2 workers, 10 environments | 651,000 |
| `report_figures` | Do the figures of a report only grow, and end final with all that is asked for? | 2 workers, 6 windows, 2 zones, 2 faults, 13 hours | 853,000 |
| `copy_repairs` | What do the repairs let through, and what do they lose? | 5,832 answers, 3 inputs | 53,000 |
| `intake_retries` | Does an idea that is pressed again become one campaign, and is every press answered? | 1 tab opened twice, 1 program, 3 requests, fair | 976,000 |
| `reservations` | Quotas and totals under parallel reservations | 2 requests, 3 campaigns, 6 ticks | 316,000 |
| `landing_form` | Is what the visitor is told true, is each reservation checked, and is the visitor told in the end? | 1 tab, 2 emails, 2 requests, 3 troubles, fair | 1,445,000 |
| `sign_in_ways` | Does each tab keep its way, and are errors and outages told apart? | 2 tabs, 2 flows, 2 changes, 4 settings | 2,692,000 |
| `releases_switch` | Are the records true and a way back left after failures, kills and reboots at any step? | 3 releases, 6 operations | 2,027,000 |

Every action and every disjunct of the next-state relations fires in one of them.
The type invariants of the lifecycle, the ledger, the draft, the releases, the
copy and the report are not repeated by the runs, as they are proved. Those of the queue, the
intake, the login and the public page are proved as part of an invariant which
says more; their `TypeOK`s are there for the reader and can be added to the cfg. Each property is broken by a plausible bug in the code:
`mutants` of `PROJECT.json` names it.

### Bounds

Two workers are what interleaving takes: one that is late and one that took over;
the invariants speak of pairs. In `honoured` and `slow`, limits and budgets are
small (2, 3, 4 instead of 3, 10, 10), so that each is reached; in `honoured` they
differ, so that none hides another. The clock runs to the end of the window, the
delay of the final snapshot and a retry of it; nothing depends on a later time.
Faults are counted: three cover a call lost in an activation, in its undo and in
the record of it. In `once`, three sessions are one that is late, one that holds
the lease and one that took it over in between; three writes have a first, a
middle and a last; five faults let a session crash, a second lose its lease, a
write time out and the marker be lost in one behaviour. In `reservations`, two
requests are one that waits and one that is ahead of it; three campaigns with a
quota of one each exceed the quota of two of all of them; a minute of three ticks
with a wait of one tick opens every counter again before the clock ends.

In `queue_progress`, two rows that do not parse stand between an older and a
younger healthy campaign, and together exceed what one batch of two may claim; a
lease is longer than a run and than the pause between two calls. `copy_repairs`
takes every combination of flaws, one of each kind in each field, with three
grounds in the input. In `draft_settings`, ten environments differ from a good one
in one respect or in two that must go together; one failed attempt and two of a
stage let every stage be repeated and given up. In `intake_retries`, three
requests are a lost one, its repetition and one of a program. In `sign_in_ways`,
two tabs and two flows share what can be shared, with two changes from outside;
three redirects are what the longest way takes (`MaxHops`).
In `releases_switch`, three releases with one kept beside the active and the
rollback release make pruning bite, and six operations let a release return after
two others failed. In `landing_form`, three troubles lose a token, an answer and
the page, in any order. In `report_figures`, an hour is three, so that a day is
eight; one account is in Seoul, the other as far behind UTC, and the windows start
and end before and after the midnights of both and of UTC.

`MaxWait` of the reservations is more than a bound: the quotas are kept for a
minute less the longest time that a transaction waits for a lock, and nothing in
this repository limits that time. The model assumes that the database does (its
statement timeout), and within less than a minute. The proofs need none of the
other bounds.

Deadlock is checked for `once`, `reservations`, `queue_progress` and
`releases_switch`. The other systems really stop: a campaign has ended and its
clock has reached its bound, a copy is stored or given up, the flows and requests
of a bound are used up.

### Leases

`LeaseOutlivesStep` is TRUE in `honoured`: a lease ends only when its worker has
stopped. The code's reason is the row's lease of ten minutes against a worker
whose request is ended after 300 seconds (`maxDuration` of the route) and whose
calls time out after 20; a paused process or a skewed clock breaks it, which is
what `slow` is for. `OneActor`, `PausedRunIsQuiet`, `CompletedIsSettled`,
`FinalAfterSettlement` and `KeepsPromise` are stated under it only, and so are
`CompletedShowsFinal` and `ReportNeverShrinks` with `Stalls = FALSE`.
`LifecycleQueue` assumes `MaxRun < Lease` for the same reason.

### Fairness

- `honoured` uses `FairSpec`: weak fairness of claiming (the loop calls the route
  once a minute), of each worker's steps (a promise settles or its timeout
  rejects it), of the expiry of leases, of back-offs and of time. It does not
  assume that calls succeed: it bounds how often they go wrong. No fairness for
  the owner, crashes or Ads Manager.
- `queue_progress`: the container is restarted and goes on calling, a batch that
  was started runs to its end, time passes. Nothing forces a claim of a given
  campaign: that the queue reaches it is the property.
- `intake_retries`: the server goes on with its requests and a tab receives its
  answer or an error: the wizard sets no time-out of its own, so this is an
  assumption about browser and network. A press is answered while the owner only
  waits.
- `landing_form`: the widget and the server go on, and the visitor tries again.
  `VisitorIsTold` is about such a visitor.

## 4. Where documents and code disagree

These definitions state what a document, a comment or a message of the program
says. They do not hold of the code, so no run lists them; each module has them
under a heading of their own. To see the behaviour, put the definition in place
of the properties of the named cfg (as PROPERTY where it is temporal).

| Definition | cfg | What the code does |
|---|---|---|
| `PauseIsRetried` | `Lifecycle_honoured` | `pauseMetaRun` marks the run `PAUSING` and does not accept a `PAUSING` run (`lib/meta/metaRunLifecycle.ts:124`). One lost call in the middle of a pause and no later pass can pause the ad. `docs/spec.md:163` has the whole run confirmed `PAUSED` at its end. |
| `FailedActivationIsStopped` | `Lifecycle_honoured` | A campaign whose activation cannot be confirmed becomes `FAILED` with its ad delivered; the owner reads that the run was stopped (`campaignLifecycleProcessor.ts:147`, catch block at 465). |
| `RunKeepsAdSetSchedule` | `Lifecycle_honoured` | A draft resumed after its window has ended registers a run with a new window while the ad set keeps the old one; ADR 0021, line 21, keeps the checkpointed schedule. |
| `UncertainWriteIsMarked` | `Lifecycle_honoured` | When even the marker of an uncertain write cannot be stored, the campaign fails with the operation `OPEN`; nobody marks it, and the operator's RPC refuses it. ADR 0021, line 9. |
| `BrokenRowsAreSettled` | `Queue_progress` | A row that no longer parses is leased, throws outside the catch block, and is claimed again after every lease without an attempt being counted (`campaignLifecycleStore.ts:135`). ADR 0023, line 16, records it as `FAILED`. |
| `TagsAloneDoNotReject` | `Copy_repairs` | A tag is judged as written and loses its white space afterwards: one that becomes a channel name so is refused by the safety check, for good (`anthropicCampaignGenerator.ts:381`). `TROUBLESHOOTING.md:83` removes the tag. |
| `TimeoutIsNotCalledAgain` | `Copy_repairs` | A call that timed out is retried by the lifecycle; `docs/spec.md:516` says it is not. |
| `ActiveBudgetWasAcknowledged` | `Draft_settings` | The acknowledged budget is compared with that of the present settings, not with the budget of the run (`metaConfig.ts:239`). `docs/spec.md:161` checks the campaign's budget just before. |
| `SameIdeaSameDraft` | `Intake_retries` | The wizard remembers its last attempt only: an idea sent, changed, sent, changed back and sent again is two campaigns. `docs/architecture.md:43`. |
| `RefreshIsWritten` | `SignIn_ways` | `/login` is not among the paths of the proxy, so a session refreshed while it renders is dropped (`proxy.ts:10`). The comment at `lib/supabase/server.ts:27` relies on the proxy. |
| `RestoreBringsBackImage` | `Releases_switch` | The automatic rollback of a redeploy of the current release activates its tag, which names the new build (`deploy/remote-release.sh:803`). `docs/deployment.md:191` restores the previous image. |
| `RollbackIsIdempotent` | `Releases_switch` | A rollback to the release that is current records it as its own predecessor (`deploy/remote-release.sh:834`). `docs/deployment.md:189` calls it idempotent. |
| `EnteredIsStored` | `Landing_form` | Fields stay open while a request is on its way; the page then says that the entered email is stored, and another one is (`public-landing.tsx:268`, `:355`). |
| `VisitsAreUnique` | `Landing_form` | The report adds up the unique visitors of each UTC day and calls the sum unique visits (`lib/analytics/campaignAnalytics.ts:63`, `docs/spec.md:459`). |
| `FinalCountsWholeRun` | `Report_figures` | The last day of a request is a UTC date, and Meta reads it in the account's zone: of a run that ends after midnight in Seoul and before midnight UTC, the last hours are never asked for, and for an account behind UTC the first (`graphMetaAdsProvider.ts:404`). |
| `CompletedShowsFinal`, `ReportNeverShrinks`, with `Stalls = TRUE` | `Report_figures` | A snapshot is inserted without the processing token: a worker that outlives its lease stores preliminary figures after the final ones (`metaAdRun.ts:168`). |

## 5. Theorems

All hold for every set of workers, sessions, requests, releases or settings, every
limit, budget, zone, number of steps and bound. They assume only what the `ASSUME`s of
the modules say, and the condition the table names.

| Theorem | States | In |
|---|---|---|
| `TypeCorrect` | `Spec => []TypeOK` | `CampaignLifecycleProofs` |
| `RetryBookkeeping` | `Spec => RetryResumesWhereItStopped` | |
| `StageOrderKept` | `Spec => FollowsStageOrder` | |
| `OneActorAtATime` | `[]OneActor`, if `LeaseOutlivesStep` | |
| `GenerationsBounded` | `[]GenerationBound`, for finitely many workers | |
| `PausedRunsAreQuiet` | `[]PausedRunIsQuiet`, if `LeaseOutlivesStep` | |
| `CompletedCampaignsAreSettled` | `[]CompletedIsSettled`, likewise | |
| `FinalSnapshotIsLate` | `FinalAfterSettlement`, likewise | |
| `PromiseKept` | `KeepsPromise`, the refinement of `CampaignPromise`, likewise | |
| `LedgerTyped`, `NoWriteRepeated`, `NoObjectLost`, `ObjectsInOrder` | `[]TypeOK`, `[]AtMostOnce`, `[]LedgerMatchesMeta`, `[]BuiltOnCheckpoints` | `MetaOperationProofs` |
| `DraftKept` | `KeepsDraftPromise`, the refinement of `PausedDraft` | |
| `CountersTyped`, `GlobalPaceKept`, `CampaignPaceKept`, `TotalOfCampaign` | `[]TypeOK`, `[]GlobalPace`, `[]CampaignPace`, `[]TotalKept` | `ReservationProofs` |
| `TypeCorrect`, `OnePiece`, `RunIsTrue`, `OnlyAcknowledgedAccounts` | `[]TypeOK`, `[]DraftIsOfOnePiece`, `[]RunRecordsWhatWasBuilt`, `[]ActiveAccountWasAcknowledged` | `MetaDraftProofs` |
| `CurrentStaysDeployable`, `RecordsTellWhatServes`, `DeployLeavesWayBack` | `[]CurrentIsDeployable`, `[]SettledServesCurrent`, `[]FreshRollbackTarget` | `ReleaseProofs` |
| `RecordsFollowContainers` | `LinkFollowsService`: the link moves only to what is served | |
| `TypeCorrect`, `FinalFiguresAreWhole` | `[]TypeOK`, `[]FinalCountsRun` | `AdReportProofs` |
| `CompletedReportIsFinal`, `FiguresOnlyGrow` | `[]CompletedShowsFinal`, `ReportNeverShrinks`, if not `Stalls` | |
| `PressesAreOneCampaign`, `ProgressIsOfTheIdea` | `[]PressingAgainIsOneCampaign`, `[]ProgressIsOfTheIdeaShown`, from `IntakeInvariant` | `ClientProofs` |
| `WhoIsToldIsStored`, `NoTokenPaysTwice` | `[]ToldIsStored`, `[]OneCheckEach`, from `PageInvariant` | |
| `TheWayIsKept` | `[]WayIsKept`, if `MaxHops >= 3`, from `LoginInvariant` | |
| `FailuresAreTold`, `NobodyIsAskedInVain` | `FailureIsTold`, `AskedOnlyWithoutSession`, likewise | |
| `HoldUpBounded` | `[]HoldUpIsBounded`, if `LeaseOutlastsHoldUp`, from `QueueInvariant` | |
| `StoredIsGrounded`, `RepairsKeepTheSchema`, `RepairedIsNotRefused` | `[]StoredCopyIsGrounded`, `[]OnlyAssumptionsFailLate`, `[]RepairedFlawsDoNotReject`, from `CopyInvariant` | `CampaignCopyProofs` |

*The lifecycle.* The order of stages does not follow from the row alone: a
transition is right because the worker that makes it was claimed in that status.
The inductive invariant says of each worker which stages its `pc` may have
(`PcOK`), and of the one whose lease is live that the row is where it left it
(`Agrees`). A worker without the lease may be anywhere, because its transitions
are refused; the order survives slow workers for this reason. The same invariant
gives `RetryResumesWhereItStopped`: the stage the transition takes from the row is
the one the failing worker was at. `OneActor` adds that
an acting worker holds the lease (`LeaseInv`).

*The bound on generations* counts, besides the calls made, the workers that have
renewed and not called yet (`Callers`): their calls are paid for in the attempts
already. A worker that stops in between leaves the bound unused.

*Run and record.* With leases that outlive steps, only the holder of the lease
touches run and objects, so that the invariant (`SafeInv`) is about one worker:
`Underway` says, for each `pc` of an activation, its undo and a pause, which
objects may be active and what the run says. `Quiet` and `CompletedIsSettled`
follow from it. `SettleInv` is what `FinalAfterSettlement` needs: a FINALIZING
pass computes the time of the final snapshot from the run it has read, and it is
right because no run is paused between that read and the check. `PromiseKept`
maps every action to a step of `CampaignPromise`; delivery starts in the last
write of an activation and stops in a pause, an undo, or with time.

*The ledger.* `AtMostOnce` is not inductive: it says nothing of a session that is
about to write. A step is `Open` when nothing was made for it, it has no
checkpoint and the record names it as attempted or to reconcile. The invariant
says that every step with a write on its way, at a session or late, is open, that
no two sessions write the same step, and that everything before a named step has
a checkpoint. While a step is open no session can begin any, so when a session
begins one, nothing is on its way (`NothingOpen`). The lease appears only to say
that its holder reads the record as it is: this is why a session without a lease
does no harm.

*The reservations.* A minute of a counter is fixed, begins with the time of a
request that may have waited, and a request that was passed by later ones counts
in the minute of those. So the code does not promise the quota for every sixty
seconds, and what it does promise is not obvious: the last minute, less the
longest wait, sees at most the quota of two minutes. The invariant (`Window`) says
what a counter knows of the past: its count covers all that was counted since
its minute has surely begun, and one limit more covers the minute before, which
had ended when this one began. A request that holds the lock has seen the quota
open, and nobody else changes it; once it holds the campaign's row too, the campaign
stays, its minute open, and what it counted true (`RequestInv`). `TotalKept`
follows from this last part.

*The draft under changing settings.* An operation never changes its descriptor.
The invariant ties the three places that must agree to it: a pass past its
acquire has the operation's descriptor (`PassHasDescriptor`), an object has it
(`Recorded`), and so has the run and the pass that registers it (`Registering`,
`RunAgrees`). What was granted was compared with the run's account
(`GrantAgrees`). The budget of the run appears in no such conjunct, which is why
`ActiveBudgetWasAcknowledged` fails.

*The releases.* `OpShape` says what an operation knows at each step, `FoundCurrent`
that what it took for current is what the link named, `SwitchSoFar` which parts
run which release half-way through a switch, `Recorded` what previous-release says
when a deploy prunes, `Agreement` that without a switch left half done all parts
agree. `CurrentIsDeployable` needs them all, because pruning is told what to keep.

*The report.* A snapshot is final only if it was asked for after the delay. The
period then reaches to the end of the run, and Meta shows all that `ShownInTime`
has (`Whole`): hence `FinalCountsRun`, even under stalls, and in every zone. Where
Meta is late by no more than the delay, this is equality with `AskedOfRun`. That a later snapshot never shows less (`Seen`, `Past`) needs a sole
writer (`Fenced`), and a completed campaign has its final one last (`Completing`).

*The wizard.* That a press made again is one campaign does not follow from the
table alone, where a draft has one row (`OneRowPerDraft`, the unique constraint):
since its last edit a tab must have pressed with one draft only (`OneAttempt`). That
a progress page is of the idea shown needs every answer on its way to name a row
of the idea that was *sent* (`AnswersMatch`), and a wizard that waits to hold that
idea (`Listening`): fields are closed while it waits, and an answer of an earlier
visit is not listened to.

*The public page.* Whoever is told has a reservation because the request the form
waits for carries the email that was sent, and no other form waits for it
(`WaitingAlone`), and because an answered success is stored (`AnsweredIsStored`). That no
token pays twice needs requests between the check and the record: such a token is
spent, held by one request, and paid for nothing yet (`VerifiedOnce`).

*The sign-in.* `Ways` says of a tab, wherever it is, where its way is kept: in the
query of its address (`OnTheWay`) or in the cookie of its own flow
(`InItsCookie`), which no other tab's flow touches. `HopsLeft` counts the redirects
that may still follow from each place before the user has to act; with those made
they are never more than three. So three suffice for the gates, handlers and proxy
in every mode, and `sign_in_ways` shows that it happens.

*The queue.* `idle` counts batches in which no healthy campaign was started. The
invariant (`HoldUp`) pays for each of them with a fault or with a row that does not
parse and has been leased since, so recently (`Recent`) that it cannot be due
again before a healthy campaign is. This is where `LeaseOutlastsHoldUp` comes in: a
lease in minutes exceeds the number of those rows and the length of a run. It is
needed: with a lease that is equal to them (4, with two such rows, a run of two and
five campaigns) TLC refutes the bound. In the code a lease is ten minutes and a run five, so up to four such
rows are harmless by this argument.

*The copy.* The repairs are folds over lists. A fold is the last of a row of
values, one for each beginning of the list (`OnlyRow` and its like), and what holds
of the first and is handed on holds of all: `UpTo`, which states induction with a
set in place of a predicate, and follows from the well-foundedness of inclusion of
finite sets. Each repair then has a lemma that says what it returns. Two of them
carry the result. `EnoughFallbacks` counts: a fallback question is taken only by a
question that is kept, and no two by the same one, so there are as many free ones as
answers to replace, and `replaceUngroundedFaq` never falls back on its `??`.
`PublicCopyIs` says that every text that is shown of a copy stands in the one text
that is checked, so what is wrong with a part is wrong with the whole (`WithinFlaws`), and
that this text has no other words, so what is wrong with the whole is wrong with a
part (`UnsafeBecause`).

*Model-checked only.* `Settles`, `HealthyCampaignsSettle`, `PressIsAnswered` and
`VisitorIsTold` are liveness under fairness, which is out of the prover's reach.
Every safety property that a run checks has a theorem.

## 6. Not modelled

- The owner's list, progress page and report page: they poll and draw. What the
  report draws from is in `AdReport`.
- Drawing: pages, the card renderer, images, wording, rates of the report.
- Parsing and encoding of Graph requests and answers, ids and figures, the prompts
  and the choice of a generator: the properties see their outcomes only.
- Ten healthy campaigns that are due again whenever the loop looks: the runs of a
  campaign in `LifecycleQueue` are bounded, and all campaigns are there from a
  finite set. Starvation by campaigns that keep arriving is not expressible.
- A create that Meta carries out after the operator has looked: `Resolve` waits for
  the step's writes (`InFlight`). Without this assumption `AtMostOnce` fails.
- A status write that Meta applies after a later one: it needs a bound on the
  delay which Meta does not give. Late *creates* are in the ledger.
- `publish`, which the route refuses outside the fixture mode, and
  `saveNextAction`, which writes a column nothing else reads.
- The redirect to the canonical origin, origin checks, and the browser-side
  Supabase client of the login.
- The upload through `deploy-gateway.sh`, the checks of host and environment (pure
  predicates), and the build cache.
- In-memory and dry-run adapters, demo repository and fixtures: doubles that the
  product does not construct. Infrastructure, host set-up, health checks and
  evaluation scripts: declarative, run by hand, or read-only.

## 7. What is done and what would come next

Done: the lifecycle and its queue, the run, the deletion, the ledger, the draft
under changing settings, the report's figures, the generator's repairs,
submission, the public page and its reservations, the login, the releases; proofs
of all of their safety. Next would be the owner's pages (polls whose answers
overtake each other), the archive between gateway and manager, and refinements
between the modules that now only agree in words: the request of `PublicLanding`
by `ReservationIntake`, and the runs that `LifecycleQueue` counts by
`CampaignLifecycle`.
