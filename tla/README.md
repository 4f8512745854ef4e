# Unified Cron: TLA+ models, checks and proofs

Unified Cron runs the scheduled work of several websites from one Cloudflare
Worker, the *platform*. A one-minute Cron Trigger starts a *Tick*; the Tick
turns due *schedules* into *executions* and dispatches them to the website
Workers (*Targets*), either by an RPC over a Service Binding or through one
shared Queue. All state is in D1 (SQLite). Nothing is locked: every D1
statement, and every `db.batch()`, is one transaction, and between two of them
anything may happen: another Tick, an operator, a registration, or the death
of the isolate. The models are about exactly that.

Paths below are relative to `src/apps/platform/src/` unless they start with `src/`;
`d1/` is short for `infrastructure/d1/`.

## 1. Inventory

### Components

| Component | State | Operations | What makes it correct |
|---|---|---|---|
| **Execution ledger** (`application/tick.ts`, `d1/execution-repository.ts`, `d1/execution-operations-repository.ts`, `domain/model.ts`) | `executions`, `attempts` | materializeDue, claim, dispatch/finalize, recoverExpiredLeases, expireAutomaticRetryWindows, cleanupHistory; operator retry, rerun, cancel, resolve | one active execution per schedule; the two tables agree; attempts within budget; outcomes final; repeated calls only when idempotent; attempts end |
| **Schedule table** (`d1/execution-repository.ts`, `d1/managed-schedule-repository.ts`, the upsert of `d1/registration-repository.ts`, `materialize` of `d1/trigger-delivery-repository.ts`) | `schedules` (`next_run_at`, `revision`, `enabled`, pause, retirement), the unique key of an occurrence | listDue, materialize, disableInvalidSchedule, apply, pause, resume | armed exactly while enabled; snapshots are current; no backfill; due occurrences are not stuck |
| **Tick** (`tick.ts`, beginTick/finishTick, `d1/scheduler-settings.ts`) | `platform_state.last_tick_*`, the local variables of one run | begin, the parts, the pool of workers, finish | an older Tick never overwrites a newer heartbeat; a success is one; nothing runs on after the pool |
| **Queue delivery** (`application/deliver-triggers.ts`, `d1/trigger-delivery-repository.ts`, `application/consume-dispatch-queue.ts`, `src/packages/worker-sdk/src/queue-consumer.ts`) | `trigger_deliveries`, `trigger_consumer_attempts`, messages in the Queue | materialize, claim, send, finish, consumer started / not started / failed, report | sent at least once, done at most once, answered truthfully; calls counted; only leased rows are sent |
| **Worker registration** (`d1/registration-repository.ts`, `api/routes/registration.ts`) | `registrations`, `registration_revisions`, `registered_actions`, `api_idempotency` | apply, confirm, replay | compare-and-set on the current document; a revision names one document for ever; capacity holds; refusals are true |
| **Registration tokens** (`d1/registration-token-repository.ts`) | `registration_tokens` | issue, rotate, revoke, authenticate | one live successor; a revoked token accepts nothing; a raw token names one row |
| **Idempotent admin mutations, Targets, switches and settings** (`d1/idempotent-mutation.ts`, `d1/target-repository.ts`, `d1/system-repository.ts`, `application/check-target.ts`) | `api_idempotency`, `audit_events`, `targets`, `platform_state.dispatch_paused`, `scheduler_settings` | execute, replay; pause, resume, enable, disable, change, check | a key takes effect once; the audit log tells the history; no lost update |
| **Admin authentication** (`infrastructure/auth/`, `d1/admin-*-repository.ts`) | `admin_sessions`, `admin_login_limits` | login, logout, rate limit, expiry | the limit counts every failure; the log says how sessions ended |
| **RPC adapter, Worker SDK, example worker** (`infrastructure/rpc/service-binding-adapter.ts`, `src/packages/worker-sdk/`, `src/examples/worker-data/`) | `idempotent_results`, effects, scenarios, receipts of the website | a call under a deadline, the handler with its abort signal, the Actions | what the platform is told of a call is true of the website's tables; a call ends |
| **Cron calculator and dialect** (`infrastructure/cron/`, `src/packages/contracts/src/cron-dialect.ts`) | none | normalize, validate, next | a rule runs on the days meant; what is accepted is always found again |
| **Read-only views** (`d1/history-pagination.ts`, `d1/run-history-repository.ts`) | none; the console's filter and cursor | page, cursors | a walk skips nothing that stays |
| **Contracts, HTTP layer, web console, scripts** | the console's session gate and lists | bounded JSON, request bodies, login gate | a body is bounded; the end of a session is noticed |

### How they interact

```
 Cron Trigger ──> Tick ──(listDue, materialize)──> schedules ──> executions ──> claim ──> RPC ──> Target
                   │                                    │                                   │
                   │                                    └─> trigger_deliveries ─> Queue ─> consumer ─> Target
                   └──(recover, expire, clean)──> executions, attempts                      │
 Target ──> registration (token) ──> registrations, registered_actions, schedules <── report┘
 operator ──> admin API (idempotent mutation, audit) ──> executions, schedules, targets, platform_state
```

Everything meets in D1. A caller reads some rows, computes (a next run, a
decision, a plan), and commits later in a statement with a `WHERE` of its own.
So the behaviours that are hard are always of one shape, *read, await, write*:
Ticks that overlap, because a Tick may last longer than a minute; an operator
or a registration between a read and its write; an isolate that dies between
two writes; an RPC answered after its lease was recovered; a message delivered
twice. A second difficulty is D1's own: in a batch an `UPDATE` that matches no row
is no error, so "all or nothing" must be written into each `WHERE`.

PROJECT.json lists the hazards one by one, each with its line and with the
properties that cover it, or the reason why none does.

## 2. Plan

| Step | Modules | State |
|---|---|---|
| 1 | `ExecutionLedger` with `ScheduleSlot` and `LedgerRefinement`; `ScheduleTable` | checked; safety, step properties and refinement proved |
| 2 | `QueueDelivery` with `DeliveryContract` | checked; types, lease, counts and refinement proved |
| 3 | `Registration` with `Credentials` and `DeclaredState` | checked; types, truth of the answers and refinement proved |
| 4 | `RegistrationTokens` with `Credentials` | checked; types, soundness and refinement proved |
| 5 | `Tick` | checked; types, heartbeat and pool proved |
| 6 | `WebsiteWorker` | checked; types, truth of the answers and receipts proved |
| 7 | `AdminMutations`, `LoginLimit`, `ConsoleSession`, `HistoryPaging`, `CronDialect`, `CronHorizon`, `BoundedBody` | checked; types, safety and step properties proved |
| 8 | `Platform`, which composes the modules of steps 5 to 7 | checked; implements each of them, and their theorems hold of it |

The order is that of what a mistake would cost: a lost or doubled run first, then
who may declare what, then what an operator sees.

## 3. The modules

### `ExecutionLedger`

One Target's executions. `exec[e]` is a row of `executions`, `attempts[e][n]` the
status of its `n`-th row of `attempts`; `schedule`, `targetEnabled`, `declared` and
`dispatchPaused` are the columns the ledger's statements read elsewhere. `Workers`
are the dispatch slots of all Ticks that run at a time: `phase`, `job` and
`decision` are the local variables of `dispatch` and of `recoverExpiredLeases`
between two awaits. `request` is an operator's mutation between its plan and its
batch. `sent` is history: the calls that reached the Target.

| Action | Code |
|---|---|
| `MaterializeDue` | `d1/execution-repository.ts` materializeDue |
| `Claim` | claim: the conditional UPDATE and the attempt's INSERT |
| `CheckCapability`, `SendRpc`, `AwaitRpc` | `tick.ts` dispatch, cut at its awaits |
| `ReadExpiredLease` | recoverExpiredLeases, its reads |
| `Finalize` | finalize: two UPDATEs, each with its own `WHERE` |
| `Crash` | the isolate dies or a D1 call throws |
| `ExpireRetryWindows`, `CleanupHistory` | the statements of that name |
| `PlanRetry`/`CommitRetry`, `PlanRerun`/`CommitRerun`, `Cancel`, `Resolve` | `d1/execution-operations-repository.ts` |
| `AbandonRequest` | an admin request that ends between plan and batch |
| `SwitchDispatch`, `SwitchTarget`, `PauseSchedule`, `ResumeSchedule`, `Register` | what the other components do to the columns the ledger reads |

Abstractions, each stated in the module's header: an attempt's id and its lease token are
UUIDs written once, so both are its number; `available_at`, `lease_expires_at`
and `finished_at` are one field `timer`, as the status makes exactly one of
them live; `retry_deadline_at` is computed, as it is the creation time plus a
constant on both insert paths. `recoverExpiredLeases` takes at most two rows and
`cleanupHistory` at most fifty: recovery is one action per row, cleanup one
statement over every outdated row. The wall-clock and count budgets of a Tick
only stop it early, which is a Tick that takes no further action.

### `ScheduleSlot` and `LedgerRefinement`

`ScheduleSlot` is what a schedule may rely on, in seven steps and without Ticks, leases,
clock or operators: an execution is admitted into a free slot (or only put on
record), started at most `MaxCalls` times, stops, is decided about, is revived
from failure or doubt into a free slot, runs out of time, is forgotten. A settled
execution never comes back. `LedgerRefinement` maps the ledger to it: `life` is
the status up to what a schedule sees (*pending* and *retry_wait* both wait),
`owner` is `schedule_id`, `spent` is `attempt_count`. Attempts, slots and requests
are invisible, so a late `Finalize` or a `CommitRetry` whose `WHERE` finds nothing
must be a stutter: that they are is the content of the refinement.

### `ScheduleTable`

One row of `schedules` with everything that rewrites it. `tick[t]` is a due row
a Tick has listed, with the time it works with; `registration[r]` and
`resume[o]` are requests between their reads and their batch; `registered` is
the document in `registrations`; `occurrences` is what the unique key of
`executions` (or `trigger_deliveries`) holds. RPC and queue materialisation are
the same two statements and the same action: the INSERT guarded by revision,
`next_run_at`, enabled and the dispatch switch, and the UPDATE that asks for the
row the INSERT made. They differ in the clock, which the RPC path reads again:
`Prepare` allows both.

| Action | Code |
|---|---|
| `ListDue`, `Prepare`, `Materialize` | listDue and materializeDue; `materialize` of the delivery repository |
| `DisableInvalid` | disableInvalidSchedule |
| `BeginRegistration`, `PlanRegistration`, `CommitRegistration` | `RegistrationRepository.apply`: its clock, its reads, its batch |
| `Pause`, `PlanResume`, `CommitResume` | `d1/managed-schedule-repository.ts` |
| `SwitchDispatch` | `d1/system-repository.ts` |

A configuration is a value, as the code compares its hash; the hash covers the
whole declaration, `enabled` included. Its cron expression is reduced to a
period; the model and the proofs use only that the next occurrence is strictly
later, which `nextAfter` itself asserts. `NULL` in `next_run_at` is 0. Whether
an occurrence is recorded as pending or skipped is the ledger's matter.
Occurrences are never deleted here; in the code a recorded execution is, two
weeks after it ended at the earliest. The Target's own switch is left out: `listDue`
stops listing, which is a Tick that does nothing.

### `QueueDelivery` and `DeliveryContract`

Queue mode from the outbox to the recorded result. `delivery[d]` is a row of
`trigger_deliveries`, `reservation[d][n]` the `n`-th row of
`trigger_consumer_attempts`; `sender[s]` is one Tick's run of
`TriggerDeliveryApplication`, `consumer[c]` one Queue invocation, of the platform or
of a website that consumes its own Queue; `message[d][i]` are the copies of a
message in the Queue. `effects`, `accepted` and `called` are history: what the
website did, what the Queue took, which attempt numbers reached the Target.

| Action | Code |
|---|---|
| `Materialize` | materialize (its compare-and-set is in `ScheduleTable`) |
| `BeginRun`, `ClaimMany`, `SendChunk`, `HaltRun`, `BuildFails`, `EndRun` | `application/deliver-triggers.ts` run, cut at its awaits, with its 40 seconds |
| `QueueAccepts`, `SendFails`, `FinishAccepted`, `FinishThrows`, `FinishFailed` | sendWithDeadline and finish: the Queue may have accepted what the run believes failed |
| `Receive`, `MessageArrives`, `MessageLost`, `RetryMessage` | the Queue: late, lost, repeated up to `MaxTries` |
| `PrepareFails`, `Refuse`, `Reserve`, `ReserveFails`, `Undo`, `CallTarget`, `TargetAnswers`, `CallFails`, `ObservationFails` | consumeDispatchQueue with consumerStarted and consumerNotStarted |
| `CheckReceipt`, `Report`, `ReportFails`, `MarkInvoked`, `RecordError`, `RecordUnnamedError` | report and consumerFailed |
| `OrphanRuns` | a call the platform gave up on that still runs |
| `SenderDies`, `ConsumerDies` | an invocation that is ended |
| `Switch` | the schedule, its action or the website change |

Times count down instead of a clock going up: `timer` is what is left of a lease or a
delay, `left` what is left of a run. `DeliveryContract` is the promise in six steps,
*Intend, Enqueue, HandOver, Perform, Answer, Forget*, without leases, copies or
attempts: the intent is kept until the Queue has the message, the effect happens at
most once and only after that, and a recorded outcome is true and the only one.

### `Registration`, `DeclaredState` and `Credentials`

A request authenticates, then reads the stored answer of its key, the current
declaration, the history of revisions and the capacity, each in a step of its own,
and `Commit` is the one batch whose guards ask for all of it again
(`KeyIsFree`, `TokenIsActive`, `RevisionIsBound`, `CurrentIsUnchanged`, `Fits`). When
it fails, `FindRaced`, `BlameRevision`, `BlameToken` and `BlameCapacity` are the reads of
rethrowRegistrationError, which look for the reason afterwards, when it may have
changed. `SetCapacity`, `AnswerExpires` and `CleanupAnswer` interleave, and so do the
steps of `Credentials`, which this module extends. `DeclaredState` is the promise:
declarations are replaced as a whole, a revision stays bound to the
declaration first seen under it, and what is published fits the capacity. What a
declaration does to `schedules` is in `ScheduleTable`; here it is a number.

### `RegistrationTokens`

Issue, rotate and revoke with their stored answers. The raw token is derived from the
deployment's secret, the route, the key and the body, so a repeated request
shows the same one; D1 keeps its hash (`raw` of a row). `Begin`, `Admit`,
`FindStored` and `ReadToken` are the reads, `Issue`, `Rotate` and `Revoke` the batches,
`CommitFails` and `FindRaced` what the code does after an error, `Abandon` a lost
request; `Expire`, `AnswerExpires` and `CleanupAnswer` are time, and `ChangeSecret`
replaces the secret. It implements `Credentials`, so what `Registration`
assumes of tokens is what the token routes do.

### `Tick`

One invocation of the Cron with its heartbeat: `Begin` and `Finish` are beginTick and
finishTick with their `WHERE`s, `PartReturns`, `PartThrows`, `ListReady`, `PoolEnds`
and `Cleanup` the order of the parts and the `try` around them, `TakeRow`,
`Claim`, `Answer`, `Finalize` and `WorkerRejects` the workers that share one cursor,
with the call budget and the wall budget. What the parts do to the tables is in the modules
of these tables: here a part succeeds, throws, or never returns (`Dies`).

### `AdminMutations`

The audited switches: dispatch, a Target, the settings, the recorded check. A request
looks for its key, plans, commits one batch that also claims the key and writes the
audit event, and after an error looks again (`Arrive`, `ReadCatalog`, `Describe`,
`Commit`, `Batch`, `BatchFails`, `Reread`, `RereadFails`). `Expire` and `Cleanup` forget
keys; `Seed` and `Redeclare` are the deployment's script and a registration, which
change the same rows without a key.

### `LoginLimit`, `ConsoleSession`

`LoginLimit` is one row of `admin_login_limits`: `Arrive` reads it, `Verify` takes time,
`RecordFailure` and `Clear` write it. `ConsoleSession` is the table of
sessions, the routes that ask for one and one browser tab: calls are answered in any
order (`Serve`, `ServerFails`, `Take`), and the gate shows the pages or the login.
`polling` says whether the page that is seen refetches at an interval: the overview, the
lists of runs and deliveries, the pages of a schedule and of a run and the system page do
(`Poll`), the page of an execution until it has settled (`TakeData`), and the lists of
schedules, targets and registrations never do: they ask when they are opened, when the
window is focused and after a mutation (`Fetch`). `Visit` is a link, which aborts what the page
that is left has asked for; `Turn` hides the tab, which stops the interval, or shows it.

### `WebsiteWorker`

A call over a service binding on both sides: the platform's deadline (`Deadline`,
`GiveUp`, `Hear`), the SDK's handler with its abort signal (`Take`, `Refuse`, `Begin`,
`Run`, `Abort`), and the example worker's Actions, each D1 statement a step
(`Insert`, `Select`, `Effect`, `CountEffects`, `InsertReceipt`, `D1Fails`). Calls with one
key run at once, as after a deadline.

### `HistoryPaging`, `CronDialect`, `CronHorizon`, `BoundedBody`

`HistoryPaging` is a table that changes while an operator walks through it: the page and
its cursors are two reads, the console reads again when its URL changes.
`CronDialect` is the way of a weekday field through the parses of the SDK
and the platform. `CronHorizon` is nextAfter with its eight years around 2100,
with cron-parser as an external calendar of four instants a year. `BoundedBody` is
readBoundedJson over bodies that know where their characters end, cut anywhere.

### `Platform`

The parts that share no row of D1 and no variable: Tick, administrators' mutations, login
throttle, a console tab, a website, a walk through the history, a weekday field, a
schedule's next run, a body. `Platform` extends `Tick` and instantiates the other eight; a step
is a step of one of them (`TickMoves`, `AdminMoves`, ...) and leaves the variables of the
others alone. Its properties are one per system, each a conjunction of what the modules
state of the part: `MutationsHappenOnce`, `WalksAreComplete` and so on. That nothing is
shared is how the code is: two parts meet only where one has a value of the other as
its input (what a declared rule is, whether a Tick is paused), and that input is arbitrary here.

### Instances for TLC

`MCExecutionLedger`, `MCScheduleTable`, `MCQueueDelivery`, `MCRegistration` and
`MCRegistrationTokens` instantiate one module each. Where the product of all actors is
too large, a variable `scenario` chooses which of them are busy: two Ticks that send, two
invocations that consume, or one of each; two requests of one Target, or two
Targets that compete for the last place; rotations with two keys, or one
key that is repeated and forgotten. A scenario limits inputs, never a step.
`MCPlatform` (of `Platform`) and `MCLiveness` hold parts that share no state: a variable `part`
chooses the one that moves, so that a run is the union, and not the product, of their
behaviours. That every order of their steps shows each of them the same is not left to this
remark: `PlatformProofs` proves it for `PlatformSpec`, in which all of them move.

The operators marked *Mutant* are single plausible bugs; replacing the
definition next to them by one makes a named property fail, which shows that
the property depends on that line of the code.

## 4. Runs

| Run | Configuration | Question and result |
|---|---|---|
| `ledger_race` | `LedgerRace.cfg` | Two slots, one operator, one switch, one execution through retry, crash, recovery, resolution and cleanup. All seven properties hold (2.1 million states). |
| `ledger_slot` | `LedgerSlot.cfg` | Three executions compete for a schedule's slot through materialisation, retry and rerun. `OneActivePerSchedule` holds, and every step implements `ScheduleSlot` (`ImplementsSlot`). |
| `ledger_liveness` | `LedgerLiveness.cfg` | `AttemptsEnd` and `AutomaticRetrySettles` hold under `Fairness`, which also implements the fairness of the slot, *what is started stops* (`ImplementsFairSlot`). |
| `schedule_race` | `ScheduleRace.cfg` | Two Ticks, one registration at a time out of four documents, one resume at a time, pauses. All five properties hold (1.4 million states). |
| `delivery` | `Delivery.cfg` | Two Ticks send two deliveries, or two invocations consume one, or one of each, with crashes, lost answers, redelivery and one switch. All four properties hold. |
| `registration` | `Registration.cfg` | Two requests of one Target or of two, with revocation, expiry, capacity and stored answers. All three properties hold (272 thousand states). |
| `tokens` | `RegistrationTokens.cfg` | One token is issued, then two requests issue, rotate and revoke with two keys, or repeat one key. Both properties hold (258 thousand states). |
| `platform` | `Platform.cfg` | The parts of `Platform`, one at a time: pool, heartbeat, dispatch, target, settings, check, login, tab, sync, scenario, paging, dialect, horizon, body. All nine properties hold (837 thousand states). |
| `liveness` | `Liveness.cfg` | What must eventually happen in five parts: queue, pool, tab, website, table, each under the fairness of its module. All five properties hold (59 thousand states). |
| `schedule_edit` | `ScheduleEdit.cfg` | `ArmedOccurrenceIsNew` is violated (section 7). |
| `ledger_hard_limit` | `LedgerHardLimit.cfg` | `RefusedOnlyWhenAttemptsAreUsed` is violated (section 7). |
| `registration_repeat` | `RegistrationRepeat.cfg` | `RepeatIsNoop` is violated (section 7). |

What the properties say:

- `OneActivePerSchedule`: the guards inside materializeDue, planRetry and planRerun
  are enough; the unique index never has to reject one of them, which would
  fail the Tick.
- `LeaseAgreement`, `OutcomeAgreement`: `executions` and `attempts` agree at every
  moment about who is running and how the last attempt ended, although
  finalize's two UPDATEs may each match nothing.
- `AttemptBudget`: automatic and operator retries share one limit, and no row waits for
  a dispatch that its count forbids.
- `RepeatedCallsAreIdempotent`: the Target gets a second call for an execution only
  as a retry, and only if the snapshot and the registration read before the call
  declare the action idempotent.
- `AttemptOutcomeIsFinal`, `OperatorDecisionStands`: no late answer rewrites an
  outcome; no Tick undoes what an operator decided.
- `AttemptsEnd`, `AutomaticRetrySettles`: leases are recovered and retry windows
  close, also with dispatch paused or the schedule retired.
- `ArmedIffEnabled`, `EnabledIsDeclared`: the five statements that write `enabled` and
  `next_run_at` keep them together, so the table's CHECK never fails a batch.
- `SnapshotIsCurrent`: an occurrence is recorded for the configuration of that
  moment, though the Tick read it earlier.
- `NoBackfill`: recording an occurrence arms the schedule for a time later than the
  occurrence and than the Tick's clock, so downtime is not replayed.
- `DueOccurrenceSettles`: unless dispatch stays paused, a due and new occurrence
  is recorded or superseded.
- `CallsAreCounted` (`CountIsExact`, `ResultHasNoError`, `NumbersAreFresh`): every call of
  a Target has a number of its own, and a result counts exactly these calls and has
  no error beside it, however late or doubled the reports.
- `SendsOnlyOwnRows`: a slow Tick never sends what another has claimed meanwhile.
- `ImplementsContract`, `IntentsAreDelivered`: the promise of Queue mode, and that
  nothing stays in the outbox.
- `OutcomesAreTrue` (`RefusalIsTrue`, `SuccessIsCurrent`,
  `RevokedTokenPublishesNothing`, `OncePerKey`): a Worker told of a success replaced
  just what it had read, and one that is refused hears a true reason.
- `ImplementsDeclaredState`, `ImplementsCredentials`: the batches are steps of the promises.
- `TokensAreSound` (`ChainsAreLinked`, `RawTokensAreDistinct`, `ShownTokenIsKept`,
  `AnswersAreTrue`): the token that an answer shows works, also when it is
  shown again or its answer was forgotten.
- `TicksAreAccountedFor` (`HeartbeatIsOfOneTick`, `SuccessIsTrue`,
  `NothingRunsAfterThePool`, `RowsAreShared`), `TicksEnd`: the heartbeat is that of one
  Tick and true, and no call outlives its pool.
- `MutationsHappenOnce` (`OncePerKey`, `SuccessHasItsEffect`, `StateIsAudited`,
  `NoLostUpdate`, `ConflictIsNoSuccess`): retries and races of the console.
- `FailuresAreCounted` (`CountIsExact`, `OverlapOnly`, `RefusedForAReason`): logins that
  overlap each count, and pass the limit only by those under way.
- `SessionsEnd` (`EndsAreAudited`, `PagesNeedACookie`), `EndIsNoticed`: a session ends
  once in the log, and a page that polls does not go on being shown after it.
- `AnswersAreEarned` (`SuccessIsStored`, `FailureHasNoEffect`, `AnswerHasReceipt`,
  `ScenarioIsPlayedOnce`), `CallsEnd`: the answers of a website with several calls of one key.
- `WalksAreComplete` (`NothingSkipped`, `PagesAreAdjacent`, `EndIsTheEnd`,
  `TotalCoversPage`): a walk shows every row that was there all the while.
- `RulesRunAsMeant` (`RunsOnTheDaysMeant`, `OneParseDecides`, `AcceptedIsFound`,
  `OnlyTheImpossibleIsRefused`, `NoRunBetween`): one conversion, and no accepted rule that a
  later Tick cannot find.
- `BodiesAreBounded` (`KeptIsBounded`, `AnswerIsOfTheBody`): a cut in the middle of a character
  changes nothing.

### Bounds

`MaxTime`, `MaxSwitches`, `MaxRevision`, `MaxAttempts`, `MaxCopies` and the like bound
clock, switches, revisions and attempts, in guards and not in constraints, so that liveness is
sound. Times are relations, not minutes: the instances keep the order of the code's
constants (lease < automatic window =< operator window, success retention < failure
retention; run =< lease of the outbox) and let every one of them elapse.

*Ledger.* A hard limit of 3 with a policy of 2 attempts makes the automatic retry, the
operator's retry and the refusal all happen; a limit of 10 only repeats them. Two slots
suffice for a race on one row, as every statement touches one execution at a time and two
are needed for a stale writer and a current one. *Schedule.* Two revisions beyond the
first give a change and a change of the change; the clock covers two to four occurrences.
*Queue.* One lease is one step of time, so that it can end at any point of a run that is
over; two deliveries in a batch of two show a chunk of which one row is lost; a message is
delivered twice, and two attempts suffice for a late report of the first. `Undo` frees a
number, so two attempts also give a number that is drawn again. *Registration.* Three
declarations under two revisions give a conflict, a change and a return; a capacity of one or
two schedules makes the second Target the one too many. *Tokens.* Three rows hold a chain
of two rotations or a fork that must fail; two secrets are one change. *Platform.* Three
requests on two keys are a repeat and a stranger; four logins with a limit of two are two
that pass it together; tables of up to four rows with pages of two have a second page and ties on
`created_at`; the years 2095 to 2106 hold the gap of eight years.

`CHECK_DEADLOCK FALSE` stands where an instance really stops: the ledger's, when the clock is at
its bound and the execution ids are used up; `Registration`, `RegistrationTokens`,
`MCPlatform` and `MCLiveness`, whose requests, Ticks, logins and calls are each made once. The
schedule's and the outbox's instances never stop and are checked for deadlock.

## 5. Fairness

*Ledger.* The clock advances; a slot that is busy goes on or dies; the statement
that closes retry windows runs in every Tick, also while dispatch is paused
(`tick.ts` runs it before it looks at the switch): weak fairness. Reading an expired
lease and writing its recovery get strong fairness, as Ticks come every minute and
are not killed at that point every single time. Claims, RPC answers,
operators and registrations get none.

*Schedule table.* ListDue, Prepare and Materialize get strong fairness for the
same reason: any one Tick may die, or find dispatch paused, but not all of
them. Registrations, operators and the clock get none.

*Queue delivery.* The clock runs, runs begin and end, every await of a run returns or
throws (weak). Claiming a row, sending a chunk that holds it, the Queue's acceptance and
the statement that records it get strong fairness: a call that is repeated for ever succeeds at last.
Messages and invocations end, so the Queue does not stay full. Consumers owe nothing else:
`IntentsAreDelivered` is a promise of the outbox alone. The fairness of sending also says that
a message can be built at last. A secret of the receipt tokens that is changed for good while
deliveries wait is outside it: each of them fails with `RECEIPT_KEY_CHANGED` on every Tick,
together with the rows claimed beside it (`BuildFails`).

*Tick.* Every await returns or throws: D1 does, and a call has a deadline. *Console.*
Every call is answered or fails; the platform is not out of reach for ever; and while a page
with a `refetchInterval` is seen, a poll comes (weak fairness of `Poll`: React Query's timer, of
10, 15 or 30 seconds, runs while the tab is visible). `Fetch`, `AskSession`, `Visit`, `Turn` and
the mutations get none: they wait for the user. So `EndIsNoticed` is stated for pages that poll,
up to the moment the user turns to one that does not; without the conjunct `polling` TLC refutes
it with a tab that is left on one of the other pages (section 7). *Website.* Time passes and the isolate runs on;
nobody has to answer.

## 6. Proofs

TLAPS checks these for every value of the constants, from named assumptions
only, which TLC evaluates in the runs.

### Execution ledger and schedule table

Assumptions: `PoliciesAreWellFormed`, `LimitsAreNaturals`, `PoolsAreNonEmpty`;
`ConfigsAreWellFormed`, `DocumentsAreWellFormed`, `BoundsAreNaturals`.

`ExecutionLedgerProofs`: any number of schedules, executions, slots and
operators, any policies within the hard limit, any times.

- `LedgerInvariant`: `LedgerInv` is inductive. `LeaseAgreement` and `AttemptBudget` are
  not inductive alone. A slot about to write *retry_wait* must know that the limit is
  not reached, which follows from two facts that are added: `SlotsHoldAttempts`
  (a busy slot holds an attempt of an existing execution, and retries it
  only below the policy's maximum) and `LimitCoversPolicy` (the limit never falls
  below that maximum, as operators only raise it).
- `TypeCorrect`, `LeasesAgree`, `BudgetHolds` follow.
- `SlotIsExclusive`: `OneActivePerSchedule`, by two lemmas: a step that admits no
  execution (`NobodyAdmitted`), and one that admits a single one into a slot it has found
  empty (`OneAdmitted`).

Also from `LedgerInv`:

- `OperatorsHaveTheLastWord`: `OperatorDecisionStands`, statement by statement.
- `OutcomesAreFinal`: `AttemptOutcomeIsFinal`. It needs `NoAttemptAhead`: no
  attempt exists beyond the execution's count, so a claim never opens a number that
  already has an outcome.
- `OutcomesAgree`: `OutcomeAgreement`, with `DecisionsAgree` added: what a slot has decided
  to write already agrees with the outcome it will write beside it.
- `CallsRepeatSafely`: `RepeatedCallsAreIdempotent`, from `CallsInv`: a repeated claim is
  named a retry (`RetryIsNamed`), calls belong to rows (`SentIsOfRows`), and a slot that
  holds a retry has read an idempotent declaration after the snapshot said so (`RetriesAreSafe`).

- `LedgerImplementsSlot`: `ImplementsSlot`. One lemma per statement that writes
  `executions` names the abstract step it is; `OneRowMapped` says how a new row shows
  in the mapping, `FreeForIsInactive` that the ledger's overlap check is the slot's.
  That an automatic retry stays within `MaxCalls`, and that a lease-holding
  finalize ends the current run, come from `LedgerInv`.

`ScheduleTableProofs`: any number of Ticks, registrations and operators, any
configurations and documents.

- `ScheduleInvariant`: `ScheduleInv` is inductive. The point is that a plan may be
  stale only if the revision shows it: `ResumesAgree` (a resume with the row's
  revision read the row's declaration), `TicksAgree` (a Tick with the row's
  revision read the row's configuration, and its time is not before the
  occurrence), and `DeclaredAsConfigured`, which makes an upsert that keeps the
  revision harmless.
- `ScheduleTypeCorrect`, `ArmedExactlyWhenEnabled`, `EnabledOnlyAsDeclared` follow;
  `SnapshotsAreCurrent` and `NeverBackfills` are the action properties. The one fact
  about the calendar is the lemma `NextAfterIsLater`.

### Queue delivery

Assumptions: `QueueBounds` (the numbers are natural numbers, a run's 40 seconds and the
retry delay of 60 are not longer than the lease of 90) and `ActorsAreDistinct`.

`QueueDeliveryProofs`: any number of deliveries, Ticks, invocations and copies.

- `TypeCorrectness`: `TypeOK` from `TypeInv`, which says component by component what a row,
  a run, a message and an invocation may look like, among them that a lease belongs to a row
  that is being sent.
- `LeaseProtection`: `SendsOnlyOwnRows`. The invariant is `LeaseOutlives`: a row of a run that
  still has time is leased to that run, and its lease has at least as much time left, or a
  consumer has settled it meanwhile. A step of time takes the same from both; only a lease
  that is over can be claimed.

- `AttemptsAreCounted`: `CallsAreCounted`. `AttemptInv` relates the invocations to the rows
  and the rows to the calls: an invocation owns its reservation and no other holds it
  (`AttemptsAreOwn`), who has called is on record (`CallsAreRecorded`), a row that is
  marked invoked was called and a called number keeps its row (`RowsMatchCalls`), and a
  count is the number of the rows (`CountIsOfRows`). The next number is above all that have a
  row; `Undo` takes one away, but only of a number that never reached the Target.
- `DeliveryImplementsContract`: `ImplementsContract`, one lemma per action. It adds
  `SentAreAccepted` (what is in the Queue, held or running was started and accepted) and
  `EffectsAreOnce` (a success that is on its way has its effect).

### Registration

Assumptions: `TargetsAreFinite`, `TokensHaveTargets`, `SizesAreNumbers`,
`CapacitiesAreNumbers`.

`RegistrationProofs`: any number of Targets, tokens, requests, keys and declarations.

- `RegistrationInvariant`: `RegistrationInv` is the types, `RequestsAreSound` (what a request
  remembers is still true: a token it found inactive stays so, a conflict it saw stays one)
  and `CurrentIsBound` (what is current is bound to its revision). `WorldMoves` is
  the monotonicity that keeps such memories true: revisions stay bound, tokens do not come back.
- `RegistrationTypeCorrect`, and `RegistrationTellsTheTruth`: `OutcomesAreTrue`. A success
  that is no repeat can only come from `Commit`, whose guards are the property.
- `RegistrationImplementsDeclaredState`: `ImplementsDeclaredState`. The guard sums the
  schedules of the other Targets, the abstract step those of all. Both are folds in the order
  of CHOOSE, and that they agree is proved without an induction theorem: a counterexample would
  have one of least cardinality (`BySize`), and that one has a smaller one.

### Registration tokens

Assumptions: `NoTokenIsNone`, `SomeAreSynced`, `KnownLifetimes`, `SecretsAreCounted`.

`RegistrationTokensProofs`: any number of tokens, Targets, requests, keys and secrets.

- `TokensInvariant`: `TokensInv` is `RowsInv` (types, `ChainsAreLinked`,
  `RawTokensAreDistinct`, and `ParentIsNamed`: the raw token of a row is derived from the id of its
  predecessor), `StoredInv` (a stored answer names a row whose raw token was derived from its
  scope, key and body) and `AllSound` (what each request has learned of its token and shows is true). `RowsMove`, that no
  row is deleted and no revocation taken back, carries the answers over the other steps.
- `TokensTypeCorrect`; `TokensStaySound`: `TokensAreSound`; `TokensImplementCredentials`:
  `ImplementsCredentials`. The two halves meet in `Credentials`: `Registration` assumes
  exactly what the token routes are proved to do.

### Tick

Assumptions: `RowsHaveTimeouts` (the executions are finitely many and have timeouts),
`BudgetsAreNumbers` (both pool limits at least 1), `NoneIsNone`.

`PlatformProofs`, section *A Tick*: any number of Ticks that overlap, of workers and of executions, any budgets.

- `TickInvariant`: `TickInv` says of each Tick (`TickSound`) that its list has each execution
  once, that a worker holds one the shared cursor has passed (`HeldIsTaken`) and no other worker
  holds (`HeldOnce`), that whatever failed is counted (`ErrorsAreCounted`: a paused Tick
  that did not throw has met no error) and that only a Tick in its pool has workers that
  await something; and of the heartbeat that who is named as successful is over
  (`SuccessIsOver`). The last is what `SuccessIsTrue` needs to be inductive: a Tick that
  ends changes no more. A step writes one Tick (`Becomes`), so `HeartbeatStays`
  serves all steps but `Finish`.
- `TickTypeCorrect`; `TicksStayAccountedFor`: `TicksAreAccountedFor`.

### Website worker

Assumption: `WorkerAssumption` (which Actions and scenarios there are, and that a stored
result is no word for how a call went). `Platform` instantiates `WebsiteWorker`, as it does the
modules below, rather than extending it; so their theorems state the assumption as a hypothesis,
`Platform` assumes it of its instance (`WebsiteAssumption`), and TLC evaluates that in the run.

`WebsiteWorkerProofs`: any number of calls, of keys and of payloads, any number of scenarios.

- `WebsiteInvariant`: `WebsiteInv` says of each call what it knows: a call before its first
  statement has written nothing and one that answers a failure never has (`Known`), what it
  answers as a success is in the tables (`Kept`), what it answers as definite has its receipt
  (`Receipted`), the last two unless the data were reset under it. What the platform was
  told is the answer of a call that is over (`AllToldTruly`), and a scenario that waits has a
  number no call has (`Numbered`). A call changes itself and adds to the tables, so the
  others' knowledge survives (`StaysSound`, from `TablesGrow`); a reset takes rows away and marks
  every call.
- `WebsiteTypeCorrect`; `AnswersStayEarned`: the run's `SuccessIsStored`,
  `FailureHasNoEffect` and `AnswerHasReceipt`; `ScenariosArePlayedOnce`.

### The administrators' mutations

Assumption: `OperationsAssumption` (the requests are finitely many, no answer is the word for
no row).

`AdminMutationsProofs`: any number of requests, actors, keys, settings and operations.

- `AdminInvariant`: `AdminInv` is inductive. `Requested` says that a request under way was found
  valid, and that a check has its verdict by the batch; `EventsAreMade` that an event is named by the
  request that made it, and no request by two; `AnswersHaveEvents` that a stored answer, and
  an answer of success, has an event that was asked for with its identity and body and gave its
  data; `KeysAreOnce` that an identity whose answer was never cleaned up has at most the one event its
  stored answer stands for; `StateIsAudited` that the log tells the history of every row. A batch
  adds its answer, its event and the value of the row together (`BatchWrites`, `BatchKeeps`),
  and the revision of the settings is the number of their events, so the proof counts events in a
  log that grows (`LogGrows`, `EventsAreFew`).
- `EffectHappensOnce`, `SuccessIsInTheLog`, `StateStaysAudited`, `UpdatesAreKept` (of two edits
  with one revision one succeeds) and `NoConflictAfterSuccess`.

### The parts of `Platform`

Assumptions: those of the modules, under the names `AdminAssumption`, `ThrottleAssumption`,
`TabAssumption`, `WebsiteAssumption`, `HistoryAssumption`, `CronAssumption`, `BoundAssumption`.
They ask for natural numbers, finite sets of rows and for markers that are no data; the one that is
more is `Window =< Block` of the throttle: the code's window and block are both fifteen
minutes.

`PlatformProofs` has one section for each part.

- *The session.* `SessionInv` is `RowsAreAudited` (a token with a row has its login event and no
  other, one that was not drawn has neither) and `CallsHold` (what a call carries and what
  its answer means: a query for the session that the tab still waits for, and that has
  a token, finds the cookie there). `SessionEndsAreAudited` and `PagesAreNotShownAgain` are the
  action properties; `TokensStayDrawn` the types, with `TokensAreDrawn` (cookies and calls
  carry tokens that were drawn) added.
- *The throttle.* `LimitInv`: the row's window holds exactly its last failures (`WindowHolds`), a
  login that is still to fail in a blocked window was let in before the block began
  (`LetInBefore`), and the failures from the one that blocked the source are of as many logins
  (`Overlap`), which bounds those past the limit by the logins under way. `CountStaysExact`,
  `OverlapIsBounded`, `RefusalHasItsReason`, `BlocksAreShort`.
- *A next run.* `HorizonInv`: a registered schedule has a next run, later than the instant it
  was calculated at, with no run between, and no Tick failed to find one. That eight years suffice is
  arithmetic: a leap day is missing for eight years at most. `RunsAreFound`.
- *A weekday field.* `DialectInv`: on its way a rule is as written or parsed once
  (`ParsedOnce`), never converted twice. That the parse of an entry gives the days Cloudflare means by
  it, wrap-around and steps included, is proved entry by entry. `DaysAreKept`.
- *A body.* `BodyInv`: unless too much was sent, what is kept is the text as far as it was sent, and
  `size` its length, however it was cut into chunks. A text is UTF-8 exactly when no character is torn
  (`IsUtf8`), and the texts a client sends are joined of whole ones (`Utf8Joins`). `BodyIsRead`.
- *A walk.* `PagingInv` relates what the walk has learned to the table as it is now, by the rows that
  have matched all the while (`steady`). `Reached` and `Covered`: each of them down to the end of
  a page, or down to a cursor, was shown. `Beside`: none lies between a page and the cursor it was
  cut by. The read in progress, the cursor in the URL, the page on the screen and the page left
  by the last click each have such a statement (`ReadIsSound`, `CursorIsSound`, `DataIsSound`,
  `ClickIsSound`). The window slides and rows change, which only takes rows out of `steady`, so a
  change of the table keeps all of it (`FewerIsEnough`). That the keys of a finite set have an
  order that `Sorted` can choose is proved by a smallest counterexample (`NewestExists`,
  `SortedExists`), which stands in for an induction. `WalksAreSound`.

Then the parts together. `PartsAreImplemented`: a step of `Platform` is a step or a stutter
of every part (`PartsMove`), so `PlatformSpec` implements the specification of each. From that and
the section of the part: `MutationsStayOnce`, `FailuresStayCounted`, `SessionsEndAudited`,
`AnswersStayTrue`, `WalksStayComplete`, `RulesStayAsMeant`, `BodiesStayBounded` and
`TypesStayCorrect` are the properties of the run `platform`. The theorems about mutations and a
website are in modules of their own, which `PlatformProofs` instantiates; an instance has its own
copy of the definitions, and `SameMutations`, `SameWebsite`, `SameOutcomes`, `SameAnswers` and
`SameTypes` show that the copies agree.

### What is only model-checked

Every invariant and every safety action property of the passing runs has a theorem. What
remains with TLC is liveness, with the fair half of the ledger's refinement
(`ImplementsFairSlot`): fairness and ENABLED are beyond the prover. Then the
three violations, whose counterexamples are on small instances by nature; and that the bounds in the guards
(`MaxTime`, `MaxChanges` and so on) hide nothing, which the theorems say for every
value of the bounds but not for none. No module uses RECURSIVE.

## 7. Findings

- **A registration can arm a schedule for an occurrence that is already recorded**
  (`d1/registration-repository.ts:123`, run `schedule_edit`). apply reads its clock,
  awaits several reads, and commits a `next_run_at` computed from that clock. If the next occurrence
  comes due in between and a Tick records it, an edit sets `next_run_at`
  back to it. materializeDue then inserts nothing (`ON CONFLICT(dedupe_key) DO
  NOTHING`) and its UPDATE asks for the execution it did not insert, so the schedule
  is due on every Tick and never moves, until it is edited, paused and resumed, or
  the recorded execution is deleted. `src/docs/cron-semantics.md:21` says an edit
  recomputes a future time from the actual clock. `DueOccurrenceSettles` is
  therefore stated for occurrences that are new.
- **An operator's retry is refused before the attempts are used**
  (`d1/execution-operations-repository.ts:168`, run `ledger_hard_limit`): the guard
  compares `attempt_limit`, the message speaks of attempts made.
- **A repeated declaration is refused for its size**
  (`d1/registration-repository.ts:161`, run `registration_repeat`): the capacity is
  compared before a repeat is recognised, so when the capacity was lowered after a
  declaration was published, sending it again is refused, though it adds nothing.
  `src/docs/self-registration.md:43` and `src/docs/protocol.md:80` call such a repeat a no-op.

Seen and not counted as disagreements, as no document speaks of them:

- When every row of a history page is gone by the time it is read, the page is empty and has
  no cursor back.
- The lists of schedules, targets and registrations, an execution that has settled, `AppShell`
  and the gate's session query have no `refetchInterval` (`targets-page.tsx:36`,
  `schedules-page.tsx:44`, `registrations-page.tsx:87`, `auth-gate.tsx:44`; `main.tsx:72` sets no
  default). A console that is left on one of them shows its page for ever after its session
  has ended, until the window is focused, another page is opened or the user acts.

## 8. Not modelled

The calendar of cron-parser with time zones and daylight saving (a library; unit tests fix
it); the cron fields other than the day fields; overview, success rates and detail views
(single SELECTs shown as they are); routing, the schemas' field lists and the mapping of
errors to status codes; the console's pages besides the gate and the lists, with the cache of the query
library; the SDK's definite failures for a summary or an output that is too large (they follow
an Action that has run and cannot occur in the example worker, so `FailureHasNoEffect` is said of
that worker and not of the SDK); JWT, password hash, token hash and cookie attributes (cryptography and constants); seeds,
build and deployment scripts. `targets.manifest.ts` is deployed with the code, so its effect is
a disabled schedule (`DisableInvalid`) or a changed Target (`Seed`).
