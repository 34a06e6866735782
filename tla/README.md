# Webhook ingestion: TLA+ models and proofs

This directory models the webhook ingestion service in `src/`: what it keeps in
MySQL, what its API and its workers do to that, and what its documentation
promises about it. Paths below are relative to the repository (`src/worker/...`).

To run it: `tlc -config <X>.cfg <Module>` for each run of the table in
"Runs", and `tlapm <Module>_proofs.tla` for each of the eight modules of proofs.

## The system

A vendor POSTs a webhook. The API stores its body in `raw_events` and answers.
A worker later claims the row, asks an LLM what the webhook means, and writes
the answer to `shipments` or `invoices` and their event tables. `raw_events` is
inbox and queue at once; there is no other broker.

| Component | State | Operations | Talks to |
|---|---|---|---|
| Ingest API (`api/server.js`) | none of its own; a pool of 10 connections per process | `POST /webhooks` (find or create by `body_hash`) | vendors, `raw_events` |
| Inbox and queue (`raw_events`, migration 1) | status, attempts, locked_until, entity_id, body_hash (unique) | SQL of the API and the workers | |
| Claim (`worker/claim.js`) | | claim a batch (`FOR UPDATE SKIP LOCKED`), set lease, re-fetch | `raw_events` |
| Process (`worker/process.js`) | the row as re-fetched, the LLM's answer | route, back off, dead-letter, settle | LLM, domain layer, `raw_events` |
| Loop (`worker/index.js`) | running | tick: claim, process all rows of the batch, wait for all | claim, process |
| Shipments (`domain/shipments.js`, migrations 2, 3) | `shipments` (unique natural_key), `shipment_events` (unique per shipment and webhook) | `applyShipmentEvent` inside the settle transaction | |
| Invoices (`domain/invoices.js`, migrations 4, 5) | `invoices`, `invoice_events`, same keys | `applyInvoiceEvent` inside the settle transaction | |
| Identity (`domain/identity.js`) | | `canonicalizeNaturalKey` | shipments, invoices |
| States (`domain/states.js`) | | ranks | shipments, invoices |
| LLM boundary (`llm/`) | | `normalize`: answer or error of a kind | LLM providers |
| Backoff (`worker/backoff.js`) | | delay by attempt | process |
| Read endpoints (`api/server.js`) | none | `GET /shipments`, `/invoices`, `/raw-events` | the tables |
| Replay harness (`scripts/replay-samples.js`) | what it has posted and read | POST all samples, POST one again, wait for drain, report | API |
| Health checks, models, configuration, logging | | | |

What makes the system hard to test:

- Workers are concurrent, and so are the jobs of one worker. A claim is
  protected by its lease alone: no later statement looks at it again.
- The LLM call is long, is covered by no transaction, and may be answered
  differently at each attempt.
- Processes crash between any two statements; statements fail; a COMMIT may take
  effect and its answer get lost. Failures of the statement that ends a job are
  swallowed by `Promise.allSettled`.
- Settle transactions of one entity run concurrently, and rely on row locks, gap
  locks and unique keys of InnoDB. Webhooks arrive in any order.
- Vendors retry, so POSTs of one body race, in one process or in several, each
  with a bounded pool of which a lost race needs two connections.
- The lease, the LLM's timeouts and retries, and the backoff are independent
  settings; that the lease outlasts a job is nowhere computed.
- Two providers classify one model's answer; errors of different kinds lead to
  different ends of the webhook.
- Clients read while workers write, an entity and its history by two queries.

What correctness means, component by component: the API acknowledges only what
is stored, and stores a body once. The claim gives a row to one worker, and every
row is settled in the end, within its attempts, by leases that outlast the jobs. The LLM
boundary lets only sound events through, from either provider. The settle keeps data and status
together and applies a webhook once. The domain layer keeps a history without
duplicates and a current state that is the furthest of it. The key function maps
the drifts it lists to one key and merges nothing else.

## Modules

| Module | Models | Lines of code |
|---|---|---|
| `EntityLedger` | what the domain layer promises, abstractly | `applyShipmentEvent`, `applyInvoiceEvent` |
| `WebhookQueue` | queue and workers, extends `EntityLedger` for the settle step | claim.js, process.js, index.js |
| `LeaseClock` | the queue in seconds: lease, stages of a job, backoff; extends `WebhookQueue` | config.js, backoff.js, claim.js, process.js |
| `ReplayedQueue` | the queue and an operator who replays settled rows; extends `WebhookQueue` | README 167, process.js |
| `ReplayHarness` | the queue, the harness and the read endpoints; extends `WebhookQueue` | replay-samples.js, server.js 104-125 |
| `LlmBoundary` | providers, schema, cross-field check and what processOne makes of them, for one row; implements `WebhookQueue` | llm/, process.js |
| `NaturalKey` | `canonicalizeNaturalKey`; extended by `LlmBoundary` | identity.js |
| `Shipments` | the settle of a shipment, one SQL statement per step, with InnoDB's locks | shipments.js, process.js 118-157 |
| `Invoices` | the settle of an invoice, column by column | invoices.js |
| `Inbox` | what the POST handler promises, abstractly | server.js 62-102 |
| `Ingest` | the POST handler, `findOrCreate`, pools, vendors; implements `Inbox` | server.js 62-102 |
| `MCWebhookQueue`, `MCLeaseClock`, `MCReplayedQueue`, `MCReplayHarness`, `MCShipments`, `MCInvoices` | values of constants for TLC | |
| `EntityLedger_proofs`, `WebhookQueue_proofs`, `LeaseClock_proofs`, `Replay_proofs` (harness and replays), `Ingest_proofs`, `Shipments_proofs`, `Invoices_proofs`, `LlmBoundary_proofs` | theorems | |

`Shipments` and `Invoices` each INSTANCE `EntityLedger` with a refinement mapping
(histories and current states read off the tables) and have its specification as a
property. `WebhookQueue` uses the ledger's own operators for what a settle
commits, so its variables `history` and `current` are the ledger's, and its
property `ImplementsLedger` says that nothing else in the queue touches them.

`WebhookQueue` is where the parts meet. `Ingest` says how a row comes into it,
`LlmBoundary` which answer a job gets, `Shipments` and `Invoices` what its one
settle step is made of, `LeaseClock` when its condition on leases holds;
`ReplayedQueue` and `ReplayHarness` add an operator and a client.

### WebhookQueue

| Variable | In the code |
|---|---|
| `status[r]` | raw_events.status; `"absent"` before the insert |
| `attempts[r]` | raw_events.attempts |
| `leased` | rows with locked_until in the future |
| `entityOf[r]` | raw_events.entity_type, entity_id |
| `job[w][r]` | the call of processOne that worker w runs for r: where it is, the attempts it read, what the LLM extracted |
| `history`, `current` | the event tables and current_state |

Actions: `Receive` (insert by the API); `Claim` (the claim's transaction: any rows
that others may hold locked are skipped), `Refetch`; `LlmAnswers`;
`RouteUnusable`, `DeadLetterNetwork`, `BackOffNetwork`, `MarkUnclassified`,
`RouteLowConfidence` (the branches of processOne that end in one UPDATE);
`Settle`, `SettleRollsBack`, `SettleAnswerLost`, then `DeadLetterSettle` or
`BackOffSettle` (the transaction and the catch branch); `StatusWriteFails`,
`RefetchFails`, `Crash` (a slot whose process died is taken by the next one);
`LockExpires` (time passes locked_until).

The worker's code between two SQL statements reads only its own memory, so a step
is one statement or one transaction. The settle transaction is one step here; that
its statements, interleaved with those of others under InnoDB's locks, amount
to one step is what `Shipments` checks. Time is not measured: a lease or a backoff
ends at some point. Two constants say what is assumed of the environment.
`LeaseCoversProcessing`: no lease ends while a job of its row runs; `LeaseClock`
says for which settings that is so.
`CommitAnswerReliable`: a COMMIT whose answer is lost took no effect. Runs with
both, and runs without, say what depends on them.

Graceful shutdown is a slot that claims no more. Clock differences between API and
database only delay the first claim. `worker_id`, `last_error`, `classification`
and the LLM telemetry decide nothing and are left out.

### LeaseClock

`lockLeft[r]` is locked_until minus NOW, `left[w][r]` the seconds in which the
stage of a job must end, `waited[r]` the seconds since the row was backed off
(a history variable). `Tick` is a second; it is refused while a stage or a lock has
none left, so that stages end in time and locks exactly on time. Every other step
is a step of `WebhookQueue`: `TimedClaim` sets the lease, `TimedBackOff` the
delay of `backoffSeconds` with its jitter, rounding and cap, and the others leave
the lock alone, as the code does: nothing renews a lease. The clock allows a lease
to run out under a job (`LeaseCoversProcessing` is FALSE here); that it never does
with `JobTime < Lease` is the result.

An LLM call may take `(maxRetries + 1) * timeout` and the SDK's pauses between the
requests. With the defaults that is about 94 of the 120 seconds; the rest is
for re-fetch, settle and catch branch. The pause and the times of statements are
assumptions on SDK and database, not settings of the code: with MySQL's own
limit of 50 s on a lock wait, the rest would not do.

### ReplayedQueue

`Replay(r)` is the README's UPDATE on a settled row. It touches nothing but the
status: attempts, entity and tables stay. `readAs[r]` is the state in the row's
llm_response, which the settle writes together with the status.

### ReplayHarness

`phase` is the next statement of the script, `unposted`, `raws`, `rows` and `events` are
its own variables. `Post` of a sample whose body is stored is absorbed; of
others it is `Receive`. A POST may fail, with or without its row, in either phase. `Drained` needs one
answer of /raw-events with nothing unsettled in its first `Limit` rows. The report
then reads each kind of entity by two queries with workers' steps in between.
A harness that gives up stops, which every step may be followed by.

### LlmBoundary

`output` is what the API returned for the attempt: nothing, a body without its
contents, one without a call of the tool, or a call whose input is one of about
twelve hundred: every type and confidence, with blocks that are missing, null,
faultless, or with one defect that the schema sees (a property missing or of the
wrong type, an unknown state) or that only a column sees (no date, out of range), and
inputs that are no object; from OpenAI, whose arguments are a string, also one that is
no JSON, and none or the empty one, which processOne cannot keep. `anthropicNormalize` and `openaiNormalize`
classify it, `validateToolInput` stands between; the actions are the branches of
processOne in their order, with the attempt whose answer is in llm_response.
`text` is the natural_key of the event, written by the model one character at a time
(`ReadKey`) while the settle looks it up. `StatusWriteFails`, `RefetchFails` and
`Crash` break an attempt off: the row stays `processing` until its lease ends, and is
claimed and asked about again. Hence `UnusableIsNotRetried` says that no branch puts
back an unusable answer, and that each of them but the last one has a fault of its
own (`unusable` counts them, `faults` the attempts broken off). A COMMIT's
answer is reliable here, and leases hold: the refinement mapping gives `WebhookQueue` one
row and one worker, with these faults. The types of all but `output` and
`response` follow from it (`TypeCorrect` below).

### Shipments

The tables hold what is committed; a transaction's own writes are in its record
`tx[t]` and are dropped by `RollBack`. A statement waits (`Waits`) for a row lock on
the shipment, for a gap lock on the key it inserts (only under REPEATABLE READ; both
isolation levels are explored, within one run), for the shared lock that
another's history row took on the raw_events row, or for another's status flip.
`RollBack` may happen at any statement: a deadlock victim, a timeout, a crash.
Locks of uncommitted rows on gaps are coarser than InnoDB's, which means more
waiting, not less. `doc_number` stands for the columns that only a creation writes,
`last_port_code` for those that an advance refreshes.

### Invoices

One application is one step, under the lock of the invoice's row; statements and
locks are those of `Shipments`. What is different is the columns: stamps and
fill-ins are written by every event that is not a duplicate. `amount_minor` and
`currency` stand for all the columns filled in once, each for itself: an invoice may
have the amount of one event and the currency of another.

### Ingest

`req[h]` says at which statement of `findOrCreate` a request is. Sequelize opens a
transaction, finds without a lock, creates, and after a duplicate key finds again
outside the transaction, on a second connection. Connections in use are counted
per process; `Stalled` is a process whose connections are all held by requests
that wait for one more, and `TimeOut` its 30-second end. `findOrCreate` and
the pool are not in `src/`; they are modelled as server.js uses them and are
marked external, as InnoDB's locks are. The refinement mapping reads `inbox` off
the rows by id; uncommitted rows are not in it.

### NaturalKey

A text over letters of both cases, a colon and a space; `key` is what the
function makes of it. `KeyIsWhatSurvives` compares the three passes with a
definition that says of each character whether it stays.

## Runs

| Run | Shows | Bounds | Distinct states |
|---|---|---|---|
| `queue_leases_hold` | `ExclusiveProcessing`, `SettleAtomic`, `AppliedAtMostOnce`, `AttemptsWithinBudget`, `SettledIsFinal` when leases and commit answers hold; of the harness, `ViewExplained`, `ReportIsFinal`, `SanityChecks` | 3 rows, 2 workers, 2 entities, 2 attempts, batches of 2, 1 fault, 3 samples and one again, answers of 2 rows | 2,758,373 |
| `queue_zombies` | what holds without either: the ledger | 2 rows, 2 workers, 1 entity, 2 states, 2 attempts, 1 fault | 2,688,540 |
| `queue_drains` | `QueueDrains`, `DeadOnlyWhenExhausted`, `NormalizedIsRecorded` without either, with a replay | 1 row, 2 workers, 2 attempts, 2 faults, 1 replay | 146,908 |
| `shipments` | the ledger implemented statement by statement; `RowRetoldByHistory`; deadlocks; every transaction ends | 3 webhooks (one read in two ways), 2 neighbouring keys, 3 connections, 3 settles | 61,898 |
| `invoices` | the ledger; stamps, money and current state are first of their kind | 1 key, 4 webhooks, 6 readings, all 4 states | 36,745 |
| `ingest` | the inbox implemented; acknowledged is stored; stalls; every POST is acknowledged in the end | 1 body, 2 processes, 4 requests, pools of 2, 1 fault | 77,760 |
| `extraction` | only sound events are settled; providers agree; no unusable answer is retried without a fault; what a human sees; the queue implemented; keys | every response, 2 attempts, 1 attempt broken off, keys of up to 5 characters of 5 | 903,135 |
| `lease_clock` | leases outlast jobs, so the queue is the one whose leases hold; retries are spaced | the default settings in seconds, 1 row, 2 workers, 3 attempts, 1 fault | 389,795 |
| `queue_zombie_applies` | violated: `AppliedAtMostOnce` | 1 row, no faults, leases may run out | |
| `queue_lost_answer` | violated: `SettleAtomic` | 1 row, 1 lost answer, leases hold | |
| `queue_crash_loop` | violated: `AttemptsBounded` | 1 row, 1 attempt, 1 fault: a crash or a failed re-fetch | |
| `queue_replay` | violated: `TablesFollowReading` | 1 row, 1 replay, no faults, leases hold | |

Why the bounds are enough. Two workers and one row suffice for a zombie and its
successor, two rows for batches that overlap and rows passed over; two entities suffice
for an extraction that changes; two states suffice for an advance, a tie and a late
event; a fault more than the attempts allow is not needed to see each failure branch
after each other one. In `shipments` three connections allow a deadlock over two
webhooks while a third waits; its two keys are neighbours, so that gap locks of one hit
inserts of the other. In `ingest` pools of two are the smallest in which a lost race can
get its second connection; the default of ten needs more duplicates at once for the same
stall. In `queue_leases_hold` the third row is the one that an answer of two rows does
not show; the fault may hit a POST's row, a claim or a settle. In `lease_clock` rows do
not compete for time, so one is enough, and three attempts have two backoffs of
different length. `queue_drains` has one row and batches of one, with which liveness is
checked in reasonable time: that a worker waits for its whole batch is in the model, and
exercised where only safety is checked. One block defect at a time is enough in
`extraction`, since Ajv refuses an input for any, and one fault to lose an unusable
answer and to ask again. Five characters can have two parts, both ends and a repeated
colon or an inner blank between them. `MaxFaults`, `MaxReplays`, `MaxSettles` and
`MaxLength` are the only artificial bounds, each in the guard of what it bounds.
Symmetry is used on the workers, in `queue_leases_hold`, `queue_zombies` and
`lease_clock` (their properties do not tell workers apart); never with liveness.

Runs say `CHECK_DEADLOCK FALSE` where a finished system stops: all rows settled
and the vendors silent, the report printed, `MaxSettles` used up. In `ingest`
and in `invoices` something can always be posted or applied again and TLC checks
for deadlocks.

### Fairness

- Queue: some worker claims when it can (the loop polls for ever; a container
  restarts a dead one), every job's next statement runs (the SDKs limit an LLM
  call's time and retries, statements end), and locked_until passes. No fairness
  on faults, crashes, `Receive` or `Replay`. `Claim` is fair for the workers together: one
  of them may starve.
- Shipments: a transaction whose statement can run runs it, and InnoDB breaks each
  deadlock by rolling back one of its members.
- Ingest: vendors retry without end until they have a 200 (README, "Failure
  modes catalog"), statements end, a request whose pool has a free connection again and
  again gets it (the pool is first come, first served), and acquire times out.

Every mutant of PROJECT.json is a plausible bug of the code (a lease not looked at,
a flip outside the transaction, `>=` for `>`); each property fails under one.
Variants are marked "Faulty variant" in the modules and used for nothing else.

## What disagrees with the documentation

1. README 126, "exactly-once": only while attempts extract the same entity
   (`OneReadingAppliesOnce`). A worker whose lease ran out writes without looking
   (`queue_zombie_applies`); the unique key is per entity, so another key is
   another history. No more entities get a webhook than it was claimed times
   (`ZombiesAreCounted`).
2. process.js 153, "The transaction rolled back": not if COMMIT's answer was lost
   (`queue_lost_answer`); the row may even end up dead with its data applied.
3. config.js 44, "Max processing attempts": not looked at when a claim loses its
   owner: the worker dies, or its re-fetch fails (`queue_crash_loop`). What does hold is `AttemptsWithinBudget`.
4. README 295, "replay is a SQL statement" that repairs wrong outputs: a replayed
   webhook that is read correctly this time is a duplicate for its entity and
   skipped, or, under another key, is in two entities (`queue_replay`). Before the
   first replay (`FirstReadingsAreFollowed`), and while a replay reads what was read
   before (`UnchangedReadingsAreFollowed`), the property holds.

Two smaller ones, of wording, have no run. invoices.js 17-19 says that stamps are
set "only on advancement"; line 86 stamps the state of every event, and the
sample run expects that (`StampsAreFirst` is what holds). identity.js 20 says that
"leading/trailing whitespace" is normalized; line 36 trims before the outer colons
are stripped, so a blank inside them stays (`KeyIsWhatSurvives` says so, and
`KeysAreFixed` that only then a key is not its own key).

## Theorems

Proved by TLAPS for any number of rows, workers and entities, any ranks, batch
size, number of attempts and faults, and any settings. Assumed:
`LedgerAssumption` (ranks are positive, a state is not the mark for none),
`QueueAssumption` (what the LLM extracts names an entity and a state; the
numbers are natural), and the assumptions on the constants of the other modules,
which say no more than their kind. In `WebhookQueue_proofs`:

- Without any assumption on leases and answers: `TypeCorrect`;
  `QueueImplementsLedger` and, through it, `QueueHistoryUnique`,
  `QueueCurrentIsFurthest`, `QueueMarksRecordHighs`; `NormalizedStaysRecorded`;
  `DeadAreExhausted`.
- With `LeaseCoversProcessing` and `CommitAnswerReliable`: `JobsStayApart`,
  `SettlesAreAtomic`, `WebhooksApplyOnce`, `SettledStaysFinal`,
  `AttemptsStayWithinBudget` (this one with maxAttempts at least 1).
- Again without them, but for webhooks that are read alike in every attempt (`ReadAs`;
  of `OneReadingAppliesOnce`, only as being about one entity): `OneReadingAppliesOnce`
  (`AppliedAtMostOnce`); `TablesComeFromReadings`, the tables are what the readings
  say; `OrderDoesNotMatter`, where no two states have one rank, the state of an entity
  does not depend on any order.
- Again without them, for any readings: `ZombiesAreCounted`.

In `EntityLedger_proofs`: `LedgerTypeCorrect`, `HistoryStaysUnique`,
`CurrentStaysFurthest`, `AdvancedMarksStayTrue`, `StateNeverRegresses`.

In `LeaseClock_proofs`, for settings with `JobTime < Lease`: `LeasesOutlastJobs`;
`LongLeasesCover`, which says that the clocked queue implements the queue with
`LeaseCoversProcessing`; and, of the clocked queue itself, where nothing is assumed
of leases but these settings, `LongLeasesKeepApart` (`ExclusiveProcessing`, `SettleAtomic`,
`AppliedAtMostOnce`), `LongLeasesSettleForGood` (`SettledIsFinal`) and
`LongLeasesKeepBudget` (`AttemptsWithinBudget`), if commit answers arrive.
`RetriesStaySpaced` (`RetriesAreSpaced`) needs maxAttempts to be at most 7, which
its default of 5 is: the cap of an hour is less than half the base delay of the
seventh attempt.

In `Replay_proofs`: `HarnessActsAsVendor` (the queue's theorems hold with
the harness), `ViewsAreExplained`; with leases and answers that hold,
`ReportsAreFinal` and `ChecksPass`, and, for samples that are read alike,
`ReportsComeFromReadings`: from the POSTs to the report, an entity is shown in the
furthest state that a normalized sample says. For any number of replays,
`ReplayImplementsLedger`, `ReplayedDeadAreExhausted` and `ReplaysAreCounted`; while
readings stay alike, `ReplayedTablesComeFromReadings` and
`UnchangedReadingsAreFollowed`; and `FirstReadingsAreFollowed`, until something is
replayed, with leases and answers that hold. In `Ingest_proofs`:
`IngestTypeCorrect`, `AcknowledgedOnce`, `IngestImplementsInbox`, `StallsAreForeign`.

In `Shipments_proofs`, for any keys, webhooks, readings, transactions, settles and
either isolation level: `ShipmentsTypeCorrect`, `DeadlocksAreOverFirstEvents`,
`RowsStayRetold`, and `ShipmentsImplementLedger`: the statements of concurrent
settles, with rollbacks anywhere, amount to the one step of the ledger that
`WebhookQueue` takes. In `Invoices_proofs`, for any keys, webhooks, readings and
ranks: `InvoicesTypeCorrect`, `StampsStayFirst`, `MoneyStaysFirst`,
`CurrentStaysFirstOfItsRank`, `InvoicesImplementLedger`. Both assume besides that Null
is no row (`NullAssumption`).

In `LlmBoundary_proofs`, for every response in every attempt, any limit on
attempts and any number of them broken off: `OnlySoundEventsSettle`, `ProvidersStayAlike`, `UnusableGoesToReview`,
`EvidenceIsOfLastAttempt`, and `BoundaryImplementsQueue`: every step is one step of
`WebhookQueue` for its one row and one worker, or none. Of the keys, for texts of any
length: `KeysAreWhatSurvive` (`KeyIsWhatSurvives`); `VariantsShareKey`, the drifts that
identity.js lists lead to one key; `KeysAreCanonical`, no key has a capital, a
colon at an end or two colons in a row; `KeysAreFixed`.

### The arguments

Ledger and queue. The ledger's invariants are inductive with its types, except that
`AdvancedMarksRecordHighs` needs `CurrentIsFurthest`: the flag compares with the
current state, the invariant with the history. They carry over to the queue by
`LedgerSimulation`: each step of the queue is a step of the ledger or leaves it
alone. `SettleAtomic` and `AppliedAtMostOnce` are not inductive: that a settling
row has no data yet follows from its status, and that it still has the status it
was claimed with from `ExclusiveProcessing`. The three together (`LeaseInv`) are,
for steps that end no lease under a job (`NoLeaseLost`): the queue's steps are such
with `LeaseCoversProcessing`, and the clock's with a long lease.
`DeadOnlyWhenExhausted` needs `JobAttemptsBehind` (a job's count is never ahead of
the row's); `AttemptsWithinBudget` needs `BudgetInv`: a row nobody works on has
used fewer attempts than allowed, or a fault accounts for the missing one.
The conditions are needed: without `LeaseCoversProcessing` exactly the step
`LockExpires` loses a lease, and without `CommitAnswerReliable` exactly
`SettleAnswerLost` of `LeaseStep` fails, as the two runs that violate the properties show.

Readings. Only a commit writes to the tables (`OnlySettlesWrite`), and a commit
writes the event of its job. So the histories hold what was read (`RowsAs`) whoever
commits, which gives `TablesAs` with `NormalizedIsRecorded` and
`CurrentIsFurthest`: the readings decide, and workers, leases and order only when.
For `ZombiesAreCounted`, each claim opens one job of its row and each job commits at
most once, a job whose answer was lost included: the entities that have a webhook
and the jobs that may still commit it are together no more than its claims
(`ClaimsCover`).

Clock. `LeaseAheadOfJob` says, per stage of a job, that the lease has more time left than
this stage and those that may follow. With it goes `OneOwner`: a lease is set for
a row whose lock has run out, and the invariant says that no job is left then. A
stage that ends leaves the next one no more time than was planned for it. For the
backoff, what a pending row has waited and what its lock has left are never less
together than half the base delay (`WaitsLong`), and a job's count is the row's
(`JobAttemptsExact`), so that the delay is that of the attempt that failed.

Harness and replays. `ViewExplained` is inductive with what is known between the two queries: a state
that was read is one that the history had and, since histories only grow, still
has. `ReportIsFinal` needs that nothing is in flight once all rows that exist are
settled (`Quiet`): a job's row is `processing` while leases hold, so no job is left
that could write, and the harness posts nothing any more. `ChecksPass` then reads its
claims off the queue's invariants. `ReportAs` is `TablesAs` of the tables that the
report equals. A replay keeps the ledger because it touches neither table, and
`DeadInv` and `ClaimsCover` because it touches no attempts and no job. Until then a
row that settles is in no history (`LeaseInv`), so the entry it gets is its only one
and says what the row says (`FollowStep`).

Ingest (`RowsInv`): of the requests for a body one at most holds an
uncommitted row, and only if none is stored; a request that found the row, or lost
the race and found it, has it stored. Rows are never deleted, so each step appends a
body that was not there, or none. The stall needs
the count of connections (`PoolInv`): requests that lost against a winner of their own
process never hold the whole pool, since the winner gave its connection back, and
whoever took it since found the row or lost to another process.

Shipments. From its insert on, a transaction is alone with its shipment (`LockInv`):
the lock it holds since it found, created or re-found the row. Two that lost the race for a
creation share a lock, and neither writes before the other has ended, which is also
the deadlock that the theorem leaves over. So what a transaction has read stays what
is committed until it commits (`WriteInv`, by the point it has come to: the row it
started from, whether the event is new, whether it outranks), and
its commit is the only step that changes the tables: one append and, if it
advances, one move, which is the ledger's step and keeps the row retold. That
transactions on shipments that exist do not deadlock follows from the shape of the
waiting: who waits is finding, who is waited for is writing, and nobody does both.

Invoices. An invoice that is not there counts as a row of which nothing has been said
(`Before`), so that creation and update have one effect (`ApplyEffect`): an append,
and every column filled in if it was empty. The first of the positions that
supply a column stays the first when a history grows (`FirstStays`), or is the new one
(`FirstAppears`). A state that ties does not advance, so of a rank the first stays.
The refinement compares one step with one step: what interleaves is in `Shipments`.

LLM boundary. `BoundaryInv` adds to the properties that the row follows the job
(`RowInv`) and that what is being settled was validated, ranked and not of low
confidence (`ReadInv`); only a response and the re-fetch before it change what
was read. That each unusable answer but the last one has its fault is inductive: only a
broken-off attempt brings the row back from such an answer, and the answer is then
paid for by the fault. In the refinement the validated answer is the event of the job, and the commit
its entity's first.

Keys. A pass that drops characters is described by the positions it keeps: a result
`Selects` a set of positions of a text if its length is their number and the
character at each is in the place of that position among them (`Place`). `StripEnds`
selects an interval; the fold of `CollapseColons` selects, after each of its steps,
the positions of all but the colons before a colon (`LastsGrow`); and what is
selected from a selection is a selection. Composed, they select `Survivors`, the
characters that `Survives` describes (`KeySelects`). Two texts of which the same
survives in the same order have one key (`SameSurvivors`). The two inductions, over
the steps of the fold and over a set that has a least element, are on sets of
numbers (`SetInduction`, `LeastOf`): the library's theorem that `<` is well-founded
on the naturals takes a set where its induction theorems take an operator.

Only model-checked: liveness (`QueueDrains`, `TransactionsEnd`, `SentGetsAcked`),
which is beyond the prover. The replay harness is checked with leases that hold; what
the report shows without them follows from `ViewsAreExplained` alone.

## Not modelled

The prompt (text), and what the model makes of it; health checks (no state);
models, most of the configuration, and logging (declarations); the fixtures of the
harness and its printing; answers 400 and 413 of the API, which touch nothing; the
payload and every column that no decision reads; the idle pause of the loop.
Graceful shutdown is requests and batches that end, and its forced exit is a crash.

## Plan

Done: ledger, queue, settle, ingest and inbox, keys, the LLM boundary, the lease's
clock and the backoff, replays, the harness and the read endpoints, with proofs of all
of their safety properties. Left:

1. `Pipeline`: ingest, queue and settle composed through `raw_events`, with
   "acknowledged webhooks are settled" as its promise.
2. Theorems about the queue with crashes counted per row, which would sharpen
   `AttemptsWithinBudget`.
