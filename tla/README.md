# HiFiScout in TLA+

HiFiScout collects used-audio listings from Japanese shops on Cloudflare
Workers, D1 and Durable Objects, derives search projections and product
identities from them, and serves them.  This directory models the part of it
that is hard to test: work that is dispatched, interrupted, retried and
replayed by several invocations that share nothing but rows of D1, the storage
of a Durable Object (DO), and Queue messages.  Paths are relative to the
repository root; `crawler/`, `db/`, ... stand for `src/crawler/`, `src/db/`, ....

    CrawlGenerations            what the control plane promises (abstract)
        ^ implemented by
    CrawlDispatch               reservation, delivery, watchdog, admin, DO alarm
    CrawlCollection             one collection run: pages, receipts, publication
    CrawlContinuation           derived stages, sweep, refreshes, obligations

    PendingMaintenance          the rows a cron tick owes
    RemediationQueue            jobs that derive and refresh listings again
        both composed in
    GeneralCron                 ticks, the sweep they run, an administrator's drain
    ExactIdentities             the dirty set of identities and its passes
    Subsequences                selections of a sequence, used by both queues

    ReviewRuns                  what a review run promises (abstract)
        ^ implemented by
    VerificationQueue           verification jobs, consumers, leases, recovery

    ExportLog                   what an export promises (abstract)
        ^ implemented by
    DataExport                  export jobs, pages, messages, dead letters

    <module>_proofs             theorems, with TLAPS proofs
    MC<module>, <module>_<run>.cfg   the instances TLC checks

`PROJECT.json` lists the runs, the source lines of every definition, the
hazards with the properties aimed at them, and the theorems.

## 1. Inventory

### Crawl control plane — `crawler/dispatch.ts`, `crawl-lifecycle.ts`, `orchestration.ts`, `admin-crawl.ts`, `db/shop-state-repository.ts`

- State: the `shop_sync_state` row of each shop (`dispatch_token`,
  `dispatched_at`, `admin_paused`, backoff, watermarks).
- Operations: the crawl cron reserves due shops and delivers a command to the
  shop's DO; a refused or failed delivery gives the reservation back; the
  watchdog of the general cron delivers a reservation again when its lease is
  old; an administrator runs, pauses or resumes a shop.
- Interacts with the DO over HTTP (202, 409, or an error that says nothing of
  what happened) and with its own other invocations over the row.
- Hard: overlapping invocations, ambiguous deliveries, decisions on a snapshot.
- Correct when: only the newest generation works; nobody takes away a
  reservation that was acknowledged; a reservation is not lost; pause holds.

### CrawlScheduler Durable Object — `crawler/crawl-scheduler-do.ts`, `resumable-queue-contract.ts`

- State: the execution (command, cursor, inventory and detail progress), the
  local pause gate, request permits, the alarm.
- Operations: `startCrawl`, `alarm`, `adminControl` (under
  `blockConcurrencyWhile`), status; one bounded step per alarm.
- Hard: a handler is suspended at every awaited D1 call while other requests
  reach the object; it can die between any two writes; alarms are retried, then
  given up.
- Correct when: the local gate agrees with the row; a retried step does not ask
  the seller twice; the cursor and D1 agree again after any crash.

### Resumable collection and finalization — `crawler/resumable-*.ts`, `collection-progress.ts`, `db/crawl-fetch-*.ts`, `db/crawl-run-repository.ts`

- State: `crawl_fetch_sessions` (status, checkpointed progress, claim),
  `crawl_fetch_pages` (state, staged products, receipt), `crawl_runs`.
- Operations: create session and frontier; fetch, parse and commit one page;
  recover a committed page; checkpoint; fail; claim the finalization, publish,
  record the outcome.
- Hard: no transaction spans D1 and DO storage; commits land late; claims expire.
- Correct when: counters are exact under replay, coverage reported as complete
  is complete, an outcome is published once, the run ends.

### Listing publication and derived work — `crawler/run.ts`, `crawl-continuation.ts`, `crawl-stages.ts`, `db/crawl-run-continuation-repository.ts`, `db/listing-projection-*.ts`, `db/product-*-repository.ts`

- State: `products`, one obligation token per listing
  (`listing_projection_pending`), a run's `crawl_run_work_items` and
  `crawl_run_stages` with cursors, the projections themselves, the projection
  watermark.
- Operations: write listings, record the work set, drain four stages in chunks
  inline, defer; the cron sweep resumes or retires runs; refreshes project single
  listings.
- Hard: crawl, sweep and any number of refreshes work on the same listings with
  no lock; each reads in one call and writes in a later one.
- Correct when: an acknowledgement never clears what it did not project; a
  cursor, a finished stage and the watermark never run ahead of the work;
  everything owed is eventually done.

### General cron and pending maintenance — `scheduled.ts`, `db/scheduled-maintenance-repository.ts`, `db/invocation-budget.ts`

- State: one pending row per owed task, with its lease (`claimed_at`) and claim
  token; the D1 calls an invocation has left.
- Operations: a tick writes down what is due, lists the rows by last attempt,
  claims, runs and deletes them one by one.
- Hard: ticks are five minutes apart and a claim holds for four, so a tick that
  is still at work loses its claim to the next; the budget ends a tick anywhere.
- Correct when: a task that did not succeed is owed still; every task gets a turn.

### Data-quality remediation — `db/data-quality-remediation-queue-repository.ts`, `-service.ts`

- State: a queue of jobs with attempts and leases, a unique work key; on each
  listing a marker with a token.
- Operations: seed by what listings need, claim, derive, refresh, clear the
  marker, resolve, retry, recover.
- Hard: the cron's sweep and the administrator's drain settle jobs by id and
  status only, each may be late; listings change under a replay.
- Correct when: no clear loses a change; what is stale is replayed or given up
  openly.

### Exact-identity dirty set — `db/product-search-exact-identity-dirty.ts`

- State: rows that triggers dirty, with a claim; the entity of each listing.
- Operations: a pass claims all that is dirty, compares, repairs a few, settles.
- Hard: an identity is dirtied while it is repaired, a pass overlaps the next,
  a repair always throws.
- Correct when: what drifted is queued; every mark is served.

### Knowledge-catalog verification — `knowledge-catalog/*`, `db/knowledge-catalog-*`

- State: review runs, their jobs with delivery and source attempts, a lease per
  job and per manufacturer's domain, wake-up messages, the verifier's rollout.
- Operations: open a run, seal its targets, wake it, claim a job, ask the
  source, retry, finalize; watch, fail and recover runs.
- Hard: at-least-once wake-ups, leases that lapse under slow answers, a run
  that was never sealed, a finalizer that is last.
- Correct when: a target keeps its answer; a run succeeds only with every
  target answered; one request at a time goes to a domain; runs close.

### Exports — `export/*`, `db/data-export-job-lifecycle.ts`

- State: a job with cursor and lease in D1, pages in R2, a message per page.
- Operations: start, claim a page, read, store, send the next message, advance;
  dead letters; the nudge of stale jobs; deadline and expiry.
- Hard: the cursor in the row, the cursor in the message and the pages are
  written apart; messages are repeated or lost; the source changes.
- Correct when: a file that is ready is whole; files inside it are not torn;
  a job that is behind its message is not abandoned.

### The rest

| part | state and operations |
|---|---|
| notifications (`notifications/*`) | watches, window cursor, outbox and daily budget in one DO |
| detail enrichment, inventory recheck (`crawler/detail-enrichment-plan.ts`, `inventory-recheck.ts`) | cursor over staged targets; a candidate and its state |
| Yahoo auctions DO (`auctions/*`) | task queue, budgets, generations; off in the deployed configuration |
| administrator background jobs (`admin/background-jobs.ts`) | stored item states, one coordinator |
| AI suggestions, price index, market analysis | budgeted queue; SQL aggregates |
| resolution rules, parsers, shop plugins | none: pure functions |
| public API, front end, scripts, relay Lambda, evidence archive | reads, browser code, tooling, write-once R2 objects |

`PROJECT.json` "components" gives every part its files and its status.

## 2. The modules and the code

### CrawlDispatch

One shop.  A *generation* is one `dispatch_token`, which is the shop's key and the
time of the request (`crawlDispatchToken`).  Two reservations of one shop are
taken to have different times, so a generation is numbered by the reservation
that wrote it (`row.token = 0` is NULL).  Variables: `row` (the D1 row),
`session` (status of each generation's `crawl_fetch_sessions` row), `exec`,
`doPaused`, `alarm` (DO storage),
`handler` and `control` (the DO's running events), `worker` and `dog` (Worker
invocations), `env` (deployment switch, quiet hours), and the histories `gen`,
`acked`, `ended`.

- A DO handler is cut exactly at its D1 calls: the runtime delivers other
  events to the object while one waits for D1, and does not during calls to its
  own storage.  `adminControl` runs under `blockConcurrencyWhile`: `Unblocked`
  guards every other event of the object, and a throw in it resets the object
  (`ControlFails` takes the running `alarm()` with it).
- `DispatchBegin/Read/Reserve/Deliver/Release` are `dispatchOneCrawl` and one
  round of `dispatchDueCrawls`; `AdminRun/Read/Deliver` the administrator's run;
  `DogRead/Deliver/Mark` `recoverStalledCrawlDispatches`, which acts on a
  snapshot.  `DeliveryError` is a delivery that never arrived, was processed in
  part (execution stored, alarm not armed) or was processed and not answered.
- `AlarmFires`, `StepBegins`, `DetailStep`, `Fence`, `Work`, `Put`,
  `TerminalRelease`, `Finish`, `InventoryStep` are `alarm` and
  `runExecutionStep`; `HandlerCrash` ends one anywhere, with the alarm retried or
  given up.  An executor that asks for a retry leaves the command and an armed
  alarm, as a crash does; it does so only after a finalizer died, so it is one of
  the faults here, and CrawlCollection has it as a step of its own.
- `Put` is the write of the execution and the arming of its alarm, with no other
  event in between; `HandlerCrash` covers the loss of the alarm.
- Not here: due times and backoff (which shop goes first), the page contents
  (CrawlCollection), the length of leases and delays (`row.stale` may become true
  at any time, which is weaker than any length).

### CrawlGenerations

The abstract promise: generations begin in order, go on only while they are the
latest, and end once.  `session` maps to itself; every other variable of
CrawlDispatch is a detail.  The dispatch tokens, the fence of the executor and
the token comparisons of the releases are what makes it true.

### CrawlCollection

One collection run, on the path the deployment uses: progress in the DO
(`progress_storage = durable_object`), the page parsed in the alarm that fetched
it.  `session`, `state`, `ordinal`, `staged`, `receipt`, `run`, `fresh` are D1
rows; `exec` is the stored execution with its permit; `step` is the handler, with
what it has read so far (`value`, `seen`, `batch`); `flying` are commits sent by
dead handlers that D1 has not applied yet.

- Each action is one call: a D1 statement or batch, a storage write, a request.
  The request, the parse and the frontier reads after it are one action
  (`Ask`): they write nothing, and of D1's writers only a late commit can come
  between, which it can equally do before or after.
- A page's answer is any element of `Answers`, chosen anew for every request:
  sellers change between a request and its replay.
- `pages_fetched` moves with `pages_parsed` on this path; `reached_end` and
  `last_completed_page` are only reported.  Links are accepted in ascending
  order, which fixes only their names.
- `PrepareFails`, `PermitExpires`, `AskFails`, `PublishUnrecorded`,
  `PublishFails`, `Crash` are the faults; only page commits land late
  (`MaxLate`), other writes end with their handler.
- A `retry` (`Retried`) clears the permit and keeps the command: the session is
  behind the command, or another finalizer's claim is fresh.
- The token check before each step is CrawlDispatch's; detail enrichment and
  inventory are not in this module.

### CrawlContinuation

One shop's listings and `crawl_runs` rows.  A projection is represented by the
version of the listing it was computed from: `image[s][l]` is what stage `s`
last wrote for listing `l`, `shown[s][l]` the newest version it has been
completed for.  A token of an obligation is the version whose change wrote it.

- Each action is one D1 call.  Stages 1 and 2 read, then write in a later call
  (`DrainRead`/`DrainWrite`, `RefreshReads`/`RefreshWrites`); entity sync and
  cleanup are one batch that reads the stored identity.  The cleanup touches a
  nondeterministic subset of its window (the listings that are gone but hold an
  offer) and acknowledges nothing.  The SELECT and DELETE of an acknowledgement
  are one action: the DELETE compares the token itself.
- `CrawlStarts` … `CrawlFinishes` are `crawlShop` after its listing write;
  `CrawlDefers` leaves work to the sweep, `CrawlMovesOn` stops waiting for a write
  whose outcome it does not need, `CrawlFails` and `CrawlCrashes` end it.  A
  failed run's drain may go on for a while, as `withTimeout` does not cancel it;
  a new crawl begins only when it is over (backoff is at least 15 minutes).
- A crawl may stop draining at any call of a stage (`CrawlDefers`): its deadline
  or an error of any statement.  An outcome write or a `recordCrawlRunWorkSet`
  that `crawlShop` stopped waiting for happens in the order of its statements or
  not at all; that it lands after the crawl is over is not modelled.
- `Sweep*` is one run of `resumeInterruptedCrawlRuns`; one sweeper exists, as
  its task has a four-minute lease and a 20-second budget.  Its
  `ensureCrawlRunStages` changes nothing for runs this version recorded.
- Only listings with an obligation are refreshed, one per refresh.  Stage
  failure counters, which only order retries, are left out.
- `late` marks items that a reopened run adds when its stages already exist.
  The safety properties make no claim for them; section 5 says why.

### PendingMaintenance, RemediationQueue, GeneralCron

`row` is `scheduled_maintenance_pending`, `tick` the invocations of the general
cron, `served` the history that FailedIsKept compares the rows with.  Times
are ticks; only their order is compared, so each tick re-ranks the ones still
in use (`Rank`) and time needs no bound.  A four-minute lease has always lapsed
at the next five-minute tick, so `Claimable` is "claimed before this tick".

- `TickBegins` is `enqueueMaintenance` of everything due and the list of pending
  rows; `TickClaims`, `TaskEnds`, `TickStops`, `TickYields` are the loop of
  `runPendingMaintenance` with its claim, its settlement by token and its two
  budgets.  A task's work and its settlement are one step: a death between them
  leaves what a failed task leaves.
- In RemediationQueue `job` is the open rows by work key, `queue` their order,
  `worker` a sweep or drain at work; `own` says that its row is still the one it
  claimed and `mine` that the marker's token is one it has seen or written.
  `unshown`, the history of changes no refresh has read since, is what the
  marker stands for.
- `Seeds`, `Claims`, `Prepares`, `Refreshes`, `Clears`, `Resolves`,
  `ReadsAttempts`, `RetriesOrFails`, `Recovers` are the statements of a sweep;
  the refresh is one step, every listing is active.  Seed windows, cursors, their
  rotation, targeted requests, retry delays, priorities and compaction only
  choose which job is next and are left out; the drain does one job at a time,
  and its bulk replays are not here.  The versions that fall behind are one, and
  a job's load is merged with the compare-and-set it leads to.
- GeneralCron lets the task `Sweep` run the queue and gives every other task only
  an outcome.  Poisoned listings (their replay always throws) count as faults.
  A job that throws is retried within the sweep (`JobFails`); a sweep whose own
  statements throw (`SweepFails`) keeps its row while the walk goes on.

### ExactIdentities

`listing` is the rows of `products` as far as grouping reads them, `member` the
entity each listing is offered by, `queue`, `claim`, `age` the dirty rows, `pass`
the cron's passes, `crawl` a crawl's own sync between its read of the peers and
its batch.  `Change` runs the triggers; `PassReleases` to `PassSettles` are the
statements of a pass; what a filter leaves of a list is `Among`, which counts
places, as `InTurn` does in PendingMaintenance for the order of the tasks: a
recursive filter or sort could not be reasoned about. A claim is ten minutes
old at the second tick after it was made, which is `LeasePasses`. `Batch` is
one D1 batch, evaluated on the rows it finds; the peers it extends to were
read before it. A listing that leaves an identity is regrouped by the sync of
its own row, never by its old identity's.

### VerificationQueue and ReviewRuns

`run`, `job`, `domain`, `rollout` are D1 tables, `wakes` and `dead` the queues,
`consumer` the queue consumer's invocations (`WakeTaken` to `SliceEnds`),
`task` the two maintenance tasks (`Daily*`, and the bootstrap: `RolloutClaimed` to
`RunAdopted`).  Each action is one D1 call.  Time is left out: a lease lapses, a
retry comes due, a cooldown ends at any moment.  All targets share one domain,
the case the lease is for.  With `Overrun` a consumer may outlive its leases (the
environment allows leases from 60 s, the consumer's limit is 15 minutes); without
it they hold for as long as it runs, as shipped (900 s).

A SELECT is merged with the conditional UPDATE that fences it, the domain lease
with the attempt it counts (a crash in between only costs an attempt).  A release
of the domain that itself throws is left out, and a retry's delay, minutes long,
is taken to outlast the release that follows it (`Releasing`).

`ImplementsReview` maps a run to `phase`, the existence of its finalizer's job to
`fixed` (the finalizer is inserted in the batch that seals the targets) and the
jobs that are not terminal to `open`.

### DataExport and ExportLog

`job` is the export rows, `chunk` the pages in R2, `main` and `dlq` the queues,
`worker` the deliveries, `dead` the dead-letter consumer, `starter` the request
that opened a job; `rows` and `file` are the source, which changes.  A job of
format "csv" pages by id with the id as cursor; one of format "complete" pages
through a table and then the parts of evidence files, its place kept with the
page before.

- `Claim`, `FindPage`, `ReadPage`, `PutPage`, `TooLarge`, `SendNext`, `Advance`,
  `GivesUp`, `Throws`, `Dies` are one delivery; `IsPast` and `Unclaimable`
  its early returns.
- Simplifications: `updated_at` staleness is folded into `Nudge`, which may
  come at any time a job is queued or its lease has lapsed; the read after a
  failed claim is merged with the claim, a throw with the release it causes, a
  dead letter's read with the message it sends, a nudge's reservation with its
  message; how
  many retries precede a dead letter is left open.  The message of a new job is that
  of the row as it was inserted (`FirstMessage`), however late it is sent.  `Quiet`: a message that has
  nothing left to do is acknowledged before other steps are looked at, which
  commutes with all of them.
- `ImplementsLog` maps the pages below the cursor to `pages`.

The three machines meet in D1 rows: CrawlDispatch's `session` is the status of
CrawlCollection's session, CrawlCollection's `Publish` is CrawlContinuation's
`CrawlStarts` to `CrawlFinishes`.  They are checked apart: each takes the other's
interface as nondeterministic (CrawlDispatch lets a collection succeed or fail at
any step; CrawlContinuation lets a publication start, reopen or die at any time;
CrawlCollection lets it succeed, fail or go unrecorded).

## 3. The runs

One run per question.  `CHECK_DEADLOCK FALSE` everywhere: with nothing due the
system stops.

| run | instance | what it shows |
|---|---|---|
| dispatch_safety | 2 Worker invocations (symmetric), watchdog, administrator, 2 generations, a detail target, 2 rechecks, 1 fault | TypeOK, GenerationFence, AcknowledgedKeepsReservation, PauseGateOrder, ImplementsGenerations: late releases and redeliveries never mix up generations, pauses cut short leave the gate closed |
| dispatch_live | 1 invocation, nights, 1 fault, fair | ReservationIsServed |
| collection_pages | 3 pages, a direct shop (limit 3) and a relayed one (limit 2), 1 fault, 1 late commit, fair | TypeOK, CountersAreExact, ReceiptsFormAChain, OrdinalsAreDense, OneRequestPerPermit, CompleteIsComplete, PublishedOnce, CollectionEnds: replay neither counts twice nor skips, and the run ends |
| continuation_chunks | 2 listings, chunks of 1, 2 runs, 2 crawls, an edit of each, 1 fault | TypeOK, WorkIsShown, WatermarkIsEarned, WorkOutlivesStages, StagesInOrder |
| continuation_refresh | 1 listing of 3 versions, a crawl, the sweep, a repair, 1 fault | NothingForgotten |
| continuation_live | 1 listing, 1 run, killed and reopened, sweep and repair, fair | RunsSettle, ObligationsAreServed |
| general_cron | 2 overlapping ticks, the sweep and a task due every tick, the drain, 1 listing changed twice, 2 attempts, 1 fault, fair | TypeOK, FailedIsKept, ChangesAreMarked, TasksAreTried, StaleIsServed |
| identities_passes | 3 listings, 2 identities, one of them poisoned, 2 passes, 2 changes, 1 fault, fair | TypeOK, DriftIsQueued, MarksAreServed |
| verification_takeover | 2 consumers that may outlive their leases, 2 targets (all symmetric), 1 run, 2 attempts of each kind, a rollout, no faults | TypeOK, OnePerDomain, ImplementsReview |
| verification_live | 1 consumer, 1 target, a run and its recovery, 1 fault, fair | RunCloses |
| export_pages | 2 deliveries at once (symmetric), both formats, 2 rows, a file of 2 parts, 2 copies of a message, 1 fault | TypeOK, ReadyIsWhole, FilesAreNotTorn, CursorIsCarried, ImplementsLog |
| export_live | 1 delivery at a time, the rest alike, fair | JobEnds |

Why the bounds are enough to be interesting:

- Two generations are the least at which one can be late for the other, two
  dispatchers the least that can contend for one row, and the watchdog and the
  administrator come on top.  The deployment switch is off in no run; the proofs
  cover any choice.
- Three pages are the least with an early end while a page waits; under the
  relayed shop's limit of two a link is rejected.  The one fault may be the crash
  whose commit lands after the next handler began.
- Two listings in chunks of one are the least with a cursor between listings
  and a last chunk that is full; the second crawl misses a listing, so that an
  inherited item is not simply seen again.  Three versions, because a lost
  acknowledgement needs a change between a token's capture and its use.
- Two ticks are the least that overlap; the sweep's floor of 37 calls out of 40
  is what makes a tick stop before it.  One listing of two changes has a change
  between a replay's read and its clear.
- Three listings are the least of which the lowest can leave and still two must
  be regrouped; one repair a pass makes the poisoned identity compete.
- Two targets under one domain make the lease matter.  In verification_takeover a
  consumer that never acts again is a crash, so it needs no fault; the live run
  has one.
- One job suffices for exports: no step of one looks at another.  Two rows in
  pages of one or two, and a file of two parts, give every kind of page boundary.

### Fairness

- *A begun invocation goes on* (`Dispatching`, `AdminRunning`, `Executing`,
  `Controlling`, `DrainSteps`, `SweepSteps`, `RefreshSteps`, `Stepping`,
  `CronSteps`, `Drains`, `PassSteps`, `Processing`, `WorkerStep`, ...): code that
  waits for an answer gets one or a timeout; its death is a fault, and faults are
  bounded, since nothing ends for a system that is always killed.
- *Alarms fire* (`AlarmFires`): the platform's guarantee for an armed alarm,
  with retries.  An alarm it has given up is not assumed to come back.
- *Crons come again* (`Watching`, `SweepBegins`, `RefreshBegins`, `BeginsNext`,
  `PassReleases`, `Dispatching`, `Nudge`): the general cron runs every five minutes.
- *Queues deliver* (`WakeDelivered`, `Claim`, `DeadTake`), and a message that is
  retried is at last exhausted (`max_retries`), which is strong fairness of the
  delivery that ends it.
- *Clocks pass* a lease, a deadline, a claim (`LeaseElapses`, `ClaimGoesStale`,
  `LeaseEnds`, `Expiring`, `Lapse`, `CloseOverdue`).
- No fairness for dispatches, administrators, edits, crawls, changes or faults.
  In CrawlCollection a handler that failed is taken up again by weak fairness of
  `Stepping`: that is the alarm's retry or the watchdog's redelivery, whose
  working CrawlDispatch shows.

Conditions in the liveness properties: ReservationIsServed asks that the shop be
in operation from some time on with no execution of another generation in the
DO; CollectionEnds excepts a `Stranded` cursor (section 5 (d)); StaleIsServed
excepts a job that was given up; JobEnds is checked with one delivery at a time,
since two deliveries can keep taking the job from each other for ever.

## 4. What is proved

The proofs hold for every value of the constants that satisfies the assumptions
stated with them, for any number of processes, items and faults.  Each safety
proof is an inductive invariant in layers, each layer proved on those below it.

### CrawlDispatch_proofs

From the assumptions of `CrawlDispatch` (naturals; at least one page and one
recheck a batch):

| theorem | statement |
|---|---|
| TypeCorrect | `Spec => []TypeOK` |
| GenerationsAreFenced | `Spec => []GenerationFence` |
| AcknowledgedIsKept | `Spec => []AcknowledgedKeepsReservation` |
| PauseIsOrdered | `Spec => []PauseGateOrder` |
| Implements | `Spec => ImplementsGenerations`, the refinement |

1. `Typed`: TypeOK; `HandlerShape` (a running handler has an execution, and
   what its next step consumes exists: without it a cursor could leave its range);
   `SpeakerShape` (who speaks for a generation has it from the row); `Known`
   (the row holds the newest generation or none, and nothing refers to a later
   one).
2. `GenerationFence`: at the fence the row holds `exec.gen`, which by `Known` is
   then the newest of all; after it, a session of a later generation would need
   the one DO to have run that generation, and a DO takes a command only when it
   has none.
3. `Acknowledged`: besides the property, a dispatcher still delivering owns the
   row or its generation is over; a dispatcher about to release was never
   acknowledged; no two dispatchers have one generation.  These make
   `Released` harmless: the token it compares is its own, and is not an acknowledged
   one.
4. `PauseOrder`: besides the gate order, what each half of a pause or resume
   finds (`pausing` with the gate closed, `resuming` with the row open), since
   either half may be the last that happens.

For the refinement only `Work` writes a session, and past the fence its
generation is the latest.

### CrawlCollection_proofs

From `PagesAssumption`, `PluginAssumption` and `BoundAssumption` (any number of
pages, any plugins and page limits, any faults and late commits):

| theorem | statement |
|---|---|
| TypeCorrect | `Spec => []TypeOK` |
| CountersAreKept | `Spec => []CountersAreExact` |
| ReceiptsAreAChain | `Spec => []ReceiptsFormAChain` |
| PermitIsSpentOnce | `Spec => []OneRequestPerPermit` |
| CompletenessIsEarned | `Spec => []CompleteIsComplete` |
| OutcomeIsPublishedOnce | `Spec => PublishedOnce` |
| OrdinalsStayDense | `Spec => []OrdinalsAreDense` |

Here even TypeOK is not inductive without the rest: that a progress stays within
the number of pages, and that an accepted page finds its ordinal free, are
consequences of the chain and of what a commit knows.  The invariant is one:

1. `Chained`: the receipts' sequences are 1 to their number, each follows a
   progress that points to its page, a progress whose page has a receipt is
   followed by that one, and each counts the pages parsed up to it.
2. `Placed` and `Stands`: the execution, the checkpoint and what a handler holds
   are on the chain; the execution is at most one link behind its end; from the
   claim on, the checkpoint is the execution's progress; and while a handler is
   at a page or publishes, the session's status is what it read.
3. `Carried`: a commit on its way follows a progress of the chain, and as long as
   its page waits, it is right about the frontier (`Fresh`).  Two commits that
   could both land are of the same page (`OthersMiss`), and one that has landed
   leaves none behind that could (`NoneCanLand`).
4. `Covered`: what the last progress says of coverage is true of the frontier.
5. `Permitted`: whoever may come to a request was given the permit it has spent.

An action writes no row (`Quiet`), the session (`SessionWrites`), or pages
(`ArrivalKeeps`, where a commit lands or is fenced); each of these says once what
then stands, and an action's own lemma adds what it moves.

`OrdinalsStayDense` stands on the invariant: a commit that lands was built for the
frontier it finds, and the places of the accepted pages are 1 to their number
(`PlacesAreDense`).

### CrawlContinuation_proofs

From `SizeAssumption`, `BoundAssumption` and `CollectionAssumption` (any numbers of
listings, runs, attempts, versions and faults, any chunk size, any sets of
listings on the pages):

| theorem | statement |
|---|---|
| TypeCorrect | `Spec => []TypeOK` |
| StagesRunInOrder | `Spec => []StagesInOrder` |
| ItemsOutliveStages | `Spec => []WorkOutlivesStages` |
| ReportedWorkIsShown | `Spec => []WorkIsShown` |
| WatermarkFollowsWork | `Spec => []WatermarkIsEarned` |
| ChangesAreRemembered | `Spec => []NothingForgotten` |

1. `Typed`: TypeOK and where each invocation stands (`Shapes`).
2. `Ordered`: a run's four stages are recorded and retired together, only a run
   that is not the newest is superseded, and a cursor moves only in a recorded
   stage; the two properties; that an item which is gone is owed to no stage; and
   for each drainer and for the crawl, that the stages before the one it is in
   are done (`InOrder`, `CrawlInOrder`).
3. `Worked`: nothing shown, read or dated is ahead of its listing's version; an
   item has a date; what a done stage or a cursor covers is shown (`DoneIsShown`,
   `CursorIsShown`); and, the part without which nothing is inductive, what an
   invocation has passed is shown and what it carries will be (`InWork`).  The
   lemma `ChunkIsFirst` says that a chunk leaves no item of the run below its
   last one behind.
4. `Generations`: a generation belongs to one run, and a watermark that equals
   a run's generation has all its stages done.
5. `Remembered`: a token is the version it was left at, what an acknowledgement
   carries is such a token, and a refresh has shown what it is about to clear.

### DataExport_proofs

From `BoundAssumption` and `FormatAssumption` (any numbers of jobs, rows, page
sizes, files, parts, deliveries and faults):

| theorem | statement |
|---|---|
| TypeCorrect | `Spec => []TypeOK` |
| ReadyPagesAreWhole | `Spec => []ReadyIsWhole` |
| FilesStayWhole | `Spec => []FilesAreNotTorn` |
| CursorNeverLost | `Spec => []CursorIsCarried` |
| ImplementsExportLog | `Spec => ImplementsLog`, the refinement |

1. `Paged`: a stored page has all the pages before it, each announcing the next,
   and fits the place the page before it names (`Chain`, `Fits`).  What is before
   a place is then done: every unedited row up to it, no row beyond, whole files of
   one version, and the parts of the file in progress (`Behind`).  A page number
   is bounded by its place (`Room`), hence TypeOK.  The rows and files may change
   at any time: `Fits` speaks only of rows that never did, and of the version a
   part was copied from.
2. `Marked`: every message, in a queue or in hand, is of a place that was reached.
   With it a delivery, however late, reads a page that fits its place or finds
   the one that is there (`PageReadFits`, `InHand`).
3. `Kept`: the row's cursor is a place that was reached and its total the number of
   rows before it; a ready job's last page is a last one.
4. `Continued`: a delivery that has sent its continuation, and whose advance may
   yet be written, still has it in a queue.  A dead letter ahead of the cursor is
   dropped, which is why the job then counts as stranded.
5. `Steps` says what any step does to each job, page, delivery and message, once,
   and the invariants are proved from it alone.  A job rests, opens, closes, moves
   or is dropped; these are the log's moves, and only one job moves at a time
   (`OneJob`).

### ExactIdentities_proofs

From `IdentityBounds` and `RowAssumption` (any numbers of listings, identities,
passes, repairs a pass, changes and faults; any rows, any poisoned identities):

| theorem | statement |
|---|---|
| TypeCorrect | `Spec => []TypeOK` |
| DriftNeverForgotten | `Spec => []DriftIsQueued` |

DriftIsQueued is not inductive: a pass deletes the row of an identity it read as
clean, or has repaired, on the strength of what it read before.

1. `Holding`: whoever has the claim of an identity is at work on it, and what it is
   still to write puts every member right (`Covered`): the seeds it has read
   (`SeedsCover`), and the batch under way, which may have been scoped by peers
   read before a crawl's sync.  A compatible group needs one seed, a conflicting
   one a seed for each member that drifts.
2. A change of a listing takes the claims of both its identities away
   (`ChangeKeeps`), so as long as a pass has one, the group is the one it read;
   what it then believes is of no interest once the claim is lost, because its
   deletion compares the token.
3. No batch makes a member drift, whoever's and however late: owners are derived
   from the rows it finds (`BatchRepairs`).  So drift only comes from a change, which
   marks the identity, and only a batch or another change takes it away.
4. `Working`: nothing is in a pass twice and what it has yet to repair has seeds, so
   that settling one identity leaves the others' repairs ahead.

### GeneralCron_proofs

From `MaintenanceBounds`, `RemediationBounds` and `CronAssumption` (any tasks,
listings and invocations, any costs and floors, any attempts, changes and faults):

| theorem | statement |
|---|---|
| TypeCorrect | `Spec => []TypeOK` |
| WorkIsKept | `Spec => []FailedIsKept` |
| ChangesKeepTheirMarker | `Spec => []ChangesAreMarked` |

`FailedIsKept` needs that an invocation's token is in one row at most and only
while it runs that task, and that a row's due time stays positive when times are
re-ranked (`RowsAreDue`), which holds as only finitely many times are in use.
`ChangesAreMarked` needs that a marker a worker holds as its own covers every
change since its refresh (`ClearIsEarned`): every other writer's stamp takes `mine`
away.

TypeOK bounds the ranks of times by two per task and one per invocation.  That a
new tick's time is in this range takes that an invocation which is not there
refers to none (`IdleIsTimeless`, `RanksAreBounded`).  A walk is over tasks because
every place in the order of last attempts is some task's (`InTurnTypes`), as that
order is total (`TurnsAreOrdered`).  `QueueTyped` says that a key is queued, once,
exactly when its job is open: a seeding only takes free keys, and a worker that has
lost its row writes none (`JobRewritten` is the one way a job's row changes).

### VerificationQueue_proofs

From `BoundAssumption`, `FlagAssumption` and `FinalizerAssumption`:

| theorem | statement |
|---|---|
| TypeCorrect | `Spec => []TypeOK` |
| ReviewsKeepTheirPromise | `Spec => ImplementsReview`, the refinement |
| OneRequestPerDomain | `Spec => []OnePerDomain` |

The refinement needs `Recorded`: a run is sealed by one batch (`Sealing`), and a
consumer that finishes a run has its finalizer's job (`WorkIsRecorded`).  Each step
then is one of three moves of the abstract machine or none (`Moves`).
`OnePerDomain` needs `Exclusive`: as long as nobody has outlived a lease, a job
that a consumer works on has an unexpired lease and no other consumer, and a
request under way holds the domain.

### Subsequences_proofs

Lemmas the others cite: the places of a finite set's elements are numbered without
gaps (`PlacesAreNumbered`, by an injection between sets of one size: induction over
data cannot be used here), hence what `Among` keeps (`AmongProperties`); the
sequence of a set; and that concatenation, appending, tails and prefixes keep a
sequence free of repetitions.

Out of the prover's reach, and only model-checked: every liveness property
(ReservationIsServed, CollectionEnds, RunsSettle, ObligationsAreServed,
TasksAreTried, StaleIsServed, MarksAreServed, RunCloses, JobEnds), which need
fairness and ENABLED.  Every other property a run checks is proved.

## 5. Observations

Behaviour met while modelling where the code and what the repository says of it
differ, or that a maintainer may want to know.  The models contain all of it; the
properties are stated so as to hold beside it.

(a) *Retired early.*  `hasNewerCrawlRun` (`db/crawl-run-continuation-repository.ts:413`)
is true as soon as a newer `crawl_runs` row exists, before that run has taken
over the items (`recordCrawlRunWorkSet`), against the comment at :148 and
`docs/crawl-orchestration.md:205`.  The listings' obligations stay, so nothing
is lost.

(b) *Reopened run.*  A finalizer that runs again after its stages were recorded
adds items the earlier stages have passed (`:97`), and acknowledges them after
the last stage alone, against `docs/data-platform-architecture.md:279`.

(c) *Old image.*  `db/product-search-projection-repository.ts:132` reads a
listing and upserts its projection later with no version to compare, against
`docs/data-platform-architecture.md:250`: a stage that read before an edit can
write after the edit's refresh was acknowledged.  NothingForgotten therefore
speaks of stages completed, not of the image written last.

(d) *Stranded cursor.*  The commit of a page that ends the listing ignores all
waiting pages (`db/crawl-fetch-page-repository.ts:241`) even when it is fenced
itself, against `docs/crawl-orchestration.md:152`: the page the collection goes on
with may then be ignored without a receipt.

(e) *Relay permit.*  A relay permit stays in storage while its request runs
(`crawler/crawl-scheduler-do.ts:971`), unlike a direct one, against
`docs/crawl-orchestration.md:264`.

(f) *Vetoed members.*  `identityMembers`
(`db/product-search-exact-identity-dirty.ts:174`) counts listings that grouping
(`db/product-search-entity-sql.ts:36-39`) excludes, against the comments at :148
and :210: such an identity may be settled as clean while it has drifted.

Crawl control plane:

- `dispatch.ts` releases a reservation after any delivery error, also when the
  DO had accepted the command; the execution is then stale at its next fence.
- A shop's parked execution (switched off, its reservation gone) answers 409 to
  every later generation until the administrator wakes it.
- A detail request (`crawl-scheduler-do.ts:850`) is made before any look at the
  dispatch token.

General cron and remediation:

- The next occurrence of a task that is still pending coalesces into its row.
- A budget error inside the sweep is caught as a job's failure, whose own
  settlement then throws again: the job stays in processing, its attempt spent.
- A job whose attempts are spent while it is in processing waits for the
  drain's recovery, which happens once; a stale read of the attempts can leave a
  pending job that neither claim nor recovery takes.
- A failed job keeps its key, so a listing marked again at the same versions is
  not seeded again (`docs/data-quality.md:355` says it is selected again).
- A late worker settles the job of a later claimant, by id and status.

Verification:

- A rollout claimed by an invocation that dies before its dispatch stays
  'running' in `knowledge_catalog_verifier_state` for ever.
- `delivery_attempts` counts every claim, so source retries, a busy domain and
  lapsed leases spend the budget that `consumer.ts:8-11` calls independent.
- A recovery that dies before it inherits is succeeded by a run that inherits
  from an unsealed one, that is, nothing.
- The domain's lease may be taken by a second consumer of the same job, and the
  first one's release frees it.

Exports:

- A continuation delivered more often than the queue retries while its job is
  behind is dropped as a dead letter; only the stale-job cron revives the job.
- A page that can never be read keeps its job between claim, dead letter and
  requeue until the dead letter meets it queued, or the deadline passes.

## 6. Not modelled, and why

- *Notifications.*  One Durable Object; its alarm runs a whole check under
  `blockConcurrencyWhile` and writes cursor and outbox in transactions, so no
  second actor takes part in a step.  Read in it: `POST /watches` reads the device
  before it awaits the body, so that a watch can outlive a device removed
  meanwhile; an exhausted D1 budget postpones pushes that are already queued
  to the next UTC day.
- *Yahoo auctions DO*: off in the deployed configuration; its alarm is reserved
  and fenced as the crawl DO's.
- *Detail plan and inventory choice*: moved only by the execution that owns them.
- *What a publication writes per listing*: SQL over one crawl's rows, in which no
  other writer takes part.
- *Administrator background jobs*: one coordinator and stored item states.
- *AI suggestions*: claims of VerificationQueue's shape.
- *Price index and market analysis*: SQL aggregates.
- *Parsers, resolution rules, product identity*: pure functions without state,
  held by the repository's fixtures; the models take any result they can have.
- *Public API, front end, scripts, evidence archive*: I/O that keeps no protocol.

The machines share D1 rows but are checked apart, each with the other's interface
as nondeterministic choice: CrawlDispatch lets a collection succeed or fail at any
step; CrawlContinuation lets a publication start, reopen or die at any time;
GeneralCron's other tasks succeed, fail or yield, while ExactIdentities and the
sweep of CrawlContinuation are such tasks; VerificationQueue's two tasks are, too.

## 7. What could follow

- The inventory recheck and the detail plan as modules of their own, under
  CrawlDispatch's execution.
- What a publication does to a listing (lifecycle, price history, deactivation
  of the unseen), with the coverage CompleteIsComplete speaks of.
- The crawl window, pure: quiet hours and due times against a reference
  definition.
