# Sentinel: a TLA+ verification project

Sentinel is an uptime monitor: a NestJS API owns accounts and monitors, a Go
worker probes every due monitor and records results and alerts, a React
frontend shows them. The parts share nothing but one PostgreSQL schema. This
directory holds TLA+ models of the parts whose correctness depends on order,
concurrency and failure, the TLC configurations that check them on small
instances, and TLAPS proofs of the main results for every instance.

## Inventory

| Component | State it keeps | Operations | Talks to | Hard behaviour |
|---|---|---|---|---|
| Worker, check and persist (`loop.go` `fetchDueMonitors`, `evaluateFSM`, `checkAndPersist`; `checker/http.go`) | nothing beyond the snapshot of a monitor during its check | poll query, probe, one transaction per check | PostgreSQL, monitored targets | stale snapshot, rollback at any statement, ambiguous COMMIT, deletion during a check, SIGTERM during a probe |
| Worker, poll cycle (`loop.go` `runWithHealth`, `runPollCycle`) | running cycle: items, active count, results channel | bounded dispatch, drain, shutdown | check goroutines, heartbeat file | concurrency limit, progress, no goroutine left behind |
| Worker, heartbeat (`health.go`, `config.go`) | heartbeat file | write, reset at start, age check | health command, container runtime | a live worker reported stale, a dead one reported alive |
| Worker, demo reset (`demo_reset.go`) | timer | delete and re-create the demo account's monitors | PostgreSQL | meets checks and API requests on the same rows |
| Worker, retention (`retention.go`) | timer, batch counter | batched deletes of old rows | PostgreSQL | bounded work per pass, locked rows, cancellation between batches |
| Worker, SSRF-safe client (`ssrf.go`) | none | classify addresses, dial | DNS, targets | pure classification |
| API, monitors (`monitors.service.ts`) | rows of `monitor` | create, update, delete, history, alerts | PostgreSQL | quota counted before the insert, row gone after the lookup |
| API, seeds (`demo-seed.ts`, `status-seed.ts`, `prisma/seed.ts`) | rows with a `seed_key`, the two special accounts | upsert, publish and hide at every container start | PostgreSQL | run beside worker and other starts, fail at any statement, configuration changes |
| API, public status (`public-status.service.ts`) | cached rows, in-flight query | read with TTL | PostgreSQL, browsers | single flight, failed query, staleness bound |
| API, users and auth (`users.service.ts`, `auth/`) | rows of `users` | register, log in, validate a token | PostgreSQL | uniqueness checked before the insert |
| API, throttler (`app-throttler.guard.ts`); CORS, environment | hits and blocks in memory | count, block, Retry-After; validate at the start | every route | several throttlers per route, ends of blocks, order of the guards, a polling page beside others at its address |
| Frontend, session (`client.ts`, `token.ts`, `AuthProvider.tsx`) | token in storage, user in React state | log in, log out, any request | API | a late 401 against a newer login |
| Frontend, monitors page (`MonitorsPage.tsx`, `CreateMonitorForm.tsx`, `DeleteButton.tsx`, `useMonitors.ts`) | cached list, open form, mutations in flight | poll, create, delete, leave and return | API | a list older than a mutation, callbacks of a form that is gone |
| Frontend, history (`useMonitorHistory.ts`, `MonitorHistoryPage.tsx`, `summary.ts`, `chart-geometry.ts`) | query caches, limit, pauses | poll, load more, retry, change of monitor | API | responses out of order, pauses, rows of another key |
| Frontend, status page and hint (`status.ts`, `StatusPage.tsx`, `useMonitorFreshness.ts`) | a clock, the last rows | refresh, classify | API | clocks of their own, rows that grow old |
| Operations (`backup-postgres.sh`, Compose) | dump files | backup, rotate | PostgreSQL | partial dump |

What makes each correct: alerts mark exactly the confirmed transitions and are
explained by recorded results; nothing belongs to a deleted monitor; a cycle
runs at most `concurrency` checks and ends with none; every due monitor is
checked or the worker is stopping; the heartbeat is fresh exactly when checks
make progress; retention never deletes what the uptime window counts; a user's
monitors stay within the quota; cached status is never older than its TTL plus
one query, and a label rests on a recent check that left the monitor in that state; a
session ends for a reason its user or the API gave (one it ends for besides, a late 401
of an earlier session, is under Divergences); a name belongs to one account and a token
acts as the account it was obtained for; what is published is what the manifest
says; no list or page shows rows of something else than it names.

## Modules

| Module | Models | Checked in run |
|---|---|---|
| `AlertContract` | what the worker promises about alerts: log, open incident, events | `checks_deep` (refinement) |
| `MonitorChecks` | the life of monitor rows: checks, API requests, seeds, demo reset, crashes | `checks_deep`, `checks_slow`, `checks_slow_alerts` |
| `CycleContract` | what the worker process promises of its checks: each once, bounded, one cycle at a time, a clean end | `progress` (refinement) |
| `PollCycle` | the worker process: polling loop, bounded dispatch, background loops, SIGTERM | `progress` |
| `ConnectionPool` | the queue of the worker's tasks for database connections | `progress` |
| `Heartbeat` | extends `PollCycle` with time, the heartbeat file, crashes and restarts | `heartbeat` |
| `Retention` | the retention pass over both tables beside inserts and deletions | `retention` |
| `UptimeWindow` | the aggregates of the public status beside the deletes of the retention, by two clocks | `public_status` |
| `MonitorQuota` | the monitor limit of an account: create, delete, seed, reset | `accounts`, `quota_race` |
| `Accounts` | the table of users: registrations, logins, tokens, the seeds' accounts | `accounts` |
| `Seeds` | what an API start publishes: both seeds, overlapping, failing, repeated, beside visitors of the demo and its reset | `accounts` |
| `MonitorRequests` | every request on monitors as two database calls, beside checks, the demo seed and resets | `requests` |
| `ApiGuards` | the throttler, its routes, limits, blocks and Retry-After | `requests` |
| `StatusContract` | what visitors of the public status are promised: every change of a certain age, and never less than before | `public_status` (refinement) |
| `PublicStatusCache` | the cache of the public status and its shared query | `public_status` |
| `StatusPage` | the status page: its clock, its query, labels and summary | `public_status` |
| `Freshness` | the hint that a displayed result is not current | `public_status` |
| `Session` | the session of one browser tab | `pages` |
| `MonitorsPage` | the list of monitors, its create form and delete buttons | `pages` |
| `CreateForm` | the form's values and errors, judged by schema, DTO and service | `pages` |
| `MonitorHistory` | the queries of the history page | `history`, `progress` |
| `HistoryChart`, `HistorySummary` | the algorithms of the latency chart and of the summary | `history` |

`MonitorChecksProofs`, `HeartbeatProofs` (with the poll cycle) and `RetentionProofs` hold
the theorems about the modules they are named after; `MCAccountsProofs`,
`MCRequestsProofs`, `MCPublicStatusProofs`, `MCPagesProofs` and `MCHistoryProofs` those
about the components that these modules put side by side, and so about the very formulas
the runs check.

The modules whose name begins with `MC` hold what TLC needs. Several of them
check components side by side that share no state: such a module instantiates
each component, an initial choice `running` names the one that moves, and the
variables of the others stay as they are. The states of the run are the sum of
those of the components, not their product, and every property is that of one
component. The same is done for several instances of one component, say a page
that shows every section and one that changes between monitors. What components do to
each other is inside the modules: each has the steps of the actors that meet its state.

A definition marked MUTANT is a plausible bug; it is no part of the
specification and shows that a property notices it. The assumptions of a module
that is only instantiated are plain definitions (`...Assumption`), and the MC
module assumes them of each instance (`SuiteAssumption`, `PagesAssumption`,
`GuardsAssumption`, `FiguresAssumption`).

Where it can, such a module has one instance of a component with the largest constants,
and `running` names a bound on its steps instead (`OneStart` and `OnePerson` in
`MCAccounts`, `OneService` and `SeveralServices` in `MCPublicStatus`, `Stay` and `Nav`
in `MCPages`, `Polling` and `Window` in `MCRequests`, the two scopes of `MCDeepChecks`):
TLC needs the bound, a proof about the one instance needs none.

`Heartbeat` composes with `PollCycle` by extending it: each of its actions is one
of `PollCycle` with the effect on file and time. `MonitorChecks` and `PollCycle`
are two views of the same goroutines: the first has every statement of a check
and takes from the poll cycle that the next query starts when the last cycle has
drained (`Drained`, `CyclesDoNotOverlap`); the second has every step of the cycle
and takes from a check only that it ends.

### MonitorChecks and the code

`phase`, `monitor`, `check_result`, `alert` are the committed contents of the
tables, per `monitor.id`. `stage[m]` is how far the goroutine of `m` is in
`checkAndPersist`: `queued` (fetched, not started), `probing`, `probed`,
`inserted`, `updated`, `complete` (all statements sent, COMMIT next); `snap[m]`
is what the poll query read and `probe[m]` what the target answered. What a
transaction writes becomes visible in `Commit`, as READ COMMITTED has it, and
its row locks hold others back before: the foreign key of the INSERT takes
`FOR KEY SHARE` (`KeyShared`: a DELETE waits), the UPDATE a full row lock
(`RowLocked`: other UPDATEs wait too). `evaluateFSM` is the function of that
name; its clamp of negative counts is left out because `TypeOK` shows that no
count is negative. Actions follow the statements: `Fetch`, `StartWork`,
`Probe`, `CheckError`, `InsertResult`, `UpdateMonitor`, `InsertAlert`,
`Commit`, and `PersistError` for every error return and the deferred ROLLBACK.

`DetachCommit` and `ResolveDetached` are the ambiguous commit: the client's
deadline expires while the server is committing; the server then applies the
write set or loses it. The constant `SlowCommits` switches them on.

The API side has one action per database call: `FindForUpdate`/`UpdateRow`,
`FindForDelete`/`DeleteRow`, with `RequestFails` when the row went in between;
`CreateMonitor`; `SeedUpdate`/`SeedCreate` are the two branches of the upserts
of both seeds; `DemoReset` is the reset transaction. Targets are an abstract
set, so that a result tells which target it is about; `retargeted[m]` is a
history variable used only by `OneStaleResult`, and the field `aborted` of a
result, which the program does not have, only by `NoAbortedProbeRecorded`.

Abstracted: names, messages, latencies, codes; wall-clock time (a row is due
when `last_checked_at` is null or `elapsed`); the concurrency limit; the
manifests have one monitor per account; retention, which would only shorten
the histories.

`AlertContract` is the abstract specification; the refinement mapping takes
`log` to the states of `check_result`, `open` to `last_state = "unhealthy"` and
`events` to the alerts. Everything else, seeds, updates, locks, crashes, is a
stutter. Its `Failure` may be an unconfirmed failure or one of a known outage;
that a confirmed outage is not passed over as such is `OutageNoticed`.

### PollCycle and the code

`loop` is the place of the polling goroutine in `runWithHealth` and
`runPollCycle`, `active` the counter of that name, `pending` the items from
`next` on, `work[m]` the goroutine of `startWork` and afterwards its result in
the channel, `jobs` the demo reset and retention loops, `context` the context of
`signal.NotifyContext`. `StartFirst` is the first loop, `Receive` the result case
of the select with the refill, `NoticeCancel` and `DrainOne` the branch for a
cancelled context, `EndCycle` the returns, `Join` the deferred receives. A Go
select with two ready cases takes either, so `Tick` and `JobStart` stay possible
after cancellation. Which item is next and whose result comes first are left
open: the query has no ORDER BY.

`CycleContract` is the abstract specification, without the counter, the channel and the
places of the loop: `running` is the set of goroutines at work, `todo` what the poll
found and nobody started, `busy` the jobs in a pass, `closed` that the caller may close
the pool. `Tick`, `Leave`, the fetch that finds nothing and every result that starts
nothing are stutters; `Receive` with a refill is a `Start`, and `EndCycle` is a
stutter when everything has started, else `Drop`, which the contract allows after SIGTERM only.

### Heartbeat and the code

`written` and `age` are the file: `WriteHeartbeat` (`Beat`), `ResetHeartbeat` in
`main` (`Restart`). The loop writes after an empty poll and after each result
that is not a database error (`HFetched`, `HReceive`), never while draining.
`Pass` lets one unit of time go by when no limit is reached: the period of the
ticker, the database deadline of the query, and for a check the probe timeout
plus two database deadlines (one for the transaction, one for the rollback of
`checkAndPersist`). `MaxAge` is the sum in `config.go`. File system errors and
the database ping of the health command are left out.

### Retention and the code

A pass is `RunRetentionPass`; `at` and `batch` are its table and loop counter.
`Doomed` is the CTE with ORDER BY, LIMIT and SKIP LOCKED, `ShortBatch` and
`FullBatch` the two ways on after it, `BatchFails` an error (whose deletion may
have been committed all the same), `Cancelled` the context checks before a batch
and in the pause. Rows are numbered by age, and the cutoff is `expired`.
`MarkRow`/`DeletionEnds` are transactions that delete monitors with their rows.

### MonitorQuota and the code

`CountMonitors` and `InsertMonitor` are the two database calls of
`createMonitor`; `DeleteMonitor`, `SeedMonitor` (one upsert of `DemoSeed.seed`,
which has no transaction) and `DemoReset` are the other ways rows of an account
come and go. Only their number matters, except for the manifest's seed keys.
Requests that are refused change nothing and are not modelled.

### PublicStatusCache and the code

`cached`, `inFlight` are the fields of `PublicStatusService`; `query[c]` is the
query a request started, `waits[c]` the promise it awaits. `Hit`, `Join` and
`StartQuery` are the three ways through `getPublicStatus`; `Succeed` and `Fail`
are the continuation of the awaited query. Its `try`/`finally` runs in one
microtask before any other request is handled, hence one step. The rows are the
number of changes that the statement's snapshot shows. The query duration has no
limit in the code; `QueryLimit` is that of the environment. `expiresAt` is the time
left, `cached.left`; `served` and `past`, the changes at earlier ticks, are history.

`StatusContract` knows neither cache nor queries: an answer shows no less than the
last and no less than there was `MaxAge` ticks ago, here `QueryLimit + Ttl`. Its flag
`said`, which each tick resets, makes an answer that repeats the last one in a later
tick a step that must be allowed again, not a stutter: without it, a stale answer
given for ever would satisfy the contract.

### ConnectionPool and the code

`queue` is the order in which tasks asked `pgxpool` for a connection and `stage`
what each does: nothing, probing without a connection, waiting, running
statements, held up by a row lock of another, or finishing. A check probes before
it asks (`checkAndPersist`: `Check` before `Begin`), the query and the background
loops ask at once. Acquiring in order of the queue is how the module takes
`pgxpool` to behave; it is external.

### UptimeWindow and the code

`recorded` has every result ever committed, `present` those not deleted.
`Commit` stamps a result with the worker's clock (`time.Now` in
`checkAndPersist`), which may differ from the database's by `Skew`; `StartBatch`
takes the cutoff from the worker's clock, `StartQuery` the window from `NOW()`,
and both read rows later. `window` is any of `Windows`, and `ConfigAssumption` is the
rule of `Load` as it stands: the retention is at least the window, and may equal it.
`answer` has beside the counts what they would be over `recorded` and the results that
are missing. `UptimePreserved` says what is lost: only results at the far end of the
window, by less than skew and delay, and none at all where the retention is that much
longer than the window.

### Accounts and the code

`users` is the table, a row's id its position. A registration is the four steps of
`UsersService.create` (`Register`, `FindEmail`, `FindUsername`, `Insert`), a login
two (`LoginByEmail`; `LoginSign` has the lookup by username and the verification
of the row read), `demoLogin` one. `tokens` holds what was signed and which
password obtained it; `validate` is `JwtStrategy.validate`, which looks the email
up for each request. The seeds' statements on users are `SeedLookup` (outside the
transaction), `SeedOwner`, `SeedDemo`. Hashes are the knowledge of a password;
expiry of tokens only removes behaviours and is left out.

### Seeds and the code

`row` is what is committed of `is_public` per owner and key; `start[s]` is a
container with its configuration and, in its transaction, private `writes`, seen
by others after `Commit`. Upserts and the `updateMany` that hides wait for row
locks (`Locked`); the latter finds its rows in one snapshot (`HideScan`) and
changes them one by one (`HideRow`). The demo seed's upserts commit singly; `demoRow` tells a
key that was never seeded from one whose monitor a visitor deleted since
(`DeleteMonitor`), which the seed and the worker's `DemoReset` put back. A
failure, a deadlock's victim or a killed container is `Fail`; the entrypoint
executes the API after a seed that exits with 0 (`Listen`). `Reconfigure` happens
with all containers down, as Compose replaces a container by stopping it first;
what happens otherwise is under Divergences.

### MonitorRequests and the code

`request[r]` is a request between its two database calls: `FindOwned` and
`FindForPage` are the lookups, `UpdateRow`, `RemoveRow` and `ReadPage` the second
calls, by id alone. `WorkerCheck` and `DemoReset` are what the worker does to the
same rows, `DemoSeed` what an API start does: it writes over a monitor with a seed key
(`seeded`), or creates it. Reset and seed take the frequencies of the manifest, of which
`parseDemoManifest` asks only that they are positive and the seed nothing
(`ManifestFrequencies`). `told` keeps for every column the value its own writer gave last,
`requested` the monitors whose frequency a POST or PATCH wrote last, for which alone
`FrequencyFloor` claims the minimum, `refused` the 403 and 404 answers. When the row is
gone the second call of a write answers 500 and changes nothing; a page is then empty. A
`limit` below zero, for which Prisma takes rows from the other end, is not
modelled; the refusal of a create over the quota (a 400) is in `MonitorQuota`.

### ApiGuards and the code

`store` is the in-memory storage of `@nestjs/throttler`, per tracker, route and
throttler: the hits that are counted, each with its time and a number that tells it from
others of that time, and the end of a block, during which nothing is counted
(`increment`, external). Hits leave one by one when they are `Ttl` old (`Advance`).
`applies` and `LimitOf` are the decorators of the controllers, `Endpoints` the routes,
`Rank` the order of the throttlers, `Throttled` the guard's exception with `RetryAfter`.
The guard runs before the one that reads the token, so `getTracker` always sees the
address. `Request` is any request from any address to any route, as often as it likes;
those from the poller's address to `findAll` are other tabs, a neighbour behind the same
router, the refetch after a write and the metadata query of the history page. `Poll` is
the interval of `useMonitors`, at most once in a unit of time. All of them count on one
entry, so a poll can be refused: `PollRefusedByCrowdOnly` says by whom, namely only within
a `Ttl` of a moment when the others asked for the list more than `Room` times in one
`Ttl`, and by no other route or address. `others`, `crowded`, `passed`, `promised`,
`broken` are history: the others' counted hits, when they were last too many, what got
through, what was said in `Retry-After`, and whether a refusal was not to be.

### StatusPage and the code

`row` is the truth about each published monitor with the time of its last check,
`cached` an answer of the API up to `Ttl` old, `data` the page's rows, `now` its
clock, which ticks every `Refresh` on its own timer. `classifyStatus` and
`summarizeStatus` are the functions of those names, over what they distinguish:
last state, age of the check, and the ratio of healthy checks as none, low or
high. `Fail` keeps the rows, as the page does when a refresh fails. `Check` is a
committed check: it stores the state found or, as `evaluateFSM` does with a failure below
the threshold, the old one again, with a new time. So what a label can claim is that a
recent check left the monitor in that state, not that it answered (`LabelEarned`).
`Publish` is the status seed, which replaces the set of published monitors.

### Freshness and the code

`clock` and `timer` are the state and the timeout of `useMonitorFreshness`,
`data` the row it was given; `isEngineStale` is the function in `datetime.ts`.
Every change of row or clock restarts the timer (`Delay`). Time is discrete, the
worker checks and the owner edits the row at will, and `gap` remembers the
longest time without a check. A check may come after the owner paused the monitor, when
it was in flight.

### Session and the code

`token`/`stored` are the store's memory and `sessionStorage` (which may be
unavailable, `storage`), `auth` the snapshot in React state, `page` the route,
`attempts` and `signups` the requests of the login and registration forms,
`calls` the authorized ones, each with the token it was sent with, `soon` and
`rejected` the tokens that are about to expire or that the API refuses. `Tick` is
the watcher, `Unauthorized` the answer 401, `Reload` a new document in the same
tab; `Serve` decides the 401 as `JwtStrategy` does. Lists and caches of rows are not
part of it. `EndingHasReason` lists what ends a session, and its last disjunct is
something nobody wants: `apiFetch` clears the store on any 401 without comparing the
token it sent with the one that is stored, so that the late answer to a request of an
ended session, or to one without a token, ends a new one.

### MonitorsPage and the code

`exists` are the monitors in the API, `rows` the cached list, `fetch` the list
request in flight with the snapshot it will show, `invalid` the query's mark,
`creates` and `deletes` the mutations in flight. `Invalidate` restarts a fetch
only if the list is observed and has data, as TanStack Query does. `toggleForm`,
`cancelForm`, `onSubmit` and the callbacks of `mutate` are the handlers; callbacks
of a form that was unmounted are not called (`Unmounted`). The demo reset and
other tabs remove monitors at any time. `MCPages` checks a page that stays (`Stay`)
and one that is left and entered again (`Nav`).

### CreateForm and the code

`values`, `errors`, `isSubmitted` are the form's state in react-hook-form,
`submission` the values sent. Three judges, each with its own rules, are
`createSchema`, `IsValidTarget` with `CreateMonitorDto`, and `Objections` of
`createMonitor`; `normalizeDetail` attributes the API's texts to fields. Inputs
stay enabled during a submission (`Type`): what is typed then is reset by a
success, and an objection to the old value marks the new one.

### MonitorHistory and the code

A `query` per section and limit has data, error, pause and fetch, as TanStack
Query keeps it; `shown`, `focus`, `limitState`, `expansion`, `prev` are the
page's monitor, the visibility of the tab, and the state and refs of
`useMonitorHistory`. `Poll` is the interval with `permitsAutomaticRefetch`,
`FetchOnMount` and `FetchOnSwitch` what the options of the queries make of a mount
and of a new key, `loadMoreHistory`, `refetch` the handlers, `Render` the effect
that releases the latch. A query may be forgotten when it is not observed
(`Forget`). Rows kept by an in-place return to a monitor are shown as placeholders
of that same monitor only. What the hook keeps and what is on the screen are two things:
`RowsKept` is about `visibleHistory`, which keeps its rows until the page is left, and
`RowsDisplayed` about `PageShown`, the early returns of the page. They take rows that
were shown off the screen for "Monitor not found", and for "Loading monitor…" at each
further request of metadata of which nothing was ever loaded. Placeholder rows, of a
monitor come back to before its own answer, have no such promise.

### HistoryChart and HistorySummary and the code

Rows are loaded in any order. `Visit` is one turn of the loop of
`buildLatencyChartGeometry`, over the first point left in the order of its `sort`:
`previous`, `segment`, `segments`, `gaps` are its variables, and a line is the set of
points it is drawn through. `Ends` is what closes a line, a row without a latency or a
silence beyond the threshold. `HistorySummary` keeps the sorted latencies that
`summarizeMonitorHistory` makes of the rows, one insertion per row; `p95LatencyMs` and
`medianTwice` (twice the median, an integer) are its formulas over them. The properties
define the results independently, by pairs of points and by counting.

## Runs

| Run | Instance | What it shows |
|---|---|---|
| `checks_deep` | 2 ids, threshold 2: one monitor with 2 targets and histories up to 4 results, which another may replace; two beside each other, each checked once | alternation and justification of alerts, no missed outage, refinement of `AlertContract`; no orphans and no aborted probes, also beside another row's reset, deletion and check |
| `checks_slow` | 1 id, 2 targets, slow commits, histories up to 3 | orphans, aborted probes and stale targets stay excluded with ambiguous commits |
| `checks_slow_alerts` | 1 id, slow commits, histories up to 2 | expected violation of `AlertsAlternate`, see Findings |
| `progress` | 3 due monitors and 2 permits; 2 checks, the query, reset and retention for 2 connections; a page with every failure | no overlap of cycles, refinement of `CycleContract` (the limit, nothing skipped or done twice, nothing runs after the return); and what must happen: checks, end of cycle and of shutdown, a connection for everyone, polling |
| `heartbeat` | 3 monitors, concurrency 1, probes of 2 units | a progressing worker is never stale, a healthy one has progressed |
| `retention` | 5 results, 1 alert, batches of 2, 2 per pass | bounded passes, oldest first, nothing due is left |
| `accounts` | demo account with limit 3, manifest of 2, 3 requests; 2 registrations, 1 start and 1 login at a time; 1 person, 2 starts and a new configuration; 2 starts, 2 owners, 2 keys, 2 new configurations and visitors of the demo | how far the limit is exceeded, one winner per name, tokens and published accounts are their owners', what is published is the manifest |
| `quota_race` | ordinary account, limit 3, 2 requests | expected violation of `QuotaHolds`, see Findings |
| `requests` | 2 accounts, 2 monitors, 2 requests in flight, with pages or with 2 names and 2 frequencies, one of them below the demo's minimum; the throttler with windows of 2 units and a limit of 3: 2 addresses asking for the list beside a poll over 6 units, 1 address, 3 routes and a poll over 7 | pages hold own rows, refusals are final, nothing is lost or deleted twice; limits hold per route in every window, a poll is refused only when others at its address crowd the list, Retry-After is true |
| `public_status` | 3 requests, TTL 2, queries of up to 2 units; retention of 3 ticks for windows of 1 and of 3, over 4 ticks; one service over 4 units, two over 2; a hint over 9 units | single flight, refinement of `StatusContract` (answers of bounded age), answers never go back; what the retention takes from the uptime, and when it takes nothing; no label and no all-clear that a recent check has not earned; hints neither late nor false |
| `pages` | 2 logins, 1 call at a time; a page that stays with 2 creates and 2 deletions in flight, one that is left with 2 mutations in flight; a form with three frequencies | one identity, ended sessions stay ended, and only the listed reasons end one; no ghost rows, no stuck panel, lists catch up; input is kept and marks are exact |
| `history` | a page with 3 sections and every failure, one with 3 limits, one that changes between 2 monitors; a chart of every 4 rows within 5 units; a summary of every 24 rows with 3 latencies or none | no stuck expansion, pauses kept, rows of the right monitor that the hook keeps and only two notices take off the screen; chart and summary meet their definitions |

The instances that share a run share no state; a variable `running` names the one
that moves. A property of such a run conjoins named parts that the component's
module states one by one, mostly with the component's type invariant; those of
`MonitorChecks`, `PollCycle`, `Heartbeat`, `Retention`, `MonitorQuota`,
`PublicStatusCache` and `MonitorHistory` are part of what is proved and not checked
again, like `LimitsKept` of `PollCycle`, which its contract contains. Each
property has a mutant of the code, marked `MUTANT` beside the definition it
replaces, under which its run finds it violated.

Bounds. `MaxResults` stops the poll query, so a history is at most that long
(plus one per commit that lands late): four results at threshold 2 hold a down,
the failure after it, a recovery and the start of another run. `MaxRequests`
bounds the PATCH and DELETE requests in flight per monitor; one of each meets
every stage of a check, and a second one meets a deleted row like the first. `Ids`
are serial values never reused, so two ids are two monitors or one monitor and its
replacement; when all ids are used up nothing more is created. Threshold 2 is the
smallest that tells "one failure" from "confirmed". The scope "deep" of `checks_deep` has
one live row at a time and lets the second be checked once (`CheckedOnce`): what can meet
it is a check of the first that is still in flight. In "pair" each of two rows is checked
once: they meet in `Fetch`, `DemoReset`, the seeds and the end of the process, for which
any stage of either check will do, and not the length of its history.

In `progress` three items for two permits make the refill happen, and leave an
item for whom a lost result is fatal; five tasks for two
connections make someone wait. In `heartbeat` one permit and three items make a
cycle longer than `MaxAge`, so that only the heartbeats within the cycle keep the
worker alive; `age` is counted to the first value that is too old. In `retention`
five rows are one more than two batches of two, so that a pass both spends its
batches and, in another history, ends with a short one. In `accounts` two emails
and two names let registrations collide in either alone; `MaxReconfigs` and
`MaxConfigs` bound changes of the configuration, one of which suffices to make an
owner the demo account. In `requests` `MaxId` bounds the monitors ever created to
one and its replacement, `MaxRows` the child rows, and `MaxTime` lets a block
begin, end and begin again; two addresses are followed for `MaxShort`, three windows, as
they share no entry of the store: in one the others crowd the list, in one the poll may
still be refused, and in one it must get through. The limit is one more than the polls
of a window, so that one request of others has room and the second crowds. In `public_status` a query may outlast the time to
live, and three requests are a leader, one that joined and one that comes later;
the clocks (`MaxUptime`, `MaxPage`) go on until the oldest rows have left the window,
and until a label has gone from fresh through stale; of the two windows one equals the
retention, as `Load` allows, and one is shorter by skew and delay; two services are shown until `MaxShort`,
without the degraded state, for what the summary makes of several; `MaxEdits` is one
change of frequency or state while a hint waits. In `pages` `MaxLogins`, `MaxCalls`,
`MaxCreates` and `MaxDeletes` bound what is in flight: two of what may overtake one
another; a page that may be left has more places to be in, and `MaxLeft` mutations in
all. In `history` 24 rows pass the 20 at which the percentile leaves the maximum.

Symmetry is used in runs without liveness properties, over sets whose members no
definition tells apart. Deadlock is checked except in `public_status` and
`history`, where clocks end and rows are given once; elsewhere the system can
always crash, restart or be asked again (in `PollCycle`, `Exited` stutters).

Fairness. `PollCycle`: weak fairness of `Fetch`, `Dispatch`, `Join` and `JobEnd` is
that goroutines are scheduled and every wait in them has a deadline; of `Finish`
that a check ends, as its probe, transaction and rollback each have one. Strong
fairness of `Leave` and `JobStop` is the random choice of Go's select among ready
cases: a ticker that fires again and again cannot hide a cancelled context for
ever. Nothing is assumed of ticks, of successful queries or of the signal.
`ConnectionPool`: a free connection is given to the head of the queue and a
transaction with its locks ends (weak), and one whose rows are free again and
again gets them (strong), as PostgreSQL queues for locks; no probe need end and no
deadline pass. `MonitorHistory`: the interval and the timer of a pause fire, and requests end, one
way or the other.
`MonitorsPage`: the interval fires (weak), and a list request is served and
answered with rows now and then (strong), which is what catching up means; it
need not be always. The other modules state safety only.

## Proofs

Every theorem holds for every value of the constants that the named assumptions
allow: finite sets where something is counted, positive limits, distinct model
values, and that the demo manifest leaves a free slot, which `DemoSeed.seed` checks.
Bounds such as `MaxResults` are constants too, so a theorem covers every length of
history. Those on alerts have a hypothesis more, said below. All follow one pattern: a
strengthened invariant, its base case, a lemma per action or group of actions, and
PTL for the last step. The runs check what the invariants imply, on the instances
above.

`MonitorChecksProofs`, for every set of ids and targets and every threshold:

- `TypeCorrect`, `RowsCorrect`, `TargetCorrect`, for both values of `SlowCommits`:
  types, `RowsJustified`, `OneStaleResult`. `RowsInvariant` has, beside what holds of
  the rows (`Settled`), what holds of anything that may still become one (`Underway`):
  a check that has inserted its result holds its row; an aborted probe exists only in
  a draining worker and never gets to its transaction; whatever is about an old target
  is the next result after the change. A commit given up and a check that overtakes it
  are about different targets only if the later of them read the row after the change,
  which is why one stale result is the most there can be.
- `AlertsCorrect`, `EarnedCorrect`, `NoticedCorrect`, if `SlowCommits = FALSE`:
  `AlertsAlternate`, `AlertsEarned`, `OutageNoticed`. They are not inductive: a commit
  writes what `evaluateFSM` made of `snap[m]`, read long before. `AlertInvariant` adds
  per row that the count of failures is backed by that many unhealthy results
  (`RowGood`), and per check in flight that the snapshot agrees with the row's
  `last_state` and that its count is the row's or, after a seed cleared the row's
  count, not smaller and still backed by results (`CheckGood`). `CommitGood` is the
  heart: with that agreement the appended result and alert keep all clauses.
- `ContractCorrect`, if `SlowCommits = FALSE`: `MonitorChecks` implements
  `AlertContract`. A commit is one of the contract's observations (`CommitObserves`), a
  deletion and the reset forget (`ViewForgets`), and every other step leaves the view
  as it is (`ViewKept`).

The hypothesis is what a slow commit breaks: that no other transaction on the row
commits during a check. `checks_slow_alerts` shows that it is needed.

`HeartbeatProofs`, for every finite set of monitors and every concurrency:

- `LimitsCorrect`, `CyclesCorrect`: `LimitsKept` and `CyclesDoNotOverlap` of the poll
  cycle. The limit is on a counter of the loop, the properties are on goroutines;
  `CountInvariant` says that the counter is the number of goroutines running or with a
  result in the channel, and zero outside a cycle.
- `CycleContractCorrect`: `PollCycle` implements `CycleContract`. `DispatchInvariant` adds
  that every permit is in use while items wait and no signal came, so that a loop whose
  counter is zero has nothing left to start (`LoopPromise`). A refill starts its check
  when the received one no longer runs but is still counted, hence within the limit
  (`PromiseStart`).
- `HeartbeatCorrect`, `HealthCorrect`, for every choice of the times:
  `NeverFalselyStale`, `HealthyMeansProgress`. `FreshInvariant` bounds the age by the
  place of the loop and, within a cycle, by the time each running check has spent plus
  the longest wait before the cycle: every result writes the file, so no check is
  older than the file by more.

`RetentionProofs`, for every batch size, limit and number of rows:

- `BatchesCorrect`, `RetentionCorrect`: `BatchesOrdered`, `CleanPass`.
  `RetentionInvariant` counts what the pass deleted by its batches, keeps all that was
  due or deleted behind the cutoff, which later rows are not, and states `CleanPass`
  table by table (`Done`).

`MCRequestsProofs`, for any accounts, monitors and requests in flight, any addresses,
limits and time to live:

- `AnswersCorrect`, `WritesCorrect`: `AnswersAreOwn`, `WritesKept`. What a request read
  in its first call is stale in its second; what stays true of it is that the id had
  been given to this account and that no id is given twice (`Pending`). The floor of the
  frequency is claimed of what a request wrote: a PATCH judges it in the same call that
  writes it, while seeds and resets, which write what the manifest says, end the claim.
- `PollingCorrect`, `WindowCorrect`: `PollRefusedByCrowdOnly`, `WindowKept`.
  `GuardInvariant` has, for each entry of the store, that its hits are at most the limit
  outside a block, that a block ends before the hits that began it could be counted again
  (`Counts`), that what passed in the last `Ttl` is among the hits of each throttler
  that applies, and that at the promised time there is room or no block (`FreeAt`). A
  strict throttler's block must not outlast the default one's with hits of its own, for
  a refusal by the one is a hit on the other (`Follows`). For the poll, `PollsCounted`
  splits the hits on its list into those of others and polls, one per unit of time and so
  at most `Ttl` of them (`PollsFew`): the hit that begins a block is one more than the
  limit, hence the others were more than `Room`, and `crowded` says when
  (`ListArrival`, `RefusedRightly`). That the limit is at least `Ttl` units only makes
  `Room` a number: it is 100 requests in 60 seconds for a page that asks every 10
  (`app.module.ts:31`, `useMonitors.ts:13`).

`MCAccountsProofs`, for any quota, registrations, logins, starts and manifests:

- `OvershootProved`: `OvershootBounded`. The invariant counts the requests that may
  still insert together with the rows.
- `WinnerCorrect`, `OwnCorrect`: `OneWinner`, `OwnAccountOnly`, also of `Accounts`
  alone. `RegistryInvariant` says of each row who created it and who knows its password
  (`Faithful`), of the rows a login has read, which may be old, that what they tell of
  who signs in is still true (`LoginOK`), and of an owner a seed has found that the
  status seed created it (`SeedOK`). What makes it inductive is that no statement takes
  a row, its creator or its email away (`RowsStay`), although the demo seed rewrites
  the rest of a row it adopts.
- `SeedsCorrect`: `SeedsApplied`. `SeedsInvariant` follows every start through its
  statements (`Place`): what it has written is what the manifest says, what is left to
  upsert or to hide covers the rest, and its reads are those of the configuration that
  is set, hence a commit in between did what this one would. Of the demo's keys it says
  which have been seeded, and no visitor or reset makes that undone (`VisitorStep`). A
  change of the configuration needs all containers stopped; two deployments that overlap with
  different manifests are a divergence below.

`MCPublicStatusProofs`, each for the composition and for the component alone:

- `FlightCorrect`, `MonotoneAnswers`: `FlightShared`, `NeverGoesBack`. The running
  query read nothing older than the last answer, because it started after that answer
  had expired and no other runs (`FlightOK`, `RowsOK`).
- `CacheCorrect`: `PublicStatusCache` implements `StatusContract`. A query shows at
  least what there was when it started, a cached answer what there was when its query
  could have started at the earliest, `past[MaxAge + 1 - left]` (`PastOK`); each tick
  moves both one place back in `past`, and neither gets beyond `MaxAge`.
- `UptimeCorrect`: `UptimePreserved`, for every window that `Load` accepts. `DeletedIsOld`
  makes it inductive: whatever is deleted, or a batch that has its cutoff may still
  delete, is older than the retention by the worker's clock, and no query is older than
  `MaxDelay`. So what a query misses lies at the far end of its window, within skew and
  delay of the retention (`MissedIsOld`), and is outside the window altogether when the
  retention is longer by both.
- `StatusCorrect`: `StatusEarned`. Every row on its way to the page, in the table, the
  API's cache, the answer in flight and on the page, was left by a check when it says in
  the state it says (`Backed`), however old it has become; the label then judges its age.
- `HintCorrect`: `HintTimely`. The timer is never set for longer than `MaxClock` from
  the last change of row or clock, and since the row shown was read the worker has let
  the rest of the time pass (`HintInvariant`).

`MCPagesProofs`, for any number of logins, calls, rows and mutations:

- `SessionCorrect`, `EndingCorrect`: `SessionSound`, `EndsForAReason`. An attempt in
  flight was never a session, the copy in `sessionStorage` follows the store, and a
  request is answered 401 only for a token the API rejects or for none
  (`TabInvariant`); the token of a request is the stored one, that of an ended session, or
  none, which is what makes the list of reasons complete.
- `ListCorrect`: `ListTruthful`. A fetch that still lists a deleted monitor was
  cancelled when the deletion was reported, and the list counts as stale until it has
  been fetched again (`StayInvariant`, for a page that stays: on a page that is left
  it is false, see Divergences); the panel is stuck on no page (`ListInvariant`).
- `FormCorrect`: `FormKept`. A refusal in flight carries the objections to the values
  that were sent (`FormInvariant`), and the words `normalizeDetail` looks for name
  the fields objected to (`TextMarks`, `NoListNoMarks`).

`MCHistoryProofs`, for any monitors, sections, limits, rows and frequencies:

- `SectionsCorrect`, `VisitCorrect`: `SectionsSound`, `VisitKept`. `HistoryInvariant`
  ties what is kept for display (`prev`, `last`) to the page shown; `Drawn` is what the
  effect after every render leaves of it, and the step lemmas follow a query through
  start, answer and failure. For what is on the screen, `KeyStep` says what one step may
  do to a query, and `DisplayStep` that only a terminal failure or a new request for
  missing metadata changes what the page returns.
- `ChartCorrect`: `ChartFaithful`. The properties hold of the points visited so far;
  `LoopInvariant` makes them inductive: the points come in their order, the one before is
  the last of them, and it is in the open line exactly if it was measured. No recursion
  is left, since a turn of the loop is a step.
- `SummaryCorrect`: `SummaryExact`. `SummaryInvariant` is that the latencies stay sorted;
  the latencies that are not greater than a given one are the first ones (`Sorted`), so
  counting them is taking a place, and the two formulas are judged by arithmetic.

Only model-checked, and why:

- Liveness, for which fairness and ENABLED are out of the prover's reach:
  `CycleCompletes`, `ShutdownCompletes`, `EveryoneConnects`, `KeepsPolling`,
  `RowsCatchUp`.
- What TLC adds to the refinements and invariants is that the interesting cases occur
  in the instances and that each property notices a mutant; every invariant, action
  property and refinement of a passing run is stated by a theorem.

## Findings

- `checks_slow_alerts`: `sentinel-worker/README.md:21` says "Alerts fire only on
  state transitions." The worker decides on a snapshot and updates the row
  unconditionally; when a COMMIT outlives the client's deadline, the next check
  may start from the state before it, and one outage gets two "down" alerts.
- `quota_race`: `README.md:80` says "Ordinary accounts default to at most 10
  monitors". `createMonitor` counts and inserts in two database calls, with no
  transaction, lock or constraint; two concurrent requests pass the same count.

### Divergences

These were met while modelling, by reading the code or from a counterexample of a
stronger property, and have no run of their own.

- `README.md:80`, "The shared demo is limited to 3 monitors": after a visitor
  deleted a manifest monitor and filled the account, the seed of the next start puts
  it back without counting (`demo-seed.ts:64`; `OvershootBounded` has the bound).
- `app-throttler.guard.ts:28`, "If the request has an authenticated user, rate limit
  per user ID": the throttler's guard is listed before the one that authenticates
  (`app.module.ts:56`), so every limit is counted per address.
- `users.service.spec.ts:70`, "should throw BadRequestException when email already
  registered": of two overlapping registrations the second meets the unique index,
  whose error nothing maps, and is answered 500 (`users.service.ts:43`).
- `monitors.service.spec.ts:223`, "should throw NotFoundException when monitor not
  found": a PATCH or DELETE whose row went after the lookup is answered 500.
- `status/README.md:17`, "After each successful seed, `is_public` is true exactly
  for" the manifest's monitors: two starts that overlap with different manifests do
  not see each other's rows and both succeed (`status-seed.ts:123`).
- `DEPLOY.md:105`, the retention "must cover the uptime window": `Load` accepts
  equality, with which a row at the old end, within the skew of the clocks and the delay
  of a query, may be deleted while it still counts (`UptimePreserved` has the bound).
- `MonitorHistoryPage.test.tsx:380`, "treats a monitor missing from loaded metadata
  as unavailable": after a failed refresh of the metadata `isSuccess` is false and
  the sections are shown again (`MonitorHistoryPage.tsx:129`).
- `odd/tasks/monitor-history-ui.md:10`, "respect Retry-After": Load more looks at the
  pause of the limit displayed; after leaving and returning it asks for a larger
  limit during that limit's pause (`useMonitorHistory.ts:186`).
- `main.tsx:8`, "small user-scoped payloads refetch": the list is cached under a key
  without the user and survives a logout, so the next account first sees the list of
  the previous one (`useMonitors.ts:25`).
- `useMonitorMutations.ts:5`, "the new row appears immediately", and
  `DeleteButton.tsx:6`, any outcome "invalidates the list": an invalidation while
  the first list is loading, or after the page was left, does not restart the fetch
  in flight, whose older answer then counts as fresh.
- `CreateMonitorForm.tsx:10`, "Client validation mirroring the server constraints":
  a frequency between 10 and 59 and a private address pass the form and are refused
  by the API.
- `README.md:80`, the demo has "the same 60-second minimum": it binds requests only; the
  frequencies of the demo manifest are written unchecked by the seed
  (`demo-seed.ts:57`) and need only be positive for the reset (`demo_reset.go:54`).
- `README.md:79`, "100 requests/minute overall" and "20/minute for monitor mutations",
  and `DEPLOY.md:117` and `:125` likewise: the throttler counts per handler, so every
  route has its 100 and POST and PATCH 20 each; DELETE (`monitors.controller.ts:58`) has no
  decorator and so the 100 of any other route (`WindowRespected` is per route).
- `DEPLOY.md:125` and `:121`, the limits set by `THROTTLE_MONITORS_LIMIT` and
  `THROTTLE_AUTH_LIMIT`: the decorators state limits of their own, which replace them
  (`monitors.controller.ts:34`, `auth.controller.ts:14`, `users.controller.ts:24`).
- `client.ts:6`, "on 401 clears the token": whichever is stored. The late 401 to a request
  of an ended session, or sent without a token, signs a new session out
  (`client.ts:99`-`105`; the last disjunct of `EndingHasReason`).
- `MonitorHistoryPage.tsx:46`, "Previously loaded data is still shown.": the rows the
  notice speaks of are replaced by "Loading monitor…" at every further request for
  metadata that has never been loaded (`MonitorHistoryPage.tsx:139`), and by "Monitor not
  found" after a terminal failure of any section (line 129).
- `README.md:82`, a fresh state is labelled by its result: a check newer than the
  page's last tick is labelled "No data" until the next (`StatusPage.tsx:152`).
- `useMonitorFreshness.ts:6`, "at its exact boundary": a row whose boundary lies
  between the last clock and now waits a full period (`useMonitorFreshness.ts:28`).

## Not modelled

- The SSRF-safe client (`ssrf.go`): classification of addresses and dialing, with no
  state; the validators of targets beyond what `CreateForm` distinguishes.
- Validation of the environment, CORS options, `config.go` beyond the age of the
  heartbeat and the rule on the retention: they run once, at the start.
- File system errors of the heartbeat, the database ping of the health command.
- `parseDemoManifest` beyond its rule on frequencies, and the texts of the manifests; the
  demo reset writes a manifest of one entry in `MonitorChecks` and `MonitorRequests` and
  only counts in `MonitorQuota`.
- Deadlines that pass while a task waits for a connection: `ConnectionPool` has none.
- Indexes of the schema; `schema.ts` of the frontend, which is generated.
- Presentation: layout, axes and labels of the chart, number formats, the keyboard
  focus.
- Password hashing, signatures and expiry of tokens, decoding of their payload.
- Operations: the backup script, Compose files, the load test.
- A first error ends a retention pass, so results whose batches keep failing keep
  alerts from being retained; that is a question of rates.

## What could come next

1. The classification of addresses in `ssrf.go` as pure operators against the reserved
   ranges.
2. The list of monitors across two sessions of one tab, whose cache is not cleared
   (`useMonitors.ts:25`), as one module of `Session` and `MonitorsPage`.
