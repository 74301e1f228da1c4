# A TLA+ model of the API discovery server

The API discovery server (ADS) watches the HTTP traffic of a cluster through
DeepFlow (phase 1), copies the published APIs of a WSO2 API Manager (phase 2),
and compares the two (phase 3): an observed endpoint that no managed operation
accounts for is reported as *drift* if its service has a managed endpoint, and
as *shadow* otherwise. A retention job ages the data, a REST surface (BFF)
serves the report, a probe reports readiness.

These modules model the server's control flow, TLC checks them on small instances
(`tlc -config X.cfg M`), and TLAPS proves every safety property of the passing runs
for all values of the constants (`tlapm M.tla`). `PROJECT.json` lists the runs, the
theorems, the mutants that show that each property can fail, the hazards, and for
each definition the source lines it stands for.

## 1. Inventory

| Component | State | Operations | Correct if |
|---|---|---|---|
| Catalogue (`store/*_repo.go`, `store/migrations`) | six tables, a materialized view | one SQL statement per step, two in one transaction for the sync | rows refer to rows; time stamps and verdicts never go back |
| Phase 1 (`discovery/pipeline.go`) | the rows of the window | query, ensure services, upsert endpoints, stamp | late or overlapping windows do no harm |
| Classifier, normaliser, merger (`discovery/`) | merged rows | fold one DeepFlow row, cut the clients | the order of the rows changes no total and loses nothing; paths join with phase 2 |
| Phase 2 (`managed/`) | the listed APIs and their details | list, fetch, expand, sync, stamp | the active operations are those of the published APIs |
| Phase 3 (`comparison/`) | none of its own | guard, classify, mark anchors, refresh the view, stamp | no false shadow; nothing reported before a sync |
| Retention (`store/retention_repo.go`) | none of its own | four deletes and updates, stamp | anchors and newest verdicts survive |
| Cycle loop, breakers (`engine/`) | timers, mutexes, breakers | tick, TryLock, Allow, run, record, unlock | runs of a phase do not overlap, back off after failures, and never stop for good |
| State and probe (`engine/state.go`, `health/`) | flag of the database, breaker registry | poll, read, answer | an answer rests on breakers as they were during the request, and on news of the database that is no older than the poller allows |
| API Manager auth (`apim/auth.go`) | credentials, token | register, issue, refresh, rest | callers find a valid token through outages |
| Publisher client (`apim/publisher.go`, `httputil/`) | the page, the semaphore, results and errors | page, retry, fetch, wait | every published API is found or accounted for; the run ends |
| BFF auth (`bff/auth.go`, `bff/token_cache.go`, `apim/introspect.go`) | LRU cache | get, introspect, put | a revoked token dies in time; the cache keeps what is used |
| BFF queries (`bff/server.go`, `store/bff_repo.go`) | none | list, detail, untrafficked, summary | clients never see an older verdict after a newer one; paging misses nothing; the lists agree with each other |
| Connection, migrations (`store/connect.go`, `migrate.go`, `migrations`) | `schema_migrations` and the schema | connect and back off, count, probe, backfill, check, apply | what is recorded was applied; whoever serves finds the schema; a start survives faults |
| Engine, entry point (`engine/engine.go`, `cmd/ads/main.go`) | goroutines, error channels, the context | wire, signal, wait, exit | a signal ends the process in any phase; the exit code tells of a failed server |
| DeepFlow client, configuration, logging, models | none | I/O, parsing | not modelled |

**Interactions.** The loop starts a goroutine per tick; the goroutine of
phase 1 runs phase 3 inline; phases 1 to 3 and retention meet only in the
tables, and phase 3 learns of phase 2 through `phase2_last_success`. Phase 2
calls the API Manager through the Publisher client, which asks the auth object
for a token, which its own background loop renews. The probe reads the breakers
and the flag of a poller. The deployment runs two replicas on one database,
with no leader and no locks between them.

**What is hard here.** Statements of four jobs, of several replicas, in any
order; a crash or an error between any two of them; a guard that is read once
and used later; details that are missing; a list that changes while it is paged;
timers against outages; replicas that migrate one database at once and may die
halfway; TryLock, breaker and run in several goroutines; an LRU
whose entries expire, renew and get evicted under concurrent requests. Section 6
of this file and the hazards of `PROJECT.json` go through these one by one.

## 2. Modules

```
Catalogue                    the tables and the SQL statements
  Discovery  Managed         phase 1, phase 2
      Comparison             phase 3, in the goroutine of phase 1
  Retention
         Pipelines           all jobs of all replicas, clock, crashes
           PipelinesProofs
           Report            the BFF's reads beside the jobs
             ReportProofs

Startup                      connect, migrate, run, shut down; replicas, faults
  StartupProofs

CircuitBreaker               the breaker as operators on a record
  CycleLoop                  timers, goroutines, mutexes, breakers
    Readiness                the probe beside the loop
      ReadinessProofs        the loop, its policy, and the probe
RetryPolicy                  what the loop promises; CycleLoop implements it

ApimAuth                     token refresh
  ApimAuthProofs
Publisher                    paging, detail fetch
  PublisherProofs
FetchPolicy                  what phase 2 relies on; Publisher implements it
TokenCache                   BFF authorisation
  TokenCacheProofs

Normalizer                   paths of both sides
  Merger                     classification, noise, merge
    MergerProofs             the merge, and paths of both sides
```

Each `MC` module instantiates one of them for the configurations of its name.
An operator with a name like `CycleFindAnchors_Inactive` is a bug that the code does
not have, kept beside the definition it would replace: it shows that a property
is able to fail. No specification uses one.

### Catalogue, Discovery, Managed, Comparison, Retention, Pipelines

A table is the set of the keys that have a row and a boolean column the set of the
keys for which it is true (`ads_discovered_apis` is `discovered`, `active`,
`anchored`, `lastSeen`; `ads_managed_apis` is `stored`, `activeOps`, `syncedAt`;
`ads_classifications` is `findings`). One SQL statement is one atomic step, with one
exception below. The two of `ManagedRepo.Sync` share a transaction and are one step,
`SyncManaged`; those of `Classify` do not, and are `CycleClassify` and then
`CycleFindAnchors` and `CycleMarkAnchors`. `cycle[r]`, `sync[r]` and `cleaner[r]`
are the program counters of the three jobs of replica `r`; on each, an error may end
the job (`CycleFails`, `SyncFails`, `RetentionFails`) and a `Crash` of the process
ends all three.

Left out of the data: columns no statement reads back (durations, status codes,
samples, the stamps of phases 1 and 3 and of retention), the internal/external flag
of a finding, and the identity of operations that a row matched. `Endpoint`, `Op`
and `Api` are sets, related by functions (`ServiceOf`, `SignatureOf`, `ApiOf`,
`GatewaySignature`, `BackendSignature`). The traffic of a window is any map from
endpoints to times in the window: `Merger` says how the code gets there.
`ListPublishedAPIs` is one step here, which is right for the one page of at most 200
APIs (`KeepsFetchPolicy`); `Publisher` has the pages. Retention may start at any
time, a superset of 02:00 every day. Two syncs never read the same `time.Now()` and
two classify statements never the same `now()`.

PostgreSQL runs the statements under READ COMMITTED: a statement sees a snapshot
of its own, and when it has waited for a row that another changed, it evaluates
its condition on that row again. Statements whose conditions speak of the row
itself behave as one step. `markAnchorSQL` does not: `is_active = true` stands in
the subquery, which is not evaluated again, so that a row can be flagged that
the soft delete of retention has deactivated in between. It is therefore two
steps, the subquery (`CycleFindAnchors`, which keeps what it found in
`marking[r]`) and the update (`CycleMarkAnchors`). `overtaken` is a history
variable: the inactive rows that retention deactivated in between. Only they
can be inactive anchors (`AnchorsActiveUnlessOvertaken`), until traffic of the
endpoint revives them.

### Report

The BFF reads beside `Pipelines`. `ranked` is the `last_seen_at` that the rows
of the view carry since its last refresh, which orders a list. `ReadPage` is GET
/apis with any filter, limit and offset, through the clamps of repository and
handler; `ReadDetail` is GET /apis/{id}; `Untrafficked` is the answer of GET
/untrafficked, read from the tables. `shown` is a history variable: of each
endpoint the row that some client saw last. One variable stands for all clients
together, which is the stronger claim. `Walk` is a client that follows the
pagination block, with the limit and offset that the handler echoes. Of the
payload only endpoint, verdict and time are kept.

### Startup

`pc[r]` walks a replica through `ConnectWithRetry`, `RunMigrations`, the wiring
of `engine.Run`, its wait and its shutdown. Each query, each INSERT of the
backfill and each transaction of a migration is a step of its own; the replicas
share the database. A migration is what it leaves behind (`Provides`,
`ViewOf`), what it needs (`Needs`) and what it drops; 003 needs the column
`service_identity` of an existing table for its index, and 007 drops that
column, which is why a database that has seen 007 cannot run 003 again. The
databases that a start may find are an empty one and those from before
`schema_migrations`, with 001 to 006 or to 007 applied. Each start of those days
ran 001 again, whose seed names no conflict key, so that a database that was
started several times holds as many state rows (`starts`).

The two servers are kept with the content of their error channels; that the BFF
may be disabled is a choice in `Wire`. Processes crash, statements fail,
listeners fail, the database goes down, and a signal arrives, in any phase. A
server whose listener failed is `broken` until its Run returns: with the error
(`failed`), or with nil (`stopped`) if it sees the cancelled context instead and
drops the error (`health/server.go:105-114`). What
exits by itself is restarted, what was told to terminate is not. The pool's
Ping and the statement after it are separate steps, so that an outage may begin
in between.

### CircuitBreaker, CycleLoop, RetryPolicy

`pc[g]` walks a goroutine through the body of a tick: TryLock, Allow, Run,
Record, MarkPhaseSuccess, phase 3 under its own TryLock, and the deferred
Unlock. Time is counted in minutes; the breaker keeps the minutes since it
opened. `RetryPolicy` states what that machinery is for, with no timers, locks
or breakers: runs of a phase do not overlap, and after three failures in a
row, and each further one, the phase pauses for a time that depends on their
number. `KeepsPolicy` is the refinement, with `running`, `streak` and `since`
read off the goroutines and breakers. Which pipelines are built is a choice of the
initial state; without either, `StartPhase3Only` and `EndPhase3Only` are the
loop of `runPhase3Only`.

### Readiness

The handler reads the flag, then each breaker for the body, then each breaker
again for the status, one lock at a time, beside the whole of `CycleLoop`; an
unreachable database settles the answer before the second round. The times of
the last successes, which the body carries as well, are left out.

The flag is not the database. The poller pings every `PollEvery` seconds with
`PingTimeout` (10 and 3 in the code), the ping finds any state the database had
since it began, and the flag starts as TRUE before the first. An answer can
therefore rest on news that is 13 s old (`Staleness`), and before the first ping or
after the context was cancelled, when a ping fails whatever the database does, on
nothing at all. `wasClear`, `wasOpen` and `grounds` are history variables: the
breakers that were not open at some time of the request, whether one was open, and
what the flag could say of the database when it was read.

### ApimAuth

Time in units of ten seconds. `loop` walks through Start and then the refresh
loop; `wait` is the rest of a sleep or the age of a request. `left` is the life
of the cached token. Callers of GetToken may replace it while the loop sleeps,
and the loop notices only when it computes its next sleep. `EnsureCreds` and
`Register` may leave no credentials file behind. A request ends by the timeout
of the HTTP client: within the outage it fails, otherwise it succeeds, except
the refresh grant, which may always be rejected.

### Publisher, FetchPolicy

Administrators create, delete, publish and withdraw APIs between two pages;
`offset` moves by the page size. `worker[i]`, `tries[i]` and `free` are the
goroutines, their attempts and the semaphore. The order in which the kept APIs
of one page are appended to the result is left open: nothing depends on it.

`FetchPolicy` is the two calls that `Managed` makes, `ListPublishedAPIs` and
`FetchDetails`, as one step each: if one page holds the list, the published APIs
of one moment, and then each of them with a detail or with an error.
`KeepsFetchPolicy` is the refinement; pages of a longer list are steps of their
own there, whose sum is what `ListingIsFaithful` is about.

### TokenCache

`items` is the key set of the map, `lru` the list; `age` is the time since an entry
was cached, where everything beyond the TTL, and never, is one value. A request
moves from `get` through `introspect` and `put` to its answer, and the API Manager
may stop calling the token active at any point. `staleFor` and `usedSince` are
history variables.

### Normalizer, Merger

A path is the sequence of its segments. Which segments match a pattern is given
by sets, so that all regular expressions are covered at once. A placeholder may be
a part of a segment, as in `{sku}.json`, which pass A rewrites to `{id}.json`
(`Rewritten`); the endpoint of a backend may end in slashes. `Fold` takes the
DeepFlow rows in any order. It keeps the fields that the order decides as well:
the pod (of the last row that the server process saw, or of the first that has one),
the domain of the first row, the first port of a caller, the
addresses that come first below the cap. Durations, status codes and URL samples
are left out. The callers of a row are sorted by observations;
the code breaks ties by name, and names have no order here, so that nothing
proved depends on how a tie is broken. Query strings are cut off before anything
else and are left out.

## 3. Runs

| Run | Question | Instance | Distinct states |
|---|---|---|---|
| `single` | do the jobs, interleaved with each other, with crashes and with administrators, keep the catalogue consistent and the verdicts right? do late windows turn back `last_seen_at`? | two endpoints of a service, overlapping windows, two APIs of one operation each, one stable, one replica | 2.3 million |
| `report` | do hard deletes and returning rows ever turn back what a client is shown? do the BFF's lists agree with the catalogue? | two endpoints, one stable API, two clock ticks, pages of one row | 435 455 |
| `partial` (violation) | does the freshness guard prevent false shadows when a detail is missing? | as `single`, one API | |
| `stale` (violation) | do managed endpoints stay out of the report? | one endpoint, no detail is ever missing | |
| `ready` | does the loop implement the policy, do all phases go on, and do 200 and 503 rest on the breakers during the request and on news of the database that is fresh enough? | two goroutines of phase 1, cooldowns to 3 minutes, the probe, a poller of 2 s with 1 s of timeout | 54 676 |
| `startup` (violation) | is phase 2 tried if auth fails at start-up? | both phases | |
| `boot` | does every process come up over a right schema, and end when it is told to, whatever fails? | two replicas on a legacy database that was started twice, or one on a younger or a fresh one; two faults | 415 682 |
| `race` (violation) | is what is recorded applied, if two replicas start over a fresh database? | two replicas, no faults | |
| `outage` | how long an outage does the token outlast, and does it always come back? | tokens of 400 s, two callers, outages to 200 s | 404 354 |
| `cache` | do list, map, expiry and eviction agree under concurrency? | three tokens, two entries, two requests | 3.0 million |
| `fetch` | what can paging miss, does a run do what phase 2 relies on, and does it end? | four APIs, pages of two, two changes, two places, two attempts | 799 197 |
| `merge` | what does the order of the rows decide, is anything lost by it, and do paths join? | three rows in all orders, four operations, caps of one | 612 504 |

**Why these bounds are enough.** *Pipelines*: the properties relate one or two
endpoints of a service, one or two operations, and three times (a finding, a newer
one, a clean-up); retention periods of 0 make everything age within the clock's two
ticks, which is where the boundaries of `<` and `<=` are. Two replicas are not in
the runs; the theorems cover any number. *Report*: retention within the two ticks
deletes rows that were shown and lets them return; with pages of one row and a limit
of 3 asked, the clamp and the offset of the next page matter. `PagesComplete` looks
at the report of all active endpoints, which the pipelines alone fill only when
nothing is managed. *Ready*: two goroutines of a phase compete for its mutex, one
running or comparing while the other is skipped, and with `MaxFailures = 5` and
`MaxCooldown = 3` the cooldown passes through the flat part (1), the doubling (2)
and the cap (3 instead of 4), and outlasts the poll interval of a minute; a second
phase shares nothing with the first but the handler, whose loop over the breakers
the theorems of `ReadinessProofs` cover for any number. Loop and poller share
nothing but the handler either, and their interleaving would only multiply the
states: `MCSpec` lets the poller move in the behaviours where no phase was built
(`PollerMoves`), and the theorems cover both at once. A ping every 2 s with 1 s of
timeout has the same order of tick, timeout and staleness as 10 s with 3.
`MaxFailures` stands for the unbounded counter of the code; it saturates beyond the
cap, where the count no longer matters. *Boot*: attempts and backoff have the values
of the code (30 and 30 s); two faults are, for example, a crash amid the backfill
and an outage during the restart; the databases are all that the code tells apart.
The second start of `legacy6` leaves it with two state rows. What two replicas do to
each other is alike on both legacy databases, and the theorems of `StartupProofs`
are for any number. *Race* needs neither faults nor a third replica. *Outage*: 400 s
is the shortest kind of life beyond the buffer, the hardest for the loop, which
sleeps 100 s and then has 270 s (300 s less the margin of GetToken) to succeed.
*Cache*: eviction needs one token more than entries, and the races need two
requests. *Fetch*: two pages, so that a change between them moves an API across the
boundary. *Merge*: two rows merge, the third tells order apart, and cap 1 makes the
caps bite; the clients differ in tap, pod, domain, address and port, and one of the
targets has a placeholder inside of a segment.

`single` and `partial` drop `v_current_classifications` from the fingerprint of a
state: no action reads it and no property of these runs speaks of it. `report`
and `stale`, whose properties are about the report, keep the whole state.

**Deadlock** is checked where the system is meant to run forever. `fetch` and
`merge` end by nature (one run, one merge); in `boot` and `race` a process that
was told to terminate is not started again.

**What the violations show** is listed under `findings` in `PROJECT.json`, each
with the line of the documentation it contradicts:

* `partial`: `managed/pipeline.go:69` goes on after an aggregated error, and
  the sync deactivates the operations of every API whose detail is missing.
  With all details (`single`, and `CompleteFetchesPreventFalseShadow`) the property
  holds. This is not only about outages: a detail that cannot be decoded, as
  with endpoints given as an array, is missing in every sync.
* `stale`: an endpoint that becomes managed keeps its old finding in the view.
* `startup`: a failure of `auth.Start` disables phase 2 until a restart.
* `race`: the deployment starts two replicas. The first has applied 003 but the
  second has counted `schema_migrations` before; it now finds
  `ads_managed_apis`, takes the database for one from before the tracker, and
  records 001 to 006. The first skips what it finds recorded. Depending on the
  moment, 007 fails at every start that follows or `ads_capped_array_union`,
  which phase 1 calls, is missing for good. With one replica for the first start,
  and any number later, `boot` and the theorems of `StartupProofs` say that this
  cannot happen.

**Other disagreements** between the code and its comments, which the modules
take as the code has them, and which no violation shows:

* `retention_repo.go:69-73` keeps anchors out of the soft delete so that phase 3
  can draw inferences from active anchors. By the race of `markAnchorSQL` an
  inactive row can become an anchor, and phase 3, which reads active rows, then
  ignores it. The soft delete spares it ever after, and traffic revives it.
* `retention_repo.go:27-28` says that the errors of the statements are joined, "so
  a single bad row doesn't mask cleanup of the other tables"; `RunRetention`
  returns at the first error, and the other tables wait for the next day.
* `001_init.sql:33` says of its seed: "Insert a single state row only if the table
  is empty". The statement has no key to conflict with and inserts a row each
  time. `SeedRunsOnce` is what the tracker has made of it: no row is added to a
  table that is there. A database that was started before the tracker keeps the
  rows it has.
* `connect.go:15-17` speaks of roughly five minutes of patience. The sleeps add up to
  781 s (`PatientAtStart`), and the pings come on top. The health server
  starts after the connection, so that the startup probe of the deployment
  (`deploy/k8s/deployment.yaml:80-87`, 300 s) ends the process first. That is a
  `Crash` of the model, and `EventuallyUp` holds with it.
* `health/server.go:82-83` says that Run returns the listen error, if any. If the
  context is cancelled, an error that waits beside it is received and dropped
  (105-114, and `bff/server.go:84-93`): the process then exits with code 0. Hence
  `CleanExitMeansServed` speaks of the errors that Run returned.
* `expander.go:12-17` guarantees that both sides of the join use the same
  vocabulary. A parameter that matches no pattern, as in `/shop/item/blue` for
  `/item/{sku}`, one that an exclude pattern protects, and one that is a part of a
  segment, as in `/item/{sku}.json`, differ. `DynamicCallsMatch` is what holds.
* `EventuallyUp` exempts one state: a crash amid the backfill of a database that
  had seen 007 leaves 003 unrecorded, and every later start fails at its index until
  the record is inserted by hand.

## 4. Fairness

Safety is checked and proved without fairness. Liveness assumes:

* `CycleLoop!Fairness`: time passes; the select serves each timer that fired
  (Go picks among the ready cases at random); each goroutine goes on, which
  includes that each pipeline call returns: HTTP requests have timeouts, and that
  the databases answer every statement in the end is an assumption. Nothing is
  assumed of the outcome:
  `OpenIsRetried` holds for a phase that fails forever. Nothing is assumed of a
  goroutine once the process is stopping: `engine.Run` does not wait for the
  goroutines of cycles, and main may return between `RecordSuccess` and phase 3.
  `ComparisonFollows` therefore ends with the shutdown.
* `AuthFairness`: time passes and the loop is scheduled; requests end by the
  timeout because `Tick` is not enabled beyond it. The callers are not assumed
  to do anything. Outages end, and `GoesDown` happens at most once between two
  successes of the loop: with outages in quick succession no bound could hold.
* `ReadyFairSpec` (and `MCSpec`) has the fairness of the loop only: the probe and the poller
  need not do anything, and cannot hinder it.
* `StartupFairness`: a process goes on, its host restarts it when it exits by
  itself, and an outage of the database ends. Crashes, failed statements and new
  outages are bounded by `MaxFaults`: under an endless series of them nothing
  comes up.
* `PublisherFairness`: every request is answered or times out, and goroutines
  are scheduled. The answers are arbitrary.

## 5. What is proved

All theorems hold for every value of the constants that satisfies the named
assumptions: any number of replicas, endpoints, services, APIs and goroutines,
and any retention period, threshold and window.

**PipelinesProofs.** `TypeCorrectness`, and on top of it three inductive
invariants.
* `RowsInv` gives `RowsReferToRows` and `AnchorsGoInactiveByRaceOnly`. Referential
  integrity is not inductive alone: that phase 1 may upsert an endpoint needs
  that the services of the rows it carries have been ensured. Nor are anchors: what
  a statement has found and not yet flagged is active or overtaken.
* `GuardInv` gives `GuardWaitsForSync`: a cycle that has passed the guard
  implies that some sync has succeeded, since `phase2_last_success` only grows
  out of the epoch and the epoch is older than any threshold.
* `FindingsInv` (no finding, stored or shown, is from the future) and `ViewInv`
  (the report shows one finding time per endpoint, and none newer than the
  newest stored finding of the endpoint) give `ReportAdvances`. `FindingsInv`
  alone gives `VerdictsAdvance`: times that are bounded by the clock have a
  greatest, so that each endpoint has a newest finding, which the clean-up keeps.
* `AnchorsSurvive`, `LastSeenGrows` and `AnchorsPreventShadow` are facts about
  a step, from types and `RowsInv`.
* `OneReplicaSyncsExactly` assumes one replica and uses that
  every row is stamped before the sync in progress began (`SyncInv`); with two
  replicas it is false: a sync that began first and commits last leaves the
  operations of the other active until the next one. `CompleteFetchesPreventFalseShadow`
  assumes that no detail is ever missing. `StableInv` says that the operations of
  stable APIs are among those fetched from the moment of the listing, and active
  in the table from the first sync that commits; with `GuardInv` they are
  active whenever phase 3 classifies.

**ReadinessProofs.** Of the loop: `LoopTypes`; `LockInv` (who holds a mutex is
exactly who is between TryLock and Unlock, and p3Mu is held by the goroutine of
phase 1 that compares) gives `Phase3IsFree`; `BreakerInv` (a phase that runs has a
breaker that is not open, and state and failure count of a breaker agree) gives
`BreakersGuardRuns`; `LoopKeepsPolicy` is the refinement: the initial state maps to
the initial state, `Allow`, `RunFails`, `RunSucceeds` and `Minute` map to steps of
the policy and all others to stuttering. Two facts about its steps are what liveness
rests on: `OpenBreakersWaitOnce` (the wait of an open breaker only runs, because by
`BreakerInv` no run is left that could restart it) and `ComparisonIsUnavoidable` (by
`Phase3IsFree`, a goroutine that has succeeded with phase 1 has no way past phase
3).

Of the probe: `ProbeOnlyReads`: beside the probe the loop is the loop
of `CycleLoop`, so that its theorems carry over; `ReadyTypes`. `NewsInv` follows
the poller through its period: what the flag says was the case at most as long ago
as the last ping has ended and could take. It gives `FlagIsFresh`, for every
period and timeout. `HistoryInv` says what the histories know while a request is
open: the breakers that are not open now and those found so are among
`wasClear`, one that is open is known to `wasOpen`, and what was read of the flag is
among `grounds`, by `FlagIsFresh`. It gives `AnswersWereHealthy` and
`RefusalsWereUnhealthy`, for any number of phases and read in any order.

**StartupProofs.** `StartupTypes` without further assumptions. `RecordIsTrue`,
`UpFindsSchema` and `SeedIsNotRepeated` assume `SafeDeployment`: a fresh database
is given to one replica; `race` shows that this is needed. The invariant
`MigrateInv` says how far each replica has got (what it has passed is recorded
and applied), that the backfill only records what a legacy database has, and
that the database is a legacy one or has a single replica; whoever would seed the
state row again would have to apply 001, which by then is recorded.
`StartIsPatient` assumes the constants of the code and counts the sleeps attempt by
attempt: a process gives up after 781 s of them, neither earlier nor later.
`CleanExitIsTrue` needs no assumption: a process that reads its error channels has
waited until both servers returned, and its way to exit code 0 leads through
both channels, each with a nil. It says nothing of a listen error that Run dropped.

How replicas that migrate one database affect each other, again under
`SafeDeployment`: `MigrationsAddUp` (no migration undoes another),
`MigrationsAreAccepted` (one is refused only because another replica has just
recorded it, or because the database is *wedged*: a backfill that has recorded
less than the schema holds makes 003 fail), and `OnlyFaultsWedge` (until
something fails, a wedged database has a replica in the middle of the
backfill that ends it). `TerminationStepsRunOut` and `ExitIsTheEnd` need no
assumption: what a terminated process has left, as a set, is made strictly smaller by
each of its steps, never larger by anything else, and is empty exactly when it has
exited.

**ReportProofs.** `ReadersOnlyRead` carries the theorems of `PipelinesProofs`
over to `Report`; `ReportTypes`; `AnchorsAreTrafficked` follows from
`AnchorsGoInactiveByRaceOnly`: but for the race anchors are active, and the query
looks at active rows.
`VerdictsShownInOrder` rests on `ShownInv`: what was shown of an endpoint is no
newer than the newest finding, nor than the row of the view, even after
retention deleted the endpoint and traffic brought it back.
`PagingIsComplete`: by `PageOfRank` and `RankOfRow` the page of the offset that
the pagination block names begins where the last one ended, so that the pages
of a report that does not change, one after the other, are the report. The
assumption that `Endpoint` is finite is that a report has finitely many rows.

**ApimAuthProofs.** `AuthTypes`. `TokenOutlastsOutages` assumes `RoomFor(spread)`:
an outage of the tolerated length, four request timeouts, one rest, the
shortest sleep, the margin of GetToken, and what the lifetimes of the tokens
differ by, fit into the buffer of 5 minutes. With the values of the code, timeouts
of 30 s and equal lifetimes, this is an outage of 110 s, and the run `outage`,
which has just these values, meets the bound with no room to spare. `RenewalInv`
is the argument: it says, before, during and after an outage and for each place
of the loop, how much of the token is left at least. A caller that renews the
token meanwhile never makes it worse, because its lifetime is no shorter
than what the loop counts on by more than the spread.

**TokenCacheProofs.** `CacheAgrees` is inductive as it stands: entry points of
the cache keep map and list the same, without duplicates and within the
capacity. `BusyTokensStay` rests on `InOrderOfUse`: who stands before a token in
the list was used since, so that the last of a full list has been passed by as
many tokens as there are places. `StaleTokensEnd` rests on `AnswersAreFresh`: an
answer on its way to the cache is at most as stale as it is old, and an entry at
most as stale as its age and the latency of one answer together. Renewals and
late answers of concurrent requests only start from such an answer again. That
`Token` is finite is needed for counting.

**PublisherProofs.** `PublisherTypes` contains the accounting of the semaphore:
the free places and the goroutines inside are together as many as there are
places. `ListingMissesOnlyByDeletion` rests on `ListingInv`: the list holds each API
once; without deletions, what stands before the next page and stayed published
has been listed (`NothingHidden`); without creations, what has been listed stands
before the next page (`NothingTwice`). `FetchKeepsPolicy` is the refinement of
`FetchPolicy`: a page is `Gather` or `ListPublishedAPIs`, `Return` is
`FetchDetails`, and retries and goroutines are stuttering. It needs that nothing
is listed while the offset is 0, and that no goroutine is left once the run has
returned (`NoDetailLost`): a late one would change what was returned. All of this
holds for every page size, number of workers, number of attempts and number of
changes.

`Ahead` is the set of requests, starts and attempts that a run may still make.
`RunStepsRunOut`: a step of the run makes it strictly smaller or ends the listing, which
happens once; a change of the catalogue never makes it larger, since a new API uses
up one of `MaxChanges`. `RunHasAnEnd`: it is finite, and empty exactly when the
run has ended. `PlacesComeBack`: while the run fetches, the loop has a place, a
goroutine has one to give back, or everything is done, by the accounting of
`PublisherTypes`. That the catalogue changes finitely often is assumed: a listing
of a list that grows by a page per request has no end in the code either.

**MergerProofs.** `RowsAreSummaries` and `TopCallersStay` rest on
`MergerInv`: after any number of rows in any order, each merged row is a
`Summary` of the set of signals under its key: its totals are determined by the set,
and what the order chooses (addresses, pod, domain, ports) is chosen from it.
`SummaryGrows` is the step, one lemma for each part. A sum and a sorted
list are recursive in their data, and the induction rules of the library take
an operator as parameter, which the provers cannot instantiate. The module proves
a rule for sets of subsets instead (`SubsetInduction`, by a counterexample of
least cardinality), and from it that `SumFunctionOnSet` adds its members in any
order (`SumRemove`) and that every finite set of callers can be sorted
(`ListExists`). The assumptions say that DeepFlow returns finitely many rows with
integer times and natural counts.

For every path, pattern and operation, a call whose parameters are whole segments
and all look dynamic normalises to one of the two paths that phase 2 stores
(`DynamicCallsMeetOperation`), hence the merged row of such a call joins
(`RecognisableCallsMatch`). The facts needed: placeholder and dynamic segments
both become `{id}`, literal segments are treated alike on both sides, a trailing
slash is cut on both, those at the end of an endpoint are dropped, and the version
is in the path once.

**Proved but no longer run.** `TypeOK` of the pipelines and of the loop,
`StartupTypeOK`, `ViewNeverRegresses` and `Phase3NeverSkipped`: the first two are
conjuncts of `ReportTypeOK` and `ReadyTypeOK`, and the last two are implied by
`ReaderNeverSeesOlder` and `ComparisonFollows`, which the runs check.

**Only model-checked.** The six liveness properties: they rest on fairness,
hence on ENABLED, which is beyond the prover. What they rest on beside fairness is
safety, and proved for five of them:

| Property | Proved for every value of the constants |
|---|---|
| `RunReturns` | `RunStepsRunOut`, `RunHasAnEnd`, `PlacesComeBack` |
| `TermLeadsToExit` | `TerminationStepsRunOut`, `ExitIsTheEnd` |
| `EventuallyUp` | `MigrationsAddUp`, `MigrationsAreAccepted`, `OnlyFaultsWedge` |
| `OpenIsRetried` | `OpenBreakersWaitOnce` |
| `ComparisonFollows` | `ComparisonIsUnavoidable` |
| `TokenRecovers` | nothing: it is an argument about the timer alone |

What these theorems leave to the runs is that a step which is possible is taken, and
that one is possible at all: for `TermLeadsToExit`, that no process waits
for ever, is wholly on the side of the run `boot`. And the
violations are counterexamples. Every invariant and every action property of the
passing runs is a theorem.

## 6. From hazards to properties

| Hazard | Property |
|---|---|
| deletes and inserts of different jobs interleave | `ReferentialIntegrity` |
| an idle anchor is aged away or overtaken, and drift turns into shadow | `AnchorsActiveUnlessOvertaken`, `AnchorsKept`, `NoShadowBesideAnchor` |
| the newest verdict is old and gets deleted | `VerdictNeverRegresses` |
| the view is refreshed between the requests of a client | `ReaderNeverSeesOlder` |
| retention and the untrafficked list | `AnchoredNotUntrafficked` |
| clamps in two places | `PagesComplete` |
| a late window is committed | `LastSeenNeverRegresses` |
| the guard is read once; missing details | `NoFindingBeforeSync`, `NoFalseShadow` |
| an upsert and a soft delete by time stamp | `SyncIsExact` |
| TryLock, breaker and run in several goroutines | `OpenMeansIdle`, `KeepsPolicy`, `ComparisonFollows` |
| a path that forgets a mutex | `OpenIsRetried`, `ComparisonFollows` |
| several reads and a cached flag that answer one probe | `ReadyWasHealthy`, `NotReadyWasUnhealthy` |
| replicas that migrate one database at once | `RecordedWasApplied`, `UpMeansUsable` |
| crashes and failed statements amid backfill and migrations | `EventuallyUp`, `UpMeansUsable`, `SeedRunsOnce` |
| an outage of the database during a start | `PatientAtStart`, `EventuallyUp` |
| a signal in any phase; a server that failed long ago | `TermLeadsToExit`, `CleanExitMeansServed` |
| outages at any point of the refresh schedule | `StaleOnlyAfterLongOutage`, `TokenRecovers` |
| APIs that appear or change between two pages | `ListingIsFaithful` |
| semaphore and wait group on error paths | `PublisherTypeOK`, `KeepsFetchPolicy`, `RunReturns` |
| late puts, renewals, eviction | `CacheConsistent`, `KeepsRecent`, `AcceptedWasActive` |
| rows in any order, caps | `MergedRowIsSummary`, `TopCallersKept` |
| two implementations of "same path" | `DynamicCallsMatch` |

Without a property are hazards that the code meets and nothing prevents; the notes
in `PROJECT.json` say why:

* two replicas that sync at once (`SyncIsExact` is for one),
* a deletion between two pages, which hides an API until the next sync
  (`ListingIsFaithful` says that nothing else does),
* tokens that live for less than five minutes, which the loop refreshes every second,
* a parameter that the normaliser does not recognise,
* the first failing statement of retention, which skips the others,
* a listen error that is dropped at shutdown,
* the traffic of failed, skipped or late cycles, which no later window covers.

## 7. Plan

Done: the catalogue and its four jobs, the loop and its policy, the probe,
authentication, the Publisher client, the BFF's cache and reads, normaliser and
merger, the life of a process from connection to exit; the theorems of
section 5.

Left: the windows of successive cycles, to say which traffic they miss.

Considered and dropped:

* An abstract cache without list and map for `TokenCache`. What a caller of the
  cache is owed is how old an accepted answer may be, and `AcceptedWasActive`
  says that of the detailed module directly.
* The sync of `Managed` as a user of `FetchPolicy`. `Managed` takes listing and
  details as results; what the policy adds to its state (which details failed and which were
  never listed) cannot be read off its variables, so that a mapping would
  need history variables whose only use is the mapping.

## 8. Not modelled, and why

* `GetSummary`: counts over the view and the managed table. Two things it
  shows are constant: `fully_governed` is never true, because a service appears
  only if the view has a finding of it, although the comment at
  `bff_repo.go:102-104` describes when it should be; and `matched_apim_apis` of
  the detail is always empty, because classification writes no matched ids for
  the rows it keeps.
* The sister query of the detail, a prefix match of paths and contexts that
  nothing else depends on.
* A negative offset is echoed as it was asked while the rows start at 0. The
  rows are right; `Walk` begins at such an offset and still sees them all.
* DeepFlow client, query builder and row decoding: text in, rows out.
* Configuration: `Validate` checks ranges, and the assumptions on the constants
  are those ranges. `USER_GUIDE.md:543` asks for a window equal to the poll
  interval, which `Validate` does not check; the pipelines are modelled for any
  `Window`.
* Closing the DeepFlow client and the pool at shutdown while a cycle still
  runs: it turns into an error of a statement, which every cycle may meet anyway.
* The details of SQL that the migrations share with every schema: defaults,
  check constraints, extensions. That two sessions create one table at the same
  moment, which makes one of them fail, is an instance of `StatementFails`.
