# Hono-Drizzle-Just: a verification project

TLA+ models of the service in `src/` (Bun, Hono, Drizzle, PostgreSQL), the TLC
runs that check them on small instances, and theorems that TLAPS checks for
every value of the constants.

- [Inventory](#inventory): the system's parts and what can go wrong in them
- [Modules](#modules): which module models what, and how
- [Runs](#runs): what is checked, within which bounds
- [Proofs](#proofs): what is proved and how
- [Findings](#findings): where the documents and the code differ
- [Not modelled](#not-modelled) and [Plan](#plan)

## Inventory

| Component | State | Operations | Interacts with | Hard behaviour | Correct when |
|---|---|---|---|---|---|
| User creation (`create-user.service`, `drizzle-user-creation-idempotency.repository`, `…-maintenance`, `…-cleanup-gate`) | rows of `users` and `user_creation_idempotency`; per process the gate's `nextCleanupAt` | `execute`, `createIdempotently`, `claim`, `complete`, `cleanupIfDue` | transaction manager, database, logger | creates with one key race at every statement; `now()` is frozen at BEGIN; a transaction is retried, dropped, or committed without the caller learning of it; cleanup runs beside it | a key creates one user per window; a 201 names the request's own user; no ledger row is incomplete or dangling; a user is announced once |
| User update and delete (`update-user.service`, `delete-user.service`, `drizzle-user.repository`) | `users.version` | `update`, `deleteById` | database; the delete cascades into the ledger | the snapshot's version is stale when the row lock is granted; lock order differs from a create's | of two writers that saw one version, one wins |
| Transaction manager (`drizzle-transaction-manager`, `database-error`) | attempt counter of a call | `run` | services, connection pool | 40001/40P01 repeat the whole callback | bounded attempts, nothing left of a failed one |
| Rate limiting (`postgres-gcra-rate-limiter`, `postgres-fixed-window-rate-limiter`, middleware) | one row per scope and identity; per process `nextCleanupAt` | `consume`, cleanup | database, middleware, replicas sharing the table | three statements without a transaction, beside another replica's cleanup | the quota is neither exceeded nor withheld; Retry-After and remaining are true |
| Shutdown and lifecycle (`graceful-shutdown`, `application-lifecycle`, `server`) | phase, memoised promise, resources | `shutdown`, `register`, `close` | signals, HTTP server, pool, telemetry | a second signal, a stop that hangs or rejects, a close that throws | every resource is closed once, in reverse order, and the process ends |
| Health (`database-health-check`, `readiness-checker`, `readiness-gate`) | the shared in-flight probe | `check` | pool, shutdown | a probe that never settles; a timeout that races its answer | one probe at a time, every caller answered in time |
| Outbound HTTP client (`fetch-http-client`, `retry-policy`) | attempt, deadline, response body | `request` | fetch, timers, tracer | timeout, abort and answer race; bodies must be disposed of on every path | attempts bounded, deadline kept, unsafe methods not repeated |
| Listing (`drizzle-user.repository`, `user-list-cursor`) | none: a cursor in the client | `listPage`, `listAfter` | database | rows come and go between pages | a row that stays is listed exactly once |
| Connection pool (`observed-postgres-pool`, `database-pool-observer`, `database-observer`) | idle, lent, opening and queued connections; the guess of each acquisition | `connect`, `release`, `observe` | every step that queries the database | counts are read before the acquisition and used after it; callers give up while a connection is opened for them | a request holds a connection only while it works on it; what is recorded is what happened |
| Request chain (`app`, middleware, error handlers, `user.routes`, health routes) | the request's context | refusals in order, dispatch, answer | limiter, resolver, services, pool | a dozen refusals in a fixed order; headers set before a later step fails | every request is answered as declared; no operation begins for a request that a check refuses |
| Authentication and authorization (`static-bearer-principal-resolver`, `tenant-authorization`) | none | `resolve`, `requireTenantScope` | request chain | anonymous, wrong and right credentials meet different checks | tenant and scope before any work |
| Conditional requests (`user-etag`) | none | parsing of `If-Match`, `If-None-Match` | routes, services | absent, malformed, failing and matching headers fail at different points | the set of versions meant by the header; the right refusal |
| Trusted proxies (`trusted-proxy-client-address`, `ip-cidr`) | none | address resolution | rate limiter identity | chains of forwarded addresses that the client began | the first untrusted address from the right |
| Template tooling (`scripts/template`) | six managed files of a repository | `init`, `doctor` | file system, bun | a write, bun or the rollback fails; a kill at any point; a rerun on what is left | all files renamed or none, and if neither, somebody says so |
| Configuration, observability, OpenAPI, migrations | none over time | | | | see [Not modelled](#not-modelled) |

A request travels middleware → rate limiter → route → service → transaction
manager → repositories → PostgreSQL. All state that outlives a request is in
PostgreSQL, except for the cleanup gates, the pool and the lifecycle of the
process. Concurrency is therefore between statements: of the requests of one
process, interleaved at every `await`, and of replicas sharing the database.
`PROJECT.json` lists the hazards at their lines.

## Modules

### UserCreation

One action per statement that the application sends. A **create** runs

    Receive → CleanupIfDue → Begin → Reclaim → Insert → SelectActive → Replay → Commit
                                        └────────┴→ Lookup → Create → Complete → Commit

and without an Idempotency-Key `Begin → Lookup → Create → Commit`. An **update**
or a **delete** is one autocommitted statement and has three steps: `Mutate` (the
statement's snapshot decides between missing, stale and match), `LockRow` (the
lock is granted, and the predicate is evaluated again on the newest row) and
`Patch` or `Delete`.

| Variable | In the code |
|---|---|
| `users`, `ledger` | committed rows of `users` and `user_creation_idempotency`, of one tenant |
| `claim[r]`, `born[r]` | the rows a create's transaction has written and not committed |
| `now[r]` | SQL `now()`: frozen at BEGIN |
| `tries[r]`, `attempt[r]` | the loop variables of `claim()` and of `run()` |
| `found[r]` | the user the service will answer with |
| `target`, `ifMatch`, `newEmail` | path, If-Match (the set of versions it accepts) and body of an update or delete |
| `answer[r]` | how the request ended: an HTTP status and, for a create, whether `user.created` was logged |
| `births`, `claimedAt` | history: every committed creation with its key and window |
| `clock`, `faults` | the database's clock, and a budget of injected failures |

PostgreSQL is modelled from how the code uses it (READ COMMITTED, the default
that `db.transaction` leaves in place). A statement reads committed rows;
a row stays private until COMMIT, which publishes all of them at once
(`Publish`); a statement that meets an uncommitted row waits. Waiting is the guard
`Blockers(r) = {}`. Blockers are the writers of the same ledger key, the holders of
the same user row, and the transactions with an unsettled entry for the same email
in the unique index. A cycle of waits is broken by aborting one member
(`BreakDeadlock`): a create is then retried by `run()`, an update or delete is not.

A payload stands for the normalised body *and* its fingerprint (SHA-256 is taken
to be injective), and determines the email. A row of the ledger has no
`claimed_at`: no statement reads it. Failures of the environment are
`AbortInjected` (40001), `ConnectionLost` and `CommitAckLost` (the server has
committed, the client sees an error).

### IdempotentCreation

What an Idempotency-Key promises, without transactions, locks, retries or two
tables: a key that is bound resolves to one user; it is bound in the step that
creates the user, and only when no window is open for it; it comes loose when its
window has ended or its user is deleted. `UserCreation!PromiseKept` is the
refinement: `live` and `used` are the ids in `users` and `births`, `binding` is
the ledger, `resolved` is `found`.

### DatabaseTime, FixedWindowRateLimiter, GcraRateLimiter

Time is a number of ticks, finer than the millisecond that a JavaScript `Date`
keeps: `DatabaseTime` has the truncation of both timestamps (`Until`) and the whole
seconds of an answer (`WholeSeconds`). A **fixed-window** decision is

    Consume → (CleanupDelete → CleanupEnd →) Start → Upsert

where `Start` fixes `now()` of the statement and `Upsert` is the moment its row lock is
granted and the row judged. A **GCRA** decision is

    Consume → (CleanupDelete → CleanupEnd →) Insert → UpdateScan → UpdateApply → Select
                                               └→ InsertAfterWait ┘

one autocommitted statement after the other. `UpdateScan` is the statement's snapshot,
`UpdateApply` the lock and the re-evaluation on the newest version; a row that was deleted
and inserted again meanwhile is another row (`gen`). A statement that still waits after
`MaxWait` is cancelled and the limiter throws (`LockTimesOut`, `UpsertTimesOut`): the pool's
`lock_timeout` and `statement_timeout` (`database.ts:26`).

| Variable | In the code |
|---|---|
| `buckets` | rows of `rate_limit_buckets` or `rate_limit_gcra_buckets` |
| `cleaning[r]` | rows that the cleanup in front of request `r` has locked and deleted, uncommitted |
| `now[r]`, `arrived[r]` | the clock a statement has read: `now()`, or `clock_timestamp()` in the values it has computed |
| `seen[r]` | the row version an UPDATE found in its snapshot |
| `answer[r]` | the decision: allowed or not, remaining quota, reset and retry delays |
| `since[i][t]` | history: how many requests of `i` were allowed at or after `t` |
| `last[i]`, `forgiven[i]` | history: the theoretical arrival time last written for `i`, and the debt that rows inserted later knew nothing of |

`since` makes a statement about every interval a statement about one number, and
keeps the proofs linear. Scope and identity are one value, whose hash is taken to be
injective. `window_started_at` is read by nobody and left out. A policy holds for all
identities; the emission interval is a whole number of ticks. Which of a replica's
requests cleans up depends on the replica's own clock, so it is a choice.

### DatabaseHealthCheck, GracefulShutdown

JavaScript runs one callback at a time, so an action is a callback with all that it
calls before its next `await`. `DatabaseHealthCheck` has a readiness probe:
`ReadinessChecker.check` with the lifecycle gate and the database check, whose
query concurrent probes share. `GracefulShutdown` composes it with the handlers of
`server.ts`, the coordinator, the lifecycle, the server and the pool. The run of
one `performShutdown` is

    ReceiveSignal → EndDrain → StopSettles ────────────────────────┬→ closing → EndShutdown → SetExit
                             → StopRejects | StopDeadline → Force… ┘

and `ResourceSettles` closes one resource after the other, the last registered first.

| Variable | In the code |
|---|---|
| `ready` | `ReadinessGate.ready` |
| `inFlight`, `queries`, `probe` | `DatabaseHealthCheck.inFlight`, every `select 1` that was started, and what each probe knows of its two checks |
| `shutdownPromise`, `awaits` | the memoised run, named by the signal that started it, and the run each handler awaits |
| `run[s]` | where that run is, whether its deadline passed, whether a call of `stop` failed |
| `resource`, `sweep` | the registered resources and the one being closed |
| `exit` | `process.exitCode = 0`, or `process.exit(1)` |
| `server`, `request` | the Bun server and the requests for the users API, which may need a pool client at any time |

The Bun server and the pool are external: `stop(false)` ends when nothing is active,
later, never, or with an error; `stop(true)` cuts connections; `Pool.end` refuses new
clients at once and settles when the last one is returned.

### OutboundRequest

One call of `FetchHttpClient.request`: the loop of `executeRequest` with
`DefaultRetryPolicy`, in ticks of a fraction of a millisecond from `startedAt`.

    Attempt → FetchRejects | FetchAborts | Refused ──→ (wait) Attempt, OutOfTime, or the answer
            → Accepted → ReadEnds | ReadAborts       → the answer

`pc` is `"waiting"` between attempts, at the start too; `dueAt` is the end of the retry
delay or the instant at which the attempt's signal fires; `body` is the body of the last
response. `accepted` and `notBefore` are history. Whether a callback or the signal comes
first is open, and what is due is done at most `MaxLate` ticks late.

### UserListing

Walks through the users of a tenant. `CursorPage` is `listAfter` with the cursor that
`ListUsersCursorService` makes of the last row, `OffsetPage` is `listPage` with
`totalPages`; each is one statement, hence one snapshot. The writers are `BeginCreate`,
which fixes `created_at`, `CommitCreate` and `Delete`: what matters of `UserCreation`
here. Ids are numbers because `uuid` values are ordered. `Stored` is the rounding of
`timestamptz(3)`, `Encoded` the truncation of a cursor's `Date`. A page is the set of
rows with a `Rank` in its range; the order in which a page shows them is that of the rank.

### HttpRequests, ConnectionPool, RequestPath

`HttpRequests` has the decisions about one request that keep no state: its quota
(`Scope`), the client that is charged (`ClientAddress`, the walk from the right), the
refusals in the order in which the chain can make them (`FirstRefusal`), what each result
or failure is answered with, and what the contract declares (`Route`).

`ConnectionPool` is the pool: `pending` its queue, `opening` the acquisitions that a
connection is being opened for, `held` the loans, each with the guess
`creatingNewConnection` that `ObservedPostgresPool` took before it. node-postgres is
external: a caller that finds an idle connection goes through the queue too, a caller that
gives up leaves a connection behind that is still being opened (`abandoned`), a broken
connection is not returned.

`RequestPath` composes the two. A request goes

    Arrive → (limiterSweep →) bucketInsert → (bucketUpdate → (bucketSelect →)) route
           → (ledgerSweep →) operation ⇄ backoff → answered

and each of the steps with a query is a caller of the pool of its own:
`AskForConnection`, then `ConnectionOpened`, `Pulse` or a failure, then `Work`, which gives
the connection back and goes on as the outcome says (`After`). What a query does to the
tables is the business of the other modules: here its outcome is any that it can have.

| Variable | In the code |
|---|---|
| `request`, `deployment` | what is asked, and limiter, resolver and principal of the configuration |
| `pc`, `answer` | the step a request is at; status, cache directive and headers sent |
| `charged`, `admitted` | the scope and client given to `consume`, and its decision |
| `attempt` | the loop variable of `DrizzleTransactionManager.run` |
| `runs`, `retries`, `exhausted` | history: operations begun, and the two retry counters |
| `size`, `idle`, `pending`, `opening`, `abandoned`, `held` | the pool |

### TemplateRepository, TemplateInit

`TemplateRepository` has the data: identities, the six managed files as far as an identity
is written in them, what the initialiser makes of a file (`Planned`, with the README that
`String.replace` writes), how it classifies a repository (`Classify`), and the doctor
(`DoctorPasses`), which reads a README only if it has a heading (`ReadmeRead`) and a slug
only if a URL keeps it (`Dotted`). `TemplateInit` runs the command:
`Run` parses, reads and decides, `OpenTemporary` and `Rename` are `atomicWrite`,
`WriteFails` and `RestoreFails` its failures, `BunExits` and `Verify` the lockfile,
`Restored` the end of a rollback, `Kill` the end at any point. `disk` is the files,
`snapshot` what the command has read, `lost` the paths that could not be restored.

### The MC modules

`MCUserCreation`, `MCFixedWindowRateLimiter`, `MCGcraRateLimiter`, `MCGracefulShutdown`,
`MCOutboundRequest`, `MCUserListing`, `MCRequestPath` and `MCTemplateInit` are the instances for TLC: the emails of two
bodies, If-Match headers, the identities of requests, and the symmetry of creates, user
ids and requests where no liveness is checked, the requests and deployments of the chain,
and the repositories and commands of the initialiser.

### The proof modules

`UserCreationProofs`, `FixedWindowProofs`, `GcraProofs`, `ShutdownProofs`,
`OutboundProofs`, `ListingProofs`, `TemplateProofs` and `RequestPathProofs` hold the
inductive invariants and the theorems, see [Proofs](#proofs). The lemmas about
`DatabaseTime` stand in both modules about limiters.

## Runs

| Run | Instance | Properties |
|---|---|---|
| `creates_race` | 2 creates, 1 delete, 1 update (`If-Match: *`), one key (or none), two bodies, clock 0..1, TTL 1, 2 rounds of `claim()`, no failures, fairness | `OneUserPerActiveKey`, `ClaimNeverLost`, `PromiseKept`, `EveryRequestAnswered` |
| `creates_fail` | 2 creates, 1 delete, 1 update, every kind of If-Match, one injected failure, 2 attempts, 1 round | `LedgerComplete`, `AnswersOwnUser`, `AnnouncedOnce`, `NoLostUpdate`, `KeyBinding` |
| `replay_fails` | 2 creates, 1 delete | `ReplayNeverFails`, violated |
| `creation_unannounced` | 2 creates of the same body under the same key (`RetrySpec`), 1 failure | `EveryCreationAnnounced`, violated |
| `window_quota` | 4 requests of one client, limit 2, a window of 8 ticks (2 s), an upsert of at most 2, clock 0..10 | `WindowQuota`, `RetryAfterHonest`, `NoEarlyDenial` |
| `gcra_quota` | 5 requests of one client, limit 2, an interval of 3 ticks (0.75 s), waits of at most 3, clock 0..6 | `Conformance`, `RetryAfterHonest`, `NoEarlyRefusal` |
| `burst_refused` | 2 requests of one client and one of another, limit 2 | `BurstAdmitted`, violated |
| `shutdown` | 2 signals, 1 request, 2 probes, 3 resources (the pool registered last), fairness | `OneLiveQuery`, `RequestsSpared`, `ClosedInReverse`, `ExitHonest`, `NotReadyOnceSignalled`, `SignalExits`, `ProbeAnswered` |
| `outbound_request` | 2 retries, a deadline of 13 ticks (6.5 ms) and attempts of 5, delays up to 2 ms, Retry-After of 0, 3 or 50 ms or none, fairness | `DeadlineKept`, `SentAgainSafely`, `RetryAfterKept`, `Answered` |
| `listing` | 4 users of the tenant, 1 of another, pages of 2, clock 0..3 | `EachOnce`, `NoneSkipped`, `PagesTile` |
| `template_init` | 3 commands on 14 repositories, targets that share a name with the template or none, names that `String.replace` changes (`$$`, `$&`, and the dollar with a backquote) and the slug `../api`, failures and kills at any step | `SuccessComplete`, `FailureRestores`, `WholeFiles`, `DoctorFindsHalf`, `DoctorAccepts` |
| `request_path` | any request under 6 deployments, or 2 that both query, a pool of 1 or 2, 2 attempts, chains of at most 2 hops, fairness | `ConnectionsReturned`, `CreateTimeHonest`, `RetriesHonest`, `OnlyAdmitted`, `ContractKept`, `RequestsAnswered` |

The type invariants are in no run: each is a theorem, and checked as part of the
inductive invariant it belongs to.

**Why the bounds suffice.** For the creates: TTL 1 and a clock that reaches 1 put every moment of a
request before, at and after the end of a window, so a reclaim, a cleanup and a stale
`now()` all occur. Two creates meet at every statement of `claim()`, one of them over a
row of the other; that two compete for a third one's expired row is left to
`KeyCreatesOneUser` and `KeyStaysBound`, which hold for any number of creates. `creates_race` injects
no failure: that `OneUserPerActiveKey` and `PromiseKept` survive a lost acknowledgement
is what `KeyCreatesOneUser` and `PromiseIsKept` prove. One key and
two bodies give replay,
mismatch and reuse; two emails give conflicts with and without waiting. Two
rounds of `claim()` (three in the code) and one in `creates_fail` let the
loop run out with fewer requests. In both runs the deadlock of a create that reclaims a key, an update that
holds the email it wants and a delete whose cascade needs the claimed ledger row
is reached. Every bound is a constant of the module or a guard of `Tick` or `Inject`.

For the limiters, a limit of 2 tells the burst from a single request, and four
requests exceed it, or fill two windows. A fifth is needed for an INSERT that waits as long
as an emission interval to be overtaken by two cleanups and lose a debt, which is reached. A millisecond is two ticks and a second two
milliseconds, so truncation and rounding up both occur. The clock passes the end of a
window, and of a full debt, with time to wait out a Retry-After. The bounds in the
properties are the tightest that hold: with `Window` for `Window - MaxWait`, a quota of
`2 * Limit - 1`, `Window` for `Window + MaxWait`, without the millisecond of
`Waited`, or without `forgiven`, TLC finds a violation. One client is enough because no statement of a decision
touches another identity's row; a cleanup does, and `burst_refused` has two.

For the shutdown, two signals are the first and one that finds its run under way, in any
phase or over. Two probes share a query or outlive one another's. Three resources have
one before and one after any failure; the pool closes first, so that requests have the
shortest time. More requests would do nothing that one cannot, as they meet only in the
condition that none is active.

For the outbound call, odd tick numbers put the deadline and the attempt's timeout between
whole milliseconds, so that rounding up matters; two attempts and a half fit into the
deadline, so the last is capped by what remains; a Retry-After is below, above the cap of
the backoff and beyond the deadline. For the listing, two ticks to a millisecond and a
clock that passes one make ties, rounding up and late commits; four users fill two pages,
so that a walk has a page behind its cursor and one ahead to be disturbed.

For the initialiser, a second command finds what the first has left, and a third what
a rerun makes of that; its files are independent, so one edited file tells the cases apart.
For the request chain, a pool of one is the smallest that a request holding a connection
can exhaust alone and one of two the smallest that two can; the refusals are of one request
and need no second one, so every request and deployment is paired with an idle one only.
Two attempts have a retry and an exhaustion. Hops come from trusted, untrusted and
unreadable addresses, so two of them in front of the proxy give every end of the walk.

**Fairness** of `UserCreation` (`FairSpec`) is weak fairness of `Progress`: some request takes a step, or
the deadlock detector acts, as long as one can. It asks no more than that the event
loop serves pending callbacks, that PostgreSQL runs a statement that has nothing to
wait for, and that `deadlock_timeout` is finite; which request goes first is open.
Nothing stronger is needed because every request has a bounded path, which is what
the run shows: no round of waiting, retrying or re-claiming goes on forever, and no
cycle of waits escapes the detector. Time and failures are not fair.

In `GracefulShutdown` timers fire, `stop(true)` and resources settle in one way or the
other, and the callback of a settled promise runs. Nothing obliges a request to end, a
query to settle or `stop(false)` to do either: that is what the deadlines are for.
`SignalExits` assumes in its statement that the pool's clients are returned in the end,
because `Pool.end` waits for them and nothing bounds it. In `OutboundRequest` the
attempt's signal fires, time passes and the loop goes on; the upstream owes nothing.
In `RequestPath` every request goes on when it can and the pool serves its queue. That
an opening connection and a query come to an end is owed by the driver's timeouts;
that a caller who waits gives up is not assumed, so `RequestsAnswered` is about the way
connections are used and not about the timeout that would hide a deadlock.
`UserListing` has no liveness: a walk ends because new users come before its cursor.

## Proofs

`UserCreationProofs` proves, for any sets of creates, updates, deletes, keys,
bodies and ids, any TTL, batch size and number of attempts:

| Theorem | Statement |
|---|---|
| `TypeCorrect` | `Spec => []TypeOK` |
| `LedgerIsComplete` | `Spec => []LedgerComplete` |
| `KeyCreatesOneUser` | `Spec => []OneUserPerActiveKey` |
| `AnswersAreOwn` | `Spec => []AnswersOwnUser` |
| `CreationAnnouncedOnce` | `Spec => []AnnouncedOnce` |
| `KeyStaysBound` | `Spec => KeyBinding` |
| `ClaimsAreNeverLost` | `Spec => []ClaimNeverLost` |
| `NoUpdateIsLost` | `Spec => []NoLostUpdate` |
| `PromiseIsKept` | `Spec => PromiseKept`, the refinement |
| `RetriesAreBounded` | attempts, rounds and `StepsLeft` of a create stay within their bounds |
| `EveryStepCounts` | each step brings one request closer to its end and none further from it, or is `Tick` |
| `CreatesNeverDeadlock` | every set in `Deadlocks` holds an update or a delete |
| `NoStandstill` | `Quiescent`, or an unfinished request with no `Blockers`, or a deadlock |
| `CreatesAloneNeverAbort` | a second attempt or a 503 only after a fault or with an update or delete about |

The assumptions are the named `ASSUME`s of `UserCreation`: the kinds of requests are
disjoint, the absent key and the null user are not values, numbers are
naturals and TTL is positive. `NoStandstill` assumes in addition that there are finitely
many requests: infinitely many could each wait for the next.

None of these properties is inductive. `IInv` adds, in named parts: where a create
may be without a key (`Places`); what its private rows are at each place (`Pending`:
at COMMIT a claim is complete and points at the row born beside it); that
ids are never reused (`FreshRows`); that a key has one claimant and one row
(`KeysExclusive`, from the lock guard of `Reclaim` and `Insert`); and `Windows`,
the heart of the argument: a user whose window is open has its ledger row, so
whoever holds a claim on the key claimed it after the windows of all the key's
living users ended. `Resolutions` ties what a request answers to the birth it came from.

The step proof has two layers. `RowSteps` shows that every action of `Next` does one
of nine things to the rows (claim a key, bear a user, complete a claim, drop or
publish the private rows, clean, cascade, patch, or nothing but time), and one lemma
per effect carries `DataInv` over it. The types, the private rows and the answers
are carried action by action. Lock and deadlock operators need no lemma but one:
a statement that proceeds had no other holder of its key.

The last three theorems rest on invariants of their own beside `IInv`. `ClaimInv`: a claim
points at no user until it is completed, and a create that found its user gone keeps the
birth that proves it, because ids are not reused (`GoneStays`). `WriterInv`: whoever holds a
row's lock holds a version it accepts (`Aimed`) and is alone with it (`Alone`), and whoever
has changed a user left no row of it at the version it met (`Spent`). `UnresolvedInv`: a
create on its way to a new user has not resolved to an older one; with it, each step of
`UserCreation` is a step of `IdempotentCreation` or a stutter (`PromiseStep`).

The last five theorems of the table are about coming to an end. `BoundedInv` bounds attempts
and rounds by what is left of them, and `StepsLeft` counts the steps of a request with them:
a retry gives back the rounds of one attempt and takes the attempt. A wait has a cause:
`Blockers` are the creates and the writers whose private rows or locked row are in the way
(`WaitedFor`), and a create that has its key waits for its email only. So a cycle of waits
needs a writer, and among the sets of requests that wait for each other a smallest one
exists and is what the detector of PostgreSQL breaks (`SmallestCycle`). `Calm` is why creates
alone are never aborted: without faults and without writers there is nothing to abort them.

The limiters, for any requests, identities, policy, batch size and units of time:

| Theorem | Statement |
|---|---|
| `FixedWindowTypes`, `GcraTypes` | `Spec => []TypeOK` |
| `FixedWindowQuota` | `Spec => []WindowQuota` |
| `DenialsEarned` | `Spec => NoEarlyDenial` |
| `DelaysTrue`, `GcraDelaysTrue` | `Spec => []RetryAfterHonest` |
| `GcraConforms` | `Spec => []Conformance` |
| `GcraForgivesTheOvertaken` | `forgiven[i]` grows only by the INSERT of an `Overtaken` request, by at most `MaxWait` |
| `GcraKeepsDebt` | if `2 * MaxWait < Interval`, `Spec => [](\A i : forgiven[i] = 0)` |
| `GcraRefusesLate` | `Spec => NoEarlyRefusal` |

Their assumptions are positive policies and a second of whole milliseconds. `MaxWait`, how
long a statement can wait, is any number: the pool sets `lock_timeout` (2 s by default),
and an emission interval can be shorter (0.5 s by default). The quotas are stated in terms
of it. With 0, which turns a timeout off, `MaxWait` is whatever the longest wait was.

`GcraInv` says that what an identity was allowed since any instant is `Due`, one request per
interval, at its last theoretical arrival time, give or take what has been forgiven
(`Owed`); that its row has that time and the history justifies it (`Present`, `Earned`);
that without a row that time is past (`Absent`), because only expired rows are deleted; and
that it is no more than `Limit` intervals ahead (`Cap`). What makes it inductive is the
statements in flight: an UPDATE's row was conforming at the instant it has recorded
(`Examined`). Every write has the effect `Wrote`, and one lemma each carries the invariant
over writes, cleanups, time and the rest.

A waiting INSERT writes the instant it recorded. If by then the row of its identity has
been deleted, inserted by a third request, paid off and deleted once more, what that request
owed is lost. `GcraForgivesTheOvertaken` shows that this is the only way and what it costs, and
`GcraKeepsDebt` that it takes a wait of half an emission interval: below that, whoever
waits has recorded an instant at which nothing was owed, or finds a row that outlives the wait
(`Outlived`). The sum of the two is the policy itself where waits are short, and where they
are not an account of every request that it is exceeded by.

For the fixed window the same history counts the requests of the current window and of the
one before.

The process, for any signals, requests and probes and any number of resources
(`ShutdownProofs`), the outbound call, for any budgets, retries and delays
(`OutboundProofs`), and the listing, for any users, page size and unit of time
(`ListingProofs`):

| Theorem | Statement |
|---|---|
| `ShutdownHasTypes`, `AttemptsAreBounded`, `KeysAreMilliseconds` | `Spec => []TypeOK` |
| `RequestsAreSpared` | `Spec => []RequestsSpared` |
| `ResourcesCloseInReverse` | `Spec => []ClosedInReverse` |
| `ExitIsHonest` | `Spec => []ExitHonest` |
| `ProbesSeeTheDrain` | `Spec => []NotReadyOnceSignalled` |
| `QueriesAreShared` | `Spec => []OneLiveQuery` |
| `DeadlineIsKept` | `Spec => []DeadlineKept` |
| `NothingUnsafeIsSentAgain` | `Spec => []SentAgainSafely` |
| `BodiesAreReleased` | `Spec => []BodiesReleased` |
| `RetryAfterIsKept` | `Spec => RetryAfterKept` |
| `OnlyClientsDelayExit` | a signal without its exit code: `MayGoOn(s)`, or `PoolWaits` |
| `EveryStepCounts` (shutdown) | each step lowers `StepsLeft`, serves a new signal or sets the exit code; nothing is revised |
| `EveryStepCounts` (outbound) | `StepsLeft` is bounded and each step and each tick lowers it |
| `NobodyIsListedTwice` | `Spec => []EachOnce` |
| `NobodyIsSkipped` | `Spec => []NoneSkipped` |
| `PagesPartition` | `Spec => []PagesTile` |

Their assumptions are that the pool is one of the resources, that time units, timeouts
and page sizes are positive, and that there are finitely many users.

In the shutdown everything hangs on one run: `Memoised` says that every run and every
handler is the memoised one. `Swept` and `Entered` tie the resources to the sweep and the
sweep to that run, `Concluded` and `Reported` its outcome to the exit code, `Quiet`
the server to it: without an excuse resources close under a server that refuses and has
no one. `GateShut` and `OneLiveQuery` are the probe's part. `MayGoOn` lists what
comes by itself: the drain's timer, the deadline, the end of `stop(true)`, of a resource that
is not the pool, and the callbacks after them. It lacks what nobody owes: that `stop(false)`
settles and that a client is given back. So Pool.end with clients checked out (`PoolWaits`)
is the one place where a shutdown can be held up, the premise of `SignalExits`.

For the outbound call `InTime` is the argument: a wait is due before the deadline because a
delay that does not fit is not waited for, and an attempt ends less than a millisecond
after it because its budget is what remains, rounded up (`RoundedUp`, `BudgetFits`).
`Allowed` carries the policy's consent from a failure to the next attempt, and with it
`StepsLeft` goes down: an attempt is used up before the next wait.

For the listing `Swept` says that what a walk by cursor has listed does not come after the
cursor, and that everyone who was there throughout is listed or comes after it. It is kept
because a page is closed upwards in a total order (`RankBounds`, `FirstPage`) and a stored
key survives the `Date` (`EncodedSame`). `Tiled` counts the ranks of the pages so far;
`PageBounds` is the arithmetic of `totalPages`.

The initialiser, for any template, commands, starting repositories and number of runs
(`TemplateProofs`):

| Theorem | Statement |
|---|---|
| `SuccessIsComplete` | `Spec => []SuccessComplete` |
| `FailureIsUndone` | `Spec => []FailureRestores` |
| `FilesStayWhole` | `Spec => []WholeFiles` |
| `CustomisedFilesKept` | `Spec => []CustomisedKept` |
| `DoctorFindsWhatIsLeft` | `Spec => []DoctorFindsHalf` |
| `SuccessPassesTheDoctor` | `Spec => []DoctorAccepts` |

Their assumptions are that a repository has the managed files, that no planned text is a
torn one, and that the template's README says more than its name. `DoctorAccepts` has its
conditions in its statement (`NothingShared`, `ReadBack`): without either, the run refutes
it, see the observations below.

Its invariant says where a command is: `Writing` that the files before the position
are planned and those after it untouched, `Restoring` the same of the way back, with the
lost ones apart. `Half` is what may be left between commands, and `DoctorTells` that the
doctor passes none of it; `Written` is what a success leaves.

The request chain and the pool, for any requests, proxies, deployment, number of attempts
and size of the pool (`RequestPathProofs`):

| Theorem | Statement |
|---|---|
| `ConnectionsAreReturned` | `Spec => []ConnectionsReturned` |
| `CreateTimesAreHonest` | `Spec => []CreateTimeHonest` |
| `RetriesAreHonest` | `Spec => []RetriesHonest` |
| `OperationsAreAdmitted` | `Spec => []OnlyAdmitted` |
| `ContractIsKept` | `Spec => []ContractKept` |
| `TypeCorrect` | `Spec => [](TypeInv /\ PoolTypeOK)` |
| `NoStandstill` | all answered, or some `MayProceed(r)`, or `MayPulse`, or `abandoned > 0` |
| `EveryStepCounts` | each step brings one request closer to its answer and none further from it, or moves a connection nobody waits for |

Their assumptions are that the pool has room for one, that there is one attempt or more,
that the callers of the pool are the database steps of the requests, and that the
requests and deployments to start from are such. Nothing is assumed of the addresses: the
trusted and the other ones may overlap.

Its invariant has two halves. `PoolInv` is the pool's own: nobody is with it twice
(`Distinct`), a queued acquisition was not guessed to open a connection (`Guessed`), and the
places in it are as many as its callers and leave it within its size (`Counted`); every
operation of the pool adds one caller, removes one or keeps them. `Journey` is the
request's: what it has passed at each step (`Charged`, `Passed`, `Cleared`) and how its
runs, retries and attempts go together (`Fresh`, `Trying`, `RetriesTold`). `AtItsStep`
ties the halves: a caller is the step its request is at, so a request that goes on has left
the pool. Below them are three lemmas about single requests: `FirstRefusals` (what an
accepted request is), `ForgedHop` (the last hop that is not trusted stays the last when one
is put in front) and `ResultDeclared` (what an operation finds is answered as declared).

`NoStandstill` is the halves put together. `MayProceed` is when a request can take its next
step and `MayPulse` when the pool can serve its queue. If neither, the pool is used up;
whoever opens or holds a connection is a request at the step it has it for
(`AtItsStep`), which can go on; so all the places are connections that an acquisition gave
up while they were being opened, and those come back by themselves (`abandoned`). The theorem
holds because a transaction never asks for a second connection while it has one.

Only model-checked: liveness (`EveryRequestAnswered`, `SignalExits`, `ProbeAnswered`,
`Answered`, `RequestsAnswered`), which is out of this prover's reach. What is
proved of it for every value of the constants are its safety halves: that work left is work
somebody can do (`NoStandstill`, `OnlyClientsDelayExit`), and that each step counts
against a bound (`EveryStepCounts`, `RetriesAreBounded`). What is left to
TLC is that the fairness of the code's scheduling makes these steps happen, `ENABLED` included.
The limiters' requests, the listing and the commands of the initialiser are bounded
sequences of statements and have no such theorems.

## Findings

- `replay_fails`: a replay reads the ledger row, a DELETE of the user commits with its
  cascade, and `findById` finds nothing: `create-user.service.ts:95` answers 500.
  The design document
  (`docs/superpowers/specs/2026-09-16-idempotent-user-create-design.md:84`) promises
  201 for the same key and payload. Claiming again would have succeeded.
- `creation_unannounced`: README.md:277 of the repository says that one committed
  creation produces one `user.created`. In the trace the first request commits, the
  acknowledgement of its COMMIT is lost, and it is answered 503 with nothing logged; the
  second, the same body under the same key, finds the row of the ledger and is a silent
  replay. `RetrySpec` starts from requests that repeat each other.
- `burst_refused`: the INSERT of a GCRA decision finds the row of its identity, and before
  the UPDATE and the SELECT another request's cleanup deletes that row because its
  burst is restored. `postgres-gcra-rate-limiter.ts:172` throws and the request is a 500;
  `docs/architecture.md` (131, 137) admits the burst and keeps cleanup from denying requests.

That both limiters lose microseconds of two timestamps makes a Retry-After up to a
millisecond early; `RetryAfterHonest` says so and the proofs show that it is no more. An attempt that
times out while its body is read is answered `UPSTREAM_RESPONSE_INVALID` ("Upstream
returned invalid JSON", `fetch-http-client.ts:535-546`), not `UPSTREAM_TIMEOUT`: the model
has it so (`ReadAborts`), and no document says which of the two it should be.

Six observations that the properties leave room for, each without a run of its own:

- `initialTat` is computed before the INSERT waits for a row lock
  (`postgres-gcra-rate-limiter.ts:102`). A wait of half an emission interval or more, which
  the default timeouts allow, can cost the limiter a debt; `Conformance` subtracts it
  (`forgiven`) and two theorems bound it.

- `String.replace` expands `$$`, `$&` and the like in the new README heading
  (`repository-files.ts:220-223`). A display name with such a pattern is reported as a
  success, the README is not as named, and the next run refuses the repository.
  `SuccessComplete` excludes these names (`InsertedAsIs`). When nothing is left of the
  heading, as of a dollar and a backquote, the doctor fails on that success
  (`doctor-lib.ts:194-200`); `DoctorAccepts` excludes it (`ReadBack`).
- The initialiser takes a slug whose owner is `.` or `..`, as `../api`, also from a relative
  `origin` (`identity.ts:28-38`). The doctor reads the slug back through the URL parser,
  which drops such an owner, and fails (`doctor-lib.ts:109-114`). `ReadBack` excludes it.
- A body that is not JSON makes the framework throw an error that is no `AppError`, which
  `error-handler.ts:34-37` answers with 500, though the routes declare 400. The chain has
  such requests (`json`), and `ContractKept` leaves 500 aside.
- The doctor takes a slug, package or service that is the template's for a residue, so it
  fails on a repository whose legitimate new identity keeps one of them. `DoctorAccepts`
  asks for all three to be new.
- `create_time` is recorded only for connections that really are new
  (`CreateTimeHonest`), but not for all of them: an acquisition that queued and then had a
  connection opened for it records none, as the guess was taken before.

## Not modelled

- **Configuration**: validation of environment variables at start. The models take what
  it yields as constants or as a deployment.
- **Grammars**: entity tags, addresses and CIDR blocks, cursors and query parameters. The
  models begin with what a parser makes of them, unreadable input included.
- **Observability**: no decision depends on spans, metrics or log lines; the one log
  line that the documents make a promise about, `user.created`, is an answer
  of the model.
- **OpenAPI tooling, migrations**: generated artefacts.
- In `UserCreation`: names (only their part in the
  fingerprint), hash collisions, lock and statement timeouts other than as lost
  connections, and integer overflow of `version`. In the limiters:
  two policies for one identity, a change of policy, and the 2^31
  requests of a window that overflow `request_count`. In the shutdown: a `beginDrain` or
  `sleep` that throws (production's do not), resources registered after it began, and the
  number of the pool's clients; a zero drain delay is a sleep that ends at once. A probe in
  flight when the signal comes may still be answered "ready", which the health timeout
  bounds. In the outbound call: what is validated before the first attempt, injected hooks
  that fail, spans and metrics; a delay is a whole number of milliseconds. In the
  listing: forged cursors (any position is a walk that begins there) and
  creations that are rolled back (one that never commits). In the request chain: the
  query of a readiness probe (it is in `DatabaseHealthCheck`) and its pool connection, the
  content of `/openapi.json`, trace context, log lines and bodies; the arithmetic of the
  backoff delay. In the initialiser: two commands at once, temporary files that a kill
  leaves behind, and the wording of reports.

## Plan

1. `UserCreation`, `IdempotentCreation`, their runs and proofs: done.
2. `FixedWindowRateLimiter`, `GcraRateLimiter`, their runs and proofs: done.
3. `DatabaseHealthCheck`, `GracefulShutdown`, their run and proofs: done.
4. `OutboundRequest`, its run and proofs: done, except for the checks in front of it.
5. `UserListing`, its run and proofs: done.
6. `TemplateRepository`, `TemplateInit`, their run and proofs: done.
7. `HttpRequests`, `ConnectionPool`, `RequestPath`, their run and proofs: done.
8. Left: the grammars of entity tags and addresses against reference definitions, the
   delays of `DrizzleTransactionManager`, the checks in front of an outbound call.
9. Every safety property of a run has a theorem, and for user creation, the request path, the
   shutdown and the outbound call the bounds and the freedom from standstill that liveness
   rests on. Liveness stays with TLC. Left to prove: the same of a limiter's request and of a command
   of the initialiser, and lemmas for what item 8 adds.
