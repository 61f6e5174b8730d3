# TLA+ verification of clean-arch-go-gin

This directory is a TLA+ development kept beside the code of the service: models
of its stateful parts, TLC configurations that check them on small instances,
and theorems whose proofs TLAPS checks for every value of the constants. Paths
below are relative to the repository root (`src/` here).

## 1. The system

A Go HTTP service in layers: router and middleware (`internal/api`), services
with the business rules (`internal/service`), gorm repositories
(`internal/repository`), a container that wires them and owns background work
(`internal/di`), and platform code for configuration, database and migrations
(`internal/platform`). It runs on sqlite (one writer) or on Postgres (read
committed), possibly with several replicas.

| Component | State it keeps | Operations that change it | Interacts with | What makes it correct |
|---|---|---|---|---|
| User service (`service/user`) | tables `users` (soft delete) and `refresh_token_entities` (hard delete) | Register, Login, Refresh, handleReuse, ChangePassword, DeleteAccount, Logout/RevokeRefreshTokens, PurgeExpiredRefreshTokens | repositories, transaction manager, token service | one account per address; a refresh token is used once; sessions end with the account and with the password; no half-done operation is visible |
| Session listing (`list_sessions`, `pagination`) | none | two reads (count, page) | refresh token repository | no session is missed or repeated without cause; the total fits the page; window arithmetic |
| Transactions (`repository/tx`, `dbtx`) | the `*gorm.DB` on the context | WithinTx: begin, join, commit, roll back | every repository | all or nothing; a nested WithinTx joins, never opens a second one |
| Token service (`service/token`) | keys, lifetimes | mint and validate access and refresh JWTs | user service, auth middleware | two refresh tokens are never equal (jti); a JWT never outlives its row |
| CSRF service (`service/csrf`) | signing key | generate, validate | middleware | a token is accepted exactly during its lifetime, across replicas with skewed clocks |
| Rate limiter (`middleware/rate_limit.go`) | a bucket per client | Allow, lazy collection of stale buckets | every request | a client never exceeds its budget, and the map stays bounded |
| Router, middleware and handlers (`api`) | per request | first and second halves, deadline, abort, panic | services | one answer per request; a failed check never reaches the handler; every request is observed |
| Error mapping (`apperr`, `handler/respond.go`) | none | pure | handlers | every failure has a status; internal detail does not leak into it |
| Counter (`repository/.../counter`) | one row | read, add one, save under a row lock | counter service | no lost update |
| Migrations and seed (`platform/migrate.go`) | schema, ledger table | apply pending versions, each with its ledger row in one transaction; seed | container | every version applied once, in order, although instances boot together or crash |
| Container, janitor, lifecycle (`di/container.go`, `cmd/server/main.go`) | servers, goroutines, database handle | build, StartJanitor, StartAdmin, drain, Close | everything | each resource closed once, after its users; nothing waits for ever |
| Configuration (`platform/config*.go`) | the environment, read once | parse, default, validate | container | what starts is safe to run; what is refused is told |
| Health, message, logging, tracing, metrics, headers | none that others read | reads and output | | |

**Hard behaviours.** (1) Every service operation is a sequence of statements;
checks are usually made *before* the transaction that relies on them (find the
row, compare the password, then write). (2) Requests of one user overlap:
several devices, double clicks, client retries. (3) sqlite and Postgres order
the same statements differently. (4) A request ends between any two statements:
deadline, disconnected client, database error, crash. (5) Answers are lost after
the commit, so a client may never learn of the token that replaced its own.
(6) The janitor deletes rows under running requests, and JWT and row expiry are
two clocks. (7) Instances migrate the same database at the same time. (8) The
process can be told to stop in any phase, with goroutines that have not run yet
and handlers that do not end. (9) A panic skips whatever is not deferred. The list
by line is `hazards` in `PROJECT.json`.

## 2. Modules

| Module | Models | Kind |
|---|---|---|
| `UserService` | user service, repositories, transactions, janitor, token freshness and expiry | specification and properties |
| `MCUserService` | | symmetry set for TLC |
| `UserServiceProofs` | | types; sessions and accounts, addresses; rotation, revocation, deadlocks, what one writer adds |
| `RateLimiter` | the in-process rate limiter | specification and properties |
| `TokenBucket` | what a `Limiter` promises | abstract specification |
| `RateLimiterProofs` | | types, budget, bounded map, refinement |
| `Migrations` | `platform.Migrate` by instances that boot together | specification and properties |
| `MigrationProofs` | | types; order, wholeness and uniqueness of versions; the race is won |
| `MCRateLimiter`, `MCMigrations` | | symmetry sets for TLC |
| `Counter` | the counter's repository, service and handler | specification and properties |
| `AtomicCounter` | what the counter promises | abstract specification |
| `CounterProofs` | | linearizability |
| `Lifecycle` | `run`, `NewContainer`, `Close`, the goroutines | specification and properties |
| `LifecycleProofs` | | order of shutdown, clean exits |
| `Apperr` | error chains and their status | operators |
| `RequestPipeline` | router, middleware, handlers, health, message; uses `Apperr` | specification and properties |
| `SessionListing` | `ListSessions`, its queries, pagination | specification and properties |
| `SessionListingProofs` | | ranks of rows; the total fits the page; what a walk repeats and misses is bounded |
| `Csrf` | the CSRF service on several replicas | specification and properties |
| `CsrfProofs` | | what is accepted was issued, what is fresh is accepted |
| `Config` | `NewConfig`, `Validate`, the choice of keys | specification and properties |
| `ConfigProofs` | | a start is as written, one refusal tells all but two coupled rules |

The modules of one process meet at named points: `Lifecycle` runs `Migrations` as
its step `Migrate` and the janitor whose sweeps are in `UserService`; a service
call of `RequestPipeline` is a request of `UserService` or `Counter`, its limiter
is `RateLimiter` and its token check `Csrf`; `SessionListing` sees the writes of
`UserService` as changes of one account's rows. They are checked apart because
each has a state space of its own and their interfaces are a result or an error.

### `UserService`

State, and what it stands for:

* `user[u]`: the row of id `u`. Status `absent`, `live` or `deleted` (gorm's
  `DeletedAt`), address, and the password as a *version*, the number of times
  it was replaced.
* `rows`: the tokens that have a row in `refresh_token_entities`. A token is the
  number of the `GenerateRefreshToken` call that made it and also stands for the
  access token issued with it. `token[t]` is what its row and its claims say
  (owner, password version that authorised it), and, as history, where it came
  from and how its row ended.
* `minted`, `jwtDead`, `rowDead`: tokens are numbered in the order they are made
  and all live equally long, so the expired ones are a prefix. JWT and row
  expire separately (`RowExpires` only after `JwtExpires`: `exp` is computed
  first and cut to whole seconds).
* `delivered`: pairs whose `Set-Cookie` reached a client. Any client may present
  a delivered pair again, at any time and any number of times.
* `req[p]`: the request in slot `p`: operation, next statement (`pc`), what it
  read, and the writes of its open transaction (`hit` user row, `del` token
  rows, `new` token). Pending writes become visible at `Commit` and vanish at
  `Abort`.
* `raced`, `forked`: history only, never read by an action (section 4).

Every statement is one action, in the order of the code: `RegisterFind`,
`CreateUser`; `LoginFind`; `RefreshFind` (with the branch into `handleReuse` and
the one that drops an expired row), `DropExpired`, `DeleteByTokenHash`;
`ChangePasswordFind`, `UpdatePassword`; `DeleteAccountFind`, `SoftDelete`; and,
shared as in the code, `RevokeRefreshTokens`/`RevokeRow`/`Revoked`
(`DELETE ... WHERE user_id = ?`), `IssueTokens` and `Commit`. The janitor's sweep
is `PurgeExpiredRefreshTokens`. `map` in `PROJECT.json` gives the lines.

**Isolation.** `Isolation = "serial"` is sqlite: a transaction's first write
waits until no other transaction has written (`WriterFree`).
`"readcommitted"` is Postgres: row locks only (`TokenRowFree`, `UserRowFree`),
an `INSERT` of a unique key waits for an uncommitted one (`EmailIndexFree`), and
a multi-row `DELETE` fixes its list of rows at its start, waits for each locked
row and skips those that have gone. The database is external; its rules are
modelled as the repositories rely on them.

**Abstracted away.** Password strength and hashing (a comparison succeeds or
not, so wrong passwords are the `Answer` branch of every check), user agents and
IP addresses, claims other than the user id, access-token expiry as a separate
clock (it only ever expires before the refresh token of its pair, and a client
without it can do less), wording and status of answers.

### `RateLimiter` and `TokenBucket`

Credit is measured in ticks: a client earns one unit per tick and a request
costs `Cost`, so `RPS` is `1 / Cost` and a full bucket holds `Burst * Cost`.
`buckets` and `bucket` are the map, `lastGC` the time of the last collection,
`holder` the call that holds the mutex. A call is two steps because it reads two
clocks: `Enter` (lock, `nowFunc`, `gcLocked`, find or make the bucket, set
`seen`) and `Grant` or `Refuse` (`rate.Limiter.Allow`, which reads `time.Now`
itself). Between them at most `MaxStall` ticks pass. `window` is history: it
opens at any one request of any client and adds up what that client is granted
from there on, so an invariant about it speaks of every window.

`TokenBucket` is the limiter without a map: a bucket per client that exists for
ever. `Ideal` maps a client without a bucket to a full one; the refinement
`ForgetsNothing` says that collection never changes a decision in either
direction. It rests on `RateAssumption`: a bucket refills within the TTL. The
defaults satisfy it with room to spare (2 s and 25 s of 10 minutes), but the
configuration is not validated for it: a rate so low that `Burst / RPS` exceeds
ten minutes would hand out a full bucket early.

### `Migrations`

Each instance runs `Migrate` statement by statement (`pc`): look for the ledger
and create it, read it once (`applied`), then for every version not in it run
the statements of its `Up` function and insert the ledger row in one
transaction. `tx` holds what the transaction has written; it is published by
`Commit` and lost by `Fail` or `Crash`. `schema` is what is committed: whether
the tables have the shape of the entities, whether the column with tokens in the
clear is there, and how many rows the seed left. `born` remembers which database
was found: an empty one, or one of an early release without a ledger, already
seeded and with the old column.

The database is Postgres, modelled by what the statements rely on: reads see
what is committed; DDL waits for uncommitted DDL on the same object and fails if
that made it pointless; an insert of a primary key waits for an uncommitted one
and fails on a committed one. Two instances that both hold a read lock on the
table they want to alter are a deadlock for Postgres, which fails one of them;
the model lets the first go ahead and fails the other, with the same outcome.
Losers therefore fail at four places, not only on the ledger's primary key:
creating the ledger, the tables, dropping the column, recording the version.
`Crash` also stands for an error of any statement. Instances that start with
`DATABASE_AUTO_MIGRATE` off skip all of this and are not in the model.

### `Counter` and `AtomicCounter`

`row` is the committed value, `counter[r]` the copy in a request's variable,
`holder` the transaction that owns the row lock (Postgres) or the file's write
lock (sqlite); `dialect` is chosen at the start. `First`, `Save` and `Commit` are the statements; `Fail` ends a
request anywhere, also after the commit, when only the answer is lost. On sqlite
the locking clause is not generated; what saves the increment is that a
transaction whose snapshot is stale may not write (`Writable`, `Busy`: the client
gets an error, never a wrong value). `Linearizable` is the refinement to
`AtomicCounter`: an operation takes effect between call and answer, a failed one
wholly or not at all.

### `Lifecycle`

`main` is the next step of `run`, from `Validate` to `Exit`, with the deferred
`stop` and `Close` in the order Go runs them. The server, the admin listener, the
janitor and the handlers are actors beside it. Waits with a timeout may end at any
time. `Signal` cancels the context while it is caught and kills otherwise.
`AdminListenLate` is the data race on `c.AdminServer`: the goroutine may see the
old pointer or nil. `DatabaseFlips` lets the database come and go while it is
being opened. The error of `db.DB()` (`database.go` 57-60) is left out: gorm returns
the pool it has just opened.

### `Apperr` and `RequestPipeline`

An error is the sequence of links that `errors.As` and `errors.Is` walk; the first
code decides. A request walks its chain down (`at`), calls one service, replies,
and walks back up through the second halves. A panic may come from any middleware
below `Recovery`, a handler or a service (`Panics`) and walks up through nothing but
`Recovery`; `panicked` is a history variable. `Recovery` does not ask whether an
answer was written already (`recovery.go` 26), so a panic after it would write a
second one: the second halves only count and log, gin hands errors of rendering to
`c.Error`, and the model takes neither to panic. An answer has a status, the
request id in its body, which only failures carry, and who wrote it (the
application or CORS). What a middleware or a service finds (a cookie, a token, a body, a
row) is a choice of the action that looks. `ContextEnds` may happen between any
two steps. Each handler is an action; `Failures` is the set of error chains its
service can return, with the context's error bare, wrapped by `apperr.Internal` or
absent. CORS is external and may refuse or answer a preflight. Sending headers
and bodies is left out, so a client that is gone counts as answered.

### `SessionListing`

Rows of one account with `created_at`, `expires_at` and a random id. A client
walks through the pages until one is not full; between any two statements other
requests add, rotate or revoke rows and time passes. A row becomes visible up to
`Lag` after its times were read, so it may appear below the newest. A client may
also ask for one later page only (`walk.first`).
`Wrapped` is Go's `int`, whose largest value is `MaxInt`.

### `Csrf`

A token is nonce, issue time in bytes and a signature, which is the pair of key
and signed bytes (the HMAC is taken to be injective). Replicas differ by at most
`Spread` in their clocks, which are adjusted at any time, and may be restarted
with another secret. Validation changes nothing, so it is an operator, and the
invariants quantify over every replica and every token that parts of issued ones
can be put together to (`Sent`).

### `Config`

`env` is the text of every variable; an operator changes up to `MaxEdits` of them
and starts the process. The standard parsers are tables over the texts that occur,
with what they do at the edges (`"10"` is no duration, `"NaN"` is a float, `"True"`
is not true). `Validate` yields the variables its messages name. A `.env` file
counts as part of the environment.

## 3. Runs

| Run | Instance | Checks |
|---|---|---|
| `accounts_readcommitted` | Postgres, 3 requests at a time, 3 in all, 2 ids, 1 address, 1 expiry | types, `EmailUnique`, `OrphanOnlyIfRaced`, `OldSessionOnlyIfRaced`, `RotatedAway`, `SiblingsOnlyIfForked`, `NoResurrection`, `AccountBornWithSession`, `DeadlockOnlyAmongRevokers` |
| `accounts_sqlite` | sqlite, 2 at a time, 3 in all, fair | `RevocationIsComplete`, `EveryRequestAnswered`, `ExpiredSwept` |
| `rate_limits` | 2 clients, bucket of 2 requests refilled in 4 ticks, TTL 5, stall 1, 10 ticks | types, `Budget`, `OnlyRecentBuckets`, `ForgetsNothing` |
| `migrations_race` | 3 instances, empty or old database, 2 crashes | types, `LedgerIsPrefix`, `WholeVersions`, `ServesMigrated`, `SomebodyGoesOn`, `EachVersionOnce` |
| `counter` | 4 calls, both dialects, fair | `Linearizable`, `EveryCallEnds` |
| `lifecycle` | 2 requests, 2 signals, 5 pings, every combination of tracing, admin, janitor and migrations, fair | `JanitorToldBeforeClose`, `HandlersOutliveContainerOnlyIfCut`, `ExitIsClean`, `SignalEndsProcess` |
| `request_pipeline` | 16 operations, every combination of metrics, limits, tracing and deadline, fair | `ServiceOnlyIfAllowed`, `AnsweredOnce`, `DocumentedStatus`, `CookiesFollowOutcome`, `ObservedUnlessPanicked` |
| `session_pages` | 4 sessions in all, pages of 2, lifetime 1, lag 1, `MaxInt` 15 | `MissedOnlyIfRemoved`, `RepeatedOnlyIfAdded`, `TotalFitsPage` |
| `csrf_replicas` | 2 replicas, 2 secrets, 2 tokens, lifetime 2.5 seconds, clocks 1 second apart | `AcceptedWasIssued`, `FreshIsAccepted` |
| `config_starts` | 4 environments, every pair of changes | `OnePassButCoupled`, `RunsAsWritten` |
| `refresh_single_use` | sqlite, 2 at a time | violated: `SingleUse` |
| `caller_signed_out` | sqlite, 2 at a time | violated: `CallerStaysSignedIn` |

Where the table does not say "types" the module still states its `TypeOK`, which
holds in the instance of its run; the run is kept to what says more.

**Bounds and why they are enough.** Behaviours start from an empty database or
from one account with one session, so three requests suffice for "log in, change
the password, refresh" or "log in, refresh, delete" with any overlap. One address makes
registrations collide, two ids tell the accounts apart. Every known exception
needs two overlapping requests and the third is the bystander; the same
properties were also checked with three requests at a time and four in all on
Postgres (2.3 million states, no error). One token may expire, which is enough
for expiry to hit a token before, during and after its use. Deadlock is not
checked because a bounded behaviour stops when its requests are used up.
Symmetry over slots, ids and addresses is used in the safety runs only.

The rate limiter's clock runs for two TTLs after the first possible call, so a
bucket can be filled, emptied, collected and made again, with the TTL as tight
as the assumption allows. Its deadlock check is off because the clock stops.
Three instances are enough for one to win a version, one to wait for it and one to arrive later; two crashes let two of them die in
the same version. A migrating instance whose work is done only serves, so its
runs have no deadlock check either.

Four counter calls let two increments overlap while a third reads and a fourth
follows. Two requests in `lifecycle` let one be drained while another is not, two
signals are the first and the impatient one. The pipeline has no bound: one
request is followed, since requests share nothing in it. Four sessions fill two
pages and leave one to be added, rotated or removed between them; the page size is
scaled down and so is the integer. The lifetime of CSRF tokens is not a whole
number of seconds, so truncation matters at both ends. Every rule of `Validate`
looks at no more than two variables besides the mode, except that of the
unencrypted exporter, which the fourth environment switches on. None of these
runs checks deadlock: each behaviour ends when its requests, edits or ticks are
used up or its process has exited.

**What the documentation says and the code does not do.** Sentences of the
repository's comments and documents that the models refute are stated in the
modules as properties of their own. Two have a run and an entry in `findings`:
`SingleUse` (two refreshes find the same row and both rotate it, because the
number of rows `DeleteByTokenHash` removed is not looked at) and
`CallerStaysSignedIn` (a device signed out by a password change refreshes once
more, `handleReuse` takes it for a replay and ends every session of the account,
the caller's included). For most of the others a passing property says
how far the sentence holds. Each of them, added as an `INVARIANT` to the configuration
named, gives a counterexample:

| Property | Configuration | What happens | What does hold |
|---|---|---|---|
| `NoTokenOutlivesAccount` | `UserService_serial` | a login or refresh past its check stores its token after the deletion committed | `OrphanOnlyIfRaced` |
| `PasswordChangeEndsOldSessions` | `UserService_serial` | the same with a password change | `OldSessionOnlyIfRaced` |
| `ReuseIsReplayOrLogout` | `UserService_serial` | a password change and the janitor remove rows as well | |
| `AdminNeverFatal` | `Lifecycle` | the admin goroutine reads `c.AdminServer` late and finds nil | `ExitIsClean`: the drain is over by then |
| `BootingDatabaseIsRetried` | `Lifecycle` | `gorm.Open` pings before the loop that retries | |
| `DeadlineIs504` | `RequestPipeline` | `apperr.Internal` hides a deadline behind a 500 | `DocumentedStatus`: 504 exactly when no repository wrapped it |
| `EveryRequestObserved` | `RequestPipeline` | metrics and access log are not deferred, so a panic skips them | `ObservedUnlessPanicked` |
| `WrongMethodIs405` | `RequestPipeline` | `NoMethod` needs a switch of gin that is off | `DocumentedStatus`: it is a 404 |
| `LiveIs200` | `RequestPipeline` | the probe runs under the request deadline and checks it (504, or 408 when the client left), and a panic is a 500 | `DocumentedStatus` names these three |
| `NotReadyHasNoId` | `RequestPipeline` | the handler adds the ids to its own 503 (`health.go` 61-68) | `AnsweredOnce`: every failure names its id |
| `PagePastTheEndIsEmpty` | `SessionListing` | the offset wraps and gorm drops it | `TotalFitsPage` |
| `OnePassSuffices` | `Config` | a rule is silent while another one refuses the value it compares with | `OnePassButCoupled` |
| `DiscardedIsReported` | `Config` | three variables are not read again | `RunsAsWritten` |
| `SampleRatioIsFraction` | `Config` | NaN is neither below 0 nor above 1 | |

`DocumentedStatus` compares every answer with the responses `docs/openapi.yaml`
lists for its operation, nothing added; the four ways in which the code leaves
these lists are spelled out in `Undocumented`, each with its cause. Its second
half says what an ended context becomes. The document errs in the other direction as well: it lists a 504 for the message and
counter routes, whose services never look at the context, so that a deadline
there can only be the 500 of a repository. One more sentence has no property:
`docs/openapi.yaml` 729-731 says `?limit=0` is a 400; the code takes 0 for a limit
that was not sent (`Normalize` of `SessionListing`) and uses the default.

**What the passing properties add.** `DeadlockOnlyAmongRevokers`: on Postgres a
cycle of waiting requests consists of requests that delete token rows, each of
which waits for one that works on its own account; registrations, logins and
rotations are never part of one. (The property was once stated with one account
for the whole set of requests. No run refuted it, the proof did: two independent
cycles of two requests each are such a set.) The janitor's `DELETE` is
one step in the model and takes no part in cycles. `MissedOnlyIfRemoved` and
`RepeatedOnlyIfAdded` bound what paging by offset can cost: at most as many
sessions are missed as went away during the walk, and repeated as came.
`HandlersOutliveContainerOnlyIfCut`: `Close` takes the database from a running
handler only when the drain timed out or the server failed. `SomebodyGoesOn`
covers both ways for a race to have no winner, everyone failing and everyone
waiting. `AcceptedWasIssued`
needs the fixed lengths `ValidateToken` checks; without them a token cut elsewhere
verifies.

**Fairness.** `FairSpec` has weak fairness of every request's next statement
(the Go scheduler and the database run what is not waiting for a lock) and of
the sweep (the ticker keeps firing). There is none for clients, for expiry or
for `Abort`, so `EveryRequestAnswered` does not rest on the deadline. On
Postgres ChangePassword and DeleteAccount take their locks in opposite orders
and can wait for each other until the server or the deadline aborts one, which
is why the property is stated for one writer. In `Counter` every request takes its
statements; weak fairness is enough because a lock is only waited for until its holder has
taken its own. In `Lifecycle` only the main goroutine is fair: handlers, the admin
listener and the janitor may be stuck for ever, and `SignalEndsProcess` holds
because every wait of `run` and `Close` has a timeout. In `RequestPipeline` the
goroutine of the request is.

## 4. What is proved

### Accounts and sessions

For every value of the constants (any number of slots, ids, addresses, requests
and expiries, both isolation levels), assuming only `ConstantsAssumption`
(the bounds are natural numbers, `None` is neither an id nor an address, the
isolation level is one of the two):

| Theorem | Statement |
|---|---|
| `UserServiceProofs!TypeCorrect` | `Spec => []TypeOK` |
| `UserServiceProofs!SessionsEndWithAccount` | `Spec => []OrphanOnlyIfRaced` |
| `UserServiceProofs!SessionsFollowPassword` | `Spec => []OldSessionOnlyIfRaced` |
| `UserServiceProofs!OneAccountPerAddress` | `Spec => []EmailUnique` |
| `UserServiceProofs!RotatedIsGone` | `Spec => []RotatedAway` |
| `UserServiceProofs!ForksAreSimultaneous` | `Spec => []SiblingsOnlyIfForked` |
| `UserServiceProofs!DeadlocksAreRevocations` | `Spec => []DeadlockOnlyAmongRevokers` |
| `UserServiceProofs!NothingComesBack` | `Spec => NoResurrection` |
| `UserServiceProofs!BornWithSession` | `Spec => AccountBornWithSession` |
| `UserServiceProofs!OneWriterRevokesAll` | `Isolation = "serial" => (Spec => RevocationIsComplete)` |

The last one is about sqlite only, because on Postgres it is false: a `DELETE`
that has fixed its list does not see a session committed while it waits.

**Types.** `TypeOK` is not inductive: `IssueTokens` would give a token no owner
if its request had no user. `Shape` adds which operations can be at which
statement (`InFlow`), that a request past its first check has a user
(`HasUser`), and that tokens in `rows`, `delivered` and requests were minted.

**Sessions.** The code cannot guarantee that revocation is complete (section 3),
so the useful question is what it *does* guarantee. `raced` records the accounts
for which a request that issues tokens was past its check while a password
change or deletion was between taking its list of sessions and its commit. The
theorems say that nothing else can go wrong: roll-backs, concurrent rotations,
the order of locks, sweeps, and repeated or competing password changes never
leave a stale session. `SessionInv` is the inductive invariant:

* of one request: it knows its account (`KnownRequest`), who may have written the
  user row (`Writes`), its pending token is its own (`Pending`), what it checked
  still holds unless raced (`Checked`), and one that is ending sessions has every
  session on its lists (`Listed`);
* of two requests: while one is ending sessions no other is about to add one
  (`Quiet`), and no two have written the same user row (`Apart`);
* of the tables: `RowsCurrent`, which gives both theorems at once.

`Quiet` carries the argument: marking at both ends (when the list is taken, and
when a check passes during a revocation) leaves no unmarked overlap. `Apart`
carries the case of two password changes, which the lock on the user row
serialises. Steps that touch one request only go through `LocalStep` and
`RequestStep`; the two that store a session go through `AddSessions`.

**Addresses.** `EmailInv` adds that a registration with an uncommitted insert
holds an address that is neither taken nor held by another one.

**Rotation.** `RotatedAway` (a token with a stored successor has no row) is not
inductive: a commit stores the successor, and nothing in the property says that
the same commit takes the row of the presented token. `RotationInv`, on top of
`SessionInv`, supplies what is missing:

* of one request: it presents a token some client has and its pending token is
  one nobody has; a rotation past its `DELETE` removes the presented row if that
  is still stored (`Chain`); what it has locked and still wants to lock are
  sessions of its own account if it revokes, and nothing if it is a rotation that
  has not deleted yet (`Locks`); a token it is rotating has a stored successor
  only if marked in `forked` (`Succeeded`); with one writer, a revocation has
  every session of the account on its lists (`Complete`);
* of two requests: neither deletes the pending token of the other (`Unlisted`);
  their pending tokens differ, a token both rotate is marked, and with one
  writer they are not both in a transaction (`Disjoint`);
* of the tables: tokens descend from tokens that clients had (`Lineage`) and an
  absent user has no password version (`Unborn`).

`forked` marks a token when two refreshes are past the lookup of its row at once, so
`ForksAreSimultaneous` says that overlap is the only way to get two successors:
no order of roll-backs, sweeps, reuse handling and late commits is another. `Locks`
gives the theorem on deadlocks: who waits in a cycle holds a row somebody wants,
so it is not a rotation or a registration at its first statement, and later ones
wait for nothing (a registration waits only for another one that has inserted its
address, and that one waits for nothing any more).
Steps that only move one request go through `Moves` and `MovesKeep`, those that
store a session through `Stores` and `StoresKeep`. TLC checked `RotationInv` as an
invariant of both instances of section 3 and on 8.6 million states of a larger one
before it was proved.

### Rate limiter

From `RateAssumption` only, for any clients, rate, burst and TTL:

| Theorem | Statement |
|---|---|
| `RateLimiterProofs!TypeCorrect` | `Spec => []TypeOK` |
| `RateLimiterProofs!WithinBudget` | `Spec => []Budget` |
| `RateLimiterProofs!BoundedMap` | `Spec => []OnlyRecentBuckets` |
| `RateLimiterProofs!CollectionIsInvisible` | `Spec => ForgetsNothing` |

The invariant relates the three times of a bucket: it was last paid from no
later than it was asked for plus a stall, and asked for no later than now. A
bucket not asked for during a whole TTL is then full again when it is collected
(`Full + MaxStall <= TTL`), which makes a step of `gcLocked` a stutter of
`TokenBucket`. `Budget` is not inductive alone: what the window's client has left
(`Level`) plus what it used never exceeds a burst plus the time elapsed.

### Migrations

From `MaxCrashes \in Nat` only, for any set of instances:

| Theorem | Statement |
|---|---|
| `MigrationProofs!TypeCorrect` | `Spec => []TypeOK` |
| `MigrationProofs!InOrder` | `Spec => []LedgerIsPrefix` |
| `MigrationProofs!NeverHalfway` | `Spec => []WholeVersions` |
| `MigrationProofs!ServesLastVersion` | `Spec => []ServesMigrated` |
| `MigrationProofs!OncePerVersion` | `Spec => EachVersionOnce` |
| `MigrationProofs!RaceIsWon` | `Spec => []RaceHasWinner` |

`Inv` adds for each instance that what it read of the ledger is still there and
what its loop has passed is recorded (`Passed`), that it holds a ledger row
exactly when it is about to commit, and that row is not committed (`RowHeld`),
that its transaction contains writes of its own version only (`OwnWrites`), and
that, *unless its version has been recorded meanwhile*, it has done the whole of
it when it gets to the row (`Done`); and that no two instances hold one row
(`Distinct`). The condition in `Done` is the point: a loser's transaction may
well be half empty, because it looked before the winner committed, and only the
primary key keeps it from being recorded.

`RaceHasWinner` is `SomebodyGoesOn` with the waits of the statements written out
(`Unblocked`) where the property has `ENABLED`, of which the provers know nothing;
TLC finds the two equal in every state of the run. It rests on `WinInv`: an
instance works on a version it did not read from the ledger (`NotRead`), and
unless a process died some instance is up to date with everything committed
(`OneUpToDate`). Instances that waited fail in turn, but the one whose commit made
them fail is up to date by that very commit.

### Counter

From `NoRequest \notin Requests`, for any number of calls and both dialects:

| Theorem | Statement |
|---|---|
| `CounterProofs!OneSavesHolds` | `Spec => [](TypeOK /\ OneSaves)` |
| `CounterProofs!CounterIsLinearizable` | `Spec => Linearizable` |

A saved copy is one ahead of the row and its transaction holds the lock
(`SavedIsNext`); a copy read under the Postgres row lock is current
(`ReadIsCurrent`). Nothing is said of a copy read on sqlite: it may be stale, and
the guard of `Save` refuses it. `Commit` is then the abstract step that adds one,
and every other step is a stutter, a read or an answer.

### Lifecycle

From `LifecycleAssumption` (at least one ping, a bounded number of signals), for any
number of requests:

| Theorem | Statement |
|---|---|
| `LifecycleProofs!TypeCorrect` | `Spec => []TypeOK` |
| `LifecycleProofs!JanitorIsTold` | `Spec => []JanitorToldBeforeClose` |
| `LifecycleProofs!HandlersAreDrained` | `Spec => []HandlersOutliveContainerOnlyIfCut` |
| `LifecycleProofs!ExitsAreClean` | `Spec => []ExitIsClean` |

The invariant says what each step of `run` has left behind: a result only from
its return on (`ResultByStep`), no actor beside a boot (`NothingStarted`), the pool
closed last (`PoolByStep`), the context cancelled before `Close`
(`StoppedBeforeClose`), a listener that was shut or failed (`ListenerByResult`), no
running handler after a clean drain (`DrainedIfOk`), the tracer shut between drain
and database (`TracerByStep`), the admin server forgotten only after the drain
(`AdminByStep`), and an exit status that follows the result (`StatusByStep`).

### CSRF

From `CsrfAssumption` (the bytes of the issue time hold every time of a clock) and
`SkewAssumption` (the replicas' clocks are together to within `clockSkew`), for any
replicas, secrets, lifetime and precision:

| Theorem | Statement |
|---|---|
| `CsrfProofs!TypeCorrect` | `Spec => []TypeOK` |
| `CsrfProofs!OnlyIssuedAccepted` | `Spec => []AcceptedWasIssued` |
| `CsrfProofs!FreshAccepted` | `Spec => []FreshIsAccepted` |

A token is signed over its own parts (`PartsAreSigned`) and its issue time is the
time of its making to within the skew and less a part of a second
(`TimesAreClose`). The first theorem compares lengths: two splits of the same
signed bytes with a nonce and a time of fixed length are the same split.

### Session listing

From `ListingAssumption` (ids are numbers, page sizes are bounded) and
`CountableAssumption` (an `int` counts the sessions an account ever has), for any
rows, lifetime, lag, page sizes, first pages and largest `int`:

| Theorem | Statement |
|---|---|
| `SessionListingProofs!TypeCorrect` | `Spec => []TypeOK` |
| `SessionListingProofs!TotalsFitPages` | `Spec => []TotalFitsPage` |
| `SessionListingProofs!RepeatsAreBounded` | `Spec => []RepeatedOnlyIfAdded` |
| `SessionListingProofs!MissesAreBounded` | `Spec => []MissedOnlyIfRemoved` |

The argument is about *ranks*: `Rank(R, r)` is the number of rows of `R` that are
newer than `r`. `ORDER BY` puts the row of rank `k` at place `k + 1`, so `LIMIT` and
`OFFSET` cut an interval of ranks out (`PageRanks`), and a row that is added or
removed moves the rank of any other by at most one. None of the properties is
inductive, because they say nothing of a walk under way. `Paid` does: of a walk that
has come to rank `m`,

* the shown rows of rank `m` or more, which will be shown *again*, are, with the
  repetitions there have been, no more than the rows that came;
* the rows of the beginning that were not shown and lie before `m` are no more than
  the rows that went.

A row that comes pushes at most one shown row over the boundary and pays for it, a
row that goes pulls at most one unseen row back, and a page moves the boundary by as
many ranks as it shows. `InBounds` is needed besides: a walk goes on only from a full
page, so its offset is no larger than the number of ids and does not wrap, and a walk
that ended has come behind the last row. `Keyed` makes the order total, `NothingShown` covers the walks
of one page, and `Counted` ties the total to the rows until something changes.
`TotalFitsPage` has no condition on the walk, only that the offset fits an `int`.
TLC checked the invariant on 12.6 million states of a larger instance before it was
proved.

### Configuration

From `MaxEdits \in Nat` only, so for every environment the texts can form and not
only those two changes away from the four at the start:

| Theorem | Statement |
|---|---|
| `ConfigProofs!TypeCorrect` | `Spec => []TypeOK` |
| `ConfigProofs!StartsAsWritten` | `Spec => []RunsAsWritten` |
| `ConfigProofs!OneRefusalTellsAll` | `Spec => []OnePassButCoupled` |

The invariant says that the environment consists of the texts and that what was
reported is what `Validate` says of it; the work is in the rules, since no
combination of settings is left to a bounded search. For the second theorem: what
was reported and is unset now has its default (`Defaulted`), the rest has kept its
value and the switches that decide which rules apply are never reported (`Kept`,
`Reportable`). One lemma per group of rules (`SecondParsing` to
`SecondObservability`) then shows that it passes. Three of them are not obvious: the
idle and the open connections, where a reported number that cannot be read counts
as its default already the first time (`SecondDatabase`); the two JWT secrets,
which are compared (`SecondAuth`); and the two ports and the pprof listener, which
depend on what another group refused (`SecondObservability`).

### Only model-checked

* Liveness under fairness is out of the prover's reach: `EveryRequestAnswered`,
  `ExpiredSwept`, `EveryCallEnds`, `SignalEndsProcess`, `AnsweredOnce`.
* `SomebodyGoesOn` speaks of `ENABLED`; see `RaceIsWon` for what is proved instead.
* `RequestPipeline` and its properties: the module has no bound and follows one
  request, so TLC's run is exhaustive and there is nothing left to generalise.
* What the parsers of the standard library do is a table in `Config`: the theorems
  hold for the texts in it.

## 5. Plan

Every module has its runs, and every module with a bound has proofs: a safety
property or action property that a run checks is either a theorem or listed above.
What remains is upkeep: a change of the code in a mapped line is a change of the
definition that stands for it, and the failing obligation or trace says which
argument the change has broken.

## 6. Not modelled

Formats of log records, metric labels, spans, header values and the wording of
envelopes are output that no other part reads. `OptionalAuthMiddleware` is not
used by any route. The message service reads one constant row; only its failures
are modelled. Mocks and test helpers are not part of the program, nor is a
database handle injected by tests. Hashing and signing are external: a hash
identifies its token, a signature verifies until its token expires. Scraping and
profiling through the admin listener read only; what matters of them is that they
may keep it busy, which `CloseAdmin` allows. `validateMigrations` checks a list that
is fixed at build time and changes nothing. A rate that does not refill a bucket
within its TTL is assumed away (`RateAssumption`) although the configuration accepts
it; a burst of 0 is not, it refuses every request. Recursive definitions do not occur.
