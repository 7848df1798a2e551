# Formal model of roc_way

TLA+ models of the parts of roc_way whose correctness depends on the order of things: the
login lock, the JWT pairs and their blacklist, the accounts, the rate limiters, the chain of
middlewares, the WebSocket hub, and the start and shutdown of the process. TLC checks them on
small instances; TLAPS proves the main invariants for every value of the constants. `PROJECT.json`
holds the run list, the correspondence of every definition to source lines, the mutants that
show each property can fail, the findings and the hazards.

To run: `tlc -config LockSequential.cfg MCLoginLock.tla` (likewise for the other
configurations; the table of runs names the module), `tlapm LoginLockProofs.tla`.

## 1. Inventory

Paths are relative to `src/internal/`.

| Component | Where | State | Operations | Hard behaviour | What makes it correct |
|---|---|---|---|---|---|
| Login lock | `app/admin/service/{auth,login_audit}.go`, `app/admin/repository/audit.go`, `pkg/cache` | rows of `login_audits` (failures, locks) in MySQL; Redis counter `auth:fail:<user>`, keys `auth:lock:short\|long:<user>` | `Login`, `GetLock`, `RecordFailure`, `RecentFailuresCount`, `RecordLock`, `ClearFailures` | two stores without a common transaction; check-then-write between concurrent requests; Redis outage, lost keys; lagging replica; request that stops half way | a lock in force stops every later login; enough failures lead to a lock; Redis never locks what the table did not; a long lock is not replaced by a short one |
| Tokens | `pkg/auth/auth.go`, `pkg/middleware` (JWT), `app/admin/handler/auth.go` | signed tokens (held by clients), Redis blacklist | issue, parse, refresh, revoke, logout | check-then-revoke of refresh; logout revokes two tokens in two calls, either of which may fail; ttl of a revocation against the life of the token; blacklist fails open | a revoked token is refused until it expires, through outages; a refresh token buys one pair |
| WebSocket hub | `pkg/realtime/realtime.go` | map of clients, channels `reg`, `unreg`, `bcast`, a `send` per client | `Serve`, `readPump`, `writePump`, `Run`, `closeAll` | channels close while others send; full buffers; stop | no send on or second close of a closed channel; no goroutine left behind while the loop runs; it is known who is left after the stop |
| Rate limiting | `pkg/middleware/middleware.go`, `pkg/ratelimit` | memory maps or Redis keys by client address | `NewRateLimiter`, `Allow` (four), `Clear`, `Validate` | pipelines that interleave; expiry; outage; clean-up | a client gets no more than its quota; a refusal is earned; silence helps |
| SSE | `app/admin/handler/realtime.go` | channel between producer and writer | `SSE` | both goroutines must end with the request | no goroutine left behind |
| Janitor | `pkg/janitor`, `CleanupExpired` | ticker, context | `Start`, `Stop`, clean-up | runs beside `App.Close` | uses no closed database; deletes old rows only |
| Assembly, life cycle | `app/admin/app.go`, `cmd/rocway/main.go`, `wire` | open stores, servers, background tasks | `New`, `Close`, `run` | order of closing; a server that fails to listen | nothing used after it is closed; everything stopped |
| Users | `app/admin/{service,repository,handler}/user.go`, `cmd/seed-admin` | table `users` with a unique index on the user name, soft deletion | register, get, list, rename, delete; `upsertAdmin` | look-up in a replica, then insert; rows that move between pages; columns a statement names and the table has not | a name is given once; a deletion seen everywhere is final; refusals have a cause; a walk through the pages is complete |
| Login log | `app/admin/.../login_log*.go` | table of attempts | append | errors ignored | (nothing reads it) |
| Start: configuration, database, secret | `pkg/config`, `pkg/database`, `pkg/auth` (`New`), `wire`, `cmd/rocway` | viper's settings, the `ROCWAY_` environment, the snapshot, the copy `run` works with; file `configs/.jwt_secret` | `New`, `Load`, `Watch`, `Current`, `Open`, `resolveSecret`, `loadOrGenerateDevSecret` | files that change, are empty or missing meanwhile; two processes in one directory; kills; a database that is not there yet | the secret that is in use is stored; release never generates one; the snapshot follows the environment and the file; a start ends |
| Middleware chain, handlers | `app/admin/app.go` (`NewApp`), `pkg/middleware`, `app/admin/handler`, `pkg/{response,validator}` | the gin context of a request | request id, recovery, log, CORS, HSTS, limiter, timeout, JWT, CSRF, `Bind`, handler | the deadline beside the goroutine that runs the rest of the chain; panics; contexts that are used again; an answer does not end the chain | one answer and one log line each; no effect the answer does not tell of; an answer in time |
| Password rules | `app/admin/dto/rules.go` | none | `passwordCheck`, `translatePassword` | bytes or characters; rules that overlap | what the message asks for is what is missing |
| Storage, notifications, logger, bcrypt, Casbin, scheduler, `rocway-cli` | `pkg/...`, `cmd/...` | little or none | | | thin wrappers, or without a caller |

How they interact: every request passes the global limiter and, for login and health, a route
limiter, then for protected routes the JWT check (blacklist). `Login` runs the lock check, the
password check and either `ClearFailures` and `Issue`, or `RecordFailure`. All share one Redis
and one database handle (primary and, for reads, a replica). The hub and the janitor run as
goroutines started by the application and stopped by `App.Close`.

## 2. Modules

| Module | Models |
|---|---|
| `LoginLock` | the login lock; `MCLoginLock` adds symmetry for TLC |
| `AccountLock` | abstract: an account is open or locked, short or long, until a time |
| `LoginLockProofs` | theorems about both |
| `Tokens`, `MCTokens`, `TokensProofs` | token pairs, blacklist, refresh, logout |
| `RateLimit`, `RateLimitProofs`, `MCRateLimit` | the four limiters and their start-up check |
| `Hub`, `HubProofs` | the WebSocket hub and its pumps |
| `Startup`, `StartupProofs` | the configuration and its reload, `Open`, the loading of the secret |
| `Lifecycle`, `LifecycleProofs` | `run`, `App.Close`, both servers, the janitor, SSE streams |
| `Chain`, `ChainProofs`, `MCChain` | the chain of handlers of a request, the deadline, recovery |
| `Passwords` | the password rules; `MCChain` evaluates what is said of them |
| `Users`, `UsersProofs`, `MCUsers` | the accounts and `seed-admin` over a primary and read nodes |
| `Directory` | abstract: names that have an account, for ever |

They divide the system by what is atomic and by what they share: `Startup` ends where
`Lifecycle` begins; `Chain` leaves open what a limiter, the blacklist or a service decides, and
`RateLimit`, `Tokens`, `LoginLock` and `Users` begin where it calls them; `Hub` and `Lifecycle`
have the routes that stream. Two modules are abstract: `LoginLock` implements `AccountLock`
(`LockPromised`) and `Users` implements `Directory` (`KeepsPromise`).

### LoginLock

One account: every row and key is selected by user name, so accounts share nothing. A state
holds the tables (`failures`, `locks`), what the replica shows (`ro`), the Redis counter and
lock keys with their expiry, whether Redis answers, and for each request goroutine a label and
the local variables the code still needs. Each MySQL call and each Redis call is one action, so
other requests run between any two of them; code between two calls is part of the second.
`GetLock` is `ReadLongKey`, `ReadShortKey`, `QueryLock`, `RefillLock`, used by `Login`
(`CheckLock`) and again by `RecordFailure` (`Recheck`). `RecordFailure` is `WriteFailure`,
`IncrFailures`, `ReadCount`, `CountRows`, `RefillCount`, `Decide`, `Recheck`, `WriteLock`,
`SetLock`. A correct password leads to `ClearRows`, `ClearKey`. Around them: `Tick`,
`SwitchRedis`, `LoseKeys`, `Replicate`, and `Abort`, which is a crash, a client that goes away,
or the end of the request's context (the timeout middleware). A failing MySQL call is a disjunct
of the action that makes it.

The counter's and the keys' expiry is set as the code sets it: `INCR` with `EXPIRE` at every
failure, `SET NX` with the ttl computed before the call. Seconds are the unit of the tables; a
key disappears when `now` reaches its expiry. The two calls of one pipeline are one step here
(`INCR` and `EXPIRE` of the counter); `RateLimit` looks at what happens between them.

### Tokens

A token is an index into the sequence of tokens signed. Requests are the three that meet the
blacklist: a protected route, refresh and logout. `CheckRevoked` is the middleware's or
`Refresh`'s `IsRevoked`; `RevokeOld`/`IssuePair` finish a refresh; `RevokeAccess`/`RevokeRefresh`
a logout. A call of Redis fails while `redisUp` is false: a `Revoke` then stores nothing, and an
`IsRevoked` lets the request pass, which the history field `blind` of the request remembers.
Signatures and claims are abstracted: a client presents only what was signed. Where
the secret comes from is in `Startup`.

### RateLimit

A configuration is drawn from those `Validate` accepts and yields one of the four limiters.
A limiter in memory runs under its mutex: one step. A limiter in Redis sends a pipeline, which
is not a transaction: `Incr`, `Renew` (fixed window), `Trim`, `Card`, `Add` (sliding window) are
steps between which commands of other requests run, and the connection may break. `verdicts`
records the answers; the properties count them. The token bucket belongs to
`golang.org/x/time/rate` and is modelled by what it computes, in integers: `Rate` units flow into
a bucket in a tick, `Token` of them make a token and `Second` ticks a second, so that RPS is
`Rate * Second / Token`, any positive fraction. Zero does not occur: `NewRateLimiter` replaces an
RPS that is not positive by 100 and such a burst by 200 (`middleware.go:198-202`).

### Users and Directory

`history` holds every state the table `users` has had on the primary, and a read node shows one
of them; a statement is one step, on the primary or on any read node, as the code asks for it.
`Register` is `LookUp` (which ignores its error) and `Insert`; `seed-admin` is `LookUpAdmin` and
then `Insert` or `Update`; `UpdateName` is `Find` and `Update`; `Delete` is `Remove`; a client's
walk through the pages is `List` after `List`. The sets of columns decide whether MySQL accepts
an update: `Save` names a column `nick_name`, and `seed-admin` one `name`, that the table does
not have (finding 3). `welcomed` remembers whose creation was reported. `Directory` is the promise without
the table: a name is given once, for ever; the refinement maps it to the names in the table.

### AccountLock

A level, an end and the number of locks so far; a lock may be raised and never shortened or
written anew. `LoginLock` implements it for requests one after the other whose lock checks end
in time (`PromptSpec`): the level is the highest of the rows in force, the end the latest of its
rows, the number that of the rows that were a lock when they were written. `PromptSpec` is the
specification restricted to the executions in which a `GetLock` ends at the latest in the second
after the one it began in; why it is needed is under deviations.

### Chain and Passwords

`Chain(route)` is the sequence of handlers that `NewApp` registers for a route. `req[r]` is a
request: where the server's goroutine is (`main`) and where the goroutine that runs the chain is
(`run`); they are the same goroutine until the timeout middleware starts one of its own. A
handler passes, answers, or answers and aborts; what a limiter, the blacklist or a service
decides is any outcome. `Finish`, `Recover` and `TimesOut` are the ends a request can have. `ctx`
says which `gin.Context` a request works on: gin gives the context of a request that was served
to a later one even if a goroutine of the first is still at work on it. What happens then has no
bounds a model could keep (handlers of either request run, or do not), so such a request is
marked `mixed` and the properties leave it out.

`Passwords` is the rule `password`: a length in bytes and the kinds of characters in it. `MCChain`
states as an `ASSUME`, which TLC evaluates for every password up to its length and kinds, that
doing what the message asks for brings a password further, and that all four kinds are asked for.

### Startup

Several processes in one directory, each with viper's settings, the `Manager`'s snapshot, the
copy `run` works with, and how far `Watch` has got; they share the configuration file, which
somebody may edit, empty, break or remove, the file of the generated secret, and the environment
they are started with. `Decode` is viper's `Unmarshal` with `AutomaticEnv`: for a key that the
file or the defaults name, the `ROCWAY_` variable goes before the file and the file before the
default; a key that neither names keeps what the snapshot had, and its variable is ignored, since
viper asks the environment only for keys it knows. `Fresh` is the snapshot that `New` makes of the
defaults and the environment. `JWT_SECRET` is another variable, read by `Resolve`. `Load`, `Watch`
(start of the watcher, then of the callback), `Open` (one attempt of `openWithRetry`),
`Resolve`, `ReadSecret`, `WriteSecret` (which empties the file and then writes), `Serve` are the
steps of a start, `Reload` the watcher's. `Fail` kills a process at any step. Three keys stand for
all: one with a default, one without that may be left out, and one that is required.

### Hub

The loop's `select` is one action per case (`HubRegister`, `HubUnregister`, `HubBroadcast`,
`HubStop`), because only the loop touches the map and the sends. Each client has a reader
(`Serve`, then `readPump`) and a writer (`writePump`); a channel operation that may block is a
guard on the capacity. `HubStop` is `closeAll`: it receives one buffered message or closes the
channel, then closes the connection. Message contents are left out; `pingAll` ignores its errors
and changes nothing; `Broadcast` has no caller.

### Lifecycle

`main` is the place `run` has reached: `InitApp` and the start of the servers, the `select` on
the signal and `errCh`, the steps of `App.Close` (`StopTasks`, `CloseStores`) and one `Shut` and
`Drain` per server, which share the deadline `late`. A request holds a connection of a server
(`conn`), a handler and, if it is a stream, a channel and its producer. `ended` is its context;
net/http ends it when `ServeHTTP` returns. `owner` is what `c.Request` is for its goroutines:
gin keeps contexts in a pool, so that a producer that reads `c.Request.Context()` after the
handler returned may watch another request (`watched`). The janitor is its `select` and one
clean-up. What `Close` does to the hub and the limiters is `HubStop` of `Hub` and `Clear` of
`RateLimit`; hijacked connections are not waited for. Once `Over`, the process is gone with all
its goroutines.

## 3. Runs

Deadlock is checked in every run: the explicit `Quiet` steps are the only
states in which nothing is left to do. Bounds are constants named `Max...`.

| Run | Instance | Shows |
|---|---|---|
| `LockSequential` | one request at a time, Redis up, prompt lock checks, 3 logins within 6 seconds, thresholds 1 and 2, a lagging replica, one failing MySQL call | types; until a call fails, the count a request reads covers every failure of the window; a lock key has a row behind it; the lock is what `AccountLock` promises: never shortened, never written anew; a long lock is reported first |
| `LockFaults` | 2 concurrent requests, 3 logins, Redis present or absent from the start, one Redis fault, one abort | a lock row in force stops every login that began after it; a lock key has a row behind it; if nothing failed, a threshold's worth of failures has left a lock |
| `TokensConcurrent` | 2 requests, up to 3 in all, one outage, one loss of keys, one abort | types (a ttl is never negative); a revoked token is refused, through outages, to whoever is checked by a Redis that answers; a revocation outlives its token |
| `TokensRefreshTwice` | 2 refreshes of one token | **violation** of `BuysOnceWhileValid` |
| `RateQuota` | every accepted configuration, 2 requests at a time, 2 clients, 2 instances, 4 requests in 5 ticks, two units to a token, one outage | types (no bucket overdrawn or overfull); quotas; refusals in memory are earned; silence helps |
| `HubLife` | 2 clients, 3 messages, every channel with room for one, stop at any moment, fairness | no panic; connections closed at the stop; the pumps of a client lost while the loop runs end; after the stop all pumps end but the readers that wait for room in `bcast` or `unreg` |
| `ServiceLife` | 2 requests of either kind on either server, HTTPS on or off, a channel of 1, fairness | types; a return in time leaves no client without an answer; the process ends; the goroutines of a stream end |
| `DrainWindow` | 1 request and a signal | **violation** of `DrainWindow` |
| `UsersLife` | 2 requests at a time, 4 in all, of any kind, no, one or two read nodes that lag, one failing statement | types; a deleted user stays out; a registration's refusal has a cause; a walk through the pages is complete; the refinement of `Directory` |
| `UpdatesRefused` | 2 requests at a time, 3 in all, one read node | **violation** of `UpdatesAccepted` |
| `StartupLife` | 2 processes, 3 starts, 2 attempts to open the database, one edit of the file, one kill or outage, four environments, fairness | types; a generated secret in use is stored; release never generates one; the snapshot follows the environment and the file; a start ends |
| `ChainLife` | 2 requests of any route, debug and release, with and without a deadline, fairness | types; one answer and one log line; no effect the answer does not tell of; an answer in time; the password rules |

Why these bounds are enough for the questions asked:

- `LockSequential`: with thresholds 1 and 2, two failures lead to the long lock and a third login
  meets it, or comes after a right password has cleared them; 6 seconds see a short lock (1 s)
  expire, a long one (5 s) reach its end, and the window (3 s) slide past the first failure. The
  replica may lag behind each row, and a call may fail at each place. Only one request runs at a
  time because two concurrent ones break `LockPromised`, and so do slow lock checks (see
  deviations): with `Spec` TLC finds one that does, so the premise of `PromptSpec` matters within
  these bounds. About 3.1 million states.
- `LockFaults`: two requests are the least that interleave; the third login starts after a lock
  was written, which is what `LockEnforced` is about. The thresholds are 1 and 2 so that both
  levels are reached.
- `TokensConcurrent`: a use, a refresh and a logout of one pair in any combination, while the
  access token (1 s) and then the refresh token (2 s) expire, the latter also between the check
  and the revocation. The logout's ttl (2 s) is at least the access token's life, as 24h is with
  the default configuration.
- `RateQuota`: a limit of 1 and a burst of 2 are passed by 4 requests; with two units to a token a
  tick fills a bucket by a fraction of a token; the clean-up happens when
  the second client comes after `Idle` (3 ticks); the sliding window and both fixed windows
  elapse within `MaxTime`.
- `HubLife`: every channel has room for one. Two clients fill `reg` and `unreg`; two messages fill
  `bcast`, or a `send` so that a broadcast drops its client, and with the third a reader waits for
  room while the loop runs, or when it has gone.
- `ServiceLife`: two requests are the least in which one takes over the gin context of another,
  or in which both servers have somebody to wait for; more only repeat this. A channel of 1 is
  empty and full.
- `UsersLife`: two read nodes are the least that differ; four requests let two registrations
  race and a deletion and a listing follow. Page sizes 0 (which means `DefaultSize`, here 1) and 2
  cut the table inside and at its end.
- `UpdatesRefused`: a seed creates the administrator, a second seed and a rename find it.
- `StartupLife`: a third start is a restart of one process while the other runs, after a kill
  between the emptying and the writing of the secret. Two attempts are a first and a last one. One
  edit is a change of any kind, at any step of either process. The environment sets the mode to
  release or leaves it to the file, and sets both host and (too short a) secret or neither;
  a variable that sets the mode to debug is in the theorems only.
- `ChainLife`: two requests are the least in which one takes over the other's context. Every
  route meets every middleware it is registered behind. About 1.1 million states.

Symmetry is used only in runs without liveness properties, over request goroutines (and client
addresses), which the models treat alike.

## 4. Fairness

`HubLife` assumes weak fairness of
each pump's steps and of each case of the loop's `select`: Go chooses at random among the ready
cases, so a case that stays ready is taken with probability 1. A read from a peer that went away
fails at the read deadline (`ReadError`), a ping at the write deadline (`PingFails`). Nobody has
to connect, to send, to leave or to stop the server. `ServiceLife` assumes weak fairness of
`run` and of the deadline, weak fairness of the writer of a stream and strong fairness of its
producer's end: its ticker and its context may both be ready and the ticker be chosen, but not
for ever. No client has to leave and no handler of a plain request has to return. `StartupLife`
assumes weak fairness of the steps of a process that starts; the database need not come back,
since the attempts are counted. `ChainLife` assumes weak fairness of the server's goroutine, of
the deadline's timer and of a limiter, whose Redis calls have timeouts of their own; no service
has to return.

## 5. Theorems

All for every value of the constants that satisfies the named `ASSUME`s of the modules.

| Theorem | States | Argument |
|---|---|---|
| `LoginLockProofs!TypeCorrect` | types | `TypeInv` adds that a request that will write a lock has counted enough failures for one (`Escalates`), else its level would have no type |
| `LoginLockProofs!Enforced` | `LockEnforced`, if there is no replica and MySQL calls do not fail | `EnforceInv` adds that a key never expires before it is read as live (`KeysAlive`), that reads see the primary, and, for each place inside `GetLock`, what the steps so far have excluded (`Protected`) |
| `LoginLockProofs!KeysBacked` | `LockKeyBacked`, under every fault | `KeyInv` adds the dates of the rows, that the replica shows a prefix of the primary, and that a key about to be set is backed however long the request waits (`Pending`) |
| `LoginLockProofs!ThresholdsLock` | `ThresholdEnforced`: any number of concurrent requests with wrong passwords, or any passwords one at a time | `CountInv`: the counter lacks at most the failures about to be counted and lives as long as those it has seen are recent (`Backlog`), and who asks for it finds it (`CounterFound`); on top of it, from the failure that completes a threshold on, there is a lock or a request that heads for one (`Followed`, `Heading`) |
| `LoginLockProofs!CountsCover` | `CountCoversRows`, which is about executions up to the first fault | from `CountInv`, for the one request that is `Alone` |
| `LoginLockProofs!LongBeforeShort` | `LongFirst`, one at a time, through failing queries | `SeqInv`: every row in force is covered by a key (`Covered`), a level has one row in force and no short one outlasts a long one (`OneRow`), and a key that a request missed is still missing (`Alert`) |
| `LoginLockProofs!PromiseKept` | `LockPromised`: `LoginLock` implements `AccountLock`, under the same conditions | by `SeqInv`, a row is written only where none of its level or a higher one stands (`PromiseRow`), and a second that passes ends a lock only at its end (`PromiseTick`); every other step is a stutter |
| `TokensProofs!TokensTyped` | types | with `Sound`: what a request holds was signed, and the ttl it is about to use covers the rest of the token's life |
| `TokensProofs!KeysOutliveTokens` | `KeyOutlivesToken`, if `AccessTTL <= LogoutTTL` | `KeyInv`: no access token is valid for longer than `AccessTTL` from now (`AccessShort`), so the logout's fixed ttl covers it |
| `TokensProofs!RevokedAreRefused` | `RevokedRefused`, if `AccessTTL <= LogoutTTL`: through any outages, until Redis loses keys | `KeysOutliveTokens` says that the key is still there when the check looks; the check misses it only if Redis does not answer that very call, and then the request is `blind` |
| `RateLimitProofs!LimiterTyped` | types: no bucket overdrawn or overfull | `Sound`: what a request in a pipeline holds and which limiter it is in |
| `RateLimitProofs!QuotasKept` | `QuotaKept`, for all four limiters | `BucketQuota`: what was spent since any time, and what is left, is at most a full bucket and what flowed in; `FixedQuota`: a span of a window touches two epochs of the counter at most, each with at most a limit; `SlidingQuota`: what was let through in a second is in the sorted set or under way; requests have different ids (`Distinct`) |
| `RateLimitProofs!RefusalsEarned` | `MemoryRefusalsEarned` | `EarnedInv`: what an entry of the map has counted or spent was let through, at every time since |
| `RateLimitProofs!SilentClientsAdmitted` | `SilenceHelps`, until a pipeline breaks off, for every positive rate (but one below 2/3 in Redis, see deviations) | `SilenceInv`: no entry is younger than its client's last request (`Aged`), and a request that came after silence is its client's only one (`Alone`) and finds nothing at any place of its pipeline (`Fresh`) |
| `HubProofs!HubTyped` | types, capacities | |
| `HubProofs!NoPanic` | `RegisteredOpen` | `HubInv`: a client waits in `reg` once and before the loop knows it (`Waiting`); only a client that joined and left has a closed channel (`Channels`) |
| `HubProofs!HangsUp` | `StoppedHangsUp` | `Left`: who leaves the map hangs up itself or is hung up by `closeAll` |
| `LifecycleProofs!LifecycleTyped` | types, `errCh` has room for every message | a server that may still fail has not sent yet (`Silent`) |
| `LifecycleProofs!JanitorSparedAlways` | `JanitorSpared` | `Order`: the database is open as long as `run` serves, and the janitor is cancelled before it is closed |
| `LifecycleProofs!Answered` | `AnsweredBeforeExit` | `Drained`: a server that is closed gets no new request, so what the first drain emptied stays empty during the second |
| `UsersProofs!UsersTyped` | types | with the growth of `history`: a row is never lost (`Grows`), so what a request has seen still has a row |
| `UsersProofs!OneWelcomeEach` | `OneWelcome`: no two creations of one name are reported | the unique index: the rows of every state have different names |
| `UsersProofs!DeletionIsFinal` | `DeletedStaysOut` | no read goes back behind the state that the oldest node showed at arrival, and a deleted row stays deleted in later states |
| `UsersProofs!RefusalsHaveCause` | `RefusalsEarned` | a registration that was told of no user saw none in state `ver` |
| `UsersProofs!WalksComplete` | `PagesComplete` | `WalkInv`: with one place to read from, a walk never goes back (`Walking`); a user of the first page's state that is not seen is on a page to come (`Ahead`), a seen one on a page before (`Behind`), as a deletion or a new row is the only thing that moves one |
| `UsersProofs!PromiseKept` | `KeepsPromise`: `Users` implements `Directory` | initial states map to initial states; each step maps to `Join`, `Leave` or a stutter, by the uniqueness of names |
| `StartupProofs!StartupTyped` | types | the attempts stay below `MaxTries` |
| `StartupProofs!SecretIsStored` | `SecretStored` | `SecretInv`: while one process replaces the secret there is none, and who has read or written one holds the one in the file |
| `StartupProofs!NoGeneratedRelease` | `ReleaseNeverGenerates` | `Sound`: a copy with a host has been read from the file, whatever the environment says of the host, so it has the mode of the environment or else of the deployment; who has opened the database has a host. This is why the defaults' mode, debug, does no harm |
| `StartupProofs!SnapshotFollows` | `SnapshotCurrent` | a snapshot follows the environment and the file unless an event is left or a change was missed (`Follows`) |
| `ChainProofs!ChainTyped` | types, indices in the chain | |
| `ChainProofs!OneAnswerEach` | `AnsweredOnce` | `ChainInv`: who answers has aborted, or is the last of the chain (`Chaining`), so that the chain ends; before the deadline nothing else ends it (`Unspoiled`) |
| `ChainProofs!NoUnearnedEffect` | `EffectsEarned` | only the last handler calls a service, after which the chain is at its end; after the deadline (`Cut`), a chain found inside a middleware is aborted; one found between two handlers may go on |

Assumptions: a valid `LockPolicy` (`NewLockService` panics on any other), positive durations and
capacities, and natural numbers for the bounds, as the modules name them. Hypotheses of single
theorems:

- `Enforced`, `KeysOutliveTokens` and `RevokedAreRefused`: those in the table.
- `ThresholdsLock` and `CountsCover`: finitely many requests at a time; the window is at most the
  24 hours the counter lives (it is by default, `app.go:81`); no replica, unless Redis is up from
  the start (without Redis the rows are counted in the replica); wrong passwords only, or one
  login at a time, since a right one beside a failure loses a count between `ClearRows` and
  `ClearKey` (see deviations); and `CountedInADay`, a condition on executions: no request waits a
  day between its failure's `INCR` and the `GET`, or the counter may be gone.
- `LongBeforeShort` and `PromiseKept`: one login at a time, a Redis that stays up, no request that
  stops half way (a stop between row and key leaves a lock that only the table knows), lock checks
  that end in time. Queries may fail, keys of Redis expire, and there may be a replica.
- `QuotasKept`: finitely many requests at a time, and a bucket that fills up within the time after
  which an idle one may be dropped (`Burst * Token <= Rate * (Idle + 1)`).
- `WalksComplete`: finitely many replicas. That there is one place to read from is a premise of
  the property.

The symbol `!` only names the module.

Model-checked only: liveness (`LostEnds`, `StoppedEnds`, `ProcessEnds`,
`StreamEnds`, `StartsEnd`, `AnsweredInTime`), which needs fairness and so `ENABLED`. Every
other property of a passing run is stated by a theorem. The password rules are evaluated by TLC.

## 6. Findings

1. **A refresh token buys two pairs** (`TokensRefreshTwice`). `auth.go:10` and `:225` promise
   rotation against replay; `Refresh` checks and revokes in two calls.
2. **Stores closed before the drain** (`DrainWindow`). `app.go:226` says that the stores are
   closed last so that work can drain, and `main.go:119` that slow requests get time to finish;
   `run` calls `App.Close`, which closes them, before it shuts the servers down.
3. **No update of a user is accepted** (`UpdatesRefused`). `repository/user.go:45` promises to save
   every column, `service/user.go:112` that a rename changes the nickname, and `seed-admin`
   (`main.go:18`) that a second run updates the administrator. The one statement names a column
   `nick_name`, the other `name`; the table has `nickname` (`model/user.go:19`,
   `rocway.sql:141`), and MySQL refuses both.

## 7. Known deviations without a run

Met while modelling; each is what the code does, and the models do it too where they cover it.

Login lock, limiters and tokens:

- Two concurrent failures may each write a lock of the same level, or, counted 1 and 2, the long
  one first and the short one after it, while `service/login_audit.go:115` says an existing long
  lock is left alone (`LockPromised` excludes both for one request at a time).
- A fixed window need not end: `middleware.go:118` and the design document
  (`.trae/specs/2026-06-25-login-security-design.md:101`) describe N requests per window, the
  expiry set at the first; the code sets it at every request, refused ones included, so a client
  that asks steadily, one request more often than it may, stays refused.
- After an outage, lost keys, or a failure recorded between `ClearRows` and `ClearKey`, the Redis
  counter is smaller than the number of rows, and is believed: the lock comes later. This is why
  `ThresholdEnforced` has its premise, and `ThresholdsLock` its hypothesis about right passwords.
- `LatestActiveLock` (`repository/audit.go:177`) adds what is left of a key to the time at which
  the check began. A check that takes several seconds reports the wrong end, and
  takes a lock that is nearly over for one that is: a second long row may then be written, while
  `SET NX` keeps the old key. This is why `LongFirst` and `LockPromised` are
  about checks that end in time (`PromptSpec`).
- A failure that is exactly a window old is a row of the window, while its count in Redis, which
  lives 24 hours as the default window does, may be gone in that second. `ThresholdEnforced` and
  `CountCoversRows` are about failures less than a window old.
- `IncrWithTTL` (`cache.go:129`) documents an expiry set only for a new key; the body sets it
  every time, as its own comment admits. The count may include failures older than the window.
- A short and a long row of the same second, read from the table, are ordered by primary key:
  the short one wins.
- Both stores failing means "not locked": the documented choice of `login_audit.go:85`.
- `Refresh` revokes the old token before it issues the new pair: a client whose refresh stops in
  between holds nothing. It never asks whether the user still exists.
- In the last second of a refresh token the remaining time can be zero and the token is not
  revoked; it can buy a second pair in that second.
- A logout whose second revocation fails answers 200, and the refresh token goes on buying pairs
  (the access token stays refused, which is `RevokedRefused`); the blacklist reads an error as "not
  revoked"; an access life configured above 24h outlives the logout's revocation.

- `memoryLimiter` (`middleware.go:323`) drops a bucket that was idle for ten minutes, whether full
  or not: with `burst > 600 * rps`, which `Validate` accepts, a client gets a full bucket before it
  has earned it. The defaults are far from that; `QuotasKept` has the hypothesis.

Hub:

- `realtime.go:107-109` says that stopping leaks no goroutine; after `Run` returned nobody reads
  `bcast`, `unreg` and `reg`. A `readPump` that waits for room at `hub.bcast <- msg` (`:208`) or at
  the deferred `hub.unreg <- c` (`:194`) then waits for ever, although its connection was closed,
  and so does `Serve` at `hub.reg <- client` (`:186`). In the code the channels have room for 64,
  16 and 16: it takes that many messages, or that many clients that leave, and one more. `StoppedEnds`
  says that nothing else is left; a client that loses its connection after the stop may be left in
  the same way, so that `LostEnds` is about a loop that runs.
- `closeAll` skips the close of a `send` channel that holds a message; the connection is closed
  all the same, which is what ends the pumps. An `unreg` handled before the client's `reg` leaves
  the client in the map.

Limiters in Redis:

- A pipeline that breaks off between `INCR` and `EXPIRE` leaves a counter without expiry. The
  sliding window counts refused requests, and truncates `rps * 1.5` to an integer: for an rps below
  2/3, which `Validate` accepts, the limit is 0 and every client is refused for ever, whatever
  its silence (`RefusesAll`, which `SilenceHelps` leaves out). The memory fixed window never removes entries, and the clean-up function of a route
  limiter is dropped by `NewRoute`.

Users:

- The registration handler drops the user name, so every registration over HTTP has the name ''.
  The unique index lets one of them succeed, and nobody can log in with that name. A deleted
  user's name stays in the index: a deleted administrator cannot be created again.
- A listing reads the count and the page from replicas that may differ, and echoes the page and
  size it was given, not those it used.

Start and configuration:

- `cmd/rocway/main.go:48` says that the program runs without a YAML file, with defaults; without
  a host `DSN` panics.
- `configs/config.yaml:1` says that every field can be overridden by a `ROCWAY_` variable. viper
  looks at the environment only for keys that the file or a default names, so that the variables
  of `docker-compose.yml:14-21` do nothing without a file that names the database: the process
  panics for want of a host.
- `docs/architecture.md:21` promises hot reload; nothing but a log line uses the new snapshot. A
  key that is removed from the file and has no default keeps its old value; a file that is
  emptied by an editor before it is written flips the snapshot to the defaults meanwhile; after
  the file was removed it is watched no longer; an edit between `Load` and `Watch`, or before the
  callback is set, is missed.
- Two starts that overlap may both generate a secret, and one then works with a secret that is in
  no file (`auth.go:135-136`); `SecretStored` leaves out this case (`raced`).

Chain:

- `timeout.go:4` says that the handler is interrupted; its goroutine goes on, and so may the
  chain, if the deadline falls between two handlers. A panic after the deadline is logged
  nowhere, although `Recovery` promises to log every panic in full. The context may be given to
  another request meanwhile (`mixed`).
- The password rule "at least three kinds" asks for nothing, as all four kinds are asked for; its
  message is never shown.

Janitor and shutdown:

- Janitor: `CleanupExpired` compares `created_at`, a unix second, with a `time.Time`.
- Shutdown: nobody waits for the janitor, whose clean-up may meet the closed database (after it
  was cancelled, which is `JanitorSpared`). Streams are not told to end, so an open one makes the
  drain last its 30 seconds. HTTP and HTTPS are drained one after the other, where `main.go:126`
  says concurrently. When a server cannot listen, `run` returns without `App.Close`; the cleanup
  that `wire.go:27` says closes everything is an empty function.
- A producer of a stream that had just taken a tick when its client left may go on until the
  request that took over its gin context ends; `StreamEnds` has this exception.

## 8. Not modelled, and why

- Scheduler and storage: they have no caller in the application. Notifications and the login log
  are written and never read, and their errors ignored. Logger, bcrypt, response formats and
  error codes, Casbin's policies (loaded, and asked by no route), `rocway-cli`: no state of their
  own or nothing that depends on order.
- Of the chain: request id, HSTS and the other headers, which decide nothing. What a route limiter
  keeps is in `RateLimit`, what the blacklist keeps in `Tokens`.
- Of forms, the single rules but for the password's: `Bind` is any of its outcomes.
- Which rows the janitor deletes.
- Inside MySQL, Redis, GORM, gin, gorilla/websocket, viper, `x/time/rate`: modelled by what the
  code relies on.
- Time is discrete and instances agree on it. The sliding window is modelled with pipelines
  shorter than a tick and without two requests in one nanosecond.

## 9. Plan

Done, in this order: `LoginLock` (the most important behaviour and the most interleavings),
`Tokens`, `Hub`, their proofs, `RateLimit`, `Lifecycle` and its proofs; then `Users`, `Directory`
and the proof of the refinement, `AccountLock`, `Startup` and its proofs, `Chain`, `Passwords` and
the proofs of the chain; then the proofs of the limiters, of the walks through the pages, that
enough failures lead to a lock, and that `LoginLock` implements `AccountLock`.

Left:

1. An abstract `Revocation` (a set of revoked tokens), implemented by `Tokens` until the first
   fault.
2. The rows the janitor deletes, as a function of their dates.
