# TLA+ verification of caslink

caslink is a URL shortener: a server written in Go over two SQL databases
(`server.db`, `users.db`), with a background scheduler shared by the nodes of a
cluster, custom domains, organizations, invites, two-factor login, an
administration panel and a command line; and web pages with one script,
`app.js`, and a service worker, `sw.js`. This directory holds TLA+ models of the
parts of it whose correctness depends on interleavings, failures and restarts,
in the server and in the browser, the TLC configurations that check them, and
TLAPS proofs of what matters most.

Every definition is a translation of the source; `PROJECT.json` ("map") names
the lines each one stands for. Paths below are relative to `src/src/`, those of
the scripts to `src/src/server/tmpl/static/`; `AI.md` is the specification at
the root of the repository.

- [Inventory](#inventory) of the system, modelled or not
- [Conventions](#conventions) common to all models
- [Scheduler](#scheduler), [CustomDomains](#customdomains),
  [ShortLinks](#shortlinks), [ServerConfig](#serverconfig): the server
- [ServiceWorker](#serviceworker), [Page](#page), [PageRequests](#pagerequests):
  the browser, and what the pages ask of the server
- [Counterexamples](#counterexamples) to what comments and documents say
- [Limits](#limits): what is only model-checked and what is left out
- [Plan](#plan)
- [Running it](#running-it)

## Inventory

### How the parts interact

`main.go` loads `server.yml` (`config/`), opens the databases (`server/store`),
starts the scheduler and serves HTTP. Requests run concurrently, one goroutine
each, through middlewares (rate limiter, CSRF, headers) into handlers
(`server/handler`), which call services (`server/service`), which execute SQL.
There are no application-level transactions around most multi-step operations
and, with few exceptions, no locks: what protects the data are UNIQUE
constraints, guarded UPDATEs and the order of the statements. SQLite runs with
one connection, so single statements are serialized; a remote database is
shared by several nodes through a pool.

The pages are rendered by the server and work without scripts. `app.js` runs on
each of them, one handler at a time, and gives forms a confirmation dialog,
buttons their effect and some requests a background `fetch`; timers, promise
reactions, queued events and answers run its later halves when the page may have
moved on. The tabs of a browser share cookies, localStorage and Cache Storage,
where `sw.js` keeps the static files. No template registers `sw.js`; it is
modelled as the pages would use it.

Shared state between the parts:

| state | written by | read by |
|---|---|---|
| `scheduler_tasks` (server.db) | scheduler of every node | scheduler of every node, admin panel |
| `urls`, `clicks` | requests, click workers, `expire_urls`, GraphQL, bulk import | requests |
| `custom_domains` | requests, the `domain_verification` task, certificate renewal | Resolve (through a cache per process), TLS handshake |
| `server.yml`, `config.Config` in memory | main, admin handlers, the command line | everything; the encryption key in it seals TOTP secrets and DNS credentials |
| `config` table | the settings pages | `APIConfigMaintenance` only |
| users, sessions, invites, tokens, organizations | requests | requests |
| cookies `csrf_token`, `wa_reg_session`, `cookie_consent` | answers of the server to any tab | every request of any tab |
| cookie `theme`, localStorage `cl_theme` | `app.js` of every tab | `app.js`; the server, which is to read the cookie, does not |
| passkey ceremonies (memory of the server), `passkey_credentials` | requests | requests |
| Cache Storage | install and fetch events of the workers | fetch events |

### Components

Status: **M** modelled here (with the omissions its section names), **P**
planned, **-** not to be modelled.

| component | state | operations | hard behaviour | what makes it correct | |
|---|---|---|---|---|---|
| Scheduler (`scheduler/`) | tasks in memory per node; table with due times and the cluster lock | Start, tick, Run Now, enable/disable, run, retry, record, Stop | nodes race for the lock, die with it, overrun it; Run Now races the ticker; statements fail | one run at a time, no task stuck, due runs not lost, critical tasks never off | M |
| Custom domains (`server/service/domain.go`) | `custom_domains`, resolve cache per process | add, verify, retry sweep, cleanup, suspend, unsuspend, delete, resolve | check then act over a DNS lookup of seconds; caches filled with stale rows; restarts | unique names, verified and served only by proof, caches converge, pending claims end | M |
| Short links (`server/handler/url.go`, `service/url.go`) | `urls`, `clicks`, click workers | create, redirect, update, delete, expire, record click | check and statement are apart and go by code; a code changes hands | unique codes, only owners change, redirects pass the checks, clicks belong to their link | M |
| Server configuration (`config/`, `admin_auth_providers.go`) | `server.yml`, memory of each process, encryption key | load, save, overrides, provider edits | unlocked edits of one shared struct; non-atomic file write; a second process loads and writes | the key survives, secrets encrypted beside their key, edits survive | M |
| Application script (`js/app.js`) | dialog, timers, prompts and inputs of a page; cookies and localStorage of the browser | handlers, timers, promise reactions, requests | close events dispatched after the next question; texts remembered by timers; two tabs at once; answers lost, late or refused; expired cookies | a form is sent exactly when its question was confirmed, widgets return to rest, what a request achieved is what the page says | M |
| Service worker (`sw.js`) | caches of the browser | install, activate, fetch | installs that fail half-way; a replaced worker that stores late; error answers stored | the shell is always there, nothing older than the worker, open pages catch up | M |
| API documentation (`swagger/static`) | none | - | vendored bundle | - | - |
| Settings pages (`admin_config.go`) | `config` table | form per page | key by key, random order, stops at the first error; nothing reads it back | what is saved is what is in force | P |
| Domain certificates (`domain_ssl.go`, `acmedns`, `ssl`) | certificate columns, cache per process | configure, issue, renew, handshake lookup | purge races fill; renewal races deletion | a handshake gets the certificate of the current row | P |
| Organizations (`org.go`, `namespace.go`) | organizations, members, roles | create, transfer, remove, change role | last owner checked before the DELETE; names shared with users without a common constraint | always an owner; one holder per name | P |
| Accounts and sessions (`auth.go`, `auth_user.go`) | users, sessions, reset tokens | register, login, reset, suspend | COUNT then INSERT of the first administrator; reset in three statements | one primary administrator; a reset ends all sessions | P |
| Invites (`invite.go`) | invites | issue, consume | account first, consumption later | an invite admits one | P |
| Two-factor login (`totp.go`, `webauthn.go`) | two tables | enrol, verify, recovery keys, passkeys | read-modify-write of lists and counters; a ceremony in a cookie all tabs share | a recovery key works once; an authenticator is registered once | registration: M (PageRequests), rest: P |
| API tokens (`token.go`) | tokens | issue, validate, revoke | - | unique names | P |
| Cluster join tokens (`cluster.go`) | join tokens | issue, join | two nodes present one token | a token admits one node | P |
| Link options (`url.go`) | none | geo, device, UTM, visibility, expiry | boundaries | agree with a reference definition | P |
| Cron expressions (`cronexpr.go`) | none | parse, next | months without the day, both day fields | first matching instant, or none | P |
| Rate limiter (`middleware.go`) | buckets per client | allow, sweep | a bucket is removed while a request holds it | never more than the limit per window | P |
| HTTP server (`server.go`, `main.go`) | listeners, request-rate ring, certificate cache | start, stop | databases close before requests drained | order of shutdown, counts not lost | P |
| Backup and retention (`backup/`) | archives, manifests | create, retain, restore | two renames; overlapping retention sets | the newest backup survives | P |
| Store (`server/store/`) | schema | open, migrate | - | constraints appear in the models of their tables | - |
| Analytics, QR, audit (`analytics.go`, `qr.go`, `audit.go`) | image cache | reads, one INSERT | - | - | - |
| Bulk import/export (`bulk.go`) | none | create links one by one | takes ShortLinks' steps | - | - |
| GraphQL (`graphql/`) | none | mutations take ShortLinks' steps | parser is a function of the text | - | - |
| Trusted proxies (`trustedproxy.go`) | an address list | replaced whole under a lock | - | - | - |
| External login (`extauth.go`) | none | connection tests | network | - | - |
| GeoIP, Tor, e-mail | readers / child process / none | download, control, send | external | - | - |
| Metrics, logs, API description | counters, files | append | - | - | - |
| Updater, service manager, PID file | files of one host | command line | - | - | - |
| Client (`client/`) | its own settings | REST calls | a separate program | - | - |
| Presentation (`common/`) | none | terminal, colours, translations | - | - | - |

The bodies of the scheduler's tasks belong to the component each works on:
`expire_urls` to ShortLinks (`ExpireURLs`), the two sweeps of
`domain_verification` to CustomDomains (`RetrySweep`, `Cleanup`).

## Conventions

- **Steps.** A SQL statement is one atomic step. A method that executes several,
  or waits for DNS in between, is several steps of one request; what a handler
  does between two statements is part of the step before them. A request is a
  program counter and its local variables; it may be cancelled (`Abort`) between
  any two steps.
- **Browser.** A handler runs to its end before the next: it is one step, with
  all it calls. What it leaves behind (a timer, a queued event, a promise
  reaction, a request) is a step of its own, at any later time. Two tabs may run
  in two processes, so between two of their accesses to shared storage anything
  may happen. Reading or writing one cookie or item, and one promise reaction of
  the worker, is a step.
- **Exception.** `Encrypt` in ServerConfig is one step for the loop of
  EncryptSecrets over the sections in memory: only an edit that overlaps could come
  between two iterations, and of overlapping edits the properties promise no more
  than that no other key is used.
- **Crashes.** A process may die and start again between any two steps; memory
  is lost, tables and files stay.
- **Time** is relative: a timer is a distance from now, so that time has no
  horizon and no bound on it is needed. `Advance` or `Tick` moves it.
- **Data** is reduced to what a property tells apart: the id of a row stands for
  its random token, the port for all settings the environment overrides.
- **History variables** (marked "history:") are never read by a guard.
- **Bounds** are constants that appear in guards: `MaxGoroutines`, `MaxId`,
  `MaxFollows`, `MaxOps`, `MaxRelease`, `MaxCeremony`, `MaxTimers`, `MaxSent`,
  `QueuedClicks`. They limit the instance, not the program.
- Below the properties of the runs a `Props` module states what comments and
  documents say and the code does not keep: see
  [Counterexamples](#counterexamples).
- A module `X` has its properties in `XProps`, its instance in `MCX` and its
  proofs in `XProofs`. Operators named `Definition_Something` just before
  `Definition` are plausible bugs of it: used in its place, they break the
  property named beside them in `PROJECT.json` ("mutants").

| module | theorems in | abstract specification | runs |
|---|---|---|---|
| `Scheduler` | `SchedulerProofs` | `ClusterTask` | SchedulerCluster, SchedulerLocal, SchedulerLive |
| `CustomDomains` | `CustomDomainsProofs` | `DomainClaim` | DomainsRace, DomainsLive, DomainsVisible |
| `ShortLinks` | `ShortLinksProofs` | - | LinksRace |
| `ServerConfig` | `ServerConfigProofs` | - | ConfigRace |
| `ServiceWorker` | `ServiceWorkerProofs` | - | Worker |
| `ConfirmForms` | `ConfirmFormsProofs` | `AgreedForms` | (in Page) |
| `Page` = `ConfirmForms` + `PageWidgets` + `Theme` | `PageProofs` | `AgreedForms` | Page |
| `PageRequests` | `PageRequestsProofs` | - | Requests, RequestsRefresh |

## Scheduler

`scheduler/scheduler.go`, `scheduler/admin.go`.

**State.** Per node: `phase` (life cycle of the process), `load` (progress of
`loadOrInitTaskState` per task), `loop` (the ticker goroutine), and of each task
in memory `enabled`, `running`, `nextRun`, `attempt`. Per task: the row
(`rows`, `rowEnabled`, `rowNext`) and its lock columns (`lock`). `pc[n][t][k]` is
the step of the k-th goroutine of task t on node n; `toggles` are the calls of
`SetTaskEnabled` between memory and table.

**Actions.** Start is `BeginStart`, then `LoadTask`, `InsertTask` or `SyncTask`
for each task (and `SkipMissed`, the UPDATE of a task whose window was missed),
then `EndStart`; `TickTask` and `RunNow` spawn a goroutine, which
is `AcquireLock` (or `BeginLocal`, or `SkipRun` when a peer holds the lock),
`FinishRun`, `RecordRun`, `ReleaseLock`, `EndRun`. `ToggleMemory` and `ToggleRow`
are the two unordered halves of `SetTaskEnabled`. Stop is `Stop`, `LoopExit`,
`EndWait`, `ForceRelease`; `Down` is the end or the crash of the process, which a
member of `Nodes` with the same id ("hostname-pid", PID 1 in a container)
follows.

**Time.** A cron expression is a period on a common clock: `CronNext` is the
distance to its next slot. The tasks of `Every` are scheduled with `@every`, which
counts from the end of the last run; an expression that matches nothing within a
year is one of them too, since `Next` then falls back to a minute from now.

**Operating rules.** What the cluster lock can protect depends on how the
cluster is run. Four constants say what may happen: a node starts while another
executes a global task (`StartAnytime`), a run lasts longer than the lock timeout
(`LongRuns`), Stop gives up waiting (`SlowStop`), Run Now arrives after Stop
(`LateRuns`). `Disciplined` is that none of it happens. `Failing` is the set of
SQL statements that may fail, `Hanging` the tasks whose job may never return.

**Runs.** Cycle 2, period 2, retry delay, catch-up window and lock timeout 1, at
most 2 goroutines per task: a run may end before or after the next slot and
before or after its lock is stale, a due time may be within or beyond the
catch-up window, and the ticker and Run Now have a goroutine each. Two nodes are
enough for every race on the lock; a third only repeats the second's part.

| run | instance | shows |
|---|---|---|
| SchedulerCluster | 2 nodes, a critical global task, one retry, Run Now, toggles, five failing statements, the operating rules | `OneRunPerNode`: the ticker and Run Now never run a task twice in a process. `OneExecutor`: the scheduler implements `ClusterTask`, in which a task has one executor at a time |
| SchedulerLocal | 2 nodes, a task that each runs for itself and that may hang, without operating rules, fair scheduling | `DueNotLost`: a due time moves only with a recorded run or a missed window. `StopReturns`: Stop ends although a job never does, by its 30 s, and whatever Run Now still starts |
| SchedulerLive | 2 nodes, a global task scheduled with `@every`, fair scheduling, failing statements, crashes, starts at any time, runs that outlast their lock | `LockLostOnlyIf`: a lock is lost to staleness or to a starting node, never to a release by the node that overran it. `KeepsRunning`: a task that stays enabled is executed for ever |

In SchedulerLive Stop does not give up waiting, so the third reason of
`LockLostOnlyIf`, the locks that Stop releases by force, does not arise there; the
theorem `LockLoss` covers it. `DueKept` likewise covers global tasks.

`LockExclusion`, `IdleHoldsNoLock` (every path of runTask releases what it
acquired), `NeverDisabled` (through no sequence of toggles, restarts and failed
reads is a critical task off, in memory or in the table) and `RunningHasGoroutine`
hold in these instances as well and are proved, but are not part of the runs.

**Fairness.** Weak fairness of the ticker, of every goroutine and of the steps of
Start and Stop: the Go runtime and the operating system schedule them, and
`Advance` is the clock. A job returns, except those of `Hanging`: `runTask` gives it
a context without a deadline, so nothing makes it. `EndWait` is weakly fair:
where `SlowStop` holds that is the timer of 30 s, and without it `StopReturns` is
violated by a job that hangs. Strong fairness of
`AcquireLock`: the lock row is tried again at every tick, and the statement does
not fail for ever. Nothing is assumed of administrators, of starts and of
crashes. `InsertTask` and the toggles are excluded from the failures of
SchedulerLive, since a failed INSERT does stop a task for good (`SoleNodeLocks`
below).

**Proofs** (`SchedulerProofs`), for all nodes, tasks, periods, timeouts and
numbers of goroutines:

- `TypeCorrect`; `OneRun` and `NoStuckTask` from the inductive `RunInv`: the flag
  `running` and the existence of exactly one goroutine imply each other, hence
  a goroutine is spawned only when there is none.
- `Exclusion` needs more than the lock row: `HeldInv` says that a node which
  executes a global task holds its lock and that the lock is not stale, and
  `QuietInv` that nothing of a node runs any more when its Stop releases the
  node's locks. Under `Disciplined` each way to lose a lock in `LockLostOnlyIf`
  is excluded, so the two are inductive, and one row names one holder.
- `Implementation`: every step of `Scheduler` under `Disciplined` is a step of
  `ClusterTask` or a stutter.
- Without operating rules: `LockLoss` (`LockLostOnlyIf`), action by action; the
  release of a lock at the end of a run needs `RunInv`, since it is the only
  goroutine of the task that executes. `DueKept` (`DueNotLost`) needs types only.
- `CriticalTasksStayOn` (`NeverDisabled`): no call under way will write FALSE
  (`NoneTurnsOff`), whichever order memory and table are written in.
  `IdleNodesHoldNothing` (`IdleHoldsNoLock`) from `OwnedInv`: a lock in the name of a
  node is of a task it executes, or has not synced since its start; and `LoadedInv`:
  nothing runs on a node before all its tasks are loaded.

## CustomDomains

`server/service/domain.go`, its handlers and the `domain_verification` task.

**State.** The rows by id (`name`, `owner`, `ver`, `status`, `dated` for
verified_at, `age` for created_at), the resolve cache of each process (`cached`,
`ttl`), and per request `pc`, `target`, `host`, `who` and `batch`. `proved` is
history: the rows whose own token DNS once showed at their name. DNS is outside:
a lookup may answer any set of tokens.

**Actions.** AddDomain is `AddCheck` (the COUNT), `AddLimit` (the owner's COUNT),
`AddInsert`; VerifyDomain is `VerifyOwned` or the batch of `RetrySweep`,
`VerifyRead`, `VerifyLookup`, then `VerifyFail` or `VerifySucceed` and
`Invalidate`; `Suspend`; `UnsuspendRead` and `UnsuspendWrite`; `Delete`;
`Cleanup`; `Resolve` (a cache hit ends it; otherwise it reads the row) and
`Fill`. `Restart` empties a process, `Tick` ages rows and entries. `Cleanup` may
happen at any time, although the task runs it after its retry sweep: more
behaviours, not fewer.

**Runs.** Cache TTL 1 and verification TTL 0: an entry, and a claim, is fresh for
a moment and stale from then on.

| run | instance | shows |
|---|---|---|
| DomainsRace | 2 requests in one process, 2 owners, 1 name, 3 rows, retries | `VerifiedOnlyByProof` (even if the row is deleted and the name added by someone else while DNS is asked), `ServedOnlyProved` (no cache entry, however old, serves a name for an owner who did not prove it), `ClaimsKept`: the table implements `DomainClaim`, in which a name has one claim. While the requests do not overlap, `SerialChangesAtOnce`: once a request is answered the cache serves what it may and denies nothing verified and active, but for a domain that failed a verification since. `SerialForgetsNone`: no domain is left verified and pending |
| DomainsLive | 2 processes with a request each, restarts, fair scheduling | `CacheConverges`: lost invalidations heal. `PendingDecided`: no unproved claim blocks a name for ever |
| DomainsVisible | 1 request at a time, 2 spellings of a name, 3 rows, limit 1 | expected to fail: `VisibleAtOnce`, the same without that exception, is what the comment on `invalidateResolveCache` says (Counterexamples) |

One name and two rows suffice for the races: a name changes hands once, which is
what a stale read, cache entry or DNS answer needs to be wrong; the third row lets it
happen again. `OwnerLimit`, too, holds for one request at a time, and is proved
(`SerialLimits`).

**Fairness.** Of `Step`: a started request continues. Of `Cleanup`: the scheduler
runs the task again and again (`KeepsRunning`). Of `Tick`. Requests do not have
to arrive, and restarts do not have to happen.

**Proofs** (`CustomDomainsProofs`): `TypeCorrect`; `UniqueNames` from the UNIQUE
index and `Issued` (ids are handed out in order, and nothing refers to one that
was not); `VerificationIsProof` and `ServiceIsProved` from `Evidence`, which adds
to the properties what a request knows between two steps (`Knowledge`: a lookup
is about the name of its row, a success follows a proof, a fill carries a proved
row) and that every cached id was proved; `Implementation` (`ClaimsKept`) from
these and `Asked`.

What holds of requests that do not overlap is proved of the behaviours of `Spec`
with `[]Serial`, in which at most one request is under way; the cleanup, the clock
and restarts come at any time, also between the steps of the request. With
overlapping requests each is violated (Counterexamples). `ForgetsNone`
(`SerialForgetsNone`) from `Decided`: what UnsuspendDomain saw of the row is still so
when it writes. `TakesEffectAtOnce` (`SerialChangesAtOnce`, for one process, as a
cache in another one learns of nothing) from `CacheInv`, each answer in the cache
is `Current` unless the request is about to drop the name, and `FillInv`, what is
about to be cached is too: the cleanup only deletes rows that make no
difference to an answer. `Current` says that a row served would be selected by
Resolve or is active and failed a verification (`Kept`, `Lapsed`), and that a name
denied has no such row to serve. The exception is needed: `markFailed` tells the
cache nothing. `SerialLimits` (`OwnerLimit`): the rows counted are those there are
when the INSERT executes, or more.

## ShortLinks

`server/handler/url.go`, `server/service/url.go` and the `expire_urls` task; the
GraphQL mutations and the bulk import take the same steps.

**State.** The links by id (`code`, `owner`, `cols` with url, password and
expires_at), `clicks` per link, the request records `req` (step, caller, code in
the path, password and fields in the body, the id and the columns its SELECT
returned) and the click workers (`slot`). An expiration is a pair: the distance
of the instant, and the distance its text appears to have where SQLite compares
texts and ignores the zone in it. History: `follows` counts redirects per link,
`since` the columns changed after a request's SELECT.

**Actions.** Create is `CheckCode`, then `InsertOwned` or `InsertLink`; PATCH is
`CheckOwner` or `PassAdmin`, `ReadLink`, `WriteLink` (all columns); DELETE is the
same check and `DeleteLink` by code; a redirect is `Lookup`, the gate in
`Redirect`, and a click worker when one is free (`RecordClick`); `ExpireURLs`,
`Tick`, `Abort`.

**Run LinksRace**: 2 requests of 2 owners, an administrator and anonymous
visitors, 1 code, 2 successive links, 1 password, 1 worker, with symmetry of
requests and owners. One code and two links make a code change hands between a
check and a statement, one worker makes the pool full. It shows
`OwnerOrFormerOwner` (a link is changed or deleted only for its owner, an
administrator, or a former owner of the code whose own link is gone, which is
what the code admits); `LostOnlyToOverlap` (a PATCH sets back only what an
overlapping request changed); `RedirectsChecked`. `ClicksAreFollows` (no click
for another link, none twice, full workers or not) and `SweepsOnlyExpired` in
UTC hold in the same instance, are not part of the run, and are proved.

**Proofs** (`ShortLinksProofs`): `TypeCorrect`; `UniqueCodes` from `RowInv` (the
UNIQUE constraint, and no row at an id not yet handed out); `OnlyOwners` from
`OwnerInv`, which adds `Checked`: between check and statement a request holds the
id of a link its caller had a right to and that carried the code, so that
whichever link has the code when the statement executes is either that one or
proof that that one is gone. `LostToOverlap` (`LostOnlyToOverlap`) and
`OnlyCheckedRedirects` (`RedirectsChecked`) from `CopyInv`: the copy of a row that
a request goes on with agrees with the row in every column but those marked in
`since`, and every statement marks the columns it changes in the copies it
outdates. `ClicksOfTheirLink` (`ClicksAreFollows`): the redirects over a link are
at least its clicks and the workers still recording one, whatever number of
workers there is. `SweepsInTime` (`SweepsOnlyExpired`): when the zone is UTC,
text and instant of every expiration in a row or a copy are equal.
`ColumnsAssumption` (in `ShortLinks`): a SELECT without a result is not mistaken
for a row.

## ServerConfig

`config/config.go`, `config/auth.go`, `server/handler/admin_auth_providers.go`
and the start of `main.go`.

**State.** `file` is what `yaml.Unmarshal` makes of `server.yml` (missing, not
parsable, or a configuration); `mem` the configuration in each process; `pc` and
`job` the step and local variables of each process and request; `sealed` the keys
values in the databases are encrypted with. A configuration is a port, the
encryption key and the providers of each section; a secret is its text and the
key it is encrypted with. History: `may` (what a restart may find of each
provider after the answers given), and whether a load met an incomplete file
(`torn`), anything overlapped (`overlap`), or the last Save was incomplete
(`cut`).

**Actions.** Load is `LoadWithoutKey` or `LoadFile`, then `Override` (environment,
Validate, and the port chosen by main). Save is `Truncate` and `Write`, or
`OpenFails`, or `WriteFails`, which leaves one of `Cut`: the file ends after the
settings, or after the key and some of the providers, in the order of the struct.
When two Saves overlap in the file the result is one of the two or not parsable.
An edit is `Create`, `Update`, `Delete` or `Toggle` (the checks), `Apply` (with
the index of the check; `Panic` when it is out of range), `Encrypt`, `Marshal`,
then Save. `Seal` encrypts something in the databases, `Exit` ends a process.

**Runs.**

| run | instance | shows |
|---|---|---|
| ConfigRace | the server, one command-line process, 2 requests, 1 section, 2 names, 1 secret, 2 keys, ports 80 and 65536, 3 operations, from no file or one with an encrypted provider | `EncryptedAtRest` and `ProvidersKept` (an acknowledged edit is there after a restart) when edits come one at a time, through failing and partial Saves and restarts. `OneKey`: no secret ever stands beside another key. `SealedReadable`: what the databases hold stays readable, unless a process loaded the file in the middle of a Save or after an incomplete one |

`MaxOps` 3 admits a start and two edits, a start, an edit and another start, or a
start, an edit and an invocation of the command line: each hazard listed needs
three. It begins from a new installation or from the file of an earlier run
(`Installed`), so that two edits may both be about a provider that exists, and the
second may find it gone (`Panic`). Two keys let a second key be generated, two names
let a deletion move an index. Port 65536 is the numeric edge: Validate turns it into
0, and main then chooses a port and saves. `NamesIdentify` holds in the same
instance.

There is no liveness: an edit that fails is answered with an error, and a server
whose file cannot be parsed stays down until someone repairs it, so the runs do
not check for deadlock.

**Proofs** (`ServerConfigProofs`): `TypeCorrect`, for which `HasKey` (no process
runs without a key) is needed, else `Seal` could seal with none;
`SecretsBesideTheirKey` from `KeyInv`: not only files and memories but also the
buffers about to be written are `Keyed`, and what an edit carries is in the
clear. The argument rests on the order of the sections in the file: a cut that
loses the key loses all secrets. And, each with the condition under which it
holds, which is a history variable of the run as well:

- `SealedStaysReadable` (`SealedReadable`, until a load was `torn`) from `ReadInv`:
  one key is in use, `Uses(k)` says by whom (all that is sealed, every process
  that is up, every buffer about to be written, every complete file), and
  `Unsealed` that it is chosen before anything is sealed.
- `SecretsEncryptedAtRest` (`EncryptedAtRest`, until edits `overlap`) from
  `AloneInv`, nobody else is at work while somebody is, and `RestInv`: a secret is
  in the clear in the memory of the server between `Apply` and `Encrypt` only,
  and in no buffer.
- `NamesStayUnique` (`NamesIdentify`, until edits overlap) from `NameInv`: what an
  edit was checked against (`Fits`) is what it is applied to.
- `ProvidersAreKept` (`ProvidersKept`, until edits overlap or a load was torn) from
  `KeepInv`, which follows an edit from memory into the buffer and the file:
  after `Apply` it is done in memory (`Done`), the buffer is a copy of that, and
  memory and complete file have for every provider what `may` allows (`Known`).

The last two have the hypothesis `InstalledNamed`: no section of the server.yml
that is there at the start has a name twice. An earlier run whose edits
overlapped can leave such a file, and then a name identifies no provider, so
the hypothesis is needed; the instance satisfies it. `FileAssumption` (in
`ServerConfig`): a missing or unreadable file is not mistaken for a configuration.

**Abstractions.** A file cut inside a value is not told apart from one cut before
it. Hand edits of the file, command-line flags, the format of the key, and
failures of EncryptGCM are not modelled. A value with the prefix "enc:" is the
pair of its text and its key.

## ServiceWorker

`sw.js`, and the releases of the server it fetches from.

**State.** `active`, the script of the worker in control; `job`, the one install
there may be (its step and what `addAll` has fetched so far); `order` and `entry`,
the caches by age and what they hold, a response being its `ok` and the release
it came from; `event`, the fetch events and the script of the worker that handles
each; `release`, what the server runs. History: the release the active worker was
installed from (`since`), whether its cache was already there (`kept`), whether a
replaced worker has stored something since (`late`).

**Actions.** `Update` finds a new script; `InstallOpen`, `Add` per file and `AddAll`
are the install event, `InstallFails` its end at any point; `Activate` is
skipWaiting, the deletion of the other caches and `clients.claim`. A fetch event
that misses (`Match`, which asks the caches in order of creation) is `Request`,
`Answer`, `PutOpen` (caches.open) and `Put`, which nothing waits for; `Drop` ends it
anywhere, and a cache that is deleted in between takes what is put into it along
(`Detach`). `Deploy` is
a new release.

**Run Worker**: 3 files, 2 of them precached, 4 releases, 3 scripts of which two
share a cache name (what has happened so far: the name is a constant), 2 fetch
events. `OfflineShell`: with a worker in control every precached file is in a
cache, with an answer that was ok, whatever failed or was replaced. `NothingOlder`:
no asset is older than the release the worker was installed from, unless the
worker took over a cache of its own name or a replaced worker stored late: both
happen, and are what the constant name costs. `CaughtUp`: pages that are never
closed get the newest worker again and again. Two fetch events are enough for one
of each worker to be under way at once.

**Fairness.** The browser checks for updates and goes on with an install (weak);
pages do not request files without a break and `Activate` then happens
(strong), as the event is dispatched when the old worker is idle; from some time
on installs do not fail. Without the last there is nothing to catch up with.

**Proofs** (`ServiceWorkerProofs`), for any files, releases, scripts, names and
number of events: `TypeCorrect`; `ShellOffline` (`OfflineShell`) from `Shell`: the
cache of the active worker, and that of an installed one, has every precached file;
so no fetch event asks the server for one, and only `addAll`, which refuses an
error, ever stores one. `Match` looks through the caches by age, so the proof also
shows that whichever cache answers first is ok. `NothingFromBefore` (`NothingOlder`)
from `AgeInv`: a cache that an installation created is filled by nobody else
(`OwnCacheNew`), so when the worker takes over, every entry is of its release or a
later one, and so is what its events store from then on (`Stored`, `ToStore`;
`Lineage` says which release each of them comes from). The theorem assumes
`NamesNotReused`: a cache name that gave way to another in some script does not come
back in a later one. With the names v1, v2, v1 the third script finds what is left
of the first, and TLC finds `NothingOlder` violated; the source has the one name
`caslink-v1`, with a number to count up.

## Page

`js/app.js` but for its requests: `ConfirmForms`, `PageWidgets` and `Theme`,
composed by `Page`.

**ConfirmForms.** Forms with `data-confirm` share one `<dialog>`. State: `asked`
(the form the open dialog is about), `listeners` (the onClose handlers added),
`returned` (returnValue), `closes` (close events queued), `confirmed` (forms with
`data-confirmed`), `sent` (the forms sent, in order); history `agreed` (confirmed,
not yet sent, nothing else asked for since). `OnConfirm` of a listener sends the
form of its closure, whichever the dialog is about by then. `OnSubmit` is the submit
handler with `askConfirm`, `Choose` a button or Escape, `OnClose` the close event,
which removes every listener and runs onConfirm for each, `Leave` a navigation. The
dialog is closed in one step and its event dispatched in another: `QueuedClicks`
says how many inputs the browser may handle in between. `Dialog` and `RequestSubmit`
say what the engine has.

**PageWidgets.** Copy buttons and their timers, flash messages, the recovery keys
(checkbox and copy button), the slug of a new organization, the install prompt. A
page has one of them (`kind`), as they share nothing. `AutoSlug` is the script's
chain `toLowerCase`, `replace`, `replace`, `slice` on names whose characters are a
letter, its capital, any other character, and one that lower-cases to two.
`Hyphenate` is the first `replace` with its global flag, character by character.

**Theme.** The cookie and the localStorage item of all tabs. `CycleTheme` and `Restore`
read the item and call `ApplyTheme`, as `SetTheme` does with what was chosen;
`SetCookie` writes the cookie, `Store` the item. `auto` has no cookie. The year after
which the cookie expires is left out: nothing reads it (see the end of
Counterexamples).

**Page.** A modal dialog keeps the user from everything else (`Accessible`), a
handler that is writing the theme keeps the page from other handlers (`Idle`), and
`Load` starts all of them anew but the storage.

**Run Page**: 2 forms, 2 tabs, 2 install offers, 2 timers, one input before a close
event, names of up to two characters and the long ones around the cut at 40.

| property | shows |
|---|---|
| `OnlyAgreed` | the form sent is the one the last question was about, once, and only as the answer to it: the page implements `AgreedForms` |
| `NothingLeft` | no listener and no `data-confirmed` survives its question |
| `Sent` | a confirmed form is sent, unless the user went on to something else or the dialog opened again before the close event |
| `LabelReturns` | a copy button says "Copy" again after any clicks, unless it was clicked while it said "Copied!" |
| `CookieFollows` | cookie and localStorage agree unless two tabs changed the theme at once |
| `SlugFromName` | the slug has the words of the name, single hyphens between them and none at the ends, unless cut |

**Fairness.** Handlers return (weak) and queued close events are dispatched (strong:
a busy page delays, but does not starve them). Nothing is assumed of the user.

**Proofs.** `ConfirmFormsProofs`, for any forms: `QuestionsEnd` (`NothingLeft`) and
`Implementation` (`OnlyAgreed`), under `Engine`: an engine with `showModal` and
`requestSubmit`, and at most one input before a close event, as each of the three is
needed (see the counterexamples). The invariant `Answered` says why: there is one
close event at most; the input that overtakes it can open the dialog but not answer
it; and the only listener that may follow "confirm" is that of the form agreed to.
`PageProofs` lifts both to `Page` (`PageQuestionsEnd`, `PageImplementation`), since
a step of the page is one of the dialog or leaves it alone, and proves
`ThemeFollowed` (`CookieFollows`, from: unless crossed at most one tab applies a
theme, and once it has written the cookie that is what it will store) and
`LabelsReturn` (`LabelReturns`, from: the timers not of a second click all restore
"Copy", and the label is "Copy" when there is none). `PageTypes` (`PageTypeOK`) and
`SlugsFromNames` (`SlugFromName`) hold for names of any length over these characters
and for any place of the cut. The argument follows the chain: `LowerType` types the
name in lower case; `Hyphenated` compares the text after its first n characters with
what it has of letters and words there; `Trimmed` and `Sliced` say what the rest
takes away. As `Hyphenate` is a function defined by recursion, and the induction
theorems of the library cannot be applied by the installed provers, `Recursion`
proves anew that there is such a function, and induction is an argument about the
least n at which a statement fails (`LeastElement`, from the well-foundedness of the
order of the numbers).

## PageRequests

The requests of `js/app.js`: the patched `fetch` with its CSRF token, the
registration of a passkey, the short-link form, the consent banner; with
`server/middleware.go` (CSRFMiddleware, ensureCSRFCookie), `handler/helpers.go`
(newPageData), `handler/user_security.go`, `service/webauthn.go`, `handler/pages.go`.

**State.** Of the browser the cookies: `csrf` (is there one), `ceremony`
(`wa_reg_session`), `consent`. Of the server `begun` and `sessions` (ceremonies begun
and still known) and `passkeys`. Of each tab `page`: its kind, whether the token in
its meta element is the one in the cookie, and of a registration its step, what it
has got and what it sends; `asks`, the choices sent. History: `during` (passkeys
registered since a tab's registration began), `disturbed` (another tab replaced or
used its cookie, or the server forgot its ceremony), `expected`.

**Actions.** A registration is `Register` (click), `BeginRegistration` (the SELECT of
the authenticators to exclude) and `StoreSession` (the ceremony in the memory of the
server), `Begun` (the answer, which sets the cookie), `Create` (the authenticator, and
the second request), `LoadSession` (which consumes the ceremony) and `SaveCredential`
(the INSERT), or `Reject`, then `Accepted` or `Rejected` (the answer), `Reload`;
`Lost` may also end it between two of the server's steps, the ceremony then being
gone. One account is signed in all the time, so that `SESSION_USER_MISMATCH` does not
occur. `Refuse` is CSRFMiddleware's 403, `CreateFails`, `Lost` and `LostAfterCookie`
the other ways into `catch`. `Expire` and `Forget` are the ends of the CSRF cookie (a
day) and of a ceremony (five minutes, or a restart). `Expire` stands as well for the
answer to a page that was asked for without a cookie and arrives when another answer
has set one: it sets a second cookie, which leaves every page with the wrong token,
and the new page with none. `CreateLink` is the short-link form, `Choose`, `Chosen`,
`ChooseFails`, `ChoiceLost` the banner.

**Run Requests**: 2 tabs, 1 authenticator, 2 registrations. `FinishAccepted`: a
finish-register is rejected only if its ceremony was disturbed. `TwiceOnlyOverlapping`:
an authenticator is registered twice only by registrations that overlap.
`ChoiceRecorded`: a choice in the banner is in the cookie, also when the background
request failed and the form was submitted instead, unless choices raced, an answer
was an error or the page was left. `Settles`: the register button is never left
disabled. One authenticator and two registrations are what it takes to register
one twice, and two tabs what it takes to lose a cookie.

**Fairness.** Of each tab's `Progress`: a request is answered or fails, an
authenticator times out, timers expire.

**Run RequestsRefresh** is expected to fail, see below.

**Proofs** (`PageRequestsProofs`), for any tabs, authenticators and number of
registrations: `TypeCorrect`; `CredentialsAccepted` (`FinishAccepted`) and `NotTwice`
(`TwiceOnlyOverlapping`) from `Registered`, of each tab: `Undisturbed` (until
disturbed, the server knows its ceremony, the cookie and then the request hold it,
and a rejected page was disturbed) and `Excluding` (every passkey there is was
excluded when it began or registered during it). `Consented` (`ChoiceRecorded`) from
`Recorded`: unless two choices raced, the one to be recorded is the only one under
way or what the cookie has.

## Counterexamples

Two disagreements between the code and what is said of it are runs that must fail:

- **DomainsVisible** (`VisibleAtOnce`): the comment on `invalidateResolveCache`
  (`service/domain.go:891-893`) says that it is "called after a domain transitions to
  (or from) verified+active so the change is visible immediately rather than after
  the TTL". A failed verification of a verified and active domain is such a
  transition: `markFailed` (`service/domain.go:713-723`) sets verification_status to
  "failed", Resolve's SELECT no longer finds the row, and nothing drops the entry
  from the cache. With one process and one request at a time the domain is served
  until the entry expires. It goes no further (`CacheConverges`, and
  `SerialChangesAtOnce` with this one exception).
- **RequestsRefresh** (`RefreshCures`): AI.md:26744 says of a 403 CSRF_FAILED
  "Refresh the page and retry". The cookie expires after a day while the page stays
  open; the page that replaces a refused one takes its token from the cookie of its
  own request (`handler/helpers.go:203`), which is missing, and the answer then sets
  one (`middleware.go:479`): the meta element is empty, `getCSRFToken` returns the
  empty text because the element is there (`app.js:55`), and the retry is refused as
  well. A second refresh cures it.

The following properties can be checked by hand: replace the properties of the
configuration by the one named, with the constants changed as given. TLC finds
each violated. They show why the passing properties carry the conditions they do.

| configuration | property | said where | what happens |
|---|---|---|---|
| SchedulerLive | `GlobalRunsOnOneNode` | scheduler.go:51 "global (one node in cluster mode)" | a run outlasts the lock timeout and a peer starts too |
| SchedulerLive | `StartClearsOwnLockOnly` | scheduler.go:375-376 "any stale lock this node held across a restart is cleared" | a starting node clears a live peer's lock |
| SchedulerLive | `OneNodePerTick` | scheduler.go:785-786 "only one cluster node mutates the shared domain table per tick" | a node runs the task by its own due time in memory, although the table's has moved on |
| SchedulerLocal, `Toggled = {local}` | `ToggleSurvivesRestart` | admin.go:116-117 "persists the change ... so it survives a restart" | two overlapping toggles leave memory and table different |
| SchedulerLocal | `NoRunAfterStop` | scheduler.go:274-275 "no new task executions are started" | Run Now arrives after Stop |
| SchedulerLive, `Nodes = {a}`, `Failing = {"insert"}` | `SoleNodeLocks` | scheduler.go:488-489 "always succeeds for the sole node" | the INSERT of the row failed at start, and there is nothing to lock |
| DomainsVisible | `OnlyAdminLifts` | service/domain.go:536-537 "A suspended domain no longer resolves" | `VerifyDomain` sets status "active" whatever it was (:768), and the retry sweep selects suspended rows: a verification lifts the suspension |
| DomainsVisible, `Requests = {r1, r2}` | `StopsAtOnce` | domain.go, SuspendDomain: "The change takes effect immediately" | Resolve puts the row it had read back after the invalidation |
| DomainsVisible, `Requests = {r1, r2}`, `Names = {h1, h2}` | `OwnerLimit` | domain.go, AddDomain: "Enforce per-owner domain limit" | two adds count before either inserts |
| DomainsVisible, `Requests = {r1, r2}` | `NoneForgotten` | domain.go, UnsuspendDomain | a verification between its SELECT and UPDATE is overwritten: verified and pending |
| DomainsVisible, `Requests = {r1, r2}` | `SuccessMeansVerified` | domain.go, VerifyDomain | the row was deleted meanwhile; the call reports success |
| DomainsVisible | `CleanupSparesOnceActive` | domain.go: "never became active" | a domain that was active, failed a re-check and was suspended is deleted |
| DomainsVisible | `ActiveResolves` | domain.go, normalizeResolveHost: "matches the stored (already lowercased, FQDN) domain value" | names are stored as spelled |
| LinksRace | `OnlyFieldsSent` | service/url.go:178-179 "Only fields present in req are changed" | two overlapping PATCHes of different columns: the second sets back what the first changed (:293) |
| LinksRace | `PasswordKept` | docs/api.md:123 "password-protect the link" | the INSERT of an owned link has no password column: the password is dropped |
| LinksRace, `Zone <- MCWest`, `Lifetimes = {0, 1}` | `SweepsOnlyPast` | expireURLs: "whose expires_at has passed" | west of Greenwich the comparison of texts deletes links hours early |
| ConfigRace | `KeySurvives` | config.go:772-773 "persist it so it survives a restart" | `caslink --status`, which the container's health check runs every 10 s, loads the truncated file, generates a key and saves it |
| ConfigRace | `AlwaysEncrypted` | admin_auth_providers.go:24-26 "encrypted at rest via EncryptSecrets" | a Save marshals what another request has not encrypted yet |
| ConfigRace | `EditsSurvive` | the handlers answer success after config.Save | two Saves write in the other order than they marshalled |
| Worker | `ShellFresh` | AI.md, after the table of cache rules: "browsers fetch the new frontend on the first page load after an update" | the cache name does not change with the release, and cached files are never fetched again |
| Worker | `ShellWhole` | - | the files of `addAll` come from two releases when one is deployed in between |
| Worker | `OnlyOkCached` | AI.md, table of cache rules: "Don't cache errors" | the worker stores any answer (sw.js:33) |
| Page | `AlwaysSent` (PROPERTY) | - | a confirmed form is dropped when the next dialog opens before the close event: returnValue is reset |
| Page, `QueuedClicks = 2` | `OnlyAgreed` | - | the second question is answered before the close event of the first, and both forms are sent |
| Page, `Dialog = FALSE` | `OnlyAgreed` | app.js:151-152 "submit rather than block the user" | the comment says so: such an engine sends without asking |
| Page, `RequestSubmit = FALSE` | `NothingLeft` | - | form.submit runs no handler: `data-confirmed` stays, and if the page does, the next submission is sent without a question |
| Page | `LabelAlwaysReturns` | - | a second click within 1.5 s remembers "Copied!" as the text to restore |
| Page | `CookieAlwaysFollows` | app.js:14 "so the server can read it" | two tabs interleave cookie and item |
| Page | `OfferKept` (PROPERTY) | - | the reaction to an old install choice drops a newer offer |
| Page | `SlugAccepted` | AI.md:62360 "URL-safe identifier (2-39 chars)" | the script cuts at 40; the server refuses such a slug |
| Requests | `NeverTwice` | webauthn.go:169-170 "so the same authenticator cannot be registered twice for the same account" | two registrations overlap, the second began before the first ended |
| Requests | `LinkCreated` | app.js:266-267 "CSRF is injected by the window.fetch patch above, so no explicit header is needed here" | `/api/v1/urls` takes Bearer tokens only: the form is answered 401 |

Seen on the way, without a model: no template registers `sw.js`; a fetch that fails
rejects `respondWith`, where AI.md:25614 asks for a real response; the static
handler sends no validators; the form of a new organization posts to `/orgs/new`,
which has no POST route, and the form of the recovery keys to a route that does not
exist; buttons with `data-copy-text` alone (dashboard.html:33,59) get no handler;
the server always renders the theme "dark" and never reads the cookie.

## Hazards

`PROJECT.json` lists the forty that weigh most, each at its line with the
properties that would catch it. The others that were found, those that do go
wrong (their property is in the table above), and those of the planned parts:

| where | what | property, or planned in |
|---|---|---|
| scheduler/admin.go:129 | `SetTaskEnabled` writes memory and table in two unordered steps | `ToggleSurvivesRestart` |
| scheduler/admin.go:121 | a critical task disabled through some sequence of toggles, restarts and failed reads | `NeverDisabled` |
| scheduler/scheduler.go:366 | the INSERT of a task's row fails at start | `SoleNodeLocks` |
| scheduler/scheduler.go:325 | the due time in memory is stale once a peer has run the task | `OneNodePerTick` |
| scheduler/scheduler.go:617 | the sweep runs while an owner revives an expired link; texts of times are compared | `SweepsOnlyExpired`, `SweepsOnlyPast` |
| server/service/domain.go:298 | the count of an owner's domains and the INSERT are apart | `OwnerLimit` |
| server/service/domain.go:768 | verify, suspend, verify again | `OnlyAdminLifts` |
| server/service/domain.go:964 | the cleanup of never-activated domains deletes one that was in use | `CleanupSparesOnceActive` |
| server/service/domain.go:896 | the resolve cache is per process: another node sees a suspension when its entry expires | `CacheConverges` |
| server/service/domain.go:325 | names are stored as spelled and resolved in lower case | `ActiveResolves` |
| server/service/url.go:772 | two creations of one code both see it free; the loser gets a 500 and not the 409 | `CodesUnique` (proved) |
| server/handler/url.go:334 | a click is recorded after the redirect, when its code may have another link | `ClicksAreFollows` |
| server/handler/url.go:329 | all click workers are busy: the click is dropped, never queued or counted twice | `ClicksAreFollows` |
| sw.js:33 | error answers are cached like files | `OnlyOkCached` |
| server/handler/admin_auth_providers.go:101 | the check for a duplicate name and the append are not under a lock | `NamesIdentify` |
| server/handler/admin_auth_providers.go:80 | a failed Save leaves the edit in memory, and the next Save makes it permanent | `ProvidersKept` |
| config/config.go:1412 | a port out of range becomes 0, and main saves the file with the overrides in it | `OneKey`, `SealedReadable` |
| scheduler/scheduler.go:521 | history row and task row are written in two statements; a crash in between leaves a run the counters miss | - (nothing decides from it) |
| scheduler/cronexpr.go:144 | `Next` gives up after 366 days; 29 February and short months; both day fields restricted | CronSchedule |
| server/handler/url.go:503 | Stats checks the visibility of one row and selects by code again | - (read only) |
| server/store/sqlite.go:45 | the cascade from a link to its clicks depends on a pragma per connection | - |
| server/handler/auth_user.go:206 | the account is created before its invite is consumed, and a failure is only logged | Credentials |
| server/handler/org.go:234 | an organization is created before its invite is consumed | Organizations |
| server/service/cluster.go:153 | two nodes present one join token | Credentials |
| server/service/totp.go:199 | enrolment in two statements: a crash leaves a secret and a login that does not ask for it | Credentials |
| server/service/totp.go:276, webauthn.go:435 | recovery keys are read, shortened and written back | Credentials |
| server/service/webauthn.go:238 | the sign counter is read, checked and written back | Credentials |
| server/service/auth.go:473 | a reset consumes the token, sets the password and ends the sessions in three statements | Credentials |
| server/service/auth.go:93 | COUNT of administrators, then INSERT | Credentials |
| server/service/namespace.go:30 | a user and an organization may take one name | Organizations |
| server/service/org.go:318 | tokens and domains outlive their organization | Organizations |
| server/service/domain_ssl.go:219 | a lookup that overlaps a purge puts the old certificate back, for good | DomainCertificates |
| server/server.go:103 | an older disk probe replaces a newer one | ServerLifecycle |
| server/server.go:311 | the request ring loses counts around the minute and keeps those of skipped minutes | ServerLifecycle |
| server/server.go:1360 | the databases close before requests have drained | ServerLifecycle |
| server/middleware.go:257 | a bucket is removed while a request holds it | RateLimiter |
| backup/retention.go:46 | overlapping retention sets and the size cap | BackupRetention |
| backup/backup.go:188 | archive and manifest are renamed one after the other | BackupRetention |
| server/handler/admin_config.go:294 | a form is saved key by key in random order and stops at the first error | ConfigForms |

## Limits

**Only model-checked**, on the instances above: liveness under fairness, which is
out of the prover's reach: `KeepsRunning`, `StopReturns`, `CacheConverges`,
`PendingDecided`, `CaughtUp`, `Sent`, `Settles`. Every other property of the
passing runs is also a theorem, for all values of the constants that satisfy
their assumptions and the hypotheses named with it. What is violated is shown by TLC
alone.

**Assumed of the environment.** A SQL statement is atomic and its constraints
hold. Random tokens and keys are never equal: ids and keys stand for them. An
os.WriteFile writes from the beginning to the end. The browser follows the
standards for events, dialogs, promises, cookies and service workers.

**Not modelled**, beside the components marked "-" or "P" above. Scheduler: the
bodies of the tasks and cron expressions (a period stands for them). Custom
domains: certificates, audit rows, listings. Short links: the options that are
pure functions of the request (LinkOptions), statistics, listings, export. Server
configuration: the settings pages and the provider tests. Scripts: looks, icons
and texts, the encodings between base64url and bytes, the download of the
recovery keys; requests that do not pass through `app.js`. The swagger-ui bundle
is vendored and minified.

## Plan

In this order; each module is written with one action per operation, constants
with named assumptions, and no RECURSIVE operator where proofs are planned.

1. **Organizations**: members and roles, ownership, tokens, the namespace shared
   with users; abstract specification: a name has one holder, an organization
   always an owner. Composes with the creation limits and invites of
   organizations.
2. **Credentials**: accounts, first administrator, sessions, reset, invites, join
   tokens, TOTP, recovery keys and login with passkeys; a "one-time token" as the abstract
   specification that invites, join tokens, reset tokens and recovery keys
   implement, or do not.
3. **DomainCertificates**: extends the rows of CustomDomains by DNS-01 issuance,
   renewal, the per-process certificate cache and the handshake; liveness: a
   purged certificate is gone in the end.
4. **ConfigForms**: the settings pages, the `config` table and what is in force;
   composes with ServerConfig's memory.
5. **RateLimiter** and **ServerLifecycle**: the sliding window and its sweep; start
   and stop order, the request ring, the disk probe.
6. **BackupRetention**: archives and manifests under crashes; which archives a
   retention run keeps, against a definition.
7. **CronSchedule** and **LinkOptions**: pure operators against reference
   definitions over bounded inputs.

Theorems next: type correctness and the main invariant of each new module, and
their refinements. Bounds of new runs: two actors of each kind and one contested
resource, as here; runs that share an instance are joined.

## Running it

    tlc -workers 2 -config DomainsRace.cfg MCCustomDomains.tla
    tlapm CustomDomainsProofs.tla

A configuration `Scheduler*.cfg` belongs to `MCScheduler`, `Domains*.cfg` to
`MCCustomDomains`, `LinksRace.cfg` to `MCShortLinks`, `ConfigRace.cfg` to
`MCServerConfig`, `Worker.cfg` to `MCServiceWorker`, `Page.cfg` to `MCPage`,
`Requests*.cfg` to `MCPageRequests`. The passing runs, exhaustively, on two
workers:

| run | distinct states | depth | seconds |
|---|---|---|---|
| SchedulerCluster | 1 887 510 | 51 | 70 |
| SchedulerLocal | 208 876 | 39 | 115 |
| SchedulerLive | 425 062 | 46 | 71 |
| DomainsRace | 963 473 | 44 | 58 |
| DomainsLive | 83 825 | 38 | 30 |
| LinksRace | 1 594 971 | 27 | 114 |
| ConfigRace | 197 391 | 21 | 11 |
| Worker | 288 172 | 32 | 17 |
| Page | 891 240 | 26 | 101 |
| Requests | 214 596 | 29 | 39 |
