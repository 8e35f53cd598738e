# A TLA+ development of Meridian (emby-panel)

Meridian is one Go process (`src/cmd/meridian`): a management panel, a set of
reverse proxies in front of Emby servers ("sites"), and a SQLite database. This
directory models the parts of it whose correctness depends on the order in
which things happen, checks them with TLC on small instances, and proves the
central facts with TLAPS for every size.

## 1. The system

### Components, their state and operations

| Component | State it keeps | Operations | Talks to |
|---|---|---|---|
| Site lifecycle (`app_sites.go`, `proxy_start.go`, `proxy_lifecycle.go`, `proxy_manager.go`, `site_repository.go`) | `sites` rows; `pm.proxies`; `pm.publicHosts`, `pm.pathPrefixes`; `shutdownStarted` | create, toggle, update, delete; StartSite, StopSite, Register/UnregisterSiteHost; StartAllEnabled; GracefulShutdown | all others, through the instance it starts or shuts down |
| Traffic accounting (`request_traffic_meter.go`, `proxy_lifecycle.go`, `traffic_timeline_compat.go`) | counters and minute buckets of the instance, its persisted baseline; `traffic_logs`, `traffic_minute_logs`, `sites.traffic_used*` | meter add and finish; flush (ticker, stop, replace, shutdown) | lifecycle, quota |
| Traffic quota (`traffic_quota.go`, `proxy_io.go`) | `trafficQuotaState`; the usage cache of the instance | request gate, reserve, settle | accounting, system settings |
| Progress coalescer (`legacy_progress.go`) | queue, active work and waiters of each key; drain cycle; limits shared by all sites | enqueue update, Stopped barrier, timers, dispatch, cancel, Drain, Close | instance shutdown, upstream |
| Upstream failover (`upstream_failover.go`) | preferred line, cooldowns, probe time | ordered, markFailure, markSuccess, RoundTrip | upstream |
| Telemetry writer (`telemetry_writer.go`, `request_logs.go`, `dynamic_observations.go`) | one bounded queue, drop counters | enqueue or drop, batch write with retry, flush, clear, stop | database |
| Ping, image, asset caches (`legacy_ping_cache.go`, `legacy_image_cache.go`, `asset_cache.go`) | entries and the order of their use, flights in progress, generation, byte budgets of sites and process; files on disk | lookup, single flight, reserve, capture, store, evict, invalidate, close, clear | proxy handler, upstream, disk |
| Dynamic redirect runtime (`dynamic_*.go`, `redirect_transport.go`) | authorities and their reservations, capabilities with their uses, stream and parse pools, per site and over all | reserve, resolve, mint, borrow, publish, follow a redirect, serve a capability, expire, close | proxy handler, DNS, upstream |
| Manifest rewriting (`hls_*`, `dash_*`, `playback_info_rewrite.go`, `dynamic_rewrite_core.go`) | the session of one rewrite | discover and mint or borrow URLs, commit or abort | dynamic runtime |
| Backup and restore (`backup_restore.go`) | the database and its log, TLS files; staging and rollback directories, marker | export, stage, apply, undo, revert, finalize | certificates, process start |
| Panel certificates and settings (`panel_acme.go`, `panel_certificate_renewal.go`, `panel_settings.go`, `app_panel.go`) | certificate, key and marker files, the certificate in memory, the settings row | issue, install, put back, activate, renew, disable, save settings | backup, process start |
| Accounts and sessions | users, login failures | login, change password | database |
| Telegram reports, dashboards, diagnostics, installer | little or none | report, read | database |

### What is hard, and what makes each part correct

* **Accounting.** Meters count without the mutex of the flush; a flush can
  fail; instances are replaced while requests run; the process dies. Correct:
  each byte is in exactly one place, no bucket shows what the totals lack, the
  baseline of a fresh instance is the row.
* **Lifecycle.** A handler makes three or four fallible steps in two systems
  (SQLite, running instances), and undoes them when one fails; shutdown may
  cut in between two of them. Correct: rows, instances and routes agree when no
  operation is running, unless the operation said that its undoing failed.
* **Quota.** Reservations of concurrent writers, refunds, and a state that is
  reloaded under them. Correct: what is checked is what has been used.
* **Progress.** Timers that fire late, clients that leave, barriers, a drain
  with a deadline. Correct: order per key, delivery, balanced limits.
* **Failover.** Round trips in flight report outcomes late and out of order.
  Correct: the preferred line is healthy, a failure is told only after every
  line was tried, nothing that cannot be replayed is sent twice, and the
  primary is found again.
* **Telemetry.** Producers never wait, panel calls do, in the same queue, while
  the writer retries and `Close` takes the gate. Correct: a loss is counted,
  barriers hold, nobody waits for ever.
* **Caches.** Many requests for one thing, one that fetches it, a budget shared
  by all sites, an invalidation or a closed site while flights are open.
  Correct: counters equal what is kept and reserved, followers are woken, what
  is served is fresh and whole, nothing from before an invalidation remains.
* **Dynamic runtime.** A dozen ways a request may end, each with another set of
  things to give back, tokens shared by several rewrites, limits per site and
  over all. Correct: every count is exact, a client holds only tokens that work.
* **Restore and certificates.** A dozen file operations, any of which may fail
  or be the last one before a crash. Correct: the next start finds, or rolls
  back to, an installation that opens, wholly old or wholly new.

`PROJECT.json` lists every hazard with its line and the properties for it.

## 2. Modules

### `TrafficLedger`: what the accounting promises

Three numbers per direction: served, persisted, lost. Bytes are counted, a
checkpoint moves some of the outstanding ones into the database, an exit loses
all outstanding ones. It says nothing of meters, flushes or instances.

### `TrafficAccounting`: how the code keeps the promise

One site. `bytes`, `pendingRequests`, `pendingMinute`, `persisted*`, `site*` are
the fields of its `ProxyInstance`; `rowUsed`, `rowDir`, `logs`, `minuteLogs` the
database; `flight` holds what the flush in progress swapped out, which stands
for holding `trafficMu`; `job` is the lifecycle call that holds
`pm.lifecycleMu`, with the row copy its caller read; `gate` is the instance in
`pm.proxies`.

| Action | Code |
|---|---|
| `Admit`, `NewMeter`, `DeferFinish` | `beginHTTPRequest`, `newRequestTrafficMeter`, the `defer` in the handler |
| `AddFast`, `Promote`, `AddStreaming` | the paths of `requestTrafficMeter.add` |
| `FinishBucket`, `FinishCount` | the two halves of `finish` |
| `FlushSwap`, `FlushCommit`, `FlushFail`, `FlushNothing` | `flushProxyTrafficLocked` |
| `StopSite`, `StartSite`, `GracefulShutdown`, `CloseGate`, `Drained`, `DrainTimeout`, `Remove`, `Install` | the lifecycle calls as far as they touch counters |
| `Exit`, `Tick` | process exit or crash, the clock |

The refinement mapping to `TrafficLedger` is `persisted <- rowDir`; `served` and
`lost` are history variables of the same name.

### `SiteLifecycle`: rows, instances, routes

`op` is the handler (or the boot loop) that holds `App.siteLifecycleMu`, with
the label it has reached and the result of the manager call it made; `call` is
that manager call, holding `pm.lifecycleMu`; `phase` follows the process from
boot through both passes of `GracefulShutdown` to its end. Each statement that
can fail is a step with a failing alternative that consumes one `MaxFault`.
`adrift` and `unrouted` remember sites whose last operation *reported* that
undoing failed: nothing is claimed of those until an operation on them succeeds
or the process restarts. `Coalescing` names the sites whose drain of progress
reports may fail before anything is closed; properties that need a closed
ingress speak of the others (`Plain`).

### `TrafficQuota`: reservations against usage

A writer reads clock and settings, takes `q.mu`, possibly reloads the usage
(waiting for `trafficMu`, `q.mu` held), gets a grant, settles, and is metered;
below it run the flush, the saving of a billing mode and the reset boundary.
The calendar is a cycle number. The `generation` of the code only ever answers
whether the state was reloaded since a reservation, and that is what a
reservation keeps (`same`). `slipped` counts the bytes that were between settle
and meter at a reload. `Refunded` is the clamp at zero of `settle`, which the proof
shows never to bite. Cache and quota state are recognised by their mode and cycle
alone; once a mode was saved back (`SwitchedBack`) an old cache may pass for current
and lack a flush, and a reload of `q` takes that over, so `UsageIsExact` and
`CacheMatchesLogs` speak of the time before; `CacheAlwaysMatchesLogs` states what the
comment in the code says. `QuotaHeld` needs no such premise. A change of the reset day, which moves the boundary itself, is not modelled.

### `ProgressCoalescer`: debounce, barriers, drain

`entry` is `c.entries`; reports of a key are numbered in the order they come in
(`count`), `sent` is the number its queue last handed upstream and `last` the number
the server was last sent on any way. A report that fails open at a limit, or whose
body cannot be parsed, goes upstream at once, past the queue of its key (`Fallback`); a
Stopped whose client is gone when its barrier is granted is released and never sent
(`DiscardBarrier`). Timers carry the generation
they were armed with; one that was due when it was stopped stays in the model,
as its callback may be waiting for `c.mu`. `stop` is the position of
`ProxyInstance.shutdown` around `drainProgress` and `closeProgress`. Limits shared
with other sites and bodies that cannot be parsed let a request fall back at
any time while it is read. `Close` follows `activeRequests` reaching zero, as in `shutdown`.

### `UpstreamFailover`: one memory, many round trips

`preferred`, `preferredLeft`, `cooling`, `probeLeft` are the fields of
`upstreamFailoverState`; a deadline is kept as the time left until it, because
the code only asks whether it is `After(now)`. `request` is the plan of each
round trip: the classes its lines had when it started (`ordered` is computed
once), the lines it has tried and the one it is at. `BeginEligible` is the
locked section of `ordered`, `BeginWrite` the one of `preferredTarget`; `Succeed`,
`AnswerOther`, `Cancel`, `FailOver` and `Fail` are the outcomes of `RoundTrip` with
the mark each leaves. The kind `unclonable` is a GET with a body, which is
eligible but fails as soon as it would have to be cloned for another line.

### `TelemetryWriter`: one queue for events and commands

`queue` is the channel, `pending` the command that ended a batch, `writer` the
goroutine with its batch and attempts, `caller` the panel calls (each sends the
command of `CommandOf`), `closer` the position of `DB.Close`, which stands for
the write lock of the gate and the closed flag as well. An enqueue is one step:
`TryRLock`, the check and the non-blocking send cannot be separated by a close.
A send holds the read lock while it waits for room. `fate` follows each event
to a row, a clear or a loss; `before` remembers what was accepted when a call
began.

### `InstanceCaches`: the caches of the proxies

`CacheRequests` has the clock and the requests; `CacheFreshness` the arithmetic of
`Cache-Control`, `Expires`, `Date` and `Age` as both caches use it. Time has `Second`
ticks to a second; `max-age`, `s-maxage` and `Age` are whole seconds, the distances to
`Date` and `Expires` are ticks, and the Age that is reported is rounded up to seconds
(`RoundedUp`), so that an entry in its last fraction of a second reports its whole
lifetime; `ServedFresh` allows that and no more. On them stand three modules:

* `ImageCache`: `lru` is the list of the runtime (most recently used first), whose
  restriction to a site is the list of that site; `leader` its flights;
  `reserved` what a flight reserved; `siteBytes` and `processBytes` the two
  counters. `AfterEviction` is the loop of `reserveFlightLocked` as the shortest
  list of evictions that makes room; `Capacity`, `Complete` and `Candidate` are what
  the capture writer ends with.
* `PingCache`: `entries` with its limit, `inflight`, `flightOf` (the generation a
  flight began in) and `generation`. A request looks twice, once before and once
  with the lock that also joins or begins a flight, as `roundTrip` does.
* `AssetCache`: `files` has a body and a metadata file per key, each with the
  answer it came from; `AssetWrite` is the locked part of `write` with the
  failure of each rename, and of the removal after one, and the budget it then
  enforces. `torn` remembers keys where a crash or a failed removal left one
  file of a pair.

`InstanceCaches` composes them with the closing of sites, invalidation, the
panel's clearing and crashes. A request is followed through one cache. In
`proxy_start.go:429-440` and `485-495` an image may miss the asset cache and then enter
the image cache (`asset_cache_test.go:20`, `:224`): there it is a request of its own, as
neither cache asks what the other did.

### `DynamicRuntime`: authorities, capabilities, slots

* `DynamicState`: `authorities` (reservations in flight, committed or not, the
  state of the shared DNS lookup), `known` and the counts of the last minute;
  `book` with the capability entries and the index by target; `occupied` for the
  stream and parse pools. The operators are the functions of
  `dynamic_runtime_state.go` and `dynamic_authority.go`.
* `DynamicRequest`: what one request holds (reservation, lease, stream, parse
  slot, tokens it minted or borrowed, a token it was made with) and the steps
  that every path shares: resolve, mint in its three critical sections, take a
  slot of the site and then of the process, give everything back in order.
* `DynamicRewrite`: the session of `dynamic_rewrite_core.go` around them.
* `DynamicRuntime`: `roundTripDynamic` with its redirects followed, sent to the
  client or minted, `ModifyResponse`, `serve` for a capability, expiry, the
  minute window, and sites that close and open.

A `Target` is a URL, `AuthorityOf` says whose; the configured authority needs no
reservation (`Trusted`). A budget in bytes appears as a refusal at any time.

### `PanelStorage`: restore and certificates over one disk

`PanelDisk` has the files and the vocabulary of file operations: an operation is a
sequence of steps, each with the files it changes and with whether its error is
returned or dropped. `BackupRestore` states export, staging, and the sequences
of `applyPendingRestore`, `rollbackRestoreFiles` and their relatives;
`PanelCertificate` the handler and the scheduler that issue and install;
`PanelStorage` the start of `main.go` over both, the serving panel, the restart
and the crash. The steps left of an operation are in `process.todo`, so a
failure or a crash may come at each. A file is the set of what it holds; a
certificate and its key are a pair if they hold one number.

### `MC...` modules and configurations

An `MC` module gives the sets; a `.cfg` of the run's name gives the bounds. The
type invariants (`TypeOK`) are stated in the modules; where a proof needs one it
is part of the inductive invariant proved in section 4, and no run repeats it.

## 3. Runs

| Run | Instance | Result |
|---|---|---|
| `TrafficAccounting` | 1 request, payload 1, 3 bytes, 2 minutes, 2 faults, fair | all invariants and the refinement hold, counts reach the database while the process serves |
| `SiteLifecycle` | 2 sites, 2 ports, 2 hosts, 4 configurations, 2 faults, fair | all invariants hold, operations finish |
| `TrafficQuota` | 2 writers (symmetric), quota 2, writes of 2, 3 bytes, 1 reset, 1 mode change, 1 fault | all invariants hold |
| `ProgressCoalescer` | 3 requests (symmetric), 2 keys, debounce 1, max delay 2, clock 3, 2 drains, 1 failure | all invariants hold, each queue in order |
| `ProgressLive` | 3 requests, 1 key, 1 drain, fair | `WaitersAnswered` holds |
| `UpstreamFailover` | 3 lines, 2 requests, cooldown 1, preference 2, fair | all invariants hold, the primary comes back |
| `TelemetryWriter` | 1 observation, 2 logs, a flush, a clear, a close, queue 2, batch 2, 1 retry, 1 failed prune, fair | all invariants hold, everyone returns |
| `InstanceCaches` | 3 requests, 2 sites, budgets 4 and 5, 1 ping entry, assets of 2 bytes, 1 leap of the clock (a second, 2 ticks), 1 fault | all invariants hold |
| `PanelStorage` | 2 installations, 4 backups, 1 export, 1 upload, 1 certificate issued, 1 failure or crash | all invariants hold, with the exceptions below |
| `DynamicRuntime` | 2 sites, 2 requests (both symmetric), 2 authorities and the configured one, 3 targets, 2 tokens, limits 1 and 2, 2 events | all invariants hold, routes keep working |
| `BillingModeReturns` | 1 writer, 2 bytes, a billing mode saved and saved back | violated: the usage cache lacks a flush |
| `RestoreRollback` | 1 upload, crashes also during a rollback | violated: the database is removed |

**Why the bounds suffice.** Three bytes let a flush carry one while another
arrives and a third is retried; two minutes make a request streaming; two faults
are a flush that fails and a restart after it. There is one request, which is
served once: a second one takes TLC beyond the time the runs are kept to, the safety
properties of the run are proved for any number of requests, and the run adds
liveness and the mutations. Two faults in the
lifecycle let an operation fail and its undoing fail, two sites compete for
each port and host, and the four configurations let an update keep or swap
either. A quota equal to one write and three bytes of traffic put two writers on
the boundary. Three reports make a batch that is replaced and a barrier behind
it or two timers of one batch; the second key shows that keys share only
limits and the drain; two drains make one that fails and is repeated. Three
lines are a primary, a preferred backup and one that is neither; two round trips
let one work with an order the other has made stale; a longer cooldown only adds
ticks between the same two answers of `After(now)`. Three events fill a queue of
two, and two of one kind make a batch ended by the third or by a command.

Of three cache requests one flies, one follows and one comes after the flight or
evicts what it stored; the requests of one behaviour meet one cache, as the
caches share nothing but the clock and a crash. The image budgets hold one body
and the reservation of another, so that the site's tail, the process's tail and
a refusal all occur; what is left of a lifetime, one to three ticks of half a second,
puts an answer on both sides of its expiry after the one leap of two ticks (`Leap`),
and its Age between two seconds. Sites may close and pings be invalidated with requests open,
although a shutdown waits for its drain first, because the drain may time out.
Two dynamic requests share a token or an authority, one of them with a limit
exhausted by the other, on one site and on two; the two events let an entry
expire and a site close under them, and one redirect is followed before another
answer. Of the backups one has no TLS part, one a pair, one a certificate
without its key's partner, and one a database of another version; together with
an export each meets an installation with and without TLS. One failure or crash
puts every operation in each of its intermediate states; larger budgets of
events only repeat a start from one of these.

Deadlock is not checked in any run: each model ends by exhausting its bounds
(requests, clock, faults), and a process that is down may stay so.

**Fairness.** `TrafficAccounting`: the ticker of `main.go` flushes every 60 s until
`main` cancels its context, right before `GracefulShutdown` (`main.go:362`), and a
transaction returns (SQLite with a busy timeout). Nothing is assumed of requests,
lifecycle calls, shutdown passes or faults. So `EventuallyPersisted` promises nothing
once a shutdown has begun: its two passes flush, but what a request still counts after
the last of them, its drain having timed out, is lost when the process exits.
`SiteLifecycle`: a handler, a manager call, a shutdown pass and the boot loop go
on; each statement, flush and drain in them is bounded by a timeout. New
operations, shutdowns and crashes are not fair. `ProgressLive`: the clock, timer
callbacks, handlers that hold an admission, and dispatches go on; the last
because the transport has timeouts. Clients, cancellations and drains are not.
`UpstreamFailover`: time passes and every attempt ends, as the transport has
timeouts; that eligible requests keep coming and that lines stop failing are
premises of `PrimaryRestored`, not assumptions. `TelemetryWriter`: the goroutines
that can run do; the queue gives a blocked sender its place (Go channels are
FIFO), events are finite in the model.

**What the violations show.** `RestoreRollback` disagrees with the comment at
`backup_restore.go:899`: the rollback moves its copy of the database back, and
the marker goes only afterwards. A crash in between makes the next start roll
back once more, without a copy: it removes the live database and ends with an
error, at every start. The shortest trace stages a backup of another version,
applies it, fails to open it and crashes while reverting.

`BillingModeReturns` disagrees with the comment at `proxy_lifecycle.go:192`, which
has the persisted usage loaded once per billing-mode change and advanced by every
flush. A flush advances the cache only if the cache has the mode in force
(`proxy_lifecycle.go:186`) and marks it otherwise in no way. The trace: a request
loads the cache, a write settles and is metered, the mode is saved, the flush
commits, the mode is saved back; the cache, of the same mode and cycle as before,
is used again without the flushed bytes. The gate admits requests beyond the
quota by that amount until the next reset boundary. A usage query under the other
mode, or no flush under it, leaves the cache right; the proof of `CacheMatchesLogs`
shows that in the model nothing breaks it before a second change of mode.

**Behaviour the models have and no property claims otherwise.** These were found
while modelling; the runs are bounded or the properties worded so that the rest
is still checked.

1. `finish` and a flush may count one request twice: the flush charges the
   bucket, the next one infers a residual request from `pendingRequests`
   (`request_traffic_meter.go:122-129`; `traffic_timeline_test.go:180` expects 1).
   `ViewsAgree` says that no request is missed.
2. `StopSite` reports a closed ingress for any error of `shutdown`, also for the
   one of draining progress reports that comes before closing
   (`proxy_manager.go:204`): the row is disabled, the site serves on. Properties of
   `SiteLifecycle` that need a closed ingress are about `Plain` sites.
3. A `trafficQuotaState` that is reloaded from such a cache (the finding
   `BillingModeReturns`) starts from a usage that is too small; `UsageIsExact` is
   stated until a mode is saved back, like `CacheMatchesLogs`.
4. A drain that ends as its deadline passes may be reported as failed and leave
   the instance up with a coalescer that refuses every report
   (`legacy_progress.go:1032-1043`).
5. A redirect that was followed internally and then answers with one that is
   sent to the client, minted or handed back returns without releasing its
   stream and its lease (`redirect_transport.go:596-602`, `702-719`, `798-816`).
   With `OneWay = FALSE` and `MaxRedirects = 2`, TLC violates `EverythingReturned`
   in a second; with `TRUE`, as in the run, all other paths are covered. The tests
   `dynamic_redirect_runtime_test.go:1715` and `:2341` expect no leaked permits.
6. The certificate, its key and the marker are written one by one: a crash
   between two of them (`NoCrashIn` has `installing` and `restoring`) leaves a pair
   that every start refuses.
7. A TLS file whose copy to the rollback directory fails is removed by the
   rollback that follows, with all others not yet copied, as `rollbackReady` is
   set before them (`NoFailureIn` has `copyingTLS`).
8. Settings that are committed but cannot be read back make the handler put the
   earlier files back under the new settings (`readBack`); a write that fails
   while files are put back, or rolled back, is dropped (`restoring`,
   `rollingBack`).
9. An export does not take the mutex of the certificate manager, and may read a
   certificate and a key of two generations (`ExportsAlone`).
10. `defer trafficMeter.finish(time.Now())` charges a request to the minute it
   started in (`DeferFinish`); a second replacement of an instance takes over
   per-direction baselines that the first never copied into `inst.Site`
   (`Install`); a success on a backup lifts the reservation of the recovery probe
   (`MarkSuccess`).
11. Not in a model: `os.RemoveAll` is one step here; two handlers that issue at
   once could restore each other's files; the scheduler's disabling acts on a
   status read before; an asset whose removal fails keeps its bytes outside the
   budget (`torn`); `ProxyManager.StartSite` leaves an entry in the dynamic
   runtime's table of states when a later step of it fails; the answer to a HEAD of a
   manifest is accepted without a parse slot (`dynamic_rewrite_core.go:707-728`) and is
   here a document without URLs that takes one.

12. `Recoverable` needs that at most one installation of a certificate fails. With `MaxEvent = 2` and `MaxIssue = 2` TLC violates
   it: the install of a handler fails after it wrote the key, and the mutex is free
   before the handler puts the files back (`app_panel.go:239-251`). The scheduler
   takes the old certificate and the new key for the files to keep
   (`panel_certificate_renewal.go:105-110`); when its own install fails too, after the
   handler has put the right pair back, it puts the mixed pair back over them, and
   every later start with TLS refuses it. `PanelIsRecoverable` assumes that no write of
   an installation fails (`NoFailureIn` has `installing`), or that this is the one
   failure there is (`MaxEvent = 1`, as in the run).

13. A report that fails open at a limit, or whose body cannot be parsed, is sent at
   once while older reports of its key may wait in the queue
   (`legacy_progress.go:893-899`; `progress_coalescing_test.go:292` has a second report
   overtake the first): the queue then leaves the server on an older position.
   `NeverBackwards` says that this is the only way, and that each queue is sent in
   order. A Stopped whose client has gone by the time its barrier is granted is not
   sent at all (`legacy_progress.go:953-956`), like one that is cancelled before;
   `NothingDropped` claims a Stopped only as long as its request is there, and that no
   other report goes with it.

## 4. Proofs

Each proof module states its theorems for every value of the constants, under the
assumptions the modules name: sets of requests, writers, keys and events are
finite; payloads, sizes, delays and the quota are positive naturals; bounds are
naturals. Each theorem `Spec => []P` rests on an inductive invariant, one lemma
per action that the action keeps it, and a lemma that puts the actions together.
TLC checked each inductive invariant on a small instance first.

**`SumTheorems`.** Totals of traffic are sums over minutes, cycles, directions and
requests, computed by `SumFunction` as a fold. That a fold follows its recursive
equation is an induction; it is made here over *sets*: `NatSetInduction` (a set
that contains 0 and all successors contains every natural) follows from a smallest
missing number, `RemovalInduction` (a set of subsets of S, closed under adding an
element, contains S) from it. From these follow the laws the other modules cite:
a sum of naturals is one, a term can be taken out, a sum changes by what one term
changes, sums of sums.

**`TrafficAccountingProofs`.** `TrafficIsConserved`, `BaselineIsTheRow`,
`InstancesLeaveNothingBehind`, `AccountingImplementsLedger` (`Spec => Ledger!Spec`),
`NothingIsOvercharged`, `TypeCorrect`, `ViewsAlwaysAgree`. None of the invariants is
inductive. `Conservation` breaks in `Install` and `Remove`, which zero the counters,
unless nothing is pending there (`LeavesNothingBehind`); that needs that a call past
its drain has no active request and that its final flush found the swapped-out
state (`FlightShape`, `JobShape`); `BaselineIsRow` breaks in `Install` unless the row
copy of the caller is never ahead of the row and is exact when there is no
instance to flush (`RowCopy`); a crash needs `AbsentIsClean`. The refinement takes
`IInv` for the facts about a flight: a `FlushCommit` is a `Checkpoint` of the flight's
bytes, which are outstanding by `Conservation`; a count is a `Count` within
`MaxServed`; an exit loses exactly the outstanding bytes; every other step
stutters. `ViewsAgree` needs `ViewInv`: every served byte is in exactly one bucket,
local to a meter or lost (`Timeline`), buckets never get ahead of the totals in
logs and flight (`NeverAhead`, since a flush swaps both under one mutex), row and
logs change in one transaction, and a finished request stays in a bucket, in a
flight or in the logs (`Bucketed`).

**`RequestPathProofs`, the quota.** `UsageIsAlwaysExact`, `QuotaIsHeld`, `CacheIsTheLogs`,
`TypeCorrect`. The invariant `QInv` says why an old mode or cycle never passes for
the current one: whatever carries a mode has the one in force or none as long as
nothing was saved (`OldMode`), every cycle kept is at most the clock's and, during a
flush, at most the flush's, so a flush that commits late finds no cache of a newer
cycle. `ReservedBy(writer) <= q.usage` shows that a refund is never cut off, and
that a write was charged iff the mode of `q` bills its direction lets a settle
after a reload add exactly what was not. Before the first reservation nothing has
been delivered, therefore nothing can slip past the first load, and until a second
one `q` is exact for the mode it has (`Exact`), whatever is saved meanwhile. Trying this invariant with two saves led to the
finding `BillingModeReturns`.

**`RequestPathProofs`, the failover.** `PreferredLineIsHealthy`, `EveryLineGetsItsChance`,
for any number of lines (at least two). `PreferredIsHealthy` is inductive with `FailoverTypeOK` (a
mark either takes the preference and sets the cooldown, or gives it and lifts the
cooldown; time only shortens cooldowns). `FailureIsExhaustive` needs `PlanInv`: a
request under way that cannot be replayed has used no line yet.

**`SiteLifecycleProofs`.** `RowsSayWhatRuns`, `RoutesFollowRows`, `RowsOutliveInstances`,
`ShutdownIsFinal`, `TypeCorrect`. The properties speak of the moments between
operations; `IInv` says what holds in the middle of one, separately for the site of
the operation, stage by stage (`OpShape`, `OpRow`, `OpInstance`, `OpMatches`,
`OpRouted`), and for all other sites, which a step leaves alone (`OthersMatch`,
`OthersRouted`). `AcceptingIsEnabled`, true at every moment, is what lets an
operation on one site be ignored by all others and survive a boot;
`UniqueRows` makes rolling back an update possible: the row put back collides with
none.

**`QueueProofs`, the telemetry writer.** `LossIsAlwaysCounted`, `BarriersAlwaysHold`,
`StoppedIsDrained`, `TelemetryTypeCorrect`. The argument is about `Commands`, the kept command
followed by the queue: each step leaves it alone, appends one or takes the first.
An accepted event is in one command or the batch (`OnePlace`); nothing accepted
before a panel call is behind its command (`NothingBehind`); the stop is last, as a
close takes the gate when no sender holds it (`StopIsLast`).

**`QueueProofs`, the progress coalescer.** `UpstreamNeverGoesBack` (an action property),
`NothingIsDropped`, `AnswersAreOwnOrLater`, `DrainedIsDelivered`, `LimitsStayBalanced`,
`TypeCorrect`. The queue of a key is sent in order, and the server is sent an older
report after a newer one only where the newer one passed the queue (item 13 of
section 3). `KeyInv` ties one entry to the requests of its key: its queue is in
the order of acceptance, a request waits in exactly the work that carries it or a
later one, the count of waiters is their number. Every operation on an entry
keeps it whatever the drain does; `DrainState` says what each state of the drain
knows of the admissions and of all entries.

**`InstanceCachesProofs`.** `BudgetIsExact`, `ServesFresh`, `NothingOutlivesInvalidation`,
`FilesAreConsistent`, `FlightsHaveTheirLeader`. The caches share the clock and nothing
else, so `IInv` is one invariant for each. First come the laws of lists that all
three need: what `Kept` keeps and costs, that moving an entry to the front or
dropping a tail costs no more, for the list of a site and for all at once (`Thins`);
they are inductions over sequences, made over sets of sequences. For the image cache
`BillInv` is the budget with what each site owes for reservations as a sum over all
requests (`DueTo`). It is kept because every step is one of three kinds: it makes the
list thinner, it changes what one request has reserved (`OneDueChanges`: a leader
takes what there is room for, a finished flight pays for what it stores out of what it
returns), or it returns the reservations of one site (`DuesReturned`). That what a
flight stores never lands in a closed site needs `FlightInv` (who is in the table flies
for that key) with `ClosedInv`. The capping of the counters at zero in the code never
acts: `BillsFollow` proves it on the way. The ping cache needs that an entry being read
carries the generation of its flight (`ReadsForItsFlight`), so the check in
`finishFlight` is enough. For the assets, `Paired` says that metadata beside a body was
written with it unless a fault tore the key, and the budget is stated for the whole
pairs, which eviction measures by their metadata.

**`DynamicRuntimeProofs`.** `UsesAreCounted`, `PublishedTokensAreCommitted`, `RoutesAreKept`
(an action property), `LimitsAreKept`, `TypeIsKept`, and under `OneWay` `AuthoritiesAreCounted` and
`EverythingIsReturned`, for any finite sets of sites and requests and any
authorities, targets, limits and bounds. Every count of the runtime is a sum over
requests, plus one over provisional tokens; what makes such a sum provable is to
know what a request holds from where it is. `Fits` says that: which reservation,
tokens and slots a request has at each place (`ReservationFits`, `TokensFit`,
`SlotsFit`), what it is doing there (`DoingFits`), and when it can have forgotten
something (`ForgetsNothing`). The counts are then three tables, of reservations
(`HeldTable`), uses (`UsesTable`) and slots (`HoldersOf`), and each operator of
`DynamicState` has a lemma on what it does to them: `Deleted` leaves a token's uses
alone if nobody uses it, `FinishAuthorities` takes exactly what it is given,
`Added` moves a reservation from the request to its token, publishing and giving
back settle the uses of one session and no other's (`SettlesUses`). An action is one
of these with one request that changes its record (`Replaces`), so that one term of
each sum moves. `CommittedFits` (a published token's authority is committed) needs
that a committed authority is never forgotten and that a session which publishes a
token finishes its reservation as committed in the same step. In
`Covers` each count is at least what is held; under `OneWay` it is equal. The weaker half
is proved without `OneWay`: whatever a response forgets (item 5 above), no count falls
below what is held, and tokens and routes are right regardless. `LimitsAreKept`, too,
holds without it: whoever registers, reserves or takes a slot asks for room first, in
the step that takes it (`Moves`), and what is counted is never below what is held, so
the requests that hold a stream are never more than the limit, even when a site closes
and comes back with new pools or a response leaked its slot. No run checks it any more:
TLC did, on the instance of `DynamicRuntime` with `OneWay` FALSE and one event.

**`PanelStorageProofs`.** `RestoreIsAtomic`, `ServingIsSettled` and
`PanelIsRecoverable`. The first two are for any installations and uploads, any number
of exports, uploads, certificates, failures and crashes. The invariant says what the
disk is wherever `main` may be (`ByPlace`): `Settled`, the installation that was last
served or the staged one in place and no marker; `Replaced`, the staged one in place
with the old one whole in the rollback directory; and in the middle of an operation,
where only the steps still to do are known, what the files will be when these are
done. `Leaves(d, todo, p, v)` says it of one file, in the disk or by the last step
that touches it; `Rolling`, `Applying` and `Finalizing` say it of the files that
matter, with the order that makes a failure at any step harmless: copies before the
marker, the marker before anything live changes (`MarksFirst`), the old files before
the directories. A step that is done takes itself off the list and keeps what the list
leaves (`RollingLeaves` and its like), an operation that begins has the list that the
code builds (`ApplyRestore`, `RollbackFiles`), a crash finds `Settled`, or the marker
with the old installation stored. The serving panel writes TLS files only
(`HandlersOK`), and a backup staged by it has its secrets under this server's keys.
The hypotheses: a rollback is neither interrupted nor failing and a TLS file can be
copied (`Spared`; items 7 and 8 of section 3 and `RestoreRollback` show what happens
otherwise); the secrets of an upload are encrypted with the keys that came with it, as
`reencryptRestoredSecrets` refuses all others (`UploadAssumption`); and the first
installation is readable with this server's keys (`InstallationAssumption`).

`PanelIsRecoverable` is `Recoverable`, of which the invariant above gives the database
and its log. That certificate and key are a pair needs more: `Recoverable` looks at a
panel that is down, and the serving panel writes the two files one after the other,
for two issuers, with a copy of the earlier files that may be put back much later.
`TLSInv` says that they are a pair when nobody holds the mutex of the certificate
manager (`Whole`); that the writes left to who holds it make them one (`WritesPair`,
by the steps still to do, like `Leaves`); that the files kept to be put back are one
(`KeepsPair`), and that there are files wherever the settings ask for TLS or are about
to (`Asked`: a setting read before, a scheduler that renews). The one installation
that may fail leaves a mixed pair in place until it is undone, and whoever copies the
files meanwhile keeps a mixed pair: the invariant allows both once no other failure
can come (`Over`), as only a failure would put the copy back. An upload may hold a
pair that does not match: `writeRestorePending` does not ask, and the start refuses it
and rolls back. So a mixed pair may be live while a restore can be rolled back
(`WholeAt`), if its settings ask for TLS and its certificate does not expire before
`tlsConfig` reads it (`PairOrRefused`). An expired certificate of another server that
does not match its key would be accepted with TLS given up, and be found by whoever
asks for TLS again. The hypotheses, beyond `Spared`: `Careful`, what items 6, 8, 9 and
12 of section 3 are the exceptions of, and `PairsGiven`, the pairs of the first
installation and of the uploads. The run's constants satisfy both. TLC checked
`TLSInv` before it was proved: on the run's instance (2.9 million states), and with
`MaxEvent = 2` and `installing` in `NoFailureIn` (7.3 million).

**Only model-checked.** Liveness (`EventuallyPersisted`, `OperationsFinish`,
`WaitersAnswered`, `PrimaryRestored`, `EveryoneReturns`): fairness and `ENABLED` are
out of the prover's reach. Every other property of the passing runs is proved.

## 5. Not modelled

Within the modelled parts: text (bodies, headers, keys of caches, manifests),
the judgement of a target by the dynamic policy, the workers behind a DNS
lookup, learned playback paths, budgets counted in bytes other than the image
cache's, the dialogue with a certificate authority, the ACME account files, the
archive format of a backup, the calendar, and rate limiting. `PROJECT.json` says
so for each component.

Whole components: accounts (single statements over one row), Telegram reports
(one goroutine with a mark of its own), connection limits (a semaphore with one
guarded release) and tunnels, migrations (one transaction at startup), request
validation, dashboards and diagnostics (stateless or read-only), the installer
and the browser code.

## 6. Plan

1. `SiteService`, the abstract lifecycle of one site, with `SiteLifecycle`
   shown to implement it; `trafficCycleStart` as a function over a bounded
   calendar, against a reference definition.
