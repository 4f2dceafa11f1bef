# A TLA+ model of xmr-node-proxy

xmr-node-proxy stands between many miners and a few upstream mining pools: it
holds one login at each pool, splits the pools' block templates among the
miners, checks the miners' shares and forwards the good ones, and balances the miners among the pools. This directory
models the parts of it that are made of state and of events in an order nobody
chose: the connection to an upstream pool, the path of templates, jobs and
shares through master and worker, the nonces that make one job different work
for every miner, the miners' sessions and their difficulty, the verification of
shares, the login allowlist, the balancing, and the primary process that forks,
reloads and stops all of it. TLC checks small instances; TLAPS proves what
matters most for every size.

Paths such as `proxy/pool.js` are below `src/`.

## The system

One primary process (`proxy.js`) runs a *master* and forks *workers*. Master and
workers talk over the cluster's IPC channels, one FIFO channel per direction and
worker. Every process is one event loop: a callback runs to its end, or to its
next `await`, before anything else happens.

    upstream pool <--TCP/TLS--> UpstreamPoolClient --- MasterController
                                                         |        ^
                      poolState, newBlockTemplate,       |        |  needPoolState, shareFind,
                      enablePool, disablePool, changePool v       |  workerStats, workerStatsRemove
                                                      WorkerController --- MinerProtocol <--TCP/TLS--> miners

| component | state it keeps | operations | what is hard | correct when | module |
|---|---|---|---|---|---|
| Upstream pool client (`proxy/pool.js`, `handlePoolTemplate` of `proxy/master.js`) | socket, `connected`, `enabled`, active template, reconnect timer, pool id, `sendLog` | start, stop, connect, login, jobs, replies, errors, close, keepalive, shares | seven error paths drop the socket; lines of one chunk outlive it; replies to requests of any age | never without a way to reconnect; never disturbs a living connection; serves only work of its present connection; workers are told | `UpstreamPool`, `PoolFeed` |
| Template fan-out and share routing (`proxy/master.js`, `coins/template.js`) | per pool: readiness, template, the last 8 jobs of each worker | hand out templates, enable/disable, `needPoolState`, balancing, share lookup | messages in flight both ways while pools come and go | shares find their pool and job; no worker is left without work the master has; no two workers get the same work | `JobPipeline`, `NonceLanes` |
| Worker controller (`proxy/worker.js`) | per pool: `active`, template, 4 past ones; `activeMiners`; servers | the master's messages, failover, statistics, stop | several messages about one pool, a pool that lags, workers that start late | miners are on live pools and on the newest work; no stale work | `JobPipeline`, `MinerSessions` |
| Miner protocol and sessions (`proxy/miner.js`) | session: pool, jobs; waiting logins | login, getjob, submit, keepalive, retarget, close | a login that waits for work while its socket, its timer and the pools move on | no login forgotten or handled twice; no live session lost; no dead one kept | `MinerSessions`, `JobPipeline`, `NonceLanes` |
| Jobs and templates (`coins/template.js`) | `validJobs`, `workerJobs`, ids, pool and worker nonces | job creation, reuse, mapping a share back | three bounded windows that must fit together; two counters that start again | every share accepted by the worker is known to the master; no two jobs are the same work | `JobPipeline`, `NonceLanes`, `CircularBuffer` |
| Pool usability, bounded history (`proxy/common.js`) | none | `isPoolUsable`, `CircularBuffer.enq` | chains of different height | | `PoolUsability`, `CircularBuffer` |
| Cluster runtime (`proxy.js`) | the current master, workers, `reloading`, `shuttingDown` | start, worker exit, reload, stop | crashes, reload and stop interleave at every await; a killed worker may exit late or never | never short of workers, never two masters, every worker with the right one, reload and stop finish | `ClusterRuntime` |
| Pool balancing (`proxy/balance.js`) | none | `planPoolRebalance` | rounding, whole miners, unusable pools, the developer share | never for the worse; dead pools emptied; developer's share and backups kept | `PoolBalancing` |
| Share validation (`coins/share.js`) | verification budget and window; the nonces a job has seen | process a share | a budget that all miners of a worker share, and that resets at a border | hashing is bounded; what goes upstream unverified does so only under load; no work counts twice | `ShareVerification`, `NonceLanes` |
| Variable difficulty (`proxy/miner.js`, `getJob` of `coins/template.js`) | `difficulty`, `newDiff`, `incremented` | retarget, nudge after a late share, cap by the pool's target | three writers of one number, applied only with the next job | jobs within the upstream's target; a new difficulty takes effect; nudges do not add up | `VarDiff` |
| Access control (`AccessControl` of `proxy/common.js`) | cached entries, signature, time of loading | `isAllowed` | a file that changes between the look at it and its reading | a removed entry ends in time, a listed login is admitted | `AccessControl` |
| Line parser (`proxy/common.js`) | buffer | `push` | chunk boundaries | | not modelled |
| Standalone runtime (`proxy.js`) | the same controllers in one process | start, stop, reload | | | not modelled |
| Statistics and summary, HTTP monitor, configuration, algorithms and blobs, scripts | | | | | not modelled |

`PROJECT.json` lists the components with what is left out of each, and the
hazards of the code, each at its line, with the properties that would notice it
biting. A hazard without a property says why.

## Modules

### UpstreamPool

One `UpstreamPoolClient` and the master's intake of its templates. Each callback
is an action (`Connect` is the timer, `SocketConnected` the `connect` event,
`SocketClosed` the `close` event, one action per kind of line), and the methods
the callbacks share (`markUnavailable`, `destroySocket`, `scheduleConnect`,
`sendData`) are operators with the names of the code. `socket` merges
`this.socket` with the state of the stream it names, since the difference
between "destroyed, `close` is due" and "closed, but `this.socket` still names
it" is where the error paths differ. `fresh` in `template` and the values of
`poolId` are history: which connection something came from. The upstream is the
environment: it may drop, refuse and end connections, send garbage, empty,
malformed and repeated jobs, answer each request with any reply or error, send
errors that answer nothing (`Unasked`), speak HTTP (`HttpProbe`), or be silent.
What it does not do is push jobs to a connection it has not logged in. `busy` is
the idle timer of the socket: what is read or written sets it, `Silence` clears
it, and `IdleTimeout` destroys a stream only then. A line that is the JSON value
`null` (`NullLine`) kills the primary process, since nothing catches the
TypeError: the client is then "crashed", which to the feed is "stopped".

`PendingMethods` says which requests it may answer "No block template yet".
Pools say so to a login; the code handles it for every request and for none, and the
configuration `UpstreamPoolStale.cfg` shows that it does so wrongly.

### PoolFeed

What a client promises whatever happens to it: work comes over a link and goes
with it, and the workers are told in the same step of either. `UpstreamPool`
implements it: `Feed == INSTANCE PoolFeed WITH link <- socket \in Alive,
work <- template.blob`. A callback is one step of the feed or none; that none is
two is the point, since between two the master would serve work without a link
or workers would mine for a pool that is gone. `PutOff` is the one loss
of a link the workers are not told of, a reply "No block template yet" to a first
login: there was no work yet.

### CircularBuffer, PoolUsability

`Enq` is `CircularBuffer.enq`; `IsPoolUsable` is `isPoolUsable` of
`proxy/common.js`, which master and worker use with different ideas of "ready".

### JobPipeline

The master's side of every pool, one worker and its miners, with both channels
as sequences. Workers share nothing in the master except the pools, so one is
enough. A template handed to the worker is named by its number among those of
its pool (the code draws a random id); that makes "newer" and "within the
window" expressible. A miner slot is one session at a time: its pool and its
`validJobs`. `handlePoolTemplate`, `applyNewBlockTemplate`, `checkActivePools`
and the others are one action each, with the pushes and broadcasts they end in.
`chooseInitialPool` prefers the default pool, then takes the first usable one in
configuration order: `InitialPools` lets it be any of the usable ones, and
`CheckActivePools` takes one fallback for all miners: nothing the choice reads
changes while the code walks the pools. `RejectTemplate` is a template the
worker's constructor throws on. `WorkerRespawn` is a worker that dies and the
new one in its place. Balancing is any `changePool` to a usable pool, for a miner
that may have left by then. `heldBack` is history: the pools whose last template
was not sent because their chain's other pools are too far ahead.

`MayReject` turns rejected templates on or off: with them the worker keeps older
templates than the master's window is sized for, so the two window properties
are about `MayReject = FALSE`.

### NonceLanes

One pool, its upstream and several workers: how one upstream job becomes
different work for every miner and how a share finds its way back. What makes a
hash input unique is a *lane*: the blob of the upstream's job, the pool nonce
the master writes into it for a worker (`blobForWorker`), and the worker nonce
the worker writes into it for a job. Miners are not modelled apart: a job is one
miner's, and `jobs` holds every job with the nonces submitted for it. The lane
in a job, in a share and in a submit is history, what the miner really worked
on; `prepared` is the lane the worker rebuilds to check the share, and a
submit's other fields are what the upstream rebuilds it from. `SendTemplates`
serves the workers in any order (`rank`), as `cluster.workers` may list them.
`Respawn` is a worker that dies: its jobs, its counter and its channels go, the
master's windows stay.

Of the upstream it is assumed that a job on a connection carries either the
current blob again or one never seen, and that a new connection has blobs of its
own: jobs of different logins differ in the instance's extra nonce.

### VarDiff

One session's difficulty: named or not at login, measured again by the timer
(`UpdateDifficulty`, with any of the hash rates in `Speeds`, which stand for what
the session's counters may have led to), nudged by one in alternating directions
by a share that came too late, capped by the target of the pool. `newDiff`, 0 for
null, waits for a job that is not reused. Pools are a number of templates and the
newest one's target. `base` is what login, retarget or cap set last; `idleNudge`
marks sessions that had late shares while their pool had no template: each of
these overwrites the nudge before it and still turns the direction round, so
`NoDrift` does not hold for them, and says so. Difficulties are whole numbers
from 1; a login may also name a fraction, which is left out.

### ShareVerification

`processShare`: what a share claims, how its algorithm is checked (by hashing or
by a cycle) and what its check comes to decide whether it is refused, believed,
checked or forwarded. A check may find the share good or bad, or fail: it throws,
its mixhash is missing, its algorithm is unknown. The code counts a check before it
hashes anything, so a failing one uses the budget up like the others. An error
before the claim is compared makes a share `unreadable`, which is refused.
`count` and `windowAt` are the worker's budget and window, `checked` the times of
all checks begun. Which shares come, and when, is free. The clock does not go back.

### AccessControl

One login and the file that lists it or does not, or cannot be read. `isAllowed`
looks at the file's signature and then reads it, and after a miss does both
again: each system call is an action of its own, and another process writes the
file between any two. Within a worker logins come one by one, since the code is
synchronous. Every change gives the file a signature it never had: a change of the
same size within one timestamp is not noticed by the code and not modelled.

### MinerSessions

The connections of a worker's miners: logins (at once, or waiting for a
template until it comes, 5 s pass or the socket goes), `activeMiners`, the
reports and removals sent to the master and its `stats`, and the worker's
`stop()`. The n-th session of socket s is `<<s, n>>`; `socket.minerId` is the
last. What `chooseInitialPool` would return is one variable, `work`, with three
values (no template, a template on an unusable pool, a usable pool); which of
them follows which is in `NextOffer`. A refused login changes nothing and has no
action. `keepOffline` (`keepOfflineMiners`) and who is behind a socket are chosen
at the start.

### ClusterRuntime

`ClusterRuntimeManager`. `reload` and `stop` are async, so each stretch between
two awaits is an action and `reloadAt`, `stopAt` say where each is suspended.
What is ready to resume does so before any other event is handled (`Resuming`).
A worker that was sent SIGTERM may exit before the 2 s deadline, after it or
never. `master` is the number of the controller that `this.master` names, and
`running` the controllers that really run. `start()` of a new controller may throw
where it starts the monitor, since nothing checks `httpPort` before `listen` does:
`ReloadFails` is that end of a reload, with the new controller running and no worker
forked, and `failed` remembers that the last reload ended so. A config that cannot be
loaded ends a reload before anything happens, and is no action.

### PoolBalancing

`planPoolRebalance` as operators, each named for what it finds, and a fleet it is
applied to while pools come and go and miners change their speed. The greedy
passes over the code's maps are folds over sequences (`Take` is all three of
them: a budget, and what is left of it when to stop; `Only` selects from a
sequence). The pools of a configuration and the miners of the fleet are keys of the
code's maps, so that neither sequence has anything twice. Several pools may be
configured as developer pools: the last, `DevPool`, gets the developer's rate;
the others (`EarlierDevPools`) count neither as user pools nor in the total of the
shares, and keep their own share of it as it is configured. Rates are integers, and the
target rates are rounded down as in the code, which computes percentages in
floating point and may be one less where a quotient is exact. A balancing is one
step: `JobPipeline` has the messages that carry it out.

## Runs

The passing runs together take every action of every module.

| run | instance | shows |
|---|---|---|
| `upstream_pool` | two blobs, two requests of a kind outstanding, pending reply to logins only | `ImplementsPoolFeed`, `NeverStranded`, `TimerOnlyWhenDown`, `UsableIsFresh`, and `Recovers`: a running client becomes usable again and again |
| `job_window` | two pools, two heights (one can lag), one Grin miner, four templates a pool, windows 3 (master), 1 (past), 2 (jobs) | `ShareFound`: an accepted share that is routed right is found by the master. `RecentTemplatesKept`: the worker keeps what it should. `NoWorkWithheld`: a worker that has read its messages can use every pool the master can, unless the pool's template was held back, or the worker has old work of such a pool or of one that is down |
| `job_failover` | two pools, two heights (one can lag), rejected templates, windows 2/1/1, two templates a pool | `MinersOnNewestWork`, `UpPoolsAreActive`, `FailoverIsComplete` (after a `disablePool` nobody stays on an inactive pool while a user pool is usable), `NotLeftOnInactivePool` (nor for good, if there was none then) |
| `nonce_lanes` | two workers, two upstream jobs, four templates and four jobs handed out, one nonce, windows 2 and 1 | `DistinctWork`: no lane is given to two miners. `ShareReconstructed`: worker and upstream rebuild the lane the miner worked on. `CountedOnce`: no lane and nonce count twice |
| `miner_sessions` | two sockets of one miner, two logins, two reports waiting | `StatsAreSessions`, `LiveSessionsKept`, `PendingSettled`, `GoneMinersReported` |
| `variable_difficulty` | two pools, targets 1 and 5, four templates a pool, three hash rates, bounds 1 and 6 | `JobWithinTarget`: no job is harder than the upstream wants. `DifficultyInForce`: nothing but a template stands between a new difficulty and its use. `NoDrift`: late shares leave the difficulty within one of what was given |
| `share_verification` | budget 2 in a window of 2 ticks, three shares a tick, eight ticks | `VerificationBounded`: at most twice the budget of checks is begun in any time as long as a window, across borders too. `UnverifiedOnlyWhenBusy`: an unverified share goes upstream only if a budget of checks was begun within the last window, whatever they came to; any other is genuine |
| `access_control` | refresh of 2 ticks, eight ticks, four changes | `RevokedInTime`: a login that comes a refresh time after its entry was removed is refused. `AdmittedAtOnce`: a login listed from its arrival to its answer is admitted |
| `cluster_runtime` | two workers, eight forks, three masters | `NeverShort` (outside a reload or a stop, and unless the last reload threw), `ServingIsAttached`, `OneMasterRuns`, `Completes` |
| `pool_balancing` | two weighted pools, a backup and two developer pools, three miners of three speeds, anywhere | `NeverWorse` (the distance to the target rates does not grow), `MovesAreUseful`, `DeadPoolsEmptied`, `SharesRespected` (the developer's share and the backup pool are kept) |

A module's `TypeOK` is checked in one of its runs or proved (`VarDiff`,
`ShareVerification`, `AccessControl`), or both. Two further runs, `job_misrouted`
and `miner_relogin`, end in a counterexample on purpose; they are among the
findings below.

**Bounds.** Two blobs distinguish "the same again" from "another"; jobs have no
other content that matters. Two requests of a kind are enough for a late reply
beside a new request. Two pools are needed for failover, misrouting and a lagging
pool, and two heights for the lag. The windows keep their order (the master's
wider than the worker's) at the smallest sizes; the proofs cover all of them,
the code's 8, 4 and 5 included. The number of templates is large enough to push
entries out of every window (four through windows of 3 and 1). Channels hold up
to three messages in `job_failover` (an `enablePool`, its template and one more), two
in `job_window`; only the answer to a `needPoolState` is sent beside the bound, as in one
step it may be longer. Two sockets of one
miner are the case in which logins interfere (with two miners nothing is a
duplicate), and two logins are two sessions on two sockets or on one. Eight forks
and three masters allow two reloads with a crash around each. Three miners of
speeds 0, 1 and 5 and thresholds of 2 and 1 (100 and 50 in the code) make every pass
of a balancing do something: miners too fast to be freed or to fit, deficits that
donors fill, a remainder; one of the pools with a share is twice the other, and
the developer's is a quarter of all, and so is the earlier developer pool's of the rest. One nonce is enough in `NonceLanes`: what
can go wrong with a second submission goes wrong with the same nonce, and the
counters are what keeps lanes apart; two upstream jobs and four templates let a
respawned worker meet a repeated and a new job. A target below the minimum
difficulty and one below the maximum make the cap bite in `VarDiff`, and four
templates push jobs out of both windows. Time for three windows and for three
refreshes lets a border follow a border. Every placement is an initial state, since
logins, failovers and earlier balancings leave the miners anywhere. Bounds that stop
an action stand in its guard under the constant's name (`MaxOutstanding`,
`MaxIssued`, `MaxDown`, `MaxUp`, `MaxQueue`, `MaxJobs`, `MaxHanded`, `MaxSessions`,
`MaxForks`, `MaxMasters`, `MaxTemplates`, `MaxShares`, `MaxTime`, `MaxChanges`).
`MCNonceLanes` takes the workers as interchangeable (`WorkerSymmetry`); that run has
no liveness property.

**Deadlock** is checked in every run but those of `UpstreamPool`,
`MinerSessions` and `ClusterRuntime`, which may come to rest: a stopped client, a
stopped worker, a stopped proxy.

**Fairness.** Weak fairness for what the event loop does by itself: armed timers
fire, due `close` events and queued messages are handled, awaits resume. Strong
fairness where something only comes up again and again: in `UpstreamPool` a stream
that is idle again and again is timed out at some time. The
environment, tried for ever, at some time completes the handshake and accepts
the login with a good job, and while the pool is not usable it does not keep the
stream busy for ever; without that no client could recover, since traffic of any kind
starts the idle timer anew. In
`MinerSessions` the statistics interval and `close` events, because the bound on
the channel, which the code does not have, disables them at times. Nothing is
assumed of miners, of crashes, of reloads, or of workers exiting: `Completes`
rests on the 2 s deadline alone. It does assume that the monitor's open HTTP
connections end.

## Findings

Seven disagreements between the code and what a comment or a test says of it.
Two are runs of the project (`expect: violation`); the other five are kept as
configurations that end in a counterexample, for example
`tlc -config JobStale.cfg MCJobPipeline`.

| configuration | module | property | what happens |
|---|---|---|---|
| `JobMisrouted.cfg` (run `job_misrouted`) | `MCJobPipeline` | `ShareReachesItsPool` | a share is looked up by its job's pool in the worker and then sent to the pool its miner is on *now*; after a move the master drops it |
| `MinerRelogin.cfg` (run `miner_relogin`) | `MCMinerSessions` | `DisconnectedAreRemoved` | a second login on a live socket leaks the first session: the `close` callback knows only the last |
| `UpstreamPoolStale.cfg` | `MCUpstreamPool` | `UsableIsFresh` | "No block template yet" in answer to a request of a live session drops the socket without dropping the template, and the next connection makes the old template current, which two comments forbid |
| `JobStale.cfg` | `MCJobPipeline` | `NoStaleWork` | `poolState` names every pool as active, also one whose `disablePool` went out before; the worker then uses its pre-outage template |
| `MinerStop.cfg` | `MCMinerSessions` | `NoMinerWhileDraining` | sockets that have not logged in survive `stopMiners`, may log in afterwards, and hold their server open |
| `ClusterStopReload.cfg` | `MCClusterRuntime` | `StopIsFinal` | a stop during a reload is undone by the rest of it: a new master and new workers run on after `stop()` has returned |
| `NonceLanesSolo.cfg` | `MCNonceLanes` | `DistinctWork` | jobs that name no place for a pool nonce go to every worker as they are, and the workers' counters all start at one: miners of different workers repeat each other's work |

## Proofs

All theorems hold for every value of the constants under the named assumptions
of the modules (`BlobsAssumption`, `PoolAssumption`, `WindowAssumption` and so on:
sets are what they are meant to be, sizes are positive numbers), which TLC also
evaluates.

`UpstreamPoolProofs`. `TypeCorrect`; then `ReconnectInv`: stream, timer and
`connected` agree with the phase. `NeverStranded` and `TimerOnlyWhenDown` are
not inductive without it: that no timer is armed while a client is new or
stopped, and that `connected` means a stream past its handshake, is what each
handler relies on. `NeverStrandedHolds` and `TimerOnlyWhenDownHolds` follow for
any upstream. `SessionInv` says more, under the assumption
`PendingMethods \subseteq {"login"}`: a template is held only in the session
that delivered it, and a login is outstanding, once, only before the session.
Without the last part a second login reply could not be told from the first, and
the pending error to it would leave an old template. From it come
`UsableIsFreshHolds`, `WorkersToldDownHolds` and `ToldIffTemplateHolds` (the last
two have no run: the feed implies them), and `ImplementsPoolFeedHolds`: initial
states map to initial states and every callback to one step of `PoolFeed` or a
stutter. The counterexample of `UpstreamPoolStale.cfg` shows that the assumption
is needed.

`JobPipelineProofs`. `TypeCorrect`, with the height of a ready pool
(`ReadyHasHeight`) as the strengthening. `WindowInv` is what makes the windows fit, for
`MayReject = FALSE`: the master's buffer holds the last numbers it issued
(`MasterWindowInv`); the channel carries, in order, exactly the numbers between
the worker's template and the last one issued (`ChannelInv`); the worker's past
is the run of numbers below its template (`PastInv`); a share on its way was for
a template at most `PastLimit` behind the one the worker then had (`ShareInv`).
The channel part is what ties the two windows together: without it nothing says
that the worker's past has no gaps. `ShareFoundHolds` and
`RecentTemplatesKeptHolds` are the two window properties for every number of
pools and miners and every window size. What `enq` returns, for any limit, is the
lemma `EnqProperties`.

The failover side rests on other invariants. `NewestInv` says of every session
with a job that its newest is for its pool's template; every handler that changes a template or
moves a miner keeps it by what `pushNewJob` puts in front (`WithNewJobNewest`), and
`MinersOnNewestWorkHolds` follows.
`UpPoolsAreActive` speaks only of an empty channel, so it needs `AnnouncedInv`, which
speaks of every channel: the last word on an up pool, in the queue or, where the
queue has none, in the worker's flag, is that it is up, or a `needPoolState` that
will put it right is on its way. That part is proved with templates rejected and
workers forked again. `NoWorkWithheldHolds` adds `WindowInv`, `SuppliedInv`
(a worker that got the pools was issued a template of every pool that is up and not held
back, and the newest one, in the worker or on its way, has the height the master goes
by), for `~MayReject` and any heights, however they grow. It
excepts the pools in `heldBack`, because a template held back for its height is not sent
when the higher pool goes down (`proxy/master.js:151`, a listed hazard), and the worker
then waits for the pool's next template. What holds without the exception is `SomePoolUsableHolds`:
of the pools that have work, the highest is usable, in the master and in the worker,
so that holding templates back never leaves the miners without a pool.
`FailoverIsCompleteHolds` is a step property: `checkActivePools`, which ends the
handler of `disablePool`, moves the miners of every inactive pool to one that is
usable, if a user pool is.

`MinerSessionsProofs`. `TypeCorrect`: the bound on sessions bounds the logins of each
socket (`RegisterBound`), and since it counts sessions, `Sockets` is assumed finite.
`SettledInv`: the last word on a session the worker no longer has, in its messages to
the master or, where these have none, in the statistics, is its removal. `StatsAreSessions` is the case
of an empty queue, and is not inductive by itself: a report sent before the session
was lost is handled after. One handler may remove or report many sessions
(`registerMiner`, `publishStats`); what such a run of messages says of each session
is `RemoveAllFacts` and `ReportAllFacts`.
`LiveSessionsKeptHolds` is a step property. `LastSessionRemovedHolds` is what is true
beside the finding of `MinerRelogin.cfg`: of a socket that logged in more than once
the older sessions stay in the statistics, but the last one does not. `ClosedInv` is
its invariant: a closed socket's last session left `activeMiners` with it.

`VarDiffProofs`. `InvariantHolds`: a pending `newDiff` waits for a template or is
a nudge, and what is in force, pending or not, is above `base` by at most one and
only after a nudge up, below by at most one and only after a nudge down. Neither
half of `NoDrift` is inductive without the direction of the last nudge.
`JobWithinTargetHolds` and `DifficultyInForceHolds` rest on what `getJob` does to
`validJobs` (`EnqProperties`).

`TimedChecksProofs` has two components, the shares and the logins. *Shares*: `Placed` carries the bound from window
to window: of the checks begun the last `InWindow` lie in the present window, and
all but `Budget` of those before it more than a window before its start.
`VerificationBoundedHolds` and `UnverifiedOnlyWhenBusyHolds` follow for every window
and budget. *Logins*: signatures identify contents (`SignatureInv`), and the entries
are as young as `lastLoadedAt` says except while the login that set it is still
looking at the file (`CacheInv`). With these every step of a login keeps
`RevokedInTime` and `AdmittedAtOnce`, for every refresh time.

`ClusterRuntimeProofs`. `MasterInv` says which controller can run at each await:
the newest only, and none between the stop of the old one and the end of the
reload, whether the reload or a stop that overtook it did the stopping. Without
the second case `OneMasterRuns` is not inductive. `ServiceInv` says that during a
reload nobody is in service, so that the workers forked at its end are attached
to the new controller. `OneMasterRunsHolds`, `ServingIsAttachedHolds` and
`NeverShortHolds` are for any number of workers, forks and reloads, with reloads that
throw; `NeverShortHolds` is only about the time when the last one did not.

`NonceLanesProofs`. `LaneInv` is why no work repeats. `BlobInv`: the upstream's new
blobs are new, and the master's template is its last job. `DrawnInv`: every
template copy and every lane was drawn before, at or below the count of the
master's template if it has the same blob; an outage that forgets the template
forgets the count, and only a new blob starts it again. `CopyInv`: no two workers
have, or have on its way, the same draw. `HandedInv`: a lane handed out is below
the counter of the one copy that could hand it out again, and its draw is on its
way to nobody. `CreditInv` adds that a job is the only one of its lane and
remembers every nonce credited for it. They need `~Solo`, and
`NonceLanesSolo.cfg` shows why; `DistinctWorkHolds` and `CountedOnceHolds` follow.
`IdentityInv` says there is *one* assignment of draws to template ids that the
worker's templates, the miners' jobs, the master's `workerJobs` and the shares on
their way all agree with. The assignment is not part of the state: a step of
`getMasterJob` extends it, and every other step keeps it (`SendAgrees`,
`MasterIdentity`). `ShareReconstructedHolds` follows, for solo jobs too.

`PoolBalancingProofs`. All five properties of `PoolBalancing`, for any pools, shares,
miners and rates. Its state is simple; what takes proof is the plan, which folds
inside folds compute. A fold over the places of a sequence goes through a path
(`FoldPath`), and induction over these places (`IndexInduction`, from the
well-foundedness of `<`) says what it returns; each fold of the module has its path
(`SumRuns`, `OnlyRuns`, `TakeRuns`, `FreeingRuns`, `DonatingRuns`, `PlanningRuns`)
and, from that, its facts:

- rates add up over disjoint sets of miners (`RatePlus`), and over all pools every
  miner counts once (`RateByPool`);
- what a greedy pass takes was there and fits into its budget (`TakeFacts`,
  `DonatedFacts`); freeing leaves a usable pool its target and an unusable one no
  miner that works (`FreedFacts`);
- `PlanInvariant` holds after the allocations to the first pools that are short:
  whoever has been moved went to one of these, was freed or sat on a pool that is
  not short, and no pool is past its target. It is inductive only because no pool is
  listed twice.

`PlanFacts` sums up what a plan may be (`IsPlan`): freed miners that were allocated,
miners taken from donors, and the remainder, each with where it came from and went.
`MovesAreUsefulHolds`, `SharesRespectedHolds` and `DeadPoolsEmptiedHolds` follow.
`NeverWorseHolds` takes more: neither the remainder nor a donor's miner need bring
any pool closer to its target. Pool by pool (`OffMoves`) the new distance, with
what was freed there and what was allocated to it, is at most the old one with what
donors gave there and what remained; added up over the pools, donors and remainder
cancel, as what one pool loses another gains. The distance shrinks by at least twice
what was allocated from the freed miners (`PlanGains`).

Only model-checked: liveness and everything that depends on fairness (`Recovers`,
`NotLeftOnInactivePool`, `Completes`, `PendingSettled`, `GoneMinersReported`), which
these provers cannot treat. The two violated properties of the findings are no
theorems. Every other property of a run is one.

## What is not modelled

The layout of blobs, targets and hashes: `coins/` computes them with native
libraries, and the modules need the identity of a template, the nonces written
into it, and a share's claim and whether its proof is good. The bounds check of a
template's offsets. The cap on a job's submissions and the session's counters of
shares and hashes. Real time: a timer is an action that may happen once it is
armed; only `ShareVerification` and `AccessControl` compare times and have a clock.
Algorithms and the algorithm sets sent to the pools. The checks of a login's
parameters. The line parser and the configuration, which are functions without
state that unit tests reach. The standalone runtime, which joins the same
controllers by calls. Statistics, summary and monitor, which only read. A crash
of the primary, which ends everything with it, but for the one of `NullLine`. Logging and rendering.

## Plan

Done: `UpstreamPool` and its abstract feed, `JobPipeline` with its window and
failover properties, `NonceLanes`, `ClusterRuntime`, `MinerSessions`, `VarDiff`,
`ShareVerification`, `AccessControl`, `PoolBalancing`, and the proofs above. What
is left, in the order of importance:

1. A worker set as "at full strength, or being replaced", implemented by
   `ClusterRuntime`; the master's side of `JobPipeline` over `PoolFeed`.
2. A run of `JobPipeline` with a developer pool, whose `changePool` messages carry
   out a plan of `PoolBalancing`.
