---------------------------- MODULE JobPipeline -----------------------------
(***************************************************************************)
(* The path of work and shares through the proxy: the master               *)
(* (proxy/master.js, proxy/pool.js), one worker (proxy/worker.js), the IPC *)
(* channel of each direction, and the worker's miners (proxy/miner.js,     *)
(* coins/template.js).                                                     *)
(*                                                                         *)
(*   upstream --template--> master --newBlockTemplate--> worker --job--> miner *)
(*   upstream <--submit---- master <------shareFind----- worker <-share- miner *)
(*                                                                         *)
(* Every process handles one message or event at a time and the IPC        *)
(* channels are FIFO, so an action is one handler.  Upstream connections   *)
(* are those of UpstreamPool, seen from here as "a template was activated" *)
(* and "the pool went down".  A template handed to the worker is named by  *)
(* its number among those issued for its pool to this worker (the code     *)
(* draws a random id).                                                     *)
(***************************************************************************)
EXTENDS CircularBuffer, PoolUsability, FiniteSets, Functions

CONSTANTS
    Pools,          \* configured pools
    DefaultPool,    \* the worker's default pool
    DevPools,       \* pools chosen only by the master's balancing
    Miners,         \* miner slots: a slot is one login session at a time
    GrinMiners,     \* miners that log in without getting a job in the reply
    NoPool,         \* the pool of a slot that is not logged in
    Heights,        \* block heights of templates
    MasterWindow,   \* 8 in the code: workerJobs kept per pool and worker
    PastLimit,      \* 4 in the code: past templates a worker keeps per pool
    JobWindow,      \* 5 in the code: jobs a miner may submit for
    MayReject,      \* may the worker's template constructor throw?
    MaxIssued,      \* bound: templates issued per pool
    MaxDown,        \* bound: messages on their way to the worker
    MaxUp           \* bound: messages on their way to the master

ASSUME PoolAssumption ==
    /\ DefaultPool \in Pools \ DevPools
    /\ DevPools \subseteq Pools
    /\ NoPool \notin Pools
    /\ Heights \subseteq Nat
    /\ IsFiniteSet(Pools)
ASSUME MinerAssumption == GrinMiners \subseteq Miners
ASSUME WindowAssumption ==
    /\ MasterWindow \in Nat \ {0}
    /\ PastLimit \in Nat \ {0}
    /\ JobWindow \in Nat \ {0}
    /\ MayReject \in BOOLEAN

VARIABLES
    \* The master, per pool.
    ready,        \* enabled, connected and holding a template
    mHeight,      \* the height of that template
    issued,       \* templates handed to this worker so far
    heldBack,     \* history: pools whose template was not sent for its height
    workerJobs,   \* pool.workerJobs of this worker: numbers, newest first
    \* The IPC channels.
    down,         \* master -> worker
    up,           \* worker -> master
    \* The worker, per pool.
    active,       \* pool.active
    tmpl,         \* the number of pool.activeBlockTemplate, 0 for none
    height,       \* its height
    past,         \* pool.pastBlockTemplates
    \* The worker's miners.
    miners        \* session: pool and validJobs

masterVars == <<ready, mHeight, issued, heldBack, workerJobs>>
workerVars == <<active, tmpl, height, past>>
vars == <<masterVars, down, up, workerVars, miners>>

Job == [pool : Pools, id : Nat \ {0}]
Session == [pool : Pools \cup {NoPool}, jobs : Seq(Job)]
NoSession == [pool |-> NoPool, jobs |-> <<>>]

DownMessage ==
    [type : {"newBlockTemplate"}, pool : Pools, id : Nat \ {0}, height : Heights]
    \cup [type : {"enablePool", "disablePool"}, pool : Pools]
    \cup [type : {"changePool"}, pool : Pools, miner : Miners]
    \cup [type : {"poolState"}]

\* host is what the message carries; pool, id and seen are history: the job the
\* share is for, and the newest template of its pool the worker then had.
UpMessage ==
    [type : {"shareFind"}, host : Pools, pool : Pools, id : Nat \ {0}, seen : Nat]
    \cup [type : {"needPoolState"}]

TypeOK ==
    /\ ready \in [Pools -> BOOLEAN]
    /\ mHeight \in [Pools -> Heights \cup {0}]
    /\ issued \in [Pools -> Nat]
    /\ heldBack \subseteq Pools
    /\ workerJobs \in [Pools -> Seq(Nat)]
    /\ down \in Seq(DownMessage)
    /\ up \in Seq(UpMessage)
    /\ active \in [Pools -> BOOLEAN]
    /\ tmpl \in [Pools -> Nat]
    /\ height \in [Pools -> Heights \cup {0}]
    /\ past \in [Pools -> Seq(Nat)]
    /\ miners \in [Miners -> Session]

\* A freshly forked worker and its channels: worker.start() asks for the pools.
WorkerInit ==
    /\ issued = [p \in Pools |-> 0]
    /\ heldBack = {}
    /\ workerJobs = [p \in Pools |-> <<>>]
    /\ down = <<>>
    /\ up = <<[type |-> "needPoolState"]>>
    /\ active = [p \in Pools |-> FALSE]
    /\ tmpl = [p \in Pools |-> 0]
    /\ height = [p \in Pools |-> 0]
    /\ past = [p \in Pools |-> <<>>]
    /\ miners = [m \in Miners |-> NoSession]

Init ==
    /\ ready = [p \in Pools |-> FALSE]
    /\ mHeight = [p \in Pools |-> 0]
    /\ WorkerInit

-----------------------------------------------------------------------------
(* The master.                                                              *)

TemplateMsg(p, id, h) == [type |-> "newBlockTemplate", pool |-> p, id |-> id, height |-> h]

\* MUTANT: the master's window is one job short of the one the worker needs.
IssueShortWindow(S) ==
    /\ issued' = [p \in Pools |-> IF p \in S THEN issued[p] + 1 ELSE issued[p]]
    /\ workerJobs' = [p \in Pools |->
           IF p \in S THEN Enq(workerJobs[p], MasterWindow - 1, issued[p] + 1) ELSE workerJobs[p]]

\* getMasterJob for every pool of S: a new number, remembered for share lookup.
Issue(S) ==
    /\ issued' = [p \in Pools |-> IF p \in S THEN issued[p] + 1 ELSE issued[p]]
    /\ workerJobs' = [p \in Pools |->
           IF p \in S THEN Enq(workerJobs[p], MasterWindow, issued[p] + 1) ELSE workerJobs[p]]

\* MUTANT: the enablePool broadcast is missing.
PoolTemplateUnannounced(p, h) ==
    /\ issued[p] < MaxIssued
    /\ Len(down) + 2 <= MaxDown
    /\ ready' = [ready EXCEPT ![p] = TRUE]
    /\ mHeight' = [mHeight EXCEPT ![p] = h]
    /\ IF IsPoolUsable(ready', mHeight', p)
       THEN /\ Issue({p})
            /\ heldBack' = heldBack \ {p}
            /\ down' = down \o <<TemplateMsg(p, issued[p] + 1, h)>>
       ELSE /\ heldBack' = heldBack \cup {p}
            /\ UNCHANGED <<issued, workerJobs, down>>
    /\ UNCHANGED <<up, workerVars, miners>>

\* handlePoolTemplate accepts a template of pool p: enablePool is broadcast, and
\* the template follows unless the pool is too far behind the others.
PoolTemplate(p, h) ==
    /\ issued[p] < MaxIssued
    /\ Len(down) + 2 <= MaxDown
    /\ ready' = [ready EXCEPT ![p] = TRUE]
    /\ mHeight' = [mHeight EXCEPT ![p] = h]
    /\ IF IsPoolUsable(ready', mHeight', p)
       THEN /\ Issue({p})
            /\ heldBack' = heldBack \ {p}
            /\ down' = down \o <<[type |-> "enablePool", pool |-> p],
                                 TemplateMsg(p, issued[p] + 1, h)>>
       ELSE /\ heldBack' = heldBack \cup {p}
            /\ UNCHANGED <<issued, workerJobs>>
            /\ down' = Append(down, [type |-> "enablePool", pool |-> p])
    /\ UNCHANGED <<up, workerVars, miners>>

\* markUnavailable: also called for a pool that is down already.
PoolDown(p) ==
    /\ Len(down) < MaxDown
    /\ ready' = [ready EXCEPT ![p] = FALSE]
    /\ mHeight' = [mHeight EXCEPT ![p] = 0]
    /\ heldBack' = heldBack \ {p}
    /\ down' = Append(down, [type |-> "disablePool", pool |-> p])
    /\ UNCHANGED <<issued, workerJobs, up, workerVars, miners>>

\* One changePool of balanceWorkers. The master moves miners it knows from their
\* last reports, to pools it finds usable; the miner may be gone or moved by now.
Rebalance(m, p) ==
    /\ Len(down) < MaxDown
    /\ IsPoolUsable(ready, mHeight, p)
    /\ down' = Append(down, [type |-> "changePool", pool |-> p, miner |-> m])
    /\ UNCHANGED <<masterVars, up, workerVars, miners>>

\* The orders in which a set of pools may be visited.
Orders(S) == Bijection(1..Cardinality(S), S)

\* Pools that are up and too far behind the others: their templates are not sent.
Lagging == {p \in Pools : ready[p] /\ ~IsPoolUsable(ready, mHeight, p)}

\* MUTANT: the pools are named and their templates are not sent.
NeedPoolStateNamesOnly ==
    /\ up # <<>>
    /\ Head(up).type = "needPoolState"
    /\ up' = Tail(up)
    /\ down' = Append(down, [type |-> "poolState"])
    /\ heldBack' = Lagging
    /\ UNCHANGED <<ready, mHeight, issued, workerJobs, workerVars, miners>>

\* handlePoolStateRequest: all pools by name, then the templates of usable pools.
HandleNeedPoolState ==
    /\ up # <<>>
    /\ Head(up).type = "needPoolState"
    /\ up' = Tail(up)
    /\ LET usable == {p \in Pools : IsPoolUsable(ready, mHeight, p)}
       IN  /\ \A p \in usable : issued[p] < MaxIssued
           /\ Issue(usable)
           /\ heldBack' = Lagging
           /\ \E order \in Orders(usable) :
                 down' = Append(down, [type |-> "poolState"])
                         \o [i \in 1..Cardinality(usable) |->
                                TemplateMsg(order[i], issued[order[i]] + 1, mHeight[order[i]])]
    /\ UNCHANGED <<ready, mHeight, workerVars, miners>>

\* handleShareMessage: what sendShare does with a share it finds is in
\* UpstreamPool; one it does not find is dropped. Nothing changes here.
HandleShare ==
    /\ up # <<>>
    /\ Head(up).type = "shareFind"
    /\ up' = Tail(up)
    /\ UNCHANGED <<masterVars, down, workerVars, miners>>

-----------------------------------------------------------------------------
(* The worker.                                                              *)

WorkerReady(act, t) == [p \in Pools |-> act[p] /\ t[p] # 0]

WorkerUsable(act, t, h, p) == IsPoolUsable(WorkerReady(act, t), h, p)

LoggedIn(m) == miners[m].pool # NoPool

\* What chooseInitialPool may return: the default if usable, else the first
\* usable user pool in configuration order, else the default all the same.
InitialPools(act, t, h) ==
    LET usable == {p \in Pools \ DevPools : WorkerUsable(act, t, h, p)}
    IN  IF DefaultPool \in usable \/ usable = {} THEN {DefaultPool} ELSE usable

\* MUTANT: a pool without a template yields a job all the same.
WithNewJobUnchecked(s, t) ==
    [s EXCEPT !.jobs = Enq(@, JobWindow, [pool |-> s.pool, id |-> t[s.pool]])]

\* pushNewJob(true) of a session, t being the worker's templates: no job from a
\* pool without a template.
WithNewJob(s, t) ==
    IF t[s.pool] = 0 THEN s
    ELSE [s EXCEPT !.jobs = Enq(@, JobWindow, [pool |-> s.pool, id |-> t[s.pool]])]

\* canReuseJob: the newest job is for this template already.
HasCurrentJob(s, t) == s.jobs # <<>> /\ s.jobs[1].id = t[s.pool] /\ s.jobs[1].pool = s.pool

\* getNewJob() without bypassing the cache.
WithJob(s, t) == IF HasCurrentJob(s, t) THEN s ELSE WithNewJob(s, t)

\* MUTANT: failover changes the pool and does not push a job.
FailedOverSilently(s, act, fallback) ==
    IF s.pool \in Pools /\ s.pool # fallback /\ ~act[s.pool]
    THEN [s EXCEPT !.pool = fallback]
    ELSE s

\* reassignPoolMiners and the push after it, for one session.
FailedOver(s, act, fallback) ==
    IF s.pool \in Pools /\ s.pool # fallback /\ ~act[s.pool]
    THEN WithNewJob([s EXCEPT !.pool = fallback], tmpl)
    ELSE s

\* MUTANT: miners fail over only when their own pool is not the default.
CheckActivePoolsNotDefault(act) ==
    \E fallback \in InitialPools(act, tmpl, height) :
        miners' = [m \in Miners |-> IF miners[m].pool = DefaultPool THEN miners[m]
                                    ELSE FailedOver(miners[m], act, fallback)]

\* checkActivePools: every miner of an inactive pool moves to the one fallback.
CheckActivePools(act) ==
    \E fallback \in InitialPools(act, tmpl, height) :
        miners' = [m \in Miners |-> FailedOver(miners[m], act, fallback)]

\* Receive the next message of the master, of the given type.
Receive(type) ==
    /\ down # <<>>
    /\ Head(down).type = type
    /\ down' = Tail(down)

ApplyPoolState ==
    /\ Receive("poolState")
    /\ active' = [p \in Pools |-> TRUE]
    /\ UNCHANGED <<masterVars, up, tmpl, height, past, miners>>

\* applyNewBlockTemplate: the old template retires, the pool is active, and each
\* of its miners gets a job.
ApplyTemplate ==
    /\ Receive("newBlockTemplate")
    /\ LET p == Head(down).pool
       IN  /\ active' = [active EXCEPT ![p] = TRUE]
           /\ tmpl' = [tmpl EXCEPT ![p] = Head(down).id]
           /\ height' = [height EXCEPT ![p] = Head(down).height]
           /\ past' = IF tmpl[p] = 0 THEN past
                      ELSE [past EXCEPT ![p] = Enq(@, PastLimit, tmpl[p])]
           /\ miners' = [m \in Miners |->
                  IF miners[m].pool = p THEN WithJob(miners[m], tmpl') ELSE miners[m]]
    /\ UNCHANGED <<masterVars, up>>

\* The worker's template constructor throws: the last good template stays.
RejectTemplate ==
    /\ MayReject
    /\ Receive("newBlockTemplate")
    /\ UNCHANGED <<masterVars, up, workerVars, miners>>

ApplyPoolChange ==
    /\ Receive("changePool")
    /\ LET m == Head(down).miner
           p == Head(down).pool
       IN  miners' = IF LoggedIn(m)
                     THEN [miners EXCEPT ![m] = WithNewJob([@ EXCEPT !.pool = p], tmpl)]
                     ELSE miners
    /\ UNCHANGED <<masterVars, up, workerVars>>

ApplyEnable ==
    /\ Receive("enablePool")
    /\ active' = [active EXCEPT ![Head(down).pool] = TRUE]
    /\ UNCHANGED <<masterVars, up, tmpl, height, past, miners>>

ApplyDisable ==
    /\ Receive("disablePool")
    /\ active' = [active EXCEPT ![Head(down).pool] = FALSE]
    /\ CheckActivePools(active')
    /\ UNCHANGED <<masterVars, up, tmpl, height, past>>

\* MUTANT: the timer does nothing.
FailoverTimerIdle ==
    UNCHANGED vars

\* The 90 s failover timer.
FailoverTimer ==
    /\ CheckActivePools(active)
    /\ UNCHANGED <<masterVars, down, up, workerVars>>

-----------------------------------------------------------------------------
(* The miners.                                                              *)

\* A login is accepted when the chosen pool has a template, usable or not. (A
\* login that must wait for one is not followed here.)
Login(m) ==
    /\ ~LoggedIn(m)
    /\ \E p \in InitialPools(active, tmpl, height) :
          /\ tmpl[p] # 0
          /\ LET s == [pool |-> p, jobs |-> <<>>]
             IN  miners' = [miners EXCEPT ![m] = IF m \in GrinMiners THEN s ELSE WithJob(s, tmpl)]
    /\ UNCHANGED <<masterVars, down, up, workerVars>>

\* The socket closes (keepOfflineMiners off): the session is gone.
Disconnect(m) ==
    /\ LoggedIn(m)
    /\ miners' = [miners EXCEPT ![m] = NoSession]
    /\ UNCHANGED <<masterVars, down, up, workerVars>>

\* getjob or getjobtemplate of a miner.
GetJob(m) ==
    /\ LoggedIn(m)
    /\ miners' = [miners EXCEPT ![m] = WithJob(@, tmpl)]
    /\ UNCHANGED <<masterVars, down, up, workerVars>>

\* A difficulty change: a new job for the same template.
Retarget(m) ==
    /\ LoggedIn(m)
    /\ miners' = [miners EXCEPT ![m] = WithNewJob(@, tmpl)]
    /\ UNCHANGED <<masterVars, down, up, workerVars>>

\* findBlockTemplate: among the templates of the pool the job was made for.
HasBlockTemplate(j) == tmpl[j.pool] = j.id \/ Holds(past[j.pool], j.id)

\* A share good enough for the upstream pool, for one of the session's jobs.
Submit(m, i) ==
    /\ LoggedIn(m)
    /\ i \in 1..Len(miners[m].jobs)
    /\ Len(up) < MaxUp
    /\ LET j == miners[m].jobs[i]
       IN  /\ HasBlockTemplate(j)
           /\ up' = Append(up, [type |-> "shareFind", host |-> miners[m].pool,
                                pool |-> j.pool, id |-> j.id, seen |-> tmpl[j.pool]])
    /\ UNCHANGED <<masterVars, down, workerVars, miners>>

\* A share for a template no longer kept: "Block expired", and a new job.
SubmitExpired(m, i) ==
    /\ LoggedIn(m)
    /\ i \in 1..Len(miners[m].jobs)
    /\ ~HasBlockTemplate(miners[m].jobs[i])
    /\ miners' = [miners EXCEPT ![m] = WithNewJob(@, tmpl)]
    /\ UNCHANGED <<masterVars, down, up, workerVars>>

\* The worker process dies; the master detaches it and forks another, under a new
\* worker id, with new channels. The pools' state in the master is untouched.
WorkerRespawn ==
    /\ issued' = [p \in Pools |-> 0]
    /\ heldBack' = {}
    /\ workerJobs' = [p \in Pools |-> <<>>]
    /\ down' = <<>>
    /\ up' = <<[type |-> "needPoolState"]>>
    /\ active' = [p \in Pools |-> FALSE]
    /\ tmpl' = [p \in Pools |-> 0]
    /\ height' = [p \in Pools |-> 0]
    /\ past' = [p \in Pools |-> <<>>]
    /\ miners' = [m \in Miners |-> NoSession]
    /\ UNCHANGED <<ready, mHeight>>

MasterNext ==
    \/ \E p \in Pools : PoolDown(p)
    \/ \E p \in Pools, h \in Heights : PoolTemplate(p, h)
    \/ \E m \in Miners, p \in Pools : Rebalance(m, p)
    \/ HandleNeedPoolState
    \/ HandleShare

HandleMasterMessage ==
    \/ ApplyPoolState
    \/ ApplyTemplate
    \/ RejectTemplate
    \/ ApplyPoolChange
    \/ ApplyEnable
    \/ ApplyDisable

MinerNext ==
    \E m \in Miners :
        \/ Login(m)
        \/ Disconnect(m)
        \/ GetJob(m)
        \/ Retarget(m)
        \/ \E i \in 1..JobWindow : Submit(m, i) \/ SubmitExpired(m, i)

Next ==
    \/ MasterNext
    \/ HandleMasterMessage
    \/ FailoverTimer
    \/ MinerNext
    \/ WorkerRespawn

Spec == Init /\ [][Next]_vars

\* IPC messages are delivered and handled, and the worker's interval timer fires.
Fairness ==
    /\ WF_vars(HandleNeedPoolState \/ HandleShare)
    /\ WF_vars(HandleMasterMessage)
    /\ WF_vars(FailoverTimer)

FairSpec == Spec /\ Fairness

-----------------------------------------------------------------------------
(* Properties.                                                              *)

Shares == {up[i] : i \in {k \in 1..Len(up) : up[k].type = "shareFind"}}

\* The assumption on timing under which the windows are sized: since the worker
\* accepted the share, fewer than MasterWindow - PastLimit templates of its pool
\* were issued beyond the one the worker then had.
InWindow(s) == issued[s.pool] + PastLimit < s.seen + MasterWindow

\* The master's job window covers the worker's: a share the worker accepted for a
\* template it still keeps (the active one or a past one) is found by sendShare,
\* not dropped, as long as master and worker are not too far apart and the share
\* was sent to the right pool (coins/template.js, the comment in getMasterJob).
ShareFound ==
    \A s \in Shares :
        s.host = s.pool /\ InWindow(s) => Holds(workerJobs[s.pool], s.id)

\* The same without the condition on routing: no accepted share for a pool that is
\* up is dropped because its miner was moved to another pool after the job was made.
ShareReachesItsPool ==
    \A s \in Shares :
        InWindow(s) /\ ready[s.pool] => s.host = s.pool /\ Holds(workerJobs[s.pool], s.id)

\* The worker's own window: while it rejects no template, a job for any of the last
\* PastLimit templates of its pool is still accepted, not answered "Block expired".
RecentTemplatesKept ==
    \A p \in Pools : \A id \in 1..tmpl[p] :
        tmpl[p] <= id + PastLimit => HasBlockTemplate([pool |-> p, id |-> id])

\* Whatever sequence of templates, failovers, balancing and retargeting led here,
\* a miner that has a job at all works on the newest template of its pool.
MinersOnNewestWork ==
    \A m \in Miners :
        LoggedIn(m) /\ miners[m].jobs # <<>> /\ tmpl[miners[m].pool] # 0
            => HasCurrentJob(miners[m], tmpl)

\* Once the worker has digested its messages, every pool the master has up is
\* active in the worker too: no enablePool is lost between forking a worker,
\* poolState, templates held back for their height, and disablePool.
UpPoolsAreActive ==
    down = <<>> /\ (\A i \in 1..Len(up) : up[i].type # "needPoolState")
        => \A p \in Pools : ready[p] => active[p]

\* The worker has work of pool p that the master knows and did not hold back since.
WorksInStep(p) == ready[p] /\ p \notin heldBack

\* A worker that digested its messages can use every pool the master would use, at any
\* heights and however they grew, unless the pool's template was held back for its
\* height (the master does not send it when the pool stops lagging), or the worker has
\* work that may outrank it: of a pool that is down (NoStaleWork) or was held back.
NoWorkWithheld ==
    /\ down = <<>>
    /\ \A i \in 1..Len(up) : up[i].type # "needPoolState"
    /\ \A p \in Pools : WorkerReady(active, tmpl)[p] => WorksInStep(p)
    => \A p \in Pools \ heldBack :
           IsPoolUsable(ready, mHeight, p) => WorkerUsable(active, tmpl, height, p)

\* A worker that digested its messages uses no pool the master has down: its last
\* template of that pool is from before the outage.
NoStaleWork ==
    down = <<>> => \A p \in Pools : WorkerUsable(active, tmpl, height, p) => ready[p]

UserPoolUsable == \E p \in Pools \ DevPools : WorkerUsable(active, tmpl, height, p)

OnInactivePool(m) == LoggedIn(m) /\ ~active[miners[m].pool]

\* Failover is complete in one step: when a disablePool has been handled and some
\* user pool is usable, no miner is left on an inactive pool.
FailoverIsComplete ==
    [][down # <<>> /\ Head(down).type = "disablePool" /\ down' = Tail(down)
         => (UserPoolUsable => \A m \in Miners : ~OnInactivePool(m))']_vars

\* A miner is not left for good on an inactive pool while the worker has a usable
\* one, even if there was none when its pool went down.
NotLeftOnInactivePool ==
    \A m \in Miners : []<>~(OnInactivePool(m) /\ UserPoolUsable)
=============================================================================
