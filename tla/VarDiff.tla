------------------------------ MODULE VarDiff ------------------------------
(***************************************************************************)
(* The difficulty of one miner's session (MinerSession of proxy/miner.js   *)
(* and getJob of coins/template.js): set at login, measured again by a     *)
(* timer, nudged by one when a share comes too late, and capped by the     *)
(* target of the pool the session is on.                                   *)
(*                                                                         *)
(* The session is moved between pools whose templates come and go. The     *)
(* worker's pools are represented by how many templates each has had and   *)
(* the target of the newest one; 0 stands for null, a difficulty is >= 1.  *)
(***************************************************************************)
EXTENDS CircularBuffer, Naturals

CONSTANTS
    Pools,          \* hostnames of the worker's pools
    Targets,        \* targetDiff of the templates
    PortDiffs,      \* difficulty a session may start with
    Speeds,         \* hashes per second a retarget may measure, rounded down
    ShareTime,      \* difficultySettings.shareTargetTime
    MinDiff,        \* difficultySettings.minDiff
    MaxDiff,        \* difficultySettings.maxDiff
    JobWindow,      \* 5 in the code: jobs kept per session
    PastLimit,      \* 4 in the code: past templates kept per pool
    MaxTemplates    \* bound: templates per pool

ASSUME VarDiffAssumption ==
    /\ Targets \subseteq Nat \ {0}
    /\ PortDiffs \subseteq Nat \ {0}
    /\ Speeds \subseteq Nat
    /\ ShareTime \in Nat \ {0}
    /\ MinDiff \in Nat \ {0}
    /\ MaxDiff \in Nat \ {0}
    /\ MinDiff <= MaxDiff
    /\ JobWindow \in Nat \ {0}

VARIABLES
    newest,         \* templates each pool has had; the last one is active
    targetDiff,     \* target of each pool's active template
    pool,           \* miner.pool
    fixedDiff,      \* the login named a difficulty
    difficulty,     \* miner.difficulty
    newDiff,        \* the difficulty to be applied by the next job
    incremented,    \* direction of the last nudge
    validJobs,      \* the jobs the session still takes shares for
    base,           \* history: the difficulty last set by login, retarget or cap
    asked,          \* history: newDiff was set by a retarget
    idleNudge       \* history: a share was late while the pool had no template

vars == <<newest, targetDiff, pool, fixedDiff, difficulty, newDiff, incremented,
          validJobs, base, asked, idleNudge>>
sessionVars == <<difficulty, newDiff, validJobs, base, asked>>

Job == [poolId : Pools, template : Nat, difficulty : Nat, target : Nat]

TypeOK ==
    /\ newest \in [Pools -> Nat]
    /\ targetDiff \in [Pools -> Nat \ {0}]
    /\ pool \in Pools
    /\ fixedDiff \in BOOLEAN
    /\ difficulty \in Nat \ {0}
    /\ newDiff \in Nat
    /\ incremented \in BOOLEAN
    /\ validJobs \in Seq(Job)
    /\ base \in Nat \ {0}
    /\ asked \in BOOLEAN
    /\ idleNudge \in BOOLEAN

\* A session that has just logged in, on a pool with a template: a login that
\* names a difficulty fixes it.
Init ==
    /\ pool \in Pools
    /\ newest = [p \in Pools |-> IF p = pool THEN 1 ELSE 0]
    /\ targetDiff \in [Pools -> Targets]
    /\ fixedDiff \in BOOLEAN
    /\ difficulty \in PortDiffs
    /\ newDiff = 0
    /\ incremented = FALSE
    /\ validJobs = <<>>
    /\ base = difficulty
    /\ asked = FALSE
    /\ idleNudge = FALSE

AtLeast(a, b) == IF a > b THEN a ELSE b

-----------------------------------------------------------------------------
(* getJob.                                                                  *)

\* MUTANT: the cap is applied to the old difficulty only.
AdjustedCapFirst(diff, new, target) == IF new # 0 THEN new ELSE AtMost(diff, target)

\* adjustMinerDiff: the pending difficulty is applied, then capped.
Adjusted(diff, new, target) == AtMost(IF new # 0 THEN new ELSE diff, target)

\* MUTANT: a job is reused although a difficulty is pending.
CanReuseJobAnyDiff(p, n, new) ==
    /\ validJobs # <<>>
    /\ validJobs[1].poolId = p
    /\ validJobs[1].template = n

\* canReuseJob of a session of pool p with n templates, without bypassCache.
CanReuseJob(p, n, new) ==
    /\ validJobs # <<>>
    /\ validJobs[1].poolId = p
    /\ validJobs[1].template = n
    /\ new = 0

\* getNewJob of a session on pool p, whose newest template is the n-th with this
\* target: nothing without a template, the cached job if it may be reused, else a
\* new job. new and isAsked are newDiff and asked at the call.
GetNewJob(p, n, target, bypassCache, new, isAsked) ==
    IF n = 0 \/ (~bypassCache /\ CanReuseJob(p, n, new))
    THEN /\ newDiff' = new
         /\ asked' = isAsked
         /\ UNCHANGED <<difficulty, validJobs, base>>
    ELSE /\ difficulty' = Adjusted(difficulty, new, target)
         /\ newDiff' = 0
         /\ validJobs' = Enq(validJobs, JobWindow,
                [poolId |-> p, template |-> n, difficulty |-> Adjusted(difficulty, new, target),
                 target |-> target])
         /\ base' = Adjusted(base, IF isAsked THEN new ELSE 0, target)
         /\ asked' = FALSE

-----------------------------------------------------------------------------
(* Actions.                                                                 *)

\* getjob or getjobtemplate, and the job in a login's reply.
HandleGetJob ==
    /\ GetNewJob(pool, newest[pool], targetDiff[pool], FALSE, newDiff, asked)
    /\ UNCHANGED <<newest, targetDiff, pool, fixedDiff, incremented, idleNudge>>

\* applyNewBlockTemplate for pool p.
NewBlockTemplate(p) ==
    /\ newest[p] < MaxTemplates
    /\ newest' = [newest EXCEPT ![p] = @ + 1]
    /\ \E target \in Targets :
          /\ targetDiff' = [targetDiff EXCEPT ![p] = target]
          /\ IF p = pool
             THEN GetNewJob(p, newest[p] + 1, target, FALSE, newDiff, asked)
             ELSE UNCHANGED sessionVars
    /\ UNCHANGED <<pool, fixedDiff, incremented, idleNudge>>

\* changePool and failover: the session moves to pool p, which may lack a template.
MoveTo(p) ==
    /\ pool' = p
    /\ GetNewJob(p, newest[p], targetDiff[p], TRUE, newDiff, asked)
    /\ UNCHANGED <<newest, targetDiff, fixedDiff, incremented, idleNudge>>

\* The difficulty setNewDiff asks for.
Clamped(speed) == AtLeast(MinDiff, AtMost(MaxDiff, speed * ShareTime))

\* updateDifficulty, of a session that has found a share: newDiff is set even to the
\* difficulty there is, but pushed only if it differs.
UpdateDifficulty(speed) ==
    /\ ~fixedDiff
    /\ IF Clamped(speed) = difficulty
       THEN /\ newDiff' = Clamped(speed)
            /\ asked' = TRUE
            /\ UNCHANGED <<difficulty, validJobs, base>>
       ELSE GetNewJob(pool, newest[pool], targetDiff[pool], FALSE, Clamped(speed), TRUE)
    /\ idleNudge' = (idleNudge /\ newDiff' # 0)
    /\ UNCHANGED <<newest, targetDiff, pool, fixedDiff, incremented>>

\* MUTANT: the direction is never remembered.
NudgeUpOnly == [diff |-> difficulty + 1, incremented |-> FALSE]

\* The next nudge of handleExpiredShare: up, then down, never to zero.
Nudge ==
    IF incremented
    THEN [diff |-> AtLeast(1, difficulty - 1), incremented |-> FALSE]
    ELSE [diff |-> difficulty + 1, incremented |-> TRUE]

\* findBlockTemplate fails for a job.
Expired(job) == newest[job.poolId] > job.template + PastLimit

\* handleExpiredShare.
HandleExpiredShare ==
    /\ \E i \in DOMAIN validJobs : Expired(validJobs[i])
    /\ incremented' = Nudge.incremented
    /\ GetNewJob(pool, newest[pool], targetDiff[pool], TRUE, Nudge.diff, FALSE)
    /\ idleNudge' = (idleNudge \/ newest[pool] = 0)
    /\ UNCHANGED <<newest, targetDiff, pool, fixedDiff>>

Next ==
    \/ HandleGetJob
    \/ \E p \in Pools : NewBlockTemplate(p) \/ MoveTo(p)
    \/ \E speed \in Speeds : UpdateDifficulty(speed)
    \/ HandleExpiredShare

Spec == Init /\ [][Next]_vars

-----------------------------------------------------------------------------
(* Properties.                                                              *)

\* No job is harder than the upstream's target when it was handed out, whatever
\* login, retarget and nudges asked for: a miner would discard shares the upstream
\* pays for.
JobWithinTarget ==
    \A i \in DOMAIN validJobs : validJobs[i].difficulty <= validJobs[i].target

\* A changed difficulty takes effect with the next job: it waits only while the pool
\* has no template, and shares of the newest job are counted at the session's
\* difficulty. (The retarget computes the hashrate from those counts.)
DifficultyInForce ==
    /\ newDiff \notin {0, difficulty} => newest[pool] = 0
    /\ validJobs # <<>> => validJobs[1].difficulty = difficulty

\* However many shares come late, however retargets, caps and moves fall between
\* them, the nudges leave the session within one of the difficulty it was given: they
\* alternate. Shares that are late while the pool has no template are left out: two of
\* them overwrite one another's nudge and remember both directions.
NoDrift ==
    ~idleNudge => /\ difficulty <= base + 1
                  /\ base <= difficulty + 1
=============================================================================
