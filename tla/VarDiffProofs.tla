---------------------------- MODULE VarDiffProofs ----------------------------
(***************************************************************************)
(* Proofs about VarDiff for every set of pools, targets, start             *)
(* difficulties and hashrates, and every window.                           *)
(***************************************************************************)
EXTENDS VarDiff, TLAPS

-----------------------------------------------------------------------------
(* The miner's jobs.                                                        *)

\* enq puts the value in front, shifts the others by one place, and keeps at most
\* limit entries.
LEMMA EnqProperties ==
    ASSUME NEW S, NEW buffer \in Seq(S), NEW limit \in Nat \ {0}, NEW value \in S
    PROVE  /\ Enq(buffer, limit, value) \in Seq(S)
           /\ Len(Enq(buffer, limit, value)) = AtMost(Len(buffer) + 1, limit)
           /\ Enq(buffer, limit, value)[1] = value
           /\ \A i \in 2..AtMost(Len(buffer) + 1, limit) :
                 Enq(buffer, limit, value)[i] = buffer[i - 1]
<1> DEFINE n == AtMost(Len(buffer) + 1, limit)
<1>1. n \in Nat /\ n >= 1 /\ n <= Len(buffer) + 1 /\ n <= limit
  BY DEF AtMost
<1>2. \A i \in 1..n : (IF i = 1 THEN value ELSE buffer[i - 1]) \in S
  BY <1>1
<1>3. Enq(buffer, limit, value) = [i \in 1..n |-> IF i = 1 THEN value ELSE buffer[i - 1]]
  BY DEF Enq
<1> DEFINE f == [i \in 1..n |-> IF i = 1 THEN value ELSE buffer[i - 1]]
<1> HIDE DEF n
<1>4. f \in Seq(S) /\ Len(f) = n
  BY <1>1, <1>2
<1>5. f[1] = value
  BY <1>1
<1>6. \A i \in 2..n : f[i] = buffer[i - 1]
  BY <1>1
<1>7. Enq(buffer, limit, value) = f
  BY <1>3
<1> HIDE DEF f
<1> QED
  BY <1>4, <1>5, <1>6, <1>7 DEF n

-----------------------------------------------------------------------------
(* The type invariant.                                                      *)

\* What a difficulty is after a cap.
LEMMA AdjustedBounds ==
    ASSUME NEW diff \in Nat \ {0}, NEW new \in Nat, NEW target \in Nat \ {0}
    PROVE  /\ Adjusted(diff, new, target) \in Nat \ {0}
           /\ Adjusted(diff, new, target) <= target
           /\ Adjusted(diff, new, target) = AtMost(IF new # 0 THEN new ELSE diff, target)
BY DEF Adjusted, AtMost

\* A session is asked for a difficulty above zero.
LEMMA ClampedBounds ==
    ASSUME NEW speed \in Speeds
    PROVE  Clamped(speed) \in Nat \ {0}
<1>1. speed \in Nat /\ ShareTime \in Nat /\ MinDiff \in Nat \ {0} /\ MaxDiff \in Nat \ {0}
  BY VarDiffAssumption
<1>2. speed * ShareTime \in Nat
  BY <1>1
<1> DEFINE product == speed * ShareTime
<1>3. Clamped(speed) = AtLeast(MinDiff, AtMost(MaxDiff, product))
  BY DEF Clamped
<1> HIDE DEF product
<1> QED
  BY <1>1, <1>2, <1>3 DEF AtMost, AtLeast, product

\* A nudge goes up or down by one and turns the direction round.
LEMMA NudgeBounds ==
    ASSUME difficulty \in Nat \ {0}, incremented \in BOOLEAN
    PROVE  /\ Nudge.diff \in Nat \ {0}
           /\ Nudge.incremented = ~incremented
           /\ incremented => Nudge.diff = AtLeast(1, difficulty - 1)
           /\ ~incremented => Nudge.diff = difficulty + 1
<1>1. CASE incremented
  <2>1. Nudge = [diff |-> AtLeast(1, difficulty - 1), incremented |-> FALSE]
    BY <1>1, Zenon DEF Nudge
  <2>2. AtLeast(1, difficulty - 1) \in Nat \ {0}
    BY DEF AtLeast
  <2>3. Nudge.diff = AtLeast(1, difficulty - 1) /\ Nudge.incremented = FALSE
    BY <2>1, Zenon
  <2> QED
    BY <1>1, <2>2, <2>3, Zenon
<1>2. CASE ~incremented
  <2>1. Nudge = [diff |-> difficulty + 1, incremented |-> TRUE]
    BY <1>2, Zenon DEF Nudge
  <2>2. difficulty + 1 \in Nat \ {0}
    OBVIOUS
  <2>3. Nudge.diff = difficulty + 1 /\ Nudge.incremented = TRUE
    BY <2>1, Zenon
  <2> QED
    BY <1>2, <2>2, <2>3, Zenon
<1> QED
  BY <1>1, <1>2

\* The newest job has the session's difficulty.
JobInForce == validJobs # <<>> => validJobs[1].difficulty = difficulty

\* The types of what getNewJob changes.
SessionTypes ==
    /\ difficulty \in Nat \ {0}
    /\ newDiff \in Nat
    /\ validJobs \in Seq(Job)
    /\ base \in Nat \ {0}
    /\ asked \in BOOLEAN

\* Which branch getNewJob takes.
Kept(p, n, bypassCache, new) == n = 0 \/ (~bypassCache /\ CanReuseJob(p, n, new))

\* getNewJob called in a state of the invariant with arguments of their types.
Called(p, n, target, bypassCache, new, isAsked) ==
    /\ SessionTypes /\ JobWithinTarget /\ JobInForce
    /\ p \in Pools /\ n \in Nat /\ target \in Nat \ {0}
    /\ new \in Nat /\ isAsked \in BOOLEAN
    /\ GetNewJob(p, n, target, bypassCache, new, isAsked)

\* What getNewJob does to the session: its variables keep their types, no job exceeds
\* its target, the newest job has the session's difficulty, and a difficulty stays
\* pending only without a template.
LEMMA GetNewJobSession ==
    ASSUME NEW p, NEW n, NEW target, NEW bypassCache, NEW new, NEW isAsked,
           Called(p, n, target, bypassCache, new, isAsked)
    PROVE  /\ SessionTypes'
           /\ JobWithinTarget'
           /\ JobInForce'
           /\ newDiff' # 0 => n = 0
<1> USE DEF Called
<1>1. CASE Kept(p, n, bypassCache, new)
  <2>1. newDiff' = new /\ asked' = isAsked /\ UNCHANGED <<difficulty, validJobs, base>>
    BY <1>1 DEF GetNewJob, Kept
  <2>2. new # 0 => n = 0
    BY <1>1 DEF Kept, CanReuseJob
  <2> QED
    BY <2>1, <2>2 DEF SessionTypes, JobWithinTarget, JobInForce
<1>2. CASE ~Kept(p, n, bypassCache, new)
  <2> DEFINE diff == Adjusted(difficulty, new, target)
             job == [poolId |-> p, template |-> n, difficulty |-> diff, target |-> target]
             cap == Adjusted(base, IF isAsked THEN new ELSE 0, target)
             len == AtMost(Len(validJobs) + 1, JobWindow)
  <2>1. /\ difficulty' = diff
        /\ newDiff' = 0
        /\ validJobs' = Enq(validJobs, JobWindow, job)
        /\ base' = cap
        /\ asked' = FALSE
    BY <1>2 DEF GetNewJob, Kept
  <2>2. diff \in Nat \ {0} /\ diff <= target
    BY AdjustedBounds DEF SessionTypes
  <2>3. cap \in Nat \ {0}
    <3>1. (IF isAsked THEN new ELSE 0) \in Nat
      OBVIOUS
    <3> QED
      BY <3>1, AdjustedBounds DEF SessionTypes
  <2>4. job \in Job /\ job.difficulty = diff /\ job.target = target
    BY <2>2 DEF Job
  <2> HIDE DEF diff, job, cap
  <2>5. validJobs \in Seq(Job) /\ JobWindow \in Nat \ {0}
    BY VarDiffAssumption DEF SessionTypes
  <2> DEFINE enq == Enq(validJobs, JobWindow, job)
  <2>11. /\ enq \in Seq(Job)
         /\ Len(enq) = len
         /\ enq[1] = job
         /\ \A i \in 2..len : enq[i] = validJobs[i - 1]
    <3>1. len = AtMost(Len(validJobs) + 1, JobWindow)
      OBVIOUS
    <3> HIDE DEF len
    <3>2. job \in Job
      BY <2>4
    <3>3. Enq(validJobs, JobWindow, job) \in Seq(Job)
      BY <2>5, <3>2, EnqProperties
    <3>4. Len(Enq(validJobs, JobWindow, job)) = AtMost(Len(validJobs) + 1, JobWindow)
      <4>1. AtMost(Len(validJobs) + 1, JobWindow) \in Nat
        BY <2>5 DEF AtMost
      <4> QED
        BY <4>1 DEF Enq
    <3>5. Enq(validJobs, JobWindow, job)[1] = job
      BY <2>5, <3>2, EnqProperties
    <3>6. \A i \in 2..AtMost(Len(validJobs) + 1, JobWindow) :
             Enq(validJobs, JobWindow, job)[i] = validJobs[i - 1]
      BY <2>5, <3>2, EnqProperties
    <3> QED
      BY <3>1, <3>3, <3>4, <3>5, <3>6
  <2>12. validJobs' = enq
    BY <2>1
  <2> HIDE DEF enq
  <2>6. /\ validJobs' \in Seq(Job)
        /\ Len(validJobs') = len
        /\ validJobs'[1] = job
        /\ \A i \in 2..len : validJobs'[i] = validJobs[i - 1]
    BY <2>11, <2>12
  <2>7. len \in Nat /\ len >= 1 /\ len <= Len(validJobs) + 1
    BY <2>5 DEF AtMost
  <2> HIDE DEF len
  <2>8. SessionTypes'
    BY <2>1, <2>2, <2>3, <2>6 DEF SessionTypes
  <2>9. JobWithinTarget'
    <3> SUFFICES ASSUME NEW i \in DOMAIN validJobs'
                 PROVE  validJobs'[i].difficulty <= validJobs'[i].target
      BY DEF JobWithinTarget
    <3>1. i \in 1..len
      BY <2>6
    <3>2. CASE i = 1
      BY <2>2, <2>4, <2>6, <3>2
    <3>3. CASE i # 1
      <4>1. i \in 2..len /\ i - 1 \in DOMAIN validJobs
        BY <2>5, <2>7, <3>1, <3>3
      <4> QED
        BY <2>6, <4>1 DEF JobWithinTarget
    <3> QED
      BY <3>2, <3>3
  <2>10. JobInForce'
    BY <2>1, <2>4, <2>6 DEF JobInForce
  <2> QED
    BY <2>1, <2>8, <2>9, <2>10
<1> QED
  BY <1>1, <1>2

-----------------------------------------------------------------------------
(* The invariant.                                                           *)

\* What the session is asked for and what it was given, as the nudges go: above by at
\* most one after a nudge up, below by at most one after a nudge down.
Near(diff, given, up) ==
    /\ up => given <= diff /\ diff <= given + 1
    /\ ~up => diff <= given /\ given <= diff + 1

\* Only a retarget leaves a difficulty pending, and the nudges are balanced.
NudgesBalanced ==
    ~idleNudge => /\ newDiff # 0 => asked
                  /\ Near(difficulty, base, incremented)

\* A pending difficulty waits for a template.
PendingWaits == newDiff \notin {0, difficulty} => newest[pool] = 0

IInv == TypeOK /\ JobWithinTarget /\ JobInForce /\ PendingWaits /\ NudgesBalanced

\* The invariant implies the three properties the runs check.
LEMMA IInvImplies == IInv => TypeOK /\ JobWithinTarget /\ DifficultyInForce /\ NoDrift
<1> SUFFICES ASSUME IInv PROVE DifficultyInForce /\ NoDrift
  BY DEF IInv
<1>1. DifficultyInForce
  BY DEF IInv, JobInForce, PendingWaits, DifficultyInForce
<1>2. NoDrift
  <2> SUFFICES ASSUME ~idleNudge PROVE difficulty <= base + 1 /\ base <= difficulty + 1
    BY DEF NoDrift
  <2>1. difficulty \in Nat /\ base \in Nat
    BY DEF IInv, TypeOK
  <2> QED
    BY <2>1 DEF IInv, NudgesBalanced, Near
<1> QED
  BY <1>1, <1>2

\* A cap or a new difficulty for both keeps what was given near what is in force.
LEMMA CapKeepsNear ==
    ASSUME NEW diff \in Nat \ {0}, NEW given \in Nat \ {0}, NEW up \in BOOLEAN,
           NEW target \in Nat \ {0}, NEW new \in Nat, Near(diff, given, up)
    PROVE  Near(Adjusted(diff, new, target), Adjusted(given, new, target), up)
<1>1. CASE new = 0
  BY <1>1 DEF Near, Adjusted, AtMost
<1>2. CASE new # 0
  BY <1>2 DEF Near, Adjusted, AtMost
<1> QED
  BY <1>1, <1>2

\* getNewJob with what is pending, nudges aside, keeps the nudges balanced.
LEMMA GetNewJobBalanced ==
    ASSUME SessionTypes, incremented \in BOOLEAN, NEW p \in Pools, NEW n \in Nat,
           NEW target \in Nat \ {0}, NEW bypassCache \in BOOLEAN, NEW new \in Nat,
           NEW isAsked \in BOOLEAN, GetNewJob(p, n, target, bypassCache, new, isAsked),
           Near(difficulty, base, incremented), new # 0 => isAsked
    PROVE  /\ newDiff' # 0 => asked'
           /\ Near(difficulty', base', incremented)
<1>1. CASE Kept(p, n, bypassCache, new)
  BY <1>1 DEF GetNewJob, Kept
<1>2. CASE ~Kept(p, n, bypassCache, new)
  <2>1. /\ difficulty' = Adjusted(difficulty, new, target)
        /\ newDiff' = 0
        /\ base' = Adjusted(base, IF isAsked THEN new ELSE 0, target)
    BY <1>2 DEF GetNewJob, Kept
  <2>2. (IF isAsked THEN new ELSE 0) = new
    OBVIOUS
  <2>3. Near(Adjusted(difficulty, new, target), Adjusted(base, new, target), incremented)
    BY CapKeepsNear DEF SessionTypes
  <2> QED
    BY <2>1, <2>2, <2>3
<1> QED
  BY <1>1, <1>2

\* The parts of the invariant in terms of the session.
LEMMA IInvParts ==
    ASSUME IInv
    PROVE  /\ SessionTypes /\ JobWithinTarget /\ JobInForce
           /\ pool \in Pools /\ newest[pool] \in Nat /\ targetDiff[pool] \in Nat \ {0}
           /\ incremented \in BOOLEAN /\ asked \in BOOLEAN /\ newDiff \in Nat
           /\ difficulty \in Nat \ {0}
BY DEF IInv, TypeOK, SessionTypes

\* A session starts in the invariant.
LEMMA InitEstablishes == Init => IInv
<1> SUFFICES ASSUME Init PROVE IInv
  OBVIOUS
<1>1. difficulty \in Nat \ {0} /\ base = difficulty
  BY VarDiffAssumption DEF Init
<1>2. newest \in [Pools -> Nat] /\ targetDiff \in [Pools -> Nat \ {0}]
  <2>1. \A p \in Pools : (IF p = pool THEN 1 ELSE 0) \in Nat
    OBVIOUS
  <2>2. targetDiff \in [Pools -> Targets] /\ Targets \subseteq Nat \ {0}
    BY VarDiffAssumption DEF Init
  <2> QED
    BY <2>1, <2>2 DEF Init
<1>3. validJobs = <<>> /\ validJobs \in Seq(Job)
  BY DEF Init
<1>4. TypeOK
  BY <1>1, <1>2, <1>3 DEF Init, TypeOK
<1>5. JobWithinTarget /\ JobInForce
  BY <1>3 DEF JobWithinTarget, JobInForce
<1>6. PendingWaits
  BY DEF Init, PendingWaits
<1>7. NudgesBalanced
  BY <1>1 DEF Init, NudgesBalanced, Near
<1> QED
  BY <1>4, <1>5, <1>6, <1>7 DEF IInv

-----------------------------------------------------------------------------
(* Every action preserves the invariant.                                    *)

\* A session that asks for its job.
LEMMA HandleGetJobPreserves == IInv /\ HandleGetJob => IInv'
<1> SUFFICES ASSUME IInv, HandleGetJob PROVE IInv'
  OBVIOUS
<1>1. GetNewJob(pool, newest[pool], targetDiff[pool], FALSE, newDiff, asked)
      /\ UNCHANGED <<newest, targetDiff, pool, fixedDiff, incremented, idleNudge>>
  BY DEF HandleGetJob
<1>2. /\ SessionTypes' /\ JobWithinTarget' /\ JobInForce'
      /\ newDiff' # 0 => newest[pool] = 0
  <2>1. /\ SessionTypes /\ JobWithinTarget /\ JobInForce
        /\ pool \in Pools /\ newest[pool] \in Nat /\ targetDiff[pool] \in Nat \ {0}
        /\ newDiff \in Nat /\ asked \in BOOLEAN
    BY IInvParts
  <2>2. GetNewJob(pool, newest[pool], targetDiff[pool], FALSE, newDiff, asked)
    BY <1>1
  <2>3. Called(pool, newest[pool], targetDiff[pool], FALSE, newDiff, asked)
    BY <2>1, <2>2 DEF Called
  <2> QED
    BY <2>3, GetNewJobSession
<1>3. TypeOK'
  BY <1>1, <1>2 DEF IInv, TypeOK, SessionTypes
<1>4. PendingWaits'
  BY <1>1, <1>2 DEF PendingWaits
<1>5. NudgesBalanced'
  <2> SUFFICES ASSUME ~idleNudge
               PROVE  (newDiff' # 0 => asked') /\ Near(difficulty', base', incremented)
    BY <1>1 DEF NudgesBalanced
  <2>1. (newDiff # 0 => asked) /\ Near(difficulty, base, incremented)
    BY DEF IInv, NudgesBalanced
  <2> QED
    BY <1>1, <2>1, IInvParts, GetNewJobBalanced
<1> QED
  BY <1>2, <1>3, <1>4, <1>5 DEF IInv

\* A pool's new template.
LEMMA NewBlockTemplatePreserves ==
    ASSUME IInv, NEW p \in Pools, NewBlockTemplate(p)
    PROVE  IInv'
<1>1. PICK target \in Targets :
        /\ targetDiff' = [targetDiff EXCEPT ![p] = target]
        /\ IF p = pool
           THEN GetNewJob(p, newest[p] + 1, target, FALSE, newDiff, asked)
           ELSE UNCHANGED sessionVars
  BY DEF NewBlockTemplate
<1>2. /\ newest' = [newest EXCEPT ![p] = @ + 1]
      /\ UNCHANGED <<pool, fixedDiff, incremented, idleNudge>>
  BY DEF NewBlockTemplate
<1>3. target \in Nat \ {0}
  BY VarDiffAssumption
<1>4. newest[p] + 1 \in Nat \ {0}
  BY DEF IInv, TypeOK
<1>5. newest' \in [Pools -> Nat] /\ targetDiff' \in [Pools -> Nat \ {0}]
  <2>1. newest \in [Pools -> Nat] /\ targetDiff \in [Pools -> Nat \ {0}]
    BY DEF IInv, TypeOK
  <2> QED
    BY <1>1, <1>2, <1>3, <1>4, <2>1
<1>6. CASE p = pool
  <2>1. GetNewJob(p, newest[p] + 1, target, FALSE, newDiff, asked)
    BY <1>1, <1>6
  <2>2. SessionTypes' /\ JobWithinTarget' /\ JobInForce' /\ newDiff' = 0
    <3>1. newest[p] + 1 \in Nat /\ newest[p] + 1 # 0
      BY <1>4
    <3>2. /\ SessionTypes /\ JobWithinTarget /\ JobInForce
          /\ newDiff \in Nat /\ asked \in BOOLEAN
      BY IInvParts
    <3>3. Called(p, newest[p] + 1, target, FALSE, newDiff, asked)
      BY <1>3, <2>1, <3>1, <3>2 DEF Called
    <3> QED
      BY <3>1, <3>3, GetNewJobSession
  <2>3. TypeOK'
    BY <1>2, <1>5, <2>2 DEF IInv, TypeOK, SessionTypes
  <2>4. PendingWaits'
    BY <2>2 DEF PendingWaits
  <2>5. NudgesBalanced'
    <3> SUFFICES ASSUME ~idleNudge
                 PROVE  (newDiff' # 0 => asked') /\ Near(difficulty', base', incremented)
      BY <1>2 DEF NudgesBalanced
    <3>1. (newDiff # 0 => asked) /\ Near(difficulty, base, incremented)
      BY DEF IInv, NudgesBalanced
    <3>2. newest[p] + 1 \in Nat
      BY <1>4
    <3> QED
      BY <1>3, <2>1, <3>1, <3>2, IInvParts, GetNewJobBalanced
  <2> QED
    BY <2>2, <2>3, <2>4, <2>5 DEF IInv
<1>7. CASE p # pool
  <2>1. UNCHANGED sessionVars /\ newest'[pool] = newest[pool]
    BY <1>1, <1>2, <1>7 DEF IInv, TypeOK
  <2>2. TypeOK'
    BY <1>2, <1>5, <2>1 DEF IInv, TypeOK, sessionVars
  <2>3. JobWithinTarget' /\ JobInForce' /\ PendingWaits' /\ NudgesBalanced'
    BY <1>2, <2>1
       DEF IInv, sessionVars, JobWithinTarget, JobInForce, PendingWaits, NudgesBalanced
  <2> QED
    BY <2>2, <2>3 DEF IInv
<1> QED
  BY <1>6, <1>7

\* A move to a pool, with or without a template.
LEMMA MoveToPreserves ==
    ASSUME IInv, NEW p \in Pools, MoveTo(p)
    PROVE  IInv'
<1>1. /\ GetNewJob(p, newest[p], targetDiff[p], TRUE, newDiff, asked)
      /\ pool' = p
      /\ UNCHANGED <<newest, targetDiff, fixedDiff, incremented, idleNudge>>
  BY DEF MoveTo
<1>2. newest[p] \in Nat /\ targetDiff[p] \in Nat \ {0}
  BY DEF IInv, TypeOK
<1>3. /\ SessionTypes' /\ JobWithinTarget' /\ JobInForce'
      /\ newDiff' # 0 => newest[p] = 0
  <2>1. /\ SessionTypes /\ JobWithinTarget /\ JobInForce
        /\ newDiff \in Nat /\ asked \in BOOLEAN
    BY IInvParts
  <2>2. Called(p, newest[p], targetDiff[p], TRUE, newDiff, asked)
    BY <1>1, <1>2, <2>1 DEF Called
  <2> QED
    BY <2>2, GetNewJobSession
<1>4. TypeOK'
  BY <1>1, <1>3 DEF IInv, TypeOK, SessionTypes
<1>5. PendingWaits'
  BY <1>1, <1>3 DEF PendingWaits
<1>6. NudgesBalanced'
  <2> SUFFICES ASSUME ~idleNudge
               PROVE  (newDiff' # 0 => asked') /\ Near(difficulty', base', incremented)
    BY <1>1 DEF NudgesBalanced
  <2>1. (newDiff # 0 => asked) /\ Near(difficulty, base, incremented)
    BY DEF IInv, NudgesBalanced
  <2> QED
    BY <1>1, <1>2, <2>1, IInvParts, GetNewJobBalanced
<1> QED
  BY <1>3, <1>4, <1>5, <1>6 DEF IInv

\* A retarget: it is asked for, so what is given is what is in force.
LEMMA UpdateDifficultyPreserves ==
    ASSUME IInv, NEW speed \in Speeds, UpdateDifficulty(speed)
    PROVE  IInv'
<1>1. Clamped(speed) \in Nat \ {0}
  BY ClampedBounds
<1>2. /\ idleNudge' = (idleNudge /\ newDiff' # 0)
      /\ UNCHANGED <<newest, targetDiff, pool, fixedDiff, incremented>>
  BY DEF UpdateDifficulty
<1>3. CASE Clamped(speed) = difficulty
  <2>1. newDiff' = difficulty /\ asked' = TRUE /\ UNCHANGED <<difficulty, validJobs, base>>
    BY <1>3 DEF UpdateDifficulty
  <2>2. idleNudge' = idleNudge
    BY <1>1, <1>2, <1>3, <2>1 DEF IInv, TypeOK
  <2>3. TypeOK'
    BY <1>2, <2>1, <2>2 DEF IInv, TypeOK
  <2>4. JobWithinTarget' /\ JobInForce' /\ PendingWaits' /\ NudgesBalanced'
    BY <1>2, <2>1, <2>2 DEF IInv, JobWithinTarget, JobInForce, PendingWaits, NudgesBalanced
  <2> QED
    BY <2>3, <2>4 DEF IInv
<1>4. CASE Clamped(speed) # difficulty
  <2> DEFINE new == Clamped(speed)
  <2>1. GetNewJob(pool, newest[pool], targetDiff[pool], FALSE, new, TRUE)
    BY <1>4 DEF UpdateDifficulty
  <2>2. new \in Nat
    BY <1>1
  <2> HIDE DEF new
  <2>3. /\ SessionTypes' /\ JobWithinTarget' /\ JobInForce'
        /\ newDiff' # 0 => newest[pool] = 0
    <3>1. Called(pool, newest[pool], targetDiff[pool], FALSE, new, TRUE)
      BY <2>1, <2>2, IInvParts DEF Called
    <3> QED
      BY <3>1, GetNewJobSession
  <2>4. TypeOK'
    <3>1. idleNudge' \in BOOLEAN
      BY <1>2 DEF IInv, TypeOK
    <3> QED
      BY <1>2, <2>3, <3>1 DEF IInv, TypeOK, SessionTypes
  <2>5. PendingWaits'
    BY <1>2, <2>3 DEF PendingWaits
  <2>6. NudgesBalanced'
    <3> SUFFICES ASSUME ~idleNudge'
                 PROVE  (newDiff' # 0 => asked') /\ Near(difficulty', base', incremented)
      BY <1>2 DEF NudgesBalanced
    <3>1. CASE Kept(pool, newest[pool], FALSE, new)
      <4>1. newDiff' = new /\ asked' = TRUE /\ UNCHANGED <<difficulty, base>>
        BY <2>1, <3>1 DEF GetNewJob, Kept
      <4>2. ~idleNudge
        BY <1>1, <1>2, <4>1 DEF new
      <4> QED
        BY <4>1, <4>2 DEF IInv, NudgesBalanced
    <3>2. CASE ~Kept(pool, newest[pool], FALSE, new)
      <4> DEFINE target == targetDiff[pool]
      <4>1. /\ newDiff' = 0
            /\ difficulty' = Adjusted(difficulty, new, target)
            /\ base' = Adjusted(base, new, target)
        BY <2>1, <3>2 DEF GetNewJob, Kept
      <4>2. difficulty' = base'
        BY <1>1, <4>1 DEF Adjusted, new
      <4>3. difficulty' \in Nat
        BY <2>3 DEF SessionTypes
      <4> QED
        BY <4>1, <4>2, <4>3 DEF Near
    <3> QED
      BY <3>1, <3>2
  <2> QED
    BY <2>3, <2>4, <2>5, <2>6 DEF IInv
<1> QED
  BY <1>3, <1>4

\* A late share: the nudge goes the way the last one did not.
LEMMA HandleExpiredSharePreserves == IInv /\ HandleExpiredShare => IInv'
<1> SUFFICES ASSUME IInv, HandleExpiredShare PROVE IInv'
  OBVIOUS
<1> DEFINE new == Nudge.diff
<1>1. /\ GetNewJob(pool, newest[pool], targetDiff[pool], TRUE, new, FALSE)
      /\ incremented' = Nudge.incremented
      /\ idleNudge' = (idleNudge \/ newest[pool] = 0)
      /\ UNCHANGED <<newest, targetDiff, pool, fixedDiff>>
  BY DEF HandleExpiredShare
<1>2. /\ new \in Nat \ {0}
      /\ incremented' = ~incremented
      /\ incremented => new = AtLeast(1, difficulty - 1)
      /\ ~incremented => new = difficulty + 1
  BY <1>1, IInvParts, NudgeBounds
<1> HIDE DEF new
<1>3. /\ SessionTypes' /\ JobWithinTarget' /\ JobInForce'
      /\ newDiff' # 0 => newest[pool] = 0
  <2>1. new \in Nat
    BY <1>2
  <2> QED
    <3>1. Called(pool, newest[pool], targetDiff[pool], TRUE, new, FALSE)
      BY <1>1, <2>1, IInvParts DEF Called
    <3> QED
      BY <3>1, GetNewJobSession
<1>4. TypeOK'
  <2>1. idleNudge' \in BOOLEAN /\ incremented' \in BOOLEAN
    BY <1>1, <1>2
  <2> QED
    BY <1>1, <1>3, <2>1 DEF IInv, TypeOK, SessionTypes
<1>5. PendingWaits'
  BY <1>1, <1>3 DEF PendingWaits
<1>6. NudgesBalanced'
  <2> SUFFICES ASSUME ~idleNudge'
               PROVE  (newDiff' # 0 => asked') /\ Near(difficulty', base', incremented')
    BY DEF NudgesBalanced
  <2>1. ~idleNudge /\ newest[pool] # 0
    BY <1>1
  <2> DEFINE target == targetDiff[pool]
  <2>2. /\ newDiff' = 0
        /\ difficulty' = Adjusted(difficulty, new, target)
        /\ base' = Adjusted(base, 0, target)
    BY <1>1, <2>1 DEF GetNewJob
  <2>3. target \in Nat \ {0} /\ difficulty \in Nat \ {0} /\ base \in Nat \ {0}
    BY IInvParts DEF SessionTypes
  <2>4. Near(difficulty, base, incremented)
    BY <2>1 DEF IInv, NudgesBalanced
  <2> HIDE DEF target
  <2>5. difficulty' = AtMost(new, target) /\ base' = AtMost(base, target)
    BY <1>2, <2>2 DEF Adjusted
  <2>6. CASE incremented
    <3>1. base <= difficulty /\ difficulty <= base + 1
      BY <2>4, <2>6 DEF Near
    <3>2. new <= base /\ base <= new + 1
      BY <1>2, <2>3, <2>6, <3>1 DEF AtLeast
    <3>3. difficulty' <= base' /\ base' <= difficulty' + 1
      BY <1>2, <2>3, <2>5, <3>2 DEF AtMost
    <3> QED
      BY <1>2, <2>2, <2>6, <3>3 DEF Near
  <2>7. CASE ~incremented
    <3>1. difficulty <= base /\ base <= difficulty + 1
      BY <2>4, <2>7 DEF Near
    <3>2. base <= new /\ new <= base + 1
      BY <1>2, <2>3, <2>7, <3>1
    <3>3. base' <= difficulty' /\ difficulty' <= base' + 1
      BY <1>2, <2>3, <2>5, <3>2 DEF AtMost
    <3> QED
      BY <1>2, <2>2, <2>7, <3>3 DEF Near
  <2> QED
    BY <2>6, <2>7, IInvParts
<1> QED
  BY <1>3, <1>4, <1>5, <1>6 DEF IInv

\* The invariant holds in every reachable state.
THEOREM InvariantHolds == Spec => []IInv
<1>1. Init => IInv
  BY InitEstablishes
<1>2. IInv /\ [Next]_vars => IInv'
  <2> SUFFICES ASSUME IInv, [Next]_vars PROVE IInv'
    OBVIOUS
  <2>1. CASE UNCHANGED vars
    BY <2>1 DEF IInv, TypeOK, JobWithinTarget, JobInForce, PendingWaits, NudgesBalanced, vars
  <2> QED
    BY <2>1, HandleGetJobPreserves, NewBlockTemplatePreserves, MoveToPreserves,
       UpdateDifficultyPreserves, HandleExpiredSharePreserves DEF Next
<1> QED
  BY <1>1, <1>2, PTL DEF Spec

\* Every variable of the session keeps its type; a difficulty is never zero.
THEOREM TypeCorrect == Spec => []TypeOK
BY InvariantHolds, IInvImplies, PTL

\* adjustMinerDiff: no job is harder than the upstream's target.
THEOREM JobWithinTargetHolds == Spec => []JobWithinTarget
BY InvariantHolds, IInvImplies, PTL

\* canReuseJob and adjustMinerDiff: a changed difficulty takes effect with the next job.
THEOREM DifficultyInForceHolds == Spec => []DifficultyInForce
BY InvariantHolds, IInvImplies, PTL

\* handleExpiredShare: nudges alternate, so late shares do not move the difficulty away
\* from what login, retarget and caps gave the session.
THEOREM NoDriftHolds == Spec => []NoDrift
BY InvariantHolds, IInvImplies, PTL
=============================================================================
