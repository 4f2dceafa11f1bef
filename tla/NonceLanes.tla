----------------------------- MODULE NonceLanes -----------------------------
(***************************************************************************)
(* How one upstream job becomes different work for every miner, and how a  *)
(* share finds its way back to the work it was made for (coins/template.js,*)
(* coins/share.js, with their callers in proxy/master.js, proxy/worker.js  *)
(* and proxy/pool.js).                                                     *)
(*                                                                         *)
(* The bytes that make a hash input unique are a lane: the blob of the     *)
(* upstream job, the pool nonce the master writes into it for a worker,    *)
(* and the worker nonce the worker writes into it for a job.               *)
(*                                                                         *)
(* One pool and several workers.  A template handed to a worker is named   *)
(* by its number among all (the code draws a random id).  lane in a job, a *)
(* share and a submit is history: what the miner really worked on.         *)
(***************************************************************************)
EXTENDS CircularBuffer, FiniteSets, Functions, Bags

CONSTANTS
    Workers,        \* worker processes
    Solo,           \* the upstream's jobs name no place for a worker nonce
    MasterWindow,   \* 8 in the code: workerJobs kept per worker
    PastLimit,      \* 4 in the code: past templates a worker keeps
    Nonces,         \* nonces a miner may find in a lane
    MaxJobs,        \* bound: jobs the upstream sends
    MaxHanded,      \* bound: jobs handed out
    MaxIssued,      \* bound: templates handed to workers
    MaxQueue        \* bound: messages in one direction between master and worker

ASSUME LaneAssumption ==
    /\ IsFiniteSet(Workers)
    /\ Solo \in BOOLEAN
    /\ MasterWindow \in Nat \ {0}
    /\ PastLimit \in Nat \ {0}

VARIABLES
    blobOf,       \* the upstream: the blob of every job it has sent
    template,     \* the master's pool.activeBlockTemplate
    issued,       \* templates handed to workers so far
    workerJobs,   \* pool.workerJobs, per worker
    down,         \* templates on their way to each worker
    up,           \* each worker's messages on their way to the master
    active,       \* each worker's activeBlockTemplate
    past,         \* each worker's pastBlockTemplates
    jobs,         \* the jobs the miners have, with their submissions
    handed,       \* history: the lanes ever handed to a miner, a bag
    credited,     \* history: the work ever credited to a miner, a bag
    submitted     \* the share sent upstream last

vars == <<blobOf, template, issued, workerJobs, down, up, active, past, jobs, handed, credited, submitted>>

Lane == [blob : Nat, poolNonce : Nat, workerNonce : Nat]
MasterTemplate == [job : Nat, blob : Nat, poolNonce : Nat]
WorkerTemplate == [id : Nat, blob : Nat, poolNonce : Nat, workerNonce : Nat]
WorkerJob == [id : Nat, masterJobID : Nat, poolNonce : Nat]
MinerJob == [worker : Workers, templateID : Nat, extraNonce : Nat, lane : Lane]
NeedPoolState == [type |-> "needPoolState"]
Work == [lane : Lane, nonce : Nonces]
ShareFind == [type : {"shareFind"}, btID : Nat, workerNonce : Nat, nonce : Nonces,
              lane : Lane, prepared : Lane]
Submit == [job_id : Nat, poolNonce : Nat, workerNonce : Nat, nonce : Nonces, lane : Lane]

\* Jobs, blobs and template ids count from 1.
NoMasterTemplate == [job |-> 0, blob |-> 0, poolNonce |-> 0]
NoTemplate == [id |-> 0, blob |-> 0, poolNonce |-> 0, workerNonce |-> 0]

TypeOK ==
    /\ blobOf \in Seq(Nat)
    /\ template \in MasterTemplate
    /\ issued \in Nat
    /\ workerJobs \in [Workers -> Seq(WorkerJob)]
    /\ down \in [Workers -> Seq(WorkerTemplate \ {NoTemplate})]
    /\ up \in [Workers -> Seq(ShareFind \cup {NeedPoolState})]
    /\ active \in [Workers -> WorkerTemplate]
    /\ past \in [Workers -> Seq(WorkerTemplate \ {NoTemplate})]
    /\ DOMAIN jobs \subseteq MinerJob
    /\ \A j \in DOMAIN jobs : jobs[j] \subseteq Nonces
    /\ DOMAIN handed \subseteq Lane
    /\ DOMAIN credited \subseteq Work
    /\ submitted \in SUBSET Submit

Init ==
    /\ blobOf = <<>>
    /\ template = NoMasterTemplate
    /\ issued = 0
    /\ workerJobs = [w \in Workers |-> <<>>]
    /\ down = [w \in Workers |-> <<>>]
    /\ up = [w \in Workers |-> <<NeedPoolState>>]
    /\ active = [w \in Workers |-> NoTemplate]
    /\ past = [w \in Workers |-> <<>>]
    /\ jobs = << >>
    /\ handed = EmptyBag
    /\ credited = EmptyBag
    /\ submitted = {}

HasTemplate == template.job # 0

-----------------------------------------------------------------------------
(* The master.                                                              *)

\* blobForWorker, called for the n-th time since the template was at t.
PoolNonce(t, n) == IF Solo THEN t.poolNonce ELSE t.poolNonce + n

\* MUTANT: the job is remembered before its nonce is drawn.
WorkerJobTooSoon(t, n, id) ==
    [id |-> id, masterJobID |-> t.job, poolNonce |-> PoolNonce(t, n - 1)]

\* localData of getMasterJob: what a share of the n-th template is mapped back to.
LocalData(t, n, id) ==
    [id |-> id, masterJobID |-> t.job, poolNonce |-> PoolNonce(t, n)]

\* getMasterJob for the workers of S, visited in the order rank, from the master's
\* template t: each gets a pool nonce of its own, and the master remembers it.
SendTemplates(S, rank, t) ==
    /\ issued + Cardinality(S) <= MaxIssued
    /\ \A w \in S : Len(down[w]) < MaxQueue
    /\ issued' = issued + Cardinality(S)
    /\ template' = [t EXCEPT !.poolNonce = PoolNonce(t, Cardinality(S))]
    /\ down' = [w \in Workers |->
           IF w \in S
           THEN Append(down[w], [id |-> issued + rank[w], blob |-> t.blob,
                                 poolNonce |-> PoolNonce(t, rank[w]), workerNonce |-> 0])
           ELSE down[w]]
    /\ workerJobs' = [w \in Workers |->
           IF w \in S
           THEN Enq(workerJobs[w], MasterWindow, LocalData(t, rank[w], issued + rank[w]))
           ELSE workerJobs[w]]

\* MUTANT: jobs are told apart by the upstream's job id and not by their blob.
SameJobId(blob) == FALSE

\* isDuplicateTemplate: the work, not the job id, tells jobs apart.
IsDuplicate(blob) == HasTemplate /\ template.blob = blob

\* What the upstream may send: the blob of its last job once more, on the same
\* connection, or one it never sent before. A connection has blobs of its own.
NextBlobs ==
    {Cardinality({blobOf[i] : i \in DOMAIN blobOf}) + 1}
    \cup (IF HasTemplate THEN {blobOf[Len(blobOf)]} ELSE {})

\* handlePoolTemplate for the next job of the upstream.
PoolJob ==
    /\ Len(blobOf) < MaxJobs
    /\ \E blob \in NextBlobs :
          /\ blobOf' = Append(blobOf, blob)
          /\ IF IsDuplicate(blob)
             THEN UNCHANGED <<template, issued, workerJobs, down>>
             ELSE \E rank \in Bijection(Workers, 1..Cardinality(Workers)) :
                     SendTemplates(Workers, rank,
                         [job |-> Len(blobOf) + 1, blob |-> blob, poolNonce |-> 0])
    /\ UNCHANGED <<up, active, past, jobs, handed, credited, submitted>>

\* markUnavailable: the master forgets the template, and keeps workerJobs.
PoolDown ==
    /\ HasTemplate
    /\ template' = NoMasterTemplate
    /\ UNCHANGED <<blobOf, issued, workerJobs, down, up, active, past, jobs, handed, credited, submitted>>

\* handlePoolStateRequest of a worker that has started; its first template may
\* have been broadcast to it before.
HandleNeedPoolState(w) ==
    /\ up[w] # <<>>
    /\ Head(up[w]) = NeedPoolState
    /\ IF HasTemplate
       THEN SendTemplates({w}, [x \in {w} |-> 1], template)
       ELSE UNCHANGED <<template, issued, workerJobs, down>>
    /\ up' = [up EXCEPT ![w] = Tail(@)]
    /\ UNCHANGED <<blobOf, active, past, jobs, handed, credited, submitted>>

\* The entry of workerJobs a share is mapped back with, if it is still there.
JobsOf(w, share) ==
    {j \in {workerJobs[w][i] : i \in DOMAIN workerJobs[w]} : j.id = share.btID}

\* The params of sendShare.
Mapped(j, share) ==
    [job_id |-> j.masterJobID, poolNonce |-> j.poolNonce,
     workerNonce |-> share.workerNonce, nonce |-> share.nonce, lane |-> share.lane]

\* handleShareMessage; a share of a template that is not remembered is dropped.
HandleShare(w) ==
    /\ up[w] # <<>>
    /\ Head(up[w]).type = "shareFind"
    /\ submitted' = {Mapped(j, Head(up[w])) : j \in JobsOf(w, Head(up[w]))}
    /\ up' = [up EXCEPT ![w] = Tail(@)]
    /\ UNCHANGED <<blobOf, template, issued, workerJobs, down, active, past, jobs, handed, credited>>

-----------------------------------------------------------------------------
(* A worker.                                                                *)

\* MUTANT: the worker files away the template it does not have.
ApplyTemplateUnchecked(w) ==
    /\ down[w] # <<>>
    /\ active' = [active EXCEPT ![w] = Head(down[w])]
    /\ past' = [past EXCEPT ![w] = Enq(@, PastLimit, active[w])]
    /\ down' = [down EXCEPT ![w] = Tail(@)]
    /\ UNCHANGED <<blobOf, template, issued, workerJobs, up, jobs, handed, credited, submitted>>

\* setNewBlockTemplate.
ApplyTemplate(w) ==
    /\ down[w] # <<>>
    /\ active' = [active EXCEPT ![w] = Head(down[w])]
    /\ past' = IF active[w] = NoTemplate THEN past
               ELSE [past EXCEPT ![w] = Enq(@, PastLimit, active[w])]
    /\ down' = [down EXCEPT ![w] = Tail(@)]
    /\ UNCHANGED <<blobOf, template, issued, workerJobs, up, jobs, handed, credited, submitted>>

\* The lane a template's buffer holds with a worker nonce written into it.
LaneOf(t, nonce) == [blob |-> t.blob, poolNonce |-> t.poolNonce, workerNonce |-> nonce]

\* getJob of a miner of w that cannot reuse its job: nextBlob, then the job record.
HandOut(w) ==
    /\ active[w] # NoTemplate
    /\ BagCardinality(handed) < MaxHanded
    /\ LET nonce == active[w].workerNonce + 1
           job == [worker |-> w, templateID |-> active[w].id, extraNonce |-> nonce,
                   lane |-> LaneOf(active[w], nonce)]
       IN  /\ active' = [active EXCEPT ![w].workerNonce = nonce]
           /\ jobs' = [j \in DOMAIN jobs \cup {job} |-> IF j = job THEN {} ELSE jobs[j]]
           /\ handed' = handed (+) SetToBag({job.lane})
    /\ UNCHANGED <<blobOf, template, issued, workerJobs, down, up, past, credited, submitted>>

\* MUTANT: a nonce may be submitted again.
AcceptNonceAgain(j, nonce) ==
    jobs' = [jobs EXCEPT ![j] = @ \cup {nonce}]

\* acceptNonce, far from the cap; a nonce that is refused changes nothing.
AcceptNonce(j, nonce) ==
    /\ nonce \notin jobs[j]
    /\ jobs' = [jobs EXCEPT ![j] = @ \cup {nonce}]

\* findBlockTemplate.
Known(w) == {active[w]} \cup {past[w][i] : i \in DOMAIN past[w]}

\* MUTANT: the share is rebuilt in the template's buffer as it is, which holds the
\* nonce of the job handed out last.
PreparedAsIs(t, extraNonce) == LaneOf(t, t.workerNonce)

\* prepareTemplate: a copy of the template's buffer with the job's nonce written in.
Prepared(t, extraNonce) == LaneOf(t, extraNonce)

\* A share good enough for the upstream is credited and forwarded. (One whose template
\* the worker has no longer changes nothing but a list that does not matter any more.)
SubmitShare(j, nonce) ==
    /\ AcceptNonce(j, nonce)
    /\ \E t \in Known(j.worker) :
          /\ t.id = j.templateID
          /\ Len(up[j.worker]) < MaxQueue
          /\ up' = [up EXCEPT ![j.worker] = Append(@,
                 [type |-> "shareFind", btID |-> t.id, workerNonce |-> j.extraNonce,
                  nonce |-> nonce, lane |-> j.lane, prepared |-> Prepared(t, j.extraNonce)])]
    /\ credited' = credited (+) SetToBag({[lane |-> j.lane, nonce |-> nonce]})
    /\ UNCHANGED <<blobOf, template, issued, workerJobs, down, active, past, handed, submitted>>

\* A worker dies with its miners' sessions and a new one takes its place, under
\* an id the master's workerJobs has nothing for.
Respawn(w) ==
    /\ workerJobs' = [workerJobs EXCEPT ![w] = <<>>]
    /\ down' = [down EXCEPT ![w] = <<>>]
    /\ up' = [up EXCEPT ![w] = <<NeedPoolState>>]
    /\ active' = [active EXCEPT ![w] = NoTemplate]
    /\ past' = [past EXCEPT ![w] = <<>>]
    /\ jobs' = [j \in {x \in DOMAIN jobs : x.worker # w} |-> jobs[j]]
    /\ UNCHANGED <<blobOf, template, issued, handed, credited, submitted>>

Next ==
    \/ PoolJob
    \/ PoolDown
    \/ \E w \in Workers :
          \/ HandleNeedPoolState(w)
          \/ HandleShare(w)
          \/ ApplyTemplate(w)
          \/ HandOut(w)
          \/ Respawn(w)
    \/ \E j \in DOMAIN jobs, nonce \in Nonces : SubmitShare(j, nonce)

Spec == Init /\ [][Next]_vars

-----------------------------------------------------------------------------
(* Properties.                                                              *)

\* No two jobs handed out anywhere in the proxy are the same work: not to two
\* miners of a worker, not by two workers, not before and after an outage, a
\* repeated upstream job or a respawned worker. (Miners hashing the same lane do
\* the same work, and the second to find a share is told it is a duplicate.)
DistinctWork ==
    \A lane \in BagToSet(handed) : handed[lane] = 1

\* What is submitted upstream names exactly the work the miner did: the blob of
\* the job id, the pool nonce and the worker nonce; and the worker verified that
\* work too, although the template's buffer has been written to for other miners
\* since. (Otherwise the upstream rebuilds another blob and rejects a good share.)
ShareReconstructed ==
    /\ \A s \in submitted :
          s.lane = [blob |-> blobOf[s.job_id], poolNonce |-> s.poolNonce, workerNonce |-> s.workerNonce]
    /\ \A w \in Workers : \A i \in DOMAIN up[w] :
          up[w][i].type = "shareFind" => up[w][i].prepared = up[w][i].lane

\* No work is credited or forwarded twice, by whichever worker and under whichever
\* job it is submitted again: each job refuses its own nonces, and no two jobs are
\* for the same lane.
CountedOnce ==
    \A work \in BagToSet(credited) : credited[work] = 1
=============================================================================
