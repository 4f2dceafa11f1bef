------------------------- MODULE JobPipelineProofs --------------------------
(***************************************************************************)
(* Proofs about JobPipeline for every set of pools, miners and heights and *)
(* every size of the windows: the type invariant, and, for a worker that   *)
(* rejects no template, that the windows of master and worker fit.         *)
(***************************************************************************)
EXTENDS JobPipeline, FiniteSetTheorems, TLAPS

-----------------------------------------------------------------------------
(* The circular buffers.                                                    *)

\* enq puts the value in front, shifts the others by one place, and keeps at most
\* limit entries.
LEMMA EnqProperties ==
    ASSUME NEW S, NEW buffer \in Seq(S), NEW limit \in Nat \ {0}, NEW value \in S
    PROVE  /\ Enq(buffer, limit, value) \in Seq(S)
           /\ Len(Enq(buffer, limit, value)) = AtMost(Len(buffer) + 1, limit)
           /\ Enq(buffer, limit, value)[1] = value
           /\ \A i \in 2..AtMost(Len(buffer) + 1, limit) :
                 Enq(buffer, limit, value)[i] = buffer[i - 1]
<1> DEFINE n == AtMost(Len(buffer) + 1, limit)
<1>1. n \in Nat /\ n >= 1 /\ n <= Len(buffer) + 1 /\ n <= limit
  BY DEF AtMost
<1>2. \A i \in 1..n : (IF i = 1 THEN value ELSE buffer[i - 1]) \in S
  BY <1>1
<1>3. Enq(buffer, limit, value) = [i \in 1..n |-> IF i = 1 THEN value ELSE buffer[i - 1]]
  BY DEF Enq
<1> DEFINE f == [i \in 1..n |-> IF i = 1 THEN value ELSE buffer[i - 1]]
<1> HIDE DEF n
<1>4. f \in Seq(S) /\ Len(f) = n
  BY <1>1, <1>2
<1>5. f[1] = value
  BY <1>1
<1>6. \A i \in 2..n : f[i] = buffer[i - 1]
  BY <1>1
<1>7. Enq(buffer, limit, value) = f
  BY <1>3
<1> HIDE DEF f
<1> QED
  BY <1>4, <1>5, <1>6, <1>7 DEF n

-----------------------------------------------------------------------------
(* The type invariant.                                                      *)

\* A session on a pool keeps its type when it is given a job.
LEMMA WithNewJobTypes ==
    ASSUME NEW s \in Session, s.pool \in Pools, NEW t \in [Pools -> Nat]
    PROVE  /\ WithNewJob(s, t) \in Session
           /\ WithNewJob(s, t).pool = s.pool
<1>1. CASE t[s.pool] = 0
  BY <1>1 DEF WithNewJob
<1>2. CASE t[s.pool] # 0
  <2> DEFINE job == [pool |-> s.pool, id |-> t[s.pool]]
  <2>1. job \in Job
    BY <1>2 DEF Job
  <2>2. s.jobs \in Seq(Job) /\ JobWindow \in Nat \ {0}
    BY WindowAssumption DEF Session
  <2>3. Enq(s.jobs, JobWindow, job) \in Seq(Job)
    BY <2>1, <2>2, EnqProperties
  <2> HIDE DEF job
  <2>4. WithNewJob(s, t) = [s EXCEPT !.jobs = Enq(s.jobs, JobWindow, job)]
    BY <1>2 DEF WithNewJob, job
  <2> QED
    BY <2>3, <2>4 DEF Session
<1> QED
  BY <1>1, <1>2

LEMMA WithJobTypes ==
    ASSUME NEW s \in Session, s.pool \in Pools, NEW t \in [Pools -> Nat]
    PROVE  WithJob(s, t) \in Session
BY WithNewJobTypes DEF WithJob

LEMMA FailedOverTypes ==
    ASSUME TypeOK, NEW s \in Session, NEW act, NEW fallback \in Pools
    PROVE  FailedOver(s, act, fallback) \in Session
<1> DEFINE moved == [s EXCEPT !.pool = fallback]
<1>1. moved \in Session /\ moved.pool \in Pools
  BY DEF Session
<1>2. tmpl \in [Pools -> Nat]
  BY DEF TypeOK
<1> HIDE DEF moved
<1>3. WithNewJob(moved, tmpl) \in Session
  BY <1>1, <1>2, WithNewJobTypes
<1> QED
  BY <1>3 DEF FailedOver, moved

LEMMA InitialPoolsTypes ==
    ASSUME NEW act, NEW t, NEW h
    PROVE  InitialPools(act, t, h) \subseteq Pools
BY PoolAssumption DEF InitialPools

LEMMA CheckActivePoolsTypes ==
    ASSUME TypeOK, NEW act, CheckActivePools(act)
    PROVE  miners' \in [Miners -> Session]
<1>1. PICK fallback \in InitialPools(act, tmpl, height) :
          miners' = [m \in Miners |-> FailedOver(miners[m], act, fallback)]
  BY DEF CheckActivePools
<1>2. fallback \in Pools
  BY InitialPoolsTypes
<1>3. \A m \in Miners : FailedOver(miners[m], act, fallback) \in Session
  BY <1>2, FailedOverTypes DEF TypeOK
<1> QED
  BY <1>1, <1>3

\* getMasterJob keeps the counters and the windows well-typed.
LEMMA IssueTypes ==
    ASSUME TypeOK, NEW S \in SUBSET Pools, Issue(S)
    PROVE  /\ issued' \in [Pools -> Nat]
           /\ workerJobs' \in [Pools -> Seq(Nat)]
<1>1. \A p \in Pools : issued[p] + 1 \in Nat /\ workerJobs[p] \in Seq(Nat)
  BY DEF TypeOK
<1>2. \A p \in Pools : Enq(workerJobs[p], MasterWindow, issued[p] + 1) \in Seq(Nat)
  BY <1>1, WindowAssumption, EnqProperties
<1> QED
  BY <1>1, <1>2 DEF Issue, TypeOK

LEMMA OrderTypes ==
    ASSUME NEW S \in SUBSET Pools, NEW order \in Orders(S)
    PROVE  /\ Cardinality(S) \in Nat
           /\ order \in [1..Cardinality(S) -> S]
<1>1. IsFiniteSet(S)
  BY PoolAssumption, FS_Subset
<1> QED
  BY <1>1, FS_CardinalityType DEF Orders, Bijection, Injection

\* The messages of handlePoolStateRequest that follow poolState.
StateTemplates(S, order) ==
    [i \in 1..Cardinality(S) |-> TemplateMsg(order[i], issued[order[i]] + 1, mHeight[order[i]])]

\* A usable pool of the master has a template with a height.
ReadyHasHeight == \A p \in Pools : ready[p] => mHeight[p] \in Heights

LEMMA StateTemplatesTypes ==
    ASSUME TypeOK, ReadyHasHeight, NEW S \in SUBSET Pools, \A p \in S : ready[p],
           NEW order \in Orders(S)
    PROVE  /\ StateTemplates(S, order) \in Seq(DownMessage)
           /\ Len(StateTemplates(S, order)) = Cardinality(S)
<1> DEFINE n == Cardinality(S)
<1> DEFINE msg(i) == TemplateMsg(order[i], issued[order[i]] + 1, mHeight[order[i]])
<1>1. n \in Nat /\ order \in [1..n -> S]
  BY OrderTypes
<1>2. \A i \in 1..n : msg(i) \in DownMessage
  <2> SUFFICES ASSUME NEW i \in 1..n PROVE msg(i) \in DownMessage
    OBVIOUS
  <2>1. order[i] \in S /\ order[i] \in Pools
    BY <1>1
  <2>2. issued[order[i]] + 1 \in Nat \ {0} /\ mHeight[order[i]] \in Heights
    BY <2>1 DEF TypeOK, ReadyHasHeight
  <2> QED
    BY <2>1, <2>2 DEF TemplateMsg, DownMessage
<1> HIDE DEF n, msg
<1>3. [i \in 1..n |-> msg(i)] \in Seq(DownMessage)
  BY <1>1, <1>2
<1>4. Len([i \in 1..n |-> msg(i)]) = n
  BY <1>1, <1>3
<1> QED
  BY <1>3, <1>4 DEF StateTemplates, n, msg

TypeInv == TypeOK /\ ReadyHasHeight

LEMMA MasterTypes ==
    ASSUME TypeInv, MasterNext
    PROVE  TypeInv'
<1> USE DEF TypeInv, TypeOK, ReadyHasHeight, masterVars, workerVars
<1>1. ASSUME NEW p \in Pools, PoolDown(p) PROVE TypeInv'
  <2>1. [type |-> "disablePool", pool |-> p] \in DownMessage
    BY DEF DownMessage
  <2>2. down' \in Seq(DownMessage)
    BY <1>1, <2>1 DEF PoolDown
  <2> QED
    BY <1>1, <2>2 DEF PoolDown
<1>2. ASSUME NEW p \in Pools, NEW h \in Heights, PoolTemplate(p, h) PROVE TypeInv'
  <2> DEFINE enable == [type |-> "enablePool", pool |-> p]
  <2> DEFINE template == TemplateMsg(p, issued[p] + 1, h)
  <2>1. enable \in DownMessage /\ template \in DownMessage
    BY DEF DownMessage, TemplateMsg
  <2>2. ready' \in [Pools -> BOOLEAN] /\ mHeight' \in [Pools -> Heights \cup {0}] /\ ReadyHasHeight'
    BY <1>2 DEF PoolTemplate
  <2>3. UNCHANGED <<up, active, tmpl, height, past, miners>>
    BY <1>2 DEF PoolTemplate
  <2>6. heldBack' \subseteq Pools
    BY <1>2 DEF PoolTemplate
  <2>4. CASE Issue({p}) /\ down' = down \o <<enable, template>>
    <3>1. issued' \in [Pools -> Nat] /\ workerJobs' \in [Pools -> Seq(Nat)]
      BY <2>4, IssueTypes
    <3>2. down' \in Seq(DownMessage)
      <4> HIDE DEF enable, template
      <4> QED
        BY <2>1, <2>4
    <3> QED
      BY <2>2, <2>3, <2>6, <3>1, <3>2
  <2>5. CASE UNCHANGED <<issued, workerJobs>> /\ down' = Append(down, enable)
    <3>1. down' \in Seq(DownMessage)
      <4> HIDE DEF enable
      <4> QED
        BY <2>1, <2>5
    <3> QED
      BY <2>2, <2>3, <2>5, <2>6, <3>1
  <2> QED
    BY <1>2, <2>4, <2>5 DEF PoolTemplate
<1>3. ASSUME NEW m \in Miners, NEW p \in Pools, Rebalance(m, p) PROVE TypeInv'
  <2>1. [type |-> "changePool", pool |-> p, miner |-> m] \in DownMessage
    BY DEF DownMessage
  <2>2. down' \in Seq(DownMessage)
    BY <1>3, <2>1 DEF Rebalance
  <2> QED
    BY <1>3, <2>2 DEF Rebalance
<1>4. CASE HandleNeedPoolState
  <2> DEFINE usable == {p \in Pools : IsPoolUsable(ready, mHeight, p)}
  <2>1. usable \in SUBSET Pools /\ \A p \in usable : ready[p]
    BY DEF IsPoolUsable
  <2>2. Issue(usable) /\ up' = Tail(up) /\ up # <<>> /\ UNCHANGED <<ready, mHeight, active, tmpl, height, past, miners>>
    BY <1>4 DEF HandleNeedPoolState
  <2>3. PICK order \in Orders(usable) :
            down' = Append(down, [type |-> "poolState"]) \o StateTemplates(usable, order)
    BY <1>4 DEF HandleNeedPoolState, StateTemplates
  <2> HIDE DEF usable
  <2>4. StateTemplates(usable, order) \in Seq(DownMessage)
    BY <2>1, StateTemplatesTypes
  <2>5. [type |-> "poolState"] \in DownMessage
    BY DEF DownMessage
  <2>6. down' \in Seq(DownMessage)
    BY <2>3, <2>4, <2>5
  <2>7. issued' \in [Pools -> Nat] /\ workerJobs' \in [Pools -> Seq(Nat)]
    BY <2>1, <2>2, IssueTypes
  <2>8. up' \in Seq(UpMessage)
    BY <2>2
  <2>9. heldBack' \subseteq Pools
    BY <1>4 DEF HandleNeedPoolState, Lagging
  <2> QED
    BY <2>2, <2>6, <2>7, <2>8, <2>9
<1>5. CASE HandleShare
  BY <1>5 DEF HandleShare
<1> QED
  BY <1>1, <1>2, <1>3, <1>4, <1>5 DEF MasterNext

LEMMA TemplateFields ==
    ASSUME NEW msg \in DownMessage, msg.type = "newBlockTemplate"
    PROVE  msg.pool \in Pools /\ msg.id \in Nat \ {0} /\ msg.height \in Heights
BY DEF DownMessage

LEMMA PoolChangeFields ==
    ASSUME NEW msg \in DownMessage, msg.type = "changePool"
    PROVE  msg.pool \in Pools /\ msg.miner \in Miners
BY DEF DownMessage

LEMMA WorkerTypes ==
    ASSUME TypeInv, HandleMasterMessage \/ FailoverTimer
    PROVE  TypeInv'
<1> USE DEF TypeInv, TypeOK, ReadyHasHeight, masterVars, workerVars
<1>0. ASSUME NEW type, Receive(type)
      PROVE  down' \in Seq(DownMessage) /\ Head(down) \in DownMessage /\ Head(down).type = type
  BY <1>0 DEF Receive
<1>1. CASE ApplyPoolState
  BY <1>0, <1>1 DEF ApplyPoolState
<1>2. CASE ApplyTemplate
  <2> DEFINE p == Head(down).pool
  <2>0. Receive("newBlockTemplate")
    BY <1>2 DEF ApplyTemplate
  <2>1. /\ down' \in Seq(DownMessage)
        /\ p \in Pools
        /\ Head(down).id \in Nat
        /\ Head(down).height \in Heights
    <3>1. /\ down' \in Seq(DownMessage)
          /\ Head(down) \in DownMessage
          /\ Head(down).type = "newBlockTemplate"
      BY <1>0, <2>0
    <3> QED
      BY <3>1, TemplateFields
  <2>2. /\ active' \in [Pools -> BOOLEAN]
        /\ tmpl' \in [Pools -> Nat]
        /\ height' \in [Pools -> Heights \cup {0}]
    BY <1>2, <2>1 DEF ApplyTemplate
  <2>3. Enq(past[p], PastLimit, tmpl[p]) \in Seq(Nat)
    BY <2>1, WindowAssumption, EnqProperties
  <2>4. past' \in [Pools -> Seq(Nat)]
    BY <1>2, <2>3 DEF ApplyTemplate
  <2>5. \A m \in Miners : miners[m].pool = p => WithJob(miners[m], tmpl') \in Session
    BY <2>1, <2>2, WithJobTypes
  <2>6. miners' \in [Miners -> Session]
    BY <1>2, <2>5 DEF ApplyTemplate
  <2> QED
    BY <1>2, <2>1, <2>2, <2>4, <2>6 DEF ApplyTemplate
<1>3. CASE RejectTemplate
  BY <1>0, <1>3 DEF RejectTemplate
<1>4. CASE ApplyPoolChange
  <2> DEFINE m == Head(down).miner
  <2> DEFINE p == Head(down).pool
  <2>0. Receive("changePool")
    BY <1>4 DEF ApplyPoolChange
  <2>1. down' \in Seq(DownMessage) /\ m \in Miners /\ p \in Pools
    <3>1. down' \in Seq(DownMessage) /\ Head(down) \in DownMessage /\ Head(down).type = "changePool"
      BY <1>0, <2>0
    <3> QED
      BY <3>1, PoolChangeFields
  <2>2. [miners[m] EXCEPT !.pool = p] \in Session /\ [miners[m] EXCEPT !.pool = p].pool = p
    BY <2>1 DEF Session
  <2>3. WithNewJob([miners[m] EXCEPT !.pool = p], tmpl) \in Session
    BY <2>1, <2>2, WithNewJobTypes
  <2>4. miners' \in [Miners -> Session]
    BY <1>4, <2>3 DEF ApplyPoolChange
  <2> QED
    BY <1>4, <2>1, <2>4 DEF ApplyPoolChange
<1>5. CASE ApplyEnable
  BY <1>0, <1>5 DEF ApplyEnable
<1>6. CASE ApplyDisable
  BY <1>0, <1>6, CheckActivePoolsTypes DEF ApplyDisable
<1>7. CASE FailoverTimer
  BY <1>7, CheckActivePoolsTypes DEF FailoverTimer
<1> QED
  BY <1>1, <1>2, <1>3, <1>4, <1>5, <1>6, <1>7 DEF HandleMasterMessage

LEMMA MinerTypes ==
    ASSUME TypeInv, MinerNext \/ WorkerRespawn
    PROVE  TypeInv'
<1> USE DEF TypeInv, TypeOK, ReadyHasHeight, masterVars, workerVars
<1>0. NoSession \in Session
  BY DEF NoSession, Session
<1>1. ASSUME NEW m \in Miners, Login(m) PROVE TypeInv'
  <2>1. PICK p \in InitialPools(active, tmpl, height) :
            miners' = [miners EXCEPT ![m] =
                IF m \in GrinMiners THEN [pool |-> p, jobs |-> <<>>]
                ELSE WithJob([pool |-> p, jobs |-> <<>>], tmpl)]
    BY <1>1 DEF Login
  <2>2. p \in Pools
    BY InitialPoolsTypes
  <2>3. [pool |-> p, jobs |-> <<>>] \in Session
    BY <2>2 DEF Session
  <2>4. WithJob([pool |-> p, jobs |-> <<>>], tmpl) \in Session
    BY <2>2, <2>3, WithJobTypes
  <2> QED
    BY <1>1, <2>1, <2>3, <2>4 DEF Login
<1>2. ASSUME NEW m \in Miners, Disconnect(m) PROVE TypeInv'
  BY <1>0, <1>2 DEF Disconnect
<1>3. ASSUME NEW m \in Miners, LoggedIn(m)
      PROVE  WithJob(miners[m], tmpl) \in Session /\ WithNewJob(miners[m], tmpl) \in Session
  <2>1. miners[m] \in Session /\ miners[m].pool \in Pools
    BY <1>3 DEF LoggedIn, Session
  <2> QED
    BY <2>1, WithJobTypes, WithNewJobTypes
<1>4. ASSUME NEW m \in Miners, GetJob(m) \/ Retarget(m) PROVE TypeInv'
  BY <1>3, <1>4 DEF GetJob, Retarget
<1>5. ASSUME NEW m \in Miners, NEW i \in 1..JobWindow, Submit(m, i) PROVE TypeInv'
  <2> DEFINE j == miners[m].jobs[i]
  <2> DEFINE share == [type |-> "shareFind", host |-> miners[m].pool,
                       pool |-> j.pool, id |-> j.id, seen |-> tmpl[j.pool]]
  <2>1. miners[m].pool \in Pools /\ j \in Job
    BY <1>5 DEF Submit, LoggedIn, Session
  <2>2. share \in UpMessage
    BY <2>1 DEF Job, UpMessage
  <2>3. up' = Append(up, share)
    BY <1>5 DEF Submit
  <2> HIDE DEF share
  <2>4. up' \in Seq(UpMessage)
    BY <2>2, <2>3
  <2> QED
    BY <1>5, <2>4 DEF Submit
<1>6. ASSUME NEW m \in Miners, NEW i \in 1..JobWindow, SubmitExpired(m, i) PROVE TypeInv'
  BY <1>3, <1>6 DEF SubmitExpired
<1>7. CASE WorkerRespawn
  <2>1. [type |-> "needPoolState"] \in UpMessage
    BY DEF UpMessage
  <2>2. up' \in Seq(UpMessage)
    BY <1>7, <2>1 DEF WorkerRespawn
  <2> QED
    BY <1>0, <1>7, <2>2 DEF WorkerRespawn
<1> QED
  BY <1>1, <1>2, <1>4, <1>5, <1>6, <1>7 DEF MinerNext

LEMMA InitTypes ==
    ASSUME Init
    PROVE  TypeInv
<1>1. [type |-> "needPoolState"] \in UpMessage /\ NoSession \in Session
  BY DEF UpMessage, NoSession, Session
<1>2. up \in Seq(UpMessage)
  BY <1>1 DEF Init, WorkerInit
<1> QED
  BY <1>1, <1>2 DEF Init, WorkerInit, TypeInv, TypeOK, ReadyHasHeight

LEMMA StepTypes ==
    ASSUME TypeInv, [Next]_vars
    PROVE  TypeInv'
<1>1. CASE UNCHANGED vars
  BY <1>1 DEF vars, masterVars, workerVars, TypeInv, TypeOK, ReadyHasHeight
<1> QED
  BY <1>1, MasterTypes, WorkerTypes, MinerTypes DEF Next

LEMMA TypeInvariant == Spec => []TypeInv
<1>1. Init => TypeInv
  BY InitTypes
<1>2. TypeInv /\ [Next]_vars => TypeInv'
  BY StepTypes
<1> QED
  BY <1>1, <1>2, PTL DEF Spec

\* Every variable of master, channels, worker and miners keeps its type.
THEOREM TypeCorrect == Spec => []TypeOK
<1>1. TypeInv => TypeOK
  BY DEF TypeInv
<1> QED
  BY <1>1, TypeInvariant, PTL

-----------------------------------------------------------------------------
(* The windows of master and worker fit, as long as no worker rejects a     *)
(* template: the worker keeps its last PastLimit templates, and the master  *)
(* finds the job of every share accepted for one of them.                   *)
(*                                                                          *)
(* The inductive invariant counts.  The master's buffer holds the last      *)
(* numbers it issued; the channel holds, in order, exactly the numbers      *)
(* between the worker's template and the last one issued; the worker's past *)
(* is the run of numbers below its template; and a share on its way was for *)
(* a template close to the one the worker then had.                         *)

ForPool(msg, p) == msg.type = "newBlockTemplate" /\ msg.pool = p

\* The numbers of a pool are in order.
Ordered(d, p) ==
    \A i, j \in 1..Len(d) :
        i < j /\ ForPool(d[i], p) /\ ForPool(d[j], p) => d[i].id < d[j].id

\* The channel d between a worker at template t of pool p and a master at n.
Chan(d, t, n, p) ==
    /\ t <= n
    /\ \A i \in 1..Len(d) : ForPool(d[i], p) => t < d[i].id /\ d[i].id <= n
    /\ Ordered(d, p)
    /\ \A k \in (t + 1)..n : \E i \in 1..Len(d) : ForPool(d[i], p) /\ d[i].id = k

\* The buffer holds the last numbers up to top, as many as fit.
LastUpTo(buffer, top, limit) ==
    /\ Len(buffer) = AtMost(top, limit)
    /\ \A i \in 1..Len(buffer) : buffer[i] + i = top + 1

MasterWindowInv == \A p \in Pools : LastUpTo(workerJobs[p], issued[p], MasterWindow)

ChannelInv == \A p \in Pools : Chan(down, tmpl[p], issued[p], p)

PastInv ==
    \A p \in Pools : IF tmpl[p] = 0 THEN Len(past[p]) = 0
                    ELSE LastUpTo(past[p], tmpl[p] - 1, PastLimit)

ShareInv ==
    \A i \in 1..Len(up) : up[i].type = "shareFind" =>
        /\ up[i].id <= up[i].seen
        /\ up[i].seen <= up[i].id + PastLimit
        /\ up[i].seen <= issued[up[i].pool]

WindowInv == TypeInv /\ MasterWindowInv /\ ChannelInv /\ PastInv /\ ShareInv

-----------------------------------------------------------------------------
(* The channel.                                                             *)

LEMMA TemplateIds ==
    ASSUME NEW d \in Seq(DownMessage), NEW p
    PROVE  \A i \in 1..Len(d) : ForPool(d[i], p) => d[i].id \in Nat
BY TemplateFields DEF ForPool

\* The entries of a concatenation, seen from its place in the second part.
LEMMA ConcatFacts ==
    ASSUME NEW d \in Seq(DownMessage), NEW e \in Seq(DownMessage)
    PROVE  /\ Len(d) \in Nat /\ Len(e) \in Nat
           /\ d \o e \in Seq(DownMessage)
           /\ Len(d \o e) = Len(d) + Len(e)
           /\ \A i \in 1..Len(d) : i \in 1..Len(d \o e) /\ (d \o e)[i] = d[i]
           /\ \A i \in 1..Len(d \o e) :
                  i \notin 1..Len(d) => i - Len(d) \in 1..Len(e) /\ (d \o e)[i] = e[i - Len(d)]
           /\ \A k \in 1..Len(e) : Len(d) + k \in 1..Len(d \o e) /\ (d \o e)[Len(d) + k] = e[k]
OBVIOUS

\* Messages of other kinds, or for other pools, do not count.
LEMMA ChanOthers ==
    ASSUME NEW d \in Seq(DownMessage), NEW e \in Seq(DownMessage),
           NEW t \in Nat, NEW n \in Nat, NEW p, Chan(d, t, n, p),
           \A i \in 1..Len(e) : ~ForPool(e[i], p)
    PROVE  Chan(d \o e, t, n, p)
<1> DEFINE c == d \o e
<1>1. /\ c \in Seq(DownMessage)
      /\ Len(c) = Len(d) + Len(e)
      /\ \A i \in 1..Len(d) : c[i] = d[i]
      /\ \A i \in 1..Len(c) : i \notin 1..Len(d) => ~ForPool(c[i], p)
  BY ConcatFacts
<1>2. Len(d) \in Nat /\ Len(e) \in Nat
  BY ConcatFacts
<1> HIDE DEF c
<1>3. \A i \in 1..Len(c) : ForPool(c[i], p) => i \in 1..Len(d) /\ ForPool(d[i], p) /\ c[i] = d[i]
  BY <1>1
<1>4. \A i \in 1..Len(d) : i \in 1..Len(c)
  BY <1>1, <1>2
<1>5. Chan(c, t, n, p)
  <2>1. Ordered(c, p)
    BY <1>3 DEF Chan, Ordered
  <2> QED
    BY <1>1, <1>3, <1>4, <2>1, Zenon DEF Chan
<1> QED
  BY <1>5 DEF c

\* One message carries the next number of the pool.
LEMMA ChanNext ==
    ASSUME NEW d \in Seq(DownMessage), NEW e \in Seq(DownMessage),
           NEW t \in Nat, NEW n \in Nat, NEW p, Chan(d, t, n, p),
           NEW k \in 1..Len(e), ForPool(e[k], p), e[k].id = n + 1,
           \A i \in 1..Len(e) : ForPool(e[i], p) => i = k
    PROVE  Chan(d \o e, t, n + 1, p)
<1> DEFINE c == d \o e
<1> DEFINE last == Len(d) + k
<1>1. /\ Len(d) \in Nat /\ Len(e) \in Nat
      /\ Len(c) = Len(d) + Len(e)
      /\ \A i \in 1..Len(d) : c[i] = d[i] /\ i \in 1..Len(c) /\ i < last
      /\ last \in 1..Len(c) /\ c[last] = e[k]
      /\ \A i \in 1..Len(c) :
             i \notin 1..Len(d) => i - Len(d) \in 1..Len(e) /\ c[i] = e[i - Len(d)]
  BY ConcatFacts
<1> HIDE DEF c
<1>2. \A i \in 1..Len(c) : ForPool(c[i], p) => i = last \/ (i \in 1..Len(d) /\ ForPool(d[i], p))
  <2> SUFFICES ASSUME NEW i \in 1..Len(c), ForPool(c[i], p)
               PROVE  i = last \/ (i \in 1..Len(d) /\ ForPool(d[i], p))
    OBVIOUS
  <2>1. CASE i \in 1..Len(d)
    <3>1. c[i] = d[i]
      BY <1>1, <2>1
    <3>2. ForPool(d[i], p)
      BY <3>1
    <3> QED
      BY <2>1, <3>2
  <2>2. CASE i \notin 1..Len(d)
    <3>1. i - Len(d) \in 1..Len(e) /\ c[i] = e[i - Len(d)]
      BY <1>1, <2>2
    <3>2. i - Len(d) = k
      BY <3>1
    <3> QED
      BY <1>1, <3>2
  <2> QED
    BY <2>1, <2>2
<1>3. \A i \in 1..Len(d) : ForPool(d[i], p) => d[i].id \in Nat /\ t < d[i].id /\ d[i].id <= n
  BY TemplateIds DEF Chan
<1>4. ForPool(c[last], p) /\ c[last].id = n + 1
  BY <1>1
<1> HIDE DEF last
<1>5. \A i \in 1..Len(c) : ForPool(c[i], p) => t < c[i].id /\ c[i].id <= n + 1
  <2> SUFFICES ASSUME NEW i \in 1..Len(c), ForPool(c[i], p)
               PROVE  t < c[i].id /\ c[i].id <= n + 1
    OBVIOUS
  <2>1. CASE i = last
    <3>1. t < n + 1
      BY DEF Chan
    <3> QED
      BY <1>4, <2>1, <3>1
  <2>2. CASE i # last
    <3>1. i \in 1..Len(d) /\ ForPool(d[i], p)
      BY <1>2, <2>2
    <3>2. c[i] = d[i]
      BY <1>1, <3>1
    <3>3. d[i].id \in Nat /\ t < d[i].id /\ d[i].id <= n
      BY <1>3, <3>1
    <3> QED
      BY <3>2, <3>3
  <2> QED
    BY <2>1, <2>2
<1>6. Ordered(c, p)
  <2> SUFFICES ASSUME NEW i \in 1..Len(c), NEW j \in 1..Len(c), i < j,
                      ForPool(c[i], p), ForPool(c[j], p)
               PROVE  c[i].id < c[j].id
    BY DEF Ordered
  <2>1. i # last /\ i \in 1..Len(d) /\ ForPool(d[i], p) /\ c[i] = d[i]
    <3>1. CASE i = last
      <4>1. ~(j \in 1..Len(d)) /\ j # last
        BY <1>1, <3>1
      <4> QED
        BY <1>2, <4>1
    <3> QED
      BY <1>1, <1>2, <3>1
  <2>2. CASE j = last
    BY <1>3, <1>4, <2>1, <2>2
  <2>3. CASE j # last
    <3>1. j \in 1..Len(d) /\ ForPool(d[j], p) /\ c[j] = d[j]
      BY <1>1, <1>2, <2>3
    <3> QED
      BY <2>1, <3>1 DEF Chan, Ordered
  <2> QED
    BY <2>2, <2>3
<1>7. \A m \in (t + 1)..(n + 1) : \E i \in 1..Len(c) : ForPool(c[i], p) /\ c[i].id = m
  <2> SUFFICES ASSUME NEW m \in (t + 1)..(n + 1)
               PROVE  \E i \in 1..Len(c) : ForPool(c[i], p) /\ c[i].id = m
    OBVIOUS
  <2>1. CASE m = n + 1
    BY <1>1, <1>4, <2>1
  <2>2. CASE m # n + 1
    <3>1. m \in (t + 1)..n
      BY <2>2
    <3>2. PICK i \in 1..Len(d) : ForPool(d[i], p) /\ d[i].id = m
      BY <3>1 DEF Chan
    <3> QED
      BY <1>1, <3>2
  <2> QED
    BY <2>1, <2>2
<1>8. t <= n + 1
  BY DEF Chan
<1> QED
  BY <1>5, <1>6, <1>7, <1>8 DEF Chan, c

LEMMA TailFacts ==
    ASSUME NEW d \in Seq(DownMessage), d # <<>>
    PROVE  /\ Len(d) \in Nat \ {0} /\ Head(d) = d[1] /\ Len(Tail(d)) = Len(d) - 1
           /\ \A i \in 1..Len(Tail(d)) : i + 1 \in 2..Len(d) /\ Tail(d)[i] = d[i + 1]
           /\ \A i \in 2..Len(d) : i - 1 \in 1..Len(Tail(d)) /\ Tail(d)[i - 1] = d[i]
OBVIOUS

LEMMA OrderedTail ==
    ASSUME NEW d \in Seq(DownMessage), d # <<>>, NEW p, Ordered(d, p)
    PROVE  Ordered(Tail(d), p)
<1> DEFINE e == Tail(d)
<1>1. /\ Len(d) \in Nat \ {0} /\ Len(e) = Len(d) - 1
      /\ \A i \in 1..Len(e) : i + 1 \in 2..Len(d) /\ e[i] = d[i + 1]
  BY TailFacts
<1> HIDE DEF e
<1>2. ASSUME NEW i \in 1..Len(e), NEW j \in 1..Len(e), i < j, ForPool(e[i], p), ForPool(e[j], p)
      PROVE  e[i].id < e[j].id
  <2>1. i + 1 \in 1..Len(d) /\ j + 1 \in 1..Len(d) /\ i + 1 < j + 1
    BY <1>1, <1>2
  <2>2. e[i] = d[i + 1] /\ e[j] = d[j + 1]
    BY <1>1
  <2>3. ForPool(d[i + 1], p) /\ ForPool(d[j + 1], p)
    BY <1>2, <2>2
  <2>4. d[i + 1].id < d[j + 1].id
    BY <2>1, <2>3 DEF Ordered
  <2> QED
    BY <2>2, <2>4
<1> QED
  BY <1>2 DEF Ordered, e

LEMMA ChanDropOther ==
    ASSUME NEW d \in Seq(DownMessage), d # <<>>, NEW t \in Nat, NEW n \in Nat, NEW p,
           Chan(d, t, n, p), ~ForPool(Head(d), p)
    PROVE  Chan(Tail(d), t, n, p)
<1> DEFINE e == Tail(d)
<1>1. /\ Len(d) \in Nat \ {0} /\ Head(d) = d[1] /\ Len(e) = Len(d) - 1
      /\ \A i \in 1..Len(e) : i + 1 \in 2..Len(d) /\ e[i] = d[i + 1]
      /\ \A i \in 2..Len(d) : i - 1 \in 1..Len(e) /\ e[i - 1] = d[i]
  BY TailFacts
<1> HIDE DEF e
<1>2. ASSUME NEW i \in 1..Len(e), ForPool(e[i], p) PROVE t < e[i].id /\ e[i].id <= n
  <2>1. i + 1 \in 1..Len(d) /\ ForPool(d[i + 1], p)
    BY <1>1, <1>2
  <2>2. t < d[i + 1].id /\ d[i + 1].id <= n
    BY <2>1 DEF Chan
  <2> QED
    BY <1>1, <2>2
<1>3. Ordered(e, p)
  BY OrderedTail DEF Chan, e
<1>4. \A k \in (t + 1)..n : \E i \in 1..Len(e) : ForPool(e[i], p) /\ e[i].id = k
  <2> SUFFICES ASSUME NEW k \in (t + 1)..n
               PROVE  \E i \in 1..Len(e) : ForPool(e[i], p) /\ e[i].id = k
    OBVIOUS
  <2>1. PICK i \in 1..Len(d) : ForPool(d[i], p) /\ d[i].id = k
    BY DEF Chan
  <2>2. i \in 2..Len(d)
    BY <1>1, <2>1
  <2> QED
    BY <1>1, <2>1, <2>2
<1> QED
  BY <1>2, <1>3, <1>4 DEF Chan, e

\* The first message of a pool has the number after the worker's template.
LEMMA ChanDropNext ==
    ASSUME NEW d \in Seq(DownMessage), d # <<>>, NEW t \in Nat, NEW n \in Nat, NEW p,
           Chan(d, t, n, p), ForPool(Head(d), p)
    PROVE  /\ Head(d).id = t + 1
           /\ Chan(Tail(d), t + 1, n, p)
<1> DEFINE e == Tail(d)
<1>1. /\ Len(d) \in Nat \ {0} /\ Head(d) = d[1] /\ Len(e) = Len(d) - 1
      /\ \A i \in 1..Len(e) : i + 1 \in 2..Len(d) /\ e[i] = d[i + 1]
      /\ \A i \in 2..Len(d) : i - 1 \in 1..Len(e) /\ e[i - 1] = d[i]
  BY TailFacts
<1>2. \A i \in 1..Len(d) : ForPool(d[i], p) => d[i].id \in Nat /\ t < d[i].id /\ d[i].id <= n
  BY TemplateIds DEF Chan
<1> HIDE DEF e
<1>3. d[1].id \in Nat /\ t < d[1].id /\ d[1].id <= n
  BY <1>1, <1>2
<1>4. d[1].id = t + 1
  <2>1. PICK i \in 1..Len(d) : ForPool(d[i], p) /\ d[i].id = t + 1
    <3>1. t + 1 \in (t + 1)..n
      BY <1>3
    <3>2. \A m \in (t + 1)..n : \E i \in 1..Len(d) : ForPool(d[i], p) /\ d[i].id = m
      BY DEF Chan
    <3> QED
      BY <3>1, <3>2
  <2>2. CASE i = 1
    BY <2>1, <2>2
  <2>3. CASE i # 1
    <3>1. d[1].id < d[i].id
      BY <1>1, <2>1, <2>3 DEF Chan, Ordered
    <3> QED
      BY <1>3, <2>1, <3>1
  <2> QED
    BY <2>2, <2>3
<1>5. ASSUME NEW i \in 2..Len(d), ForPool(d[i], p) PROVE t + 1 < d[i].id
  <2>1. d[1].id < d[i].id
    BY <1>1, <1>5 DEF Chan, Ordered
  <2> QED
    BY <1>4, <2>1
<1>6. ASSUME NEW i \in 1..Len(e), ForPool(e[i], p) PROVE t + 1 < e[i].id /\ e[i].id <= n
  <2>1. i + 1 \in 2..Len(d) /\ i + 1 \in 1..Len(d) /\ ForPool(d[i + 1], p)
    BY <1>1, <1>6
  <2>2. t + 1 < d[i + 1].id /\ d[i + 1].id <= n
    BY <1>2, <1>5, <2>1
  <2> QED
    BY <1>1, <2>2
<1>7. Ordered(e, p)
  BY OrderedTail DEF Chan, e
<1>8. \A k \in (t + 2)..n : \E i \in 1..Len(e) : ForPool(e[i], p) /\ e[i].id = k
  <2> SUFFICES ASSUME NEW k \in (t + 2)..n
               PROVE  \E i \in 1..Len(e) : ForPool(e[i], p) /\ e[i].id = k
    OBVIOUS
  <2>1. PICK i \in 1..Len(d) : ForPool(d[i], p) /\ d[i].id = k
    BY DEF Chan
  <2>2. i \in 2..Len(d)
    BY <1>1, <1>4, <2>1
  <2> QED
    BY <1>1, <2>1, <2>2
<1>9. t + 1 <= n /\ (t + 1) + 1 = t + 2
  BY <1>3, <1>4
<1> QED
  BY <1>1, <1>4, <1>6, <1>7, <1>8, <1>9 DEF Chan, e

\* A worker takes a template: for its pool the next one, for others no change.
LEMMA ChanReceived ==
    ASSUME TypeOK, ChannelInv, Receive("newBlockTemplate"),
           NEW q, q = Head(down).pool, NEW p \in Pools
    PROVE  IF p = q THEN Head(down).id = tmpl[p] + 1 /\ Chan(down', tmpl[p] + 1, issued[p], p)
                    ELSE Chan(down', tmpl[p], issued[p], p)
<1>1. /\ down \in Seq(DownMessage) /\ down # <<>> /\ down' = Tail(down)
      /\ tmpl[p] \in Nat /\ issued[p] \in Nat /\ Chan(down, tmpl[p], issued[p], p)
      /\ Head(down).type = "newBlockTemplate"
  BY DEF TypeOK, Receive, ChannelInv
<1>2. ForPool(Head(down), p) <=> p = q
  BY <1>1 DEF ForPool
<1> QED
  BY <1>1, <1>2, ChanDropOther, ChanDropNext

\* Any other message of the master leaves every pool's numbers as they are.
LEMMA ChanOtherReceived ==
    ASSUME TypeOK, ChannelInv, NEW type, type # "newBlockTemplate", Receive(type), NEW p \in Pools
    PROVE  Chan(down', tmpl[p], issued[p], p)
<1>1. /\ down \in Seq(DownMessage) /\ down # <<>> /\ down' = Tail(down)
      /\ tmpl[p] \in Nat /\ issued[p] \in Nat /\ Chan(down, tmpl[p], issued[p], p)
      /\ ~ForPool(Head(down), p)
  BY DEF TypeOK, Receive, ChannelInv, ForPool
<1> QED
  BY <1>1, ChanDropOther

-----------------------------------------------------------------------------
(* The actions.                                                             *)

\* Entering the next number keeps a buffer one of last numbers.
LEMMA LastUpToNext ==
    ASSUME NEW buffer \in Seq(Nat), NEW top \in Nat, NEW limit \in Nat \ {0},
           LastUpTo(buffer, top, limit), NEW next, next = top + 1
    PROVE  LastUpTo(Enq(buffer, limit, next), next, limit)
<1> DEFINE new == Enq(buffer, limit, next)
<1>1. next \in Nat
  OBVIOUS
<1>2. Len(new) = AtMost(Len(buffer) + 1, limit)
  BY <1>1, EnqProperties
<1>6. new[1] = next
  <2>1. 1 \in 1..AtMost(Len(buffer) + 1, limit)
    BY DEF AtMost
  <2> QED
    BY <2>1 DEF Enq
<1>3. ASSUME NEW i \in 2..AtMost(Len(buffer) + 1, limit) PROVE new[i] = buffer[i - 1]
  <2>1. i \in 1..AtMost(Len(buffer) + 1, limit) /\ i # 1
    BY DEF AtMost
  <2> QED
    BY <2>1 DEF Enq
<1> HIDE DEF new
<1>4. Len(new) = AtMost(next, limit)
  BY <1>2 DEF AtMost, LastUpTo
<1>5. ASSUME NEW i \in 1..Len(new) PROVE new[i] + i = next + 1
  <2>1. CASE i = 1
    BY <1>1, <1>6, <2>1
  <2>2. CASE i # 1
    <3>1. new[i] = buffer[i - 1] /\ i - 1 \in 1..Len(buffer) /\ i \in Nat
      BY <1>2, <1>3, <1>5, <2>2 DEF AtMost
    <3> DEFINE x == buffer[i - 1]
    <3>2. x \in Nat /\ x + (i - 1) = top + 1 /\ new[i] = x
      BY <3>1 DEF LastUpTo
    <3> HIDE DEF x
    <3> QED
      BY <3>1, <3>2
  <2> QED
    BY <2>1, <2>2
<1> QED
  BY <1>4, <1>5 DEF LastUpTo, new

\* getMasterJob: the buffer still holds the last numbers issued.
LEMMA IssueWindow ==
    ASSUME TypeOK, MasterWindowInv, NEW S \in SUBSET Pools, Issue(S)
    PROVE  MasterWindowInv'
<1> SUFFICES ASSUME NEW p \in Pools
             PROVE  LastUpTo(workerJobs'[p], issued'[p], MasterWindow)
  BY DEF MasterWindowInv
<1>1. issued[p] \in Nat /\ workerJobs[p] \in Seq(Nat) /\ MasterWindow \in Nat \ {0}
  BY WindowAssumption DEF TypeOK
<1>2. LastUpTo(workerJobs[p], issued[p], MasterWindow)
  BY DEF MasterWindowInv
<1>3. LastUpTo(Enq(workerJobs[p], MasterWindow, issued[p] + 1), issued[p] + 1, MasterWindow)
  BY <1>1, <1>2, LastUpToNext
<1> QED
  BY <1>2, <1>3 DEF Issue

\* Shares on their way stay in the window when more templates are issued.
LEMMA ShareStays ==
    ASSUME TypeOK, ShareInv, up' = up \/ up' = Tail(up),
           \A p \in Pools : issued'[p] \in Nat /\ issued[p] <= issued'[p]
    PROVE  ShareInv'
<1>1. \A p \in Pools : issued[p] \in Nat /\ issued[p] <= issued'[p] /\ issued'[p] \in Nat
  BY DEF TypeOK
<1>2. \A i \in 1..Len(up) : up[i].type = "shareFind" =>
          up[i].pool \in Pools /\ up[i].seen \in Nat /\ up[i].seen <= issued'[up[i].pool]
  BY <1>1 DEF TypeOK, ShareInv, UpMessage
<1>3. \A i \in 1..Len(up') : \E j \in 1..Len(up) : up'[i] = up[j]
  <2>1. CASE up' = up
    BY <2>1
  <2>2. CASE up' = Tail(up) /\ up = <<>>
    BY <2>2
  <2>3. CASE up' = Tail(up) /\ up # <<>>
    BY <2>3 DEF TypeOK
  <2> QED
    BY <2>1, <2>2, <2>3
<1> QED
  BY <1>2, <1>3 DEF ShareInv

LEMMA MasterWindowStep ==
    ASSUME WindowInv, MasterNext
    PROVE  MasterWindowInv' /\ ChannelInv' /\ PastInv' /\ ShareInv'
<1> USE DEF WindowInv, TypeInv
<1>0. /\ down \in Seq(DownMessage) /\ up \in Seq(UpMessage)
      /\ \A p \in Pools : tmpl[p] \in Nat /\ issued[p] \in Nat
  BY DEF TypeOK
<1>1. \A p \in Pools : Chan(down, tmpl[p], issued[p], p)
  BY DEF ChannelInv
<1>2. ASSUME UNCHANGED <<issued, workerJobs, up, tmpl, past>>,
             NEW msg \in DownMessage, msg.type # "newBlockTemplate", down' = Append(down, msg)
      PROVE  MasterWindowInv' /\ ChannelInv' /\ PastInv' /\ ShareInv'
  <2>1. down' = down \o <<msg>> /\ <<msg>> \in Seq(DownMessage)
    BY <1>0, <1>2
  <2>2. \A p \in Pools : \A i \in 1..Len(<<msg>>) : ~ForPool(<<msg>>[i], p)
    BY <1>2 DEF ForPool
  <2>3. \A p \in Pools : Chan(down', tmpl[p], issued[p], p)
    BY <1>0, <1>1, <2>1, <2>2, ChanOthers
  <2> QED
    BY <1>2, <2>3 DEF MasterWindowInv, ChannelInv, PastInv, ShareInv
<1>3. ASSUME NEW p \in Pools, PoolDown(p)
      PROVE  MasterWindowInv' /\ ChannelInv' /\ PastInv' /\ ShareInv'
  <2> DEFINE msg == [type |-> "disablePool", pool |-> p]
  <2>1. msg \in DownMessage /\ msg.type # "newBlockTemplate"
    BY DEF DownMessage
  <2>2. UNCHANGED <<issued, workerJobs, up, tmpl, past>> /\ down' = Append(down, msg)
    BY <1>3 DEF PoolDown, workerVars
  <2> HIDE DEF msg
  <2> QED
    BY <1>2, <2>1, <2>2
<1>4. ASSUME NEW m \in Miners, NEW p \in Pools, Rebalance(m, p)
      PROVE  MasterWindowInv' /\ ChannelInv' /\ PastInv' /\ ShareInv'
  <2> DEFINE msg == [type |-> "changePool", pool |-> p, miner |-> m]
  <2>1. msg \in DownMessage /\ msg.type # "newBlockTemplate"
    BY DEF DownMessage
  <2>2. UNCHANGED <<issued, workerJobs, up, tmpl, past>> /\ down' = Append(down, msg)
    BY <1>4 DEF Rebalance, workerVars, masterVars
  <2> HIDE DEF msg
  <2> QED
    BY <1>2, <2>1, <2>2
<1>5. ASSUME NEW S \in SUBSET Pools, Issue(S), UNCHANGED <<tmpl, past>>, up' = up \/ up' = Tail(up),
             NEW e \in Seq(DownMessage), down' = down \o e,
             \A p \in Pools \ S : \A i \in 1..Len(e) : ~ForPool(e[i], p),
             \A p \in S : \E k \in 1..Len(e) :
                 /\ ForPool(e[k], p) /\ e[k].id = issued[p] + 1
                 /\ \A i \in 1..Len(e) : ForPool(e[i], p) => i = k
      PROVE  MasterWindowInv' /\ ChannelInv' /\ PastInv' /\ ShareInv'
  <2>1. MasterWindowInv'
    BY <1>5, IssueWindow
  <2>2. \A p \in Pools : issued'[p] = IF p \in S THEN issued[p] + 1 ELSE issued[p]
    BY <1>5 DEF Issue
  <2>3. ShareInv'
    BY <1>0, <1>5, <2>2, ShareStays
  <2>4. ASSUME NEW p \in Pools PROVE Chan(down', tmpl'[p], issued'[p], p)
    <3>1. CASE p \in S
      <4>1. PICK k \in 1..Len(e) :
                /\ ForPool(e[k], p) /\ e[k].id = issued[p] + 1
                /\ \A i \in 1..Len(e) : ForPool(e[i], p) => i = k
        BY <1>5, <3>1
      <4>2. Chan(down \o e, tmpl[p], issued[p] + 1, p)
        BY <1>0, <1>1, <1>5, <4>1, ChanNext
      <4> QED
        BY <1>5, <2>2, <3>1, <4>2
    <3>2. CASE p \notin S
      <4>1. Chan(down \o e, tmpl[p], issued[p], p)
        BY <1>0, <1>1, <1>5, <3>2, ChanOthers
      <4> QED
        BY <1>5, <2>2, <3>2, <4>1
    <3> QED
      BY <3>1, <3>2
  <2>5. PastInv'
    BY <1>5 DEF PastInv
  <2> QED
    BY <2>1, <2>3, <2>4, <2>5 DEF ChannelInv
<1>6. ASSUME NEW p \in Pools, NEW h \in Heights, PoolTemplate(p, h)
      PROVE  MasterWindowInv' /\ ChannelInv' /\ PastInv' /\ ShareInv'
  <2> DEFINE enable == [type |-> "enablePool", pool |-> p]
  <2> DEFINE template == TemplateMsg(p, issued[p] + 1, h)
  <2>0. /\ enable \in DownMessage /\ enable.type # "newBlockTemplate"
        /\ template \in DownMessage /\ template.type = "newBlockTemplate"
        /\ template.pool = p /\ template.id = issued[p] + 1
    BY <1>0 DEF DownMessage, TemplateMsg
  <2>1. CASE Issue({p}) /\ down' = down \o <<enable, template>>
    <3> HIDE DEF enable, template
    <3> DEFINE e == <<enable, template>>
    <3>1. e \in Seq(DownMessage) /\ Len(e) = 2 /\ e[1] = enable /\ e[2] = template
      BY <2>0
    <3> HIDE DEF e
    <3>2. \A q \in Pools \ {p} : \A i \in 1..Len(e) : ~ForPool(e[i], q)
      BY <2>0, <3>1 DEF ForPool
    <3>3. /\ 2 \in 1..Len(e) /\ ForPool(e[2], p) /\ e[2].id = issued[p] + 1
          /\ \A i \in 1..Len(e) : ForPool(e[i], p) => i = 2
      BY <2>0, <3>1 DEF ForPool
    <3>6. \A q \in {p} : \E k \in 1..Len(e) :
              /\ ForPool(e[k], q) /\ e[k].id = issued[q] + 1
              /\ \A i \in 1..Len(e) : ForPool(e[i], q) => i = k
      BY <3>3
    <3>4. UNCHANGED <<tmpl, past, up>>
      BY <1>6 DEF PoolTemplate, workerVars
    <3>5. down' = down \o e /\ {p} \in SUBSET Pools
      BY <2>1 DEF e
    <3> QED
      BY <1>5, <2>1, <3>1, <3>2, <3>4, <3>5, <3>6
  <2>2. CASE UNCHANGED <<issued, workerJobs>> /\ down' = Append(down, enable)
    <3>1. UNCHANGED <<issued, workerJobs, up, tmpl, past>>
      BY <1>6, <2>2 DEF PoolTemplate, workerVars
    <3> HIDE DEF enable
    <3> QED
      BY <1>2, <2>0, <2>2, <3>1
  <2> QED
    BY <1>6, <2>1, <2>2 DEF PoolTemplate
<1>7. CASE HandleNeedPoolState
  <2> DEFINE usable == {p \in Pools : IsPoolUsable(ready, mHeight, p)}
  <2>1. usable \in SUBSET Pools /\ \A p \in usable : ready[p]
    BY DEF IsPoolUsable
  <2>2. Issue(usable) /\ up' = Tail(up) /\ UNCHANGED <<tmpl, past>>
    BY <1>7 DEF HandleNeedPoolState, workerVars
  <2>3. PICK order \in Orders(usable) :
            down' = Append(down, [type |-> "poolState"]) \o StateTemplates(usable, order)
    BY <1>7 DEF HandleNeedPoolState, StateTemplates
  <2> HIDE DEF usable
  <2> DEFINE state == [type |-> "poolState"]
  <2> DEFINE n == Cardinality(usable)
  <2> DEFINE templates == StateTemplates(usable, order)
  <2> DEFINE e == <<state>> \o templates
  <2>4. templates \in Seq(DownMessage) /\ Len(templates) = n /\ n \in Nat
    BY <2>1, StateTemplatesTypes, OrderTypes
  <2>5. state \in DownMessage /\ state.type # "newBlockTemplate"
    BY DEF DownMessage
  <2>6. /\ \A i \in 1..n : order[i] \in usable
        /\ \A i, j \in 1..n : order[i] = order[j] => i = j
        /\ \A p \in usable : \E i \in 1..n : order[i] = p
    BY <2>4 DEF Orders, Bijection, Injection, Surjection, IsInjective
  <2>7. \A i \in 1..n : /\ templates[i].type = "newBlockTemplate"
                        /\ templates[i].pool = order[i]
                        /\ templates[i].id = issued[order[i]] + 1
    BY DEF StateTemplates, TemplateMsg
  <2> HIDE DEF state, templates, n
  <2>8. /\ e \in Seq(DownMessage) /\ Len(e) = n + 1 /\ e[1] = state
        /\ \A i \in 2..(n + 1) : e[i] = templates[i - 1] /\ i - 1 \in 1..n
        /\ \A i \in 1..n : e[i + 1] = templates[i] /\ i + 1 \in 1..Len(e)
    BY <2>4, <2>5
  <2>9. down' = down \o e
    BY <1>0, <2>3, <2>4, <2>5 DEF state, templates
  <2> HIDE DEF e
  <2>10. \A i \in 1..Len(e) : \A p : ForPool(e[i], p) => i - 1 \in 1..n /\ p = order[i - 1]
    BY <2>4, <2>5, <2>7, <2>8 DEF ForPool
  <2>11. \A p \in Pools \ usable : \A i \in 1..Len(e) : ~ForPool(e[i], p)
    <3> SUFFICES ASSUME NEW p \in Pools \ usable, NEW i \in 1..Len(e), ForPool(e[i], p)
                 PROVE  FALSE
      OBVIOUS
    <3>1. i - 1 \in 1..n /\ p = order[i - 1]
      BY <2>10
    <3> QED
      BY <2>6, <3>1
  <2>12. ASSUME NEW p \in usable
         PROVE  \E k \in 1..Len(e) :
                    /\ ForPool(e[k], p) /\ e[k].id = issued[p] + 1
                    /\ \A i \in 1..Len(e) : ForPool(e[i], p) => i = k
    <3>1. PICK i \in 1..n : order[i] = p
      BY <2>6
    <3>2. i + 1 \in 1..Len(e) /\ ForPool(e[i + 1], p) /\ e[i + 1].id = issued[p] + 1
      BY <2>7, <2>8, <3>1 DEF ForPool
    <3>3. \A j \in 1..Len(e) : ForPool(e[j], p) => j = i + 1
      <4> SUFFICES ASSUME NEW j \in 1..Len(e), ForPool(e[j], p)
                   PROVE  j = i + 1
        OBVIOUS
      <4>1. j - 1 \in 1..n /\ order[j - 1] = order[i]
        BY <2>10, <3>1
      <4>2. j - 1 = i
        BY <2>6, <4>1
      <4> QED
        BY <2>4, <4>2
    <3> QED
      BY <3>2, <3>3
  <2>13. \A p \in usable : \E k \in 1..Len(e) :
             /\ ForPool(e[k], p) /\ e[k].id = issued[p] + 1
             /\ \A i \in 1..Len(e) : ForPool(e[i], p) => i = k
    BY <2>12
  <2>14. usable \in SUBSET Pools /\ e \in Seq(DownMessage)
    BY <2>1, <2>8
  <2>15. Issue(usable) /\ UNCHANGED <<tmpl, past>> /\ (up' = up \/ up' = Tail(up))
    BY <2>2
  <2> QED
    BY <1>5, <2>9, <2>11, <2>13, <2>14, <2>15, Zenon
<1>8. CASE HandleShare
  <2>1. /\ UNCHANGED <<issued, workerJobs, down, tmpl, past>>
        /\ up' = Tail(up)
    BY <1>8 DEF HandleShare, masterVars, workerVars
  <2>2. ShareInv'
    BY <1>0, <2>1, ShareStays
  <2> QED
    BY <2>1, <2>2 DEF MasterWindowInv, ChannelInv, PastInv
<1> QED
  BY <1>3, <1>4, <1>6, <1>7, <1>8 DEF MasterNext

LEMMA WorkerWindowStep ==
    ASSUME WindowInv, ~MayReject, HandleMasterMessage \/ FailoverTimer
    PROVE  MasterWindowInv' /\ ChannelInv' /\ PastInv' /\ ShareInv'
<1> USE DEF WindowInv, TypeInv
<1>1. ASSUME NEW type, type # "newBlockTemplate", Receive(type),
             UNCHANGED <<masterVars, up, tmpl, past>>
      PROVE  MasterWindowInv' /\ ChannelInv' /\ PastInv' /\ ShareInv'
  <2>1. \A p \in Pools : Chan(down', tmpl[p], issued[p], p)
    BY <1>1, ChanOtherReceived
  <2> QED
    BY <1>1, <2>1 DEF masterVars, MasterWindowInv, ChannelInv, PastInv, ShareInv
<1>2. CASE ApplyTemplate
  <2> DEFINE q == Head(down).pool
  <2>1. /\ Receive("newBlockTemplate") /\ UNCHANGED <<issued, workerJobs, up>>
        /\ tmpl' = [tmpl EXCEPT ![q] = Head(down).id]
        /\ past' = IF tmpl[q] = 0 THEN past ELSE [past EXCEPT ![q] = Enq(@, PastLimit, tmpl[q])]
    BY <1>2 DEF ApplyTemplate, masterVars
  <2>2. tmpl \in [Pools -> Nat] /\ past \in [Pools -> Seq(Nat)]
    BY DEF TypeOK
  <2> HIDE DEF q
  <2>3. \A p \in Pools : IF p = q THEN Head(down).id = tmpl[p] + 1 /\ Chan(down', tmpl[p] + 1, issued[p], p)
                          ELSE Chan(down', tmpl[p], issued[p], p)
    BY <2>1, ChanReceived DEF q
  <2>4. \A p \in Pools : tmpl'[p] = IF p = q THEN tmpl[p] + 1 ELSE tmpl[p]
    BY <2>1, <2>2, <2>3
  <2>5. ChannelInv'
    BY <2>1, <2>3, <2>4 DEF ChannelInv
  <2>6. ASSUME NEW p \in Pools
        PROVE  IF tmpl'[p] = 0 THEN Len(past'[p]) = 0 ELSE LastUpTo(past'[p], tmpl'[p] - 1, PastLimit)
    <3>1. tmpl[p] \in Nat /\ past[p] \in Seq(Nat) /\ PastLimit \in Nat \ {0}
      BY <2>2, WindowAssumption
    <3>2. IF tmpl[p] = 0 THEN Len(past[p]) = 0 ELSE LastUpTo(past[p], tmpl[p] - 1, PastLimit)
      BY DEF PastInv
    <3>3. CASE p # q
      BY <2>1, <2>4, <3>2, <3>3
    <3>4. CASE p = q /\ tmpl[p] = 0
      <4>1. past'[p] = past[p] /\ Len(past[p]) = 0 /\ tmpl'[p] = 1
        BY <2>1, <2>4, <3>2, <3>4
      <4> QED
        BY <3>1, <4>1 DEF LastUpTo, AtMost
    <3>5. CASE p = q /\ tmpl[p] # 0
      <4>1. past'[p] = Enq(past[p], PastLimit, tmpl[p]) /\ tmpl'[p] = tmpl[p] + 1
        BY <2>1, <2>2, <2>4, <3>5
      <4>2. LastUpTo(past[p], tmpl[p] - 1, PastLimit) /\ tmpl[p] - 1 \in Nat
        BY <3>1, <3>2, <3>5
      <4>3. LastUpTo(Enq(past[p], PastLimit, tmpl[p]), tmpl[p], PastLimit)
        BY <3>1, <4>2, LastUpToNext
      <4> QED
        BY <3>1, <4>1, <4>3
    <3> QED
      BY <3>3, <3>4, <3>5
  <2> QED
    BY <2>1, <2>5, <2>6 DEF MasterWindowInv, PastInv, ShareInv
<1>3. CASE ApplyPoolState
  BY <1>1, <1>3 DEF ApplyPoolState
<1>4. CASE RejectTemplate
  BY <1>4 DEF RejectTemplate
<1>5. CASE ApplyPoolChange
  BY <1>1, <1>5 DEF ApplyPoolChange, workerVars
<1>6. CASE ApplyEnable
  BY <1>1, <1>6 DEF ApplyEnable
<1>7. CASE ApplyDisable
  BY <1>1, <1>7 DEF ApplyDisable
<1>8. CASE FailoverTimer
  BY <1>8 DEF FailoverTimer, masterVars, workerVars, MasterWindowInv, ChannelInv, PastInv, ShareInv
<1> QED
  BY <1>2, <1>3, <1>4, <1>5, <1>6, <1>7, <1>8 DEF HandleMasterMessage

\* A template the worker keeps is one of its last.
LEMMA KeptIsRecent ==
    ASSUME WindowInv, NEW j \in Job, HasBlockTemplate(j)
    PROVE  j.id <= tmpl[j.pool] /\ tmpl[j.pool] <= j.id + PastLimit
<1> DEFINE p == j.pool
<1> DEFINE id == j.id
<1>1. /\ p \in Pools /\ id \in Nat \ {0} /\ tmpl[p] \in Nat /\ past[p] \in Seq(Nat)
      /\ PastLimit \in Nat
  BY WindowAssumption DEF Job, WindowInv, TypeInv, TypeOK
<1>2. IF tmpl[p] = 0 THEN Len(past[p]) = 0 ELSE LastUpTo(past[p], tmpl[p] - 1, PastLimit)
  BY <1>1 DEF WindowInv, PastInv
<1>3. tmpl[p] = id \/ \E i \in 1..Len(past[p]) : past[p][i] = id
  BY DEF HasBlockTemplate, Holds
<1> HIDE DEF p, id
<1>4. CASE tmpl[p] = id
  BY <1>1, <1>4 DEF p, id
<1>5. ASSUME NEW i \in 1..Len(past[p]), past[p][i] = id
      PROVE  id <= tmpl[p] /\ tmpl[p] <= id + PastLimit
  <2>1. tmpl[p] # 0 /\ i <= PastLimit /\ id + i = tmpl[p]
    BY <1>1, <1>2, <1>5 DEF LastUpTo, AtMost
  <2> QED
    BY <1>1, <2>1
<1> QED
  BY <1>3, <1>4, <1>5 DEF p, id

LEMMA MinerWindowStep ==
    ASSUME WindowInv, MinerNext \/ WorkerRespawn
    PROVE  MasterWindowInv' /\ ChannelInv' /\ PastInv' /\ ShareInv'
<1>1. ASSUME UNCHANGED <<masterVars, down, up, workerVars>>
      PROVE  MasterWindowInv' /\ ChannelInv' /\ PastInv' /\ ShareInv'
  BY <1>1 DEF masterVars, workerVars, WindowInv, MasterWindowInv, ChannelInv, PastInv, ShareInv
<1>2. ASSUME NEW m \in Miners,
             \/ Login(m) \/ Disconnect(m) \/ GetJob(m) \/ Retarget(m)
             \/ \E i \in 1..JobWindow : SubmitExpired(m, i)
      PROVE  UNCHANGED <<masterVars, down, up, workerVars>>
  BY <1>2 DEF Login, Disconnect, GetJob, Retarget, SubmitExpired
<1>3. ASSUME NEW m \in Miners, NEW i \in 1..JobWindow, Submit(m, i)
      PROVE  MasterWindowInv' /\ ChannelInv' /\ PastInv' /\ ShareInv'
  <2> DEFINE j == miners[m].jobs[i]
  <2> DEFINE share == [type |-> "shareFind", host |-> miners[m].pool,
                       pool |-> j.pool, id |-> j.id, seen |-> tmpl[j.pool]]
  <2>1. miners[m].pool \in Pools /\ j \in Job
    BY <1>3 DEF Submit, LoggedIn, Session, WindowInv, TypeInv, TypeOK
  <2>2. /\ HasBlockTemplate(j) /\ up' = Append(up, share)
        /\ UNCHANGED <<issued, workerJobs, down, tmpl, past>>
    BY <1>3 DEF Submit, masterVars, workerVars
  <2>3. j.pool \in Pools /\ up \in Seq(UpMessage)
    BY <2>1 DEF Job, WindowInv, TypeInv, TypeOK
  <2> HIDE DEF j
  <2>4. share.id <= share.seen /\ share.seen <= share.id + PastLimit
    BY <2>1, <2>2, KeptIsRecent
  <2>5. share.seen <= issued[share.pool]
    BY <2>3 DEF WindowInv, ChannelInv, Chan
  <2> HIDE DEF share
  <2>6. \A k \in 1..Len(up') : (k \in 1..Len(up) /\ up'[k] = up[k]) \/ up'[k] = share
    BY <2>2, <2>3
  <2>7. ShareInv'
    BY <2>2, <2>4, <2>5, <2>6 DEF WindowInv, ShareInv
  <2> QED
    BY <2>2, <2>7 DEF WindowInv, MasterWindowInv, ChannelInv, PastInv
<1>4. CASE WorkerRespawn
  BY <1>4, WindowAssumption
     DEF WorkerRespawn, MasterWindowInv, ChannelInv, PastInv, ShareInv, LastUpTo, Chan, Ordered, AtMost
<1> QED
  BY <1>1, <1>2, <1>3, <1>4 DEF MinerNext

LEMMA WindowInvariant ==
    ASSUME ~MayReject
    PROVE  Spec => []WindowInv
<1>1. Init => WindowInv
  <2>1. Init => TypeInv
    BY InitTypes
  <2> QED
    BY <2>1, WindowAssumption
       DEF Init, WorkerInit, WindowInv, MasterWindowInv, ChannelInv, PastInv, ShareInv,
           LastUpTo, Chan, Ordered, AtMost
<1>2. WindowInv /\ [Next]_vars => WindowInv'
  <2> SUFFICES ASSUME WindowInv, [Next]_vars PROVE WindowInv'
    OBVIOUS
  <2>1. TypeInv'
    BY StepTypes DEF WindowInv
  <2>2. CASE UNCHANGED vars
    BY <2>1, <2>2 DEF vars, masterVars, workerVars,
       WindowInv, MasterWindowInv, ChannelInv, PastInv, ShareInv
  <2> QED
    BY <2>1, <2>2, MasterWindowStep, WorkerWindowStep, MinerWindowStep DEF Next, WindowInv
<1> QED
  BY <1>1, <1>2, PTL DEF Spec

\* While no worker rejects a template, sendShare finds the job of every share that
\* reaches its own pool within the window: no share accepted for one of the last
\* PastLimit + 1 templates is dropped.
THEOREM ShareFoundHolds ==
    ASSUME ~MayReject
    PROVE  Spec => []ShareFound
<1>1. WindowInv => ShareFound
  <2> SUFFICES ASSUME WindowInv, NEW s \in Shares, InWindow(s)
               PROVE  Holds(workerJobs[s.pool], s.id)
    BY DEF ShareFound
  <2>1. PICK k \in 1..Len(up) : s = up[k] /\ up[k].type = "shareFind"
    BY DEF Shares
  <2>2. s \in UpMessage /\ s.type = "shareFind"
    BY <2>1 DEF WindowInv, TypeInv, TypeOK
  <2>3. s.pool \in Pools /\ s.id \in Nat \ {0} /\ s.seen \in Nat
    BY <2>2 DEF UpMessage
  <2>4. s.id <= s.seen /\ s.seen <= s.id + PastLimit /\ s.seen <= issued[s.pool]
    BY <2>1 DEF WindowInv, ShareInv
  <2> DEFINE jobs == workerJobs[s.pool]
  <2> DEFINE n == issued[s.pool]
  <2>5. /\ jobs \in Seq(Nat) /\ n \in Nat /\ LastUpTo(jobs, n, MasterWindow)
        /\ n + PastLimit < s.seen + MasterWindow
        /\ MasterWindow \in Nat /\ PastLimit \in Nat
    BY <2>3, WindowAssumption DEF WindowInv, TypeInv, TypeOK, MasterWindowInv, InWindow
  <2>6. s.seen <= n
    BY <2>4
  <2> HIDE DEF jobs, n
  <2> DEFINE i == n + 1 - s.id
  <2>7. i \in Nat /\ 1 <= i /\ i <= n /\ i <= MasterWindow /\ i + s.id = n + 1
    <3> DEFINE id == s.id
    <3> DEFINE seen == s.seen
    <3>1. /\ id \in Nat \ {0} /\ seen \in Nat /\ n \in Nat /\ MasterWindow \in Nat /\ PastLimit \in Nat
          /\ id <= seen /\ seen <= id + PastLimit /\ seen <= n
          /\ n + PastLimit < seen + MasterWindow
      BY <2>3, <2>4, <2>5, <2>6
    <3>2. i = n + 1 - id
      OBVIOUS
    <3> HIDE DEF id, seen, i
    <3>3. i \in Nat /\ 1 <= i /\ i <= n /\ i <= MasterWindow /\ i + id = n + 1
      BY <3>1, <3>2
    <3> QED
      BY <3>3 DEF id
  <2> HIDE DEF i
  <2>9. i \in 1..Len(jobs)
    BY <2>5, <2>7 DEF LastUpTo, AtMost
  <2>10. jobs[i] \in Nat /\ jobs[i] + i = n + 1
    BY <2>5, <2>9 DEF LastUpTo
  <2>8. jobs[i] = s.id
    <3> DEFINE id == s.id
    <3> DEFINE job == jobs[i]
    <3>1. id \in Nat /\ job \in Nat /\ n \in Nat /\ i \in Nat /\ job + i = n + 1 /\ i + id = n + 1
      BY <2>3, <2>5, <2>7, <2>10
    <3> HIDE DEF id, job
    <3>2. job = id
      BY <3>1
    <3> QED
      BY <3>2 DEF id, job
  <2> QED
    BY <2>8, <2>9 DEF Holds, jobs
<1> QED
  BY <1>1, WindowInvariant, PTL

\* While a worker rejects no template, a job for any of the last PastLimit + 1
\* templates of its pool is still accepted, not answered "Block expired".
THEOREM RecentTemplatesKeptHolds ==
    ASSUME ~MayReject
    PROVE  Spec => []RecentTemplatesKept
<1>1. WindowInv => RecentTemplatesKept
  <2> SUFFICES ASSUME WindowInv, NEW p \in Pools, NEW id \in 1..tmpl[p],
                      tmpl[p] <= id + PastLimit, id # tmpl[p]
               PROVE  Holds(past[p], id)
    BY DEF RecentTemplatesKept, HasBlockTemplate
  <2>1. /\ tmpl[p] \in Nat /\ past[p] \in Seq(Nat) /\ PastLimit \in Nat
        /\ LastUpTo(past[p], tmpl[p] - 1, PastLimit)
    BY WindowAssumption DEF WindowInv, TypeInv, TypeOK, PastInv
  <2> DEFINE i == tmpl[p] - id
  <2> DEFINE kept == past[p]
  <2> DEFINE t == tmpl[p]
  <2>2. t \in Nat /\ i \in Nat /\ 1 <= i /\ i <= t - 1 /\ i <= PastLimit /\ i + id = t /\ id \in Nat
    <3>1. t \in Nat /\ PastLimit \in Nat /\ id \in 1..t /\ id # t /\ t <= id + PastLimit
      BY <2>1
    <3>2. i = t - id
      OBVIOUS
    <3> HIDE DEF i, kept, t
    <3> QED
      BY <3>1, <3>2
  <2>3. kept \in Seq(Nat) /\ PastLimit \in Nat /\ LastUpTo(kept, t - 1, PastLimit)
    BY <2>1
  <2> HIDE DEF i, kept, t
  <2>4. i \in 1..Len(kept)
    BY <2>2, <2>3 DEF LastUpTo, AtMost
  <2>5. kept[i] \in Nat /\ kept[i] + i = (t - 1) + 1
    BY <2>3, <2>4 DEF LastUpTo
  <2>6. kept[i] = id
    BY <2>2, <2>5
  <2> QED
    BY <2>4, <2>6 DEF Holds, kept
<1> QED
  BY <1>1, WindowInvariant, PTL

-----------------------------------------------------------------------------
(* What the miners have.                                                    *)

\* t being the worker's templates: a session with jobs has one for the newest template of
\* its pool in front.
OnNewest(s, t) == s.pool # NoPool /\ s.jobs # <<>> /\ t[s.pool] # 0 => HasCurrentJob(s, t)

\* pushNewJob(true) puts the newest work in front, if there is any.
LEMMA WithNewJobNewest ==
    ASSUME NEW s \in Session, s.pool \in Pools, NEW t \in [Pools -> Nat]
    PROVE  OnNewest(WithNewJob(s, t), t)
<1>1. CASE t[s.pool] = 0
  BY <1>1 DEF WithNewJob, OnNewest
<1>2. CASE t[s.pool] # 0
  <2> DEFINE job == [pool |-> s.pool, id |-> t[s.pool]]
  <2> DEFINE new == Enq(s.jobs, JobWindow, job)
  <2>1. job \in Job /\ s.jobs \in Seq(Job) /\ JobWindow \in Nat \ {0}
    BY <1>2, WindowAssumption DEF Job, Session
  <2>2. job.pool = s.pool /\ job.id = t[s.pool]
    OBVIOUS
  <2>3. WithNewJob(s, t) = [s EXCEPT !.jobs = new]
    BY <1>2 DEF WithNewJob
  <2> HIDE DEF job
  <2>4. Enq(s.jobs, JobWindow, job) \in Seq(Job)
    BY <2>1, EnqProperties
  <2>5. Enq(s.jobs, JobWindow, job)[1] = job
    BY <2>1, EnqProperties
  <2>6. Enq(s.jobs, JobWindow, job) # <<>>
    <3>1. AtMost(Len(s.jobs) + 1, JobWindow) \in Nat \ {0}
      BY <2>1 DEF AtMost
    <3>2. Len(Enq(s.jobs, JobWindow, job)) = AtMost(Len(s.jobs) + 1, JobWindow)
      BY <2>1, EnqProperties
    <3> QED
      BY <2>4, <3>1, <3>2
  <2>7. WithNewJob(s, t).jobs = new /\ WithNewJob(s, t).pool = s.pool
    BY <2>3 DEF Session
  <2>8. new # <<>> /\ new[1] = job
    BY <2>5, <2>6
  <2> HIDE DEF new
  <2> QED
    BY <2>2, <2>7, <2>8 DEF HasCurrentJob, OnNewest
<1> QED
  BY <1>1, <1>2

\* So does getNewJob, which leaves a session alone that has it already.
LEMMA WithJobNewest ==
    ASSUME NEW s \in Session, s.pool \in Pools, NEW t \in [Pools -> Nat]
    PROVE  OnNewest(WithJob(s, t), t)
BY WithNewJobNewest DEF WithJob, OnNewest

LEMMA FailedOverNewest ==
    ASSUME TypeOK, NEW act, NEW s \in Session, OnNewest(s, tmpl), NEW fallback \in Pools
    PROVE  OnNewest(FailedOver(s, act, fallback), tmpl)
<1> DEFINE moved == [s EXCEPT !.pool = fallback]
<1>1. moved \in Session /\ moved.pool \in Pools
  BY DEF Session
<1>2. tmpl \in [Pools -> Nat]
  BY DEF TypeOK
<1> HIDE DEF moved
<1>3. OnNewest(WithNewJob(moved, tmpl), tmpl)
  BY <1>1, <1>2, WithNewJobNewest
<1> QED
  BY <1>3 DEF FailedOver, moved

NewestInv == TypeInv /\ \A m \in Miners : OnNewest(miners[m], tmpl)

LEMMA NewestStep ==
    ASSUME NewestInv, [Next]_vars
    PROVE  NewestInv'
<1> SUFFICES ASSUME NEW m \in Miners PROVE OnNewest(miners'[m], tmpl')
  BY StepTypes DEF NewestInv
<1>1. /\ OnNewest(miners[m], tmpl) /\ TypeOK /\ miners \in [Miners -> Session] /\ tmpl \in [Pools -> Nat]
      /\ miners[m] \in Session /\ miners[m].pool \in Pools \cup {NoPool} /\ NoPool \notin Pools
      /\ tmpl' \in [Pools -> Nat]
  BY StepTypes, PoolAssumption DEF NewestInv, TypeInv, TypeOK, Session
<1>2. ASSUME LoggedIn(m)
      PROVE  OnNewest(WithJob(miners[m], tmpl), tmpl) /\ OnNewest(WithNewJob(miners[m], tmpl), tmpl)
  BY <1>1, <1>2, WithJobNewest, WithNewJobNewest DEF LoggedIn
<1>3. CASE UNCHANGED <<tmpl, miners>>
  BY <1>1, <1>3
<1>4. ASSUME NEW act, CheckActivePools(act), UNCHANGED tmpl PROVE OnNewest(miners'[m], tmpl')
  <2> PICK fallback \in InitialPools(act, tmpl, height) :
          miners' = [x \in Miners |-> FailedOver(miners[x], act, fallback)]
    BY <1>4 DEF CheckActivePools
  <2>1. fallback \in Pools
    BY InitialPoolsTypes
  <2> QED
    BY <1>1, <1>4, <2>1, FailedOverNewest
<1>5. CASE ApplyTemplate
  <2> PICK p : p = Head(down).pool
    OBVIOUS
  <2>1. /\ tmpl' = [tmpl EXCEPT ![p] = Head(down).id]
        /\ miners' = [x \in Miners |-> IF miners[x].pool = p THEN WithJob(miners[x], tmpl') ELSE miners[x]]
        /\ Receive("newBlockTemplate")
    BY <1>5 DEF ApplyTemplate
  <2>2. p \in Pools
    <3>1. Head(down) \in DownMessage /\ Head(down).type = "newBlockTemplate"
      BY <1>1, <2>1 DEF Receive, TypeOK
    <3> QED
      BY <3>1, TemplateFields
  <2>3. CASE miners[m].pool = p
    <3>1. OnNewest(WithJob(miners[m], tmpl'), tmpl')
      BY <1>1, <2>2, <2>3, WithJobNewest
    <3> QED
      BY <2>1, <2>3, <3>1
  <2>4. CASE miners[m].pool # p
    BY <1>1, <2>1, <2>4 DEF OnNewest, HasCurrentJob
  <2> QED
    BY <2>3, <2>4
<1>6. CASE ApplyPoolChange
  <2> PICK p, n : p = Head(down).pool /\ n = Head(down).miner
    OBVIOUS
  <2>1. /\ miners' = IF LoggedIn(n)
                     THEN [miners EXCEPT ![n] = WithNewJob([@ EXCEPT !.pool = p], tmpl)]
                     ELSE miners
        /\ UNCHANGED tmpl /\ Receive("changePool")
    BY <1>6 DEF ApplyPoolChange, workerVars
  <2>2. p \in Pools
    <3>1. Head(down) \in DownMessage /\ Head(down).type = "changePool"
      BY <1>1, <2>1 DEF Receive, TypeOK
    <3> QED
      BY <3>1, PoolChangeFields
  <2>3. CASE n = m /\ LoggedIn(m)
    <3> PICK moved : moved = [miners[m] EXCEPT !.pool = p]
      OBVIOUS
    <3>1. moved \in Session /\ moved.pool \in Pools
      BY <1>1, <2>2 DEF Session
    <3>2. OnNewest(WithNewJob(moved, tmpl), tmpl)
      BY <1>1, <3>1, WithNewJobNewest
    <3> QED
      BY <1>1, <2>1, <2>3, <3>2
  <2>4. CASE ~(n = m /\ LoggedIn(m))
    <3>1. miners'[m] = miners[m]
      BY <1>1, <2>1, <2>4
    <3> QED
      BY <1>1, <2>1, <3>1
  <2> QED
    BY <2>3, <2>4
<1>7. CASE HandleMasterMessage
  BY <1>3, <1>4, <1>5, <1>6, <1>7
     DEF HandleMasterMessage, ApplyPoolState, RejectTemplate, ApplyEnable, ApplyDisable, workerVars
<1>8. CASE FailoverTimer
  BY <1>4, <1>8 DEF FailoverTimer, workerVars
<1>9. ASSUME NEW n \in Miners,
             \/ Login(n) \/ Disconnect(n) \/ GetJob(n) \/ Retarget(n)
             \/ \E i \in 1..JobWindow : Submit(n, i) \/ SubmitExpired(n, i)
      PROVE  OnNewest(miners'[m], tmpl')
  <2>1. UNCHANGED tmpl
    BY <1>9 DEF Login, Disconnect, GetJob, Retarget, Submit, SubmitExpired, workerVars
  <2>2. CASE n # m
    <3>1. miners'[m] = miners[m]
      BY <1>1, <1>9, <2>2 DEF Login, Disconnect, GetJob, Retarget, Submit, SubmitExpired
    <3> QED
      BY <1>1, <2>1, <3>1
  <2>3. CASE n = m /\ ~Login(m)
    <3>1. \/ miners'[m] = NoSession \/ miners'[m] = miners[m]
          \/ LoggedIn(m) /\ (miners'[m] = WithJob(miners[m], tmpl) \/ miners'[m] = WithNewJob(miners[m], tmpl))
      BY <1>1, <1>9, <2>3 DEF Disconnect, GetJob, Retarget, Submit, SubmitExpired
    <3> QED
      BY <1>1, <1>2, <2>1, <3>1 DEF OnNewest, NoSession
  <2>4. CASE n = m /\ Login(m)
    <3> PICK p \in InitialPools(active, tmpl, height) :
           LET s == [pool |-> p, jobs |-> <<>>]
           IN  miners' = [miners EXCEPT ![m] = IF m \in GrinMiners THEN s ELSE WithJob(s, tmpl)]
      BY <2>4 DEF Login
    <3> PICK s : s = [pool |-> p, jobs |-> <<>>]
      OBVIOUS
    <3>1. s \in Session /\ s.pool \in Pools
      <4>1. p \in Pools
        BY InitialPoolsTypes
      <4> QED
        BY <4>1 DEF Session
    <3>2. OnNewest(WithJob(s, tmpl), tmpl) /\ OnNewest(s, tmpl)
      BY <1>1, <3>1, WithJobNewest DEF OnNewest
    <3>3. miners'[m] = s \/ miners'[m] = WithJob(s, tmpl)
      BY <1>1
    <3> QED
      BY <2>1, <3>2, <3>3
  <2> QED
    BY <1>9, <2>2, <2>3, <2>4
<1>10. CASE WorkerRespawn
  BY <1>1, <1>10 DEF WorkerRespawn, OnNewest, NoSession
<1>11. CASE MasterNext
  BY <1>3, <1>11 DEF MasterNext, PoolDown, PoolTemplate, Rebalance, HandleNeedPoolState, HandleShare, workerVars
<1>12. CASE UNCHANGED vars
  BY <1>3, <1>12 DEF vars, workerVars
<1> QED
  BY <1>7, <1>8, <1>9, <1>10, <1>11, <1>12 DEF Next, MinerNext

\* A miner that has a job at all works on the newest template of its pool, whatever
\* templates, failovers, balancing and retargeting came before (miner.js, pushNewJob and
\* canReuseJob; worker.js, setNewBlockTemplate and reassignPoolMiners).
THEOREM MinersOnNewestWorkHolds == Spec => []MinersOnNewestWork
<1>1. Init => NewestInv
  BY InitTypes DEF Init, WorkerInit, NewestInv, OnNewest, NoSession
<1>2. NewestInv /\ [Next]_vars => NewestInv'
  BY NewestStep
<1>3. NewestInv => MinersOnNewestWork
  BY DEF NewestInv, MinersOnNewestWork, OnNewest, LoggedIn
<1> QED
  BY <1>1, <1>2, <1>3, PTL DEF Spec

-----------------------------------------------------------------------------
(* What the worker knows of the pools.                                      *)
(*                                                                          *)
(* A pool that is up was announced: the worker's needPoolState is still to  *)
(* be answered, or the last word on the pool, in the worker's flag or in    *)
(* the channel to it, is that the pool is up.                               *)

Activates(msg, p) == msg.type = "poolState" \/ (msg.type = "enablePool" /\ msg.pool = p)

Disables(msg, p) == msg.type = "disablePool" /\ msg.pool = p

\* flag is the worker's pool.active and d what it has yet to receive.
AnnouncedIn(d, flag, p) ==
    \E k \in 0..Len(d) :
        /\ k = 0 => flag
        /\ k # 0 => Activates(d[k], p)
        /\ \A i \in 1..Len(d) : k < i => ~Disables(d[i], p)

StateAsked(u) == \E i \in 1..Len(u) : u[i].type = "needPoolState"

AnnouncedInv == \A p \in Pools : ready[p] => StateAsked(up) \/ AnnouncedIn(down, active[p], p)

UpInv == TypeInv /\ AnnouncedInv

LEMMA AnnouncedAppend ==
    ASSUME NEW d \in Seq(DownMessage), NEW e \in Seq(DownMessage), NEW flag \in BOOLEAN, NEW p,
           AnnouncedIn(d, flag, p), \A i \in 1..Len(e) : ~Disables(e[i], p)
    PROVE  AnnouncedIn(d \o e, flag, p)
<1> PICK c : c = d \o e
  OBVIOUS
<1>1. /\ Len(d) \in Nat /\ Len(e) \in Nat /\ Len(c) = Len(d) + Len(e)
      /\ \A i \in 1..Len(d) : c[i] = d[i]
      /\ \A i \in 1..Len(c) : i \notin 1..Len(d) => i - Len(d) \in 1..Len(e) /\ c[i] = e[i - Len(d)]
  BY ConcatFacts
<1> PICK k \in 0..Len(d) :
        /\ k = 0 => flag
        /\ k # 0 => Activates(d[k], p)
        /\ \A i \in 1..Len(d) : k < i => ~Disables(d[i], p)
  BY DEF AnnouncedIn
<1>2. k \in 0..Len(c) /\ (k # 0 => Activates(c[k], p))
  BY <1>1
<1>3. ASSUME NEW i \in 1..Len(c), k < i PROVE ~Disables(c[i], p)
  <2>1. CASE i \in 1..Len(d)
    <3>1. ~Disables(d[i], p)
      BY <1>3, <2>1
    <3> QED
      BY <1>1, <2>1, <3>1
  <2>2. CASE i \notin 1..Len(d)
    BY <1>1, <2>2
  <2> QED
    BY <2>1, <2>2
<1> QED
  BY <1>2, <1>3 DEF AnnouncedIn

\* What the master now sends says that the pool is up.
LEMMA AnnouncedNow ==
    ASSUME NEW d \in Seq(DownMessage), NEW e \in Seq(DownMessage), NEW flag \in BOOLEAN, NEW p,
           1 \in 1..Len(e), Activates(e[1], p), \A i \in 1..Len(e) : ~Disables(e[i], p)
    PROVE  AnnouncedIn(d \o e, flag, p)
<1> PICK c : c = d \o e
  OBVIOUS
<1>1. /\ Len(d) \in Nat /\ Len(e) \in Nat /\ Len(c) = Len(d) + Len(e)
      /\ \A i \in 1..Len(c) : i \notin 1..Len(d) => i - Len(d) \in 1..Len(e) /\ c[i] = e[i - Len(d)]
      /\ Len(d) + 1 \in 1..Len(c) /\ c[Len(d) + 1] = e[1]
  BY ConcatFacts
<1> PICK k : k = Len(d) + 1
  OBVIOUS
<1>2. k \in 0..Len(c) /\ k # 0 /\ Activates(c[k], p)
  BY <1>1
<1>3. ASSUME NEW i \in 1..Len(c), k < i PROVE ~Disables(c[i], p)
  BY <1>1, <1>3
<1> QED
  BY <1>2, <1>3 DEF AnnouncedIn

\* The worker takes a message: it does what the message says of the pool, and no more.
LEMMA AnnouncedTail ==
    ASSUME NEW d \in Seq(DownMessage), d # <<>>, NEW flag \in BOOLEAN, NEW new \in BOOLEAN, NEW p,
           AnnouncedIn(d, flag, p),
           Activates(Head(d), p) => new,
           flag /\ ~Disables(Head(d), p) => new
    PROVE  AnnouncedIn(Tail(d), new, p)
<1> PICK c : c = Tail(d)
  OBVIOUS
<1>1. /\ Len(d) \in Nat \ {0} /\ Head(d) = d[1] /\ Len(c) = Len(d) - 1
      /\ \A i \in 1..Len(c) : i + 1 \in 2..Len(d) /\ c[i] = d[i + 1]
      /\ \A i \in 2..Len(d) : i - 1 \in 1..Len(c) /\ c[i - 1] = d[i]
  BY TailFacts
<1> PICK k \in 0..Len(d) :
        /\ k = 0 => flag
        /\ k # 0 => Activates(d[k], p)
        /\ \A i \in 1..Len(d) : k < i => ~Disables(d[i], p)
  BY DEF AnnouncedIn
<1>2. ASSUME NEW i \in 1..Len(c), k < i + 1 PROVE ~Disables(c[i], p)
  <2>1. i + 1 \in 1..Len(d) /\ c[i] = d[i + 1]
    BY <1>1
  <2>2. ~Disables(d[i + 1], p)
    BY <1>2, <2>1
  <2> QED
    BY <2>1, <2>2
<1>3. CASE k = 0 \/ k = 1
  <2>1. new
    BY <1>1, <1>3
  <2>2. \A i \in 1..Len(c) : ~Disables(c[i], p)
    BY <1>2, <1>3
  <2>3. 0 \in 0..Len(c)
    BY <1>1
  <2> QED
    BY <2>1, <2>2, <2>3 DEF AnnouncedIn
<1>4. CASE k # 0 /\ k # 1
  <2> PICK j : j = k - 1
    OBVIOUS
  <2>1. j \in 1..Len(c) /\ c[j] = d[k]
    BY <1>1, <1>4
  <2>2. j \in 0..Len(c) /\ j # 0 /\ Activates(c[j], p)
    BY <1>4, <2>1
  <2>3. \A i \in 1..Len(c) : j < i => ~Disables(c[i], p)
    BY <1>2
  <2> QED
    BY <2>2, <2>3 DEF AnnouncedIn
<1> QED
  BY <1>3, <1>4

\* A request for the pools stays on its way until it is handled.
LEMMA StateStaysAsked ==
    ASSUME NEW u \in Seq(UpMessage), StateAsked(u)
    PROVE  /\ \A msg \in UpMessage : StateAsked(Append(u, msg))
           /\ Head(u).type # "needPoolState" => StateAsked(Tail(u))
<1> PICK i \in 1..Len(u) : u[i].type = "needPoolState"
  BY DEF StateAsked
<1>1. ASSUME NEW msg \in UpMessage PROVE StateAsked(Append(u, msg))
  <2>1. i \in 1..Len(Append(u, msg)) /\ Append(u, msg)[i] = u[i]
    OBVIOUS
  <2> QED
    BY <2>1 DEF StateAsked
<1>2. ASSUME Head(u).type # "needPoolState" PROVE StateAsked(Tail(u))
  <2>1. i # 1
    BY <1>2
  <2>2. i - 1 \in 1..Len(Tail(u)) /\ Tail(u)[i - 1] = u[i]
    BY <2>1
  <2> QED
    BY <2>2 DEF StateAsked
<1> QED
  BY <1>1, <1>2

\* Messages of the master: of a pool that goes down, or says that another is up.
LEMMA MasterUpStep ==
    ASSUME UpInv, MasterNext
    PROVE  AnnouncedInv'
<1>0. /\ down \in Seq(DownMessage) /\ up \in Seq(UpMessage)
      /\ \A p \in Pools : active[p] \in BOOLEAN
      /\ \A p \in Pools : ready[p] => StateAsked(up) \/ AnnouncedIn(down, active[p], p)
  BY DEF UpInv, TypeInv, TypeOK, AnnouncedInv
<1>1. ASSUME NEW q \in Pools, PoolDown(q) PROVE AnnouncedInv'
  <2> PICK msg : msg = [type |-> "disablePool", pool |-> q]
    OBVIOUS
  <2>1. <<msg>> \in Seq(DownMessage) /\ down' = down \o <<msg>> /\ UNCHANGED <<up, active>>
    <3>1. msg \in DownMessage
      BY DEF DownMessage
    <3> QED
      BY <1>0, <1>1, <3>1 DEF PoolDown, workerVars
  <2>2. ASSUME NEW p \in Pools, ready'[p] PROVE StateAsked(up) \/ AnnouncedIn(down', active[p], p)
    <3>1. ready[p] /\ p # q
      BY <1>1, <2>2 DEF PoolDown, UpInv, TypeInv, TypeOK
    <3>2. \A i \in 1..Len(<<msg>>) : ~Disables(<<msg>>[i], p)
      BY <3>1 DEF Disables
    <3> QED
      BY <1>0, <2>1, <3>1, <3>2, AnnouncedAppend
  <2> QED
    BY <2>1, <2>2 DEF AnnouncedInv
<1>2. ASSUME NEW q \in Pools, NEW h \in Heights, PoolTemplate(q, h) PROVE AnnouncedInv'
  <2> PICK enable, template : /\ enable = [type |-> "enablePool", pool |-> q]
                              /\ template = TemplateMsg(q, issued[q] + 1, h)
    OBVIOUS
  <2>1. enable \in DownMessage /\ template \in DownMessage
    BY DEF DownMessage, TemplateMsg, UpInv, TypeInv, TypeOK
  <2>2. \A p \in Pools : ~Disables(enable, p) /\ ~Disables(template, p) /\ Activates(enable, q)
    BY DEF Disables, Activates, TemplateMsg
  <2>3. PICK e \in Seq(DownMessage) : /\ down' = down \o e /\ 1 \in 1..Len(e) /\ e[1] = enable
                                      /\ \A i \in 1..Len(e) : e[i] = enable \/ e[i] = template
    <3>1. CASE down' = down \o <<enable, template>>
      <4> PICK e : e = <<enable, template>>
        OBVIOUS
      <4>1. /\ e \in Seq(DownMessage) /\ Len(e) = 2 /\ e[1] = enable /\ e[2] = template
            /\ down' = down \o e
        BY <2>1, <3>1
      <4>2. 1 \in 1..Len(e) /\ \A i \in 1..Len(e) : e[i] = enable \/ e[i] = template
        BY <4>1
      <4> QED
        BY <4>1, <4>2
    <3>2. CASE down' = Append(down, enable)
      <4> PICK e : e = <<enable>>
        OBVIOUS
      <4>1. e \in Seq(DownMessage) /\ Len(e) = 1 /\ e[1] = enable /\ down' = down \o e
        BY <1>0, <2>1, <3>2
      <4>2. 1 \in 1..Len(e) /\ \A i \in 1..Len(e) : e[i] = enable \/ e[i] = template
        BY <4>1
      <4> QED
        BY <4>1, <4>2
    <3> QED
      BY <1>2, <3>1, <3>2 DEF PoolTemplate
  <2>4. UNCHANGED <<up, active>>
    BY <1>2 DEF PoolTemplate, workerVars
  <2>5. ASSUME NEW p \in Pools, ready'[p] PROVE StateAsked(up) \/ AnnouncedIn(down', active[p], p)
    <3>1. \A i \in 1..Len(e) : ~Disables(e[i], p)
      BY <2>2, <2>3
    <3>2. CASE p = q
      <4>1. Activates(e[1], p)
        BY <2>2, <2>3, <3>2
      <4> QED
        BY <1>0, <2>3, <3>1, <4>1, AnnouncedNow
    <3>3. CASE p # q
      <4>1. ready[p]
        BY <1>2, <2>5, <3>3 DEF PoolTemplate, UpInv, TypeInv, TypeOK
      <4> QED
        BY <1>0, <2>3, <3>1, <4>1, AnnouncedAppend
    <3> QED
      BY <3>2, <3>3
  <2> QED
    BY <2>4, <2>5 DEF AnnouncedInv
<1>3. ASSUME NEW m \in Miners, NEW q \in Pools, Rebalance(m, q) PROVE AnnouncedInv'
  <2> PICK msg : msg = [type |-> "changePool", pool |-> q, miner |-> m]
    OBVIOUS
  <2>1. <<msg>> \in Seq(DownMessage) /\ down' = down \o <<msg>> /\ UNCHANGED <<up, active, ready>>
    <3>1. msg \in DownMessage
      BY DEF DownMessage
    <3> QED
      BY <1>0, <1>3, <3>1 DEF Rebalance, workerVars, masterVars
  <2>2. \A p \in Pools : \A i \in 1..Len(<<msg>>) : ~Disables(<<msg>>[i], p)
    BY DEF Disables
  <2>3. \A p \in Pools : AnnouncedIn(down, active[p], p) => AnnouncedIn(down', active[p], p)
    BY <1>0, <2>1, <2>2, AnnouncedAppend
  <2> QED
    BY <1>0, <2>1, <2>3 DEF AnnouncedInv
<1>4. CASE HandleNeedPoolState
  <2> PICK usable : usable = {p \in Pools : IsPoolUsable(ready, mHeight, p)}
    OBVIOUS
  <2>1. usable \in SUBSET Pools /\ \A p \in usable : ready[p]
    BY DEF IsPoolUsable
  <2>2. PICK order \in Orders(usable) :
            down' = Append(down, [type |-> "poolState"]) \o StateTemplates(usable, order)
    BY <1>4 DEF HandleNeedPoolState, StateTemplates
  <2> PICK state : state = [type |-> "poolState"]
    OBVIOUS
  <2> PICK templates : templates = StateTemplates(usable, order)
    OBVIOUS
  <2>3. /\ templates \in Seq(DownMessage) /\ Len(templates) \in Nat /\ Len(templates) = Cardinality(usable)
        /\ \A i \in 1..Len(templates) : templates[i].type = "newBlockTemplate"
    <3>1. templates \in Seq(DownMessage) /\ Len(templates) = Cardinality(usable)
      BY <2>1, StateTemplatesTypes DEF UpInv, TypeInv
    <3>2. \A i \in 1..Cardinality(usable) : templates[i].type = "newBlockTemplate"
      BY DEF StateTemplates, TemplateMsg
    <3>3. Len(templates) \in Nat
      BY <3>1
    <3>4. \A i \in 1..Len(templates) : templates[i].type = "newBlockTemplate"
      BY <3>1, <3>2
    <3> QED
      BY <3>1, <3>3, <3>4
  <2>4. state \in DownMessage /\ state.type = "poolState"
    BY DEF DownMessage
  <2> PICK e : e = <<state>> \o templates
    OBVIOUS
  <2>5. /\ e \in Seq(DownMessage) /\ 1 \in 1..Len(e) /\ e[1] = state
        /\ \A i \in 1..Len(e) : i # 1 => i - 1 \in 1..Len(templates) /\ e[i] = templates[i - 1]
    BY <2>3, <2>4
  <2>6. down' = down \o e
    BY <1>0, <2>2, <2>3, <2>4
  <2>7. ASSUME NEW i \in 1..Len(e) PROVE e[i].type # "disablePool"
    <3>1. CASE i = 1
      BY <2>4, <2>5, <3>1
    <3>2. CASE i # 1
      BY <2>3, <2>5, <3>2
    <3> QED
      BY <3>1, <3>2
  <2>8. \A p \in Pools : Activates(e[1], p) /\ \A i \in 1..Len(e) : ~Disables(e[i], p)
    BY <2>4, <2>5, <2>7 DEF Activates, Disables
  <2>9. \A p \in Pools : AnnouncedIn(down', active[p], p)
    BY <1>0, <2>5, <2>6, <2>8, AnnouncedNow
  <2>10. UNCHANGED active
    BY <1>4 DEF HandleNeedPoolState, workerVars
  <2> QED
    BY <2>9, <2>10 DEF AnnouncedInv
<1>5. CASE HandleShare
  <2>1. UNCHANGED <<down, active, ready>> /\ up' = Tail(up) /\ Head(up).type # "needPoolState"
    BY <1>5 DEF HandleShare, masterVars, workerVars
  <2>2. StateAsked(up) => StateAsked(up')
    BY <1>0, <2>1, StateStaysAsked
  <2> QED
    BY <1>0, <2>1, <2>2 DEF AnnouncedInv
<1> QED
  BY <1>1, <1>2, <1>3, <1>4, <1>5 DEF MasterNext

LEMMA WorkerUpStep ==
    ASSUME UpInv, HandleMasterMessage \/ FailoverTimer
    PROVE  AnnouncedInv'
<1>0. /\ down \in Seq(DownMessage)
      /\ active \in [Pools -> BOOLEAN] /\ active' \in [Pools -> BOOLEAN]
      /\ \A p \in Pools : ready[p] => StateAsked(up) \/ AnnouncedIn(down, active[p], p)
  BY WorkerTypes DEF UpInv, TypeInv, TypeOK, AnnouncedInv
<1>1. ASSUME NEW type, Receive(type), UNCHANGED <<ready, up>>,
             \A p \in Pools : /\ Activates(Head(down), p) => active'[p]
                              /\ active[p] /\ ~Disables(Head(down), p) => active'[p]
      PROVE  AnnouncedInv'
  <2>1. down # <<>> /\ down' = Tail(down)
    BY <1>1 DEF Receive
  <2>2. \A p \in Pools : AnnouncedIn(down, active[p], p) => AnnouncedIn(down', active'[p], p)
    BY <1>0, <1>1, <2>1, AnnouncedTail
  <2> QED
    BY <1>0, <1>1, <2>2 DEF AnnouncedInv
<1>2. CASE ApplyPoolState
  BY <1>0, <1>1, <1>2 DEF ApplyPoolState, masterVars
<1>3. CASE ApplyTemplate
  <2>1. /\ Receive("newBlockTemplate") /\ Head(down).type = "newBlockTemplate" /\ UNCHANGED <<ready, up>>
        /\ active' = [active EXCEPT ![Head(down).pool] = TRUE]
    BY <1>3 DEF ApplyTemplate, masterVars, Receive
  <2>2. \A p \in Pools : ~Activates(Head(down), p)
    BY <2>1 DEF Activates
  <2>3. \A p \in Pools : active[p] => active'[p]
    BY <1>0, <2>1
  <2> QED
    BY <1>1, <2>1, <2>2, <2>3
<1>4. ASSUME NEW type, Receive(type), UNCHANGED <<ready, up, active>>, type \notin {"poolState", "enablePool"}
      PROVE  AnnouncedInv'
  <2>1. \A p \in Pools : ~Activates(Head(down), p)
    BY <1>4 DEF Activates, Receive
  <2> QED
    BY <1>1, <1>4, <2>1
<1>5. CASE RejectTemplate
  BY <1>4, <1>5 DEF RejectTemplate, masterVars, workerVars
<1>6. CASE ApplyPoolChange
  BY <1>4, <1>6 DEF ApplyPoolChange, masterVars, workerVars
<1>7. CASE ApplyEnable
  <2>1. /\ Receive("enablePool") /\ Head(down).type = "enablePool" /\ UNCHANGED <<ready, up>>
        /\ active' = [active EXCEPT ![Head(down).pool] = TRUE]
    BY <1>7 DEF ApplyEnable, masterVars, Receive
  <2>2. \A p \in Pools : Activates(Head(down), p) => active'[p]
    BY <1>0, <2>1 DEF Activates
  <2>3. \A p \in Pools : active[p] => active'[p]
    BY <1>0, <2>1
  <2> QED
    BY <1>1, <2>1, <2>2, <2>3
<1>8. CASE ApplyDisable
  <2>1. /\ Receive("disablePool") /\ Head(down).type = "disablePool" /\ UNCHANGED <<ready, up>>
        /\ active' = [active EXCEPT ![Head(down).pool] = FALSE]
    BY <1>8 DEF ApplyDisable, masterVars, Receive
  <2>2. \A p \in Pools : ~Activates(Head(down), p)
    BY <2>1 DEF Activates
  <2>3. \A p \in Pools : active[p] /\ ~Disables(Head(down), p) => active'[p]
    BY <1>0, <2>1 DEF Disables
  <2> QED
    BY <1>1, <2>1, <2>2, <2>3
<1>9. CASE FailoverTimer
  BY <1>0, <1>9 DEF FailoverTimer, masterVars, workerVars, AnnouncedInv
<1> QED
  BY <1>2, <1>3, <1>5, <1>6, <1>7, <1>8, <1>9 DEF HandleMasterMessage

LEMMA MinerUpStep ==
    ASSUME UpInv, MinerNext \/ WorkerRespawn
    PROVE  AnnouncedInv'
<1>0. /\ up \in Seq(UpMessage) /\ up' \in Seq(UpMessage)
      /\ \A p \in Pools : ready[p] => StateAsked(up) \/ AnnouncedIn(down, active[p], p)
  BY MinerTypes DEF UpInv, TypeInv, TypeOK, AnnouncedInv
<1>1. CASE MinerNext
  <2>1. UNCHANGED <<ready, down, active>>
    BY <1>1 DEF MinerNext, Login, Disconnect, GetJob, Retarget, Submit, SubmitExpired, masterVars, workerVars
  <2>2. up' = up \/ \E msg : up' = Append(up, msg)
    BY <1>1 DEF MinerNext, Login, Disconnect, GetJob, Retarget, Submit, SubmitExpired
  <2>3. StateAsked(up) => StateAsked(up')
    <3>1. CASE up' = up
      BY <3>1
    <3>2. ASSUME NEW msg, up' = Append(up, msg), StateAsked(up) PROVE StateAsked(up')
      <4> PICK i \in 1..Len(up) : up[i].type = "needPoolState"
        BY <3>2 DEF StateAsked
      <4>1. i \in 1..Len(up') /\ up'[i] = up[i]
        BY <1>0, <3>2
      <4> QED
        BY <4>1 DEF StateAsked
    <3> QED
      BY <2>2, <3>1, <3>2
  <2> QED
    BY <1>0, <2>1, <2>3 DEF AnnouncedInv
<1>2. CASE WorkerRespawn
  <2>1. 1 \in 1..Len(up') /\ up'[1].type = "needPoolState"
    BY <1>2 DEF WorkerRespawn
  <2> QED
    BY <2>1 DEF AnnouncedInv, StateAsked
<1> QED
  BY <1>1, <1>2

LEMMA UpInvariant == Spec => []UpInv
<1>1. Init => UpInv
  BY InitTypes DEF Init, WorkerInit, UpInv, AnnouncedInv
<1>2. UpInv /\ [Next]_vars => UpInv'
  <2> SUFFICES ASSUME UpInv, [Next]_vars PROVE UpInv'
    OBVIOUS
  <2>1. TypeInv'
    BY StepTypes DEF UpInv
  <2>2. CASE UNCHANGED vars
    BY <2>1, <2>2 DEF vars, masterVars, workerVars, UpInv, AnnouncedInv
  <2> QED
    BY <2>1, <2>2, MasterUpStep, WorkerUpStep, MinerUpStep DEF Next, UpInv
<1> QED
  BY <1>1, <1>2, PTL DEF Spec

\* Once the worker has digested its messages, every pool the master has up is active in
\* the worker: no enablePool is lost between forking a worker, its first poolState,
\* templates held back for their height, and disablePool (master.js, handlePoolTemplate
\* and handlePoolStateRequest; worker.js, handleMessage).
THEOREM UpPoolsAreActiveHolds == Spec => []UpPoolsAreActive
<1>1. UpInv => UpPoolsAreActive
  <2> SUFFICES ASSUME UpInv, down = <<>>, \A i \in 1..Len(up) : up[i].type # "needPoolState",
                      NEW p \in Pools, ready[p]
               PROVE  active[p]
    BY DEF UpPoolsAreActive
  <2>1. AnnouncedIn(down, active[p], p) /\ Len(down) = 0
    BY DEF UpInv, AnnouncedInv, StateAsked
  <2> QED
    BY <2>1 DEF AnnouncedIn
<1> QED
  BY <1>1, UpInvariant, PTL

-----------------------------------------------------------------------------
(* No pool the master would use is withheld.  The master holds a lagging      *)
(* pool's template back, and does not send it when the pool stops lagging    *)
(* because a higher one goes down: then the worker waits for the pool's next *)
(* template.  For the other pools the worker's heights are the master's.     *)

\* The newest template of p that the worker was sent is the one the master holds, as far
\* as its height tells: where it is active, and where it is still on its way.
NewestSent(p) ==
    /\ issued[p] # 0
    /\ tmpl[p] = issued[p] => height[p] = mHeight[p]
    /\ \A i \in 1..Len(down) :
           ForPool(down[i], p) /\ down[i].id = issued[p] => down[i].height = mHeight[p]

\* A worker that got the pools was sent the template of each pool that is up and was not
\* held back.
SuppliedInv ==
    \A p \in Pools : ready[p] /\ p \notin heldBack => StateAsked(up) \/ NewestSent(p)

\* Other pools' messages do not matter, nor does the loss of one.
LEMMA SentKept ==
    ASSUME NEW p \in Pools, NewestSent(p),
           issued'[p] = issued[p], mHeight'[p] = mHeight[p],
           tmpl'[p] = tmpl[p], height'[p] = height[p],
           \A i \in 1..Len(down') : ForPool(down'[i], p) => \E j \in 1..Len(down) : down'[i] = down[j]
    PROVE  NewestSent(p)'
<1>1. \A i \in 1..Len(down') : ForPool(down'[i], p) /\ down'[i].id = issued'[p]
          => down'[i].height = mHeight'[p]
  <2> SUFFICES ASSUME NEW i \in 1..Len(down'), ForPool(down'[i], p), down'[i].id = issued'[p]
               PROVE  down'[i].height = mHeight'[p]
    OBVIOUS
  <2>1. PICK j \in 1..Len(down) : down'[i] = down[j]
    OBVIOUS
  <2>2. ForPool(down[j], p) /\ down[j].id = issued[p]
    BY <2>1
  <2>3. down[j].height = mHeight[p]
    BY <2>2 DEF NewestSent
  <2> QED
    BY <2>1, <2>3
<1> QED
  BY <1>1 DEF NewestSent

\* A template with the next number is newer than every other: its height counts.
LEMMA SentNow ==
    ASSUME TypeOK, ChannelInv, NEW p \in Pools,
           issued'[p] = issued[p] + 1, tmpl'[p] = tmpl[p],
           \A i \in 1..Len(down') : ForPool(down'[i], p) =>
               \/ \E j \in 1..Len(down) : down'[i] = down[j]
               \/ down'[i].height = mHeight'[p]
    PROVE  NewestSent(p)'
<1>1. /\ issued[p] \in Nat /\ tmpl[p] \in Nat /\ down \in Seq(DownMessage)
      /\ Chan(down, tmpl[p], issued[p], p)
  BY DEF TypeOK, ChannelInv
<1>2. \A j \in 1..Len(down) : ForPool(down[j], p) => down[j].id \in Nat /\ down[j].id <= issued[p]
  BY <1>1, TemplateIds DEF Chan
<1>3. tmpl'[p] # issued'[p] /\ issued'[p] # 0
  BY <1>1 DEF Chan
<1>4. \A i \in 1..Len(down') : ForPool(down'[i], p) /\ down'[i].id = issued'[p]
          => down'[i].height = mHeight'[p]
  <2> SUFFICES ASSUME NEW i \in 1..Len(down'), ForPool(down'[i], p), down'[i].id = issued[p] + 1
               PROVE  down'[i].height = mHeight'[p]
    OBVIOUS
  <2>1. ASSUME NEW j \in 1..Len(down), down'[i] = down[j] PROVE FALSE
    <3>1. ForPool(down[j], p) /\ down[j].id = issued[p] + 1
      BY <2>1
    <3>2. down[j].id \in Nat /\ down[j].id <= issued[p]
      BY <1>2, <3>1
    <3> QED
      BY <1>1, <3>1, <3>2
  <2> QED
    BY <2>1
<1> QED
  BY <1>3, <1>4 DEF NewestSent

LEMMA MasterSuppliedStep ==
    ASSUME WindowInv, SuppliedInv, MasterNext
    PROVE  SuppliedInv'
<1>0. /\ TypeOK /\ ReadyHasHeight /\ ChannelInv
      /\ up \in Seq(UpMessage) /\ down \in Seq(DownMessage)
      /\ ready \in [Pools -> BOOLEAN] /\ mHeight \in [Pools -> Heights \cup {0}]
      /\ \A p \in Pools : ready[p] /\ p \notin heldBack => StateAsked(up) \/ NewestSent(p)
  BY DEF WindowInv, TypeInv, TypeOK, SuppliedInv
<1>1. ASSUME NEW p \in Pools, NEW msg, ~ForPool(msg, p), down' = Append(down, msg)
      PROVE  \A i \in 1..Len(down') : ForPool(down'[i], p) => \E j \in 1..Len(down) : down'[i] = down[j]
  <2>1. \A i \in 1..Len(down') : (i \in 1..Len(down) /\ down'[i] = down[i]) \/ down'[i] = msg
    BY <1>0, <1>1
  <2> QED
    BY <1>1, <2>1
<1>2. ASSUME NEW q \in Pools, PoolDown(q) PROVE SuppliedInv'
  <2> SUFFICES ASSUME NEW p \in Pools, ready'[p], p \notin heldBack'
               PROVE  StateAsked(up') \/ NewestSent(p)'
    BY DEF SuppliedInv
  <2>1. p # q
    BY <1>0, <1>2 DEF PoolDown
  <2>2. ready[p] /\ p \notin heldBack /\ mHeight'[p] = mHeight[p]
    BY <1>0, <1>2, <2>1 DEF PoolDown
  <2>3. UNCHANGED <<issued, tmpl, height, up>>
    BY <1>2 DEF PoolDown, workerVars
  <2>4. \A i \in 1..Len(down') : ForPool(down'[i], p) => \E j \in 1..Len(down) : down'[i] = down[j]
    BY <1>1, <1>2 DEF PoolDown, ForPool
  <2>5. NewestSent(p) => NewestSent(p)'
    BY <2>2, <2>3, <2>4, SentKept
  <2> QED
    BY <1>0, <2>2, <2>3, <2>5
<1>3. ASSUME NEW m \in Miners, NEW q \in Pools, Rebalance(m, q) PROVE SuppliedInv'
  <2> SUFFICES ASSUME NEW p \in Pools, ready[p], p \notin heldBack
               PROVE  StateAsked(up') \/ NewestSent(p)'
    BY <1>3 DEF SuppliedInv, Rebalance, masterVars
  <2>1. UNCHANGED <<issued, mHeight, tmpl, height, up>>
    BY <1>3 DEF Rebalance, masterVars, workerVars
  <2>2. \A i \in 1..Len(down') : ForPool(down'[i], p) => \E j \in 1..Len(down) : down'[i] = down[j]
    BY <1>1, <1>3 DEF Rebalance, ForPool
  <2>3. NewestSent(p) => NewestSent(p)'
    BY <2>1, <2>2, SentKept
  <2> QED
    BY <1>0, <2>1, <2>3
<1>4. ASSUME NEW q \in Pools, NEW h \in Heights, PoolTemplate(q, h) PROVE SuppliedInv'
  <2> SUFFICES ASSUME NEW p \in Pools, ready'[p], p \notin heldBack'
               PROVE  StateAsked(up') \/ NewestSent(p)'
    BY DEF SuppliedInv
  <2> DEFINE enable == [type |-> "enablePool", pool |-> q]
  <2> DEFINE template == TemplateMsg(q, issued[q] + 1, h)
  <2>1. /\ UNCHANGED <<tmpl, height, up>>
        /\ mHeight' = [mHeight EXCEPT ![q] = h] /\ ready' = [ready EXCEPT ![q] = TRUE]
    BY <1>4 DEF PoolTemplate, workerVars
  <2>2. ~ForPool(enable, p) /\ (ForPool(template, p) => p = q) /\ template.height = h
    BY DEF ForPool, TemplateMsg
  <2>3. CASE /\ Issue({q}) /\ heldBack' = heldBack \ {q}
             /\ down' = down \o <<enable, template>>
    <3> HIDE DEF enable, template
    <3>1. \A i \in 1..Len(down') :
              \/ i \in 1..Len(down) /\ down'[i] = down[i]
              \/ down'[i] = enable \/ down'[i] = template
      BY <1>0, <2>3
    <3>2. CASE p = q
      <4>1. issued'[p] = issued[p] + 1 /\ tmpl'[p] = tmpl[p] /\ mHeight'[p] = h
        BY <1>0, <2>1, <2>3, <3>2 DEF Issue
      <4>2. \A i \in 1..Len(down') : ForPool(down'[i], p) =>
                (\E j \in 1..Len(down) : down'[i] = down[j]) \/ down'[i].height = mHeight'[p]
        BY <2>2, <3>1, <4>1
      <4> QED
        BY <1>0, <4>1, <4>2, SentNow
    <3>3. CASE p # q
      <4>1. /\ issued'[p] = issued[p] /\ tmpl'[p] = tmpl[p] /\ height'[p] = height[p]
            /\ mHeight'[p] = mHeight[p] /\ ready[p] /\ p \notin heldBack
        BY <1>0, <2>1, <2>3, <3>3 DEF Issue
      <4>2. \A i \in 1..Len(down') : ForPool(down'[i], p) => \E j \in 1..Len(down) : down'[i] = down[j]
        BY <2>2, <3>1, <3>3
      <4>3. NewestSent(p) => NewestSent(p)'
        BY <4>1, <4>2, SentKept
      <4> QED
        BY <1>0, <2>1, <4>1, <4>3
    <3> QED
      BY <3>2, <3>3
  <2>4. CASE /\ UNCHANGED <<issued, workerJobs>> /\ heldBack' = heldBack \cup {q}
             /\ down' = Append(down, enable)
    <3>1. p # q
      BY <2>4
    <3>2. /\ issued'[p] = issued[p] /\ tmpl'[p] = tmpl[p] /\ height'[p] = height[p]
          /\ mHeight'[p] = mHeight[p] /\ ready[p] /\ p \notin heldBack
      BY <1>0, <2>1, <2>4, <3>1
    <3> HIDE DEF enable
    <3>3. \A i \in 1..Len(down') : ForPool(down'[i], p) => \E j \in 1..Len(down) : down'[i] = down[j]
      BY <1>1, <2>2, <2>4
    <3>4. NewestSent(p) => NewestSent(p)'
      BY <3>2, <3>3, SentKept
    <3> QED
      BY <1>0, <2>1, <3>2, <3>4
  <2> QED
    BY <1>4, <2>3, <2>4 DEF PoolTemplate
<1>5. CASE HandleNeedPoolState
  <2> SUFFICES ASSUME NEW p \in Pools, ready'[p], p \notin heldBack'
               PROVE  NewestSent(p)'
    BY DEF SuppliedInv
  <2> DEFINE usable == {r \in Pools : IsPoolUsable(ready, mHeight, r)}
  <2>1. usable \in SUBSET Pools /\ \A r \in usable : ready[r]
    BY DEF IsPoolUsable
  <2>2. Issue(usable) /\ heldBack' = Lagging /\ UNCHANGED <<ready, mHeight, tmpl, height>>
    BY <1>5 DEF HandleNeedPoolState, workerVars
  <2>3. p \in usable
    BY <2>2 DEF Lagging
  <2>4. PICK order \in Orders(usable) :
            down' = Append(down, [type |-> "poolState"]) \o StateTemplates(usable, order)
    BY <1>5 DEF HandleNeedPoolState, StateTemplates
  <2> HIDE DEF usable
  <2> DEFINE state == [type |-> "poolState"]
  <2> DEFINE n == Cardinality(usable)
  <2> DEFINE templates == StateTemplates(usable, order)
  <2>5. templates \in Seq(DownMessage) /\ Len(templates) = n /\ n \in Nat
    BY <1>0, <2>1, StateTemplatesTypes, OrderTypes
  <2>6. ~ForPool(state, p)
    BY DEF ForPool
  <2>7. \A i \in 1..n : ForPool(templates[i], p) => templates[i].height = mHeight[p]
    BY DEF StateTemplates, TemplateMsg, ForPool
  <2> HIDE DEF state, templates, n
  <2>8. down' = Append(down, state) \o templates
    BY <2>4 DEF state, templates
  <2>9. \A i \in 1..Len(down') :
            \/ i \in 1..Len(down) /\ down'[i] = down[i]
            \/ down'[i] = state
            \/ \E k \in 1..n : down'[i] = templates[k]
    <3> SUFFICES ASSUME NEW i \in 1..Len(down')
                 PROVE  \/ i \in 1..Len(down) /\ down'[i] = down[i]
                        \/ down'[i] = state
                        \/ \E k \in 1..n : down'[i] = templates[k]
      OBVIOUS
    <3>1. Len(down) \in Nat /\ Len(down') = Len(down) + 1 + n
      BY <1>0, <2>5, <2>8
    <3>2. CASE i \in 1..Len(down)
      BY <1>0, <2>5, <2>8, <3>2
    <3>3. CASE i = Len(down) + 1
      BY <1>0, <2>5, <2>8, <3>3
    <3>4. CASE i > Len(down) + 1
      <4>1. i - (Len(down) + 1) \in 1..n /\ down'[i] = templates[i - (Len(down) + 1)]
        BY <1>0, <2>5, <2>8, <3>1, <3>4
      <4> QED
        BY <4>1
    <3> QED
      BY <3>1, <3>2, <3>3, <3>4
  <2>10. issued'[p] = issued[p] + 1 /\ tmpl'[p] = tmpl[p] /\ mHeight'[p] = mHeight[p]
    BY <2>2, <2>3 DEF Issue
  <2>11. \A i \in 1..Len(down') : ForPool(down'[i], p) =>
             (\E j \in 1..Len(down) : down'[i] = down[j]) \/ down'[i].height = mHeight'[p]
    BY <2>6, <2>7, <2>9, <2>10
  <2> QED
    BY <1>0, <2>10, <2>11, SentNow
<1>6. CASE HandleShare
  <2>1. UNCHANGED <<ready, mHeight, issued, heldBack, tmpl, height, down>>
    BY <1>6 DEF HandleShare, masterVars, workerVars
  <2>2. up' = Tail(up) /\ up # <<>> /\ Head(up).type # "needPoolState"
    BY <1>6 DEF HandleShare
  <2>3. StateAsked(up) => StateAsked(up')
    BY <1>0, <2>2, StateStaysAsked
  <2> QED
    BY <1>0, <2>1, <2>3 DEF SuppliedInv, NewestSent
<1> QED
  BY <1>2, <1>3, <1>4, <1>5, <1>6 DEF MasterNext

LEMMA WorkerSuppliedStep ==
    ASSUME WindowInv, SuppliedInv, HandleMasterMessage \/ FailoverTimer
    PROVE  SuppliedInv'
<1>0. /\ tmpl \in [Pools -> Nat] /\ height \in [Pools -> Heights \cup {0}]
      /\ down \in Seq(DownMessage)
      /\ \A p \in Pools : ready[p] /\ p \notin heldBack => StateAsked(up) \/ NewestSent(p)
  BY DEF WindowInv, TypeInv, TypeOK, SuppliedInv
<1>1. UNCHANGED <<ready, mHeight, issued, heldBack, up>>
  BY DEF HandleMasterMessage, FailoverTimer, ApplyPoolState, ApplyTemplate, RejectTemplate,
     ApplyPoolChange, ApplyEnable, ApplyDisable, masterVars
<1>2. ASSUME NEW type, Receive(type)
      PROVE  \A i \in 1..Len(down') : \E j \in 1..Len(down) : down'[i] = down[j]
  BY <1>0, <1>2, TailFacts DEF Receive
<1>3. ASSUME \A p \in Pools : NewestSent(p) => NewestSent(p)' PROVE SuppliedInv'
  BY <1>0, <1>1, <1>3 DEF SuppliedInv
<1>4. ASSUME UNCHANGED <<tmpl, height>>,
             \A i \in 1..Len(down') : \E j \in 1..Len(down) : down'[i] = down[j]
      PROVE  SuppliedInv'
  <2>1. \A p \in Pools : NewestSent(p) => NewestSent(p)'
    BY <1>1, <1>4, SentKept
  <2> QED
    BY <1>3, <2>1
<1>5. CASE ApplyTemplate
  <2> DEFINE q == Head(down).pool
  <2>1. /\ Receive("newBlockTemplate")
        /\ tmpl' = [tmpl EXCEPT ![q] = Head(down).id]
        /\ height' = [height EXCEPT ![q] = Head(down).height]
    BY <1>5 DEF ApplyTemplate
  <2>2. 1 \in 1..Len(down) /\ down[1] = Head(down) /\ Head(down).type = "newBlockTemplate"
    BY <1>0, <2>1, TailFacts DEF Receive
  <2>3. \A i \in 1..Len(down') : \E j \in 1..Len(down) : down'[i] = down[j]
    BY <1>2, <2>1
  <2>4. ASSUME NEW p \in Pools, NewestSent(p) PROVE NewestSent(p)'
    <3>1. CASE p # q
      <4>1. tmpl'[p] = tmpl[p] /\ height'[p] = height[p]
        BY <1>0, <2>1, <3>1
      <4> QED
        BY <1>1, <2>3, <2>4, <4>1, SentKept
    <3>2. CASE p = q
      <4>1. ForPool(down[1], p)
        BY <2>2, <3>2 DEF ForPool
      <4>2. tmpl'[p] = down[1].id /\ height'[p] = down[1].height
        BY <1>0, <2>1, <2>2, <3>2
      <4>3. down[1].id = issued[p] => down[1].height = mHeight[p]
        BY <2>2, <2>4, <4>1 DEF NewestSent
      <4>4. ASSUME NEW i \in 1..Len(down'), ForPool(down'[i], p), down'[i].id = issued[p]
            PROVE  down'[i].height = mHeight[p]
        <5>1. PICK j \in 1..Len(down) : down'[i] = down[j]
          BY <2>3
        <5>2. ForPool(down[j], p) /\ down[j].id = issued[p]
          BY <4>4, <5>1
        <5>3. down[j].height = mHeight[p]
          BY <2>4, <5>2 DEF NewestSent
        <5> QED
          BY <5>1, <5>3
      <4> QED
        BY <1>1, <2>4, <4>2, <4>3, <4>4 DEF NewestSent
    <3> QED
      BY <3>1, <3>2
  <2> QED
    BY <1>3, <2>4
<1>6. CASE ApplyPoolState
  BY <1>2, <1>4, <1>6 DEF ApplyPoolState
<1>7. CASE RejectTemplate
  BY <1>2, <1>4, <1>7 DEF RejectTemplate, workerVars
<1>8. CASE ApplyPoolChange
  BY <1>2, <1>4, <1>8 DEF ApplyPoolChange, workerVars
<1>9. CASE ApplyEnable
  BY <1>2, <1>4, <1>9 DEF ApplyEnable
<1>10. CASE ApplyDisable
  BY <1>2, <1>4, <1>10 DEF ApplyDisable
<1>11. CASE FailoverTimer
  BY <1>4, <1>11 DEF FailoverTimer, workerVars
<1> QED
  BY <1>5, <1>6, <1>7, <1>8, <1>9, <1>10, <1>11 DEF HandleMasterMessage

LEMMA MinerSuppliedStep ==
    ASSUME WindowInv, SuppliedInv, MinerNext \/ WorkerRespawn
    PROVE  SuppliedInv'
<1>1. CASE WorkerRespawn
  <2>1. 1 \in 1..Len(up') /\ up'[1].type = "needPoolState"
    BY <1>1 DEF WorkerRespawn
  <2> QED
    BY <2>1 DEF SuppliedInv, StateAsked
<1>2. CASE MinerNext
  <2>1. UNCHANGED <<ready, mHeight, issued, heldBack, tmpl, height, down>>
    BY <1>2 DEF MinerNext, Login, Disconnect, GetJob, Retarget, Submit, SubmitExpired, masterVars, workerVars
  <2>2. up \in Seq(UpMessage)
    BY DEF WindowInv, TypeInv, TypeOK
  <2>3. up' = up \/ \E msg : up' = Append(up, msg)
    BY <1>2 DEF MinerNext, Login, Disconnect, GetJob, Retarget, Submit, SubmitExpired
  <2>4. StateAsked(up) => StateAsked(up')
    <3>1. ASSUME NEW msg, up' = Append(up, msg), StateAsked(up) PROVE StateAsked(up')
      <4>1. PICK k \in 1..Len(up) : up[k].type = "needPoolState"
        BY <3>1 DEF StateAsked
      <4>2. k \in 1..Len(up') /\ up'[k] = up[k]
        BY <2>2, <3>1
      <4> QED
        BY <4>1, <4>2 DEF StateAsked
    <3> QED
      BY <2>3, <3>1
  <2> QED
    BY <2>1, <2>4 DEF SuppliedInv, NewestSent
<1> QED
  BY <1>1, <1>2

LEMMA SuppliedInvariant ==
    ASSUME ~MayReject
    PROVE  Spec => []SuppliedInv
<1>1. Init => SuppliedInv
  BY DEF Init, WorkerInit, SuppliedInv
<1>2. WindowInv /\ SuppliedInv /\ [Next]_vars => SuppliedInv'
  <2> SUFFICES ASSUME WindowInv, SuppliedInv, [Next]_vars PROVE SuppliedInv'
    OBVIOUS
  <2>1. CASE UNCHANGED vars
    BY <2>1 DEF vars, masterVars, workerVars, SuppliedInv, NewestSent
  <2> QED
    BY <2>1, MasterSuppliedStep, WorkerSuppliedStep, MinerSuppliedStep DEF Next
<1> QED
  BY <1>1, <1>2, WindowInvariant, PTL DEF Spec

\* While no worker rejects a template, a pool the master would use is usable in every
\* worker that digested its messages, at any heights and however the chains grew: no
\* template is lost when a pool goes down and up again or a worker is forked in between.
\* Excepted are the pools whose template the master held back for its height and did not
\* send since, and a worker that has work of such a pool or of one that is down.
THEOREM NoWorkWithheldHolds ==
    ASSUME ~MayReject
    PROVE  Spec => []NoWorkWithheld
<1> DEFINE Inv == UpInv /\ WindowInv /\ SuppliedInv
<1>1. Inv => NoWorkWithheld
  <2> SUFFICES ASSUME Inv, down = <<>>, \A i \in 1..Len(up) : up[i].type # "needPoolState",
                      \A q \in Pools : WorkerReady(active, tmpl)[q] => WorksInStep(q),
                      NEW p \in Pools, p \notin heldBack, IsPoolUsable(ready, mHeight, p)
               PROVE  WorkerUsable(active, tmpl, height, p)
    BY DEF NoWorkWithheld
  <2>1. /\ ready \in [Pools -> BOOLEAN] /\ ~StateAsked(up) /\ Len(down) = 0 /\ ready[p]
        /\ WorkerReady(active, tmpl) = [q \in Pools |-> active[q] /\ tmpl[q] # 0]
    BY DEF WindowInv, TypeInv, TypeOK, StateAsked, IsPoolUsable, WorkerReady
  <2>2. ASSUME NEW q \in Pools, ready[q], q \notin heldBack
        PROVE  active[q] /\ tmpl[q] # 0 /\ height[q] = mHeight[q]
    <3>1. AnnouncedIn(down, active[q], q)
      BY <2>1, <2>2 DEF UpInv, AnnouncedInv
    <3>2. active[q]
      BY <2>1, <3>1 DEF AnnouncedIn
    <3>3. NewestSent(q)
      BY <2>1, <2>2 DEF SuppliedInv
    <3>4. Chan(down, tmpl[q], issued[q], q) /\ tmpl[q] \in Nat /\ issued[q] \in Nat
      BY DEF WindowInv, ChannelInv, TypeInv, TypeOK
    <3>5. \A k \in (tmpl[q] + 1)..issued[q] : FALSE
      BY <2>1, <3>4 DEF Chan
    <3>6. tmpl[q] = issued[q]
      BY <3>4, <3>5 DEF Chan
    <3> QED
      BY <3>2, <3>3, <3>6 DEF NewestSent
  <2> PICK rdy : rdy = WorkerReady(active, tmpl)
    OBVIOUS
  <2>3. DOMAIN rdy = Pools /\ \A q \in Pools : rdy[q] = (active[q] /\ tmpl[q] # 0)
    BY <2>1
  <2>4. rdy[p] /\ height[p] = mHeight[p]
    BY <2>1, <2>2, <2>3
  <2>5. ASSUME NEW q \in Pools, rdy[q] PROVE ready[q] /\ height[q] = mHeight[q]
    <3>1. WorksInStep(q)
      BY <2>5
    <3> QED
      BY <2>2, <3>1 DEF WorksInStep
  <2>6. \A q \in Pools : ready[q] /\ Comparable(mHeight[q], mHeight[p])
            => mHeight[q] <= mHeight[p] + HeightLag
    BY <2>1 DEF IsPoolUsable
  <2>7. IsPoolUsable(rdy, height, p)
    BY <2>3, <2>4, <2>5, <2>6 DEF IsPoolUsable
  <2> QED
    BY <2>7 DEF WorkerUsable
<1> QED
  BY <1>1, SuppliedInvariant, UpInvariant, WindowInvariant, PTL

-----------------------------------------------------------------------------
(* Failover.                                                                *)

\* When a disablePool has been handled and some user pool is usable, no miner is left on
\* an inactive pool: the fallback is one of the usable pools (worker.js, disablePool and
\* checkActivePools; miner.js, chooseInitialPool).
THEOREM FailoverIsCompleteHolds == Spec => FailoverIsComplete
<1> DEFINE Handled == down # <<>> /\ Head(down).type = "disablePool" /\ down' = Tail(down)
           Complete == UserPoolUsable => \A m \in Miners : ~OnInactivePool(m)
<1>1. TypeInv /\ [Next]_vars => (Handled => Complete')
  <2> SUFFICES ASSUME TypeInv, [Next]_vars, Handled, UserPoolUsable', NEW m \in Miners
               PROVE  ~OnInactivePool(m)'
    OBVIOUS
  <2>0. /\ down \in Seq(DownMessage) /\ Len(down) \in Nat \ {0} /\ Len(down') = Len(down) - 1
        /\ miners \in [Miners -> Session]
    BY DEF TypeInv, TypeOK
  <2>1. CASE ApplyDisable
    <3>1. CheckActivePools(active') /\ UNCHANGED <<tmpl, height>>
      BY <2>1 DEF ApplyDisable
    <3> PICK fallback \in InitialPools(active', tmpl, height) :
            miners' = [x \in Miners |-> FailedOver(miners[x], active', fallback)]
      BY <3>1 DEF CheckActivePools
    <3>2. active'[fallback]
      <4>1. fallback \in Pools /\ WorkerUsable(active', tmpl, height, fallback)
        BY <3>1 DEF InitialPools, UserPoolUsable
      <4> QED
        BY <4>1 DEF WorkerUsable, IsPoolUsable, WorkerReady
    <3>3. miners'[m] = FailedOver(miners[m], active', fallback) /\ miners[m].pool \in Pools \cup {NoPool}
      BY <2>0 DEF Session
    <3>4. CASE miners[m].pool \in Pools /\ miners[m].pool # fallback /\ ~active'[miners[m].pool]
      <4> PICK moved : moved = [miners[m] EXCEPT !.pool = fallback]
        OBVIOUS
      <4>1. miners'[m] = WithNewJob(moved, tmpl)
        BY <3>3, <3>4 DEF FailedOver
      <4>2. moved.pool = fallback /\ moved \in Session /\ fallback \in Pools /\ tmpl \in [Pools -> Nat]
        BY <2>0, InitialPoolsTypes DEF Session, TypeInv, TypeOK
      <4>3. miners'[m].pool = fallback
        <5>1. moved.pool \in Pools
          BY <4>2
        <5>2. WithNewJob(moved, tmpl).pool = moved.pool
          BY <4>2, <5>1, WithNewJobTypes
        <5> QED
          BY <4>1, <4>2, <5>2
      <4> QED
        BY <3>2, <4>3 DEF OnInactivePool
    <3>5. CASE ~(miners[m].pool \in Pools /\ miners[m].pool # fallback /\ ~active'[miners[m].pool])
      <4>1. miners'[m] = miners[m]
        BY <3>3, <3>5 DEF FailedOver
      <4> QED
        BY <3>2, <3>3, <3>5, <4>1 DEF OnInactivePool, LoggedIn
    <3> QED
      BY <3>4, <3>5
  <2>2. CASE WorkerRespawn
    BY <2>2 DEF WorkerRespawn, OnInactivePool, LoggedIn, NoSession
  <2>3. ASSUME MasterNext PROVE FALSE
    <3>1. CASE HandleNeedPoolState
      <4> PICK usable : usable = {p \in Pools : IsPoolUsable(ready, mHeight, p)}
        OBVIOUS
      <4>1. usable \in SUBSET Pools /\ \A p \in usable : ready[p]
        BY DEF IsPoolUsable
      <4> PICK order \in Orders(usable) :
              down' = Append(down, [type |-> "poolState"]) \o StateTemplates(usable, order)
        BY <3>1 DEF HandleNeedPoolState, StateTemplates
      <4> PICK templates : templates = StateTemplates(usable, order)
        OBVIOUS
      <4>2. templates \in Seq(DownMessage) /\ Len(templates) \in Nat
        BY <4>1, StateTemplatesTypes DEF TypeInv
      <4> PICK state : state = [type |-> "poolState"]
        OBVIOUS
      <4>3. state \in DownMessage /\ down' = Append(down, state) \o templates
        BY DEF DownMessage
      <4> PICK first : first = Append(down, state)
        OBVIOUS
      <4>4. first \in Seq(DownMessage) /\ Len(first) = Len(down) + 1
        BY <2>0, <4>3
      <4>5. Len(first \o templates) = Len(first) + Len(templates)
        BY <4>2, <4>4
      <4>6. Len(down') = Len(down) + 1 + Len(templates)
        BY <4>3, <4>4, <4>5
      <4> QED
        BY <2>0, <4>2, <4>6
    <3>2. ASSUME NEW e, down' = Append(down, e) PROVE FALSE
      BY <2>0, <3>2
    <3>3. ASSUME NEW e, NEW f, down' = down \o <<e, f>> PROVE FALSE
      BY <2>0, <3>3
    <3>4. CASE UNCHANGED down
      BY <2>0, <3>4
    <3> QED
      BY <2>3, <3>1, <3>2, <3>3, <3>4 DEF MasterNext, PoolDown, PoolTemplate, Rebalance, HandleShare
  <2>4. CASE HandleMasterMessage /\ ~ApplyDisable
    <3>1. \E type : type # "disablePool" /\ Receive(type)
      BY <2>4 DEF HandleMasterMessage, ApplyPoolState, ApplyTemplate, RejectTemplate, ApplyPoolChange,
         ApplyEnable
    <3> QED
      BY <3>1 DEF Receive
  <2>5. UNCHANGED down => FALSE
    BY <2>0
  <2>6. CASE FailoverTimer \/ MinerNext \/ UNCHANGED vars
    BY <2>5, <2>6 DEF FailoverTimer, MinerNext, Login, Disconnect, GetJob, Retarget, Submit, SubmitExpired, vars
  <2> QED
    BY <2>1, <2>2, <2>3, <2>4, <2>6 DEF Next
<1> QED
  BY <1>1, TypeInvariant, PTL DEF Spec, FailoverIsComplete

-----------------------------------------------------------------------------
(* The height rule never leaves a process without a pool: the highest ready  *)
(* pool is usable.                                                          *)

\* A non-empty set of natural numbers has a least element.
LEMMA LeastNat ==
    ASSUME NEW T \in SUBSET Nat, T # {}
    PROVE  \E n \in T : \A k \in T : ~(k < n)
<1>1. PICK n \in T : \A k \in T : <<k, n>> \notin OpToRel(<, Nat)
  BY NatLessThanWellFounded, WFMin
<1>2. \A k \in T : k < n => <<k, n>> \in OpToRel(<, Nat)
  BY DEF OpToRel
<1> QED
  BY <1>1, <1>2

LEMMA HighestIsUsable ==
    ASSUME NEW rdy \in [Pools -> BOOLEAN], NEW hgt, \A q \in Pools : rdy[q] => hgt[q] \in Nat,
           \E q \in Pools : rdy[q]
    PROVE  \E p \in Pools : IsPoolUsable(rdy, hgt, p)
<1> DEFINE above(p) == {q \in Pools : rdy[q] /\ hgt[p] < hgt[q]}
<1>1. ASSUME NEW p \in Pools PROVE IsFiniteSet(above(p)) /\ Cardinality(above(p)) \in Nat
  <2>1. above(p) \in SUBSET Pools
    OBVIOUS
  <2> HIDE DEF above
  <2>2. IsFiniteSet(above(p))
    BY <2>1, PoolAssumption, FS_Subset
  <2> QED
    BY <2>2, FS_CardinalityType
<1> DEFINE sizes == {Cardinality(above(p)) : p \in {q \in Pools : rdy[q]}}
<1>2. sizes \in SUBSET Nat /\ sizes # {}
  BY <1>1
<1>3. PICK p \in Pools : rdy[p] /\ \A q \in Pools : rdy[q] => ~(Cardinality(above(q)) < Cardinality(above(p)))
  <2>1. PICK n \in sizes : \A k \in sizes : ~(k < n)
    <3> HIDE DEF sizes
    <3> QED
      BY <1>2, LeastNat
  <2> QED
    BY <2>1
<1>4. above(p) = {}
  <2> SUFFICES ASSUME NEW q \in above(p) PROVE FALSE
    OBVIOUS
  <2>1. q \in Pools /\ rdy[q] /\ hgt[q] \in Nat /\ hgt[p] \in Nat /\ hgt[p] < hgt[q]
    BY <1>3
  <2>2. above(q) \in SUBSET above(p) /\ q \notin above(q) /\ q \in above(p)
    BY <2>1
  <2> HIDE DEF above
  <2>3. Cardinality(above(q)) <= Cardinality(above(p)) /\ Cardinality(above(q)) # Cardinality(above(p))
    BY <1>1, <2>2, FS_Subset
  <2> QED
    BY <1>1, <1>3, <2>1, <2>3
<1>5. \A q \in Pools : rdy[q] => hgt[q] <= hgt[p]
  BY <1>3, <1>4
<1>6. \A q \in Pools : rdy[q] => hgt[q] <= hgt[p] + HeightLag
  BY <1>3, <1>5, HeightAssumption
<1> QED
  BY <1>3, <1>6 DEF IsPoolUsable

\* While a pool is up, the master finds some pool usable, and while a worker has an active
\* pool with a template, so does the worker: templates held back for their height never
\* leave the miners without work (common.js, isPoolUsable).
SomePoolUsable ==
    /\ (\E p \in Pools : ready[p]) => \E p \in Pools : IsPoolUsable(ready, mHeight, p)
    /\ (\E p \in Pools : active[p] /\ tmpl[p] # 0)
           => \E p \in Pools : WorkerUsable(active, tmpl, height, p)

THEOREM SomePoolUsableHolds == Spec => []SomePoolUsable
<1>1. TypeInv => SomePoolUsable
  <2> SUFFICES ASSUME TypeInv PROVE SomePoolUsable
    OBVIOUS
  <2>1. (\E p \in Pools : ready[p]) => \E p \in Pools : IsPoolUsable(ready, mHeight, p)
    BY PoolAssumption, HighestIsUsable DEF TypeInv, TypeOK, ReadyHasHeight
  <2>2. (\E p \in Pools : active[p] /\ tmpl[p] # 0)
            => \E p \in Pools : WorkerUsable(active, tmpl, height, p)
    <3> PICK rdy : rdy = WorkerReady(active, tmpl)
      OBVIOUS
    <3>1. rdy \in [Pools -> BOOLEAN] /\ \A p \in Pools : rdy[p] <=> active[p] /\ tmpl[p] # 0
      BY DEF WorkerReady, TypeInv, TypeOK
    <3>2. ASSUME NEW p \in Pools PROVE height[p] \in Nat
      <4>1. height[p] \in Heights \cup {0}
        BY DEF TypeInv, TypeOK
      <4>2. Heights \subseteq Nat /\ 0 \in Nat
        BY PoolAssumption
      <4> QED
        BY <4>1, <4>2
    <3>3. (\E p \in Pools : rdy[p]) => \E p \in Pools : IsPoolUsable(rdy, height, p)
      BY <3>1, <3>2, HighestIsUsable
    <3> QED
      BY <3>1, <3>3 DEF WorkerUsable
  <2> QED
    BY <2>1, <2>2 DEF SomePoolUsable
<1> QED
  BY <1>1, TypeInvariant, PTL
=============================================================================
