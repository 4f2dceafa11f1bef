--------------------------- MODULE NonceLanesProofs ---------------------------
(***************************************************************************)
(* Proofs about NonceLanes for every number of workers and every window.   *)
(***************************************************************************)
EXTENDS NonceLanes, FiniteSetTheorems, SequenceTheorems, TLAPS

\* The blobs the upstream has sent.
Sent == {blobOf[i] : i \in DOMAIN blobOf}

\* New blobs are numbered on; the master's template is the upstream's last job, or
\* one that repeats its blob.
BlobInv ==
    /\ \E k \in Nat : Sent = 1..k
    /\ HasTemplate => /\ template.job \in DOMAIN blobOf
                      /\ blobOf[template.job] = template.blob
                      /\ blobOf[Len(blobOf)] = template.blob

\* A template and a lane come from the same call of blobForWorker.
SameDraw(a, b) == a.blob = b.blob /\ a.poolNonce = b.poolNonce

\* A template or a lane was drawn before: its blob was sent, and the present template
\* has counted past it.
Drawn(t) ==
    /\ t.blob \in Sent
    /\ HasTemplate /\ t.blob = template.blob => t.poolNonce <= template.poolNonce

DrawnInv ==
    /\ \A w \in Workers : \A i \in DOMAIN down[w] : Drawn(down[w][i])
    /\ \A w \in Workers : active[w] # NoTemplate => Drawn(active[w])
    /\ \A lane \in DOMAIN handed : Drawn(lane)

\* No two workers have, or will have, the same template.
CopyInv ==
    /\ \A w, v \in Workers : \A i \in DOMAIN down[w], j \in DOMAIN down[v] :
          SameDraw(down[w][i], down[v][j]) => w = v /\ i = j
    /\ \A w, v \in Workers : \A j \in DOMAIN down[v] :
          active[w] # NoTemplate => ~SameDraw(active[w], down[v][j])
    /\ \A w, v \in Workers :
          active[w] # NoTemplate /\ active[v] # NoTemplate /\ SameDraw(active[w], active[v]) => w = v

\* Lanes are handed out once, of templates that have arrived, and an active template
\* has counted past those of its own.
HandedInv ==
    /\ \A lane \in DOMAIN handed : handed[lane] = 1
    /\ \A lane \in DOMAIN handed, w \in Workers : \A i \in DOMAIN down[w] : ~SameDraw(lane, down[w][i])
    /\ \A lane \in DOMAIN handed, w \in Workers :
          active[w] # NoTemplate /\ SameDraw(lane, active[w]) => lane.workerNonce <= active[w].workerNonce

LaneInv == TypeOK /\ BlobInv /\ DrawnInv /\ CopyInv /\ HandedInv

-----------------------------------------------------------------------------
(* Types.                                                                   *)

\* Every entry of a buffer after enq was there before, or is the new one.
LEMMA EnqEntries ==
    ASSUME NEW S, NEW buffer \in Seq(S), NEW limit \in Nat \ {0}, NEW value \in S
    PROVE  /\ Enq(buffer, limit, value) \in Seq(S)
           /\ \A i \in DOMAIN Enq(buffer, limit, value) :
                 \/ Enq(buffer, limit, value)[i] = value
                 \/ \E k \in DOMAIN buffer : Enq(buffer, limit, value)[i] = buffer[k]
<1> DEFINE n == AtMost(Len(buffer) + 1, limit)
           f == [i \in 1..n |-> IF i = 1 THEN value ELSE buffer[i - 1]]
<1>1. n \in Nat /\ n <= Len(buffer) + 1
  BY DEF AtMost
<1>2. Enq(buffer, limit, value) = f
  BY DEF Enq
<1> HIDE DEF n
<1>3. ASSUME NEW i \in 1..n PROVE f[i] = value \/ \E k \in DOMAIN buffer : f[i] = buffer[k]
  <2>1. CASE i = 1
    BY <2>1
  <2>2. CASE i # 1
    <3>1. f[i] = buffer[i - 1] /\ i - 1 \in DOMAIN buffer
      BY <1>1, <2>2
    <3> QED
      BY <3>1
  <2> QED
    BY <2>1, <2>2
<1>4. f \in Seq(S) /\ DOMAIN f = 1..n
  <2>1. \A i \in 1..n : f[i] \in S
    BY <1>3
  <2> QED
    BY <1>1, <2>1
<1> HIDE DEF f
<1> QED
  BY <1>2, <1>3, <1>4

\* Whatever the next job's blob is, it is a number: the next one, or the last.
LEMMA NextBlobKinds ==
    ASSUME BlobInv, blobOf \in Seq(Nat), NEW blob \in NextBlobs
    PROVE  /\ blob \in Nat
           /\ ~IsDuplicate(blob) => \E k \in Nat : Sent = 1..k /\ blob = k + 1
<1> PICK k \in Nat : Sent = 1..k
  BY DEF BlobInv
<1>1. Cardinality(Sent) = k
  BY FS_Interval
<1>2. blob = Cardinality(Sent) + 1 \/ (HasTemplate /\ blob = blobOf[Len(blobOf)])
  BY DEF NextBlobs, Sent
<1>3. CASE blob = Cardinality(Sent) + 1
  BY <1>1, <1>3
<1>4. CASE HasTemplate /\ blob = blobOf[Len(blobOf)]
  <2>1. blob = template.blob
    BY <1>4 DEF BlobInv
  <2>2. blob \in Nat
    <3>1. blobOf[template.job] = blob /\ template.job \in DOMAIN blobOf
      BY <1>4, <2>1 DEF BlobInv
    <3> QED
      BY <3>1
  <2> QED
    BY <1>4, <2>1, <2>2 DEF IsDuplicate
<1> QED
  BY <1>2, <1>3, <1>4

\* What SendTemplates is called with: some workers, each with a place of its own.
Ranked(S, rank) ==
    /\ S \subseteq Workers
    /\ rank \in [S -> 1..Cardinality(S)]
    /\ \A w, v \in S : rank[w] = rank[v] => w = v

\* The template SendTemplates appends for w.
NewTemplate(w, rank, t) ==
    [id |-> issued + rank[w], blob |-> t.blob, poolNonce |-> PoolNonce(t, rank[w]), workerNonce |-> 0]

\* Types of what SendTemplates makes.
LEMMA NewTemplateType ==
    ASSUME issued \in Nat, NEW S, NEW rank, Ranked(S, rank), NEW t \in MasterTemplate, NEW w \in S
    PROVE  /\ Cardinality(S) \in Nat /\ rank[w] \in 1..Cardinality(S)
           /\ PoolNonce(t, rank[w]) \in Nat
           /\ PoolNonce(t, Cardinality(S)) \in Nat
           /\ NewTemplate(w, rank, t) \in WorkerTemplate \ {NoTemplate}
           /\ LocalData(t, rank[w], issued + rank[w]) \in WorkerJob
<1>1. Cardinality(S) \in Nat
  BY FS_Subset, FS_CardinalityType, LaneAssumption DEF Ranked
<1>2. rank[w] \in 1..Cardinality(S)
  BY DEF Ranked
<1>3. PoolNonce(t, rank[w]) \in Nat /\ PoolNonce(t, Cardinality(S)) \in Nat
  BY <1>1, <1>2 DEF PoolNonce, MasterTemplate
<1>4. NewTemplate(w, rank, t) \in WorkerTemplate /\ NewTemplate(w, rank, t).id > 0
  BY <1>2, <1>3 DEF NewTemplate, WorkerTemplate, MasterTemplate
<1>5. NewTemplate(w, rank, t) # NoTemplate
  BY <1>4 DEF NoTemplate
<1>6. LocalData(t, rank[w], issued + rank[w]) \in WorkerJob
  BY <1>2, <1>3 DEF LocalData, WorkerJob, MasterTemplate
<1> QED
  BY <1>1, <1>2, <1>3, <1>4, <1>5, <1>6

\* What SendTemplates does.
LEMMA SendFacts ==
    ASSUME TypeOK, NEW S, NEW rank, Ranked(S, rank), NEW t \in MasterTemplate, SendTemplates(S, rank, t)
    PROVE  /\ Cardinality(S) \in Nat
           /\ issued' = issued + Cardinality(S)
           /\ template' = [t EXCEPT !.poolNonce = PoolNonce(t, Cardinality(S))]
           /\ template' \in MasterTemplate
           /\ down' \in [Workers -> Seq(WorkerTemplate \ {NoTemplate})]
           /\ workerJobs' \in [Workers -> Seq(WorkerJob)]
           /\ \A w \in Workers : \A i \in DOMAIN down'[w] :
                 \/ i \in DOMAIN down[w] /\ down'[w][i] = down[w][i]
                 \/ w \in S /\ i = Len(down[w]) + 1 /\ down'[w][i] = NewTemplate(w, rank, t)
           /\ \A w \in Workers : \A i \in DOMAIN workerJobs'[w] :
                 \/ \E k \in DOMAIN workerJobs[w] : workerJobs'[w][i] = workerJobs[w][k]
                 \/ w \in S /\ workerJobs'[w][i] = LocalData(t, rank[w], issued + rank[w])
<1> DEFINE T == WorkerTemplate \ {NoTemplate}
<1>1. Cardinality(S) \in Nat /\ PoolNonce(t, Cardinality(S)) \in Nat
  <2>1. Cardinality(S) \in Nat
    BY FS_Subset, FS_CardinalityType, LaneAssumption DEF Ranked
  <2> QED
    BY <2>1 DEF PoolNonce, MasterTemplate
<1>2. template' = [t EXCEPT !.poolNonce = PoolNonce(t, Cardinality(S))] /\ issued' = issued + Cardinality(S)
  BY DEF SendTemplates
<1>3. template' \in MasterTemplate
  BY <1>1, <1>2 DEF MasterTemplate
<1>4. ASSUME NEW w \in Workers
      PROVE  /\ down'[w] \in Seq(T)
             /\ \A i \in DOMAIN down'[w] :
                   \/ i \in DOMAIN down[w] /\ down'[w][i] = down[w][i]
                   \/ w \in S /\ i = Len(down[w]) + 1 /\ down'[w][i] = NewTemplate(w, rank, t)
  <2>1. down[w] \in Seq(T)
    BY DEF TypeOK
  <2>2. CASE w \in S
    <3>1. NewTemplate(w, rank, t) \in T
      BY <2>2, NewTemplateType DEF TypeOK
    <3>2. down'[w] = Append(down[w], NewTemplate(w, rank, t))
      BY <2>2 DEF SendTemplates, NewTemplate
    <3> HIDE DEF T
    <3> QED
      BY <2>1, <2>2, <3>1, <3>2, AppendProperties
  <2>3. CASE w \notin S
    <3>1. down'[w] = down[w]
      BY <2>3 DEF SendTemplates
    <3> QED
      BY <2>1, <3>1
  <2> QED
    BY <2>2, <2>3
<1>5. ASSUME NEW w \in Workers
      PROVE  /\ workerJobs'[w] \in Seq(WorkerJob)
             /\ \A i \in DOMAIN workerJobs'[w] :
                   \/ \E k \in DOMAIN workerJobs[w] : workerJobs'[w][i] = workerJobs[w][k]
                   \/ w \in S /\ workerJobs'[w][i] = LocalData(t, rank[w], issued + rank[w])
  <2>1. workerJobs[w] \in Seq(WorkerJob)
    BY DEF TypeOK
  <2>2. CASE w \in S
    <3> DEFINE new == LocalData(t, rank[w], issued + rank[w])
    <3>1. new \in WorkerJob
      BY <2>2, NewTemplateType DEF TypeOK
    <3>2. workerJobs'[w] = Enq(workerJobs[w], MasterWindow, new)
      BY <2>2 DEF SendTemplates
    <3> HIDE DEF new
    <3>3. workerJobs'[w] \in Seq(WorkerJob)
          /\ \A i \in DOMAIN workerJobs'[w] :
                workerJobs'[w][i] = new \/ \E k \in DOMAIN workerJobs[w] : workerJobs'[w][i] = workerJobs[w][k]
      BY <2>1, <3>1, <3>2, EnqEntries, LaneAssumption
    <3> QED
      BY <2>2, <3>3 DEF new
  <2>3. CASE w \notin S
    <3>1. workerJobs'[w] = workerJobs[w]
      BY <2>3 DEF SendTemplates
    <3> QED
      BY <2>1, <3>1
  <2> QED
    BY <2>2, <2>3
<1>6. down' \in [Workers -> Seq(T)] /\ workerJobs' \in [Workers -> Seq(WorkerJob)]
  <2>1. down' = [w \in Workers |-> down'[w]] /\ workerJobs' = [w \in Workers |-> workerJobs'[w]]
    BY DEF SendTemplates
  <2> QED
    BY <1>4, <1>5, <2>1
<1> QED
  BY <1>1, <1>2, <1>3, <1>4, <1>5, <1>6

\* A job more: the others are where they were, and its blob has been sent.
LEMMA BlobAppended ==
    ASSUME blobOf \in Seq(Nat), NEW blob \in Nat, blobOf' = Append(blobOf, blob)
    PROVE  /\ blobOf' \in Seq(Nat)
           /\ Len(blobOf') = Len(blobOf) + 1
           /\ DOMAIN blobOf' = 1..(Len(blobOf) + 1)
           /\ \A i \in DOMAIN blobOf : i \in DOMAIN blobOf' /\ blobOf'[i] = blobOf[i]
           /\ blobOf'[Len(blobOf) + 1] = blob
           /\ Sent' = Sent \cup {blob}
<1>1. /\ blobOf' \in Seq(Nat)
      /\ Len(blobOf') = Len(blobOf) + 1
      /\ \A i \in 1..Len(blobOf) : blobOf'[i] = blobOf[i]
      /\ blobOf'[Len(blobOf) + 1] = blob
  BY AppendProperties
<1>2. DOMAIN blobOf' = 1..(Len(blobOf) + 1) /\ DOMAIN blobOf = 1..Len(blobOf) /\ Len(blobOf) \in Nat
  BY <1>1
<1>3. Sent' = Sent \cup {blob}
  <2>1. Sent' = {blobOf'[i] : i \in DOMAIN blobOf'}
    BY DEF Sent
  <2>2. ASSUME NEW x \in Sent' PROVE x \in Sent \cup {blob}
    <3> PICK i \in DOMAIN blobOf' : x = blobOf'[i]
      BY <2>1
    <3>1. i \in DOMAIN blobOf \/ i = Len(blobOf) + 1
      BY <1>2
    <3> QED
      BY <1>1, <1>2, <3>1 DEF Sent
  <2>3. ASSUME NEW x \in Sent \cup {blob} PROVE x \in Sent'
    <3>1. CASE x = blob
      BY <1>1, <1>2, <2>1, <3>1
    <3>2. CASE x \in Sent
      <4> PICK i \in DOMAIN blobOf : x = blobOf[i]
        BY <3>2 DEF Sent
      <4>1. i \in DOMAIN blobOf' /\ x = blobOf'[i]
        BY <1>1, <1>2
      <4> QED
        BY <2>1, <4>1
    <3> QED
      BY <3>1, <3>2
  <2> QED
    BY <2>2, <2>3
<1> QED
  BY <1>1, <1>2, <1>3

\* handlePoolTemplate: the job repeats the work there is, or all workers are sent a
\* template of it.
LEMMA PoolJobCases ==
    ASSUME TypeOK, BlobInv, PoolJob
    PROVE  \E blob \in Nat :
              /\ blobOf' = Append(blobOf, blob)
              /\ \/ IsDuplicate(blob) /\ UNCHANGED <<template, issued, workerJobs, down>>
                 \/ /\ \E k \in Nat : Sent = 1..k /\ blob = k + 1
                    /\ \E rank : /\ Ranked(Workers, rank)
                                 /\ SendTemplates(Workers, rank,
                                        [job |-> Len(blobOf) + 1, blob |-> blob, poolNonce |-> 0])
<1> PICK blob \in NextBlobs :
       /\ blobOf' = Append(blobOf, blob)
       /\ IF IsDuplicate(blob)
          THEN UNCHANGED <<template, issued, workerJobs, down>>
          ELSE \E rank \in Bijection(Workers, 1..Cardinality(Workers)) :
                  SendTemplates(Workers, rank, [job |-> Len(blobOf) + 1, blob |-> blob, poolNonce |-> 0])
  BY DEF PoolJob
<1>1. blob \in Nat /\ (~IsDuplicate(blob) => \E k \in Nat : Sent = 1..k /\ blob = k + 1)
  BY NextBlobKinds DEF TypeOK
<1>2. CASE IsDuplicate(blob)
  BY <1>1, <1>2
<1>3. CASE ~IsDuplicate(blob)
  <2> PICK rank \in Bijection(Workers, 1..Cardinality(Workers)) :
         SendTemplates(Workers, rank, [job |-> Len(blobOf) + 1, blob |-> blob, poolNonce |-> 0])
    BY <1>3
  <2>1. Ranked(Workers, rank)
    BY DEF Ranked, Bijection, Injection, IsInjective
  <2> QED
    BY <1>1, <1>3, <2>1
<1> QED
  BY <1>2, <1>3

\* The template of a job that has just come.
LEMMA JobTemplateType ==
    ASSUME blobOf \in Seq(Nat), NEW blob \in Nat
    PROVE  [job |-> Len(blobOf) + 1, blob |-> blob, poolNonce |-> 0] \in MasterTemplate
BY DEF MasterTemplate

\* One worker has one place.
LEMMA RankedOne == ASSUME NEW w \in Workers PROVE Ranked({w}, [x \in {w} |-> 1]) /\ Cardinality({w}) = 1
<1>1. Cardinality({w}) = 1
  BY FS_Singleton
<1> QED
  BY <1>1 DEF Ranked

\* A queue without its first element.
LEMMA TailTypes ==
    ASSUME NEW S, NEW q \in [Workers -> Seq(S)], NEW w \in Workers, q[w] # <<>>
    PROVE  /\ Head(q[w]) \in S /\ Head(q[w]) = q[w][1] /\ 1 \in DOMAIN q[w]
           /\ [q EXCEPT ![w] = Tail(@)] \in [Workers -> Seq(S)]
           /\ Len(Tail(q[w])) = Len(q[w]) - 1
           /\ \A i \in DOMAIN Tail(q[w]) : i + 1 \in DOMAIN q[w] /\ Tail(q[w])[i] = q[w][i + 1]
<1>1. q[w] \in Seq(S)
  OBVIOUS
<1>2. /\ Head(q[w]) \in S
      /\ Tail(q[w]) \in Seq(S)
      /\ Len(Tail(q[w])) = Len(q[w]) - 1
      /\ \A i \in 1..Len(Tail(q[w])) : Tail(q[w])[i] = q[w][i + 1]
  BY <1>1, HeadTailProperties
<1>3. Head(q[w]) = q[w][1] /\ 1 \in DOMAIN q[w] /\ Len(q[w]) \in Nat
  BY <1>1
<1> QED
  BY <1>1, <1>2, <1>3

\* The steps of the master keep the types.
LEMMA MasterTypes == TypeOK /\ BlobInv /\ (PoolJob \/ PoolDown) => TypeOK'
<1> SUFFICES ASSUME TypeOK, BlobInv, PoolJob \/ PoolDown PROVE TypeOK'
  OBVIOUS
<1>1. CASE PoolDown
  <2>1. NoMasterTemplate \in MasterTemplate
    BY DEF NoMasterTemplate, MasterTemplate
  <2> QED
    BY <1>1, <2>1 DEF PoolDown, TypeOK
<1>2. CASE PoolJob
  <2> PICK blob \in Nat :
         /\ blobOf' = Append(blobOf, blob)
         /\ \/ UNCHANGED <<template, issued, workerJobs, down>>
            \/ \E rank : /\ Ranked(Workers, rank)
                         /\ SendTemplates(Workers, rank,
                                [job |-> Len(blobOf) + 1, blob |-> blob, poolNonce |-> 0])
    BY <1>2, PoolJobCases
  <2>1. blobOf \in Seq(Nat)
    BY DEF TypeOK
  <2>2. blobOf' \in Seq(Nat)
    BY <2>1, BlobAppended
  <2>3. /\ template' \in MasterTemplate /\ issued' \in Nat
        /\ workerJobs' \in [Workers -> Seq(WorkerJob)]
        /\ down' \in [Workers -> Seq(WorkerTemplate \ {NoTemplate})]
    <3>1. CASE UNCHANGED <<template, issued, workerJobs, down>>
      BY <3>1 DEF TypeOK
    <3>2. ASSUME NEW rank, Ranked(Workers, rank),
                 SendTemplates(Workers, rank, [job |-> Len(blobOf) + 1, blob |-> blob, poolNonce |-> 0])
          PROVE  /\ template' \in MasterTemplate /\ issued' \in Nat
                 /\ workerJobs' \in [Workers -> Seq(WorkerJob)]
                 /\ down' \in [Workers -> Seq(WorkerTemplate \ {NoTemplate})]
      <4>1. issued \in Nat
        BY DEF TypeOK
      <4> QED
        BY <2>1, <3>2, <4>1, JobTemplateType, SendFacts
    <3> QED
      BY <3>1, <3>2
  <2>4. UNCHANGED <<up, active, past, jobs, handed, credited, submitted>>
    BY <1>2 DEF PoolJob
  <2> QED
    BY <2>2, <2>3, <2>4 DEF TypeOK
<1> QED
  BY <1>1, <1>2

\* Handling a worker's message keeps the types.
LEMMA MessageTypes ==
    ASSUME NEW w \in Workers
    PROVE  TypeOK /\ (HandleNeedPoolState(w) \/ HandleShare(w)) => TypeOK'
<1> SUFFICES ASSUME TypeOK, HandleNeedPoolState(w) \/ HandleShare(w) PROVE TypeOK'
  OBVIOUS
<1> DEFINE Message == ShareFind \cup {NeedPoolState}
<1>1. up \in [Workers -> Seq(Message)] /\ up[w] # <<>> /\ up' = [up EXCEPT ![w] = Tail(@)]
  BY DEF TypeOK, HandleNeedPoolState, HandleShare
<1>2. up' \in [Workers -> Seq(Message)] /\ Head(up[w]) \in Message
  <2> HIDE DEF Message
  <2> QED
    BY <1>1, TailTypes
<1>3. CASE HandleNeedPoolState(w)
  <2>1. /\ template' \in MasterTemplate /\ issued' \in Nat
        /\ workerJobs' \in [Workers -> Seq(WorkerJob)]
        /\ down' \in [Workers -> Seq(WorkerTemplate \ {NoTemplate})]
    <3>1. CASE HasTemplate
      <4>1. SendTemplates({w}, [x \in {w} |-> 1], template)
        BY <1>3, <3>1 DEF HandleNeedPoolState
      <4>2. template \in MasterTemplate /\ issued \in Nat
        BY DEF TypeOK
      <4>3. Ranked({w}, [x \in {w} |-> 1])
        BY RankedOne
      <4> QED
        BY <4>1, <4>2, <4>3, SendFacts
    <3>2. CASE ~HasTemplate
      BY <1>3, <3>2 DEF HandleNeedPoolState, TypeOK
    <3> QED
      BY <3>1, <3>2
  <2>2. UNCHANGED <<blobOf, active, past, jobs, handed, credited, submitted>>
    BY <1>3 DEF HandleNeedPoolState
  <2> QED
    BY <1>2, <2>1, <2>2 DEF TypeOK
<1>4. CASE HandleShare(w)
  <2> DEFINE share == Head(up[w])
  <2>1. share \in ShareFind
    BY <1>2, <1>4 DEF HandleShare, NeedPoolState
  <2>2. ASSUME NEW j \in JobsOf(w, share) PROVE Mapped(j, share) \in Submit
    <3>1. workerJobs[w] \in Seq(WorkerJob)
      BY DEF TypeOK
    <3>2. j \in WorkerJob
      BY <2>2, <3>1 DEF JobsOf
    <3> HIDE DEF share
    <3> QED
      BY <2>1, <3>2 DEF Mapped, Submit, ShareFind, WorkerJob
  <2>3. submitted' \in SUBSET Submit
    BY <1>4, <2>2 DEF HandleShare
  <2>4. UNCHANGED <<blobOf, template, issued, workerJobs, down, active, past, jobs, handed, credited>>
    BY <1>4 DEF HandleShare
  <2> QED
    BY <1>2, <2>3, <2>4 DEF TypeOK
<1> QED
  BY <1>3, <1>4

\* The steps of a worker keep the types.
LEMMA WorkerTypes ==
    ASSUME NEW w \in Workers
    PROVE  TypeOK /\ (ApplyTemplate(w) \/ HandOut(w) \/ Respawn(w)) => TypeOK'
<1> SUFFICES ASSUME TypeOK, ApplyTemplate(w) \/ HandOut(w) \/ Respawn(w) PROVE TypeOK'
  OBVIOUS
<1> DEFINE T == WorkerTemplate \ {NoTemplate}
<1>1. NoTemplate \in WorkerTemplate
  BY DEF NoTemplate, WorkerTemplate
<1>2. CASE ApplyTemplate(w)
  <2>1. down \in [Workers -> Seq(T)] /\ down[w] # <<>> /\ down' = [down EXCEPT ![w] = Tail(@)]
    BY <1>2 DEF ApplyTemplate, TypeOK
  <2>2. down' \in [Workers -> Seq(T)] /\ Head(down[w]) \in T
    <3> HIDE DEF T
    <3> QED
      BY <2>1, TailTypes
  <2>3. active' \in [Workers -> WorkerTemplate]
    BY <1>2, <2>2 DEF ApplyTemplate, TypeOK
  <2>4. past' \in [Workers -> Seq(T)]
    <3>1. CASE active[w] = NoTemplate
      BY <1>2, <3>1 DEF ApplyTemplate, TypeOK
    <3>2. CASE active[w] # NoTemplate
      <4>1. past' = [past EXCEPT ![w] = Enq(past[w], PastLimit, active[w])]
        BY <1>2, <3>2 DEF ApplyTemplate
      <4>2. active[w] \in T /\ past[w] \in Seq(T)
        BY <3>2 DEF TypeOK
      <4>3. Enq(past[w], PastLimit, active[w]) \in Seq(T)
        <5> HIDE DEF T
        <5> QED
          BY <4>2, EnqEntries, LaneAssumption
      <4> QED
        BY <4>1, <4>3 DEF TypeOK
    <3> QED
      BY <3>1, <3>2
  <2>5. UNCHANGED <<blobOf, template, issued, workerJobs, up, jobs, handed, credited, submitted>>
    BY <1>2 DEF ApplyTemplate
  <2> QED
    BY <2>2, <2>3, <2>4, <2>5 DEF TypeOK
<1>3. CASE HandOut(w)
  <2> DEFINE nonce == active[w].workerNonce + 1
             lane == LaneOf(active[w], nonce)
             job == [worker |-> w, templateID |-> active[w].id, extraNonce |-> nonce, lane |-> lane]
  <2>1. active[w] \in WorkerTemplate
    BY DEF TypeOK
  <2>2. nonce \in Nat /\ lane \in Lane /\ job \in MinerJob
    BY <2>1 DEF LaneOf, Lane, WorkerTemplate, MinerJob
  <2>3. /\ active' = [active EXCEPT ![w].workerNonce = nonce]
        /\ jobs' = [j \in DOMAIN jobs \cup {job} |-> IF j = job THEN {} ELSE jobs[j]]
        /\ handed' = handed (+) SetToBag({lane})
        /\ UNCHANGED <<blobOf, template, issued, workerJobs, down, up, past, credited, submitted>>
    BY <1>3 DEF HandOut
  <2>4. active' \in [Workers -> WorkerTemplate]
    BY <2>1, <2>2, <2>3 DEF TypeOK, WorkerTemplate
  <2> HIDE DEF nonce, lane, job
  <2>5. DOMAIN jobs' \subseteq MinerJob /\ \A j \in DOMAIN jobs' : jobs'[j] \subseteq Nonces
    BY <2>2, <2>3 DEF TypeOK
  <2>6. DOMAIN handed' \subseteq Lane
    BY <2>2, <2>3 DEF TypeOK, (+), SetToBag
  <2> QED
    BY <2>3, <2>4, <2>5, <2>6 DEF TypeOK
<1>4. CASE Respawn(w)
  <2>1. <<>> \in Seq(T) /\ <<>> \in Seq(WorkerJob) /\ <<NeedPoolState>> \in Seq(ShareFind \cup {NeedPoolState})
    OBVIOUS
  <2>2. /\ down' \in [Workers -> Seq(T)] /\ past' \in [Workers -> Seq(T)]
        /\ workerJobs' \in [Workers -> Seq(WorkerJob)]
        /\ up' \in [Workers -> Seq(ShareFind \cup {NeedPoolState})]
        /\ active' \in [Workers -> WorkerTemplate]
    BY <1>1, <1>4, <2>1 DEF Respawn, TypeOK
  <2>3. DOMAIN jobs' \subseteq DOMAIN jobs /\ \A j \in DOMAIN jobs' : jobs'[j] = jobs[j]
    BY <1>4 DEF Respawn
  <2>4. UNCHANGED <<blobOf, template, issued, handed, credited, submitted>>
    BY <1>4 DEF Respawn
  <2> QED
    BY <2>2, <2>3, <2>4 DEF TypeOK
<1> QED
  BY <1>2, <1>3, <1>4

\* Submitting a share keeps the types.
LEMMA SubmitTypes ==
    ASSUME NEW j \in DOMAIN jobs, NEW nonce \in Nonces
    PROVE  TypeOK /\ SubmitShare(j, nonce) => TypeOK'
<1> SUFFICES ASSUME TypeOK, SubmitShare(j, nonce) PROVE TypeOK'
  OBVIOUS
<1> DEFINE Message == ShareFind \cup {NeedPoolState}
<1>1. j \in MinerJob /\ j.worker \in Workers /\ j.lane \in Lane /\ j.extraNonce \in Nat
  BY DEF TypeOK, MinerJob
<1> PICK t \in Known(j.worker) :
       /\ t.id = j.templateID
       /\ up' = [up EXCEPT ![j.worker] = Append(@,
              [type |-> "shareFind", btID |-> t.id, workerNonce |-> j.extraNonce,
               nonce |-> nonce, lane |-> j.lane, prepared |-> Prepared(t, j.extraNonce)])]
  BY DEF SubmitShare
<1>2. t \in WorkerTemplate
  <2>1. active[j.worker] \in WorkerTemplate /\ past[j.worker] \in Seq(WorkerTemplate \ {NoTemplate})
    BY <1>1 DEF TypeOK
  <2> QED
    BY <2>1 DEF Known
<1> DEFINE share == [type |-> "shareFind", btID |-> t.id, workerNonce |-> j.extraNonce,
                     nonce |-> nonce, lane |-> j.lane, prepared |-> Prepared(t, j.extraNonce)]
<1>3. share \in Message
  BY <1>1, <1>2 DEF ShareFind, Prepared, LaneOf, Lane, WorkerTemplate
<1>4. up' \in [Workers -> Seq(Message)]
  <2>1. up \in [Workers -> Seq(Message)] /\ up' = [up EXCEPT ![j.worker] = Append(@, share)]
    BY DEF TypeOK
  <2> HIDE DEF Message, share
  <2> QED
    BY <1>1, <1>3, <2>1, AppendProperties
<1>5. DOMAIN jobs' \subseteq MinerJob /\ \A k \in DOMAIN jobs' : jobs'[k] \subseteq Nonces
  BY DEF SubmitShare, AcceptNonce, TypeOK
<1>6. DOMAIN credited' \subseteq Work
  BY <1>1 DEF SubmitShare, TypeOK, (+), SetToBag, Work
<1>7. UNCHANGED <<blobOf, template, issued, workerJobs, down, active, past, handed, submitted>>
  BY DEF SubmitShare
<1> QED
  BY <1>4, <1>5, <1>6, <1>7 DEF TypeOK

\* The upstream's jobs and the master's template stay in step.
LEMMA BlobKept == TypeOK /\ BlobInv /\ [Next]_vars => BlobInv'
<1> SUFFICES ASSUME TypeOK, BlobInv, [Next]_vars PROVE BlobInv'
  OBVIOUS
<1>1. CASE UNCHANGED blobOf /\ (UNCHANGED template \/ ~HasTemplate')
  BY <1>1 DEF BlobInv, Sent, HasTemplate
<1>2. CASE PoolJob
  <2> PICK blob \in Nat :
         /\ blobOf' = Append(blobOf, blob)
         /\ \/ IsDuplicate(blob) /\ UNCHANGED <<template, issued, workerJobs, down>>
            \/ /\ \E k \in Nat : Sent = 1..k /\ blob = k + 1
               /\ \E rank : /\ Ranked(Workers, rank)
                            /\ SendTemplates(Workers, rank,
                                   [job |-> Len(blobOf) + 1, blob |-> blob, poolNonce |-> 0])
    BY <1>2, PoolJobCases
  <2>1. /\ Len(blobOf') = Len(blobOf) + 1 /\ Len(blobOf) \in Nat
        /\ DOMAIN blobOf' = 1..(Len(blobOf) + 1)
        /\ \A i \in DOMAIN blobOf : i \in DOMAIN blobOf' /\ blobOf'[i] = blobOf[i]
        /\ blobOf'[Len(blobOf) + 1] = blob
        /\ Sent' = Sent \cup {blob}
    BY BlobAppended DEF TypeOK
  <2>2. CASE IsDuplicate(blob) /\ UNCHANGED template
    <3>1. HasTemplate /\ template.blob = blob
      BY <2>2 DEF IsDuplicate
    <3>2. template.job \in DOMAIN blobOf /\ blobOf[template.job] = template.blob
      BY <3>1 DEF BlobInv
    <3>3. Sent' = Sent
      BY <2>1, <3>1, <3>2 DEF Sent
    <3>4. template.job \in DOMAIN blobOf' /\ blobOf'[template.job] = template.blob /\ blobOf'[Len(blobOf')] = template.blob
      BY <2>1, <3>1, <3>2
    <3> QED
      BY <2>2, <3>3, <3>4 DEF BlobInv
  <2>3. ASSUME NEW k \in Nat, Sent = 1..k, blob = k + 1,
               NEW rank, SendTemplates(Workers, rank, [job |-> Len(blobOf) + 1, blob |-> blob, poolNonce |-> 0])
        PROVE  BlobInv'
    <3>1. template'.job = Len(blobOf) + 1 /\ template'.blob = blob
      BY <2>3 DEF SendTemplates
    <3>2. Sent' = 1..(k + 1)
      BY <2>1, <2>3
    <3>3. template'.job \in DOMAIN blobOf' /\ blobOf'[template'.job] = template'.blob /\ blobOf'[Len(blobOf')] = template'.blob
      BY <2>1, <3>1
    <3> QED
      BY <3>2, <3>3 DEF BlobInv
  <2> QED
    BY <2>2, <2>3
<1>3. CASE PoolDown
  BY <1>1, <1>3 DEF PoolDown, HasTemplate, NoMasterTemplate
<1>4. ASSUME NEW w \in Workers, HandleNeedPoolState(w) PROVE BlobInv'
  <2>1. CASE HasTemplate
    <3>1. template'.job = template.job /\ template'.blob = template.blob /\ UNCHANGED blobOf
      BY <1>4, <2>1 DEF HandleNeedPoolState, SendTemplates, TypeOK, MasterTemplate
    <3> QED
      BY <2>1, <3>1 DEF BlobInv, Sent, HasTemplate
  <2>2. CASE ~HasTemplate
    BY <1>1, <1>4, <2>2 DEF HandleNeedPoolState
  <2> QED
    BY <2>1, <2>2
<1>5. ASSUME NEW w \in Workers, HandleShare(w) \/ ApplyTemplate(w) \/ HandOut(w) \/ Respawn(w) PROVE BlobInv'
  BY <1>1, <1>5 DEF HandleShare, ApplyTemplate, HandOut, Respawn
<1>6. ASSUME NEW j \in DOMAIN jobs, NEW nonce \in Nonces, SubmitShare(j, nonce) PROVE BlobInv'
  BY <1>1, <1>6 DEF SubmitShare
<1>7. CASE UNCHANGED vars
  BY <1>1, <1>7 DEF vars
<1> QED
  BY <1>2, <1>3, <1>4, <1>5, <1>6, <1>7 DEF Next

\* Every step keeps the types.
LEMMA TypesKept == TypeOK /\ BlobInv /\ [Next]_vars => TypeOK'
<1>1. TypeOK /\ UNCHANGED vars => TypeOK'
  BY DEF TypeOK, vars
<1> QED
  BY <1>1, MasterTypes, MessageTypes, WorkerTypes, SubmitTypes DEF Next

\* A proxy that has just started.
LEMMA InitTypes == Init => TypeOK /\ BlobInv
<1> SUFFICES ASSUME Init PROVE TypeOK /\ BlobInv
  OBVIOUS
<1>1. NoTemplate \in WorkerTemplate /\ NoMasterTemplate \in MasterTemplate
  BY DEF NoTemplate, WorkerTemplate, NoMasterTemplate, MasterTemplate
<1>2. DOMAIN jobs = {} /\ DOMAIN handed = {} /\ DOMAIN credited = {} /\ DOMAIN blobOf = {}
  BY DEF Init, EmptyBag, SetToBag
<1>3. <<>> \in Seq(Nat) /\ <<NeedPoolState>> \in Seq(ShareFind \cup {NeedPoolState})
  OBVIOUS
<1>4. TypeOK
  BY <1>1, <1>2, <1>3 DEF Init, TypeOK
<1>5. Sent = {} /\ {} = 1..0
  BY <1>2 DEF Sent
<1>6. ~HasTemplate
  BY DEF Init, HasTemplate, NoMasterTemplate
<1> QED
  BY <1>4, <1>5, <1>6 DEF BlobInv

-----------------------------------------------------------------------------
(* Lanes.                                                                   *)

\* t was drawn before any call for a template that has counted up to from.
Before(t, from) == t.blob \in Sent /\ (t.blob = from.blob => t.poolNonce <= from.poolNonce)

\* blobForWorker draws lanes that nobody has.
LEMMA SendKeepsLanes ==
    ASSUME ~Solo, TypeOK, CopyInv, HandedInv,
           NEW S, NEW rank, Ranked(S, rank), NEW t \in MasterTemplate, t.job # 0,
           SendTemplates(S, rank, t), UNCHANGED <<active, handed>>,
           t.blob \in Sent', Sent \subseteq Sent',
           \A w \in Workers : \A i \in DOMAIN down[w] : Before(down[w][i], t),
           \A w \in Workers : active[w] # NoTemplate => Before(active[w], t),
           \A lane \in DOMAIN handed : Before(lane, t)
    PROVE  DrawnInv' /\ CopyInv' /\ HandedInv'
<1> DEFINE n == Cardinality(S)
<1>1. /\ n \in Nat
      /\ template'.job = t.job /\ template'.blob = t.blob /\ template'.poolNonce = t.poolNonce + n
      /\ \A w \in Workers : \A i \in DOMAIN down'[w] :
            \/ i \in DOMAIN down[w] /\ down'[w][i] = down[w][i]
            \/ w \in S /\ i = Len(down[w]) + 1 /\ down'[w][i] = NewTemplate(w, rank, t)
  BY SendFacts DEF PoolNonce, MasterTemplate
<1>2. \A w \in S : /\ rank[w] \in 1..n
                   /\ NewTemplate(w, rank, t).blob = t.blob
                   /\ NewTemplate(w, rank, t).poolNonce = t.poolNonce + rank[w]
  BY DEF Ranked, NewTemplate, PoolNonce
<1>3. t.poolNonce \in Nat
  BY DEF MasterTemplate
<1>4. \A w \in Workers : \A i \in DOMAIN down[w] : down[w][i].poolNonce \in Nat
  <2> SUFFICES ASSUME NEW w \in Workers, NEW i \in DOMAIN down[w] PROVE down[w][i].poolNonce \in Nat
    OBVIOUS
  <2>1. down[w] \in Seq(WorkerTemplate \ {NoTemplate})
    BY DEF TypeOK
  <2>2. down[w][i] \in WorkerTemplate
    BY <2>1
  <2> QED
    BY <2>2 DEF WorkerTemplate
<1>5. \A w \in Workers : active[w].poolNonce \in Nat
  BY DEF TypeOK, WorkerTemplate
<1>6. \A lane \in DOMAIN handed : lane.poolNonce \in Nat
  BY DEF TypeOK, Lane
<1> HIDE DEF n
<1>7. DrawnInv'
  <2>1. ASSUME NEW w \in Workers, NEW i \in DOMAIN down'[w] PROVE Drawn(down[w][i])'
    <3>1. CASE i \in DOMAIN down[w] /\ down'[w][i] = down[w][i]
      BY <1>1, <1>3, <1>4, <3>1 DEF Drawn, Before
    <3>2. CASE w \in S /\ down'[w][i] = NewTemplate(w, rank, t)
      BY <1>1, <1>2, <1>3, <3>2 DEF Drawn
    <3> QED
      BY <1>1, <3>1, <3>2
  <2>2. ASSUME NEW w \in Workers, active'[w] # NoTemplate PROVE Drawn(active[w])'
    BY <1>1, <1>3, <1>5, <2>2 DEF Drawn, Before
  <2>3. ASSUME NEW lane \in DOMAIN handed' PROVE Drawn(lane)'
    BY <1>1, <1>3, <1>6, <2>3 DEF Drawn, Before
  <2> QED
    BY <2>1, <2>2, <2>3 DEF DrawnInv
\* No old template or lane is a new one.
<1>8. \A x : Before(x, t) /\ x.poolNonce \in Nat => \A w \in S : ~SameDraw(x, NewTemplate(w, rank, t))
  BY <1>1, <1>2, <1>3 DEF Before, SameDraw
<1>9. CopyInv'
  <2>1. ASSUME NEW w \in Workers, NEW v \in Workers, NEW i \in DOMAIN down'[w], NEW j \in DOMAIN down'[v],
               SameDraw(down'[w][i], down'[v][j])
        PROVE  w = v /\ i = j
    <3>1. CASE down'[w][i] = down[w][i] /\ i \in DOMAIN down[w]
      <4>1. CASE down'[v][j] = down[v][j] /\ j \in DOMAIN down[v]
        BY <2>1, <3>1, <4>1 DEF CopyInv
      <4>2. CASE v \in S /\ down'[v][j] = NewTemplate(v, rank, t)
        BY <1>4, <1>8, <2>1, <3>1, <4>2
      <4> QED
        BY <1>1, <4>1, <4>2
    <3>2. CASE w \in S /\ i = Len(down[w]) + 1 /\ down'[w][i] = NewTemplate(w, rank, t)
      <4>1. CASE down'[v][j] = down[v][j] /\ j \in DOMAIN down[v]
        <5>1. SameDraw(down[v][j], NewTemplate(w, rank, t))
          BY <2>1, <3>2, <4>1 DEF SameDraw
        <5> QED
          BY <1>4, <1>8, <3>2, <4>1, <5>1
      <4>2. CASE v \in S /\ j = Len(down[v]) + 1 /\ down'[v][j] = NewTemplate(v, rank, t)
        <5>1. rank[w] = rank[v]
          BY <1>2, <1>3, <2>1, <3>2, <4>2 DEF SameDraw
        <5>2. w = v
          BY <3>2, <4>2, <5>1 DEF Ranked
        <5> QED
          BY <3>2, <4>2, <5>2
      <4> QED
        BY <1>1, <4>1, <4>2
    <3> QED
      BY <1>1, <3>1, <3>2
  <2>2. ASSUME NEW w \in Workers, NEW v \in Workers, NEW j \in DOMAIN down'[v], active'[w] # NoTemplate
        PROVE  ~SameDraw(active'[w], down'[v][j])
    <3>1. CASE down'[v][j] = down[v][j] /\ j \in DOMAIN down[v]
      BY <2>2, <3>1 DEF CopyInv
    <3>2. CASE v \in S /\ down'[v][j] = NewTemplate(v, rank, t)
      BY <1>5, <1>8, <2>2, <3>2
    <3> QED
      BY <1>1, <3>1, <3>2
  <2>3. \A w, v \in Workers :
           active'[w] # NoTemplate /\ active'[v] # NoTemplate /\ SameDraw(active'[w], active'[v]) => w = v
    BY DEF CopyInv
  <2> QED
    BY <2>1, <2>2, <2>3 DEF CopyInv, SameDraw
<1>10. HandedInv'
  <2>1. ASSUME NEW lane \in DOMAIN handed', NEW w \in Workers, NEW i \in DOMAIN down'[w]
        PROVE  ~SameDraw(lane, down'[w][i])
    <3>1. CASE down'[w][i] = down[w][i] /\ i \in DOMAIN down[w]
      BY <2>1, <3>1 DEF HandedInv
    <3>2. CASE w \in S /\ down'[w][i] = NewTemplate(w, rank, t)
      BY <1>6, <1>8, <2>1, <3>2
    <3> QED
      BY <1>1, <3>1, <3>2
  <2> QED
    BY <2>1 DEF HandedInv, SameDraw
<1> QED
  BY <1>7, <1>9, <1>10

\* handlePoolTemplate: a blob that is new has lanes that are new.
LEMMA PoolJobLanes == ~Solo /\ LaneInv /\ PoolJob => DrawnInv' /\ CopyInv' /\ HandedInv'
<1> SUFFICES ASSUME ~Solo, LaneInv, PoolJob PROVE DrawnInv' /\ CopyInv' /\ HandedInv'
  OBVIOUS
<1>1. TypeOK /\ BlobInv /\ DrawnInv /\ CopyInv /\ HandedInv /\ UNCHANGED <<active, handed>> /\ blobOf \in Seq(Nat)
  BY DEF LaneInv, TypeOK, PoolJob
<1> PICK blob \in Nat :
       /\ blobOf' = Append(blobOf, blob)
       /\ \/ IsDuplicate(blob) /\ UNCHANGED <<template, issued, workerJobs, down>>
          \/ /\ \E k \in Nat : Sent = 1..k /\ blob = k + 1
             /\ \E rank : /\ Ranked(Workers, rank)
                          /\ SendTemplates(Workers, rank,
                                 [job |-> Len(blobOf) + 1, blob |-> blob, poolNonce |-> 0])
  BY <1>1, PoolJobCases
<1>2. /\ Len(blobOf') = Len(blobOf) + 1 /\ Len(blobOf) \in Nat
      /\ DOMAIN blobOf' = 1..(Len(blobOf) + 1)
      /\ \A i \in DOMAIN blobOf : i \in DOMAIN blobOf' /\ blobOf'[i] = blobOf[i]
      /\ blobOf'[Len(blobOf) + 1] = blob
      /\ Sent' = Sent \cup {blob}
  BY <1>1, BlobAppended
<1>3. CASE IsDuplicate(blob) /\ UNCHANGED <<template, issued, workerJobs, down>>
  <2>1. HasTemplate /\ template.blob = blob
    BY <1>3 DEF IsDuplicate
  <2>2. blob \in Sent /\ Sent' = Sent
    BY <1>1, <1>2, <2>1 DEF BlobInv, Sent
  <2> QED
    BY <1>1, <1>3, <2>2 DEF DrawnInv, Drawn, HasTemplate, CopyInv, HandedInv, SameDraw
<1>4. ASSUME NEW k \in Nat, Sent = 1..k, blob = k + 1,
             NEW rank, Ranked(Workers, rank),
             SendTemplates(Workers, rank, [job |-> Len(blobOf) + 1, blob |-> blob, poolNonce |-> 0])
      PROVE  DrawnInv' /\ CopyInv' /\ HandedInv'
  <2> DEFINE t == [job |-> Len(blobOf) + 1, blob |-> blob, poolNonce |-> 0]
  <2>1. t \in MasterTemplate /\ t.job = Len(blobOf) + 1 /\ t.job # 0 /\ t.blob = blob
    BY <1>1, <1>2, JobTemplateType
  <2> HIDE DEF t
  <2>2. \A x : Drawn(x) => Before(x, t)
    BY <1>4, <2>1 DEF Drawn, Before
  <2>3. /\ \A w \in Workers : \A i \in DOMAIN down[w] : Before(down[w][i], t)
        /\ \A w \in Workers : active[w] # NoTemplate => Before(active[w], t)
        /\ \A lane \in DOMAIN handed : Before(lane, t)
    BY <1>1, <2>2 DEF DrawnInv
  <2>4. t.blob \in Sent' /\ Sent \subseteq Sent'
    BY <1>2, <2>1
  <2>5. SendTemplates(Workers, rank, t)
    BY <1>4 DEF t
  <2> QED
    BY <1>1, <1>4, <2>1, <2>3, <2>4, <2>5, SendKeepsLanes
<1> QED
  BY <1>3, <1>4

\* The master forgets its template, or handles a message: a worker that has started
\* is sent the next lane of the template there is.
LEMMA MasterLanes ==
    ASSUME NEW w \in Workers
    PROVE  ~Solo /\ LaneInv /\ (PoolDown \/ HandleNeedPoolState(w) \/ HandleShare(w))
               => DrawnInv' /\ CopyInv' /\ HandedInv'
<1> SUFFICES ASSUME ~Solo, LaneInv, PoolDown \/ HandleNeedPoolState(w) \/ HandleShare(w)
             PROVE  DrawnInv' /\ CopyInv' /\ HandedInv'
  OBVIOUS
<1>1. TypeOK /\ BlobInv /\ DrawnInv /\ CopyInv /\ HandedInv /\ UNCHANGED <<blobOf, active, handed>>
  BY DEF LaneInv, PoolDown, HandleNeedPoolState, HandleShare
<1>2. Sent' = Sent
  BY <1>1 DEF Sent
<1>3. CASE UNCHANGED down /\ (UNCHANGED template \/ ~HasTemplate')
  BY <1>1, <1>2, <1>3 DEF BlobInv, DrawnInv, Drawn, HasTemplate, CopyInv, HandedInv, SameDraw
<1>4. CASE HandleNeedPoolState(w) /\ HasTemplate
  <2>1. SendTemplates({w}, [x \in {w} |-> 1], template)
    BY <1>4 DEF HandleNeedPoolState
  <2>2. template \in MasterTemplate /\ template.job # 0 /\ Ranked({w}, [x \in {w} |-> 1])
    BY <1>1, <1>4, RankedOne DEF TypeOK, HasTemplate
  <2>3. \A x : Drawn(x) => Before(x, template)
    BY <1>4 DEF Drawn, Before
  <2>4. /\ \A v \in Workers : \A i \in DOMAIN down[v] : Before(down[v][i], template)
        /\ \A v \in Workers : active[v] # NoTemplate => Before(active[v], template)
        /\ \A lane \in DOMAIN handed : Before(lane, template)
    BY <1>1, <2>3 DEF DrawnInv
  <2>5. template.blob \in Sent'
    BY <1>1, <1>2, <1>4 DEF BlobInv, Sent
  <2> QED
    BY <1>1, <1>2, <2>1, <2>2, <2>4, <2>5, SendKeepsLanes
<1>5. CASE PoolDown
  BY <1>3, <1>5 DEF PoolDown, HasTemplate, NoMasterTemplate
<1>6. CASE HandleShare(w) \/ (HandleNeedPoolState(w) /\ ~HasTemplate)
  BY <1>3, <1>6 DEF HandleShare, HandleNeedPoolState
<1> QED
  BY <1>4, <1>5, <1>6

\* setNewBlockTemplate: a template changes its place.
LEMMA ApplyLanes ==
    ASSUME NEW w \in Workers
    PROVE  LaneInv /\ ApplyTemplate(w) => DrawnInv' /\ CopyInv' /\ HandedInv'
<1> SUFFICES ASSUME LaneInv, ApplyTemplate(w) PROVE DrawnInv' /\ CopyInv' /\ HandedInv'
  OBVIOUS
<1>1. /\ TypeOK /\ BlobInv /\ DrawnInv /\ CopyInv /\ HandedInv
      /\ down[w] # <<>> /\ active' = [active EXCEPT ![w] = Head(down[w])] /\ down' = [down EXCEPT ![w] = Tail(@)]
      /\ UNCHANGED <<blobOf, template, handed>>
  BY DEF LaneInv, ApplyTemplate
<1> DEFINE T == WorkerTemplate \ {NoTemplate}
<1>2. down \in [Workers -> Seq(T)] /\ active \in [Workers -> WorkerTemplate]
  BY <1>1 DEF TypeOK
<1>3. /\ Head(down[w]) = down[w][1] /\ 1 \in DOMAIN down[w]
      /\ \A i \in DOMAIN Tail(down[w]) : i + 1 \in DOMAIN down[w] /\ Tail(down[w])[i] = down[w][i + 1]
  <2> HIDE DEF T
  <2> QED
    BY <1>1, <1>2, TailTypes
<1>4. active'[w] = down[w][1] /\ \A v \in Workers : v # w => active'[v] = active[v]
  BY <1>1, <1>2, <1>3
<1>5. \A v \in Workers : \A i \in DOMAIN down'[v] :
         IF v = w THEN i + 1 \in DOMAIN down[w] /\ down'[v][i] = down[w][i + 1] /\ i \in Nat /\ i # 0
         ELSE i \in DOMAIN down[v] /\ down'[v][i] = down[v][i]
  <2> SUFFICES ASSUME NEW v \in Workers, NEW i \in DOMAIN down'[v]
               PROVE  IF v = w THEN i + 1 \in DOMAIN down[w] /\ down'[v][i] = down[w][i + 1] /\ i \in Nat /\ i # 0
                      ELSE i \in DOMAIN down[v] /\ down'[v][i] = down[v][i]
    OBVIOUS
  <2>1. CASE v = w
    <3>1. down'[v] = Tail(down[w])
      BY <1>1, <1>2, <2>1
    <3>2. i \in Nat /\ i # 0
      <4>1. Tail(down[w]) \in Seq(T)
        <5> HIDE DEF T
        <5> QED
          BY <1>1, <1>2, HeadTailProperties
      <4> QED
        BY <3>1, <4>1
    <3> QED
      BY <1>3, <2>1, <3>1, <3>2
  <2>2. CASE v # w
    BY <1>1, <1>2, <2>2
  <2> QED
    BY <2>1, <2>2
<1>6. DrawnInv'
  <2>1. \A v \in Workers : \A i \in DOMAIN down'[v] : Drawn(down'[v][i])
    BY <1>1, <1>5 DEF DrawnInv
  <2>2. \A v \in Workers : active'[v] # NoTemplate => Drawn(active'[v])
    BY <1>1, <1>3, <1>4 DEF DrawnInv
  <2>3. \A lane \in DOMAIN handed' : Drawn(lane)
    BY <1>1 DEF DrawnInv
  <2>4. Sent' = Sent /\ HasTemplate' = HasTemplate /\ template' = template
    BY <1>1 DEF Sent, HasTemplate
  <2> QED
    BY <2>1, <2>2, <2>3, <2>4 DEF DrawnInv, Drawn
<1>7. CopyInv'
  <2>1. ASSUME NEW u \in Workers, NEW v \in Workers, NEW i \in DOMAIN down'[u], NEW j \in DOMAIN down'[v],
               SameDraw(down'[u][i], down'[v][j])
        PROVE  u = v /\ i = j
    <3>1. CASE u = w /\ v = w
      <4>1. i + 1 = j + 1 /\ i \in Nat /\ j \in Nat
        BY <1>1, <1>5, <2>1, <3>1 DEF CopyInv
      <4> QED
        BY <3>1, <4>1
    <3>2. CASE u # w /\ v # w
      BY <1>1, <1>5, <2>1, <3>2 DEF CopyInv
    <3>3. CASE u = w /\ v # w
      BY <1>1, <1>5, <2>1, <3>3 DEF CopyInv
    <3>4. CASE u # w /\ v = w
      BY <1>1, <1>5, <2>1, <3>4 DEF CopyInv
    <3> QED
      BY <3>1, <3>2, <3>3, <3>4
  <2>2. ASSUME NEW u \in Workers, NEW v \in Workers, NEW j \in DOMAIN down'[v], active'[u] # NoTemplate
        PROVE  ~SameDraw(active'[u], down'[v][j])
    <3>1. CASE u # w
      BY <1>1, <1>4, <1>5, <2>2, <3>1 DEF CopyInv
    <3>2. CASE u = w /\ v # w
      BY <1>1, <1>3, <1>4, <1>5, <2>2, <3>2 DEF CopyInv
    <3>3. CASE u = w /\ v = w
      <4>1. j + 1 \in DOMAIN down[w] /\ down'[v][j] = down[w][j + 1] /\ j + 1 # 1
        BY <1>5, <2>2, <3>3
      <4> QED
        BY <1>1, <1>3, <1>4, <3>3, <4>1 DEF CopyInv
    <3> QED
      BY <3>1, <3>2, <3>3
  <2>3. ASSUME NEW u \in Workers, NEW v \in Workers, u # v, active'[u] # NoTemplate, active'[v] # NoTemplate
        PROVE  ~SameDraw(active'[u], active'[v])
    <3>1. CASE u # w /\ v # w
      BY <1>1, <1>4, <2>3, <3>1 DEF CopyInv
    <3>2. CASE u # w /\ v = w
      BY <1>1, <1>3, <1>4, <2>3, <3>2 DEF CopyInv
    <3>3. CASE u = w /\ v # w
      <4>1. ~SameDraw(active[v], down[w][1])
        BY <1>1, <1>3, <1>4, <2>3, <3>3 DEF CopyInv
      <4> QED
        BY <1>4, <3>3, <4>1 DEF SameDraw
    <3> QED
      BY <2>3, <3>1, <3>2, <3>3
  <2> QED
    BY <2>1, <2>2, <2>3 DEF CopyInv, SameDraw
<1>8. HandedInv'
  <2>1. ASSUME NEW lane \in DOMAIN handed', NEW v \in Workers, NEW i \in DOMAIN down'[v]
        PROVE  ~SameDraw(lane, down'[v][i])
    BY <1>1, <1>5, <2>1 DEF HandedInv
  <2>2. ASSUME NEW lane \in DOMAIN handed', NEW v \in Workers,
               active'[v] # NoTemplate, SameDraw(lane, active'[v])
        PROVE  lane.workerNonce <= active'[v].workerNonce
    BY <1>1, <1>3, <1>4, <2>2 DEF HandedInv
  <2> QED
    BY <1>1, <2>1, <2>2 DEF HandedInv, SameDraw
<1> QED
  BY <1>6, <1>7, <1>8

\* What getJob hands out, as a lane.
NextLane(w) == LaneOf(active[w], active[w].workerNonce + 1)

\* What handing out does to the bag.
LEMMA HandOutFacts ==
    ASSUME TypeOK, NEW w \in Workers, HandOut(w)
    PROVE  /\ active[w] \in WorkerTemplate /\ active[w] # NoTemplate
           /\ active' = [active EXCEPT ![w].workerNonce = active[w].workerNonce + 1]
           /\ SameDraw(NextLane(w), active[w]) /\ NextLane(w).workerNonce = active[w].workerNonce + 1
           /\ SameDraw(active'[w], active[w]) /\ active'[w].workerNonce = active[w].workerNonce + 1
           /\ active'[w].id = active[w].id
           /\ \A v \in Workers : v # w => active'[v] = active[v]
           /\ DOMAIN handed' = DOMAIN handed \cup {NextLane(w)}
           /\ \A lane \in DOMAIN handed : lane # NextLane(w) => handed'[lane] = handed[lane] + 0
           /\ NextLane(w) \notin DOMAIN handed => handed'[NextLane(w)] = 0 + 1
<1>1. active \in [Workers -> WorkerTemplate] /\ active[w] \in WorkerTemplate /\ active[w] # NoTemplate
  BY DEF TypeOK, HandOut
<1>2. /\ active' = [active EXCEPT ![w].workerNonce = active[w].workerNonce + 1]
      /\ handed' = handed (+) SetToBag({NextLane(w)})
  BY DEF HandOut, NextLane
<1>3. /\ SameDraw(NextLane(w), active[w]) /\ NextLane(w).workerNonce = active[w].workerNonce + 1
  BY DEF NextLane, LaneOf, SameDraw
<1>4. /\ SameDraw(active'[w], active[w]) /\ active'[w].workerNonce = active[w].workerNonce + 1
      /\ active'[w].id = active[w].id
      /\ \A v \in Workers : v # w => active'[v] = active[v]
  BY <1>1, <1>2 DEF WorkerTemplate, SameDraw
<1> DEFINE new == NextLane(w)
<1>5. handed' = [e \in DOMAIN handed \cup {new} |->
                   (IF e \in DOMAIN handed THEN handed[e] ELSE 0) + (IF e \in {new} THEN 1 ELSE 0)]
  BY <1>2 DEF (+), SetToBag
<1> HIDE DEF new
<1>6. /\ DOMAIN handed' = DOMAIN handed \cup {new}
      /\ \A lane \in DOMAIN handed : lane # new => handed'[lane] = handed[lane] + 0
      /\ new \notin DOMAIN handed => handed'[new] = 0 + 1
  BY <1>5
<1> QED
  BY <1>1, <1>2, <1>3, <1>4, <1>6 DEF new

\* nextBlob: the lane handed out is none of those before.
LEMMA HandOutLanes ==
    ASSUME NEW w \in Workers
    PROVE  LaneInv /\ HandOut(w)
               => NextLane(w) \notin DOMAIN handed /\ DrawnInv' /\ CopyInv' /\ HandedInv'
<1> SUFFICES ASSUME LaneInv, HandOut(w)
             PROVE  NextLane(w) \notin DOMAIN handed /\ DrawnInv' /\ CopyInv' /\ HandedInv'
  OBVIOUS
<1>1. /\ TypeOK /\ BlobInv /\ DrawnInv /\ CopyInv /\ HandedInv
      /\ UNCHANGED <<blobOf, template, down>>
  BY DEF LaneInv, HandOut
<1> DEFINE new == NextLane(w)
<1>2. /\ active[w].workerNonce \in Nat /\ active[w] # NoTemplate
      /\ SameDraw(new, active[w]) /\ new.workerNonce = active[w].workerNonce + 1
      /\ SameDraw(active'[w], active[w]) /\ active'[w].workerNonce = active[w].workerNonce + 1
      /\ \A v \in Workers : v # w => active'[v] = active[v]
      /\ DOMAIN handed' = DOMAIN handed \cup {new}
      /\ \A lane \in DOMAIN handed : lane # new => handed'[lane] = handed[lane] + 0
      /\ new \notin DOMAIN handed => handed'[new] = 0 + 1
  BY <1>1, HandOutFacts DEF WorkerTemplate
<1> HIDE DEF new
<1>3. new \notin DOMAIN handed
  BY <1>1, <1>2 DEF HandedInv
<1>4. \A v \in Workers : SameDraw(active'[v], active[v])
  BY <1>2 DEF SameDraw
<1>5. \A v \in Workers : active'[v] # NoTemplate => active[v] # NoTemplate
  BY <1>2
<1>6. Sent' = Sent /\ HasTemplate' = HasTemplate
  BY <1>1 DEF Sent, HasTemplate
<1>7. DrawnInv'
  <2>1. Drawn(active[w])
    BY <1>1, <1>2 DEF DrawnInv
  <2>2. Drawn(new)
    BY <1>2, <2>1 DEF Drawn, SameDraw
  <2>3. \A v \in Workers : active'[v] # NoTemplate => Drawn(active'[v])
    BY <1>1, <1>4, <1>5 DEF DrawnInv, Drawn, SameDraw
  <2>4. \A lane \in DOMAIN handed' : Drawn(lane)
    BY <1>1, <1>2, <2>2 DEF DrawnInv
  <2> QED
    BY <1>1, <1>6, <2>3, <2>4 DEF DrawnInv, Drawn
<1>8. CopyInv'
  BY <1>1, <1>4, <1>5 DEF CopyInv, SameDraw
<1>9. HandedInv'
  <2>1. \A lane \in DOMAIN handed' : handed'[lane] = 1
    BY <1>1, <1>2, <1>3 DEF HandedInv
  <2>2. ASSUME NEW v \in Workers, NEW i \in DOMAIN down[v] PROVE ~SameDraw(new, down[v][i])
    <3>1. ~SameDraw(active[w], down[v][i])
      BY <1>1, <1>2 DEF CopyInv
    <3> QED
      BY <1>2, <3>1 DEF SameDraw
  <2>3. ASSUME NEW lane \in DOMAIN handed', NEW v \in Workers,
               active'[v] # NoTemplate, SameDraw(lane, active'[v])
        PROVE  lane.workerNonce <= active'[v].workerNonce
    <3>1. active[v] # NoTemplate /\ SameDraw(lane, active[v])
      BY <1>4, <1>5, <2>3 DEF SameDraw
    <3>2. CASE lane = new
      <4>1. v = w
        <5>1. SameDraw(active[w], active[v])
          BY <1>2, <3>1, <3>2 DEF SameDraw
        <5> QED
          BY <1>1, <1>2, <3>1, <5>1 DEF CopyInv
      <4> QED
        BY <1>2, <3>2, <4>1
    <3>3. CASE lane \in DOMAIN handed
      <4>1. lane.workerNonce <= active[v].workerNonce /\ lane.workerNonce \in Nat
        BY <1>1, <3>1, <3>3 DEF HandedInv, TypeOK, Lane
      <4> QED
        BY <1>2, <4>1
    <3> QED
      BY <1>2, <3>2, <3>3
  <2> QED
    BY <1>1, <1>2, <2>1, <2>2, <2>3 DEF HandedInv, SameDraw
<1> QED
  BY <1>3, <1>7, <1>8, <1>9 DEF new

\* A worker that dies takes its lanes with it.
LEMMA RespawnLanes ==
    ASSUME NEW w \in Workers
    PROVE  LaneInv /\ Respawn(w) => DrawnInv' /\ CopyInv' /\ HandedInv'
<1> SUFFICES ASSUME LaneInv, Respawn(w) PROVE DrawnInv' /\ CopyInv' /\ HandedInv'
  OBVIOUS
<1>1. /\ TypeOK /\ BlobInv /\ DrawnInv /\ CopyInv /\ HandedInv
      /\ down' = [down EXCEPT ![w] = <<>>] /\ active' = [active EXCEPT ![w] = NoTemplate]
      /\ UNCHANGED <<blobOf, template, handed>>
  BY DEF LaneInv, Respawn
<1>2. \A v \in Workers : \A i \in DOMAIN down'[v] : i \in DOMAIN down[v] /\ down'[v][i] = down[v][i]
  BY <1>1 DEF TypeOK
<1>3. \A v \in Workers : active'[v] # NoTemplate => active'[v] = active[v]
  BY <1>1 DEF TypeOK
<1>4. Sent' = Sent /\ HasTemplate' = HasTemplate
  BY <1>1 DEF Sent, HasTemplate
<1>5. DrawnInv'
  BY <1>1, <1>2, <1>3, <1>4 DEF DrawnInv, Drawn
<1>6. CopyInv'
  BY <1>1, <1>2, <1>3 DEF CopyInv, SameDraw
<1>7. HandedInv'
  BY <1>1, <1>2, <1>3 DEF HandedInv, SameDraw
<1> QED
  BY <1>5, <1>6, <1>7

\* Every step keeps lanes apart.
LEMMA LanesKept == ~Solo /\ LaneInv /\ [Next]_vars => LaneInv'
<1> SUFFICES ASSUME ~Solo, LaneInv, [Next]_vars PROVE LaneInv'
  OBVIOUS
<1>1. TypeOK' /\ BlobInv'
  BY TypesKept, BlobKept DEF LaneInv
<1>2. CASE UNCHANGED <<blobOf, template, down, active, handed>>
  BY <1>1, <1>2 DEF LaneInv, DrawnInv, Drawn, Sent, HasTemplate, CopyInv, HandedInv, SameDraw
<1>3. ASSUME NEW w \in Workers, HandleNeedPoolState(w) \/ HandleShare(w) PROVE LaneInv'
  BY <1>1, <1>3, MasterLanes DEF LaneInv
<1>4. ASSUME NEW w \in Workers, ApplyTemplate(w) \/ HandOut(w) \/ Respawn(w) PROVE LaneInv'
  BY <1>1, <1>4, ApplyLanes, HandOutLanes, RespawnLanes DEF LaneInv
<1>5. CASE PoolDown
  <2>1. TypeOK /\ BlobInv /\ DrawnInv /\ CopyInv /\ HandedInv /\ UNCHANGED <<blobOf, down, active, handed>>
    BY <1>5 DEF LaneInv, PoolDown
  <2>2. ~HasTemplate'
    BY <1>5 DEF PoolDown, HasTemplate, NoMasterTemplate
  <2> QED
    BY <1>1, <2>1, <2>2 DEF LaneInv, DrawnInv, Drawn, Sent, CopyInv, HandedInv, SameDraw
<1>6. CASE PoolJob
  BY <1>1, <1>6, PoolJobLanes DEF LaneInv
<1>7. ASSUME NEW j \in DOMAIN jobs, NEW nonce \in Nonces, SubmitShare(j, nonce) PROVE LaneInv'
  BY <1>2, <1>7 DEF SubmitShare
<1>8. CASE UNCHANGED vars
  BY <1>2, <1>8 DEF vars
<1> QED
  BY <1>3, <1>4, <1>5, <1>6, <1>7, <1>8 DEF Next

-----------------------------------------------------------------------------
(* Credits.                                                                 *)

\* A job is for a lane that was handed out and for which there is no other; what is
\* credited was credited once, and the job for its lane, if there is one, remembers.
CreditInv ==
    /\ \A j \in DOMAIN jobs : j.lane \in DOMAIN handed
    /\ \A j, k \in DOMAIN jobs : j.lane = k.lane => j = k
    /\ \A work \in DOMAIN credited :
          /\ credited[work] = 1
          /\ work.lane \in DOMAIN handed
          /\ \A j \in DOMAIN jobs : j.lane = work.lane => work.nonce \in jobs[j]

\* getJob: a new lane has no job and no credit.
LEMMA HandOutCredits ==
    ASSUME NEW w \in Workers
    PROVE  LaneInv /\ CreditInv /\ HandOut(w) => CreditInv'
<1> SUFFICES ASSUME LaneInv, CreditInv, HandOut(w) PROVE CreditInv'
  OBVIOUS
<1> DEFINE new == NextLane(w)
           job == [worker |-> w, templateID |-> active[w].id,
                   extraNonce |-> active[w].workerNonce + 1, lane |-> new]
<1>1. new \notin DOMAIN handed /\ DOMAIN handed' = DOMAIN handed \cup {new}
  BY HandOutLanes, HandOutFacts DEF LaneInv
<1>2. /\ jobs' = [j \in DOMAIN jobs \cup {job} |-> IF j = job THEN {} ELSE jobs[j]]
      /\ credited' = credited
  BY DEF HandOut, NextLane
<1>3. job.lane = new
  OBVIOUS
<1> HIDE DEF job, new
<1>4. job \notin DOMAIN jobs
  BY <1>1, <1>3 DEF CreditInv
<1>5. DOMAIN jobs' = DOMAIN jobs \cup {job} /\ \A j \in DOMAIN jobs : jobs'[j] = jobs[j]
  BY <1>2, <1>4
<1>6. \A j \in DOMAIN jobs' : j.lane \in DOMAIN handed'
  BY <1>1, <1>3, <1>5 DEF CreditInv
<1>7. ASSUME NEW j \in DOMAIN jobs', NEW k \in DOMAIN jobs', j.lane = k.lane PROVE j = k
  BY <1>1, <1>3, <1>5, <1>7 DEF CreditInv
<1>8. ASSUME NEW work \in DOMAIN credited'
      PROVE  /\ credited'[work] = 1 /\ work.lane \in DOMAIN handed'
             /\ \A j \in DOMAIN jobs' : j.lane = work.lane => work.nonce \in jobs'[j]
  <2>1. credited[work] = 1 /\ work.lane \in DOMAIN handed /\ work \in DOMAIN credited
    BY <1>2, <1>8 DEF CreditInv
  <2>2. work.lane # new
    BY <1>1, <2>1
  <2> QED
    BY <1>1, <1>2, <1>3, <1>5, <2>1, <2>2 DEF CreditInv
<1> QED
  BY <1>6, <1>7, <1>8 DEF CreditInv

\* acceptNonce: what is credited was not credited before.
LEMMA SubmitCredits ==
    ASSUME NEW j \in DOMAIN jobs, NEW nonce \in Nonces
    PROVE  CreditInv /\ SubmitShare(j, nonce) => CreditInv'
<1> SUFFICES ASSUME CreditInv, SubmitShare(j, nonce) PROVE CreditInv'
  OBVIOUS
<1> DEFINE new == [lane |-> j.lane, nonce |-> nonce]
<1>1. /\ nonce \notin jobs[j] /\ jobs' = [jobs EXCEPT ![j] = @ \cup {nonce}]
      /\ credited' = credited (+) SetToBag({new})
      /\ handed' = handed
  BY DEF SubmitShare, AcceptNonce
<1>2. new.lane = j.lane /\ new.nonce = nonce
  OBVIOUS
<1> HIDE DEF new
<1>3. new \notin DOMAIN credited
  BY <1>1, <1>2 DEF CreditInv
<1>4. credited' = [e \in DOMAIN credited \cup {new} |->
                     (IF e \in DOMAIN credited THEN credited[e] ELSE 0) + (IF e \in {new} THEN 1 ELSE 0)]
  BY <1>1 DEF (+), SetToBag
<1>5. \A e \in DOMAIN credited : credited'[e] = credited[e] + 0
  BY <1>3, <1>4
<1>6. DOMAIN credited' = DOMAIN credited \cup {new} /\ credited'[new] = 0 + 1
  BY <1>3, <1>4
<1>7. DOMAIN jobs' = DOMAIN jobs /\ \A k \in DOMAIN jobs : jobs[k] \subseteq jobs'[k]
  BY <1>1
<1>8. nonce \in jobs'[j]
  BY <1>1
<1>9. ASSUME NEW work \in DOMAIN credited'
      PROVE  /\ credited'[work] = 1 /\ work.lane \in DOMAIN handed'
             /\ \A k \in DOMAIN jobs' : k.lane = work.lane => work.nonce \in jobs'[k]
  <2>1. CASE work = new
    <3>1. \A k \in DOMAIN jobs' : k.lane = work.lane => k = j
      BY <1>2, <1>7, <2>1 DEF CreditInv
    <3> QED
      BY <1>1, <1>2, <1>6, <1>8, <2>1, <3>1 DEF CreditInv
  <2>2. CASE work \in DOMAIN credited
    <3>1. /\ credited[work] = 1 /\ work.lane \in DOMAIN handed
          /\ \A k \in DOMAIN jobs : k.lane = work.lane => work.nonce \in jobs[k]
      BY <2>2 DEF CreditInv
    <3>2. credited'[work] = 1
      BY <1>5, <2>2, <3>1
    <3>3. \A k \in DOMAIN jobs' : k.lane = work.lane => work.nonce \in jobs'[k]
      BY <1>7, <3>1
    <3> QED
      BY <1>1, <3>1, <3>2, <3>3
  <2> QED
    BY <1>6, <1>9, <2>1, <2>2
<1> QED
  BY <1>1, <1>7, <1>9 DEF CreditInv

\* Every step keeps the credits.
LEMMA CreditsKept == LaneInv /\ CreditInv /\ [Next]_vars => CreditInv'
<1> SUFFICES ASSUME LaneInv, CreditInv, [Next]_vars PROVE CreditInv'
  OBVIOUS
<1>1. CASE UNCHANGED <<jobs, handed, credited>>
  BY <1>1 DEF CreditInv
<1>2. ASSUME NEW w \in Workers, Respawn(w) PROVE CreditInv'
  <2>1. DOMAIN jobs' \subseteq DOMAIN jobs /\ \A j \in DOMAIN jobs' : jobs'[j] = jobs[j]
    BY <1>2 DEF Respawn
  <2>2. UNCHANGED <<handed, credited>>
    BY <1>2 DEF Respawn
  <2> QED
    BY <2>1, <2>2 DEF CreditInv
<1>3. ASSUME NEW w \in Workers, HandleNeedPoolState(w) \/ HandleShare(w) \/ ApplyTemplate(w) PROVE CreditInv'
  BY <1>1, <1>3 DEF HandleNeedPoolState, HandleShare, ApplyTemplate
<1>4. CASE PoolJob \/ PoolDown \/ UNCHANGED vars
  BY <1>1, <1>4 DEF PoolJob, PoolDown, vars
<1> QED
  BY <1>2, <1>3, <1>4, HandOutCredits, SubmitCredits DEF Next

-----------------------------------------------------------------------------
(* What a share is mapped back to.                                          *)

\* A template's id stands for one draw: so f says.
Names(f, id, x) == id \in DOMAIN f /\ SameDraw(f[id], x)

\* The worker's copies of templates, and the jobs made of them, carry the id of their
\* draw.
WorkerAgrees(f) ==
    /\ \A w \in Workers : \A i \in DOMAIN down[w] : Names(f, down[w][i].id, down[w][i])
    /\ \A w \in Workers : active[w] # NoTemplate => Names(f, active[w].id, active[w])
    /\ \A w \in Workers : \A i \in DOMAIN past[w] : Names(f, past[w][i].id, past[w][i])
    /\ \A j \in DOMAIN jobs : Names(f, j.templateID, j.lane) /\ j.extraNonce = j.lane.workerNonce

\* What the master remembers of a template it sent names the upstream's job.
MasterAgrees(f) ==
    \A w \in Workers : \A i \in DOMAIN workerJobs[w] :
        /\ workerJobs[w][i].masterJobID \in DOMAIN blobOf
        /\ Names(f, workerJobs[w][i].id,
                 [blob |-> blobOf[workerJobs[w][i].masterJobID], poolNonce |-> workerJobs[w][i].poolNonce])

\* A share on its way names the work it was made for, which is what was verified.
ShareAgrees(f, share) ==
    share.type = "shareFind" =>
        /\ Names(f, share.btID, share.lane)
        /\ share.workerNonce = share.lane.workerNonce
        /\ share.prepared = share.lane

SharesAgree(f) == \A w \in Workers : \A i \in DOMAIN up[w] : ShareAgrees(f, up[w][i])

\* So does a share that was sent upstream.
SubmittedInv ==
    \A s \in submitted :
        /\ s.job_id \in DOMAIN blobOf
        /\ s.lane = [blob |-> blobOf[s.job_id], poolNonce |-> s.poolNonce, workerNonce |-> s.workerNonce]

Agree(f) == DOMAIN f = 1..issued /\ WorkerAgrees(f) /\ MasterAgrees(f) /\ SharesAgree(f)

IdentityInv == TypeOK /\ BlobInv /\ SubmittedInv /\ \E f : Agree(f)

\* Draws that were made before stay what they were.
LEMMA NamesStay ==
    ASSUME NEW f, NEW g, DOMAIN f \subseteq DOMAIN g, \A id \in DOMAIN f : g[id] = f[id]
    PROVE  \A id, x : Names(f, id, x) => Names(g, id, x)
BY DEF Names

\* blobForWorker and getMasterJob: each new id stands for its own draw.
LEMMA SendAgrees ==
    ASSUME TypeOK, NEW f, Agree(f),
           NEW S, NEW rank, Ranked(S, rank), NEW t \in MasterTemplate, SendTemplates(S, rank, t),
           \A i \in DOMAIN blobOf : i \in DOMAIN blobOf' /\ blobOf'[i] = blobOf[i],
           t.job \in DOMAIN blobOf' /\ blobOf'[t.job] = t.blob,
           UNCHANGED <<active, past, jobs>>,
           \A w \in Workers : \A i \in DOMAIN up'[w] : \E k \in DOMAIN up[w] : up'[w][i] = up[w][k]
    PROVE  \E g : Agree(g)'
<1> DEFINE n == Cardinality(S)
           draw(id) == [blob |-> t.blob, poolNonce |-> PoolNonce(t, id - issued)]
           extended == [id \in 1..(issued + n) |-> IF id \in 1..issued THEN f[id] ELSE draw(id)]
<1>1. /\ n \in Nat /\ issued \in Nat /\ issued' = issued + n
      /\ \A w \in Workers : \A i \in DOMAIN down'[w] :
            \/ i \in DOMAIN down[w] /\ down'[w][i] = down[w][i]
            \/ w \in S /\ i = Len(down[w]) + 1 /\ down'[w][i] = NewTemplate(w, rank, t)
      /\ \A w \in Workers : \A i \in DOMAIN workerJobs'[w] :
            \/ \E k \in DOMAIN workerJobs[w] : workerJobs'[w][i] = workerJobs[w][k]
            \/ w \in S /\ workerJobs'[w][i] = LocalData(t, rank[w], issued + rank[w])
  BY SendFacts DEF TypeOK
<1>2. DOMAIN f = 1..issued /\ WorkerAgrees(f) /\ MasterAgrees(f) /\ SharesAgree(f)
  BY DEF Agree
<1> PICK g : g = extended
  OBVIOUS
<1>3. DOMAIN g = 1..issued' /\ DOMAIN f \subseteq DOMAIN g /\ \A id \in DOMAIN f : g[id] = f[id]
  <2> HIDE DEF n, draw
  <2> QED
    BY <1>1, <1>2
<1>4. \A w \in S : /\ issued + rank[w] \in DOMAIN g
                   /\ g[issued + rank[w]] = [blob |-> t.blob, poolNonce |-> PoolNonce(t, rank[w])]
  <2> SUFFICES ASSUME NEW w \in S
               PROVE  /\ issued + rank[w] \in DOMAIN g
                      /\ g[issued + rank[w]] = [blob |-> t.blob, poolNonce |-> PoolNonce(t, rank[w])]
    OBVIOUS
  <2>1. rank[w] \in 1..n
    BY DEF Ranked
  <2>2. issued + rank[w] \in 1..(issued + n) /\ issued + rank[w] \notin 1..issued /\ (issued + rank[w]) - issued = rank[w]
    <3> HIDE DEF n
    <3> QED
      BY <1>1, <2>1
  <2> QED
    BY <2>2
<1> HIDE DEF extended, draw, n
<1>5. \A id, x : Names(f, id, x) => Names(g, id, x)
  BY <1>3, NamesStay
<1>6. WorkerAgrees(g)'
  <2>1. ASSUME NEW w \in Workers, NEW i \in DOMAIN down'[w] PROVE Names(g, down'[w][i].id, down'[w][i])
    <3>1. CASE i \in DOMAIN down[w] /\ down'[w][i] = down[w][i]
      BY <1>2, <1>5, <3>1 DEF WorkerAgrees
    <3>2. CASE w \in S /\ down'[w][i] = NewTemplate(w, rank, t)
      <4>1. /\ down'[w][i].id = issued + rank[w]
            /\ down'[w][i].blob = t.blob
            /\ down'[w][i].poolNonce = PoolNonce(t, rank[w])
        BY <3>2 DEF NewTemplate
      <4>2. /\ issued + rank[w] \in DOMAIN g
            /\ g[issued + rank[w]].blob = t.blob
            /\ g[issued + rank[w]].poolNonce = PoolNonce(t, rank[w])
        <5>1. w \in S
          BY <3>2
        <5>2. /\ issued + rank[w] \in DOMAIN g
              /\ g[issued + rank[w]] = [blob |-> t.blob, poolNonce |-> PoolNonce(t, rank[w])]
          BY <1>4, <5>1
        <5> QED
          BY <5>2
      <4> QED
        BY <4>1, <4>2 DEF Names, SameDraw
    <3> QED
      BY <1>1, <3>1, <3>2
  <2>2. /\ \A w \in Workers : active'[w] # NoTemplate => Names(g, active'[w].id, active'[w])
        /\ \A w \in Workers : \A i \in DOMAIN past'[w] : Names(g, past'[w][i].id, past'[w][i])
        /\ \A j \in DOMAIN jobs' : Names(g, j.templateID, j.lane) /\ j.extraNonce = j.lane.workerNonce
    BY <1>2, <1>5 DEF WorkerAgrees
  <2> QED
    BY <2>1, <2>2 DEF WorkerAgrees, Names, SameDraw
<1>7. MasterAgrees(g)'
  <2>1. ASSUME NEW w \in Workers, NEW i \in DOMAIN workerJobs'[w]
        PROVE  /\ workerJobs'[w][i].masterJobID \in DOMAIN blobOf'
               /\ Names(g, workerJobs'[w][i].id,
                        [blob |-> blobOf'[workerJobs'[w][i].masterJobID], poolNonce |-> workerJobs'[w][i].poolNonce])
    <3>1. CASE \E k \in DOMAIN workerJobs[w] : workerJobs'[w][i] = workerJobs[w][k]
      <4> PICK k \in DOMAIN workerJobs[w] : workerJobs'[w][i] = workerJobs[w][k]
        BY <3>1
      <4> DEFINE master == workerJobs[w][k].masterJobID
      <4>1. /\ master \in DOMAIN blobOf
            /\ Names(g, workerJobs[w][k].id, [blob |-> blobOf[master], poolNonce |-> workerJobs[w][k].poolNonce])
        BY <1>2, <1>5 DEF MasterAgrees
      <4>2. master \in DOMAIN blobOf' /\ blobOf'[master] = blobOf[master]
        BY <4>1
      <4> QED
        BY <4>1, <4>2
    <3>2. CASE w \in S /\ workerJobs'[w][i] = LocalData(t, rank[w], issued + rank[w])
      <4>1. /\ workerJobs'[w][i].masterJobID = t.job
            /\ workerJobs'[w][i].id = issued + rank[w]
            /\ workerJobs'[w][i].poolNonce = PoolNonce(t, rank[w])
        BY <3>2 DEF LocalData
      <4> QED
        BY <1>4, <3>2, <4>1 DEF Names, SameDraw
    <3> QED
      BY <1>1, <3>1, <3>2
  <2> QED
    BY <2>1 DEF MasterAgrees, Names, SameDraw
<1>8. SharesAgree(g)'
  <2>1. \A w \in Workers : \A i \in DOMAIN up'[w] : ShareAgrees(f, up'[w][i])
    BY <1>2 DEF SharesAgree
  <2>2. \A share : ShareAgrees(f, share) => ShareAgrees(g, share)
    BY <1>5 DEF ShareAgrees
  <2> QED
    BY <2>1, <2>2 DEF SharesAgree, ShareAgrees, Names, SameDraw
<1> QED
  BY <1>3, <1>6, <1>7, <1>8 DEF Agree

\* The messages that are left are some of those there were.
LEMMA TailMessages ==
    ASSUME TypeOK, NEW w \in Workers, up[w] # <<>>, up' = [up EXCEPT ![w] = Tail(@)]
    PROVE  /\ 1 \in DOMAIN up[w] /\ Head(up[w]) = up[w][1]
           /\ Head(up[w]) \in ShareFind \cup {NeedPoolState}
           /\ \A v \in Workers : \A i \in DOMAIN up'[v] : \E k \in DOMAIN up[v] : up'[v][i] = up[v][k]
<1> DEFINE Message == ShareFind \cup {NeedPoolState}
<1>1. up \in [Workers -> Seq(Message)]
  BY DEF TypeOK
<1> HIDE DEF Message
<1>2. /\ 1 \in DOMAIN up[w] /\ Head(up[w]) = up[w][1] /\ Head(up[w]) \in Message
      /\ \A i \in DOMAIN Tail(up[w]) : i + 1 \in DOMAIN up[w] /\ Tail(up[w])[i] = up[w][i + 1]
  BY <1>1, TailTypes
<1>3. \A v \in Workers : up'[v] = IF v = w THEN Tail(up[w]) ELSE up[v]
  BY <1>1
<1>4. ASSUME NEW v \in Workers, NEW i \in DOMAIN up'[v] PROVE \E k \in DOMAIN up[v] : up'[v][i] = up[v][k]
  BY <1>2, <1>3
<1> QED
  BY <1>2, <1>4 DEF Message

\* The master's steps keep the ids.
LEMMA MasterIdentity ==
    IdentityInv /\ (PoolJob \/ PoolDown \/ \E w \in Workers : HandleNeedPoolState(w))
        => SubmittedInv' /\ \E g : Agree(g)'
<1> SUFFICES ASSUME IdentityInv, PoolJob \/ PoolDown \/ \E w \in Workers : HandleNeedPoolState(w)
             PROVE  SubmittedInv' /\ \E g : Agree(g)'
  OBVIOUS
<1>1. TypeOK /\ BlobInv /\ SubmittedInv /\ UNCHANGED <<active, past, jobs, submitted>> /\ blobOf \in Seq(Nat)
  BY DEF IdentityInv, PoolJob, PoolDown, HandleNeedPoolState, TypeOK
<1> PICK f : Agree(f)
  BY DEF IdentityInv
<1>2. \A i \in DOMAIN blobOf : i \in DOMAIN blobOf' /\ blobOf'[i] = blobOf[i]
  <2>1. CASE PoolJob
    <3> PICK blob \in Nat : blobOf' = Append(blobOf, blob)
      BY <1>1, <2>1, PoolJobCases
    <3> QED
      BY <1>1, BlobAppended
  <2>2. CASE ~PoolJob
    BY <2>2 DEF PoolDown, HandleNeedPoolState
  <2> QED
    BY <2>1, <2>2
<1>3. SubmittedInv'
  <2>1. submitted' = submitted
    BY <1>1
  <2> QED
    BY <1>1, <1>2, <2>1 DEF SubmittedInv
<1>4. ASSUME UNCHANGED <<issued, workerJobs, down>>,
             \A v \in Workers : \A i \in DOMAIN up'[v] : \E k \in DOMAIN up[v] : up'[v][i] = up[v][k]
      PROVE  Agree(f)'
  <2>1. DOMAIN f = 1..issued /\ WorkerAgrees(f) /\ MasterAgrees(f) /\ SharesAgree(f)
    BY DEF Agree
  <2>2. WorkerAgrees(f)'
    BY <1>1, <1>4, <2>1 DEF WorkerAgrees, Names, SameDraw
  <2>3. MasterAgrees(f)'
    <3> SUFFICES ASSUME NEW v \in Workers, NEW i \in DOMAIN workerJobs[v]
                 PROVE  /\ workerJobs[v][i].masterJobID \in DOMAIN blobOf'
                        /\ Names(f, workerJobs[v][i].id, [blob |-> blobOf'[workerJobs[v][i].masterJobID],
                                                          poolNonce |-> workerJobs[v][i].poolNonce])
      BY <1>4 DEF MasterAgrees, Names, SameDraw
    <3>1. /\ workerJobs[v][i].masterJobID \in DOMAIN blobOf
          /\ Names(f, workerJobs[v][i].id, [blob |-> blobOf[workerJobs[v][i].masterJobID],
                                            poolNonce |-> workerJobs[v][i].poolNonce])
      BY <2>1 DEF MasterAgrees
    <3> QED
      BY <1>2, <3>1
  <2>4. SharesAgree(f)'
    BY <1>4, <2>1 DEF SharesAgree, ShareAgrees, Names, SameDraw
  <2> QED
    BY <1>4, <2>1, <2>2, <2>3, <2>4 DEF Agree
<1>5. CASE PoolJob
  <2> PICK blob \in Nat :
         /\ blobOf' = Append(blobOf, blob)
         /\ \/ UNCHANGED <<template, issued, workerJobs, down>>
            \/ \E rank : /\ Ranked(Workers, rank)
                         /\ SendTemplates(Workers, rank,
                                [job |-> Len(blobOf) + 1, blob |-> blob, poolNonce |-> 0])
    BY <1>1, <1>5, PoolJobCases
  <2>1. up' = up
    BY <1>5 DEF PoolJob
  <2>2. CASE UNCHANGED <<template, issued, workerJobs, down>>
    BY <1>3, <1>4, <2>1, <2>2
  <2>3. ASSUME NEW rank, Ranked(Workers, rank),
               SendTemplates(Workers, rank, [job |-> Len(blobOf) + 1, blob |-> blob, poolNonce |-> 0])
        PROVE  \E g : Agree(g)'
    <3> PICK t : t = [job |-> Len(blobOf) + 1, blob |-> blob, poolNonce |-> 0]
      OBVIOUS
    <3>1. t \in MasterTemplate /\ t.job = Len(blobOf) + 1 /\ t.blob = blob /\ SendTemplates(Workers, rank, t)
      BY <1>1, <2>3, JobTemplateType
    <3>2. t.job \in DOMAIN blobOf' /\ blobOf'[t.job] = t.blob
      BY <1>1, <3>1, BlobAppended
    <3> QED
      BY <1>1, <1>2, <2>1, <2>3, <3>1, <3>2, SendAgrees
  <2> QED
    BY <1>3, <2>2, <2>3
<1>6. CASE PoolDown
  BY <1>3, <1>4, <1>6 DEF PoolDown
<1>7. ASSUME NEW w \in Workers, HandleNeedPoolState(w) PROVE SubmittedInv' /\ \E g : Agree(g)'
  <2>1. \A v \in Workers : \A i \in DOMAIN up'[v] : \E k \in DOMAIN up[v] : up'[v][i] = up[v][k]
    BY <1>1, <1>7, TailMessages DEF HandleNeedPoolState
  <2>2. CASE ~HasTemplate
    BY <1>3, <1>4, <1>7, <2>1, <2>2 DEF HandleNeedPoolState
  <2>3. CASE HasTemplate
    <3>1. SendTemplates({w}, [x \in {w} |-> 1], template) /\ UNCHANGED blobOf
      BY <1>7, <2>3 DEF HandleNeedPoolState
    <3>2. template \in MasterTemplate /\ template.job \in DOMAIN blobOf' /\ blobOf'[template.job] = template.blob
      BY <1>1, <2>3, <3>1 DEF TypeOK, BlobInv
    <3>3. Ranked({w}, [x \in {w} |-> 1])
      BY RankedOne
    <3> PICK t : t = template
      OBVIOUS
    <3> QED
      BY <1>1, <1>2, <1>3, <2>1, <3>1, <3>2, <3>3, SendAgrees
  <2> QED
    BY <2>2, <2>3
<1> QED
  BY <1>5, <1>6, <1>7

\* setNewBlockTemplate only moves templates.
LEMMA ApplyIdentity ==
    ASSUME NEW w \in Workers
    PROVE  IdentityInv /\ ApplyTemplate(w) => SubmittedInv' /\ \E g : Agree(g)'
<1> SUFFICES ASSUME IdentityInv, ApplyTemplate(w) PROVE SubmittedInv' /\ \E g : Agree(g)'
  OBVIOUS
<1> PICK f : Agree(f)
  BY DEF IdentityInv
<1> DEFINE Template == WorkerTemplate \ {NoTemplate}
<1>1. /\ TypeOK /\ SubmittedInv
      /\ DOMAIN f = 1..issued /\ WorkerAgrees(f) /\ MasterAgrees(f) /\ SharesAgree(f)
  BY DEF IdentityInv, Agree
<1>2. /\ down[w] # <<>> /\ active' = [active EXCEPT ![w] = Head(down[w])] /\ down' = [down EXCEPT ![w] = Tail(@)]
      /\ past' = IF active[w] = NoTemplate THEN past
                 ELSE [past EXCEPT ![w] = Enq(@, PastLimit, active[w])]
      /\ UNCHANGED <<blobOf, issued, workerJobs, up, jobs, submitted>>
  BY DEF ApplyTemplate
<1>3. /\ down \in [Workers -> Seq(Template)] /\ past \in [Workers -> Seq(Template)]
      /\ active \in [Workers -> WorkerTemplate]
  BY <1>1 DEF TypeOK
<1> HIDE DEF Template
<1>4. /\ Head(down[w]) = down[w][1] /\ 1 \in DOMAIN down[w]
      /\ \A i \in DOMAIN Tail(down[w]) : i + 1 \in DOMAIN down[w] /\ Tail(down[w])[i] = down[w][i + 1]
  BY <1>2, <1>3, TailTypes
<1>5. ASSUME NEW v \in Workers, NEW i \in DOMAIN down'[v] PROVE Names(f, down'[v][i].id, down'[v][i])
  <2>1. \E k \in DOMAIN down[v] : down'[v][i] = down[v][k]
    BY <1>2, <1>3, <1>4
  <2> QED
    BY <1>1, <2>1 DEF WorkerAgrees
<1>6. ASSUME NEW v \in Workers, active'[v] # NoTemplate PROVE Names(f, active'[v].id, active'[v])
  <2>1. \/ active'[v] = active[v]
        \/ active'[v] = down[v][1] /\ 1 \in DOMAIN down[v]
    BY <1>2, <1>3, <1>4
  <2> QED
    BY <1>1, <1>6, <2>1 DEF WorkerAgrees
<1>7. ASSUME NEW v \in Workers, NEW i \in DOMAIN past'[v] PROVE Names(f, past'[v][i].id, past'[v][i])
  <2>1. CASE past'[v] = past[v]
    BY <1>1, <2>1 DEF WorkerAgrees
  <2>2. CASE past'[v] # past[v]
    <3>1. v = w /\ active[w] # NoTemplate /\ past'[v] = Enq(past[w], PastLimit, active[w])
      BY <1>2, <1>3, <2>2
    <3>2. past[w] \in Seq(Template) /\ active[w] \in Template /\ PastLimit \in Nat \ {0}
      BY <1>3, <3>1, LaneAssumption DEF Template
    <3>3. \/ past'[v][i] = active[w]
          \/ \E k \in DOMAIN past[w] : past'[v][i] = past[w][k]
      BY <3>1, <3>2, EnqEntries
    <3> QED
      BY <1>1, <3>1, <3>3 DEF WorkerAgrees
  <2> QED
    BY <2>1, <2>2
<1>8. WorkerAgrees(f)'
  <2>1. \A j \in DOMAIN jobs' : Names(f, j.templateID, j.lane) /\ j.extraNonce = j.lane.workerNonce
    BY <1>1, <1>2 DEF WorkerAgrees
  <2> QED
    BY <1>5, <1>6, <1>7, <2>1 DEF WorkerAgrees, Names, SameDraw
<1>9. SubmittedInv' /\ MasterAgrees(f)' /\ SharesAgree(f)' /\ issued' = issued
  BY <1>1, <1>2 DEF SubmittedInv, MasterAgrees, SharesAgree, ShareAgrees, Names, SameDraw
<1> QED
  BY <1>1, <1>8, <1>9 DEF Agree

\* getJob makes a job of the active template's draw.
LEMMA HandOutIdentity ==
    ASSUME NEW w \in Workers
    PROVE  IdentityInv /\ HandOut(w) => SubmittedInv' /\ \E g : Agree(g)'
<1> SUFFICES ASSUME IdentityInv, HandOut(w) PROVE SubmittedInv' /\ \E g : Agree(g)'
  OBVIOUS
<1> PICK f : Agree(f)
  BY DEF IdentityInv
<1> DEFINE job == [worker |-> w, templateID |-> active[w].id,
                   extraNonce |-> active[w].workerNonce + 1, lane |-> NextLane(w)]
<1>1. /\ TypeOK /\ SubmittedInv
      /\ DOMAIN f = 1..issued /\ WorkerAgrees(f) /\ MasterAgrees(f) /\ SharesAgree(f)
  BY DEF IdentityInv, Agree
<1>2. /\ DOMAIN jobs' = DOMAIN jobs \cup {job}
      /\ UNCHANGED <<blobOf, issued, workerJobs, down, up, past, submitted>>
  BY DEF HandOut, NextLane
<1>3. job.templateID = active[w].id /\ job.lane = NextLane(w) /\ job.extraNonce = active[w].workerNonce + 1
  OBVIOUS
<1> HIDE DEF job
<1>4. /\ active[w] # NoTemplate
      /\ SameDraw(NextLane(w), active[w]) /\ NextLane(w).workerNonce = active[w].workerNonce + 1
      /\ SameDraw(active'[w], active[w]) /\ active'[w].id = active[w].id
      /\ \A v \in Workers : v # w => active'[v] = active[v]
  BY <1>1, HandOutFacts
<1>5. Names(f, active[w].id, active[w])
  BY <1>1, <1>4 DEF WorkerAgrees
<1>6. ASSUME NEW v \in Workers, active'[v] # NoTemplate PROVE Names(f, active'[v].id, active'[v])
  <2>1. CASE v = w
    BY <1>4, <1>5, <2>1 DEF Names, SameDraw
  <2>2. CASE v # w
    BY <1>1, <1>4, <1>6, <2>2 DEF WorkerAgrees
  <2> QED
    BY <2>1, <2>2
<1>7. Names(f, job.templateID, job.lane) /\ job.extraNonce = job.lane.workerNonce
  BY <1>3, <1>4, <1>5 DEF Names, SameDraw
<1>8. WorkerAgrees(f)'
  <2>1. \A j \in DOMAIN jobs' : Names(f, j.templateID, j.lane) /\ j.extraNonce = j.lane.workerNonce
    BY <1>1, <1>2, <1>7 DEF WorkerAgrees
  <2>2. /\ \A v \in Workers : \A i \in DOMAIN down'[v] : Names(f, down'[v][i].id, down'[v][i])
        /\ \A v \in Workers : \A i \in DOMAIN past'[v] : Names(f, past'[v][i].id, past'[v][i])
    BY <1>1, <1>2 DEF WorkerAgrees
  <2> QED
    BY <1>6, <2>1, <2>2 DEF WorkerAgrees, Names, SameDraw
<1>9. SubmittedInv' /\ MasterAgrees(f)' /\ SharesAgree(f)' /\ issued' = issued
  BY <1>1, <1>2 DEF SubmittedInv, MasterAgrees, SharesAgree, ShareAgrees, Names, SameDraw
<1> QED
  BY <1>1, <1>8, <1>9 DEF Agree

\* handleShareMessage maps a share back to the job its template was made of.
LEMMA ShareIdentity ==
    ASSUME NEW w \in Workers
    PROVE  IdentityInv /\ HandleShare(w) => SubmittedInv' /\ \E g : Agree(g)'
<1> SUFFICES ASSUME IdentityInv, HandleShare(w) PROVE SubmittedInv' /\ \E g : Agree(g)'
  OBVIOUS
<1> PICK f : Agree(f)
  BY DEF IdentityInv
<1> PICK share : share = Head(up[w])
  OBVIOUS
<1>1. /\ TypeOK /\ DOMAIN f = 1..issued /\ WorkerAgrees(f) /\ MasterAgrees(f) /\ SharesAgree(f)
  BY DEF IdentityInv, Agree
<1>2. /\ up[w] # <<>> /\ share.type = "shareFind"
      /\ submitted' = {Mapped(j, share) : j \in JobsOf(w, share)}
      /\ up' = [up EXCEPT ![w] = Tail(@)]
      /\ UNCHANGED <<blobOf, issued, workerJobs, down, active, past, jobs>>
  BY DEF HandleShare
<1>3. /\ 1 \in DOMAIN up[w] /\ share = up[w][1] /\ share \in ShareFind \cup {NeedPoolState}
      /\ \A v \in Workers : \A i \in DOMAIN up'[v] : \E k \in DOMAIN up[v] : up'[v][i] = up[v][k]
  BY <1>1, <1>2, TailMessages
<1>4. share.lane \in Lane /\ Names(f, share.btID, share.lane) /\ share.workerNonce = share.lane.workerNonce
  <2>1. share \in ShareFind
    BY <1>2, <1>3 DEF NeedPoolState
  <2> QED
    BY <1>1, <1>2, <1>3, <2>1 DEF ShareFind, SharesAgree, ShareAgrees
<1>5. SubmittedInv'
  <2> SUFFICES ASSUME NEW s \in submitted'
               PROVE  /\ s.job_id \in DOMAIN blobOf'
                      /\ s.lane = [blob |-> blobOf'[s.job_id], poolNonce |-> s.poolNonce,
                                   workerNonce |-> s.workerNonce]
    BY DEF SubmittedInv
  <2> PICK k \in DOMAIN workerJobs[w] : s = Mapped(workerJobs[w][k], share) /\ workerJobs[w][k].id = share.btID
    BY <1>2 DEF JobsOf
  <2> DEFINE master == workerJobs[w][k].masterJobID
             nonce == workerJobs[w][k].poolNonce
  <2>1. /\ s.job_id = master /\ s.poolNonce = nonce
        /\ s.workerNonce = share.workerNonce /\ s.lane = share.lane
    BY DEF Mapped
  <2>2. /\ master \in DOMAIN blobOf
        /\ Names(f, share.btID, [blob |-> blobOf[master], poolNonce |-> nonce])
    BY <1>1 DEF MasterAgrees
  <2> HIDE DEF master, nonce
  <2>3. share.lane.blob = blobOf[master] /\ share.lane.poolNonce = nonce
    BY <1>4, <2>2 DEF Names, SameDraw
  <2>4. share.lane = [blob |-> blobOf[master], poolNonce |-> nonce, workerNonce |-> share.workerNonce]
    BY <1>4, <2>3 DEF Lane
  <2> QED
    BY <1>2, <2>1, <2>2, <2>4
<1>6. WorkerAgrees(f)' /\ MasterAgrees(f)' /\ issued' = issued
  BY <1>1, <1>2 DEF WorkerAgrees, MasterAgrees, Names, SameDraw
<1>7. SharesAgree(f)'
  BY <1>1, <1>3 DEF SharesAgree, ShareAgrees, Names, SameDraw
<1> QED
  BY <1>1, <1>5, <1>6, <1>7 DEF Agree

\* prepareTemplate writes the job's nonce into a copy of the template the job was made of.
LEMMA SubmitIdentity ==
    ASSUME NEW j \in DOMAIN jobs, NEW nonce \in Nonces
    PROVE  IdentityInv /\ SubmitShare(j, nonce) => SubmittedInv' /\ \E g : Agree(g)'
<1> SUFFICES ASSUME IdentityInv, SubmitShare(j, nonce) PROVE SubmittedInv' /\ \E g : Agree(g)'
  OBVIOUS
<1> PICK f : Agree(f)
  BY DEF IdentityInv
<1>1. /\ TypeOK /\ SubmittedInv
      /\ DOMAIN f = 1..issued /\ WorkerAgrees(f) /\ MasterAgrees(f) /\ SharesAgree(f)
  BY DEF IdentityInv, Agree
<1> DEFINE w == j.worker
           message(t) == [type |-> "shareFind", btID |-> t.id, workerNonce |-> j.extraNonce,
                          nonce |-> nonce, lane |-> j.lane, prepared |-> Prepared(t, j.extraNonce)]
<1>2. PICK t \in Known(w) : t.id = j.templateID /\ up' = [up EXCEPT ![w] = Append(@, message(t))]
  BY DEF SubmitShare
<1>3. DOMAIN jobs' = DOMAIN jobs /\ UNCHANGED <<blobOf, issued, workerJobs, down, active, past, submitted>>
  BY DEF SubmitShare, AcceptNonce
<1>4. w \in Workers /\ j.lane \in Lane /\ issued \in Nat
  BY <1>1 DEF TypeOK, MinerJob
<1>5. Names(f, t.id, j.lane) /\ j.extraNonce = j.lane.workerNonce
  BY <1>1, <1>2 DEF WorkerAgrees
<1>6. Names(f, t.id, t)
  <2>1. t.id # 0
    BY <1>1, <1>4, <1>5 DEF Names
  <2>2. t # NoTemplate
    BY <2>1 DEF NoTemplate
  <2>3. t = active[w] \/ \E i \in DOMAIN past[w] : t = past[w][i]
    BY <1>2 DEF Known
  <2> QED
    BY <1>1, <1>4, <2>2, <2>3 DEF WorkerAgrees
<1>7. Prepared(t, j.extraNonce) = j.lane
  <2>1. t.blob = j.lane.blob /\ t.poolNonce = j.lane.poolNonce
    BY <1>5, <1>6 DEF Names, SameDraw
  <2> QED
    BY <1>4, <1>5, <2>1 DEF Prepared, LaneOf, Lane
<1>8. ShareAgrees(f, message(t))
  BY <1>5, <1>7 DEF ShareAgrees
<1> HIDE DEF w, message
<1>9. ASSUME NEW v \in Workers, NEW i \in DOMAIN up'[v] PROVE ShareAgrees(f, up'[v][i])
  <2> DEFINE Message == ShareFind \cup {NeedPoolState}
  <2>1. up \in [Workers -> Seq(Message)]
    BY <1>1 DEF TypeOK
  <2> HIDE DEF Message
  <2>2. up'[v] = IF v = w THEN Append(up[w], message(t)) ELSE up[v]
    BY <1>2, <1>4, <2>1
  <2>3. up[w] \in Seq(Message)
    BY <1>4, <2>1
  <2>4. \/ i \in DOMAIN up[v] /\ up'[v][i] = up[v][i]
        \/ up'[v][i] = message(t)
    BY <2>2, <2>3
  <2> QED
    BY <1>1, <1>8, <2>4 DEF SharesAgree
<1>10. SharesAgree(f)'
  BY <1>9 DEF SharesAgree, ShareAgrees, Names, SameDraw
<1>11. SubmittedInv' /\ WorkerAgrees(f)' /\ MasterAgrees(f)' /\ issued' = issued
  BY <1>1, <1>3 DEF SubmittedInv, WorkerAgrees, MasterAgrees, Names, SameDraw
<1> QED
  BY <1>1, <1>10, <1>11 DEF Agree

\* A new worker knows nothing.
LEMMA RespawnIdentity ==
    ASSUME NEW w \in Workers
    PROVE  IdentityInv /\ Respawn(w) => SubmittedInv' /\ \E g : Agree(g)'
<1> SUFFICES ASSUME IdentityInv, Respawn(w) PROVE SubmittedInv' /\ \E g : Agree(g)'
  OBVIOUS
<1> PICK f : Agree(f)
  BY DEF IdentityInv
<1>1. /\ TypeOK /\ SubmittedInv
      /\ DOMAIN f = 1..issued /\ WorkerAgrees(f) /\ MasterAgrees(f) /\ SharesAgree(f)
  BY DEF IdentityInv, Agree
<1>2. /\ workerJobs' = [workerJobs EXCEPT ![w] = <<>>] /\ down' = [down EXCEPT ![w] = <<>>]
      /\ up' = [up EXCEPT ![w] = <<NeedPoolState>>] /\ active' = [active EXCEPT ![w] = NoTemplate]
      /\ past' = [past EXCEPT ![w] = <<>>] /\ DOMAIN jobs' \subseteq DOMAIN jobs
      /\ UNCHANGED <<blobOf, issued, submitted>>
  BY DEF Respawn
<1>3. /\ DOMAIN workerJobs = Workers /\ DOMAIN down = Workers /\ DOMAIN up = Workers
      /\ DOMAIN active = Workers /\ DOMAIN past = Workers
  BY <1>1 DEF TypeOK
<1>4. ASSUME NEW v \in Workers
      PROVE  /\ workerJobs'[v] = workerJobs[v] \/ workerJobs'[v] = <<>>
             /\ down'[v] = down[v] \/ down'[v] = <<>>
             /\ up'[v] = up[v] \/ up'[v] = <<NeedPoolState>>
             /\ active'[v] = active[v] \/ active'[v] = NoTemplate
             /\ past'[v] = past[v] \/ past'[v] = <<>>
  BY <1>2, <1>3
<1>5. DOMAIN << >> = {}
  OBVIOUS
<1>6. WorkerAgrees(f)'
  <2>1. \A v \in Workers : \A i \in DOMAIN down'[v] : Names(f, down'[v][i].id, down'[v][i])
    BY <1>1, <1>4, <1>5 DEF WorkerAgrees
  <2>2. \A v \in Workers : active'[v] # NoTemplate => Names(f, active'[v].id, active'[v])
    BY <1>1, <1>4 DEF WorkerAgrees
  <2>3. \A v \in Workers : \A i \in DOMAIN past'[v] : Names(f, past'[v][i].id, past'[v][i])
    BY <1>1, <1>4, <1>5 DEF WorkerAgrees
  <2>4. \A j \in DOMAIN jobs' : Names(f, j.templateID, j.lane) /\ j.extraNonce = j.lane.workerNonce
    BY <1>1, <1>2 DEF WorkerAgrees
  <2> QED
    BY <2>1, <2>2, <2>3, <2>4 DEF WorkerAgrees, Names, SameDraw
<1>7. MasterAgrees(f)'
  BY <1>1, <1>2, <1>4, <1>5 DEF MasterAgrees, Names, SameDraw
<1>8. SharesAgree(f)'
  <2>1. DOMAIN <<NeedPoolState>> = {1} /\ <<NeedPoolState>>[1] = NeedPoolState
    OBVIOUS
  <2>2. ShareAgrees(f, NeedPoolState)
    BY DEF ShareAgrees, NeedPoolState
  <2>3. \A v \in Workers : \A i \in DOMAIN up'[v] : ShareAgrees(f, up'[v][i])
    BY <1>1, <1>4, <2>1, <2>2 DEF SharesAgree
  <2> QED
    BY <2>3 DEF SharesAgree, ShareAgrees, Names, SameDraw
<1> QED
  BY <1>1, <1>2, <1>6, <1>7, <1>8 DEF Agree, SubmittedInv

\* Every step keeps the ids.
LEMMA IdentityKept == IdentityInv /\ [Next]_vars => IdentityInv'
<1> SUFFICES ASSUME IdentityInv, [Next]_vars PROVE IdentityInv'
  OBVIOUS
<1>1. TypeOK' /\ BlobInv'
  BY TypesKept, BlobKept DEF IdentityInv
<1>2. CASE UNCHANGED vars
  <2> PICK f : Agree(f)
    BY DEF IdentityInv
  <2>1. DOMAIN f = 1..issued /\ WorkerAgrees(f) /\ MasterAgrees(f) /\ SharesAgree(f) /\ SubmittedInv
    BY DEF IdentityInv, Agree
  <2>2. WorkerAgrees(f)'
    BY <1>2, <2>1 DEF WorkerAgrees, Names, SameDraw, vars
  <2>3. MasterAgrees(f)' /\ SharesAgree(f)'
    BY <1>2, <2>1 DEF MasterAgrees, SharesAgree, ShareAgrees, Names, SameDraw, vars
  <2>4. SubmittedInv' /\ issued' = issued
    BY <1>2, <2>1 DEF SubmittedInv, vars
  <2>5. Agree(f)'
    BY <2>1, <2>2, <2>3, <2>4 DEF Agree
  <2> QED
    BY <1>1, <2>4, <2>5 DEF IdentityInv
<1>3. CASE Next
  <2>1. SubmittedInv' /\ \E g : Agree(g)'
    BY <1>3, MasterIdentity, ShareIdentity, ApplyIdentity, HandOutIdentity, RespawnIdentity, SubmitIdentity
       DEF Next
  <2> QED
    BY <1>1, <2>1 DEF IdentityInv
<1> QED
  BY <1>2, <1>3

-----------------------------------------------------------------------------
(* The theorems.                                                            *)

\* A proxy that has just started has drawn nothing and knows nothing.
LEMMA InitInvariants == Init => LaneInv /\ CreditInv /\ IdentityInv
<1> SUFFICES ASSUME Init PROVE LaneInv /\ CreditInv /\ IdentityInv
  OBVIOUS
<1>1. TypeOK /\ BlobInv
  BY InitTypes
<1>2. /\ issued = 0 /\ submitted = {}
      /\ workerJobs = [w \in Workers |-> <<>>] /\ down = [w \in Workers |-> <<>>]
      /\ up = [w \in Workers |-> <<NeedPoolState>>] /\ active = [w \in Workers |-> NoTemplate]
      /\ past = [w \in Workers |-> <<>>] /\ DOMAIN jobs = {} /\ DOMAIN handed = {} /\ DOMAIN credited = {}
  BY DEF Init, EmptyBag, SetToBag
<1>3. \A w \in Workers : /\ DOMAIN workerJobs[w] = {} /\ DOMAIN down[w] = {} /\ DOMAIN past[w] = {}
                         /\ active[w] = NoTemplate
                         /\ \A i \in DOMAIN up[w] : up[w][i] = NeedPoolState
  BY <1>2
<1>4. LaneInv /\ CreditInv
  BY <1>1, <1>2, <1>3 DEF LaneInv, DrawnInv, CopyInv, HandedInv, CreditInv
<1>5. \E f : Agree(f)
  <2> PICK f : f = [id \in 1..issued |-> 0]
    OBVIOUS
  <2>1. DOMAIN f = 1..issued
    OBVIOUS
  <2>2. WorkerAgrees(f) /\ MasterAgrees(f)
    BY <1>2, <1>3 DEF WorkerAgrees, MasterAgrees
  <2>3. SharesAgree(f)
    BY <1>3 DEF SharesAgree, ShareAgrees, NeedPoolState
  <2> QED
    BY <2>1, <2>2, <2>3 DEF Agree
<1> QED
  BY <1>1, <1>2, <1>4, <1>5 DEF IdentityInv, SubmittedInv

\* The ids agree in every reachable state, whether the upstream's jobs have room for a
\* worker nonce or not.
LEMMA IdentityInvariant == Spec => []IdentityInv
<1>1. Init => IdentityInv
  BY InitInvariants
<1>2. IdentityInv /\ [Next]_vars => IdentityInv'
  BY IdentityKept
<1> QED
  BY <1>1, <1>2, PTL DEF Spec

\* With room for worker nonces, lanes and credits are counted once in every reachable state.
LEMMA LaneInvariant == ~Solo => (Spec => [](LaneInv /\ CreditInv))
<1> SUFFICES ASSUME ~Solo PROVE Spec => [](LaneInv /\ CreditInv)
  OBVIOUS
<1>1. Init => LaneInv /\ CreditInv
  BY InitInvariants
<1>2. LaneInv /\ CreditInv /\ [Next]_vars => LaneInv' /\ CreditInv'
  BY LanesKept, CreditsKept
<1> QED
  BY <1>1, <1>2, PTL DEF Spec

\* The master, the workers, their queues and the miners' jobs hold what they should
\* (coins/template.js, proxy/master.js, proxy/worker.js).
THEOREM TypeCorrect == Spec => []TypeOK
<1>1. IdentityInv => TypeOK
  BY DEF IdentityInv
<1> QED
  BY <1>1, IdentityInvariant, PTL

\* If the upstream's jobs have room for a worker nonce, no work is handed out twice
\* (blobForWorker and nextBlob), whatever the number of workers, pools' outages,
\* repeated jobs and respawned workers.
THEOREM DistinctWorkHolds == ~Solo => (Spec => []DistinctWork)
<1>1. LaneInv /\ CreditInv => DistinctWork
  BY DEF LaneInv, HandedInv, DistinctWork, BagToSet
<1> QED
  BY <1>1, LaneInvariant, PTL

\* Nor is any credited or forwarded twice (acceptNonce, with nextBlob).
THEOREM CountedOnceHolds == ~Solo => (Spec => []CountedOnce)
<1>1. LaneInv /\ CreditInv => CountedOnce
  BY DEF CreditInv, CountedOnce, BagToSet
<1> QED
  BY <1>1, LaneInvariant, PTL

\* What is submitted upstream and what the worker verified is the work the miner did
\* (handleShareMessage, workerJobs and prepareTemplate), whatever the window's sizes.
THEOREM ShareReconstructedHolds == Spec => []ShareReconstructed
<1>1. IdentityInv => ShareReconstructed
  BY DEF IdentityInv, SubmittedInv, Agree, SharesAgree, ShareAgrees, ShareReconstructed
<1> QED
  BY <1>1, IdentityInvariant, PTL

=============================================================================
