------------------------ MODULE MinerSessionsProofs -------------------------
(***************************************************************************)
(* Proofs about MinerSessions for every set of sockets, miners and ports:  *)
(* the type invariant, that a session that lives is kept, and that the     *)
(* master ends up counting no session the worker no longer has.            *)
(***************************************************************************)
EXTENDS MinerSessions, FiniteSetTheorems, TLAPS

-----------------------------------------------------------------------------
(* The messages of one handler.                                             *)

\* SetToSeq lists every element of a finite set once.
LEMMA SetToSeqLists ==
    ASSUME NEW S, IsFiniteSet(S)
    PROVE  /\ Cardinality(S) \in Nat
           /\ SetToSeq(S) \in [1..Cardinality(S) -> S]
           /\ \A i, j \in 1..Cardinality(S) : SetToSeq(S)[i] = SetToSeq(S)[j] => i = j
           /\ \A x \in S : \E i \in 1..Cardinality(S) : SetToSeq(S)[i] = x
<1> DEFINE n == Cardinality(S)
           list == SetToSeq(S)
<1>1. n \in Nat /\ ExistsBijection(1..n, S)
  BY FS_CardinalityType
<1>2. \E f \in [1..n -> S] : IsInjective(f)
  BY <1>1 DEF ExistsBijection, Bijection, Injection
<1>3. list \in [1..n -> S] /\ IsInjective(list)
  BY <1>2 DEF SetToSeq
<1> HIDE DEF list
<1>4. list \in Injection(1..n, S)
  BY <1>3 DEF Injection
<1>5. Cardinality(1..n) = n
  BY <1>1, FS_Interval
<1>6. list \in Surjection(1..n, S)
  <2> HIDE DEF n
  <2>1. Cardinality(1..n) = Cardinality(S)
    BY <1>5 DEF n
  <2> QED
    BY <1>4, <2>1, FS_Injection
<1> QED
  BY <1>1, <1>3, <1>6 DEF IsInjective, Surjection, list

\* A handler's reports are about the sessions it reports, each once.
LEMMA ReportAllFacts ==
    ASSUME NEW S \in SUBSET Sessions, IsFiniteSet(S)
    PROVE  /\ ReportAll(S) \in Seq(Reports)
           /\ \A i \in 1..Len(ReportAll(S)) : ReportAll(S)[i].id \in S
<1> PICK n, list : n = Cardinality(S) /\ list = SetToSeq(S)
  OBVIOUS
<1> DEFINE msg(i) == [id |-> list[i], data |-> IF Online(list[i]) THEN "online" ELSE "offline"]
<1>1. n \in Nat /\ list \in [1..n -> S]
  BY SetToSeqLists
<1>2. \A i \in 1..n : msg(i) \in Reports /\ msg(i).id \in S
  BY <1>1 DEF Reports
<1>3. ReportAll(S) = [i \in 1..n |-> msg(i)]
  BY DEF ReportAll
<1> HIDE DEF msg
<1>4. [i \in 1..n |-> msg(i)] \in Seq(Reports) /\ Len([i \in 1..n |-> msg(i)]) = n
  BY <1>1, <1>2
<1> QED
  BY <1>2, <1>3, <1>4

LEMMA RemoveAllFacts ==
    ASSUME NEW S \in SUBSET Sessions, IsFiniteSet(S)
    PROVE  /\ RemoveAll(S) \in Seq(Reports)
           /\ \A i \in 1..Len(RemoveAll(S)) : RemoveAll(S)[i].id \in S
           /\ \A id \in S : \E i \in 1..Len(RemoveAll(S)) :
                 /\ RemoveAll(S)[i] = RemovalOf(id)
                 /\ \A j \in 1..Len(RemoveAll(S)) : i < j => RemoveAll(S)[j].id # id
<1> PICK n, list : n = Cardinality(S) /\ list = SetToSeq(S)
  OBVIOUS
<1> DEFINE msg(i) == RemovalOf(list[i])
<1>1. /\ n \in Nat /\ list \in [1..n -> S]
      /\ \A i, j \in 1..n : list[i] = list[j] => i = j
      /\ \A x \in S : \E i \in 1..n : list[i] = x
  BY SetToSeqLists
<1>2. \A i \in 1..n : msg(i) \in Reports /\ msg(i).id = list[i] /\ msg(i).id \in S
  BY <1>1 DEF Reports, RemovalOf
<1>3. RemoveAll(S) = [i \in 1..n |-> msg(i)]
  BY DEF RemoveAll
<1>4. ASSUME NEW id \in S
      PROVE  \E i \in 1..n : msg(i) = RemovalOf(id) /\ \A j \in 1..n : i < j => msg(j).id # id
  <2> PICK i \in 1..n : list[i] = id
    BY <1>1
  <2>1. \A j \in 1..n : i < j => msg(j).id # id
    BY <1>1, <1>2
  <2> QED
    BY <2>1
<1> HIDE DEF msg
<1>5. [i \in 1..n |-> msg(i)] \in Seq(Reports) /\ Len([i \in 1..n |-> msg(i)]) = n
  BY <1>1, <1>2
<1>6. RemoveAll(S) \in Seq(Reports) /\ Len(RemoveAll(S)) = n /\ \A i \in 1..n : RemoveAll(S)[i] = msg(i)
  BY <1>3, <1>5
<1> QED
  BY <1>2, <1>4, <1>6

-----------------------------------------------------------------------------
(* The type invariant.                                                      *)

LEMMA SessionsFinite ==
    ASSUME NEW n \in Nat
    PROVE  \A S \in SUBSET (Sockets \X (1..n)) : IsFiniteSet(S)
<1>1. IsFiniteSet(1..n)
  BY FS_Interval
<1>2. IsFiniteSet(Sockets \X (1..n))
  BY <1>1, SessionBounds, FS_Product
<1> QED
  BY <1>2, FS_Subset

LEMMA PastFinite == \A S \in SUBSET Sessions : IsFiniteSet(S)
BY SessionsFinite, SessionBounds DEF Sessions

\* The bound on logins is a bound on those of each socket.
LEMMA RegisterBound ==
    ASSUME TypeOK, NEW S \in SUBSET Sockets, NEW s \in S,
           NEW new, new = {<<r, logins[r] + 1>> : r \in S},
           Cardinality(Past \cup new) <= MaxSessions
    PROVE  logins[s] + 1 <= MaxSessions
<1> PICK k : k = logins[s] + 1
  OBVIOUS
<1> PICK all : all = Past \cup new
  OBVIOUS
<1>1. MaxSessions \in Nat /\ \A r \in Sockets : logins[r] \in 0..MaxSessions
  BY SessionBounds DEF TypeOK
<1>2. k \in Nat /\ s \in Sockets
  BY <1>1
<1>3. IsFiniteSet(all)
  <2>1. all \subseteq Sockets \X (1..(MaxSessions + 1))
    BY <1>1 DEF Past, Sessions
  <2> QED
    BY <1>1, <2>1, SessionsFinite
<1> PICK f : f = [i \in 1..k |-> <<s, i>>]
  OBVIOUS
<1>4. \A i \in 1..k : <<s, i>> \in all
  <2> SUFFICES ASSUME NEW i \in 1..k, i # k PROVE <<s, i>> \in Past
    OBVIOUS
  <2>1. i \in 1..MaxSessions /\ i <= logins[s]
    BY <1>1, <1>2
  <2> QED
    BY <1>2, <2>1 DEF Past, Sessions
<1>5. f \in Injection(1..k, all)
  BY <1>4 DEF Injection, IsInjective
<1>6. Cardinality(1..k) <= Cardinality(all)
  BY <1>3, <1>5, FS_Injection
<1>7. Cardinality(1..k) = k
  BY <1>2, FS_Interval
<1>8. Cardinality(all) \in Nat
  BY <1>3, FS_CardinalityType
<1> QED
  BY <1>1, <1>2, <1>6, <1>7, <1>8

\* What registerMiner is called with in this state, and what it leaves: the new sessions
\* are new, and the messages are the removals of the duplicates and the first reports.
NewSessions(S) == {<<s, logins[s] + 1>> : s \in S}

LEMMA RegisterFacts ==
    ASSUME TypeOK, NEW S \in SUBSET Sockets, Register(S)
    PROVE  /\ NewSessions(S) \subseteq Sessions
           /\ NewSessions(S) \cap Past = {}
           /\ Duplicates(S) \subseteq active
           /\ active' = (active \ Duplicates(S)) \cup NewSessions(S)
           /\ up' = up \o (RemoveAll(Duplicates(S)) \o ReportAll(NewSessions(S)))
           /\ logins' \in [Sockets -> 0..MaxSessions]
           /\ active' \subseteq Past'
<1> PICK new : new = NewSessions(S)
  OBVIOUS
<1>1. /\ Cardinality(Past \cup new) <= MaxSessions
      /\ logins' = [s \in Sockets |-> IF s \in S THEN logins[s] + 1 ELSE logins[s]]
      /\ active' = (active \ Duplicates(S)) \cup new
      /\ up' = up \o (RemoveAll(Duplicates(S)) \o ReportAll(new))
  BY DEF Register, Send, NewSessions
<1>2. MaxSessions \in Nat /\ logins \in [Sockets -> 0..MaxSessions] /\ active \subseteq Past
  BY SessionBounds DEF TypeOK
<1>3. \A s \in S : logins[s] + 1 \in 1..MaxSessions
  <2> SUFFICES ASSUME NEW s \in S PROVE logins[s] + 1 \in 1..MaxSessions
    OBVIOUS
  <2>1. logins[s] + 1 <= MaxSessions
    BY <1>1, RegisterBound DEF NewSessions
  <2> QED
    BY <1>2, <2>1
<1>4. new \subseteq Sessions
  BY <1>3 DEF NewSessions, Sessions
<1>5. new \cap Past = {}
  BY <1>2 DEF NewSessions, Past
<1>6. Duplicates(S) \subseteq active
  BY DEF Duplicates
<1>7. logins' \in [Sockets -> 0..MaxSessions]
  BY <1>1, <1>2, <1>3
<1>8. active' \subseteq Past'
  <2> SUFFICES ASSUME NEW id \in active' PROVE id \in Sessions /\ id[2] <= logins'[id[1]]
    BY DEF Past, Sessions
  <2>1. CASE id \in new
    <3> PICK s \in S : id = <<s, logins[s] + 1>>
      BY <2>1 DEF NewSessions
    <3>1. logins'[s] = logins[s] + 1
      BY <1>1
    <3> QED
      BY <1>2, <1>4, <2>1, <3>1
  <2>2. CASE id \notin new
    <3>1. id \in Sessions /\ id[2] <= logins[id[1]]
      BY <1>1, <1>2, <2>2 DEF Past
    <3>2. id[1] \in Sockets /\ id[2] \in 1..MaxSessions
      BY <3>1 DEF Sessions
    <3>3. logins'[id[1]] = logins[id[1]] \/ logins'[id[1]] = logins[id[1]] + 1
      BY <1>1, <3>2
    <3> QED
      BY <1>2, <3>1, <3>2, <3>3
  <2> QED
    BY <2>1, <2>2
<1> QED
  BY <1>1, <1>4, <1>5, <1>6, <1>7, <1>8

LEMMA RegisterTypes ==
    ASSUME TypeOK, NEW S \in SUBSET Sockets, Register(S)
    PROVE  up' \in Seq(Reports)
<1>1. /\ NewSessions(S) \in SUBSET Sessions /\ Duplicates(S) \in SUBSET Sessions
      /\ up' = up \o (RemoveAll(Duplicates(S)) \o ReportAll(NewSessions(S)))
      /\ up \in Seq(Reports)
  BY RegisterFacts DEF TypeOK, Past
<1>2. RemoveAll(Duplicates(S)) \in Seq(Reports) /\ ReportAll(NewSessions(S)) \in Seq(Reports)
  BY <1>1, PastFinite, RemoveAllFacts, ReportAllFacts
<1> QED
  BY <1>1, <1>2

\* The reports of active sessions are well-typed.
LEMMA ActiveReports ==
    ASSUME TypeOK
    PROVE  /\ up \in Seq(Reports)
           /\ active \subseteq Sessions
           /\ \A S \in SUBSET active : ReportAll(S) \in Seq(Reports) /\ up \o ReportAll(S) \in Seq(Reports)
           /\ \A id \in active : RemovalOf(id) \in Reports /\ up \o <<RemovalOf(id)>> \in Seq(Reports)
<1>1. up \in Seq(Reports) /\ active \subseteq Sessions
  BY DEF TypeOK, Past
<1>2. ASSUME NEW S \in SUBSET active PROVE ReportAll(S) \in Seq(Reports)
  BY <1>1, PastFinite, ReportAllFacts
<1>3. ASSUME NEW id \in active PROVE RemovalOf(id) \in Reports
  BY <1>1 DEF RemovalOf, Reports
<1>4. \A S \in SUBSET active : up \o ReportAll(S) \in Seq(Reports)
  BY <1>1, <1>2
<1>5. \A id \in active : up \o <<RemovalOf(id)>> \in Seq(Reports)
  BY <1>1, <1>3
<1> QED
  BY <1>1, <1>2, <1>3, <1>4, <1>5

LEMMA SessionTypesStep ==
    ASSUME TypeOK, [Next]_vars
    PROVE  TypeOK'
<1> USE DEF TypeOK, settings, sessionVars
<1>1. ASSUME NEW s \in Sockets, Connect(s) PROVE TypeOK'
  BY <1>1 DEF Connect, ConnStates, Past
<1>2. ASSUME NEW s \in Sockets, LoginWaits(s) PROVE TypeOK'
  BY <1>2 DEF LoginWaits, MayLogIn, Past
<1>3. ASSUME NEW s \in Sockets, LoginAccepted(s) PROVE TypeOK'
  <2>1. Register({s}) /\ UNCHANGED <<keepOffline, identity, conn, port, pending, work, stats, stopAt>>
    BY <1>3 DEF LoginAccepted
  <2>2. up' \in Seq(Reports) /\ logins' \in [Sockets -> 0..MaxSessions] /\ active' \subseteq Past'
    BY <2>1, RegisterFacts, RegisterTypes
  <2> QED
    BY <2>1, <2>2
<1>4. ASSUME NEW s \in Sockets, PendingTimeout(s) PROVE TypeOK'
  BY <1>4 DEF PendingTimeout, Past
<1>5. ASSUME NEW s \in Sockets, Drop(s) PROVE TypeOK'
  BY <1>5 DEF Drop, ConnStates, Past
<1>6. ASSUME NEW s \in Sockets, Closed(s) PROVE TypeOK'
  <2>1. up' \in Seq(Reports) /\ active' \subseteq active
    BY <1>6, ActiveReports DEF Closed, Send
  <2>2. /\ UNCHANGED <<keepOffline, identity, port, logins, work, stats, stopAt>>
        /\ conn' = [conn EXCEPT ![s] = "closed"] /\ pending' = pending \ {s}
    BY <1>6 DEF Closed
  <2> QED
    BY <2>1, <2>2 DEF ConnStates, Past
<1>7. ASSUME NEW offer \in Offers, TemplateApplied(offer) PROVE TypeOK'
  <2>1. UNCHANGED <<keepOffline, identity, conn, port, stats, stopAt>> /\ work' = offer
    BY <1>7 DEF TemplateApplied
  <2>2. CASE UNCHANGED <<logins, pending, active, up>>
    BY <2>1, <2>2 DEF Past
  <2>3. CASE pending' = {} /\ \E accepted \in SUBSET {s \in pending : conn[s] = "open"} : Register(accepted)
    <3> PICK accepted \in SUBSET {s \in pending : conn[s] = "open"} : Register(accepted)
      BY <2>3
    <3>1. accepted \in SUBSET Sockets
      OBVIOUS
    <3>2. up' \in Seq(Reports) /\ logins' \in [Sockets -> 0..MaxSessions] /\ active' \subseteq Past'
      BY <3>1, RegisterFacts, RegisterTypes
    <3> QED
      BY <2>1, <2>3, <3>2
  <2> QED
    BY <1>7, <2>2, <2>3 DEF TemplateApplied
<1>8. ASSUME NEW offer \in Offers, PoolFlagsChanged(offer) PROVE TypeOK'
  BY <1>8 DEF PoolFlagsChanged, Past
<1>9. CASE Stop
  <2>1. stopAt' \in 0..(Ports + 1)
    BY <1>9, PortsAssumption DEF Stop
  <2> QED
    BY <1>9, <2>1 DEF Stop, ConnStates, Past
<1>10. CASE ServerClosed
  <2>1. stopAt' \in 0..(Ports + 1)
    BY <1>10, PortsAssumption DEF ServerClosed
  <2> QED
    BY <1>10, <2>1 DEF ServerClosed, Past
<1>11. ASSUME NEW id \in Sessions, Report(id) PROVE TypeOK'
  <2>1. {id} \in SUBSET active
    BY <1>11 DEF Report
  <2>2. up' \in Seq(Reports)
    BY <1>11, <2>1, ActiveReports DEF Report, Send
  <2> QED
    BY <1>11, <2>2 DEF Report, Past
<1>12. ASSUME NEW id \in Sessions, DropStaleMiner(id) PROVE TypeOK'
  BY <1>12 DEF DropStaleMiner, Past
<1>13. CASE PublishStats
  <2>1. up' \in Seq(Reports)
    BY <1>13, ActiveReports DEF PublishStats, Send
  <2> QED
    BY <1>13, <2>1 DEF PublishStats, Past
<1>14. CASE HandleStatsMessage
  <2>1. Head(up) \in Reports /\ up' \in Seq(Reports)
    BY <1>14 DEF HandleStatsMessage
  <2>2. stats' \in [Sessions -> {"none", "online", "offline"}]
    BY <1>14, <2>1 DEF HandleStatsMessage, Reports
  <2> QED
    BY <1>14, <2>1, <2>2 DEF HandleStatsMessage, Past
<1>15. CASE UNCHANGED vars
  BY <1>15 DEF vars, Past
<1> QED
  BY <1>1, <1>2, <1>3, <1>4, <1>5, <1>6, <1>7, <1>8, <1>9, <1>10, <1>11, <1>12, <1>13, <1>14, <1>15
     DEF Next

\* Every variable keeps its type; a login waits only on a socket that is still there, and
\* the worker's sessions are ones that were accepted.
THEOREM TypeCorrect == Spec => []TypeOK
<1>1. Init => TypeOK
  BY PortsAssumption, SessionBounds DEF Init, TypeOK, ConnStates, Offers, Past
<1>2. TypeOK /\ [Next]_vars => TypeOK'
  BY SessionTypesStep
<1> QED
  BY <1>1, <1>2, PTL DEF Spec

-----------------------------------------------------------------------------
(* A session that lives is kept.                                            *)

\* What takes a session out of activeMiners: a new login of the same miner, the end of its
\* own socket, or stop().
LEMMA SessionLost ==
    ASSUME TypeOK, [Next]_vars, NEW id \in active, id \notin active'
    PROVE  ~Online(id)'
<1>0. active \subseteq Sessions /\ id[1] \in Sockets /\ conn \in [Sockets -> ConnStates]
  BY DEF TypeOK, Past, Sessions
<1>1. ASSUME NEW S \in SUBSET Sockets, Register(S), UNCHANGED conn PROVE ~Online(id)'
  <2>1. id \in Duplicates(S)
    BY <1>1, RegisterFacts
  <2> QED
    BY <1>1, <2>1 DEF Duplicates, Online
<1>2. ASSUME NEW s \in Sockets, LoginAccepted(s) PROVE ~Online(id)'
  BY <1>1, <1>2 DEF LoginAccepted
<1>3. ASSUME NEW s \in Sockets, Closed(s) PROVE ~Online(id)'
  <2>1. conn' = [conn EXCEPT ![s] = "closed"] /\ id = <<s, logins[s]>>
    BY <1>3 DEF Closed
  <2> QED
    BY <1>0, <2>1 DEF Online
<1>4. ASSUME NEW offer \in Offers, TemplateApplied(offer) PROVE ~Online(id)'
  <2>1. UNCHANGED conn /\ \E S \in SUBSET {s \in pending : conn[s] = "open"} : Register(S)
    BY <1>4 DEF TemplateApplied
  <2>2. \A S \in SUBSET {s \in pending : conn[s] = "open"} : S \in SUBSET Sockets
    BY DEF TypeOK
  <2> QED
    BY <1>1, <2>1, <2>2
<1>5. CASE Stop
  <2>1. conn'[id[1]] = IF id[1] \in pending \/ (conn[id[1]] = "open" /\ \E a \in active : a[1] = id[1])
                       THEN "destroyed" ELSE conn[id[1]]
    BY <1>0, <1>5 DEF Stop
  <2> QED
    BY <2>1 DEF Online
<1>6. CASE UNCHANGED active
  BY <1>6
<1> QED
  BY <1>2, <1>3, <1>4, <1>5, <1>6
     DEF Next, Connect, LoginWaits, PendingTimeout, Drop, PoolFlagsChanged, ServerClosed, Report,
         DropStaleMiner, PublishStats, HandleStatsMessage, vars, sessionVars

\* A miner whose connection lives keeps its sessions: neither the login of another miner,
\* nor templates, nor time, nor stop() takes one from activeMiners while its socket is open
\* (miner.js, registerMiner and removeDuplicateOfflineMiners; worker.js, stop).
THEOREM LiveSessionsKeptHolds == Spec => LiveSessionsKept
<1>1. TypeOK /\ [Next]_vars => \A id \in active : (id \notin active') => ~Online(id)'
  BY SessionLost
<1> QED
  BY <1>1, TypeCorrect, PTL DEF Spec, LiveSessionsKept

-----------------------------------------------------------------------------
(* The master counts the worker's sessions.                                 *)
(*                                                                          *)
(* The last word on a session the worker has lost, in the messages on their *)
(* way or else in the statistics, is that it was removed.                   *)

\* u is what the master has yet to handle and stat what it now has of the session.
Settled(u, stat, id) ==
    \/ \E i \in 1..Len(u) : u[i] = RemovalOf(id) /\ \A j \in 1..Len(u) : i < j => u[j].id # id
    \/ stat = "none" /\ \A j \in 1..Len(u) : u[j].id # id

SettledInv == ~Stopping => \A id \in Sessions \ active : Settled(up, stats[id], id)

SessionInv == TypeOK /\ SettledInv

LEMMA MessagesAppended ==
    ASSUME NEW u \in Seq(Reports), NEW e \in Seq(Reports)
    PROVE  /\ Len(u) \in Nat /\ Len(e) \in Nat /\ Len(u \o e) = Len(u) + Len(e)
           /\ \A i \in 1..Len(u) : i \in 1..Len(u \o e) /\ (u \o e)[i] = u[i]
           /\ \A i \in 1..Len(u \o e) :
                  i \notin 1..Len(u) => i - Len(u) \in 1..Len(e) /\ (u \o e)[i] = e[i - Len(u)]
           /\ \A k \in 1..Len(e) : Len(u) + k \in 1..Len(u \o e) /\ (u \o e)[Len(u) + k] = e[k]
OBVIOUS

\* Messages about other sessions.
LEMMA SettledAppend ==
    ASSUME NEW u \in Seq(Reports), NEW e \in Seq(Reports), NEW stat, NEW id,
           Settled(u, stat, id), \A i \in 1..Len(e) : e[i].id # id
    PROVE  Settled(u \o e, stat, id)
<1> PICK c : c = u \o e
  OBVIOUS
<1>1. /\ Len(u) \in Nat /\ Len(c) = Len(u) + Len(e)
      /\ \A i \in 1..Len(u) : i \in 1..Len(c) /\ c[i] = u[i]
      /\ \A i \in 1..Len(c) : i \notin 1..Len(u) => c[i].id # id
  BY MessagesAppended
<1>2. ASSUME NEW i \in 1..Len(u), u[i] = RemovalOf(id), \A j \in 1..Len(u) : i < j => u[j].id # id
      PROVE  Settled(c, stat, id)
  <2>1. i \in 1..Len(c) /\ c[i] = RemovalOf(id)
    BY <1>1, <1>2
  <2>2. ASSUME NEW j \in 1..Len(c), i < j PROVE c[j].id # id
    <3>1. CASE j \in 1..Len(u)
      <4>1. u[j].id # id
        BY <1>2, <2>2, <3>1
      <4> QED
        BY <1>1, <3>1, <4>1
    <3> QED
      BY <1>1, <3>1
  <2> QED
    BY <2>1, <2>2 DEF Settled
<1>3. ASSUME stat = "none", \A j \in 1..Len(u) : u[j].id # id PROVE Settled(c, stat, id)
  <2>1. ASSUME NEW j \in 1..Len(c) PROVE c[j].id # id
    <3>1. CASE j \in 1..Len(u)
      <4>1. u[j].id # id
        BY <1>3, <3>1
      <4> QED
        BY <1>1, <3>1, <4>1
    <3> QED
      BY <1>1, <3>1
  <2> QED
    BY <1>3, <2>1 DEF Settled
<1> QED
  BY <1>2, <1>3 DEF Settled

\* Its removal is sent, and nothing about it after that.
LEMMA SettledRemoval ==
    ASSUME NEW u \in Seq(Reports), NEW e \in Seq(Reports), NEW stat, NEW id, NEW k \in 1..Len(e),
           e[k] = RemovalOf(id), \A j \in 1..Len(e) : k < j => e[j].id # id
    PROVE  Settled(u \o e, stat, id)
<1> PICK c : c = u \o e
  OBVIOUS
<1>1. /\ Len(u) \in Nat /\ Len(e) \in Nat /\ Len(c) = Len(u) + Len(e)
      /\ \A i \in 1..Len(c) : i \notin 1..Len(u) => i - Len(u) \in 1..Len(e) /\ c[i] = e[i - Len(u)]
      /\ Len(u) + k \in 1..Len(c) /\ c[Len(u) + k] = e[k]
  BY MessagesAppended
<1>2. ASSUME NEW j \in 1..Len(c), Len(u) + k < j PROVE c[j].id # id
  <2>1. j - Len(u) \in 1..Len(e) /\ c[j] = e[j - Len(u)] /\ k < j - Len(u)
    BY <1>1, <1>2
  <2> QED
    BY <2>1
<1> QED
  BY <1>1, <1>2 DEF Settled

\* The master handles a message.
LEMMA SettledTail ==
    ASSUME NEW u \in Seq(Reports), u # <<>>, NEW id, NEW stat, NEW new, Settled(u, stat, id),
           new = IF Head(u).id # id THEN stat
                 ELSE IF Head(u).data = "removed" THEN "none" ELSE Head(u).data
    PROVE  Settled(Tail(u), new, id)
<1> PICK c : c = Tail(u)
  OBVIOUS
<1>1. /\ Len(u) \in Nat \ {0} /\ Head(u) = u[1] /\ Len(c) = Len(u) - 1
      /\ \A i \in 1..Len(c) : i + 1 \in 2..Len(u) /\ c[i] = u[i + 1]
      /\ \A i \in 2..Len(u) : i - 1 \in 1..Len(c) /\ c[i - 1] = u[i]
  OBVIOUS
<1>2. ASSUME NEW i \in 1..Len(u), u[i] = RemovalOf(id), \A j \in 1..Len(u) : i < j => u[j].id # id
      PROVE  Settled(c, new, id)
  <2>1. ASSUME NEW j \in 1..Len(c), i < j + 1 PROVE c[j].id # id
    <3>1. j + 1 \in 1..Len(u) /\ c[j] = u[j + 1]
      BY <1>1
    <3>2. u[j + 1].id # id
      BY <1>2, <2>1, <3>1
    <3> QED
      BY <3>1, <3>2
  <2>2. CASE i = 1
    <3>1. new = "none"
      BY <1>1, <1>2, <2>2 DEF RemovalOf
    <3>2. \A j \in 1..Len(c) : c[j].id # id
      BY <2>1, <2>2
    <3> QED
      BY <3>1, <3>2 DEF Settled
  <2>3. CASE i # 1
    <3> PICK k : k = i - 1
      OBVIOUS
    <3>1. k \in 1..Len(c) /\ c[k] = RemovalOf(id)
      BY <1>1, <1>2, <2>3
    <3>2. \A j \in 1..Len(c) : k < j => c[j].id # id
      BY <2>1
    <3> QED
      BY <3>1, <3>2 DEF Settled
  <2> QED
    BY <2>2, <2>3
<1>3. ASSUME stat = "none", \A j \in 1..Len(u) : u[j].id # id PROVE Settled(c, new, id)
  <2>1. new = "none"
    BY <1>1, <1>3
  <2>2. ASSUME NEW j \in 1..Len(c) PROVE c[j].id # id
    <3>1. j + 1 \in 1..Len(u) /\ c[j] = u[j + 1]
      BY <1>1
    <3> QED
      BY <1>3, <3>1
  <2> QED
    BY <2>1, <2>2 DEF Settled
<1> QED
  BY <1>2, <1>3 DEF Settled

\* registerMiner: the duplicates it drops are removed, and the new sessions are reported.
LEMMA SettledRegister ==
    ASSUME SessionInv, ~Stopping, NEW S \in SUBSET Sockets, Register(S), UNCHANGED stats,
           NEW id \in Sessions \ active'
    PROVE  Settled(up', stats'[id], id)
<1> PICK new, gone, removals, reports, e :
        /\ new = NewSessions(S) /\ gone = Duplicates(S)
        /\ removals = RemoveAll(gone) /\ reports = ReportAll(new) /\ e = removals \o reports
  OBVIOUS
<1>1. /\ new \in SUBSET Sessions /\ gone \in SUBSET active /\ gone \in SUBSET Sessions /\ new \cap gone = {}
      /\ active' = (active \ gone) \cup new /\ up' = up \o e /\ up \in Seq(Reports)
  BY RegisterFacts DEF SessionInv, TypeOK, Past
<1>2. /\ removals \in Seq(Reports) /\ reports \in Seq(Reports)
      /\ \A i \in 1..Len(removals) : removals[i].id \in gone
      /\ \A i \in 1..Len(reports) : reports[i].id \in new
  BY <1>1, PastFinite, RemoveAllFacts, ReportAllFacts
<1>3. /\ Len(removals) \in Nat /\ e \in Seq(Reports)
      /\ \A i \in 1..Len(removals) : i \in 1..Len(e) /\ e[i] = removals[i]
      /\ \A i \in 1..Len(e) : i \notin 1..Len(removals) => e[i].id \in new
  BY <1>2, MessagesAppended
<1>4. id \notin new
  BY <1>1
<1>5. CASE id \in gone
  <2> PICK k \in 1..Len(removals) : /\ removals[k] = RemovalOf(id)
                                    /\ \A j \in 1..Len(removals) : k < j => removals[j].id # id
    <3>1. IsFiniteSet(gone) /\ gone \in SUBSET Sessions
      BY <1>1, PastFinite
    <3> QED
      BY <1>5, <3>1, RemoveAllFacts
  <2>1. k \in 1..Len(e) /\ e[k] = RemovalOf(id)
    BY <1>3
  <2>2. ASSUME NEW j \in 1..Len(e), k < j PROVE e[j].id # id
    <3>1. CASE j \in 1..Len(removals)
      <4>1. removals[j].id # id
        BY <2>2, <3>1
      <4> QED
        BY <1>3, <3>1, <4>1
    <3> QED
      BY <1>3, <1>4, <3>1
  <2>3. Settled(up \o e, stats'[id], id)
    <3>1. \A j \in 1..Len(e) : k < j => e[j].id # id
      BY <2>2
    <3>2. up \in Seq(Reports) /\ e \in Seq(Reports)
      BY <1>1, <1>3
    <3> QED
      BY <2>1, <3>1, <3>2, SettledRemoval
  <2> QED
    BY <1>1, <2>3
<1>6. CASE id \notin gone
  <2>1. ASSUME NEW j \in 1..Len(e) PROVE e[j].id # id
    <3>1. CASE j \in 1..Len(removals)
      <4>1. removals[j].id \in gone
        BY <1>2, <3>1
      <4> QED
        BY <1>3, <1>6, <3>1, <4>1
    <3> QED
      BY <1>3, <1>4, <3>1
  <2>2. Settled(up, stats[id], id)
    BY <1>1, <1>6 DEF SessionInv, SettledInv
  <2> QED
    BY <1>1, <1>3, <2>1, <2>2, SettledAppend
<1> QED
  BY <1>5, <1>6

LEMMA SettledStep ==
    ASSUME SessionInv, [Next]_vars
    PROVE  SettledInv'
<1> SUFFICES ASSUME ~Stopping', NEW id \in Sessions \ active'
             PROVE  Settled(up', stats'[id], id)
  BY DEF SettledInv
<1>0. /\ TypeOK /\ TypeOK' /\ up \in Seq(Reports) /\ active \subseteq Sessions
      /\ stats \in [Sessions -> {"none", "online", "offline"}]
      /\ ~Stopping => \A x \in Sessions \ active : Settled(up, stats[x], x)
  BY SessionTypesStep DEF SessionInv, SettledInv, TypeOK, Past
<1>1. ASSUME NEW s \in Sockets, LoginAccepted(s) PROVE Settled(up', stats'[id], id)
  <2>1. Register({s}) /\ ~Stopping /\ UNCHANGED stats
    BY <1>1 DEF LoginAccepted, Stopping
  <2> QED
    BY <2>1, SettledRegister
<1>2. ASSUME NEW offer \in Offers, TemplateApplied(offer), ~UNCHANGED <<active, up>>
      PROVE  Settled(up', stats'[id], id)
  <2>1. /\ ~Stopping /\ UNCHANGED stats
        /\ \E S \in SUBSET {s \in pending : conn[s] = "open"} : Register(S)
    BY <1>2 DEF TemplateApplied, Stopping
  <2>2. \A S \in SUBSET {s \in pending : conn[s] = "open"} : S \in SUBSET Sockets
    BY <1>0 DEF TypeOK
  <2> QED
    BY <2>1, <2>2, SettledRegister
<1>3. ASSUME NEW S \in SUBSET active, UNCHANGED <<active, stats, stopAt>>, Send(ReportAll(S))
      PROVE  Settled(up', stats'[id], id)
  <2>1. S \in SUBSET Sessions /\ id \notin S /\ up' = up \o ReportAll(S)
    BY <1>0, <1>3 DEF Send
  <2>2. ReportAll(S) \in Seq(Reports) /\ \A i \in 1..Len(ReportAll(S)) : ReportAll(S)[i].id # id
    BY <2>1, PastFinite, ReportAllFacts
  <2>3. Settled(up, stats[id], id)
    BY <1>0, <1>3 DEF Stopping
  <2> QED
    BY <1>0, <1>3, <2>1, <2>2, <2>3, SettledAppend
<1>4. ASSUME NEW s \in Sockets, Closed(s), ~UNCHANGED <<active, up>> PROVE Settled(up', stats'[id], id)
  <2> PICK latest : latest = <<s, logins[s]>>
    OBVIOUS
  <2>1. /\ latest \in active /\ active' = active \ {latest} /\ up' = up \o <<RemovalOf(latest)>>
        /\ UNCHANGED <<stats, stopAt>>
    BY <1>4 DEF Closed, Send
  <2> PICK e : e = <<RemovalOf(latest)>>
    OBVIOUS
  <2>2. e \in Seq(Reports) /\ Len(e) = 1 /\ e[1] = RemovalOf(latest) /\ e[1].id = latest
    <3>1. RemovalOf(latest) \in Reports /\ RemovalOf(latest).id = latest
      BY <1>0, <2>1, ActiveReports DEF RemovalOf
    <3> QED
      BY <3>1
  <2>3. CASE id = latest
    <3>1. 1 \in 1..Len(e) /\ \A j \in 1..Len(e) : 1 < j => e[j].id # id
      BY <2>2
    <3> QED
      BY <1>0, <2>1, <2>2, <2>3, <3>1, SettledRemoval
  <2>4. CASE id # latest
    <3>1. Settled(up, stats[id], id)
      BY <1>0, <2>1, <2>4 DEF Stopping
    <3>2. \A j \in 1..Len(e) : e[j].id # id
      BY <2>2, <2>4
    <3> QED
      BY <1>0, <2>1, <2>2, <3>1, <3>2, SettledAppend
  <2> QED
    BY <2>3, <2>4
<1>5. CASE HandleStatsMessage
  <2>1. /\ up # <<>> /\ up' = Tail(up) /\ UNCHANGED <<active, stopAt>>
        /\ stats' = [stats EXCEPT ![Head(up).id] =
                        IF Head(up).data = "removed" THEN "none" ELSE Head(up).data]
    BY <1>5 DEF HandleStatsMessage, sessionVars
  <2>2. stats'[id] = IF Head(up).id # id THEN stats[id]
                     ELSE IF Head(up).data = "removed" THEN "none" ELSE Head(up).data
    BY <1>0, <2>1
  <2>3. Settled(up, stats[id], id)
    BY <1>0, <2>1 DEF Stopping
  <2> QED
    BY <1>0, <2>1, <2>2, <2>3, SettledTail
<1>6. ASSUME NEW x \in Sessions, DropStaleMiner(x) PROVE Settled(up', stats'[id], id)
  <2>1. UNCHANGED <<active, up, stopAt>> /\ (stats'[id] = stats[id] \/ stats'[id] = "none")
    BY <1>0, <1>6 DEF DropStaleMiner, sessionVars
  <2>2. Settled(up, stats[id], id)
    BY <1>0, <2>1 DEF Stopping
  <2> QED
    BY <2>1, <2>2 DEF Settled
<1>7. CASE UNCHANGED <<active, up, stats, stopAt>>
  BY <1>0, <1>7 DEF Stopping
<1>8. CASE Stop
  BY <1>8 DEF Stop, Stopping
<1>9. CASE ServerClosed
  BY <1>0, <1>9, PortsAssumption DEF ServerClosed, Stopping
<1>10. CASE PublishStats
  BY <1>3, <1>10 DEF PublishStats, sessionVars
<1>11. ASSUME NEW x \in Sessions, Report(x) PROVE Settled(up', stats'[id], id)
  BY <1>3, <1>11 DEF Report, sessionVars
<1>12. ASSUME NEW s \in Sockets, Closed(s) PROVE UNCHANGED <<stats, stopAt>>
  BY <1>12 DEF Closed
<1>13. ASSUME NEW offer \in Offers, TemplateApplied(offer) PROVE UNCHANGED <<stats, stopAt>>
  BY <1>13 DEF TemplateApplied
<1> QED
  BY <1>1, <1>2, <1>4, <1>5, <1>6, <1>7, <1>8, <1>9, <1>10, <1>11, <1>12, <1>13
     DEF Next, Connect, LoginWaits, PendingTimeout, Drop, PoolFlagsChanged, vars, sessionVars

\* When the master has handled what the worker sent, it counts no session the worker no
\* longer has: no report overtakes or follows the removal of its session, and no way of
\* losing a session but stop() forgets the removal (miner.js, removeDuplicateOfflineMiners
\* and the close handler; master.js, handleStatsMessage).
THEOREM StatsAreSessionsHolds == Spec => []StatsAreSessions
<1>1. Init => SessionInv
  <2>1. Init => SettledInv
    BY DEF Init, SettledInv, Settled
  <2> QED
    BY <2>1, PortsAssumption, SessionBounds DEF Init, SessionInv, TypeOK, ConnStates, Offers, Past
<1>2. SessionInv /\ [Next]_vars => SessionInv'
  BY SessionTypesStep, SettledStep DEF SessionInv
<1>3. SessionInv => StatsAreSessions
  <2> SUFFICES ASSUME SessionInv, up = <<>>, ~Stopping, NEW id \in Sessions, stats[id] # "none", id \notin active
               PROVE  FALSE
    BY DEF StatsAreSessions
  <2>1. Settled(up, stats[id], id) /\ Len(up) = 0
    BY DEF SessionInv, SettledInv
  <2> QED
    BY <2>1 DEF Settled
<1> QED
  BY <1>1, <1>2, <1>3, PTL DEF Spec

-----------------------------------------------------------------------------
(* What a closed connection leaves behind.                                  *)

\* The close handler takes out the session socket.minerId names, and a closed socket gets
\* no other.
ClosedInv ==
    ~keepOffline /\ ~Stopping =>
        \A s \in Sockets : conn[s] = "closed" => <<s, logins[s]>> \notin active

LEMMA ClosedStep ==
    ASSUME TypeOK, ClosedInv, [Next]_vars
    PROVE  ClosedInv'
<1> SUFFICES ASSUME ~keepOffline', ~Stopping', NEW s \in Sockets, conn'[s] = "closed"
             PROVE  <<s, logins'[s]>> \notin active'
  BY DEF ClosedInv
<1>0. /\ conn \in [Sockets -> ConnStates] /\ pending \subseteq Sockets
      /\ ~keepOffline /\ ~Stopping => \A r \in Sockets : conn[r] = "closed" => <<r, logins[r]>> \notin active
  BY DEF TypeOK, ClosedInv
<1>1. ASSUME NEW S \in SUBSET Sockets, \A r \in S : conn[r] = "open", Register(S),
             UNCHANGED <<keepOffline, conn, stopAt>>
      PROVE  <<s, logins'[s]>> \notin active'
  <2>1. s \notin S
    BY <1>1
  <2>2. logins'[s] = logins[s]
    BY <1>1, <2>1 DEF Register
  <2>3. <<s, logins[s]>> \notin NewSessions(S)
    BY <2>1 DEF NewSessions
  <2>4. <<s, logins[s]>> \notin active
    BY <1>0, <1>1 DEF Stopping
  <2>5. active' = (active \ Duplicates(S)) \cup NewSessions(S)
    BY <1>1, RegisterFacts
  <2> QED
    BY <2>2, <2>3, <2>4, <2>5
<1>2. ASSUME NEW r \in Sockets, LoginAccepted(r) PROVE <<s, logins'[s]>> \notin active'
  BY <1>1, <1>2 DEF LoginAccepted, MayLogIn, settings
<1>3. ASSUME NEW offer \in Offers, TemplateApplied(offer), ~UNCHANGED <<logins, active>>
      PROVE  <<s, logins'[s]>> \notin active'
  <2> PICK S \in SUBSET {r \in pending : conn[r] = "open"} : Register(S)
    BY <1>3 DEF TemplateApplied
  <2>1. S \in SUBSET Sockets /\ \A r \in S : conn[r] = "open"
    BY <1>0
  <2>2. UNCHANGED <<keepOffline, conn, stopAt>>
    BY <1>3 DEF TemplateApplied, settings
  <2> QED
    BY <1>1, <2>1, <2>2
<1>4. ASSUME NEW r \in Sockets, Closed(r) PROVE <<s, logins'[s]>> \notin active'
  <2>1. UNCHANGED <<keepOffline, logins, stopAt>> /\ active' \subseteq active /\ conn' = [conn EXCEPT ![r] = "closed"]
    BY <1>4 DEF Closed, settings
  <2>2. CASE r = s
    BY <1>4, <2>1, <2>2 DEF Closed
  <2>3. CASE r # s
    BY <1>0, <2>1, <2>3 DEF Stopping
  <2> QED
    BY <2>2, <2>3
<1>5. ASSUME UNCHANGED <<keepOffline, logins, active, stopAt>>, conn[s] = "closed"
      PROVE  <<s, logins'[s]>> \notin active'
  BY <1>0, <1>5 DEF Stopping
<1>6. ASSUME NEW r \in Sockets, Connect(r) PROVE <<s, logins'[s]>> \notin active'
  <2>1. conn[s] = "closed"
    BY <1>0, <1>6 DEF Connect
  <2> QED
    BY <1>5, <1>6, <2>1 DEF Connect, settings
<1>7. ASSUME NEW r \in Sockets, Drop(r) PROVE <<s, logins'[s]>> \notin active'
  <2>1. conn[s] = "closed"
    BY <1>0, <1>7 DEF Drop
  <2> QED
    BY <1>5, <1>7, <2>1 DEF Drop, settings
<1>8. CASE Stop
  BY <1>8 DEF Stop, Stopping
<1>9. CASE ServerClosed
  <2>1. Stopping'
    BY <1>9, PortsAssumption DEF ServerClosed, Stopping
  <2> QED
    BY <2>1
<1>10. CASE UNCHANGED <<keepOffline, conn, logins, active, stopAt>>
  BY <1>5, <1>10
<1>11. ASSUME NEW r \in Sockets, LoginWaits(r) \/ PendingTimeout(r) PROVE <<s, logins'[s]>> \notin active'
  BY <1>10, <1>11 DEF LoginWaits, PendingTimeout, settings
<1>12. ASSUME NEW offer \in Offers, TemplateApplied(offer) \/ PoolFlagsChanged(offer)
       PROVE  <<s, logins'[s]>> \notin active'
  BY <1>3, <1>10, <1>12 DEF TemplateApplied, PoolFlagsChanged, settings, sessionVars
<1>13. ASSUME NEW id \in Sessions, Report(id) \/ DropStaleMiner(id) PROVE <<s, logins'[s]>> \notin active'
  BY <1>10, <1>13 DEF Report, DropStaleMiner, settings, sessionVars
<1>14. CASE PublishStats \/ HandleStatsMessage \/ UNCHANGED vars
  BY <1>10, <1>14 DEF PublishStats, HandleStatsMessage, vars, settings, sessionVars
<1> QED
  BY <1>2, <1>4, <1>6, <1>7, <1>8, <1>9, <1>11, <1>12, <1>13, <1>14 DEF Next

\* What remains true of "disconnected miners are removed from master stats immediately",
\* which does not hold of a socket that logged in more than once: the session of its last
\* login is gone from the statistics once the worker's messages are handled.
LastSessionRemoved ==
    up = <<>> /\ ~keepOffline /\ ~Stopping =>
        \A s \in Sockets : conn[s] = "closed" /\ logins[s] > 0 => stats[<<s, logins[s]>>] = "none"

THEOREM LastSessionRemovedHolds == Spec => []LastSessionRemoved
<1>1. Init => ClosedInv
  BY DEF Init, ClosedInv
<1>2. TypeOK /\ ClosedInv /\ [Next]_vars => ClosedInv'
  BY ClosedStep
<1>3. TypeOK /\ ClosedInv /\ StatsAreSessions => LastSessionRemoved
  <2> SUFFICES ASSUME TypeOK, ClosedInv, StatsAreSessions, up = <<>>, ~keepOffline, ~Stopping,
                      NEW s \in Sockets, conn[s] = "closed", logins[s] > 0
               PROVE  stats[<<s, logins[s]>>] = "none"
    BY DEF LastSessionRemoved
  <2>1. logins[s] \in 1..MaxSessions
    BY SessionBounds DEF TypeOK
  <2>2. <<s, logins[s]>> \in Sessions
    BY <2>1 DEF Sessions
  <2>3. <<s, logins[s]>> \notin active
    BY DEF ClosedInv
  <2> QED
    BY <2>2, <2>3 DEF StatsAreSessions
<1> QED
  BY <1>1, <1>2, <1>3, TypeCorrect, StatsAreSessionsHolds, PTL DEF Spec
=============================================================================
