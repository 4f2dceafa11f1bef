---------------------------- MODULE MinerSessions ----------------------------
(***************************************************************************)
(* The miner connections of one worker, from the first login to the        *)
(* master's statistics: logins that wait for work (proxy/miner.js,         *)
(* pendingLogins), the sessions in activeMiners, the reports and removals  *)
(* sent to the master (proxy/worker.js, proxy/master.js), and the worker's *)
(* stop().                                                                 *)
(*                                                                         *)
(* The n-th login accepted on socket s makes the session <<s, n>> (the     *)
(* code draws a random id), and socket.minerId names the last one.  What   *)
(* the worker has to offer a login is the JobPipeline's business: here it  *)
(* is one variable that messages of the master change at will.             *)
(***************************************************************************)
EXTENDS Naturals, FiniteSets, SequencesExt

CONSTANTS
    Sockets,        \* connections, each used once
    Identities,     \* identifier, ip and agent of a miner
    Ports,          \* the number of listening ports
    MaxSessions,    \* bound: logins accepted
    MaxUp           \* bound: reports on their way to the master when more are sent

ASSUME PortsAssumption == Ports \in Nat \ {0}
ASSUME SessionBounds ==
    /\ MaxSessions \in Nat \ {0}
    /\ MaxUp \in Nat \ {0}
    /\ IsFiniteSet(Sockets)

VARIABLES
    keepOffline,  \* config.keepOfflineMiners
    identity,     \* who is at the other end of a socket
    port,         \* the listening port a socket came in by
    conn,         \* what became of a socket
    logins,       \* logins accepted on it
    pending,      \* keys of pendingLogins
    active,       \* keys of activeMiners
    work,         \* what chooseInitialPool offers
    up,           \* worker -> master: reports and removals
    stats,        \* the master's stats of this worker
    stopAt        \* 0, or the port whose server stop() is closing; Ports + 1 at its end

settings == <<keepOffline, identity>>
sessionVars == <<conn, port, logins, pending, active>>
vars == <<settings, sessionVars, work, up, stats, stopAt>>

Sessions == Sockets \X (1..MaxSessions)

(***************************************************************************)
(* "destroyed": socket.destroy() or the peer's end, 'close' is due. A      *)
(* socket the worker only ended after a final reply is still "open": it    *)
(* goes on reading lines.                                                  *)
(***************************************************************************)
ConnStates == {"new", "open", "destroyed", "closed"}

\* "none": the chosen pool has no template.  "stale": it has one and is not usable.
Offers == {"none", "stale", "usable"}

\* The sessions there are or have been.
Past == {id \in Sessions : id[2] <= logins[id[1]]}

Reports == [id : Sessions, data : {"online", "offline", "removed"}]

TypeOK ==
    /\ keepOffline \in BOOLEAN
    /\ identity \in [Sockets -> Identities]
    /\ port \in [Sockets -> 1..Ports]
    /\ conn \in [Sockets -> ConnStates]
    /\ logins \in [Sockets -> 0..MaxSessions]
    /\ pending \subseteq {s \in Sockets : conn[s] \in {"open", "destroyed"}}
    /\ active \subseteq Past
    /\ work \in Offers
    /\ up \in Seq(Reports)
    /\ stats \in [Sessions -> {"none", "online", "offline"}]
    /\ stopAt \in 0..(Ports + 1)

Init ==
    /\ keepOffline \in BOOLEAN
    /\ identity \in [Sockets -> Identities]
    /\ port = [s \in Sockets |-> 1]
    /\ conn = [s \in Sockets |-> "new"]
    /\ logins = [s \in Sockets |-> 0]
    /\ pending = {}
    /\ active = {}
    /\ work = "none"
    /\ up = <<>>
    /\ stats = [id \in Sessions |-> "none"]
    /\ stopAt = 0

Stopping == stopAt # 0

\* socket.destroyed of the session's socket.
Online(id) == conn[id[1]] = "open"

\* reportMinerStat for every session of S. (The order in which one handler reports
\* different sessions makes no difference to the master.)
ReportAll(S) ==
    [i \in 1..Cardinality(S) |->
        LET id == SetToSeq(S)[i]
        IN  [id |-> id, data |-> IF Online(id) THEN "online" ELSE "offline"]]

RemovalOf(id) == [id |-> id, data |-> "removed"]

RemoveAll(S) == [i \in 1..Cardinality(S) |-> RemovalOf(SetToSeq(S)[i])]

\* MaxUp bounds the messages that wait when a handler sends more.
Send(messages) ==
    /\ messages # <<>> => Len(up) < MaxUp
    /\ up' = up \o messages

-----------------------------------------------------------------------------
(* Logins.                                                                  *)

\* MUTANT: a session counts as a duplicate also while its socket lives.
DuplicatesOnlineToo(S) ==
    IF keepOffline THEN {id \in active : \E s \in S : identity[s] = identity[id[1]]} ELSE {}

\* removeDuplicateOfflineMiners for new sessions on the sockets S.
Duplicates(S) ==
    IF keepOffline
    THEN {id \in active : ~Online(id) /\ \E s \in S : identity[s] = identity[id[1]]}
    ELSE {}

\* MUTANT: the duplicates are not removed from the master's statistics.
RegisterSilently(S) ==
    LET new == {<<s, logins[s] + 1>> : s \in S}
    IN  /\ Cardinality(Past \cup new) <= MaxSessions
        /\ logins' = [s \in Sockets |-> IF s \in S THEN logins[s] + 1 ELSE logins[s]]
        /\ active' = (active \ Duplicates(S)) \cup new
        /\ Send(ReportAll(new))

\* registerMiner for one new session on each socket of S.
Register(S) ==
    LET new == {<<s, logins[s] + 1>> : s \in S}
    IN  /\ Cardinality(Past \cup new) <= MaxSessions
        /\ logins' = [s \in Sockets |-> IF s \in S THEN logins[s] + 1 ELSE logins[s]]
        /\ active' = (active \ Duplicates(S)) \cup new
        /\ Send(RemoveAll(Duplicates(S)) \o ReportAll(new))

\* A server accepts connections until its turn in stopServers comes.
Connect(s) ==
    /\ conn[s] = "new"
    /\ \E p \in 1..Ports :
          /\ stopAt < p
          /\ port' = [port EXCEPT ![s] = p]
    /\ conn' = [conn EXCEPT ![s] = "open"]
    /\ UNCHANGED <<settings, logins, pending, active, work, up, stats, stopAt>>

\* A login line reaches the session code: a second one while the first is waiting
\* is answered "Login already pending".
MayLogIn(s) == conn[s] = "open" /\ s \notin pending

LoginWaits(s) ==
    /\ MayLogIn(s)
    /\ work = "none"
    /\ pending' = pending \cup {s}
    /\ UNCHANGED <<settings, conn, port, logins, active, work, up, stats, stopAt>>

\* A login is accepted whatever template the chosen pool has. (One that is refused
\* changes nothing.)
LoginAccepted(s) ==
    /\ MayLogIn(s)
    /\ work # "none"
    /\ Register({s})
    /\ UNCHANGED <<settings, conn, port, pending, work, stats, stopAt>>

\* MUTANT: no timer is set for a waiting login.
PendingTimeoutNever(s) ==
    FALSE /\ UNCHANGED vars

\* The 5 s timer of a waiting login: refused, with a final reply.
PendingTimeout(s) ==
    /\ s \in pending
    /\ pending' = pending \ {s}
    /\ UNCHANGED <<settings, conn, port, logins, active, work, up, stats, stopAt>>

\* What the offer can become: the default pool, chosen when nothing is usable, keeps
\* the template it has.
NextOffer(offer) == ~(work = "stale" /\ offer = "none")

\* A template is applied: the offer may change, and when it is usable every waiting
\* login is taken off the map and handled again; some may be refused this time.
TemplateApplied(offer) ==
    /\ NextOffer(offer)
    /\ work' = offer
    /\ IF offer = "usable"
       THEN /\ pending' = {}
            /\ \E accepted \in SUBSET {s \in pending : conn[s] = "open"} : Register(accepted)
       ELSE UNCHANGED <<logins, pending, active, up>>
    /\ UNCHANGED <<settings, conn, port, stats, stopAt>>

\* Any other message that changes what the pools offer: waiting logins go on waiting.
PoolFlagsChanged(offer) ==
    /\ NextOffer(offer)
    /\ work = "none" => offer # "stale"
    /\ work' = offer
    /\ UNCHANGED <<settings, sessionVars, up, stats, stopAt>>

-----------------------------------------------------------------------------
(* The end of a connection.                                                 *)

\* The peer is gone, the idle timeout, a line too long or not JSON.
Drop(s) ==
    /\ conn[s] = "open"
    /\ conn' = [conn EXCEPT ![s] = "destroyed"]
    /\ UNCHANGED <<settings, port, logins, pending, active, work, up, stats, stopAt>>

\* MUTANT: the waiting login of a closed socket is forgotten in the map.
ClosedKeepsPending(s) ==
    /\ conn[s] = "destroyed"
    /\ conn' = [conn EXCEPT ![s] = "closed"]
    /\ LET latest == <<s, logins[s]>>
       IN  IF latest \in active /\ ~keepOffline
           THEN active' = active \ {latest} /\ Send(<<RemovalOf(latest)>>)
           ELSE UNCHANGED <<active, up>>
    /\ UNCHANGED <<settings, port, logins, pending, work, stats, stopAt>>

\* The 'close' callback.
Closed(s) ==
    /\ conn[s] = "destroyed"
    /\ conn' = [conn EXCEPT ![s] = "closed"]
    /\ pending' = pending \ {s}
    /\ LET latest == <<s, logins[s]>>
       IN  IF latest \in active /\ ~keepOffline
           THEN active' = active \ {latest} /\ Send(<<RemovalOf(latest)>>)
           ELSE UNCHANGED <<active, up>>
    /\ UNCHANGED <<settings, port, logins, work, stats, stopAt>>

\* stop() up to its first await: the timers, the waiting logins and the sockets of
\* all sessions.
Stop ==
    /\ ~Stopping
    /\ stopAt' = 1
    /\ conn' = [s \in Sockets |->
           IF s \in pending \/ (conn[s] = "open" /\ \E id \in active : id[1] = s)
           THEN "destroyed" ELSE conn[s]]
    /\ pending' = {}
    /\ active' = {}
    /\ UNCHANGED <<settings, port, logins, work, up, stats>>

\* server.close resolves when the last connection of its port is gone; then comes
\* the next one.
ServerClosed ==
    /\ stopAt \in 1..Ports
    /\ \A s \in Sockets : port[s] = stopAt => conn[s] \in {"new", "closed"}
    /\ stopAt' = stopAt + 1
    /\ UNCHANGED <<settings, sessionVars, work, up, stats>>

-----------------------------------------------------------------------------
(* The statistics.                                                          *)

\* A keepalive, an accepted share, a failover.
Report(id) ==
    /\ id \in active
    /\ Send(ReportAll({id}))
    /\ UNCHANGED <<settings, sessionVars, work, stats, stopAt>>

\* MUTANT: only what happens to a session is reported.
PublishNothing ==
    UNCHANGED vars

\* The 10 s interval of the worker.
PublishStats ==
    /\ ~Stopping
    /\ Send(ReportAll(active))
    /\ UNCHANGED <<settings, sessionVars, work, stats, stopAt>>

\* The master's handleStatsMessage.
HandleStatsMessage ==
    /\ up # <<>>
    /\ up' = Tail(up)
    /\ stats' = [stats EXCEPT ![Head(up).id] =
                    IF Head(up).data = "removed" THEN "none" ELSE Head(up).data]
    /\ UNCHANGED <<settings, sessionVars, work, stopAt>>

\* The master's statistics pass drops a session that has been silent for too long.
DropStaleMiner(id) ==
    /\ stats[id] # "none"
    /\ stats' = [stats EXCEPT ![id] = "none"]
    /\ UNCHANGED <<settings, sessionVars, work, up, stopAt>>

Next ==
    \/ \E s \in Sockets :
          \/ Connect(s)
          \/ LoginWaits(s)
          \/ LoginAccepted(s)
          \/ PendingTimeout(s)
          \/ Drop(s)
          \/ Closed(s)
    \/ \E offer \in Offers : TemplateApplied(offer) \/ PoolFlagsChanged(offer)
    \/ Stop
    \/ ServerClosed
    \/ \E id \in Sessions : Report(id) \/ DropStaleMiner(id)
    \/ PublishStats
    \/ HandleStatsMessage

Spec == Init /\ [][Next]_vars

\* Timers and due 'close' events fire and messages are handled. The bound on up is
\* not the code's: reports must get their turn whenever it lets them.
Fairness ==
    /\ \A s \in Sockets : WF_vars(PendingTimeout(s)) /\ SF_vars(Closed(s))
    /\ SF_vars(PublishStats)
    /\ WF_vars(HandleStatsMessage)

FairSpec == Spec /\ Fairness

-----------------------------------------------------------------------------
(* Properties.                                                              *)

\* When the master has handled what the worker sent, it counts no session the worker
\* no longer has: no report overtakes or follows the removal of its session, and no
\* way of losing a session forgets the removal (miner.js, removeDuplicateOfflineMiners).
StatsAreSessions ==
    up = <<>> /\ ~Stopping => {id \in Sessions : stats[id] # "none"} \subseteq active

\* A miner whose connection lives keeps its sessions: neither the login of another
\* miner, nor templates, nor time make its shares "Unauthenticated".
LiveSessionsKept ==
    [][\A id \in active : (id \notin active') => ~Online(id)']_vars

\* Every waiting login is answered, or its socket is gone: none waits for ever.
PendingSettled ==
    \A s \in Sockets : []<>(s \notin pending)

\* The master does not go on balancing miners that are gone: the sessions of closed
\* sockets get removed or marked offline in its statistics.
GoneMinersReported ==
    []<>(Stopping \/ \A id \in Sessions : conn[id[1]] = "closed" => stats[id] # "online")

\* What the test "disconnected miners are removed from master stats immediately"
\* says: once the worker's messages are handled, the master knows no closed socket.
DisconnectedAreRemoved ==
    up = <<>> /\ ~keepOffline /\ ~Stopping =>
        \A id \in Sessions : conn[id[1]] = "closed" => stats[id] = "none"

\* What the comment in stop() promises: the servers are drained only after the
\* sockets of the miners have been destroyed, so that no miner holds them open.
NoMinerWhileDraining ==
    Stopping => \A id \in active : ~Online(id)
=============================================================================
