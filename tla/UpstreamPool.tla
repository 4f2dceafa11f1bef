---------------------------- MODULE UpstreamPool ----------------------------
(***************************************************************************)
(* One upstream pool client of the master (proxy/pool.js, class            *)
(* UpstreamPoolClient) together with the part of the master that           *)
(* digests its templates (proxy/master.js, handlePoolTemplate).            *)
(*                                                                         *)
(* The client keeps one TCP/TLS socket to the pool, logs in on it, turns   *)
(* "job" notifications and replies into the active block template, tells   *)
(* the workers when the pool goes up or down, and reconnects on a timer.   *)
(* Everything runs on one event loop: a callback is one action.            *)
(*                                                                         *)
(* The upstream pool is the environment. It may drop the connection at     *)
(* any moment, answer every request with success or an error, report an    *)
(* error nobody asked for, push good, empty or malformed jobs once it has  *)
(* accepted the login, send garbage, or say nothing.                       *)
(***************************************************************************)
EXTENDS Naturals

CONSTANTS
    Blobs,            \* block template blobs the upstream may send
    PendingMethods,   \* what the upstream may answer "No block template yet" to
    MaxOutstanding    \* bound: requests of one method awaiting a reply

Methods == {"login", "getjob", "submit", "keepalived"}

\* What an error reply may be to: a request, or none that sendLog knows (the id is
\* missing, or an entry that is not there any more).
Unasked == "none"
ErrorReplies == Methods \cup {Unasked}

\* Blobs is a set of good blobs, apart from the names of what is none.
ASSUME BlobsAssumption == {"none", "empty", "bad"} \cap Blobs = {}
ASSUME PendingAssumption == PendingMethods \subseteq ErrorReplies
ASSUME OutstandingAssumption == MaxOutstanding \in Nat \ {0}

VARIABLES
    phase,        \* "new" | "running" | "stopped" (start() called, this.stopping) | "crashed"
    socket,       \* this.socket and what became of the stream it names
    busy,         \* something was read or written within the last socketTimeoutMs
    connected,    \* this.connected
    enabled,      \* this.enabled
    template,     \* this.activeBlockTemplate, with the connection it came from
    timer,        \* this.reconnectTimer is armed
    poolId,       \* this.poolId, with the connection it was issued on
    outstanding,  \* entries of this.sendLog written on the current connection
    told          \* the last of enablePool / disablePool the master broadcast

vars == <<phase, socket, busy, connected, enabled, template, timer, poolId, outstanding, told>>

(***************************************************************************)
(* "connecting": created, the handshake is under way.  "open": connected.  *)
(* "ending": connected, and ended by this side: nothing more is written.   *)
(* "draining": destroyed by a line it delivered; later lines of the same   *)
(* chunk are still dispatched and 'close' is due.  "destroyed": dead, and  *)
(* 'close' is due.  "closed": 'close' was delivered, this.socket still     *)
(* names the dead stream.  "none": this.socket is null.                    *)
(***************************************************************************)
SocketStates == {"none", "connecting", "open", "ending", "draining", "destroyed", "closed"}

\* Streams that are not destroyed: their idle timer runs.
Live == {"connecting", "open", "ending"}

\* Streams whose 'close' event is still to come.
Alive == Live \cup {"draining", "destroyed"}

NoTemplate == [blob |-> "none", fresh |-> FALSE]

\* What a job message can carry: a blob the master can build a template from,
\* nothing at all, or something its constructor throws on.
EmptyJob == "empty"
BadJob == "bad"
Jobs == Blobs \cup {EmptyJob, BadJob}

\* fresh is a history bit: the upstream sent this blob on the current connection.
Templates == [blob : Blobs, fresh : BOOLEAN] \cup {NoTemplate}

HasTemplate == template # NoTemplate

\* MasterController.isPoolUsable for a master with a single pool (the height
\* comparison then holds trivially).
Usable == enabled /\ connected /\ HasTemplate

Stopping == phase = "stopped"

TypeOK ==
    /\ phase \in {"new", "running", "stopped", "crashed"}
    /\ socket \in SocketStates
    /\ busy \in BOOLEAN
    /\ connected \in BOOLEAN
    /\ enabled \in BOOLEAN
    /\ template \in Templates
    /\ timer \in BOOLEAN
    /\ poolId \in {"none", "current", "earlier"}
    /\ outstanding \in [Methods -> 0..MaxOutstanding]
    /\ told \in {"nothing", "enabled", "disabled"}

Init ==
    /\ phase = "new"
    /\ socket = "none"
    /\ busy = FALSE
    /\ connected = FALSE
    /\ enabled = TRUE
    /\ template = NoTemplate
    /\ timer = FALSE
    /\ poolId = "none"
    /\ outstanding = [m \in Methods |-> 0]
    /\ told = "nothing"

-----------------------------------------------------------------------------
(* Helpers: the methods the handlers call.                                  *)

\* scheduleConnect: nothing while stopping or while a timer is armed already.
ScheduleConnect == IF Stopping THEN UNCHANGED timer ELSE timer' = TRUE

DestroySocket ==
    /\ socket' = "none"
    /\ IF socket = "none" THEN UNCHANGED connected ELSE connected' = FALSE

\* MUTANT: the stale template survives the outage (the behaviour the comment in
\* markUnavailable warns about).
MarkUnavailableKeepTemplate ==
    /\ connected' = FALSE
    /\ enabled' = FALSE
    /\ told' = "disabled"
    /\ UNCHANGED template

MarkUnavailable ==
    /\ connected' = FALSE
    /\ enabled' = FALSE
    /\ template' = NoTemplate
    /\ told' = "disabled"

\* MUTANT: give up on the pool without a later attempt.
GiveUpNoRetry ==
    /\ MarkUnavailable
    /\ DestroySocket
    /\ UNCHANGED timer

\* MUTANT: give up on the pool but leave its socket open.
GiveUpKeepSocket ==
    /\ MarkUnavailable
    /\ ScheduleConnect
    /\ UNCHANGED socket

\* The sequence of reconnectUnavailable, of rejectPoolTemplate and of the catch
\* block of handlePoolTemplate.
GiveUp ==
    /\ MarkUnavailable
    /\ DestroySocket
    /\ ScheduleConnect

\* Node's socket.writable is already true while the handshake is under way.
Writable == socket \in {"connecting", "open"}

\* sendData: the request is logged only when it could be written. MaxOutstanding
\* bounds the entries of one method.
SendData(m) ==
    IF Writable
    THEN /\ outstanding[m] < MaxOutstanding
         /\ outstanding' = [outstanding EXCEPT ![m] = @ + 1]
         /\ busy' = TRUE
    ELSE UNCHANGED <<outstanding, busy>>

\* MUTANT: a reply nobody asked for is taken for an answer.
AnsweredUnasked(m) ==
    outstanding' = [outstanding EXCEPT ![m] = @ - 1]

\* The reply's id is found in sendLog and its entry removed.
Answered(m) ==
    /\ outstanding[m] > 0
    /\ outstanding' = [outstanding EXCEPT ![m] = @ - 1]

\* The same for an error reply, which need not have an entry.
ErrorAnswered(m) == IF m = Unasked THEN UNCHANGED outstanding ELSE Answered(m)

\* A new connection: no reply to an earlier connection's request can arrive any
\* more (the entries stay in sendLog until pruned, and are never looked up).
ForgetRequests == outstanding' = [m \in Methods |-> 0]

IsDuplicate(j) == HasTemplate /\ template.blob = j

Activate(j) ==
    /\ template' = [blob |-> j, fresh |-> TRUE]
    /\ enabled' = TRUE
    /\ told' = "enabled"
    /\ UNCHANGED <<socket, connected, timer>>

\* handlePoolTemplate. A duplicate leaves everything alone but confirms the blob.
HandlePoolTemplate(j) ==
    \/ /\ j \in {EmptyJob, BadJob}
       /\ GiveUp
    \/ /\ j \in Blobs
       /\ IsDuplicate(j)
       /\ template' = [template EXCEPT !.fresh = TRUE]
       /\ UNCHANGED <<socket, connected, enabled, timer, told>>
    \/ /\ j \in Blobs
       /\ ~IsDuplicate(j)
       /\ Activate(j)

\* handleLine bails out when this.socket is null; a destroyed stream delivers
\* only the rest of the chunk it was destroyed by.
Readable == socket \in {"open", "ending", "draining"}

\* What is read starts the idle timer anew, unless the stream is gone afterwards.
Read == busy' = (socket' \in Live)

-----------------------------------------------------------------------------
(* Actions: one per callback.                                               *)

Start ==
    /\ phase = "new"
    /\ phase' = "running"
    /\ ScheduleConnect
    /\ UNCHANGED <<socket, busy, connected, enabled, template, poolId, outstanding, told>>

Stop ==
    /\ phase = "running"
    /\ phase' = "stopped"
    /\ timer' = FALSE
    /\ DestroySocket
    /\ busy' = FALSE
    /\ UNCHANGED <<enabled, template, poolId, outstanding, told>>

\* The reconnect timer fires: connect() replaces whatever socket there was.
Connect ==
    /\ timer
    /\ ~Stopping
    /\ timer' = FALSE
    /\ socket' = "connecting"
    /\ busy' = TRUE
    /\ IF socket = "none" THEN UNCHANGED connected ELSE connected' = FALSE
    /\ template' = IF HasTemplate THEN [template EXCEPT !.fresh = FALSE] ELSE template
    /\ poolId' = IF poolId = "current" THEN "earlier" ELSE poolId
    /\ ForgetRequests
    /\ UNCHANGED <<phase, enabled, told>>

\* The 'connect' / 'secureConnect' callback.
SocketConnected ==
    /\ socket = "connecting"
    /\ socket' = "open"
    /\ connected' = TRUE
    /\ poolId' = "none"
    /\ SendData("login")
    /\ UNCHANGED <<phase, enabled, template, timer, told>>

\* A refused, reset or ended connection, or a line over the size limit.
ConnectionLost ==
    /\ socket \in Live
    /\ socket' = "destroyed"
    /\ busy' = FALSE
    /\ UNCHANGED <<phase, connected, enabled, template, timer, poolId, outstanding, told>>

\* socketTimeoutMs go by and nothing is read or written.
Silence ==
    /\ busy
    /\ busy' = FALSE
    /\ UNCHANGED <<phase, socket, connected, enabled, template, timer, poolId, outstanding, told>>

\* The idle timeout of the socket, which any traffic starts anew.
IdleTimeout ==
    /\ socket \in Live
    /\ ~busy
    /\ socket' = "destroyed"
    /\ UNCHANGED <<phase, busy, connected, enabled, template, timer, poolId, outstanding, told>>

\* MUTANT: the 'close' callback does not arrange the next attempt.
SocketClosedNoRetry ==
    /\ socket \in {"draining", "destroyed"}
    /\ socket' = "closed"
    /\ MarkUnavailable
    /\ UNCHANGED <<phase, busy, timer, poolId, outstanding>>

\* MUTANT: the 'close' callback only reconnects.
SocketClosedKeepsPool ==
    /\ socket \in {"draining", "destroyed"}
    /\ socket' = "closed"
    /\ connected' = FALSE
    /\ ScheduleConnect
    /\ UNCHANGED <<phase, busy, enabled, template, told, poolId, outstanding>>

\* The 'close' callback (stop() has removed it when the client is stopping).
SocketClosed ==
    /\ socket \in {"draining", "destroyed"}
    /\ socket' = "closed"
    /\ MarkUnavailable
    /\ ScheduleConnect
    /\ UNCHANGED <<phase, busy, poolId, outstanding>>

\* A line that is not JSON.
BadLine ==
    /\ Readable
    /\ socket' = "draining"
    /\ busy' = FALSE
    /\ UNCHANGED <<phase, connected, enabled, template, timer, poolId, outstanding, told>>

\* A line of an HTTP client: it is answered, and this side of the stream ended. (A
\* stream that is destroyed already stays so.)
HttpProbe ==
    /\ Readable
    /\ socket' = IF socket = "open" THEN "ending" ELSE socket
    /\ Read
    /\ UNCHANGED <<phase, connected, enabled, template, timer, poolId, outstanding, told>>

\* The JSON value null: handleMessage reads a property of it, nothing catches the
\* TypeError, and the primary process dies with its sockets and timers.
NullLine ==
    /\ Readable
    /\ phase' = "crashed"
    /\ timer' = FALSE
    /\ DestroySocket
    /\ busy' = FALSE
    /\ UNCHANGED <<enabled, template, poolId, outstanding, told>>

\* A reply that answers nothing, which is only logged, or a chunk without a whole line.
Ignored ==
    /\ Readable
    /\ UNCHANGED <<phase, socket, connected, enabled, template, timer, poolId, outstanding, told>>
    /\ Read

\* A "job" notification: an upstream pushes jobs only to a logged-in connection.
JobNotify(j) ==
    /\ Readable
    /\ poolId = "current"
    /\ HandlePoolTemplate(j)
    /\ Read
    /\ UNCHANGED <<phase, poolId, outstanding>>

LoginAccepted(j) ==
    /\ Readable
    /\ Answered("login")
    /\ poolId' = "current"
    /\ HandlePoolTemplate(j)
    /\ Read
    /\ UNCHANGED phase

\* A login reply without an id or a job.
LoginInvalid ==
    /\ Readable
    /\ Answered("login")
    /\ GiveUp
    /\ Read
    /\ UNCHANGED <<phase, poolId>>

\* A getjob reply: an upstream serves jobs only to a logged-in connection.
GetJobReply(j) ==
    /\ Readable
    /\ poolId = "current"
    /\ Answered("getjob")
    /\ HandlePoolTemplate(j)
    /\ Read
    /\ UNCHANGED <<phase, poolId>>

\* handleGetJobReply ignores a null result.
GetJobNull ==
    /\ Readable
    /\ poolId = "current"
    /\ Answered("getjob")
    /\ UNCHANGED <<phase, socket, connected, enabled, template, timer, poolId, told>>
    /\ Read

\* keepalived and submit replies are fire-and-forget.
Acknowledged(m) ==
    /\ m \in {"keepalived", "submit"}
    /\ Readable
    /\ Answered(m)
    /\ UNCHANGED <<phase, socket, connected, enabled, template, timer, poolId, told>>
    /\ Read

\* "No block template yet", to whatever: the socket goes, a short timer comes, nothing
\* else.
TemplatePending(m) ==
    /\ m \in PendingMethods
    /\ Readable
    /\ ErrorAnswered(m)
    /\ DestroySocket
    /\ ScheduleConnect
    /\ Read
    /\ UNCHANGED <<phase, enabled, template, poolId, told>>

\* An "unauthenticated" error, to whatever.
Unauthenticated(m) ==
    /\ Readable
    /\ ErrorAnswered(m)
    /\ GiveUp
    /\ Read
    /\ UNCHANGED <<phase, poolId>>

\* Any other error reply is only logged.
OtherError(m) ==
    /\ Readable
    /\ ErrorAnswered(m)
    /\ UNCHANGED <<phase, socket, connected, enabled, template, timer, poolId, told>>
    /\ Read

\* The 30 s keepalive interval of start().
KeepAlive ==
    /\ phase = "running"
    /\ Usable
    /\ SendData("keepalived")
    /\ UNCHANGED <<phase, socket, connected, enabled, template, timer, poolId, told>>

\* The statistics pass of the master found other common algorithms.
UpdateAlgoPerf ==
    /\ phase = "running"
    /\ connected
    /\ SendData("getjob")
    /\ UNCHANGED <<phase, socket, connected, enabled, template, timer, poolId, told>>

\* A worker's share whose job is still mapped is forwarded.
SendShare ==
    /\ phase = "running"
    /\ SendData("submit")
    /\ UNCHANGED <<phase, socket, connected, enabled, template, timer, poolId, told>>

Next ==
    \/ Start
    \/ Stop
    \/ Connect
    \/ SocketConnected
    \/ ConnectionLost
    \/ Silence
    \/ IdleTimeout
    \/ SocketClosed
    \/ BadLine
    \/ HttpProbe
    \/ NullLine
    \/ Ignored
    \/ \E j \in Jobs : JobNotify(j) \/ LoginAccepted(j) \/ GetJobReply(j)
    \/ LoginInvalid
    \/ GetJobNull
    \/ \E m \in Methods : Acknowledged(m)
    \/ \E m \in ErrorReplies : TemplatePending(m) \/ Unauthenticated(m) \/ OtherError(m)
    \/ KeepAlive
    \/ UpdateAlgoPerf
    \/ SendShare

Spec == Init /\ [][Next]_vars

(***************************************************************************)
(* Fairness of the event loop: timers and due 'close' events fire, and a   *)
(* stream that is idle again and again is timed out before the next        *)
(* traffic at some time.                                                   *)
(***************************************************************************)
LoopFairness ==
    /\ WF_vars(Start)
    /\ WF_vars(Connect)
    /\ WF_vars(SocketClosed)
    /\ SF_vars(IdleTimeout)

(***************************************************************************)
(* What is assumed of the upstream: tried again and again, it lets the     *)
(* handshake and the login succeed with a good job at some attempt; and    *)
(* while it gives no work it does not keep the stream busy for ever.       *)
(***************************************************************************)
UpstreamFairness ==
    /\ SF_vars(SocketConnected)
    /\ SF_vars(\E j \in Blobs : LoginAccepted(j))
    /\ WF_vars(~Usable /\ Silence)

FairSpec == Spec /\ LoopFairness /\ UpstreamFairness

-----------------------------------------------------------------------------
(* Properties.                                                              *)

\* A started client that is not stopping is never left without a way back: it
\* has a stream whose 'close' event will arrive, or an armed reconnect timer.
\* (Every error path of pool.js and of handlePoolTemplate must re-arm one.)
NeverStranded ==
    phase = "running" => timer \/ socket \in Alive

\* The reconnect timer never runs beside a living stream: firing, connect()
\* would tear a healthy session down and log in again.
TimerOnlyWhenDown ==
    timer => socket \notin Alive

\* The guarantee of the comments in connect() and markUnavailable(): a pool the
\* master calls usable serves work received on the connection it has now, never
\* the template of before an outage.
UsableIsFresh ==
    Usable => template.fresh

\* Workers are never left believing in a pool whose connection is gone: once the
\* client has no stream at all, the last thing broadcast is not "enablePool".
\* (The master may still be stopping; then the workers are stopped too.)
WorkersToldDown ==
    phase = "running" /\ told = "enabled" => socket \in Alive

\* The master holds a template for a pool exactly while the workers were last
\* told to use it: if a stale template outlived a disablePool, the next fresh job
\* with the same blob would be taken for a duplicate and nobody told.
ToldIffTemplate ==
    HasTemplate <=> told = "enabled"

\* The client implements PoolFeed: its link is a stream that is not closed yet, its
\* work the template's blob; to die is to stop. Every callback is one of PoolFeed's
\* steps or none.
FeedPhase == IF phase = "crashed" THEN "stopped" ELSE phase
Feed == INSTANCE PoolFeed WITH phase <- FeedPhase, link <- socket \in Alive, work <- template.blob
ImplementsPoolFeed == Feed!Spec

\* A running pool client becomes usable again and again as long as it is not
\* stopped or crashed, whatever errors, garbage and lost connections come in between.
Recovers ==
    [](phase = "running" => <>(Usable \/ phase # "running"))
=============================================================================
