------------------------- MODULE UpstreamPoolProofs -------------------------
(***************************************************************************)
(* Proofs about UpstreamPool for every set of blobs, every set of requests *)
(* the upstream may put off, and every bound on outstanding requests.      *)
(***************************************************************************)
EXTENDS UpstreamPool, TLAPS

\* What the handlers are made of, expanded wherever a step of the client is.
USE DEF ScheduleConnect, DestroySocket, MarkUnavailable, GiveUp, SendData, Answered,
        ErrorAnswered, ForgetRequests, Stopping, Writable, Readable, Live

-----------------------------------------------------------------------------
(* The type invariant.                                                      *)

\* What is read leaves the idle timer running or not.
LEMMA ReadTypes == Read => busy' \in BOOLEAN
<1> SUFFICES ASSUME Read PROVE busy' \in BOOLEAN
  OBVIOUS
<1> DEFINE kept == socket' \in Live
<1>1. kept \in BOOLEAN
  OBVIOUS
<1>2. busy' = kept
  BY DEF Read
<1> HIDE DEF kept
<1> QED
  BY <1>1, <1>2

\* A request is counted if it is written.
LEMMA SendDataTypes ==
    ASSUME TypeOK, NEW m \in Methods, SendData(m)
    PROVE  busy' \in BOOLEAN /\ outstanding' \in [Methods -> 0..MaxOutstanding]
<1>1. busy' \in BOOLEAN
  <2>1. CASE Writable
    <3>1. busy' = TRUE
      BY <2>1
    <3> QED
      BY <3>1
  <2>2. CASE ~Writable
    <3>1. busy' = busy
      BY <2>2
    <3> QED
      BY <3>1 DEF TypeOK
  <2> QED
    BY <2>1, <2>2
<1>2. outstanding' \in [Methods -> 0..MaxOutstanding]
  BY OutstandingAssumption DEF TypeOK
<1> QED
  BY <1>1, <1>2

LEMMA HandlePoolTemplateTypes ==
    ASSUME TypeOK, NEW j \in Jobs, HandlePoolTemplate(j)
    PROVE  /\ socket' \in SocketStates
           /\ connected' \in BOOLEAN
           /\ enabled' \in BOOLEAN
           /\ template' \in Templates
           /\ timer' \in BOOLEAN
           /\ told' \in {"nothing", "enabled", "disabled"}
<1>1. CASE j \in {EmptyJob, BadJob} /\ GiveUp
  BY <1>1 DEF TypeOK, SocketStates, Templates
<1>2. CASE /\ j \in Blobs
           /\ IsDuplicate(j)
           /\ template' = [template EXCEPT !.fresh = TRUE]
           /\ UNCHANGED <<socket, connected, enabled, timer, told>>
  <2>1. template \in [blob : Blobs, fresh : BOOLEAN]
    BY <1>2 DEF IsDuplicate, HasTemplate, TypeOK, Templates
  <2> QED
    BY <1>2, <2>1 DEF TypeOK, Templates
<1>3. CASE j \in Blobs /\ ~IsDuplicate(j) /\ Activate(j)
  BY <1>3 DEF TypeOK, Activate, Templates
<1> QED
  BY <1>1, <1>2, <1>3 DEF HandlePoolTemplate

\* Every variable of the client keeps its type, for every upstream.
THEOREM TypeCorrect == Spec => []TypeOK
<1>1. Init => TypeOK
  <2> SUFFICES ASSUME Init PROVE TypeOK
    OBVIOUS
  <2>1. outstanding \in [Methods -> 0..MaxOutstanding]
    BY OutstandingAssumption DEF Init
  <2> QED
    BY <2>1 DEF Init, TypeOK, SocketStates, Templates
<1>2. TypeOK /\ [Next]_vars => TypeOK'
  <2> SUFFICES ASSUME TypeOK, [Next]_vars PROVE TypeOK'
    OBVIOUS
  <2> USE OutstandingAssumption, ReadTypes
  <2>1. CASE Start
    BY <2>1 DEF Start, TypeOK
  <2>2. CASE Stop
    BY <2>2 DEF Stop, TypeOK, SocketStates
  <2>3. CASE Connect
    <3>1. template' \in Templates
      BY <2>3 DEF Connect, TypeOK, Templates, HasTemplate
    <3>2. outstanding' \in [Methods -> 0..MaxOutstanding]
      BY <2>3 DEF Connect
    <3> QED
      BY <2>3, <3>1, <3>2 DEF Connect, TypeOK, SocketStates
  <2>4. CASE SocketConnected
    BY <2>4 DEF SocketConnected, TypeOK, SocketStates, Methods
  <2>5. CASE ConnectionLost \/ Silence \/ IdleTimeout
    BY <2>5 DEF ConnectionLost, Silence, IdleTimeout, TypeOK, SocketStates
  <2>6. CASE SocketClosed
    BY <2>6 DEF SocketClosed, TypeOK, SocketStates, Templates
  <2>7. CASE BadLine \/ HttpProbe \/ NullLine \/ Ignored
    BY <2>7 DEF BadLine, HttpProbe, NullLine, Ignored, TypeOK, SocketStates
  <2>8. ASSUME NEW j \in Jobs, JobNotify(j) \/ LoginAccepted(j) \/ GetJobReply(j)
        PROVE  TypeOK'
    <3>1. HandlePoolTemplate(j)
      BY <2>8 DEF JobNotify, LoginAccepted, GetJobReply
    <3>2. /\ phase' = phase
          /\ busy' \in BOOLEAN
          /\ poolId' \in {poolId, "current"}
          /\ outstanding' \in [Methods -> 0..MaxOutstanding]
      BY <2>8 DEF JobNotify, LoginAccepted, GetJobReply, TypeOK, Methods
    <3> QED
      BY <3>1, <3>2, HandlePoolTemplateTypes DEF TypeOK
  <2>9. CASE LoginInvalid
    <3>1. outstanding' \in [Methods -> 0..MaxOutstanding]
      BY <2>9 DEF LoginInvalid, TypeOK, Methods
    <3> QED
      BY <2>9, <3>1 DEF LoginInvalid, TypeOK, SocketStates, Templates
  <2>10. CASE GetJobNull
    BY <2>10 DEF GetJobNull, TypeOK, Methods
  <2>11. ASSUME NEW m \in ErrorReplies,
                \/ m \in Methods /\ Acknowledged(m)
                \/ TemplatePending(m) \/ Unauthenticated(m) \/ OtherError(m)
         PROVE  TypeOK'
    <3>1. outstanding' \in [Methods -> 0..MaxOutstanding]
      BY <2>11 DEF Acknowledged, TemplatePending, Unauthenticated, OtherError, TypeOK, ErrorReplies
    <3>2. CASE Acknowledged(m) \/ OtherError(m)
      BY <3>1, <3>2 DEF Acknowledged, OtherError, TypeOK
    <3>3. CASE TemplatePending(m)
      BY <3>1, <3>3 DEF TemplatePending, TypeOK, SocketStates
    <3>4. CASE Unauthenticated(m)
      BY <3>1, <3>4 DEF Unauthenticated, TypeOK, SocketStates, Templates
    <3> QED
      BY <2>11, <3>2, <3>3, <3>4
  <2>12. CASE KeepAlive
    BY <2>12, SendDataTypes DEF KeepAlive, TypeOK, Methods
  <2>13. CASE UpdateAlgoPerf
    BY <2>13, SendDataTypes DEF UpdateAlgoPerf, TypeOK, Methods
  <2>14. CASE SendShare
    BY <2>14, SendDataTypes DEF SendShare, TypeOK, Methods
  <2>15. CASE UNCHANGED vars
    BY <2>15 DEF vars, TypeOK
  <2> QED
    BY <2>1, <2>2, <2>3, <2>4, <2>5, <2>6, <2>7, <2>8, <2>9, <2>10, <2>11, <2>12, <2>13,
       <2>14, <2>15 DEF Next, ErrorReplies
<1> QED
  BY <1>1, <1>2, PTL DEF Spec

-----------------------------------------------------------------------------
(* The connection is never lost for good.                                   *)

\* What the phases and the flags say of the socket.
SocketConsistent ==
    /\ phase # "running" => socket = "none" /\ ~timer
    /\ connected => socket \in {"open", "ending", "draining", "destroyed"}

ReconnectInv ==
    /\ SocketConsistent
    /\ NeverStranded
    /\ TimerOnlyWhenDown

\* ReconnectInv is inductive: whatever handler runs, one of stream and timer stays.
THEOREM ReconnectInvariant == Spec => []ReconnectInv
<1> USE DEF ReconnectInv, SocketConsistent, NeverStranded, TimerOnlyWhenDown, Alive
<1>1. Init => ReconnectInv
  BY DEF Init
<1>2. TypeOK /\ ReconnectInv /\ [Next]_vars => ReconnectInv'
  <2> SUFFICES ASSUME TypeOK, ReconnectInv, [Next]_vars PROVE ReconnectInv'
    OBVIOUS
  <2> USE DEF TypeOK, SocketStates
  <2>1. CASE Start \/ Stop \/ Connect
    BY <2>1 DEF Start, Stop, Connect
  <2>2. CASE SocketConnected \/ ConnectionLost \/ Silence \/ IdleTimeout \/ SocketClosed
    BY <2>2 DEF SocketConnected, ConnectionLost, Silence, IdleTimeout, SocketClosed
  <2>8. CASE BadLine \/ HttpProbe \/ NullLine \/ Ignored
    BY <2>8 DEF BadLine, HttpProbe, NullLine, Ignored
  <2>3. ASSUME NEW j \in Jobs, JobNotify(j) \/ LoginAccepted(j) \/ GetJobReply(j)
        PROVE  ReconnectInv'
    <3>1. GiveUp \/ UNCHANGED <<socket, connected, timer>>
      BY <2>3 DEF JobNotify, LoginAccepted, GetJobReply, HandlePoolTemplate, Activate
    <3>2. phase = "running" /\ phase' = phase
      BY <2>3 DEF JobNotify, LoginAccepted, GetJobReply
    <3> QED
      BY <3>1, <3>2
  <2>4. CASE LoginInvalid \/ GetJobNull
    BY <2>4 DEF LoginInvalid, GetJobNull
  <2>5. ASSUME NEW m \in ErrorReplies,
               Acknowledged(m) \/ TemplatePending(m) \/ Unauthenticated(m) \/ OtherError(m)
        PROVE  ReconnectInv'
    BY <2>5 DEF Acknowledged, TemplatePending, Unauthenticated, OtherError
  <2>6. CASE KeepAlive \/ UpdateAlgoPerf \/ SendShare
    BY <2>6 DEF KeepAlive, UpdateAlgoPerf, SendShare
  <2>7. CASE UNCHANGED vars
    BY <2>7 DEF vars
  <2> QED
    BY <2>1, <2>2, <2>3, <2>4, <2>5, <2>6, <2>7, <2>8 DEF Next, ErrorReplies
<1> QED
  BY <1>1, <1>2, TypeCorrect, PTL DEF Spec

\* A running client always has a living stream or an armed reconnect timer.
THEOREM NeverStrandedHolds == Spec => []NeverStranded
<1>1. ReconnectInv => NeverStranded
  BY DEF ReconnectInv
<1> QED
  BY <1>1, ReconnectInvariant, PTL

\* The reconnect timer is never armed beside a living stream.
THEOREM TimerOnlyWhenDownHolds == Spec => []TimerOnlyWhenDown
<1>1. ReconnectInv => TimerOnlyWhenDown
  BY DEF ReconnectInv
<1> QED
  BY <1>1, ReconnectInvariant, PTL

-----------------------------------------------------------------------------
(* A usable pool serves fresh work.                                         *)

\* A template is held only within the session that delivered it, and the workers
\* know of it exactly then; a login awaits its reply only before the session.
SessionInv ==
    /\ HasTemplate /\ phase = "running" =>
          /\ template.fresh
          /\ poolId = "current"
          /\ socket \in {"open", "ending", "draining", "destroyed"}
    /\ phase = "new" => ~HasTemplate
    /\ ToldIffTemplate
    /\ socket = "connecting" => outstanding["login"] = 0
    /\ outstanding["login"] > 0 => outstanding["login"] = 1 /\ poolId # "current"

\* The invariant the freshness of work rests on, for an upstream that says "No
\* block template yet" to nothing but a login.
THEOREM SessionInvariant ==
    ASSUME PendingMethods \subseteq {"login"}
    PROVE  Spec => []SessionInv
<1> USE DEF SessionInv, HasTemplate, ToldIffTemplate, NoTemplate
<1>1. Init => SessionInv
  BY DEF Init, Methods
<1>2. TypeOK /\ ReconnectInv /\ SessionInv /\ [Next]_vars => SessionInv'
  <2> SUFFICES ASSUME TypeOK, ReconnectInv, SessionInv, [Next]_vars PROVE SessionInv'
    OBVIOUS
  <2> USE OutstandingAssumption, BlobsAssumption
      DEF TypeOK, SocketStates, ReconnectInv, SocketConsistent, TimerOnlyWhenDown, Alive, Methods
  <2>1. CASE Start \/ Stop
    BY <2>1 DEF Start, Stop
  <2>2. CASE Connect
    <3>1. outstanding'["login"] = 0
      BY <2>2 DEF Connect
    <3>2. ~HasTemplate
      BY <2>2 DEF Connect
    <3> QED
      BY <2>2, <3>1, <3>2 DEF Connect
  <2>3. CASE SocketConnected
    BY <2>3 DEF SocketConnected
  <2>4. CASE ConnectionLost \/ Silence \/ IdleTimeout \/ SocketClosed
    BY <2>4 DEF ConnectionLost, Silence, IdleTimeout, SocketClosed
  <2>11. CASE BadLine \/ HttpProbe \/ NullLine \/ Ignored
    BY <2>11 DEF BadLine, HttpProbe, NullLine, Ignored
  <2>5. ASSUME NEW j \in Jobs, JobNotify(j) \/ LoginAccepted(j) \/ GetJobReply(j)
        PROVE  SessionInv'
    <3>1. /\ phase = "running" /\ phase' = phase
          /\ poolId' = "current"
          /\ socket \in {"open", "ending", "draining"}
      BY <2>5 DEF JobNotify, LoginAccepted, GetJobReply
    <3>2. outstanding'["login"] = 0
      BY <2>5 DEF JobNotify, LoginAccepted, GetJobReply
    <3>3. HandlePoolTemplate(j)
      BY <2>5 DEF JobNotify, LoginAccepted, GetJobReply
    <3>4. CASE GiveUp
      BY <3>1, <3>2, <3>4
    <3>5. CASE /\ IsDuplicate(j)
               /\ template' = [template EXCEPT !.fresh = TRUE]
               /\ UNCHANGED <<socket, connected, enabled, timer, told>>
      <4>1. template \in [blob : Blobs, fresh : BOOLEAN]
        BY <3>5 DEF IsDuplicate, Templates
      <4>2. template' \in [blob : Blobs, fresh : BOOLEAN] /\ template'.fresh
        BY <3>5, <4>1
      <4> QED
        BY <3>1, <3>2, <3>5, <4>1, <4>2
    <3>6. CASE j \in Blobs /\ Activate(j)
      BY <3>1, <3>2, <3>6 DEF Activate
    <3> QED
      BY <3>3, <3>4, <3>5, <3>6 DEF HandlePoolTemplate
  <2>6. CASE LoginInvalid \/ GetJobNull
    BY <2>6 DEF LoginInvalid, GetJobNull
  <2>7. ASSUME NEW m \in ErrorReplies, Acknowledged(m) \/ Unauthenticated(m) \/ OtherError(m)
        PROVE  SessionInv'
    BY <2>7 DEF Acknowledged, Unauthenticated, OtherError, ErrorReplies, Unasked
  <2>8. ASSUME NEW m \in ErrorReplies, TemplatePending(m)
        PROVE  SessionInv'
    <3>1. m = "login"
      BY <2>8, PendingMethods \subseteq {"login"} DEF TemplatePending
    <3>2. poolId # "current" /\ socket \in {"open", "ending", "draining"} /\ phase = "running"
      BY <2>8, <3>1 DEF TemplatePending, Unasked
    <3>3. ~HasTemplate
      BY <3>2
    <3> QED
      BY <2>8, <3>1, <3>2, <3>3 DEF TemplatePending, Unasked
  <2>9. CASE KeepAlive \/ UpdateAlgoPerf \/ SendShare
    BY <2>9 DEF KeepAlive, UpdateAlgoPerf, SendShare
  <2>10. CASE UNCHANGED vars
    BY <2>10 DEF vars
  <2> QED
    BY <2>1, <2>2, <2>3, <2>4, <2>5, <2>6, <2>7, <2>8, <2>9, <2>10, <2>11 DEF Next, ErrorReplies
<1> QED
  BY <1>1, <1>2, TypeCorrect, ReconnectInvariant, PTL DEF Spec

\* A pool the master calls usable holds a template of its present connection.
THEOREM UsableIsFreshHolds ==
    ASSUME PendingMethods \subseteq {"login"}
    PROVE  Spec => []UsableIsFresh
<1>1. ReconnectInv /\ SessionInv => UsableIsFresh
  BY DEF ReconnectInv, SocketConsistent, SessionInv, UsableIsFresh, Usable
<1> QED
  BY <1>1, ReconnectInvariant, SessionInvariant, PTL

\* Workers are not left believing in a pool whose connection is gone.
THEOREM WorkersToldDownHolds ==
    ASSUME PendingMethods \subseteq {"login"}
    PROVE  Spec => []WorkersToldDown
<1>1. SessionInv => WorkersToldDown
  BY DEF SessionInv, WorkersToldDown, ToldIffTemplate, Alive
<1> QED
  BY <1>1, SessionInvariant, PTL

\* The master holds a template of a pool exactly while the workers may use it.
THEOREM ToldIffTemplateHolds ==
    ASSUME PendingMethods \subseteq {"login"}
    PROVE  Spec => []ToldIffTemplate
<1>1. SessionInv => ToldIffTemplate
  BY DEF SessionInv
<1> QED
  BY <1>1, SessionInvariant, PTL
-----------------------------------------------------------------------------
(* The client implements PoolFeed.                                          *)

\* The template of a client that may serve it comes over a living stream.
LEMMA WorkNeedsLink ==
    ASSUME TypeOK, SessionInv, phase = "running", template.blob # "none"
    PROVE  HasTemplate /\ socket \in {"open", "ending", "draining", "destroyed"} /\ poolId = "current"
BY DEF TypeOK, SessionInv, HasTemplate, NoTemplate, Templates

\* A callback that gives the connection up is a lost link.
LEMMA GiveUpLoses ==
    ASSUME TypeOK, phase = "running", socket \in Alive, socket' \notin Alive,
           MarkUnavailable, phase' = phase
    PROVE  Feed!Loses
BY DEF Feed!Loses, NoTemplate, FeedPhase

\* A job that is handled is new work, the same work, or a lost link.
LEMMA HandledJob ==
    ASSUME TypeOK, NEW j \in Jobs, HandlePoolTemplate(j), phase = "running", phase' = phase,
           socket \in {"open", "ending", "draining"}
    PROVE  [Feed!Next]_Feed!vars
<1> USE BlobsAssumption DEF TypeOK, Alive, FeedPhase
<1>1. CASE GiveUp
  <2>1. Feed!Loses
    BY <1>1, GiveUpLoses
  <2> QED
    BY <2>1 DEF Feed!Next
<1>2. CASE /\ IsDuplicate(j)
           /\ template' = [template EXCEPT !.fresh = TRUE]
           /\ UNCHANGED <<socket, connected, enabled, timer, told>>
  <2>1. template'.blob = template.blob
    BY <1>2 DEF IsDuplicate, HasTemplate, Templates
  <2> QED
    BY <1>2, <2>1 DEF Feed!vars
<1>3. CASE j \in Blobs /\ ~IsDuplicate(j) /\ Activate(j)
  <2>1. template.blob # j
    BY <1>3 DEF IsDuplicate, HasTemplate, NoTemplate, Templates
  <2>2. Feed!Delivers(j)
    BY <1>3, <2>1 DEF Activate, Feed!Delivers
  <2> QED
    BY <1>3, <2>2 DEF Feed!Next
<1> QED
  BY <1>1, <1>2, <1>3 DEF HandlePoolTemplate

\* Every step of the client is a step of PoolFeed or none, for every set of blobs,
\* when the upstream says "No block template yet" to nothing but a login.
THEOREM ImplementsPoolFeedHolds ==
    ASSUME PendingMethods \subseteq {"login"}
    PROVE  Spec => ImplementsPoolFeed
<1>1. Init => Feed!Init
  BY DEF Init, Feed!Init, NoTemplate, Alive, FeedPhase
<1>2. TypeOK /\ ReconnectInv /\ SessionInv /\ [Next]_vars => [Feed!Next]_Feed!vars
  <2> SUFFICES ASSUME TypeOK, ReconnectInv, SessionInv, [Next]_vars
               PROVE  [Feed!Next]_Feed!vars
    OBVIOUS
  <2> USE DEF Alive, FeedPhase
  <2>1. CASE Start
    <3>1. Feed!Start
      BY <2>1 DEF Start, Feed!Start
    <3> QED
      BY <3>1 DEF Feed!Next
  <2>2. CASE Stop
    <3>1. Feed!Stop
      BY <2>2 DEF Stop, Feed!Stop
    <3> QED
      BY <3>1 DEF Feed!Next
  <2>3. CASE Connect
    <3>1. phase = "running" /\ socket \notin Alive
      BY <2>3 DEF Connect, TypeOK, ReconnectInv, SocketConsistent, TimerOnlyWhenDown
    <3>2. template.blob = "none"
      BY <3>1, WorkNeedsLink
    <3>3. template'.blob = template.blob
      BY <2>3 DEF Connect, TypeOK, Templates, HasTemplate
    <3>4. Feed!Connects
      BY <2>3, <3>1, <3>2, <3>3 DEF Connect, Feed!Connects
    <3> QED
      BY <3>4 DEF Feed!Next
  <2>4. CASE SocketConnected \/ ConnectionLost \/ Silence \/ IdleTimeout
    BY <2>4 DEF SocketConnected, ConnectionLost, Silence, IdleTimeout, Feed!vars
  <2>13. CASE BadLine \/ HttpProbe \/ Ignored
    BY <2>13 DEF BadLine, HttpProbe, Ignored, Feed!vars
  <2>14. CASE NullLine
    <3>1. phase = "running"
      BY <2>14 DEF NullLine, TypeOK, ReconnectInv, SocketConsistent
    <3>2. Feed!Stop
      BY <2>14, <3>1 DEF NullLine, Feed!Stop
    <3> QED
      BY <3>2 DEF Feed!Next
  <2>5. CASE SocketClosed
    <3>1. phase = "running"
      BY <2>5 DEF SocketClosed, TypeOK, ReconnectInv, SocketConsistent
    <3>2. Feed!Loses
      BY <2>5, <3>1, GiveUpLoses DEF SocketClosed
    <3> QED
      BY <3>2 DEF Feed!Next
  <2>6. ASSUME NEW j \in Jobs, JobNotify(j) \/ LoginAccepted(j) \/ GetJobReply(j)
        PROVE  [Feed!Next]_Feed!vars
    <3>1. /\ phase = "running" /\ phase' = phase
          /\ socket \in {"open", "ending", "draining"}
          /\ HandlePoolTemplate(j)
      BY <2>6 DEF JobNotify, LoginAccepted, GetJobReply, TypeOK, ReconnectInv, SocketConsistent
    <3> QED
      BY <3>1, HandledJob
  <2>7. ASSUME NEW m \in ErrorReplies, Unauthenticated(m) \/ LoginInvalid
        PROVE  [Feed!Next]_Feed!vars
    <3>1. phase = "running"
      BY <2>7 DEF Unauthenticated, LoginInvalid, TypeOK, ReconnectInv, SocketConsistent
    <3>2. Feed!Loses
      BY <2>7, <3>1, GiveUpLoses DEF Unauthenticated, LoginInvalid
    <3> QED
      BY <3>2 DEF Feed!Next
  <2>8. ASSUME NEW m \in ErrorReplies, TemplatePending(m)
        PROVE  [Feed!Next]_Feed!vars
    <3>1. m = "login"
      BY <2>8, PendingMethods \subseteq {"login"} DEF TemplatePending
    <3>2. poolId # "current" /\ socket \in {"open", "ending", "draining"} /\ phase = "running"
      BY <2>8, <3>1 DEF TemplatePending, Unasked, TypeOK, Methods, SessionInv, ReconnectInv, SocketConsistent
    <3>3. template.blob = "none"
      BY <3>2, WorkNeedsLink
    <3>4. Feed!PutOff
      BY <2>8, <3>2, <3>3 DEF TemplatePending, Feed!PutOff
    <3> QED
      BY <3>4 DEF Feed!Next
  <2>9. ASSUME NEW m \in ErrorReplies, GetJobNull \/ Acknowledged(m) \/ OtherError(m)
        PROVE  [Feed!Next]_Feed!vars
    BY <2>9 DEF GetJobNull, Acknowledged, OtherError, Feed!vars
  <2>10. CASE KeepAlive \/ UpdateAlgoPerf \/ SendShare
    BY <2>10 DEF KeepAlive, UpdateAlgoPerf, SendShare, Feed!vars
  <2>11. CASE UNCHANGED vars
    BY <2>11 DEF vars, Feed!vars
  <2>12. "login" \in ErrorReplies
    BY DEF Methods, ErrorReplies
  <2> QED
    BY <2>1, <2>2, <2>3, <2>4, <2>5, <2>6, <2>7, <2>8, <2>9, <2>10, <2>11, <2>12,
       <2>13, <2>14 DEF Next, ErrorReplies
<1> QED
  BY <1>1, <1>2, TypeCorrect, ReconnectInvariant, SessionInvariant, PTL
  DEF Spec, ImplementsPoolFeed, Feed!Spec
=============================================================================
