------------------------ MODULE ClusterRuntimeProofs ------------------------
(***************************************************************************)
(* Proofs about ClusterRuntime for every number of workers, forks and      *)
(* reloads.                                                                *)
(***************************************************************************)
EXTENDS ClusterRuntime, FiniteSetTheorems, TLAPS

\* A reload under way has room for what it creates at its end.
RoomInv == Reloading => forks + WorkerCount <= MaxForks /\ masters < MaxMasters

\* Only the newest controller can run, this.master names it until stop() clears it,
\* and it is stopped before a reload creates the next: by the reload, or by a stop
\* that overtook it.
MasterInv ==
    /\ master \in {0, masters}
    /\ master = 0 => stopAt = "done"
    /\ running \subseteq {masters}
    /\ reloadAt = "master" => running = {}
    /\ reloadAt = "workers" /\ stopAt \in {"master", "done"} => running = {}

\* Unless the machine is being stopped: workers in service are attached, a reload
\* leaves none in service until its end, and outside a reload the controller runs.
ServiceInv ==
    ~ShuttingDown =>
        /\ Serving \subseteq attached
        /\ Reloading => Serving = {}
        /\ ~Reloading => master \in running

IInv == TypeOK /\ RoomInv /\ MasterInv /\ ServiceInv

\* The numbers of the types.
LEMMA Numbers ==
    ASSUME IInv
    PROVE  /\ masters \in Nat \ {0} /\ masters <= MaxMasters
           /\ forks \in Nat \ {0} /\ forks <= MaxForks
           /\ WorkerCount \in Nat \ {0} /\ MaxForks \in Nat /\ MaxMasters \in Nat
BY CountAssumption DEF IInv, TypeOK, Masters, Workers

\* start() establishes the invariant.
LEMMA InitEstablishes == Init => IInv
<1> SUFFICES ASSUME Init PROVE IInv
  OBVIOUS
<1>1. TypeOK
  <2>1. failed \in BOOLEAN
    BY DEF Init
  <2> QED
    BY <2>1, CountAssumption DEF Init, TypeOK, Masters, Workers
<1>2. RoomInv /\ MasterInv /\ ServiceInv
  BY DEF Init, RoomInv, MasterInv, ServiceInv, Serving, Reloading, ShuttingDown
<1> QED
  BY <1>1, <1>2 DEF IInv
-----------------------------------------------------------------------------
(* One lemma per operation.                                                *)

\* handleWorkerExit, with a new worker or without.
LEMMA WorkerExitPreserves == ASSUME NEW w \in Workers PROVE IInv /\ WorkerExit(w) => IInv'
<1> SUFFICES ASSUME IInv, WorkerExit(w) PROVE IInv'
  OBVIOUS
<1>1. /\ w \in alive
      /\ killed' = killed \ {w} /\ reloadWait' = reloadWait \ {w} /\ stopWait' = stopWait \ {w}
      /\ UNCHANGED <<master, masters, running, reloadAt, stopAt, failed>>
  BY DEF WorkerExit, masterVars
<1>2. MasterInv'
  BY <1>1 DEF IInv, MasterInv
<1>3. CASE ShouldRespawn
  <2>1. /\ forks < MaxForks
        /\ forks' = forks + 1
        /\ alive' = (alive \ {w}) \cup ((forks + 1)..(forks + 1))
        /\ attached' = (attached \ {w}) \cup ((forks + 1)..(forks + 1))
    BY <1>3 DEF WorkerExit, SpawnWorkers
  <2>2. (forks + 1)..(forks + 1) = {forks + 1}
    BY Numbers
  <2>3. ~Reloading /\ ~Reloading'
    BY <1>1, <1>3 DEF ShouldRespawn, Reloading
  <2>4. TypeOK'
    BY <1>1, <2>1, <2>2, Numbers DEF IInv, TypeOK, Masters, Workers
  <2>5. ServiceInv'
    BY <1>1, <2>1, <2>2, <2>3 DEF IInv, ServiceInv, Serving, ShuttingDown, Reloading
  <2> QED
    BY <1>2, <2>3, <2>4, <2>5 DEF IInv, RoomInv
<1>4. CASE ~ShouldRespawn
  <2>1. /\ alive' = alive \ {w}
        /\ attached' \in {attached, attached \ {w}}
        /\ forks' = forks
    BY <1>4 DEF WorkerExit
  <2>2. TypeOK'
    BY <1>1, <2>1 DEF IInv, TypeOK
  <2>3. RoomInv'
    BY <1>1, <2>1 DEF IInv, RoomInv, Reloading
  <2>4. ServiceInv'
    BY <1>1, <2>1 DEF IInv, ServiceInv, Serving, ShuttingDown, Reloading
  <2> QED
    BY <1>2, <2>2, <2>3, <2>4 DEF IInv
<1> QED
  BY <1>3, <1>4

\* The 2 s timeout of stopWorkers only shortens what is waited for.
LEMMA DeadlinePreserves == ASSUME NEW w \in Workers PROVE IInv /\ Deadline(w) => IInv'
<1> SUFFICES ASSUME IInv, Deadline(w) PROVE IInv'
  OBVIOUS
<1>1. /\ reloadWait' \subseteq reloadWait /\ stopWait' \subseteq stopWait
      /\ UNCHANGED <<master, masters, running, attached, forks, alive, killed, reloadAt, stopAt, failed>>
  BY DEF Deadline, masterVars, workerVars
<1>2. TypeOK'
  BY <1>1 DEF IInv, TypeOK
<1> QED
  BY <1>1, <1>2 DEF IInv, RoomInv, MasterInv, ServiceInv, Serving, ShuttingDown, Reloading

\* reload() and stop() up to the await of stopWorkers: no worker stays in service.
LEMMA SignalPreserves == IInv /\ (Reload \/ Stop) => IInv'
<1> SUFFICES ASSUME IInv, Reload \/ Stop PROVE IInv'
  OBVIOUS
<1>1. /\ ~ShuttingDown /\ killed' = alive
      /\ UNCHANGED <<master, masters, running, attached, forks, alive, failed>>
  BY DEF Reload, Stop, masterVars
<1>2. CASE Reload
  <2>1. /\ forks + WorkerCount <= MaxForks /\ masters < MaxMasters
        /\ reloadAt' = "workers" /\ reloadWait' = alive /\ UNCHANGED <<stopAt, stopWait>>
    BY <1>2 DEF Reload
  <2>2. stopAt = "idle" /\ stopWait \subseteq alive
    BY <1>1 DEF ShuttingDown, IInv, TypeOK
  <2>3. TypeOK'
    BY <1>1, <2>1, <2>2 DEF IInv, TypeOK
  <2>4. MasterInv' /\ RoomInv' /\ ServiceInv'
    BY <1>1, <2>1, <2>2 DEF IInv, MasterInv, RoomInv, ServiceInv, Serving, Reloading
  <2> QED
    BY <2>3, <2>4 DEF IInv
<1>3. CASE Stop
  <2>1. stopAt' = "workers" /\ stopWait' = alive /\ UNCHANGED <<reloadAt, reloadWait>>
    BY <1>3 DEF Stop
  <2>2. stopAt = "idle" /\ reloadWait \subseteq alive
    BY <1>1 DEF ShuttingDown, IInv, TypeOK
  <2>3. TypeOK'
    BY <1>1, <2>1, <2>2 DEF IInv, TypeOK
  <2>4. MasterInv' /\ RoomInv' /\ ServiceInv'
    BY <1>1, <2>1, <2>2 DEF IInv, MasterInv, RoomInv, ServiceInv, Reloading, ShuttingDown
  <2> QED
    BY <2>3, <2>4 DEF IInv
<1> QED
  BY <1>2, <1>3

\* master.stop() within a reload.
LEMMA ReloadStopMasterPreserves == IInv /\ ReloadStopMaster => IInv'
<1> SUFFICES ASSUME IInv, ReloadStopMaster PROVE IInv'
  OBVIOUS
<1>1. /\ reloadAt = "workers" /\ reloadAt' = "master" /\ running' = running \ {master}
      /\ UNCHANGED <<master, masters, attached, forks, alive, killed, reloadWait, stopAt, stopWait, failed>>
  BY DEF ReloadStopMaster, ReloadResumes, workerVars
<1>2. running' = {}
  <2>1. CASE master = 0
    BY <1>1, <2>1 DEF IInv, MasterInv
  <2>2. CASE master = masters
    BY <1>1, <2>2 DEF IInv, MasterInv
  <2> QED
    BY <2>1, <2>2 DEF IInv, MasterInv
<1>3. TypeOK'
  BY <1>1, <1>2 DEF IInv, TypeOK
<1>4. MasterInv' /\ RoomInv' /\ ServiceInv'
  BY <1>1, <1>2 DEF IInv, MasterInv, RoomInv, ServiceInv, Serving, Reloading, ShuttingDown
<1> QED
  BY <1>3, <1>4 DEF IInv

\* The new controller of a reload is the only one that runs, whether start() throws
\* or not, and the workers of the old one are out of service.
LEMMA NewMasterAlone ==
    ASSUME IInv, ReloadNewMaster
    PROVE  /\ forks + WorkerCount <= MaxForks /\ masters < MaxMasters
           /\ reloadAt' = "idle" /\ masters' = masters + 1 /\ master' = masters + 1
           /\ running' = {masters + 1}
           /\ ~ShuttingDown => Serving = {}
BY DEF ReloadNewMaster, IInv, MasterInv, RoomInv, ServiceInv, Reloading

\* The rest of a reload: the new workers are the new controller's.
LEMMA ReloadRespawnPreserves == IInv /\ ReloadRespawn => IInv'
<1> SUFFICES ASSUME IInv, ReloadRespawn PROVE IInv'
  OBVIOUS
<1> DEFINE new == (forks + 1)..(forks + WorkerCount)
<1>1. /\ reloadAt' = "idle"
      /\ masters' = masters + 1 /\ master' = masters + 1
      /\ forks' = forks + WorkerCount /\ alive' = alive \cup new /\ attached' = new
      /\ failed' \in BOOLEAN
      /\ UNCHANGED <<killed, reloadWait, stopAt, stopWait>>
  BY NewMasterAlone DEF ReloadRespawn, SpawnWorkers
<1>2. running' = {masters + 1} /\ forks + WorkerCount <= MaxForks /\ masters < MaxMasters
  BY NewMasterAlone DEF ReloadRespawn
<1>3. TypeOK'
  <2>1. masters' \in Masters /\ forks' \in Workers
    BY <1>1, <1>2, Numbers DEF Masters, Workers
  <2>2. alive' \subseteq 1..forks' /\ attached' \subseteq 1..forks' /\ killed' \subseteq alive'
    <3>1. alive \subseteq 1..forks /\ killed \subseteq alive
      BY DEF IInv, TypeOK
    <3>2. new \subseteq 1..forks' /\ 1..forks \subseteq 1..forks'
      BY <1>1, Numbers
    <3> QED
      BY <1>1, <3>1, <3>2
  <2>3. master' \in 0..masters' /\ running' \subseteq 1..masters'
    BY <1>1, <1>2, Numbers
  <2> QED
    BY <1>1, <2>1, <2>2, <2>3 DEF IInv, TypeOK
<1>4. MasterInv' /\ RoomInv'
  BY <1>1, <1>2, Numbers DEF MasterInv, RoomInv, Reloading
<1>5. ServiceInv'
  <2> SUFFICES ASSUME ~ShuttingDown'
               PROVE  Serving' \subseteq attached' /\ ~Reloading' /\ master' \in running'
    BY DEF ServiceInv
  <2>1. Serving = {}
    BY <1>1, NewMasterAlone DEF ReloadRespawn, ShuttingDown
  <2>2. Serving' \subseteq Serving \cup new
    BY <1>1 DEF Serving
  <2> QED
    BY <1>1, <1>2, <2>1, <2>2 DEF Reloading
<1> QED
  BY <1>3, <1>4, <1>5 DEF IInv

\* A reload that throws: the new controller runs, and no worker is in service.
LEMMA ReloadFailsPreserves == IInv /\ ReloadFails => IInv'
<1> SUFFICES ASSUME IInv, ReloadFails PROVE IInv'
  OBVIOUS
<1>1. /\ reloadAt' = "idle" /\ masters' = masters + 1 /\ master' = masters + 1
      /\ running' = {masters + 1} /\ masters < MaxMasters
      /\ ~ShuttingDown => Serving = {}
  BY NewMasterAlone DEF ReloadFails
<1>2. /\ attached' = {} /\ failed' = TRUE
      /\ UNCHANGED <<forks, alive, killed, reloadWait, stopAt, stopWait>>
  BY DEF ReloadFails
<1>3. masters' \in Masters /\ master' \in 0..masters' /\ running' \subseteq 1..masters'
  BY <1>1, Numbers DEF Masters
<1>4. TypeOK'
  BY <1>1, <1>2, <1>3 DEF IInv, TypeOK
<1>5. MasterInv' /\ RoomInv'
  BY <1>1, <1>2, Numbers DEF MasterInv, RoomInv, Reloading
<1>6. ServiceInv'
  BY <1>1, <1>2 DEF ServiceInv, Serving, ShuttingDown, Reloading
<1> QED
  BY <1>4, <1>5, <1>6 DEF IInv

\* master.stop() within stop(), and its end.
LEMMA StopEndPreserves == IInv /\ (StopMaster \/ StopDone) => IInv'
<1> SUFFICES ASSUME IInv, StopMaster \/ StopDone PROVE IInv'
  OBVIOUS
<1>1. /\ UNCHANGED <<masters, attached, forks, alive, killed, reloadAt, reloadWait, stopWait, failed>>
      /\ ShuttingDown'
  BY DEF StopMaster, StopDone, workerVars, ShuttingDown
<1>2. RoomInv' /\ ServiceInv'
  BY <1>1 DEF IInv, RoomInv, ServiceInv, Reloading
<1>3. CASE StopMaster
  <2>1. stopAt = "workers" /\ stopAt' = "master" /\ running' = running \ {master} /\ master' = master
    BY <1>3 DEF StopMaster, StopResumes
  <2>2. running' = {}
    BY <2>1 DEF IInv, MasterInv
  <2>3. TypeOK'
    BY <1>1, <2>1, <2>2 DEF IInv, TypeOK
  <2>4. MasterInv'
    BY <1>1, <2>1, <2>2 DEF IInv, MasterInv
  <2> QED
    BY <1>2, <2>3, <2>4 DEF IInv
<1>4. CASE StopDone
  <2>1. stopAt = "master" /\ stopAt' = "done" /\ master' = 0 /\ running' = running
    BY <1>4 DEF StopDone
  <2>2. TypeOK'
    BY <1>1, <2>1, Numbers DEF IInv, TypeOK
  <2>3. MasterInv'
    BY <1>1, <2>1 DEF IInv, MasterInv
  <2> QED
    BY <1>2, <2>2, <2>3 DEF IInv
<1> QED
  BY <1>3, <1>4

\* Every step preserves the invariant.
LEMMA StepPreserves == IInv /\ [Next]_vars => IInv'
<1> SUFFICES ASSUME IInv, [Next]_vars PROVE IInv'
  OBVIOUS
<1>1. CASE UNCHANGED vars
  BY <1>1 DEF vars, masterVars, workerVars, IInv, TypeOK, RoomInv, MasterInv, ServiceInv,
              Serving, Reloading, ShuttingDown
<1>2. CASE Next
  BY <1>2, WorkerExitPreserves, DeadlinePreserves, SignalPreserves, ReloadStopMasterPreserves,
     ReloadRespawnPreserves, ReloadFailsPreserves, StopEndPreserves DEF Next
<1> QED
  BY <1>1, <1>2
-----------------------------------------------------------------------------
(* Full strength.                                                          *)

\* The sets of workers are finite.
LEMMA ServingFinite == IInv => IsFiniteSet(Serving)
<1> SUFFICES ASSUME IInv PROVE IsFiniteSet(Serving)
  OBVIOUS
<1>1. Serving \subseteq 1..forks /\ IsFiniteSet(1..forks)
  BY Numbers, FS_Interval DEF IInv, TypeOK, Serving
<1> QED
  BY <1>1, FS_Subset

\* The workers start() and the end of reload() fork are WorkerCount.
LEMMA ForkedCount ==
    ASSUME NEW n \in Nat, WorkerCount \in Nat \ {0}
    PROVE  IsFiniteSet((n + 1)..(n + WorkerCount)) /\ Cardinality((n + 1)..(n + WorkerCount)) = WorkerCount
<1>1. n + 1 \in Int /\ n + WorkerCount \in Int /\ n + 1 <= n + WorkerCount
  OBVIOUS
<1>2. Cardinality((n + 1)..(n + WorkerCount)) = (n + WorkerCount) - (n + 1) + 1
  BY <1>1, FS_Interval
<1> QED
  BY <1>1, <1>2, FS_Interval

\* An exit that is made good leaves as many in service, or one more if the worker
\* that exited was not in service any more.
LEMMA ReplacedInFull ==
    ASSUME IInv, NeverShort, NEW w \in Workers, WorkerExit(w)
    PROVE  NeverShort'
<1> SUFFICES ASSUME ~ShuttingDown', ~Reloading', ~failed' PROVE Cardinality(Serving') >= WorkerCount
  BY DEF NeverShort
<1>1. ~ShuttingDown /\ ~Reloading /\ ~failed /\ ShouldRespawn
  BY DEF WorkerExit, ShuttingDown, Reloading, ShouldRespawn
<1>2. Serving' = (Serving \ {w}) \cup {forks + 1}
  <2>1. /\ killed' = killed \ {w}
        /\ alive' = (alive \ {w}) \cup ((forks + 1)..(forks + 1))
    BY <1>1 DEF WorkerExit, SpawnWorkers
  <2>2. (forks + 1)..(forks + 1) = {forks + 1}
    BY Numbers
  <2>3. forks + 1 \notin killed
    BY Numbers DEF IInv, TypeOK
  <2> QED
    BY <2>1, <2>2, <2>3 DEF Serving
<1>3. IsFiniteSet(Serving) /\ Cardinality(Serving) \in Nat /\ Cardinality(Serving) >= WorkerCount
  BY <1>1, ServingFinite, FS_CardinalityType DEF NeverShort
<1>4. /\ IsFiniteSet(Serving \ {w})
      /\ Cardinality(Serving \ {w}) \in {Cardinality(Serving), Cardinality(Serving) - 1}
  BY <1>3, FS_RemoveElement
<1>5. forks + 1 \notin Serving \ {w}
  BY Numbers DEF IInv, TypeOK, Serving
<1>6. Cardinality(Serving') = Cardinality(Serving \ {w}) + 1
  BY <1>2, <1>4, <1>5, FS_AddElement
<1> QED
  BY <1>3, <1>4, <1>6, Numbers

\* The end of a reload brings WorkerCount workers into service.
LEMMA ReloadedInFull == IInv /\ ReloadRespawn => NeverShort'
<1> SUFFICES ASSUME IInv, ReloadRespawn PROVE Cardinality(Serving') >= WorkerCount
  BY DEF NeverShort
<1> DEFINE new == (forks + 1)..(forks + WorkerCount)
<1>1. new \subseteq Serving'
  <2>1. alive' = alive \cup new /\ killed' = killed
    BY DEF ReloadRespawn, SpawnWorkers
  <2>2. killed \subseteq 1..forks
    BY DEF IInv, TypeOK
  <2> QED
    BY <2>1, <2>2, Numbers DEF Serving
<1>2. Cardinality(new) = WorkerCount
  BY Numbers, ForkedCount
<1>3. IsFiniteSet(Serving')
  <2>1. IInv'
    BY ReloadRespawnPreserves
  <2>2. forks' \in Int /\ Serving' \subseteq 1..forks'
    BY <2>1 DEF IInv, TypeOK, Workers, Serving
  <2>3. IsFiniteSet(1..forks')
    BY <2>2, FS_Interval
  <2> QED
    BY <2>2, <2>3, FS_Subset
<1>4. Cardinality(new) <= Cardinality(Serving')
  BY <1>1, <1>3, FS_Subset
<1> QED
  BY <1>2, <1>4

\* Every step keeps the machine at full strength; a reload that fails excuses itself.
LEMMA StepKeepsStrength == IInv /\ NeverShort /\ [Next]_vars => NeverShort'
<1> SUFFICES ASSUME IInv, NeverShort, [Next]_vars PROVE NeverShort'
  OBVIOUS
<1>1. ASSUME NEW w \in Workers, Deadline(w) PROVE NeverShort'
  BY <1>1 DEF Deadline, masterVars, workerVars, NeverShort, Serving, ShuttingDown, Reloading
<1>2. CASE Reload \/ ReloadStopMaster
  BY <1>2 DEF Reload, ReloadStopMaster, NeverShort, Reloading
<1>3. CASE ReloadFails
  BY <1>3 DEF ReloadFails, NeverShort
<1>4. CASE Stop \/ StopMaster \/ StopDone
  BY <1>4 DEF Stop, StopMaster, StopDone, NeverShort, ShuttingDown
<1>5. CASE UNCHANGED vars
  BY <1>5 DEF vars, workerVars, NeverShort, Serving, ShuttingDown, Reloading
<1> QED
  BY <1>1, <1>2, <1>3, <1>4, <1>5, ReplacedInFull, ReloadedInFull DEF Next

-----------------------------------------------------------------------------
(* The theorems.                                                            *)

\* The inductive invariant holds in every reachable state.
THEOREM InvariantHolds == Spec => []IInv
BY InitEstablishes, StepPreserves, PTL DEF Spec

\* ClusterRuntimeManager: master, workers and waits keep their types.
THEOREM TypeCorrect == Spec => []TypeOK
<1>1. IInv => TypeOK
  BY DEF IInv
<1> QED
  BY <1>1, InvariantHolds, PTL

\* reload and stop: two controllers never serve their pools at the same time, however
\* many reloads there are and wherever a stop meets one.
THEOREM OneMasterRunsHolds == Spec => []OneMasterRuns
<1>1. IInv => OneMasterRuns
  <2> SUFFICES ASSUME IInv PROVE Cardinality(running) <= 1
    BY DEF OneMasterRuns
  <2>1. running \subseteq {masters}
    BY DEF IInv, MasterInv
  <2>2. running = {} \/ running = {masters}
    BY <2>1
  <2>3. Cardinality({}) = 0 /\ Cardinality({masters}) = 1
    BY FS_EmptySet, FS_Singleton
  <2> QED
    BY <2>2, <2>3
<1> QED
  BY <1>1, InvariantHolds, PTL

\* spawnWorker, handleWorkerExit, reload: a worker in service is attached to the
\* controller in charge, which has not been stopped.
THEOREM ServingIsAttachedHolds == Spec => []ServingIsAttached
<1>1. IInv => ServingIsAttached
  BY DEF IInv, ServiceInv, ServingIsAttached
<1> QED
  BY <1>1, InvariantHolds, PTL

\* handleWorkerExit and reload: outside a reload or a stop, and unless the last reload
\* threw, at least WorkerCount workers are in service.
THEOREM NeverShortHolds == Spec => []NeverShort
<1>1. Init => NeverShort
  <2> SUFFICES ASSUME Init PROVE Cardinality(Serving) >= WorkerCount
    BY DEF NeverShort
  <2>1. Serving = 1..WorkerCount
    BY DEF Init, Serving
  <2>2. Cardinality((0 + 1)..(0 + WorkerCount)) = WorkerCount
    BY ForkedCount, CountAssumption
  <2>3. (0 + 1)..(0 + WorkerCount) = 1..WorkerCount
    BY CountAssumption
  <2> QED
    BY <2>1, <2>2, <2>3, CountAssumption
<1> QED
  BY <1>1, StepKeepsStrength, InvariantHolds, PTL DEF Spec
=============================================================================
