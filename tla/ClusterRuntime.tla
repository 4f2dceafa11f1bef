--------------------------- MODULE ClusterRuntime ---------------------------
(***************************************************************************)
(* The primary process of the cluster (proxy.js, class                     *)
(* ClusterRuntimeManager): it keeps WorkerCount worker processes and one   *)
(* master controller, forks a worker for every one that exits, replaces    *)
(* everything on SIGHUP (reload) and takes everything down on SIGTERM or   *)
(* SIGINT (stop).                                                          *)
(*                                                                         *)
(* reload and stop are async functions: between two of their awaits other  *)
(* events run, so each stretch without an await is an action of its own,   *)
(* and reloadAt and stopAt say which await a function is suspended at.     *)
(* Workers are numbered by fork, as cluster does; master controllers by    *)
(* their creation.                                                         *)
(***************************************************************************)
EXTENDS Naturals, FiniteSets

CONSTANTS
    WorkerCount,    \* this.workerCount
    MaxForks,       \* bound: workers forked
    MaxMasters      \* bound: master controllers created

ASSUME CountAssumption ==
    /\ WorkerCount \in Nat \ {0}
    /\ MaxForks \in Nat /\ MaxForks >= WorkerCount
    /\ MaxMasters \in Nat \ {0}

VARIABLES
    master,      \* this.master: a controller's number, 0 for null
    masters,     \* controllers created
    running,     \* controllers started and not stopped: they serve their pools
    attached,    \* the workers map of the controller this.master names
    forks,       \* workers forked
    alive,       \* worker processes, cluster.workers
    killed,      \* of these, the ones sent SIGTERM
    reloadAt,    \* "idle", or the await reload() is suspended at
    reloadWait,  \* workers reload() waits for
    stopAt,      \* the same for stop(), which ends at "done"
    stopWait,
    failed       \* history: the last reload to end threw

masterVars == <<master, masters, running>>
workerVars == <<attached, forks, alive, killed>>
vars == <<masterVars, workerVars, reloadAt, reloadWait, stopAt, stopWait, failed>>

Reloading == reloadAt # "idle"
ShuttingDown == stopAt # "idle"

Masters == 1..MaxMasters
Workers == 1..MaxForks

TypeOK ==
    /\ masters \in Masters
    /\ master \in 0..masters
    /\ running \subseteq 1..masters
    /\ forks \in Workers
    /\ alive \subseteq 1..forks
    /\ attached \subseteq 1..forks
    /\ killed \subseteq alive
    /\ reloadAt \in {"idle", "workers", "master"}
    /\ stopAt \in {"idle", "workers", "master", "done"}
    /\ reloadWait \subseteq killed
    /\ stopWait \subseteq killed
    /\ failed \in BOOLEAN

\* start() has returned.
Init ==
    /\ master = 1
    /\ masters = 1
    /\ running = {1}
    /\ forks = WorkerCount
    /\ alive = 1..WorkerCount
    /\ attached = 1..WorkerCount
    /\ killed = {}
    /\ reloadAt = "idle"
    /\ reloadWait = {}
    /\ stopAt = "idle"
    /\ stopWait = {}
    /\ failed = FALSE

-----------------------------------------------------------------------------
\* The wait of stopWorkers is over. A function resumes before any other event is
\* handled, and reload before stop: it set its timers and listeners first.
ReloadResumes == reloadAt = "workers" /\ reloadWait = {}
StopResumes == stopAt = "workers" /\ stopWait = {} /\ ~ReloadResumes
Resuming == ReloadResumes \/ StopResumes

\* n calls of spawnWorker, the other workers being live and attached to the
\* controller that this.master names being att.
SpawnWorkers(n, live, att) ==
    LET new == (forks + 1)..(forks + n)
    IN  /\ forks' = forks + n
        /\ alive' = live \cup new
        /\ attached' = att \cup new

\* shouldRespawnWorkers
ShouldRespawn == ~(ShuttingDown \/ Reloading)

\* MUTANT: stopWorkers does not listen for the exit.
WorkerExitUnheard(w) ==
    /\ ~Resuming
    /\ w \in alive
    /\ killed' = killed \ {w}
    /\ alive' = alive \ {w}
    /\ UNCHANGED <<masterVars, attached, forks, reloadAt, reloadWait, stopAt, stopWait, failed>>

\* A worker exits, killed or crashed: its 'exit' listeners of stopWorkers run, then
\* handleWorkerExit detaches it from this.master and may fork another.
WorkerExit(w) ==
    /\ ~Resuming
    /\ w \in alive
    /\ killed' = killed \ {w}
    /\ reloadWait' = reloadWait \ {w}
    /\ stopWait' = stopWait \ {w}
    /\ IF ShouldRespawn
       THEN forks < MaxForks /\ SpawnWorkers(1, alive \ {w}, attached \ {w})
       ELSE /\ alive' = alive \ {w}
            /\ attached' = IF master = 0 THEN attached ELSE attached \ {w}
            /\ UNCHANGED forks
    /\ UNCHANGED <<masterVars, reloadAt, stopAt, failed>>

\* MUTANT: stopWorkers waits for the exits only.
DeadlineNever(w) ==
    FALSE /\ UNCHANGED vars

\* The 2 s timeout of stopWorkers for one worker that has not exited. A reload under
\* way set its timer for the worker before stop() did.
Deadline(w) ==
    /\ ~Resuming
    /\ IF w \in reloadWait
       THEN reloadWait' = reloadWait \ {w} /\ UNCHANGED stopWait
       ELSE w \in stopWait /\ stopWait' = stopWait \ {w} /\ UNCHANGED reloadWait
    /\ UNCHANGED <<masterVars, workerVars, reloadAt, stopAt, failed>>

\* SIGHUP with a valid config: reload() up to the await of stopWorkers. Both bounds
\* are here, so that no reload is stopped by one half way.
Reload ==
    /\ ~Resuming
    /\ ~ShuttingDown
    /\ ~Reloading
    /\ masters < MaxMasters
    /\ forks + WorkerCount <= MaxForks
    /\ reloadAt' = "workers"
    /\ killed' = alive
    /\ reloadWait' = alive
    /\ UNCHANGED <<masterVars, attached, forks, alive, stopAt, stopWait, failed>>

\* MUTANT: the old controller is dropped without being stopped.
ReloadStopMasterForgets ==
    /\ ReloadResumes
    /\ reloadAt' = "master"
    /\ UNCHANGED <<masterVars, workerVars, reloadWait, stopAt, stopWait, failed>>

\* stopWorkers is over: master.stop() stops the pools and waits for the monitor to
\* close. (this.master is set: only stop() clears it, and it resumes after reload.)
ReloadStopMaster ==
    /\ ReloadResumes
    /\ reloadAt' = "master"
    /\ running' = running \ {master}
    /\ UNCHANGED <<master, masters, workerVars, reloadWait, stopAt, stopWait, failed>>

\* The monitor is closed: a new controller is created and its start() connects its
\* pools. The rest depends on what start() does last, which is to start the monitor.
ReloadNewMaster ==
    /\ ~Resuming
    /\ reloadAt = "master"
    /\ reloadAt' = "idle"
    /\ masters' = masters + 1
    /\ master' = masters + 1
    /\ running' = running \cup {masters + 1}

\* MUTANT: the workers are forked while this.master is still the old controller.
ReloadRespawnLate ==
    /\ ReloadNewMaster
    /\ failed' = FALSE
    /\ forks' = forks + WorkerCount
    /\ alive' = alive \cup ((forks + 1)..(forks + WorkerCount))
    /\ attached' = {}
    /\ UNCHANGED <<killed, reloadWait, stopAt, stopWait>>

\* MUTANT: the reload tops up the workers that are still there.
ReloadRespawnTopUp ==
    /\ ReloadNewMaster
    /\ failed' = FALSE
    /\ SpawnWorkers(WorkerCount - Cardinality(alive), alive, {})
    /\ UNCHANGED <<killed, reloadWait, stopAt, stopWait>>

\* start() returns, the rest of reload: new workers attached to the new controller.
ReloadRespawn ==
    /\ ReloadNewMaster
    /\ failed' = FALSE
    /\ SpawnWorkers(WorkerCount, alive, {})
    /\ UNCHANGED <<killed, reloadWait, stopAt, stopWait>>

\* start() throws: listen refuses an httpPort that is no port number, which nothing
\* checked before. reload() logs the error and is over: the new controller's pools and
\* timers run on, and no worker is forked.
ReloadFails ==
    /\ ReloadNewMaster
    /\ failed' = TRUE
    /\ attached' = {}
    /\ UNCHANGED <<forks, alive, killed, reloadWait, stopAt, stopWait>>

\* SIGTERM or SIGINT: stop() up to the await of stopWorkers.
Stop ==
    /\ ~Resuming
    /\ ~ShuttingDown
    /\ stopAt' = "workers"
    /\ killed' = alive
    /\ stopWait' = alive
    /\ UNCHANGED <<masterVars, attached, forks, alive, reloadAt, reloadWait, failed>>

StopMaster ==
    /\ StopResumes
    /\ stopAt' = "master"
    /\ running' = running \ {master}
    /\ UNCHANGED <<master, masters, workerVars, reloadAt, reloadWait, stopWait, failed>>

\* The monitor is closed: this.master is cleared, whatever it names by now. A reload
\* that waits for the same monitor resumes first.
StopDone ==
    /\ ~Resuming
    /\ reloadAt # "master"
    /\ stopAt = "master"
    /\ stopAt' = "done"
    /\ master' = 0
    /\ UNCHANGED <<masters, running, workerVars, reloadAt, reloadWait, stopWait, failed>>

Next ==
    \/ \E w \in Workers : WorkerExit(w) \/ Deadline(w)
    \/ Reload
    \/ ReloadStopMaster
    \/ ReloadRespawn
    \/ ReloadFails
    \/ Stop
    \/ StopMaster
    \/ StopDone

Spec == Init /\ [][Next]_vars

\* Timers fire, awaits resume and the monitor's connections close in the end.
Fairness ==
    /\ \A w \in Workers : WF_vars(Deadline(w))
    /\ WF_vars(ReloadStopMaster)
    /\ WF_vars(ReloadRespawn \/ ReloadFails)
    /\ WF_vars(StopMaster)
    /\ WF_vars(StopDone)

FairSpec == Spec /\ Fairness

-----------------------------------------------------------------------------
(* Properties.                                                              *)

Serving == alive \ killed

\* Outside a reload or a stop, and unless the last reload threw, the machine is never
\* short of workers: every exit is made good, also that of a worker an earlier reload
\* killed and did not wait for, and a reload that succeeds brings back to strength what
\* one that failed left without workers.
NeverShort ==
    ~ShuttingDown /\ ~Reloading /\ ~failed => Cardinality(Serving) >= WorkerCount

\* A worker in service belongs to the controller that is in charge, which has not
\* been stopped: it gets its templates and its shares find their pools. This holds
\* also of the workers forked for late exits after a reload that failed.
ServingIsAttached ==
    ~ShuttingDown => Serving \subseteq attached /\ (Serving # {} => master \in running)

\* Two controllers never serve their pools at the same time (they would log in
\* twice and hand out the same nonce space), not even if stop() meets a reload.
OneMasterRuns == Cardinality(running) <= 1

\* A reload and a stop come to an end, even when killed workers never exit.
Completes ==
    /\ Reloading ~> ~Reloading
    /\ ShuttingDown ~> stopAt = "done"

\* When stop() has returned, no worker is in service and no controller runs.
StopIsFinal == stopAt = "done" => Serving = {} /\ running = {}
=============================================================================
