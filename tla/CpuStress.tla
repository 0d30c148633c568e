----------------------------- MODULE CpuStress -----------------------------
(***************************************************************************)
(* services/cpu-stress.service.ts with the workers it forks                *)
(* (services/cpu-worker.ts), the registry it records them in and the       *)
(* crash simulations (services/crash.service.ts) that end the main process *)
(* underneath it.                                                          *)
(*                                                                         *)
(* Main is single threaded: each action below is one callback of its event *)
(* loop run to completion.  The workers are OS processes of their own.  A  *)
(* worker burns in a synchronous loop started at the top level of its      *)
(* script, so its event loop never runs: neither its 'message' nor its     *)
(* SIGTERM handler can ever be called.  That is why `stopQueued', the      *)
(* messages in the IPC pipe, has no consumer here.                         *)
(***************************************************************************)
EXTENDS SimulationTracker, FiniteSets

CONSTANTS
  Worker,       \* the processes fork() can return (bounds how many are forked)
  Cpus,         \* os.cpus().length
  KillDelay     \* ticks of the 200 ms between 'stop' and SIGKILL

ASSUME CpusAssumption == Cpus \in Nat \ {0}
ASSUME KillDelayAssumption == KillDelay \in Nat
ASSUME SimTypeAssumption == "CPU_STRESS" \in SimType

VARIABLES
  main,             \* the main process: "up", "crashing" (setImmediate pending), "down"
  activeProcesses,  \* simulation -> the children its entry holds
  activeTimeout,    \* simulation -> ticks until its auto-completion timer is due
  proc,             \* worker -> "unused", "booting", "burning", "dead"
  owner,            \* worker -> the simulation it was forked for
  stopQueued,       \* workers with an unread 'stop' in their IPC channel
  killTimer,        \* worker -> ticks until main's SIGKILL timer is due
  orphans,          \* live workers whose parent process has died
  eventLog          \* <<event, simulation>> entries of the event log

cpuVars == <<activeProcesses, activeTimeout, proc, owner, stopQueued,
             killTimer, orphans, eventLog>>
vars == <<trackerVars, main, cpuVars>>

CPU == "CPU_STRESS"
NoOwner == "nobody"
Intensity == {"moderate", "high"}
Event == {"SIMULATION_STARTED", "SIMULATION_STOPPED", "SIMULATION_COMPLETED"}

Live(w) == proc[w] \in {"booting", "burning"}
Free == {w \in Worker : proc[w] = "unused"}

CpuTypeOK ==
  /\ TrackerTypeOK
  /\ main \in {"up", "crashing", "down"}
  /\ activeProcesses \in [Sim -> SUBSET Worker]
  /\ activeTimeout \in [Sim -> Nat \cup {Off}]
  /\ proc \in [Worker -> {"unused", "booting", "burning", "dead"}]
  /\ owner \in [Worker -> Sim \cup {NoOwner}]
  /\ stopQueued \in SUBSET Worker
  /\ killTimer \in [Worker -> Nat \cup {Off}]
  /\ orphans \in SUBSET Worker
  /\ eventLog \in SUBSET (Event \X Sim)

Init ==
  /\ TrackerInit
  /\ main = "up"
  /\ activeProcesses = [s \in Sim |-> {}]
  /\ activeTimeout = [s \in Sim |-> Off]
  /\ proc = [w \in Worker |-> "unused"]
  /\ owner = [w \in Worker |-> NoOwner]
  /\ stopQueued = {}
  /\ killTimer = [w \in Worker |-> Off]
  /\ orphans = {}
  /\ eventLog = {}

\* max(1, Math.round(percent / 100 * cpus)) with 65 and 100 percent.
TargetLoadPercent(intensity) == IF intensity = "high" THEN 100 ELSE 65
NumProcesses(intensity) ==
  LET rounded == (2 * TargetLoadPercent(intensity) * Cpus + 100) \div 200
  IN  IF rounded < 1 THEN 1 ELSE rounded

LogEvent(event, sims) == eventLog' = eventLog \cup ({event} \X sims)

----------------------------------------------------------------------------
(* The service.                                                            *)

\* startCpuProcesses: fork() may throw for some of the workers, and those
\* that did start are kept; the auto-completion timer is armed in any case.
StartCpuProcesses(s, intensity, d) ==
  \E forked \in SUBSET Free :
    /\ Cardinality(forked) <= NumProcesses(intensity)
    /\ activeProcesses' = [activeProcesses EXCEPT ![s] = forked]
    /\ proc' = [w \in Worker |-> IF w \in forked THEN "booting" ELSE proc[w]]
    /\ owner' = [w \in Worker |-> IF w \in forked THEN s ELSE owner[w]]
    /\ activeTimeout' = [activeTimeout EXCEPT ![s] = NodeDelay(d)]
    /\ UNCHANGED <<stopQueued, killTimer, orphans>>

\* POST /api/simulations/cpu
Start(s, intensity, d) ==
  /\ main # "down"
  /\ CreateSimulation(s, CPU, d)
  /\ StartCpuProcesses(s, intensity, d)
  /\ LogEvent("SIMULATION_STARTED", {s})
  /\ UNCHANGED main

StopWithoutKill(sims) ==                \* mutant: 'stop' is trusted, no SIGKILL timer
  /\ activeTimeout' = [s \in Sim |-> IF s \in sims THEN Off ELSE activeTimeout[s]]
  /\ activeProcesses' = [s \in Sim |-> IF s \in sims THEN {} ELSE activeProcesses[s]]
  /\ stopQueued' = stopQueued \cup
       {w \in UNION {activeProcesses[s] : s \in sims} : Live(w)}
  /\ UNCHANGED <<proc, owner, killTimer, orphans>>

StopEveryProcess(sims) ==               \* mutant: the loop runs over all entries
  LET children == UNION {activeProcesses[s] : s \in Sim}
  IN  /\ activeTimeout' = [s \in Sim |-> IF s \in sims THEN Off ELSE activeTimeout[s]]
      /\ activeProcesses' = [s \in Sim |-> IF s \in sims THEN {} ELSE activeProcesses[s]]
      /\ stopQueued' = stopQueued \cup {w \in children : Live(w)}
      /\ killTimer' = [w \in Worker |-> IF w \in children THEN KillDelay ELSE killTimer[w]]
      /\ UNCHANGED <<proc, owner, orphans>>

\* stopCpuProcesses, for the entries of sims: 'stop' is sent where the channel
\* is connected, and a SIGKILL timer is armed for every child either way.  A
\* child to which sending throws is killed at once, and gets no timer.
StopCpuProcesses(sims) ==
  LET children == UNION {activeProcesses[s] : s \in sims}
  IN  \E killed \in SUBSET {w \in children : Live(w)} :
        /\ activeTimeout' = [s \in Sim |-> IF s \in sims THEN Off ELSE activeTimeout[s]]
        /\ activeProcesses' = [s \in Sim |-> IF s \in sims THEN {} ELSE activeProcesses[s]]
        /\ stopQueued' = stopQueued \cup {w \in children \ killed : Live(w)}
        /\ killTimer' = [w \in Worker |->
             IF w \in children \ killed THEN KillDelay ELSE killTimer[w]]
        /\ proc' = [w \in Worker |-> IF w \in killed THEN "dead" ELSE proc[w]]
        /\ UNCHANGED <<owner, orphans>>

StopAnySimulation(s) ==                 \* mutant: the type is not checked
  /\ main # "down"
  /\ status[s] = "ACTIVE"
  /\ StopCpuProcesses({s})
  /\ StopSimulation(s)
  /\ LogEvent("SIMULATION_STOPPED", {s})
  /\ UNCHANGED main

\* DELETE /api/simulations/cpu/:id; every other id is answered 404.
StopRequest(s) ==
  /\ main # "down"
  /\ status[s] = "ACTIVE" /\ simType[s] = CPU
  /\ StopCpuProcesses({s})
  /\ StopSimulation(s)
  /\ LogEvent("SIMULATION_STOPPED", {s})
  /\ UNCHANGED main

\* stopAll() stops every ACTIVE CPU simulation in one go.
StopAll ==
  LET running == {s \in ActiveSims : simType[s] = CPU}
  IN  /\ main # "down"
      /\ StopCpuProcesses(running)
      /\ status' = [s \in Sim |-> IF s \in running THEN "STOPPED" ELSE status[s]]
      /\ cleanupTimer' = [s \in Sim |-> IF s \in running THEN Off ELSE cleanupTimer[s]]
      /\ LogEvent("SIMULATION_STOPPED", running)
      /\ UNCHANGED <<main, simType>>

AutoCompleteIfActive(s) ==              \* mutant: returns early when already completed
  /\ activeTimeout[s] = 0
  /\ cleanupTimer[s] = Off
  /\ IF status[s] = "ACTIVE"
     THEN StopCpuProcesses({s})
     ELSE /\ activeTimeout' = [activeTimeout EXCEPT ![s] = Off]
          /\ UNCHANGED <<activeProcesses, proc, owner, stopQueued, killTimer, orphans>>
  /\ CompleteSimulation(s)
  /\ LogEvent("SIMULATION_COMPLETED", {s} \cap ActiveSims)
  /\ UNCHANGED main

\* The auto-completion timer.  The registry's timer for the same simulation
\* was armed first, with the same delay, and Node runs timers of one delay in
\* the order they were armed: it has fired (or been cleared) by now.
AutoComplete(s) ==
  /\ activeTimeout[s] = 0
  /\ cleanupTimer[s] = Off
  /\ StopCpuProcesses({s})
  /\ CompleteSimulation(s)
  /\ LogEvent("SIMULATION_COMPLETED", {s} \cap ActiveSims)
  /\ UNCHANGED main

RegistryTimer(s) ==
  /\ CleanupTimerFires(s)
  /\ UNCHANGED <<main, cpuVars>>

\* Another service records a simulation of its own in the shared registry.
OtherSimulation(s, type, d) ==
  /\ main # "down"
  /\ type # CPU
  /\ CreateSimulation(s, type, d)
  /\ UNCHANGED <<main, cpuVars>>

\* DELETE /api/simulations/memory/:id with the id of any simulation:
\* MemoryPressureService.release stops the record whatever its type, and knows
\* nothing of processes.
MemoryRelease(s) ==
  /\ main # "down"
  /\ StopSimulation(s)
  /\ UNCHANGED <<main, cpuVars>>

KillTimer(w) ==
  /\ killTimer[w] = 0
  /\ killTimer' = [killTimer EXCEPT ![w] = Off]
  /\ proc' = [proc EXCEPT ![w] = "dead"]
  /\ orphans' = orphans \ {w}
  /\ UNCHANGED <<trackerVars, main, activeProcesses, activeTimeout, owner,
                 stopQueued, eventLog>>

----------------------------------------------------------------------------
(* The workers.                                                            *)

\* The script is loaded, reports 'ready' and enters the burn loop.
WorkerBoots(w) ==
  /\ proc[w] = "booting"
  /\ proc' = [proc EXCEPT ![w] = "burning"]
  /\ UNCHANGED <<trackerVars, main, activeProcesses, activeTimeout, owner,
                 stopQueued, killTimer, orphans, eventLog>>

\* A worker ends for reasons of its own (it fails to load, the OS kills it);
\* main's 'exit' handler only notes it, and the entry keeps the handle.
WorkerDies(w) ==
  /\ Live(w)
  /\ proc' = [proc EXCEPT ![w] = "dead"]
  /\ orphans' = orphans \ {w}
  /\ UNCHANGED <<trackerVars, main, activeProcesses, activeTimeout, owner,
                 stopQueued, killTimer, eventLog>>

----------------------------------------------------------------------------
(* The main process dies and is started again.                             *)

\* POST /api/simulations/crash/*: the crash itself waits for setImmediate.
CrashRequest ==
  /\ main = "up"
  /\ main' = "crashing"
  /\ UNCHANGED <<trackerVars, cpuVars>>

\* Everything in memory is lost; the children are not: they are not told,
\* and no signal of the OS ends them.
Crash ==
  /\ main = "crashing"
  /\ main' = "down"
  /\ Clear
  /\ activeProcesses' = [s \in Sim |-> {}]
  /\ activeTimeout' = [s \in Sim |-> Off]
  /\ killTimer' = [w \in Worker |-> Off]
  /\ orphans' = {w \in Worker : Live(w)}
  /\ eventLog' = {}
  /\ UNCHANGED <<proc, owner, stopQueued>>

Restart ==
  /\ main = "down"
  /\ main' = "up"
  /\ UNCHANGED <<trackerVars, cpuVars>>

Tick ==
  /\ TrackerTick
  /\ activeTimeout' = [s \in Sim |-> CountDown(activeTimeout[s])]
  /\ killTimer' = [w \in Worker |-> CountDown(killTimer[w])]
  /\ UNCHANGED <<main, activeProcesses, proc, owner, stopQueued, orphans, eventLog>>

----------------------------------------------------------------------------
Next ==
  \/ \E s \in Sim, intensity \in Intensity, d \in Duration : Start(s, intensity, d)
  \/ \E s \in Sim : StopRequest(s)
  \/ StopAll
  \/ \E s \in Sim : AutoComplete(s)
  \/ \E s \in Sim : RegistryTimer(s)
  \/ \E s \in Sim, type \in SimType, d \in Duration : OtherSimulation(s, type, d)
  \/ \E s \in Sim : MemoryRelease(s)
  \/ \E w \in Worker : KillTimer(w)
  \/ \E w \in Worker : WorkerBoots(w)
  \/ \E w \in Worker : WorkerDies(w)
  \/ CrashRequest
  \/ Crash
  \/ Restart
  \/ Tick

\* Time passes and main's event loop reaches every due timer and every
\* setImmediate.  Nothing is assumed of clients, of the workers or of the
\* platform that restarts main.
Fairness ==
  /\ WF_vars(Tick)
  /\ WF_vars(Crash)
  /\ \A s \in Sim : WF_vars(AutoComplete(s)) /\ WF_vars(RegistryTimer(s))
  /\ \A w \in Worker : WF_vars(KillTimer(w))

Spec == Init /\ [][Next]_vars /\ Fairness

----------------------------------------------------------------------------
(* Properties.                                                             *)

\* No worker is lost: while main runs, each live child it forked is held by
\* exactly the entry of its simulation, whose auto-completion timer is armed,
\* or already has its SIGKILL timer armed.  Only a crash of main makes orphans.
NoWorkerLost ==
  \A w \in Worker : Live(w) /\ w \notin orphans =>
    \/ killTimer[w] # Off
    \/ /\ w \in activeProcesses[owner[w]]
       /\ activeTimeout[owner[w]] # Off
       /\ \A s \in Sim : w \in activeProcesses[s] => s = owner[w]

\* Stopping one simulation never hurts another: no worker of an ACTIVE
\* simulation has a SIGKILL coming, though ids and handles are shared by
\* several timers of several simulations.
ActiveWorkersAreSafe ==
  \A w \in Worker : killTimer[w] # Off => owner[w] \notin ActiveSims

\* "stopped by user" is logged only for CPU stress simulations whose record says
\* STOPPED, although two timers and the DELETE of another service race the stop
\* for the record.  (Of completions there is nothing to say: the service never
\* logs one, see CompletionAnnounced.)
LogMatchesRegistry ==
  \A s \in Sim : <<"SIMULATION_STOPPED", s>> \in eventLog =>
    status[s] = "STOPPED" /\ simType[s] = CPU

\* Workers do not outlive their simulation: once it is no longer ACTIVE each
\* of its workers ends, unless main crashes first and leaves it an orphan.
WorkersReclaimed ==
  \A w \in Worker :
    (Live(w) /\ owner[w] \notin ActiveSims) ~> (~Live(w) \/ w \in orphans)

\* public/js/dashboard.js:657 relies on this: the end of every CPU stress
\* simulation that runs its course is announced by a SIMULATION_COMPLETED event.
\* It does not hold: the run cpu_completion shows how.
CompletionAnnounced ==
  \A s \in Sim :
    (status[s] = "COMPLETED" /\ simType[s] = CPU)
      ~> (<<"SIMULATION_COMPLETED", s>> \in eventLog \/ main # "up")
=============================================================================
