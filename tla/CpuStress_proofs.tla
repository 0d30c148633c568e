-------------------------- MODULE CpuStress_proofs --------------------------
(***************************************************************************)
(* Theorems about the CPU stress service, for any number of simulations,   *)
(* workers, stops and crashes.                                             *)
(***************************************************************************)
EXTENDS CpuStress, TLAPS

\* Every handle in an entry belongs to the simulation of that entry.
HandlesOwned ==
  \A s \in Sim, w \in Worker :
    w \in activeProcesses[s] => owner[w] = s /\ proc[w] # "unused"

\* A worker that was forked was forked for a simulation that had begun.
ForkedForBegun ==
  \A w \in Worker :
    IF proc[w] = "unused" THEN killTimer[w] = Off
    ELSE owner[w] \in Sim /\ status[owner[w]] # "unborn"

\* NoWorkerLost and ActiveWorkersAreSafe hold only together with these two.
IInv ==
  /\ NoWorkerLost
  /\ ActiveWorkersAreSafe
  /\ HandlesOwned
  /\ ForkedForBegun

----------------------------------------------------------------------------
(* The registry's part of a step.                                          *)

LEMMA DelayIsNat == \A d \in Duration : NodeDelay(d) \in Nat
BY DurationAssumption DEF NodeDelay

LEMMA CreateTyped ==
  ASSUME TrackerTypeOK, NEW s \in Sim, NEW type \in SimType,
         NEW d \in Duration, CreateSimulation(s, type, d)
  PROVE  TrackerTypeOK'
BY DelayIsNat, DurationAssumption
DEF TrackerTypeOK, CreateSimulation, Status, Outcome, Off

LEMMA UpdateTyped ==
  ASSUME TrackerTypeOK, NEW s \in Sim, NEW outcome \in Outcome,
         UpdateSimulationStatus(s, outcome)
  PROVE  /\ TrackerTypeOK'
         /\ status'[s] # "ACTIVE"
         /\ status'[s] = "unborn" => status[s] = "unborn"
         /\ \A t \in Sim \ {s} : status'[t] = status[t]
BY DEF TrackerTypeOK, UpdateSimulationStatus, trackerVars, Status, Outcome, Off

LEMMA StopAllTyped ==
  ASSUME CpuTypeOK, StopAll
  PROVE  /\ TrackerTypeOK'
         /\ \A s \in Sim : status'[s] # "ACTIVE" \/
                           (status[s] = "ACTIVE" /\ simType[s] # CPU)
         /\ \A s \in Sim : status'[s] = "unborn" => status[s] = "unborn"
BY DEF CpuTypeOK, StopAll, TrackerTypeOK, Status, Outcome, Off, ActiveSims

LEMMA TickTyped == TrackerTypeOK /\ TrackerTick => TrackerTypeOK'
BY DEF TrackerTypeOK, TrackerTick, CountDown, Off

LEMMA ClearTyped == TrackerTypeOK /\ Clear => TrackerTypeOK'
BY DEF TrackerTypeOK, Clear, Off

----------------------------------------------------------------------------
(* The service's part: stopCpuProcesses.                                   *)

LEMMA StopTyped ==
  ASSUME CpuTypeOK, NEW sims \in SUBSET Sim, StopCpuProcesses(sims)
  PROVE  /\ activeProcesses' \in [Sim -> SUBSET Worker]
         /\ activeTimeout' \in [Sim -> Nat \cup {Off}]
         /\ proc' \in [Worker -> {"unused", "booting", "burning", "dead"}]
         /\ owner' \in [Worker -> Sim \cup {NoOwner}]
         /\ stopQueued' \in SUBSET Worker
         /\ killTimer' \in [Worker -> Nat \cup {Off}]
         /\ orphans' \in SUBSET Worker
BY KillDelayAssumption DEF CpuTypeOK, StopCpuProcesses

\* Stopping the processes of simulations that are ACTIVE no longer keeps IInv.
LEMMA StopKeepsIInv ==
  ASSUME CpuTypeOK, IInv, NEW sims \in SUBSET Sim, StopCpuProcesses(sims),
         \A s \in Sim : status'[s] = "ACTIVE" => status[s] = "ACTIVE" /\ s \notin sims,
         \A s \in Sim : status'[s] = "unborn" => status[s] = "unborn"
  PROVE  IInv'
<1> DEFINE children == UNION {activeProcesses[s] : s \in sims}
<1> USE DEF CpuTypeOK, StopCpuProcesses, Off
<1>1. \A w \in children : owner[w] \in sims /\ proc[w] # "unused"
  BY DEF IInv, HandlesOwned
<1>2. \A w \in Worker, s \in sims : w \in activeProcesses[s] => w \in children
  OBVIOUS
<1>3. NoWorkerLost'
  <2> SUFFICES ASSUME NEW w \in Worker, Live(w)', w \notin orphans', killTimer'[w] = Off
               PROVE  /\ w \in activeProcesses'[owner'[w]]
                      /\ activeTimeout'[owner'[w]] # Off
                      /\ \A s \in Sim : w \in activeProcesses'[s] => s = owner'[w]
    BY DEF NoWorkerLost
  <2>1. /\ w \notin children /\ killTimer[w] = Off
        /\ Live(w) /\ w \notin orphans /\ owner'[w] = owner[w]
    BY KillDelayAssumption DEF Live
  <2>2. owner[w] \in Sim
    BY <2>1 DEF IInv, ForkedForBegun, Live
  <2>3. owner[w] \notin sims
    BY <2>1, <2>2, <1>2 DEF IInv, NoWorkerLost
  <2>4. QED
    BY <2>1, <2>2, <2>3 DEF IInv, NoWorkerLost
<1>4. ActiveWorkersAreSafe'
  BY <1>1 DEF IInv, ActiveWorkersAreSafe, ActiveSims
<1>5. HandlesOwned'
  BY DEF IInv, HandlesOwned
<1>6. ForkedForBegun'
  BY <1>1 DEF IInv, ForkedForBegun
<1>7. QED
  BY <1>3, <1>4, <1>5, <1>6 DEF IInv

----------------------------------------------------------------------------
LEMMA TypeInductive ==
  ASSUME CpuTypeOK, [Next]_vars
  PROVE  CpuTypeOK'
<1>1. ASSUME NEW s \in Sim, NEW intensity \in Intensity, NEW d \in Duration,
             Start(s, intensity, d)
      PROVE  CpuTypeOK'
  <2>1. TrackerTypeOK'
    BY <1>1, CreateTyped, SimTypeAssumption DEF Start, CPU, CpuTypeOK
  <2>2. QED
    BY <1>1, <2>1, DelayIsNat
    DEF CpuTypeOK, Start, StartCpuProcesses, LogEvent, Event, Free
<1>2. ASSUME NEW s \in Sim, StopRequest(s) PROVE CpuTypeOK'
  <2>1. TrackerTypeOK'
    BY <1>2, UpdateTyped DEF StopRequest, StopSimulation, CpuTypeOK, Outcome
  <2>2. QED
    BY <1>2, <2>1, StopTyped DEF CpuTypeOK, StopRequest, LogEvent, Event
<1>3. CASE StopAll
  <2> DEFINE running == {s \in ActiveSims : simType[s] = CPU}
  <2>1. running \in SUBSET Sim
    BY DEF ActiveSims
  <2>2. StopCpuProcesses(running) /\ LogEvent("SIMULATION_STOPPED", running)
        /\ main' = main
    BY <1>3 DEF StopAll
  <2>3. QED
    BY <1>3, <2>1, <2>2, StopTyped, StopAllTyped DEF CpuTypeOK, LogEvent, Event
<1>4. ASSUME NEW s \in Sim, AutoComplete(s) PROVE CpuTypeOK'
  <2>1. TrackerTypeOK'
    BY <1>4, UpdateTyped DEF AutoComplete, CompleteSimulation, CpuTypeOK, Outcome
  <2>2. QED
    BY <1>4, <2>1, StopTyped DEF CpuTypeOK, AutoComplete, LogEvent, Event, ActiveSims
<1>5. ASSUME NEW s \in Sim, RegistryTimer(s) PROVE CpuTypeOK'
  BY <1>5, UpdateTyped
  DEF CpuTypeOK, RegistryTimer, CleanupTimerFires, CompleteSimulation, Outcome, cpuVars
<1>6. ASSUME NEW s \in Sim, NEW type \in SimType, NEW d \in Duration,
             OtherSimulation(s, type, d)
      PROVE  CpuTypeOK'
  BY <1>6, CreateTyped DEF CpuTypeOK, OtherSimulation, cpuVars
<1>m. ASSUME NEW s \in Sim, MemoryRelease(s) PROVE CpuTypeOK'
  BY <1>m, UpdateTyped
  DEF CpuTypeOK, MemoryRelease, StopSimulation, Outcome, cpuVars
<1>7. ASSUME NEW w \in Worker,
             KillTimer(w) \/ WorkerBoots(w) \/ WorkerDies(w)
      PROVE  CpuTypeOK'
  BY <1>7 DEF CpuTypeOK, KillTimer, WorkerBoots, WorkerDies, trackerVars, TrackerTypeOK
<1>8. CASE Crash
  BY <1>8, ClearTyped DEF CpuTypeOK, Crash
<1>9. CASE CrashRequest \/ Restart
  BY <1>9 DEF CpuTypeOK, CrashRequest, Restart, trackerVars, cpuVars, TrackerTypeOK
<1>10. CASE Tick
  BY <1>10, TickTyped DEF CpuTypeOK, Tick, CountDown, Off
<1>11. CASE UNCHANGED vars
  BY <1>11 DEF CpuTypeOK, vars, trackerVars, cpuVars, TrackerTypeOK
<1>12. QED
  BY <1>1, <1>2, <1>3, <1>4, <1>5, <1>6, <1>m, <1>7, <1>8, <1>9, <1>10, <1>11 DEF Next

\* All Maps, processes and timers always have the shapes the code gives them.
THEOREM TypeCorrect == Spec => []CpuTypeOK
<1>1. Init => CpuTypeOK
  BY DEF Init, CpuTypeOK, TrackerInit, TrackerTypeOK, NoType, Off
<1>2. QED
  BY <1>1, TypeInductive, PTL DEF Spec

----------------------------------------------------------------------------
LEMMA StartKeepsIInv ==
  ASSUME CpuTypeOK, IInv, NEW s \in Sim, NEW intensity \in Intensity,
         NEW d \in Duration, Start(s, intensity, d)
  PROVE  IInv'
<1>1. PICK forked \in SUBSET Free :
        /\ activeProcesses' = [activeProcesses EXCEPT ![s] = forked]
        /\ proc' = [w \in Worker |-> IF w \in forked THEN "booting" ELSE proc[w]]
        /\ owner' = [w \in Worker |-> IF w \in forked THEN s ELSE owner[w]]
        /\ activeTimeout' = [activeTimeout EXCEPT ![s] = NodeDelay(d)]
        /\ UNCHANGED <<stopQueued, killTimer, orphans>>
  BY DEF Start, StartCpuProcesses
<1>2. status[s] = "unborn" /\ status' = [status EXCEPT ![s] = "ACTIVE"]
  BY DEF Start, CreateSimulation
<1>3. NodeDelay(d) # Off
  BY DelayIsNat DEF Off
<1>4. \A w \in forked : w \in Worker /\ proc[w] = "unused"
  BY DEF Free
<1>5. \A w \in Worker : proc[w] # "unused" => owner[w] # s
  BY <1>2 DEF IInv, ForkedForBegun
<1> USE <1>1, <1>2, <1>3, <1>4, <1>5 DEF CpuTypeOK, TrackerTypeOK
<1>6. NoWorkerLost'
  <2> SUFFICES ASSUME NEW w \in Worker, Live(w)', w \notin orphans, killTimer[w] = Off
               PROVE  /\ w \in activeProcesses'[owner'[w]]
                      /\ activeTimeout'[owner'[w]] # Off
                      /\ \A t \in Sim : w \in activeProcesses'[t] => t = owner'[w]
    BY DEF NoWorkerLost
  <2>1. CASE w \in forked
    BY <2>1 DEF IInv, HandlesOwned
  <2>2. CASE w \notin forked
    <3>1. Live(w) /\ owner'[w] = owner[w] /\ owner[w] # s
      BY <2>2 DEF Live
    <3>2. owner[w] \in Sim
      BY <3>1 DEF IInv, ForkedForBegun, Live
    <3>3. QED
      BY <2>2, <3>1, <3>2 DEF IInv, NoWorkerLost
  <2>3. QED
    BY <2>1, <2>2
<1>7. ActiveWorkersAreSafe'
  BY DEF IInv, ActiveWorkersAreSafe, ActiveSims, ForkedForBegun
<1>8. HandlesOwned'
  BY DEF IInv, HandlesOwned
<1>9. ForkedForBegun'
  BY DEF IInv, ForkedForBegun
<1>10. QED
  BY <1>6, <1>7, <1>8, <1>9 DEF IInv

\* Steps of the registry alone: the service's variables stay as they are and
\* no simulation that began becomes ACTIVE.
LEMMA RegistryKeepsIInv ==
  ASSUME CpuTypeOK, IInv, UNCHANGED cpuVars,
         \A s \in Sim : status'[s] = "ACTIVE" => status[s] \in {"ACTIVE", "unborn"},
         \A s \in Sim : status'[s] = "unborn" => status[s] = "unborn"
  PROVE  IInv'
<1>1. NoWorkerLost' /\ HandlesOwned'
  BY DEF cpuVars, IInv, NoWorkerLost, HandlesOwned, Live
<1>2. ActiveWorkersAreSafe' /\ ForkedForBegun'
  BY DEF cpuVars, IInv, ActiveWorkersAreSafe, ForkedForBegun, ActiveSims
<1>3. QED
  BY <1>1, <1>2 DEF IInv

LEMMA IInvInductive ==
  ASSUME CpuTypeOK, IInv, [Next]_vars
  PROVE  IInv'
<1>1. ASSUME NEW s \in Sim, NEW intensity \in Intensity, NEW d \in Duration,
             Start(s, intensity, d)
      PROVE  IInv'
  BY <1>1, StartKeepsIInv
<1>2. ASSUME NEW s \in Sim, StopRequest(s) PROVE IInv'
  BY <1>2, UpdateTyped, StopKeepsIInv
  DEF StopRequest, StopSimulation, CpuTypeOK, Outcome
<1>3. CASE StopAll
  <2> DEFINE running == {s \in ActiveSims : simType[s] = CPU}
  <2>1. running \in SUBSET Sim /\ StopCpuProcesses(running)
    BY <1>3 DEF StopAll, ActiveSims
  <2>2. \A s \in Sim : status'[s] = "ACTIVE" => status[s] = "ACTIVE" /\ s \notin running
    BY <1>3, StopAllTyped
  <2>3. QED
    BY <1>3, <2>1, <2>2, StopAllTyped, StopKeepsIInv
<1>4. ASSUME NEW s \in Sim, AutoComplete(s) PROVE IInv'
  BY <1>4, UpdateTyped, StopKeepsIInv
  DEF AutoComplete, CompleteSimulation, CpuTypeOK, Outcome
<1>5. ASSUME NEW s \in Sim, RegistryTimer(s) PROVE IInv'
  BY <1>5, UpdateTyped, RegistryKeepsIInv
  DEF RegistryTimer, CleanupTimerFires, CompleteSimulation, CpuTypeOK, Outcome
<1>6. ASSUME NEW s \in Sim, NEW type \in SimType, NEW d \in Duration,
             OtherSimulation(s, type, d)
      PROVE  IInv'
  BY <1>6, RegistryKeepsIInv
  DEF OtherSimulation, CreateSimulation, CpuTypeOK, TrackerTypeOK
<1>m. ASSUME NEW s \in Sim, MemoryRelease(s) PROVE IInv'
  BY <1>m, UpdateTyped, RegistryKeepsIInv
  DEF MemoryRelease, StopSimulation, CpuTypeOK, Outcome
<1>7. ASSUME NEW w \in Worker,
             KillTimer(w) \/ WorkerBoots(w) \/ WorkerDies(w)
      PROVE  IInv'
  <2> USE <1>7 DEF CpuTypeOK, TrackerTypeOK, KillTimer, WorkerBoots, WorkerDies,
                   trackerVars, IInv
  <2>1. NoWorkerLost'
    BY DEF NoWorkerLost, Live, Off
  <2>2. ActiveWorkersAreSafe' /\ HandlesOwned'
    BY DEF ActiveWorkersAreSafe, HandlesOwned, ActiveSims, Live, ForkedForBegun, Off
  <2>3. ForkedForBegun'
    BY DEF ForkedForBegun, Live, Off
  <2>4. QED
    BY <2>1, <2>2, <2>3
<1>8. CASE Crash
  BY <1>8
  DEF Crash, Clear, InMap, CpuTypeOK, TrackerTypeOK, IInv, NoWorkerLost, Live, Status,
      Outcome, ActiveWorkersAreSafe, ActiveSims, HandlesOwned, ForkedForBegun, Off
<1>9. CASE CrashRequest \/ Restart
  BY <1>9, RegistryKeepsIInv DEF CrashRequest, Restart, trackerVars, CpuTypeOK
<1>10. CASE Tick
  BY <1>10
  DEF Tick, TrackerTick, CountDown, CpuTypeOK, TrackerTypeOK, IInv, NoWorkerLost, Live,
      ActiveWorkersAreSafe, ActiveSims, HandlesOwned, ForkedForBegun, Off
<1>11. CASE UNCHANGED vars
  BY <1>11, RegistryKeepsIInv DEF vars, trackerVars
<1>12. QED
  BY <1>1, <1>2, <1>3, <1>4, <1>5, <1>6, <1>m, <1>7, <1>8, <1>9, <1>10, <1>11 DEF Next

\* The strengthening of NoWorkerLost and ActiveWorkersAreSafe is invariant.
THEOREM IInvAlways == Spec => []IInv
<1>1. Init => IInv
  BY DEF Init, IInv, NoWorkerLost, ActiveWorkersAreSafe, HandlesOwned,
         ForkedForBegun, Live
<1>2. QED
  BY <1>1, TypeCorrect, IInvInductive, PTL DEF Spec

\* However stops, completions, failed forks and crashes interleave, no live
\* worker is out of the reach of the timers that will end it.
THEOREM WorkersAccountedFor == Spec => []NoWorkerLost
BY IInvAlways, PTL DEF IInv

\* Ending one simulation never kills a worker of another that is ACTIVE.
THEOREM StopsAreIsolated == Spec => []ActiveWorkersAreSafe
BY IInvAlways, PTL DEF IInv

----------------------------------------------------------------------------
\* The log and the registry agree; an id without a record has no entries.
LogInv ==
  /\ LogMatchesRegistry
  /\ \A s \in Sim, e \in Event : status[s] = "unborn" => <<e, s>> \notin eventLog

LEMMA LogInductive ==
  ASSUME CpuTypeOK, LogInv, [Next]_vars
  PROVE  LogInv'
<1> USE DEF LogInv, LogMatchesRegistry, Event, CpuTypeOK, TrackerTypeOK, LogEvent
<1>1. ASSUME NEW s \in Sim, NEW intensity \in Intensity, NEW d \in Duration,
             Start(s, intensity, d)
      PROVE  LogInv'
  BY <1>1 DEF Start, CreateSimulation
<1>2. ASSUME NEW s \in Sim, StopRequest(s) PROVE LogInv'
  BY <1>2 DEF StopRequest, StopSimulation, UpdateSimulationStatus
<1>3. CASE StopAll
  BY <1>3 DEF StopAll, ActiveSims
<1>4. ASSUME NEW s \in Sim, AutoComplete(s) PROVE LogInv'
  BY <1>4
  DEF AutoComplete, CompleteSimulation, UpdateSimulationStatus, ActiveSims, trackerVars
<1>5. ASSUME NEW s \in Sim, RegistryTimer(s) PROVE LogInv'
  BY <1>5
  DEF RegistryTimer, CleanupTimerFires, CompleteSimulation, UpdateSimulationStatus,
      trackerVars, cpuVars
<1>6. ASSUME NEW s \in Sim, NEW type \in SimType, NEW d \in Duration,
             OtherSimulation(s, type, d)
      PROVE  LogInv'
  BY <1>6 DEF OtherSimulation, CreateSimulation, cpuVars
<1>m. ASSUME NEW s \in Sim, MemoryRelease(s) PROVE LogInv'
  BY <1>m
  DEF MemoryRelease, StopSimulation, UpdateSimulationStatus, trackerVars, cpuVars
<1>7. ASSUME NEW w \in Worker,
             KillTimer(w) \/ WorkerBoots(w) \/ WorkerDies(w)
      PROVE  LogInv'
  BY <1>7 DEF KillTimer, WorkerBoots, WorkerDies, trackerVars
<1>8. CASE Crash
  BY <1>8 DEF Crash, Clear, InMap, Status, Outcome
<1>9. CASE CrashRequest \/ Restart \/ UNCHANGED vars
  BY <1>9 DEF CrashRequest, Restart, vars, trackerVars, cpuVars
<1>10. CASE Tick
  BY <1>10 DEF Tick, TrackerTick
<1>11. QED
  BY <1>1, <1>2, <1>3, <1>4, <1>5, <1>6, <1>m, <1>7, <1>8, <1>9, <1>10 DEF Next

\* "Stopped by user" is in the log only for CPU stress simulations that were
\* stopped, and "completed" only for those that completed.
THEOREM LogIsTruthful == Spec => []LogMatchesRegistry
<1>1. Init => LogInv
  BY DEF Init, TrackerInit, LogInv, LogMatchesRegistry
<1>2. QED
  BY <1>1, TypeCorrect, LogInductive, PTL DEF Spec, LogInv

----------------------------------------------------------------------------
(* The registry's timers under the service.                                *)

LEMMA TimersInductive ==
  ASSUME CpuTypeOK, TimerIffActive, [Next]_vars
  PROVE  TimerIffActive'
<1> USE DEF TimerIffActive, CpuTypeOK, TrackerTypeOK, Off
<1>1. ASSUME NEW s \in Sim, NEW type, NEW d \in Duration, CreateSimulation(s, type, d)
      PROVE  TimerIffActive'
  BY <1>1, DelayIsNat DEF CreateSimulation
<1>2. ASSUME NEW s \in Sim, NEW outcome \in Outcome, UpdateSimulationStatus(s, outcome)
      PROVE  TimerIffActive'
  BY <1>2 DEF UpdateSimulationStatus, Outcome, trackerVars
<1>3. CASE StopAll
  BY <1>3 DEF StopAll, ActiveSims
<1>4. CASE Crash
  BY <1>4 DEF Crash, Clear, InMap, Status, Outcome
<1>5. CASE Tick
  BY <1>5 DEF Tick, TrackerTick, CountDown
<1>6. ASSUME UNCHANGED <<status, cleanupTimer>> PROVE TimerIffActive'
  BY <1>6
<1>7. QED
  BY <1>1, <1>2, <1>3, <1>4, <1>5, <1>6
  DEF Next, vars, trackerVars, Start, StopRequest, AutoComplete, RegistryTimer,
      OtherSimulation, MemoryRelease, KillTimer, WorkerBoots, WorkerDies, CrashRequest,
      Restart, StopSimulation, CompleteSimulation, CleanupTimerFires, Outcome

\* Stops of several simulations in one step, releases of foreign ids and crashes
\* leave no registry timer behind and disarm none that is needed.
THEOREM TimersMatchStatus == Spec => []TimerIffActive
<1>1. Init => TimerIffActive
  BY DEF Init, TrackerInit, TimerIffActive, Off
<1>2. QED
  BY <1>1, TimersInductive, TypeCorrect, PTL DEF Spec

----------------------------------------------------------------------------
\* The service logs no completion.
NoCompletionLogged == \A s \in Sim : <<"SIMULATION_COMPLETED", s>> \notin eventLog

LEMMA CompletionsInductive ==
  ASSUME TimerIffActive, NoCompletionLogged, [Next]_vars
  PROVE  NoCompletionLogged'
<1> USE DEF NoCompletionLogged, LogEvent
<1>1. ASSUME NEW s \in Sim, AutoComplete(s) PROVE NoCompletionLogged'
  <2>1. s \notin ActiveSims
    BY <1>1 DEF AutoComplete, TimerIffActive, ActiveSims
  <2> QED BY <1>1, <2>1 DEF AutoComplete
<1>2. CASE Crash
  BY <1>2 DEF Crash
<1>3. ASSUME NEW s \in Sim, NEW intensity \in Intensity, NEW d \in Duration,
             Start(s, intensity, d)
      PROVE  NoCompletionLogged'
  BY <1>3 DEF Start
<1>4. ASSUME NEW sims, LogEvent("SIMULATION_STOPPED", sims) PROVE NoCompletionLogged'
  BY <1>4
<1>5. ASSUME UNCHANGED eventLog PROVE NoCompletionLogged'
  BY <1>5
<1>6. QED
  BY <1>1, <1>2, <1>3, <1>4, <1>5
  DEF Next, vars, cpuVars, StopRequest, StopAll, RegistryTimer, OtherSimulation,
      MemoryRelease, KillTimer, WorkerBoots, WorkerDies, CrashRequest, Restart, Tick

\* cpu-stress.service.ts:207 is never reached with a simulation to complete: the
\* registry's timer has always ended it before, so no instance whatever logs the
\* completion that the run cpu_completion waits for.
THEOREM CompletionNeverLogged == Spec => []NoCompletionLogged
<1>1. Init => NoCompletionLogged
  BY DEF Init, NoCompletionLogged
<1>2. QED
  BY <1>1, CompletionsInductive, TimersMatchStatus, PTL DEF Spec

----------------------------------------------------------------------------
LEMMA UpdateIsLifecycle ==
  ASSUME TrackerTypeOK, NEW s \in Sim, NEW outcome \in Outcome,
         UpdateSimulationStatus(s, outcome)
  PROVE  [Lifecycle!Next]_status
BY DEF UpdateSimulationStatus, TrackerTypeOK, trackerVars, Outcome, Lifecycle!Outcome,
       Lifecycle!End, Lifecycle!Next

LEMMA StepIsLifecycle ==
  ASSUME CpuTypeOK, [Next]_vars
  PROVE  [Lifecycle!Next]_status
<1> USE DEF CpuTypeOK
<1>1. ASSUME NEW s \in Sim, NEW type, NEW d, CreateSimulation(s, type, d)
      PROVE  Lifecycle!Next
  BY <1>1 DEF CreateSimulation, TrackerTypeOK, Lifecycle!Begin, Lifecycle!Next
<1>2. CASE StopAll
  <2> DEFINE running == {s \in ActiveSims : simType[s] = CPU}
  <2>1. Lifecycle!EndAll(running, "STOPPED")
    BY <1>2 DEF StopAll, ActiveSims, Lifecycle!EndAll
  <2> QED BY <2>1 DEF ActiveSims, Lifecycle!Next
<1>3. CASE Crash
  <2> DEFINE gone == {s \in Sim : InMap(s)}
  <2>1. Lifecycle!Forget(gone)
    BY <1>3 DEF Crash, Clear, InMap, Status, Outcome, Lifecycle!Forget
  <2> QED BY <2>1 DEF Lifecycle!Next
<1>4. ASSUME UNCHANGED status PROVE [Lifecycle!Next]_status
  BY <1>4
<1>5. QED
  BY <1>1, <1>2, <1>3, <1>4, UpdateIsLifecycle
  DEF Next, vars, trackerVars, Start, StopRequest, AutoComplete, RegistryTimer,
      OtherSimulation, MemoryRelease, KillTimer, WorkerBoots, WorkerDies, CrashRequest,
      Restart, Tick, TrackerTick, StopSimulation, CompleteSimulation, CleanupTimerFires,
      Outcome

\* The registry keeps its promises to its callers with the CPU stress service
\* on top of it, which stops several simulations in one step and loses all of
\* them in a crash.
THEOREM RefinesLifecycle == Spec => ImplementsLifecycle
<1>1. Init => Lifecycle!Init
  BY DEF Init, TrackerInit, Lifecycle!Init
<1>2. QED
  BY <1>1, StepIsLifecycle, TypeCorrect, PTL DEF Spec, ImplementsLifecycle, Lifecycle!Spec
=============================================================================
