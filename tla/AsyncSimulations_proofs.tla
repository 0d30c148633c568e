----------------------- MODULE AsyncSimulations_proofs -----------------------
(***************************************************************************)
(* Theorems about the simulation registry (SimulationTracker), for every   *)
(* set of ids, types and durations, and about the simulations answered     *)
(* when their work is done (AsyncSimulations), for any number of them, of  *)
(* chains and of requests in a batch.                                      *)
(***************************************************************************)
EXTENDS AsyncSimulations, FiniteSetTheorems, TLAPS

(***************************************************************************)
(* The registry alone.                                                     *)
(***************************************************************************)
LEMMA RegistryTypeInductive ==
  ASSUME TrackerTypeOK, [TrackerNext]_trackerVars
  PROVE  TrackerTypeOK'
<1> USE DEF TrackerTypeOK, Status, Outcome, Off, NoType
<1>1. ASSUME NEW s \in Sim, NEW type \in SimType, NEW d \in Duration,
             CreateSimulation(s, type, d)
      PROVE  TrackerTypeOK'
  BY <1>1, DurationAssumption DEF CreateSimulation, NodeDelay
<1>2. ASSUME NEW s \in Sim, NEW outcome \in Outcome,
             UpdateSimulationStatus(s, outcome)
      PROVE  TrackerTypeOK'
  BY <1>2 DEF UpdateSimulationStatus, trackerVars
<1>3. ASSUME NEW s \in Sim, RemoveSimulation(s) PROVE TrackerTypeOK'
  BY <1>3 DEF RemoveSimulation
<1>4. CASE Clear
  BY <1>4 DEF Clear
<1>5. CASE TrackerTick
  BY <1>5 DEF TrackerTick, CountDown
<1>6. CASE UNCHANGED trackerVars
  BY <1>6 DEF trackerVars
<1>7. QED
  BY <1>1, <1>2, <1>3, <1>4, <1>5, <1>6
  DEF TrackerNext, StopSimulation, CompleteSimulation, FailSimulation,
      CleanupTimerFires

\* The two Maps always hold values of the shapes the service declares.
THEOREM RegistryTypeCorrect == TrackerSpec => []TrackerTypeOK
<1>1. TrackerInit => TrackerTypeOK
  BY DEF TrackerInit, TrackerTypeOK, Status, Outcome, Off, NoType
<1>2. QED
  BY <1>1, RegistryTypeInductive, PTL DEF TrackerSpec

LEMMA TimersInductive ==
  ASSUME TrackerTypeOK, TimerIffActive, [TrackerNext]_trackerVars
  PROVE  TimerIffActive'
<1> USE DEF TrackerTypeOK, TimerIffActive, Off, Status, Outcome
<1>1. ASSUME NEW s \in Sim, NEW type \in SimType, NEW d \in Duration,
             CreateSimulation(s, type, d)
      PROVE  TimerIffActive'
  BY <1>1, DurationAssumption DEF CreateSimulation, NodeDelay
<1>2. ASSUME NEW s \in Sim, NEW outcome \in Outcome,
             UpdateSimulationStatus(s, outcome)
      PROVE  TimerIffActive'
  BY <1>2 DEF UpdateSimulationStatus, trackerVars
<1>3. ASSUME NEW s \in Sim, RemoveSimulation(s) PROVE TimerIffActive'
  BY <1>3 DEF RemoveSimulation
<1>4. CASE Clear
  BY <1>4 DEF Clear, InMap
<1>5. CASE TrackerTick
  BY <1>5 DEF TrackerTick, CountDown
<1>6. CASE UNCHANGED trackerVars
  BY <1>6 DEF trackerVars
<1>7. QED
  BY <1>1, <1>2, <1>3, <1>4, <1>5, <1>6
  DEF TrackerNext, StopSimulation, CompleteSimulation, FailSimulation,
      CleanupTimerFires

\* Every way a simulation ends disarms its timer and every simulation created
\* has one armed, whatever the number of simulations.
THEOREM TimersMatchStatus == TrackerSpec => []TimerIffActive
<1>1. TrackerInit => TimerIffActive
  BY DEF TrackerInit, TimerIffActive, Off
<1>2. QED
  BY <1>1, TimersInductive, RegistryTypeCorrect, PTL DEF TrackerSpec

----------------------------------------------------------------------------
\* Every step of the registry is a step of the lifecycle or leaves it alone.
LEMMA RegistryStepIsLifecycle ==
  ASSUME TrackerTypeOK, [TrackerNext]_trackerVars
  PROVE  [Lifecycle!Next]_status
<1> USE DEF TrackerTypeOK, Status, Outcome, Lifecycle!Outcome
<1>1. ASSUME NEW s \in Sim, NEW type \in SimType, NEW d \in Duration,
             CreateSimulation(s, type, d)
      PROVE  Lifecycle!Next
  BY <1>1 DEF CreateSimulation, Lifecycle!Begin, Lifecycle!Next
<1>2. ASSUME NEW s \in Sim, NEW outcome \in Outcome,
             UpdateSimulationStatus(s, outcome)
      PROVE  [Lifecycle!Next]_status
  BY <1>2 DEF UpdateSimulationStatus, trackerVars, Lifecycle!End, Lifecycle!Next
<1>3. ASSUME NEW s \in Sim, RemoveSimulation(s) PROVE Lifecycle!Next
  <2>1. Lifecycle!Forget({s})
    BY <1>3 DEF RemoveSimulation, InMap, Lifecycle!Forget
  <2>2. QED
    BY <2>1 DEF Lifecycle!Next
<1>4. ASSUME Clear PROVE Lifecycle!Next
  <2> DEFINE gone == {s \in Sim : InMap(s)}
  <2>1. Lifecycle!Forget(gone)
    BY <1>4 DEF Clear, InMap, Lifecycle!Forget
  <2>2. QED
    BY <2>1 DEF Lifecycle!Next
<1>5. CASE TrackerTick
  BY <1>5 DEF TrackerTick
<1>6. CASE UNCHANGED trackerVars
  BY <1>6 DEF trackerVars
<1>7. QED
  BY <1>1, <1>2, <1>3, <1>4, <1>5, <1>6
  DEF TrackerNext, StopSimulation, CompleteSimulation, FailSimulation,
      CleanupTimerFires

\* The registry implements its lifecycle: an id is used once, an outcome is
\* never overwritten.
THEOREM RegistryRefinesLifecycle == TrackerSpec => ImplementsLifecycle
<1>1. TrackerInit => Lifecycle!Init
  BY DEF TrackerInit, Lifecycle!Init
<1>2. QED
  BY <1>1, RegistryStepIsLifecycle, RegistryTypeCorrect, PTL
  DEF TrackerSpec, ImplementsLifecycle, Lifecycle!Spec

(***************************************************************************)
(* The awaited simulations.                                                *)
(***************************************************************************)

\* What may still settle the promise of a simulation.
Unsettled(s) ==
  \/ s \in sleeping
  \/ lanes[s] > 0
  \/ thread[s] \in {"running", "posted", "crashed"}
  \/ \E r \in Req : result[s][r] = "pending"

NoBatch(s) == \A r \in Req : result[s][r] = "none"

\* A simulation waits for a timer, for chains, for a thread or for a batch.
OneKind(s) ==
  /\ s \in sleeping => lanes[s] = 0 /\ thread[s] = "none"
  /\ lanes[s] > 0 => thread[s] = "none"
  /\ s \in sleeping \/ lanes[s] > 0 \/ thread[s] # "none" => NoBatch(s)

ErrorsOf(s) == {r \in Req : result[s][r] \in ServerError}

\* The promise settles once: as long as anything may settle it, there is no
\* answer, and once there is one, nothing changes that the answer is about.
SettlesOnce(s) ==
  /\ OneKind(s)
  /\ Unsettled(s) => answer[s] = "none"
  /\ \A r \in Req : socket[s][r] # "none" => result[s][r] # "none"
  /\ status[s] = "unborn" => /\ s \notin sleeping /\ lanes[s] = 0
                             /\ thread[s] = "none" /\ NoBatch(s)
                             /\ answer[s] = "none"
  /\ answer[s] = "none" => errorsLogged[s] = 0
  /\ answer[s] # "none" => status[s] # "ACTIVE"
  /\ answer[s] = "ok" => errorsLogged[s] = Cardinality(ErrorsOf(s))
  /\ <<"SIMULATION_COMPLETED", s>> \in verdicts <=> answer[s] = "ok"
  /\ <<"SIMULATION_FAILED", s>> \in verdicts <=> answer[s] = "error"
  /\ status[s] = "FAILED" => answer[s] = "error"

IInv ==
  /\ AsyncTypeOK
  /\ TimerIffActive
  /\ \A s \in Sim : SettlesOnce(s)

----------------------------------------------------------------------------
(* What the steps have in common.                                          *)

\* Whatever a step does to the registry is an operation of the registry.
LEMMA RegistryStep == [Next]_vars => [TrackerNext]_trackerVars
<1> SUFFICES ASSUME [Next]_vars PROVE [TrackerNext]_trackerVars
  OBVIOUS
<1> USE DEF TrackerNext
<1>1. ASSUME NEW s \in Sim, Fulfil(s) \/ Reject(s) \/ UNCHANGED trackerVars
      PROVE  [TrackerNext]_trackerVars
  BY <1>1 DEF Fulfil, Reject
<1>2. ASSUME NEW s \in Sim, NEW d \in Duration,
             \/ StartSlowTimer(s, d) \/ StartChains(s, "SLOW_REQUEST", Lanes, d)
             \/ StartChains(s, "EVENT_LOOP_BLOCKING", 1, d) \/ StartThread(s, d)
      PROVE  TrackerNext
  BY <1>2, AsyncTypeAssumption DEF StartSlowTimer, StartChains, StartThread
<1>3. ASSUME NEW s \in Sim, NEW batch \in SUBSET Req, StartBatch(s, batch)
      PROVE  TrackerNext
  BY <1>3, AsyncTypeAssumption, BatchAssumption DEF StartBatch
<1>4. ASSUME NEW s \in Sim,
             \/ SleepOver(s) \/ ChainEnds(s) \/ ThreadPosts(s)
             \/ OnThreadMessage(s) \/ OnThreadExit(s)
             \/ \E r \in Req : RequestEvent(s, r)
      PROVE  [TrackerNext]_trackerVars
  <2>1. Fulfil(s) \/ Reject(s) \/ UNCHANGED trackerVars
    BY <1>4 DEF SleepOver, ChainEnds, ThreadPosts, OnThreadMessage, OnThreadExit,
                Late, RequestEvent, trackerVars
  <2> QED BY <1>1, <2>1
<1>5. ASSUME NEW s \in Sim, RegistryTimer(s) \/ MemoryRelease(s) PROVE TrackerNext
  BY <1>5 DEF RegistryTimer, MemoryRelease
<1>6. CASE Tick
  BY <1>6 DEF Tick
<1>7. CASE UNCHANGED vars
  BY <1>7 DEF vars
<1> QED
  BY <1>2, <1>3, <1>4, <1>5, <1>6, <1>7 DEF Next

\* Nothing happens to a simulation.
Same(s) ==
  /\ status'[s] = status[s] /\ lanes'[s] = lanes[s] /\ thread'[s] = thread[s]
  /\ s \in sleeping' <=> s \in sleeping
  /\ result'[s] = result[s] /\ socket'[s] = socket[s]
  /\ answer'[s] = answer[s] /\ errorsLogged'[s] = errorsLogged[s]
  /\ \A v \in Verdict : <<v, s>> \in verdicts' <=> <<v, s>> \in verdicts

LEMMA SameKeeps ==
  ASSUME NEW s \in Sim, SettlesOnce(s), Same(s)
  PROVE  SettlesOnce(s)'
<1>1. ErrorsOf(s)' = ErrorsOf(s)
  BY DEF Same, ErrorsOf
<1> QED
  BY <1>1 DEF Same, SettlesOnce, OneKind, Unsettled, NoBatch, Verdict

\* One entry of a table changes.
LEMMA EntryUpdated ==
  ASSUME NEW A, NEW B, NEW C, NEW f \in [A -> [B -> C]], NEW a \in A, NEW b \in B, NEW v \in C
  PROVE  /\ [f EXCEPT ![a][b] = v] \in [A -> [B -> C]]
         /\ \A x \in A, y \in B :
              [f EXCEPT ![a][b] = v][x][y] = IF x = a /\ y = b THEN v ELSE f[x][y]
OBVIOUS

\* What an event of a request does to its promise and its connection.
LEMMA EventResult ==
  ASSUME AsyncTypeOK, NEW s \in Sim, NEW r \in Req, RequestEvent(s, r)
  PROVE  /\ result' \in [Sim -> [Req -> Settled \cup {"none", "pending"}]]
         /\ socket' \in [Sim -> [Req -> {"none", "open", "destroyed", "closed"}]]
         /\ socket[s][r] # "none"
         /\ \A t \in Sim, q \in Req :
              t # s \/ q # r => /\ result'[t][q] = result[t][q]
                               /\ socket'[t][q] = socket[t][q]
         /\ IF result[s][r] = "pending" THEN result'[s][r] \in Settled
            ELSE result'[s][r] = result[s][r]
<1>1. PICK how \in Settled :
        result' = IF result[s][r] = "pending" THEN [result EXCEPT ![s][r] = how] ELSE result
  BY DEF RequestEvent, FirstResultWins, Settled, ServerError
<1>2. PICK end \in {"closed", "destroyed"} : socket' = [socket EXCEPT ![s][r] = end]
  BY DEF RequestEvent
<1>3. result \in [Sim -> [Req -> Settled \cup {"none", "pending"}]]
  BY DEF AsyncTypeOK
<1>4. socket \in [Sim -> [Req -> {"none", "open", "destroyed", "closed"}]]
  BY DEF AsyncTypeOK
<1>5. /\ socket' \in [Sim -> [Req -> {"none", "open", "destroyed", "closed"}]]
      /\ \A t \in Sim, q \in Req :
           socket'[t][q] = IF t = s /\ q = r THEN end ELSE socket[t][q]
  BY <1>2, <1>4, EntryUpdated
<1>6. CASE result[s][r] = "pending"
  <2>1. /\ result' \in [Sim -> [Req -> Settled \cup {"none", "pending"}]]
        /\ \A t \in Sim, q \in Req :
             result'[t][q] = IF t = s /\ q = r THEN how ELSE result[t][q]
    <3>1. how \in Settled \cup {"none", "pending"}
      OBVIOUS
    <3> QED BY <1>1, <1>3, <1>6, <3>1, EntryUpdated
  <2> QED
    BY <1>5, <1>6, <2>1 DEF RequestEvent
<1>7. CASE result[s][r] # "pending"
  BY <1>1, <1>3, <1>5, <1>7 DEF RequestEvent
<1> QED BY <1>6, <1>7

\* Every step keeps the types; the count of an answered batch is a number.
LEMMA ErrorsAreCounted == \A E \in SUBSET Req : Cardinality(E) \in Nat
BY ReqAssumption, FS_Subset, FS_CardinalityType

LEMMA AsyncTypeInductive ==
  ASSUME AsyncTypeOK, [Next]_vars
  PROVE  AsyncTypeOK'
<1> USE DEF AsyncTypeOK
<1>1. TrackerTypeOK'
  BY RegistryStep, RegistryTypeInductive
<1>2. ASSUME NEW s \in Sim, Fulfil(s) \/ Reject(s) \/ UNCHANGED <<verdicts, answer>>
      PROVE  answer' \in [Sim -> {"none", "ok", "error"}] /\ verdicts' \in SUBSET (Verdict \X Sim)
  BY <1>2 DEF Fulfil, Reject, Verdict
<1>3. ASSUME NEW s \in Sim, NEW d \in Duration, StartSlowTimer(s, d)
      PROVE  AsyncTypeOK'
  BY <1>1, <1>3, DurationAssumption, TimeoutMaxAssumption
  DEF StartSlowTimer, NodeDelay
<1>4. ASSUME NEW s \in Sim, NEW type \in SimType, NEW n \in {1, Lanes}, NEW d \in Duration,
             StartChains(s, type, n, d)
      PROVE  AsyncTypeOK'
  BY <1>1, <1>4, DurationAssumption, LanesAssumption DEF StartChains
<1>5. ASSUME NEW s \in Sim, NEW d \in Duration, StartThread(s, d) PROVE AsyncTypeOK'
  BY <1>1, <1>5, DurationAssumption DEF StartThread, ThreadState
<1>6. ASSUME NEW s \in Sim, NEW batch \in SUBSET Req, StartBatch(s, batch)
      PROVE  AsyncTypeOK'
  BY <1>1, <1>6, BatchAssumption DEF StartBatch
<1>7. ASSUME NEW s \in Sim, SleepOver(s) PROVE AsyncTypeOK'
  BY <1>1, <1>2, <1>7 DEF SleepOver
<1>8. ASSUME NEW s \in Sim, ChainEnds(s) PROVE AsyncTypeOK'
  <2>1. lanes' \in [Sim -> 0..Lanes]
    BY <1>8, LanesAssumption DEF ChainEnds
  <2>2. Fulfil(s) \/ UNCHANGED <<verdicts, answer>>
    BY <1>8 DEF ChainEnds
  <2> QED
    BY <1>1, <1>2, <1>8, <2>1, <2>2 DEF ChainEnds
<1>9. ASSUME NEW s \in Sim, ThreadPosts(s) \/ OnThreadMessage(s) \/ OnThreadExit(s)
      PROVE  AsyncTypeOK'
  <2>1. thread' \in [Sim -> ThreadState]
    BY <1>9 DEF ThreadPosts, OnThreadMessage, OnThreadExit, ThreadState
  <2>2. Fulfil(s) \/ Reject(s) \/ UNCHANGED <<verdicts, answer>>
    BY <1>9 DEF ThreadPosts, OnThreadMessage, OnThreadExit, Late
  <2>3. UNCHANGED <<due, lanes, sleeping, result, socket, errorsLogged>>
    BY <1>9 DEF ThreadPosts, OnThreadMessage, OnThreadExit
  <2> QED
    BY <1>1, <1>2, <2>1, <2>2, <2>3
<1>10. ASSUME NEW s \in Sim, NEW r \in Req, RequestEvent(s, r) PROVE AsyncTypeOK'
  <2>1. /\ result' \in [Sim -> [Req -> Settled \cup {"none", "pending"}]]
        /\ socket' \in [Sim -> [Req -> {"none", "open", "destroyed", "closed"}]]
    BY <1>10, EventResult
  <2>3. Cardinality({q \in Req : result'[s][q] \in ServerError}) \in Nat
    BY ErrorsAreCounted
  <2>4. errorsLogged' \in [Sim -> Nat]
    BY <1>10, <2>3 DEF RequestEvent
  <2>5. Fulfil(s) \/ UNCHANGED <<verdicts, answer>>
    BY <1>10 DEF RequestEvent
  <2>6. UNCHANGED <<due, lanes, sleeping, thread>>
    BY <1>10 DEF RequestEvent
  <2> QED
    BY <1>1, <1>2, <2>1, <2>4, <2>5, <2>6
<1>11. ASSUME UNCHANGED asyncVars PROVE AsyncTypeOK'
  BY <1>1, <1>11 DEF asyncVars, workVars
<1>12. CASE Tick
  BY <1>1, <1>12 DEF Tick, CountDown, workVars
<1> QED
  BY <1>3, <1>4, <1>5, <1>6, <1>7, <1>8, <1>9, <1>10, <1>11, <1>12, AsyncTypeAssumption
  DEF Next, vars, RegistryTimer, MemoryRelease

----------------------------------------------------------------------------
(* One lemma per kind of step: the simulation it is about keeps its        *)
(* promise, and nothing happens to the others.                             *)

Keeps(s) == SettlesOnce(s)' /\ \A t \in Sim \ {s} : Same(t)

\* A simulation that had not begun, starts.
LEMMA StartKeeps ==
  ASSUME IInv, NEW s \in Sim,
         \/ \E d \in Duration : StartSlowTimer(s, d) \/ StartThread(s, d)
         \/ \E d \in Duration, type \in SimType, n \in {1, Lanes} : StartChains(s, type, n, d)
         \/ \E batch \in SUBSET Req : StartBatch(s, batch)
  PROVE  Keeps(s)
<1>1. /\ status[s] = "unborn" /\ status' = [status EXCEPT ![s] = "ACTIVE"]
      /\ UNCHANGED <<answer, verdicts, errorsLogged>>
  BY DEF StartSlowTimer, StartChains, StartThread, StartBatch, CreateSimulation
<1>2. /\ answer[s] = "none" /\ errorsLogged[s] = 0
      /\ s \notin sleeping /\ lanes[s] = 0 /\ thread[s] = "none" /\ NoBatch(s)
      /\ <<"SIMULATION_COMPLETED", s>> \notin verdicts
      /\ <<"SIMULATION_FAILED", s>> \notin verdicts
      /\ \A r \in Req : socket[s][r] = "none"
  BY <1>1 DEF IInv, SettlesOnce, NoBatch
<1>3. OneKind(s)' /\ \A r \in Req : socket'[s][r] # "none" => result'[s][r] # "none"
  BY <1>2
  DEF StartSlowTimer, StartChains, StartThread, StartBatch, OneKind, NoBatch, IInv, AsyncTypeOK
<1>4. SettlesOnce(s)'
  BY <1>1, <1>2, <1>3 DEF SettlesOnce, IInv, AsyncTypeOK, TrackerTypeOK
<1>5. ASSUME NEW t \in Sim \ {s} PROVE Same(t)
  BY <1>1
  DEF Same, StartSlowTimer, StartChains, StartThread, StartBatch, IInv, AsyncTypeOK, TrackerTypeOK
<1> QED BY <1>4, <1>5 DEF Keeps

LEMMA NoBatchNoErrors ==
  ASSUME NEW s \in Sim, NoBatch(s)
  PROVE  Cardinality(ErrorsOf(s)) = 0
<1>1. ErrorsOf(s) = {}
  BY DEF ErrorsOf, NoBatch, ServerError
<1> QED BY <1>1, FS_EmptySet

\* What closing the record, logging and answering do, and to whom.
LEMMA SettleEffect ==
  ASSUME IInv, NEW s \in Sim, Fulfil(s) \/ Reject(s)
  PROVE  /\ status'[s] # "ACTIVE"
         /\ status'[s] = "unborn" => status[s] = "unborn"
         /\ status'[s] = "FAILED" => status[s] = "FAILED" \/ Reject(s)
         /\ Fulfil(s) => /\ answer'[s] = "ok"
                         /\ verdicts' = verdicts \cup {<<"SIMULATION_COMPLETED", s>>}
         /\ Reject(s) => /\ answer'[s] = "error"
                         /\ verdicts' = verdicts \cup {<<"SIMULATION_FAILED", s>>}
         /\ \A t \in Sim \ {s} :
              /\ status'[t] = status[t] /\ answer'[t] = answer[t]
              /\ \A v \in Verdict : <<v, t>> \in verdicts' <=> <<v, t>> \in verdicts
<1>1. \A outcome \in {"COMPLETED", "FAILED"} : UpdateSimulationStatus(s, outcome) =>
        /\ status'[s] = IF status[s] = "ACTIVE" THEN outcome ELSE status[s]
        /\ \A t \in Sim \ {s} : status'[t] = status[t]
  BY DEF UpdateSimulationStatus, trackerVars, IInv, AsyncTypeOK, TrackerTypeOK
<1>2. CASE Fulfil(s)
  BY <1>1, <1>2 DEF Fulfil, Reject, CompleteSimulation, IInv, AsyncTypeOK, Verdict
<1>3. CASE Reject(s)
  BY <1>1, <1>3 DEF Fulfil, Reject, FailSimulation, IInv, AsyncTypeOK, Verdict
<1> QED BY <1>2, <1>3

\* The promise is settled by the last thing that could.
LEMMA SettleKeeps ==
  ASSUME IInv, NEW s \in Sim, Fulfil(s) \/ Reject(s),
         answer[s] = "none", status[s] # "unborn", ~Unsettled(s)', OneKind(s)',
         \A r \in Req : socket'[s][r] # "none" => result'[s][r] # "none",
         Fulfil(s) => errorsLogged'[s] = Cardinality(ErrorsOf(s)')
  PROVE  SettlesOnce(s)'
<1>1. /\ status[s] # "FAILED"
      /\ <<"SIMULATION_COMPLETED", s>> \notin verdicts
      /\ <<"SIMULATION_FAILED", s>> \notin verdicts
  BY DEF IInv, SettlesOnce
<1>2. CASE Fulfil(s)
  <2>1. status'[s] \notin {"ACTIVE", "unborn"} /\ answer'[s] = "ok"
        /\ verdicts' = verdicts \cup {<<"SIMULATION_COMPLETED", s>>}
    BY <1>1, <1>2, SettleEffect
  <2>2. status'[s] # "FAILED"
    BY <1>1, <1>2 DEF Fulfil, CompleteSimulation, UpdateSimulationStatus, trackerVars,
                      IInv, AsyncTypeOK, TrackerTypeOK
  <2> QED
    BY <1>1, <1>2, <2>1, <2>2 DEF SettlesOnce
<1>3. CASE Reject(s)
  <2>1. status'[s] \notin {"ACTIVE", "unborn"} /\ answer'[s] = "error"
        /\ verdicts' = verdicts \cup {<<"SIMULATION_FAILED", s>>}
    BY <1>1, <1>3, SettleEffect
  <2> QED
    BY <1>1, <1>3, <2>1 DEF SettlesOnce
<1> QED BY <1>2, <1>3

\* The timer of delay() or the last chain ends; a chain that is not the last
\* changes nothing else.
LEMMA WaitEnds ==
  ASSUME IInv, NEW s \in Sim, SleepOver(s) \/ ChainEnds(s)
  PROVE  Keeps(s)
<1>1. /\ s \in sleeping \/ lanes[s] > 0
      /\ thread[s] = "none" /\ NoBatch(s) /\ answer[s] = "none" /\ errorsLogged[s] = 0
      /\ s \in sleeping => lanes[s] = 0
      /\ status[s] # "unborn"
  <2>1. (s \in sleeping \/ lanes[s] > 0) /\ SettlesOnce(s) /\ lanes[s] \in 0..Lanes
    BY DEF SleepOver, ChainEnds, IInv, AsyncTypeOK
  <2> QED
    BY <2>1, LanesAssumption DEF SettlesOnce, OneKind, Unsettled
<1>2. UNCHANGED <<thread, result, socket, errorsLogged>>
  BY DEF SleepOver, ChainEnds
<1>3. /\ lanes[s] \in Nat
      /\ SleepOver(s) => sleeping' = sleeping \ {s} /\ lanes' = lanes
      /\ ChainEnds(s) => sleeping' = sleeping /\ lanes'[s] = lanes[s] - 1
      /\ \A t \in Sim \ {s} : lanes'[t] = lanes[t]
  BY DEF SleepOver, ChainEnds, IInv, AsyncTypeOK
<1>4. NoBatch(s)' /\ OneKind(s)'
  BY <1>1, <1>2, <1>3 DEF OneKind, NoBatch, SleepOver, ChainEnds
<1>5. \A r \in Req : socket'[s][r] # "none" => result'[s][r] # "none"
  BY <1>2 DEF IInv, SettlesOnce
<1>6. CASE Fulfil(s)
  <2>1. ~Unsettled(s)'
    BY <1>1, <1>2, <1>3, <1>6, SettleEffect
    DEF SleepOver, ChainEnds, Unsettled, NoBatch
  <2>2. errorsLogged'[s] = Cardinality(ErrorsOf(s)')
    BY <1>1, <1>2, NoBatchNoErrors DEF ErrorsOf
  <2>3. SettlesOnce(s)'
    BY <1>1, <1>4, <1>5, <1>6, <2>1, <2>2, SettleKeeps
  <2>4. ASSUME NEW t \in Sim \ {s} PROVE Same(t)
    BY <1>2, <1>3, <1>6, SettleEffect DEF Same, SleepOver, ChainEnds
  <2> QED BY <2>3, <2>4 DEF Keeps
<1>7. CASE ~Fulfil(s)
  <2>1. UNCHANGED <<status, verdicts, answer>> /\ sleeping' = sleeping /\ lanes[s] > 1
    BY <1>1, <1>3, <1>7 DEF SleepOver, ChainEnds, trackerVars
  <2>2. SettlesOnce(s)'
    BY <1>1, <1>2, <1>3, <1>4, <1>5, <2>1 DEF IInv, SettlesOnce, Unsettled, NoBatch
  <2>3. ASSUME NEW t \in Sim \ {s} PROVE Same(t)
    BY <1>2, <1>3, <2>1 DEF Same
  <2> QED BY <2>2, <2>3 DEF Keeps
<1> QED BY <1>6, <1>7

\* The thread's events; the exit comes when the promise is settled.
LEMMA ThreadKeeps ==
  ASSUME IInv, NEW s \in Sim, ThreadPosts(s) \/ OnThreadMessage(s) \/ OnThreadExit(s)
  PROVE  Keeps(s)
<1>1. /\ thread[s] # "none" /\ lanes[s] = 0 /\ s \notin sleeping /\ NoBatch(s)
      /\ status[s] # "unborn"
      /\ thread[s] \in {"running", "posted", "crashed"} => Unsettled(s)
      /\ lanes[s] \in Nat
  <2>1. thread[s] # "none" /\ SettlesOnce(s)
    BY DEF ThreadPosts, OnThreadMessage, OnThreadExit, IInv
  <2>2. lanes[s] \in 0..Lanes
    BY DEF IInv, AsyncTypeOK
  <2> QED
    BY <2>1, <2>2, LanesAssumption DEF SettlesOnce, OneKind, Unsettled
<1>2. /\ UNCHANGED <<lanes, sleeping, result, socket, errorsLogged>>
      /\ \A t \in Sim \ {s} : thread'[t] = thread[t]
  BY DEF ThreadPosts, OnThreadMessage, OnThreadExit, IInv, AsyncTypeOK
<1>3. NoBatch(s)' /\ OneKind(s)' /\ \A r \in Req : socket'[s][r] # "none" => result'[s][r] # "none"
  BY <1>1, <1>2 DEF OneKind, NoBatch, IInv, SettlesOnce
<1>4. CASE OnThreadMessage(s)
  <2>1. Fulfil(s) \/ Reject(s)
    BY <1>4 DEF OnThreadMessage
  <2>2. Unsettled(s) /\ thread'[s] = "terminated" /\ ~Unsettled(s)'
    BY <1>1, <1>2, <1>4 DEF OnThreadMessage, Unsettled, NoBatch, IInv, AsyncTypeOK
  <2>3. errorsLogged'[s] = Cardinality(ErrorsOf(s)')
    BY <1>1, <1>2, <2>2, NoBatchNoErrors DEF ErrorsOf, IInv, SettlesOnce
  <2>4. SettlesOnce(s)'
    BY <1>1, <1>3, <2>1, <2>2, <2>3, SettleKeeps DEF IInv, SettlesOnce
  <2>5. ASSUME NEW t \in Sim \ {s} PROVE Same(t)
    BY <1>2, <2>1, SettleEffect DEF Same
  <2> QED BY <2>4, <2>5 DEF Keeps
<1>5. CASE ThreadPosts(s) \/ OnThreadExit(s)
  <2>1. UNCHANGED <<status, verdicts, answer>>
    BY <1>5 DEF ThreadPosts, OnThreadExit, Late, trackerVars
  <2>2. /\ thread'[s] # "none"
        /\ thread'[s] \in {"running", "posted", "crashed"} => Unsettled(s)
    BY <1>1, <1>5 DEF ThreadPosts, OnThreadExit, IInv, AsyncTypeOK
  <2>3. SettlesOnce(s)'
    BY <1>1, <1>2, <1>3, <2>1, <2>2
    DEF IInv, SettlesOnce, Unsettled, NoBatch, ErrorsOf
  <2>4. ASSUME NEW t \in Sim \ {s} PROVE Same(t)
    BY <1>2, <2>1 DEF Same
  <2> QED BY <2>3, <2>4 DEF Keeps
<1> QED BY <1>4, <1>5

\* An event of a request that belongs to a batch; the last one settles the
\* promise, and an event after that finds a result already there.
LEMMA EventKeeps ==
  ASSUME IInv, NEW s \in Sim, NEW r \in Req, RequestEvent(s, r)
  PROVE  Keeps(s)
<1>1. /\ s \notin sleeping /\ lanes[s] = 0 /\ thread[s] = "none" /\ status[s] # "unborn"
      /\ result[s][r] # "none"
      /\ SettlesOnce(s)
  <2>1. socket[s][r] # "none" /\ SettlesOnce(s) /\ lanes[s] \in 0..Lanes
    BY EventResult DEF IInv, AsyncTypeOK
  <2> QED
    BY <2>1, LanesAssumption DEF SettlesOnce, OneKind, NoBatch
<1>2. /\ UNCHANGED <<lanes, sleeping, thread>>
      /\ \A t \in Sim, q \in Req :
           t # s \/ q # r => result'[t][q] = result[t][q] /\ socket'[t][q] = socket[t][q]
      /\ IF result[s][r] = "pending" THEN result'[s][r] \in Settled
         ELSE result'[s][r] = result[s][r]
  BY EventResult DEF RequestEvent, IInv
<1>3. OneKind(s)' /\ \A q \in Req : socket'[s][q] # "none" => result'[s][q] # "none"
  BY <1>1, <1>2 DEF OneKind, SettlesOnce, Settled, ServerError
<1>4. ASSUME NEW t \in Sim \ {s}
      PROVE  result'[t] = result[t] /\ socket'[t] = socket[t]
  <2>1. /\ result[t] \in [Req -> Settled \cup {"none", "pending"}]
        /\ socket[t] \in [Req -> {"none", "open", "destroyed", "closed"}]
    BY DEF IInv, AsyncTypeOK
  <2>2. /\ result'[t] \in [Req -> Settled \cup {"none", "pending"}]
        /\ socket'[t] \in [Req -> {"none", "open", "destroyed", "closed"}]
    BY EventResult DEF IInv
  <2> QED BY <1>2, <2>1, <2>2
<1>5. CASE answer[s] = "none" /\ \A q \in Batch(s) : result'[s][q] # "pending"
  <2>1. /\ Fulfil(s)
        /\ errorsLogged' = [errorsLogged EXCEPT ![s] =
              Cardinality({q \in Req : result'[s][q] \in ServerError})]
    BY <1>5 DEF RequestEvent
  <2>2. errorsLogged'[s] = Cardinality(ErrorsOf(s)')
    BY <2>1 DEF ErrorsOf, IInv, AsyncTypeOK
  <2>3. ~Unsettled(s)'
    <3>1. ASSUME NEW q \in Req PROVE result'[s][q] # "pending"
      BY <1>2, <1>5 DEF Batch, Settled, ServerError
    <3> QED BY <1>1, <1>2, <3>1 DEF Unsettled
  <2>4. SettlesOnce(s)'
    BY <1>1, <1>3, <1>5, <2>1, <2>2, <2>3, SettleKeeps
  <2>5. ASSUME NEW t \in Sim \ {s} PROVE Same(t)
    BY <1>2, <1>4, <2>1, SettleEffect DEF Same, IInv, AsyncTypeOK
  <2> QED BY <2>4, <2>5 DEF Keeps
<1>6. CASE ~(answer[s] = "none" /\ \A q \in Batch(s) : result'[s][q] # "pending")
  <2>1. UNCHANGED <<status, verdicts, answer, errorsLogged>>
    BY <1>6 DEF RequestEvent, trackerVars
  <2>2. \A q \in Req : result'[s][q] = "pending" => result[s][q] = "pending"
    BY <1>2 DEF Settled, ServerError
  <2>3. answer[s] # "none" => ErrorsOf(s)' = ErrorsOf(s)
    <3>1. answer[s] # "none" => \A q \in Req : result'[s][q] = result[s][q]
      BY <1>1, <1>2 DEF SettlesOnce, Unsettled
    <3> QED BY <3>1 DEF ErrorsOf
  <2>4. SettlesOnce(s)'
    BY <1>1, <1>2, <1>3, <2>1, <2>2, <2>3 DEF SettlesOnce, Unsettled
  <2>5. ASSUME NEW t \in Sim \ {s} PROVE Same(t)
    BY <1>2, <1>4, <2>1 DEF Same
  <2> QED BY <2>4, <2>5 DEF Keeps
<1> QED BY <1>5, <1>6

\* The registry's timer, or a release of somebody, closes the record under the
\* work, which goes on.
LEMMA RegistryKeeps ==
  ASSUME IInv, NEW s \in Sim, RegistryTimer(s) \/ MemoryRelease(s)
  PROVE  Keeps(s)
<1>1. /\ UNCHANGED asyncVars
      /\ \A t \in Sim \ {s} : status'[t] = status[t]
      /\ \/ status'[s] = status[s]
         \/ status[s] = "ACTIVE" /\ status'[s] \in {"COMPLETED", "STOPPED"}
  BY
  DEF RegistryTimer, MemoryRelease, CleanupTimerFires, CompleteSimulation, StopSimulation,
         UpdateSimulationStatus, trackerVars, IInv, AsyncTypeOK, TrackerTypeOK
<1>2. SettlesOnce(s)'
  BY <1>1
  DEF asyncVars, workVars, IInv, SettlesOnce, OneKind, NoBatch, Unsettled, ErrorsOf
<1>3. ASSUME NEW t \in Sim \ {s} PROVE Same(t)
  BY <1>1 DEF Same, asyncVars, workVars
<1> QED BY <1>2, <1>3 DEF Keeps

----------------------------------------------------------------------------
LEMMA InitIInv == Init => IInv
<1> SUFFICES ASSUME Init PROVE IInv
  OBVIOUS
<1>1. TrackerTypeOK /\ TimerIffActive
  BY
  DEF Init, TrackerInit, TrackerTypeOK, TimerIffActive, Status, Outcome, Off, NoType
<1>2. AsyncTypeOK
  BY <1>1, LanesAssumption DEF Init, AsyncTypeOK, ThreadState
<1>3. ASSUME NEW s \in Sim PROVE SettlesOnce(s)
  BY DEF Init, TrackerInit, SettlesOnce, OneKind, Unsettled, NoBatch
<1> QED BY <1>1, <1>2, <1>3 DEF IInv

LEMMA StepKeepsIInv == IInv /\ [Next]_vars => IInv'
<1> SUFFICES ASSUME IInv, [Next]_vars PROVE IInv'
  OBVIOUS
<1>1. AsyncTypeOK'
  BY AsyncTypeInductive DEF IInv
<1>2. TimerIffActive'
  BY RegistryStep, TimersInductive DEF IInv, AsyncTypeOK
<1>3. ASSUME NEW s \in Sim, Keeps(s) PROVE \A t \in Sim : SettlesOnce(t)'
  BY <1>3, SameKeeps DEF Keeps, IInv
<1>4. CASE Tick \/ UNCHANGED vars
  <2>1. \A t \in Sim : Same(t)
    BY <1>4 DEF Tick, TrackerTick, vars, asyncVars, workVars, trackerVars, Same
  <2>2. \A t \in Sim : SettlesOnce(t)'
    BY <2>1, SameKeeps DEF IInv
  <2> QED BY <1>1, <1>2, <2>2 DEF IInv
<1>5. ASSUME NEW s \in Sim, NEW d \in Duration,
             \/ StartSlowTimer(s, d) \/ StartChains(s, "SLOW_REQUEST", Lanes, d)
             \/ StartChains(s, "EVENT_LOOP_BLOCKING", 1, d) \/ StartThread(s, d)
      PROVE  Keeps(s)
  BY <1>5, StartKeeps, AsyncTypeAssumption
<1>6. ASSUME NEW s \in Sim, NEW batch \in SUBSET Req, StartBatch(s, batch)
      PROVE  Keeps(s)
  BY <1>6, StartKeeps
<1>7. ASSUME NEW s \in Sim,
             \/ SleepOver(s) \/ ChainEnds(s)
             \/ ThreadPosts(s) \/ OnThreadMessage(s) \/ OnThreadExit(s)
             \/ RegistryTimer(s) \/ MemoryRelease(s)
             \/ \E r \in Req : RequestEvent(s, r)
      PROVE  Keeps(s)
  BY <1>7, WaitEnds, ThreadKeeps, RegistryKeeps, EventKeeps
<1>8. CASE \E s \in Sim : Keeps(s)
  BY <1>1, <1>2, <1>3, <1>8 DEF IInv
<1> QED
  BY <1>4, <1>5, <1>6, <1>7, <1>8 DEF Next

LEMMA IInvAlways == Spec => []IInv
BY InitIInv, StepKeepsIInv, PTL DEF Spec

\* Every value stays within its type.
THEOREM AsyncTypeCorrect == Spec => []AsyncTypeOK
BY IInvAlways, PTL DEF IInv

\* With three kinds of work beside it that close records at times of their
\* own, a registry timer is still armed for exactly the ACTIVE simulations.
THEOREM AsyncTimersMatchStatus == Spec => []TimerIffActive
BY IInvAlways, PTL DEF IInv

\* No client gets an answer while its simulation is still open, whatever ends
\* first: the work, the registry's timer or a stop.
THEOREM AnswersClose == Spec => []AnsweredIsClosed
<1>1. IInv => AnsweredIsClosed
  BY DEF IInv, SettlesOnce, AnsweredIsClosed, TimerIffActive
<1> QED BY <1>1, IInvAlways, PTL

\* Log, answer and work tell one story of every simulation, although events of
\* its thread, chains and sockets keep coming after its promise has settled.
THEOREM OneStory == Spec => []OneVerdict
<1>1. IInv => OneVerdict
  <2> SUFFICES ASSUME IInv, NEW s \in Sim
               PROVE  /\ <<"SIMULATION_COMPLETED", s>> \in verdicts <=> answer[s] = "ok"
                      /\ <<"SIMULATION_FAILED", s>> \in verdicts <=> answer[s] = "error"
                      /\ status[s] = "FAILED" => answer[s] = "error"
                      /\ answer[s] = "ok" =>
                           /\ lanes[s] = 0
                           /\ thread[s] \notin {"running", "posted", "crashed"}
                           /\ \A r \in Req : result[s][r] # "pending"
                           /\ errorsLogged[s] = Cardinality(ErrorsOf(s))
    BY Zenon DEF OneVerdict, ErrorsOf
  <2>1. lanes[s] \in 0..Lanes /\ SettlesOnce(s)
    BY DEF IInv, AsyncTypeOK
  <2> QED
    BY <2>1, LanesAssumption DEF SettlesOnce, Unsettled
<1> QED BY <1>1, IInvAlways, PTL

\* The registry keeps its promise with these services as its callers.
THEOREM AsyncRefinesLifecycle == Spec => ImplementsLifecycle
<1>1. Init => Lifecycle!Init
  BY DEF Init, TrackerInit, Lifecycle!Init
<1> QED
  BY <1>1, RegistryStep, RegistryStepIsLifecycle, IInvAlways, PTL
  DEF Spec, ImplementsLifecycle, Lifecycle!Spec, IInv, AsyncTypeOK

=============================================================================
