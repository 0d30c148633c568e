------------------------- MODULE SimulationTracker -------------------------
(***************************************************************************)
(* services/simulation-tracker.service.ts: the registry every simulation   *)
(* service shares.                                                         *)
(*                                                                         *)
(* The Map `simulations' is the pair status/simType (a simulation is in    *)
(* the Map when its status is one of Status), the Map `cleanupTimers' is   *)
(* cleanupTimer.  Time is relative: cleanupTimer[s] counts the ticks until *)
(* the armed timeout may fire.  A timer whose count is 0 is due, and may   *)
(* still fire late, as the event loop gives no deadline.  scheduledEndAt,  *)
(* which the service only reports, is left out.                            *)
(***************************************************************************)
EXTENDS Integers

CONSTANTS
  Sim,          \* ids generateId() can return
  SimType,      \* CPU_STRESS, MEMORY_PRESSURE, ...
  Duration,     \* the durations callers ask for, in ticks
  TimeoutMax    \* the longest delay setTimeout honours, in ticks

ASSUME DurationAssumption == Duration \subseteq Nat \ {0}
ASSUME TimeoutMaxAssumption == TimeoutMax \in Nat \ {0}

VARIABLES status, simType, cleanupTimer

trackerVars == <<status, simType, cleanupTimer>>

Outcome == {"COMPLETED", "STOPPED", "FAILED"}
Status == Outcome \cup {"ACTIVE"}
Off == -1                               \* no timer is armed
NoType == "none"

InMap(s) == status[s] \in Status
ActiveSims == {s \in Sim : status[s] = "ACTIVE"}

TrackerTypeOK ==
  /\ status \in [Sim -> Status \cup {"unborn", "removed"}]
  /\ simType \in [Sim -> SimType \cup {NoType}]
  /\ cleanupTimer \in [Sim -> Nat \cup {Off}]

TrackerInit ==
  /\ status = [s \in Sim |-> "unborn"]
  /\ simType = [s \in Sim |-> NoType]
  /\ cleanupTimer = [s \in Sim |-> Off]

\* setTimeout replaces a delay it cannot represent by the shortest one.
NodeDelay(d) == IF d > TimeoutMax THEN 1 ELSE d

----------------------------------------------------------------------------
(* The methods of the service, as actions on its two Maps.                 *)

CreateSimulation(s, type, d) ==
  /\ status[s] = "unborn"
  /\ status' = [status EXCEPT ![s] = "ACTIVE"]
  /\ simType' = [simType EXCEPT ![s] = type]
  /\ cleanupTimer' = [cleanupTimer EXCEPT ![s] = NodeDelay(d)]

UpdateUnguarded(s, outcome) ==          \* mutant: no check, no clearTimeout
  /\ InMap(s)
  /\ status' = [status EXCEPT ![s] = outcome]
  /\ UNCHANGED <<simType, cleanupTimer>>

UpdateKeepsTimer(s, outcome) ==         \* mutant: clearTimeout is forgotten
  /\ status' = IF status[s] = "ACTIVE"
               THEN [status EXCEPT ![s] = outcome] ELSE status
  /\ UNCHANGED <<simType, cleanupTimer>>

\* Only an ACTIVE simulation changes status; for any other the method
\* returns undefined and changes nothing.
UpdateSimulationStatus(s, outcome) ==
  IF status[s] = "ACTIVE"
  THEN /\ status' = [status EXCEPT ![s] = outcome]
       /\ cleanupTimer' = [cleanupTimer EXCEPT ![s] = Off]
       /\ UNCHANGED simType
  ELSE UNCHANGED trackerVars

StopSimulation(s) == UpdateSimulationStatus(s, "STOPPED")
CompleteSimulation(s) == UpdateSimulationStatus(s, "COMPLETED")
FailSimulation(s) == UpdateSimulationStatus(s, "FAILED")

\* The timeout armed by createSimulation fires.
CleanupTimerFires(s) ==
  /\ cleanupTimer[s] = 0
  /\ CompleteSimulation(s)

RemoveSimulation(s) ==
  /\ InMap(s)
  /\ status' = [status EXCEPT ![s] = "removed"]
  /\ cleanupTimer' = [cleanupTimer EXCEPT ![s] = Off]
  /\ UNCHANGED simType

Clear ==
  /\ status' = [s \in Sim |-> IF InMap(s) THEN "removed" ELSE status[s]]
  /\ cleanupTimer' = [s \in Sim |-> Off]
  /\ UNCHANGED simType

\* One unit of time passes for every timer.
CountDown(n) == IF n > 0 THEN n - 1 ELSE n
TrackerTick ==
  /\ cleanupTimer' = [s \in Sim |-> CountDown(cleanupTimer[s])]
  /\ UNCHANGED <<status, simType>>

----------------------------------------------------------------------------
TrackerNext ==
  \/ \E s \in Sim, type \in SimType, d \in Duration : CreateSimulation(s, type, d)
  \/ \E s \in Sim : StopSimulation(s)
  \/ \E s \in Sim : CompleteSimulation(s)
  \/ \E s \in Sim : FailSimulation(s)
  \/ \E s \in Sim : CleanupTimerFires(s)
  \/ \E s \in Sim : RemoveSimulation(s)
  \/ Clear
  \/ TrackerTick

\* Time passes, and the event loop gets to every timer that is due.
TrackerFairness ==
  /\ WF_trackerVars(TrackerTick)
  /\ \A s \in Sim : WF_trackerVars(CleanupTimerFires(s))

TrackerSpec == TrackerInit /\ [][TrackerNext]_trackerVars /\ TrackerFairness

----------------------------------------------------------------------------
(* Properties.                                                             *)

\* A timer is armed for exactly the simulations that are still ACTIVE: every
\* path that ends or forgets a simulation disarms its timer, so no timer can
\* fire for an id whose record is gone or already ended, and none is missing.
TimerIffActive ==
  \A s \in Sim : cleanupTimer[s] # Off <=> status[s] = "ACTIVE"

\* The registry implements the lifecycle callers rely on.
Lifecycle == INSTANCE SimulationLifecycle WITH state <- status
ImplementsLifecycle == Lifecycle!Spec
=============================================================================
