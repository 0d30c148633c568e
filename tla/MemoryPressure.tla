--------------------------- MODULE MemoryPressure ---------------------------
(***************************************************************************)
(* services/memory-pressure.service.ts behind                              *)
(* controllers/memory.controller.ts, over the shared registry.             *)
(*                                                                         *)
(* The Map `allocations' is the pair sizeMb/filled: an entry exists when   *)
(* sizeMb[s] > 0 (the validated size is at least 1) and filled[s] is the   *)
(* length of its data array.  `pending' holds the simulations whose next   *)
(* allocateBatch is queued by setImmediate.                                *)
(***************************************************************************)
EXTENDS SimulationTracker

CONSTANTS
  Size,          \* the sizes, in MB, that clients ask for
  ObjectsPerMb,  \* 4800 in the code
  BatchSize,     \* objects pushed by one allocateBatch, 10000 in the code
  Forever        \* Number.MAX_SAFE_INTEGER / 1000 seconds, in ticks

ASSUME SizeAssumption == Size \subseteq Nat \ {0}
ASSUME BatchAssumption == ObjectsPerMb \in Nat \ {0} /\ BatchSize \in Nat \ {0}
\* The "effectively infinite" duration is longer than setTimeout can express.
ASSUME ForeverAssumption == Forever \in Duration /\ Forever > TimeoutMax
ASSUME MemoryTypeAssumption == "MEMORY_PRESSURE" \in SimType

VARIABLES sizeMb, filled, pending, memoryLog

memoryVars == <<sizeMb, filled, pending, memoryLog>>
vars == <<trackerVars, memoryVars>>

MEMORY == "MEMORY_PRESSURE"
MemoryEvent == {"MEMORY_ALLOCATING", "MEMORY_ALLOCATED", "MEMORY_RELEASED"}

Allocated(s) == sizeMb[s] > 0
TotalObjects(s) == sizeMb[s] * ObjectsPerMb
ActiveAllocations == {s \in ActiveSims : simType[s] = MEMORY}

MemoryTypeOK ==
  /\ TrackerTypeOK
  /\ sizeMb \in [Sim -> Size \cup {0}]
  /\ filled \in [Sim -> Nat]
  /\ pending \in SUBSET Sim
  /\ memoryLog \in SUBSET (MemoryEvent \X Sim)

Init ==
  /\ TrackerInit
  /\ sizeMb = [s \in Sim |-> 0]
  /\ filled = [s \in Sim |-> 0]
  /\ pending = {}
  /\ memoryLog = {}

----------------------------------------------------------------------------
\* POST /api/simulations/memory
Allocate(s, size) ==
  /\ CreateSimulation(s, MEMORY, Forever)
  /\ sizeMb' = [sizeMb EXCEPT ![s] = size]
  /\ filled' = [filled EXCEPT ![s] = 0]
  /\ pending' = pending \cup {s}
  /\ memoryLog' = memoryLog \cup {<<"MEMORY_ALLOCATING", s>>}

\* Where the data array stands after one more batch.
AfterBatch(s) ==
  IF filled[s] + BatchSize < TotalObjects(s)
  THEN filled[s] + BatchSize ELSE TotalObjects(s)

BatchWithoutCheck(s) ==                 \* mutant: the entry is not looked up again
  /\ s \in pending
  /\ filled' = [filled EXCEPT ![s] = filled[s] + BatchSize]
  /\ pending' = pending \ {s}
  /\ memoryLog' = memoryLog \cup {<<"MEMORY_ALLOCATED", s>>}
  /\ UNCHANGED <<trackerVars, sizeMb>>

BatchRunsOnce(s) ==                     \* mutant: setImmediate is not armed again
  /\ s \in pending
  /\ pending' = pending \ {s}
  /\ filled' = IF Allocated(s) THEN [filled EXCEPT ![s] = AfterBatch(s)] ELSE filled
  /\ UNCHANGED <<trackerVars, sizeMb, memoryLog>>

\* allocateBatch looks the entry up again: it may have been released since.
AllocateBatch(s) ==
  /\ s \in pending
  /\ IF Allocated(s)
     THEN /\ filled' = [filled EXCEPT ![s] = AfterBatch(s)]
          /\ IF AfterBatch(s) < TotalObjects(s)
             THEN UNCHANGED <<pending, memoryLog>>
             ELSE /\ pending' = pending \ {s}
                  /\ memoryLog' = memoryLog \cup {<<"MEMORY_ALLOCATED", s>>}
     ELSE /\ pending' = pending \ {s}
          /\ UNCHANGED <<filled, memoryLog>>
  /\ UNCHANGED <<trackerVars, sizeMb>>

\* The effect of release() on the entries and the log, for the ids in sims.
DropAllocations(sims) ==
  /\ sizeMb' = [s \in Sim |-> IF s \in sims THEN 0 ELSE sizeMb[s]]
  /\ filled' = [s \in Sim |-> IF s \in sims THEN 0 ELSE filled[s]]
  /\ memoryLog' = memoryLog \cup
       ({"MEMORY_RELEASED"} \X {s \in sims : Allocated(s) \/ status[s] = "ACTIVE"})
  /\ UNCHANGED pending

\* DELETE /api/simulations/memory/:id.  Neither the type nor the status of the
\* simulation is looked at: an id of another type is stopped in the registry.
Release(s) ==
  /\ DropAllocations({s})
  /\ StopSimulation(s)

\* releaseAll() releases what the registry lists as ACTIVE.
ReleaseAll ==
  /\ DropAllocations(ActiveAllocations)
  /\ status' = [s \in Sim |-> IF s \in ActiveAllocations THEN "STOPPED" ELSE status[s]]
  /\ cleanupTimer' = [s \in Sim |-> IF s \in ActiveAllocations THEN Off ELSE cleanupTimer[s]]
  /\ UNCHANGED simType

RegistryTimer(s) ==
  /\ CleanupTimerFires(s)
  /\ UNCHANGED memoryVars

\* Another service records a simulation of its own.
OtherSimulation(s, type, d) ==
  /\ type # MEMORY
  /\ CreateSimulation(s, type, d)
  /\ UNCHANGED memoryVars

Tick ==
  /\ TrackerTick
  /\ UNCHANGED memoryVars

----------------------------------------------------------------------------
Next ==
  \/ \E s \in Sim, size \in Size : Allocate(s, size)
  \/ \E s \in Sim : AllocateBatch(s)
  \/ \E s \in Sim : Release(s)
  \/ ReleaseAll
  \/ \E s \in Sim : RegistryTimer(s)
  \/ \E s \in Sim, type \in SimType, d \in Duration : OtherSimulation(s, type, d)
  \/ Tick

\* The event loop reaches every setImmediate and every due timer.
Fairness ==
  /\ WF_vars(Tick)
  /\ \A s \in Sim : WF_vars(AllocateBatch(s)) /\ WF_vars(RegistryTimer(s))

Spec == Init /\ [][Next]_vars /\ Fairness

----------------------------------------------------------------------------
(* Properties.                                                             *)

\* The chain of setImmediate callbacks neither breaks nor outlives its work:
\* an allocation still has a batch queued exactly while objects are missing,
\* and "allocated" is logged only when none is, so batches of several
\* allocations and releases may interleave freely.
BatchChain ==
  \A s \in Sim :
    /\ Allocated(s) => (s \in pending <=> filled[s] < TotalObjects(s))
    /\ Allocated(s) /\ <<"MEMORY_ALLOCATED", s>> \in memoryLog
         => filled[s] = TotalObjects(s)
    /\ ~Allocated(s) => filled[s] = 0

\* The two Maps agree where it matters: a simulation reported STOPPED holds no
\* memory.  (The converse fails: see NoAutoExpiry.)
StoppedHoldsNoMemory ==
  \A s \in Sim : status[s] = "STOPPED" => ~Allocated(s)

\* A release is final even in the middle of an allocation: the batch that is
\* already queued neither brings the data back nor reports it allocated.
ReleaseIsFinal ==
  [][\A s \in Sim : <<"MEMORY_RELEASED", s>> \in memoryLog =>
       /\ sizeMb'[s] = 0 /\ filled'[s] = 0
       /\ <<"MEMORY_ALLOCATED", s>> \in memoryLog' =>
            <<"MEMORY_ALLOCATED", s>> \in memoryLog]_vars

\* services/memory-pressure.service.ts:36, "Memory does NOT auto-expire ... must
\* be explicitly released": no step ends an ACTIVE memory simulation as
\* COMPLETED, which is the status of a duration that elapsed.
\* It does not hold: the run memory_expiry shows how.
NoAutoExpiry ==
  [][\A s \in Sim : simType[s] = MEMORY /\ status[s] = "ACTIVE"
       => status'[s] # "COMPLETED"]_vars
=============================================================================
