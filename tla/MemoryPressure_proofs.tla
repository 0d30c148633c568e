------------------------ MODULE MemoryPressure_proofs ------------------------
(***************************************************************************)
(* Theorems about the memory pressure service, for any number of           *)
(* simulations, sizes, batch size and order of batches and releases.       *)
(***************************************************************************)
EXTENDS MemoryPressure, TLAPS

\* Nothing is known of an id before it is given out.
NothingBeforeBirth ==
  \A s \in Sim : status[s] = "unborn" =>
    /\ ~Allocated(s) /\ s \notin pending
    /\ \A e \in MemoryEvent : <<e, s>> \notin memoryLog

\* A released simulation holds nothing, and its id is not given out again.
ReleasedIsGone ==
  \A s \in Sim : <<"MEMORY_RELEASED", s>> \in memoryLog =>
    ~Allocated(s) /\ status[s] # "unborn"

IInv ==
  /\ BatchChain
  /\ \A s \in Sim : Allocated(s) => filled[s] <= TotalObjects(s)
  /\ StoppedHoldsNoMemory
  /\ NothingBeforeBirth
  /\ ReleasedIsGone

MemoryAssumptions == /\ Size \subseteq Nat \ {0}
                     /\ ObjectsPerMb \in Nat \ {0} /\ BatchSize \in Nat \ {0}
                     /\ Forever \in Duration /\ MEMORY \in SimType

LEMMA Assumptions == MemoryAssumptions
BY SizeAssumption, BatchAssumption, ForeverAssumption, MemoryTypeAssumption
DEF MemoryAssumptions, MEMORY

----------------------------------------------------------------------------
(* The registry's part of a step, and the length of the data array.        *)

LEMMA CreateTyped ==
  ASSUME TrackerTypeOK, NEW s \in Sim, NEW type \in SimType,
         NEW d \in Duration, CreateSimulation(s, type, d)
  PROVE  /\ TrackerTypeOK'
         /\ status[s] = "unborn" /\ status'[s] = "ACTIVE"
         /\ \A t \in Sim \ {s} : status'[t] = status[t]
BY DurationAssumption
DEF TrackerTypeOK, CreateSimulation, NodeDelay, Status, Outcome, Off

LEMMA UpdateTyped ==
  ASSUME TrackerTypeOK, NEW s \in Sim, NEW outcome \in Outcome,
         UpdateSimulationStatus(s, outcome)
  PROVE  /\ TrackerTypeOK'
         /\ status'[s] = status[s] \/ (status'[s] = outcome /\ status[s] = "ACTIVE")
         /\ \A t \in Sim \ {s} : status'[t] = status[t]
BY DEF TrackerTypeOK, UpdateSimulationStatus, trackerVars, Status, Outcome, Off

LEMMA ReleaseAllTyped ==
  ASSUME TrackerTypeOK, ReleaseAll
  PROVE  /\ TrackerTypeOK'
         /\ \A s \in Sim : status'[s] = IF s \in ActiveAllocations THEN "STOPPED" ELSE status[s]
BY DEF TrackerTypeOK, ReleaseAll, Status, Outcome, Off

LEMMA TickTyped == TrackerTypeOK /\ TrackerTick => TrackerTypeOK' /\ status' = status
BY DEF TrackerTypeOK, TrackerTick, CountDown, Off

LEMMA Product ==
  ASSUME NEW a \in Nat, NEW b \in Nat
  PROVE  a * b \in Nat /\ (a > 0 /\ b > 0 => a * b > 0)
<1>1. a * b \in Nat
  OBVIOUS
<1>2. a > 0 /\ b > 0 => a * b > 0
  OBVIOUS
<1> QED BY <1>1, <1>2

LEMMA SizeIsNat ==
  ASSUME MemoryTypeOK, NEW s \in Sim
  PROVE  sizeMb[s] \in Nat /\ filled[s] \in Nat /\ (~(sizeMb[s] > 0) => sizeMb[s] = 0)
<1>1. sizeMb[s] \in Size \cup {0} /\ filled[s] \in Nat
  BY DEF MemoryTypeOK
<1>2. \A n \in Size \cup {0} : n \in Nat
  BY SizeAssumption
<1> QED BY <1>1, <1>2

LEMMA ArrayTyped ==
  ASSUME MemoryTypeOK, NEW s \in Sim
  PROVE  /\ sizeMb[s] \in Nat /\ filled[s] \in Nat
         /\ TotalObjects(s) \in Nat
         /\ Allocated(s) => TotalObjects(s) > 0
         /\ AfterBatch(s) \in Nat
         /\ AfterBatch(s) <= TotalObjects(s)
<1>1. sizeMb[s] \in Nat /\ filled[s] \in Nat /\ ObjectsPerMb \in Nat \ {0}
  BY SizeIsNat, Assumptions DEF MemoryAssumptions
<1>2. TotalObjects(s) \in Nat /\ (Allocated(s) => TotalObjects(s) > 0)
  BY <1>1, Product DEF TotalObjects, Allocated
<1>3. BatchSize \in Nat
  BY Assumptions DEF MemoryAssumptions
<1> QED BY <1>1, <1>2, <1>3 DEF AfterBatch

----------------------------------------------------------------------------
LEMMA TypeInductive ==
  ASSUME MemoryTypeOK, [Next]_vars
  PROVE  MemoryTypeOK'
<1> USE DEF MemoryTypeOK, memoryVars
<1>1. ASSUME NEW s \in Sim, NEW size \in Size, Allocate(s, size) PROVE MemoryTypeOK'
  <2>1. TrackerTypeOK'
    BY <1>1, CreateTyped, Assumptions DEF Allocate, MemoryAssumptions
  <2> QED BY <1>1, <2>1 DEF Allocate, MemoryEvent
<1>2. ASSUME NEW s \in Sim, AllocateBatch(s) PROVE MemoryTypeOK'
  <2>1. AfterBatch(s) \in Nat
    BY ArrayTyped
  <2>2. TrackerTypeOK'
    BY <1>2 DEF AllocateBatch, TrackerTypeOK, trackerVars
  <2> QED BY <1>2, <2>1, <2>2 DEF AllocateBatch, MemoryEvent
<1>3. ASSUME NEW sims \in SUBSET Sim, DropAllocations(sims)
      PROVE  /\ sizeMb' \in [Sim -> Size \cup {0}] /\ filled' \in [Sim -> Nat]
             /\ pending' \in SUBSET Sim
             /\ memoryLog' \in SUBSET (MemoryEvent \X Sim)
  BY <1>3 DEF DropAllocations, MemoryEvent
<1>4. ASSUME NEW s \in Sim, Release(s) PROVE MemoryTypeOK'
  <2>1. TrackerTypeOK'
    BY <1>4, UpdateTyped DEF Release, StopSimulation, Outcome
  <2> QED BY <1>3, <1>4, <2>1 DEF Release
<1>5. CASE ReleaseAll
  <2>1. ActiveAllocations \in SUBSET Sim
    BY DEF ActiveAllocations, ActiveSims
  <2> QED BY <1>3, <1>5, <2>1, ReleaseAllTyped DEF ReleaseAll
<1>6. ASSUME NEW s \in Sim, RegistryTimer(s) PROVE MemoryTypeOK'
  BY <1>6, UpdateTyped DEF RegistryTimer, CleanupTimerFires, CompleteSimulation, Outcome
<1>7. ASSUME NEW s \in Sim, NEW type \in SimType, NEW d \in Duration,
             OtherSimulation(s, type, d)
      PROVE  MemoryTypeOK'
  BY <1>7, CreateTyped DEF OtherSimulation
<1>8. CASE Tick
  BY <1>8, TickTyped DEF Tick
<1>9. CASE UNCHANGED vars
  BY <1>9 DEF vars, trackerVars, TrackerTypeOK
<1> QED BY <1>1, <1>2, <1>4, <1>5, <1>6, <1>7, <1>8, <1>9 DEF Next

\* The two Maps, the queue of batches and the log always have the shapes the
\* code gives them.
THEOREM TypeCorrect == Spec => []MemoryTypeOK
<1>1. Init => MemoryTypeOK
  BY DEF Init, MemoryTypeOK, TrackerInit, TrackerTypeOK, NoType, Off
<1> QED BY <1>1, TypeInductive, PTL DEF Spec

----------------------------------------------------------------------------
\* Releasing some simulations, as long as none of them stays ACTIVE.
LEMMA DropKeeps ==
  ASSUME MemoryTypeOK, IInv, NEW sims \in SUBSET Sim, DropAllocations(sims),
         \A s \in Sim : status'[s] = "unborn" <=> status[s] = "unborn",
         \A s \in Sim : status'[s] = "STOPPED" => s \in sims \/ status[s] = "STOPPED"
  PROVE  IInv'
<1> USE SizeIsNat DEF IInv, Allocated
<1>1. ASSUME NEW s \in Sim
      PROVE  /\ s \in sims => sizeMb'[s] = 0 /\ filled'[s] = 0
             /\ s \notin sims => sizeMb'[s] = sizeMb[s] /\ filled'[s] = filled[s]
             /\ \A e \in {"MEMORY_ALLOCATING", "MEMORY_ALLOCATED"} :
                  <<e, s>> \in memoryLog' <=> <<e, s>> \in memoryLog
             /\ <<"MEMORY_RELEASED", s>> \in memoryLog' =>
                  \/ <<"MEMORY_RELEASED", s>> \in memoryLog
                  \/ s \in sims /\ (sizeMb[s] > 0 \/ status[s] = "ACTIVE")
  BY DEF DropAllocations, MemoryTypeOK
<1>2. pending' = pending
  BY DEF DropAllocations
<1>3. ASSUME NEW s \in Sim, Allocated(s)'
      PROVE  s \notin sims /\ Allocated(s) /\ TotalObjects(s)' = TotalObjects(s)
  <2>1. s \notin sims
    <3>1. ~(0 > 0)
      OBVIOUS
    <3>2. sizeMb'[s] > 0
      BY <1>3
    <3> QED BY <1>1, <3>1, <3>2
  <2> QED BY <1>1, <1>3, <2>1 DEF TotalObjects
<1>6. BatchChain' /\ \A s \in Sim : Allocated(s)' => filled'[s] <= TotalObjects(s)'
  BY <1>1, <1>2, <1>3 DEF BatchChain
<1>7. StoppedHoldsNoMemory'
  <2> SUFFICES ASSUME NEW s \in Sim, status'[s] = "STOPPED" PROVE ~Allocated(s)'
    BY DEF StoppedHoldsNoMemory
  <2>1. s \in sims \/ (sizeMb'[s] = sizeMb[s] /\ status[s] = "STOPPED")
    BY <1>1
  <2>2. CASE s \in sims
    <3>1. ~(0 > 0)
      OBVIOUS
    <3>2. sizeMb'[s] = 0
      BY <1>1, <2>2
    <3> QED BY <3>1, <3>2
  <2>3. CASE s \notin sims
    BY <2>1, <2>3 DEF StoppedHoldsNoMemory
  <2> QED BY <2>2, <2>3
<1>4. NothingBeforeBirth'
  BY <1>1, <1>2 DEF NothingBeforeBirth, MemoryEvent
<1>5. ReleasedIsGone'
  <2> SUFFICES ASSUME NEW s \in Sim, <<"MEMORY_RELEASED", s>> \in memoryLog'
               PROVE  ~Allocated(s)' /\ status'[s] # "unborn"
    BY DEF ReleasedIsGone
  <2>1. CASE <<"MEMORY_RELEASED", s>> \in memoryLog
    BY <1>1, <2>1 DEF ReleasedIsGone
  <2>2. CASE s \in sims /\ (sizeMb[s] > 0 \/ status[s] = "ACTIVE")
    <3>1. status[s] # "unborn"
      BY <2>2 DEF NothingBeforeBirth
    <3>2. sizeMb'[s] = 0
      BY <1>1, <2>2
    <3> QED BY <3>1, <3>2
  <2> QED BY <1>1, <2>1, <2>2
<1> QED BY <1>4, <1>5, <1>6, <1>7

LEMMA AllocateKeeps ==
  ASSUME MemoryTypeOK, IInv, MemoryTypeOK', NEW s \in Sim, NEW size \in Size, Allocate(s, size)
  PROVE  IInv'
<1> USE DEF IInv, Allocated, MemoryTypeOK
<1>1. /\ sizeMb' = [sizeMb EXCEPT ![s] = size] /\ filled' = [filled EXCEPT ![s] = 0]
      /\ pending' = pending \cup {s}
      /\ memoryLog' = memoryLog \cup {<<"MEMORY_ALLOCATING", s>>}
      /\ status[s] = "unborn" /\ status'[s] = "ACTIVE"
      /\ \A t \in Sim \ {s} : status'[t] = status[t]
  BY CreateTyped, Assumptions DEF Allocate, MemoryAssumptions
<1>2. filled'[s] < TotalObjects(s)'
  <2>1. size \in Nat /\ size > 0 /\ ObjectsPerMb \in Nat /\ ObjectsPerMb > 0
    BY Assumptions DEF MemoryAssumptions
  <2> QED BY <1>1, <2>1, Product DEF TotalObjects
<1>3. \A e \in MemoryEvent : <<e, s>> \notin memoryLog
  BY <1>1 DEF NothingBeforeBirth
<1>4. ASSUME NEW t \in Sim \ {s}
      PROVE  /\ sizeMb'[t] = sizeMb[t] /\ filled'[t] = filled[t] /\ status'[t] = status[t]
             /\ t \in pending' <=> t \in pending
             /\ \A e \in MemoryEvent : <<e, t>> \in memoryLog' <=> <<e, t>> \in memoryLog
  BY <1>1
<1>9. \A t \in Sim \ {s} : TotalObjects(t)' = TotalObjects(t)
  BY <1>4 DEF TotalObjects
<1>10. /\ sizeMb'[s] > 0 /\ filled'[s] = 0 /\ s \in pending' /\ TotalObjects(s)' \in Nat
       /\ <<"MEMORY_ALLOCATED", s>> \notin memoryLog'
  <2>1. size \in Nat \ {0} /\ ObjectsPerMb \in Nat
    BY Assumptions DEF MemoryAssumptions
  <2> QED BY <1>1, <1>3, <2>1, Product DEF MemoryEvent, TotalObjects
<1>5. BatchChain' /\ \A t \in Sim : Allocated(t)' => filled'[t] <= TotalObjects(t)'
  <2> SUFFICES ASSUME NEW t \in Sim
               PROVE  /\ Allocated(t)' => (t \in pending' <=> filled'[t] < TotalObjects(t)')
                      /\ Allocated(t)' /\ <<"MEMORY_ALLOCATED", t>> \in memoryLog'
                           => filled'[t] = TotalObjects(t)'
                      /\ ~Allocated(t)' => filled'[t] = 0
                      /\ Allocated(t)' => filled'[t] <= TotalObjects(t)'
    BY DEF BatchChain
  <2>1. CASE t = s
    BY <1>2, <1>10, <2>1
  <2>2. CASE t # s
    BY <1>4, <1>9, <2>2 DEF BatchChain, MemoryEvent
  <2> QED BY <2>1, <2>2
<1>6. StoppedHoldsNoMemory'
  BY <1>1, <1>4 DEF StoppedHoldsNoMemory
<1>7. NothingBeforeBirth'
  BY <1>1, <1>4 DEF NothingBeforeBirth
<1>8. ReleasedIsGone'
  BY <1>1, <1>3, <1>4 DEF ReleasedIsGone, MemoryEvent
<1> QED BY <1>5, <1>6, <1>7, <1>8

LEMMA BatchKeeps ==
  ASSUME MemoryTypeOK, IInv, NEW s \in Sim, AllocateBatch(s)
  PROVE  IInv'
<1> USE DEF IInv, Allocated, MemoryTypeOK
<1>1. status' = status /\ sizeMb' = sizeMb /\ s \in pending
  BY DEF AllocateBatch, trackerVars
<1>2. \A t \in Sim : TotalObjects(t)' = TotalObjects(t)
  BY <1>1 DEF TotalObjects
<1>3. ASSUME NEW t \in Sim \ {s}
      PROVE  /\ filled'[t] = filled[t]
             /\ t \in pending' <=> t \in pending
             /\ \A e \in MemoryEvent : <<e, t>> \in memoryLog' <=> <<e, t>> \in memoryLog
  BY DEF AllocateBatch
<1>4. /\ Allocated(s) => filled'[s] = AfterBatch(s)
      /\ ~Allocated(s) => filled'[s] = filled[s]
      /\ s \in pending' <=> Allocated(s) /\ AfterBatch(s) < TotalObjects(s)
      /\ <<"MEMORY_ALLOCATED", s>> \in memoryLog' =>
           \/ <<"MEMORY_ALLOCATED", s>> \in memoryLog
           \/ Allocated(s) /\ ~(AfterBatch(s) < TotalObjects(s))
      /\ \A e \in MemoryEvent \ {"MEMORY_ALLOCATED"} :
           <<e, s>> \in memoryLog' <=> <<e, s>> \in memoryLog
      /\ ~Allocated(s) => memoryLog' = memoryLog
  BY <1>1 DEF AllocateBatch
<1>5. /\ AfterBatch(s) \in Nat /\ TotalObjects(s) \in Nat /\ filled[s] \in Nat
      /\ AfterBatch(s) <= TotalObjects(s)
      /\ ~(AfterBatch(s) < TotalObjects(s)) => AfterBatch(s) = TotalObjects(s)
  BY ArrayTyped
<1>6. Allocated(s) => filled[s] < TotalObjects(s)
  BY <1>1 DEF BatchChain
<1>7. BatchChain' /\ \A t \in Sim : Allocated(t)' => filled'[t] <= TotalObjects(t)'
  <2> SUFFICES ASSUME NEW t \in Sim
               PROVE  /\ Allocated(t)' => (t \in pending' <=> filled'[t] < TotalObjects(t)')
                      /\ Allocated(t)' /\ <<"MEMORY_ALLOCATED", t>> \in memoryLog'
                           => filled'[t] = TotalObjects(t)'
                      /\ ~Allocated(t)' => filled'[t] = 0
                      /\ Allocated(t)' => filled'[t] <= TotalObjects(t)'
    BY DEF BatchChain
  <2>1. CASE t = s
    BY <1>1, <1>2, <1>4, <1>5, <1>6, <2>1 DEF BatchChain
  <2>2. CASE t # s
    BY <1>1, <1>2, <1>3, <2>2 DEF BatchChain, MemoryEvent
  <2> QED BY <2>1, <2>2
<1>8. StoppedHoldsNoMemory'
  BY <1>1 DEF StoppedHoldsNoMemory
<1>9. NothingBeforeBirth'
  BY <1>1, <1>3, <1>4 DEF NothingBeforeBirth, MemoryEvent
<1>10. ReleasedIsGone'
  BY <1>1, <1>3, <1>4 DEF ReleasedIsGone, MemoryEvent
<1> QED BY <1>7, <1>8, <1>9, <1>10

LEMMA Inductive ==
  ASSUME MemoryTypeOK, MemoryTypeOK', IInv, [Next]_vars
  PROVE  IInv'
<1>1. ASSUME memoryVars' = memoryVars,
             \A s \in Sim : status'[s] = "unborn" => status[s] = "unborn",
             \A s \in Sim : status[s] = "unborn" /\ status'[s] # "unborn" => status'[s] = "ACTIVE",
             \A s \in Sim : status'[s] = "STOPPED" => status[s] = "STOPPED"
      PROVE  IInv'
  BY <1>1 DEF IInv, memoryVars, BatchChain, Allocated, TotalObjects, StoppedHoldsNoMemory,
              NothingBeforeBirth, ReleasedIsGone
<1>2. ASSUME NEW s \in Sim, Release(s) PROVE IInv'
  BY <1>2, UpdateTyped, DropKeeps DEF Release, StopSimulation, Outcome, MemoryTypeOK
<1>3. CASE ReleaseAll
  <2>1. ActiveAllocations \in SUBSET Sim /\ \A s \in ActiveAllocations : status[s] = "ACTIVE"
    BY DEF ActiveAllocations, ActiveSims
  <2>2. DropAllocations(ActiveAllocations)
    BY <1>3 DEF ReleaseAll
  <2>3. \A s \in Sim : status'[s] = IF s \in ActiveAllocations THEN "STOPPED" ELSE status[s]
    BY <1>3, ReleaseAllTyped DEF MemoryTypeOK
  <2> QED BY <2>1, <2>2, <2>3, DropKeeps
<1>4. ASSUME NEW s \in Sim, RegistryTimer(s) PROVE IInv'
  BY <1>1, <1>4, UpdateTyped
  DEF RegistryTimer, CleanupTimerFires, CompleteSimulation, Outcome, MemoryTypeOK
<1>5. ASSUME NEW s \in Sim, NEW type \in SimType, NEW d \in Duration,
             OtherSimulation(s, type, d)
      PROVE  IInv'
  BY <1>1, <1>5, CreateTyped DEF OtherSimulation, MemoryTypeOK
<1>6. CASE Tick
  BY <1>1, <1>6, TickTyped DEF Tick, MemoryTypeOK
<1>7. CASE UNCHANGED vars
  BY <1>1, <1>7 DEF vars, trackerVars
<1> QED BY <1>2, <1>3, <1>4, <1>5, <1>6, <1>7, AllocateKeeps, BatchKeeps DEF Next

LEMMA IInvAlways == Spec => []IInv
<1>1. Init => IInv
  BY DEF Init, IInv, TrackerInit, BatchChain, Allocated, StoppedHoldsNoMemory,
         NothingBeforeBirth, ReleasedIsGone
<1> QED BY <1>1, Inductive, TypeCorrect, PTL DEF Spec

----------------------------------------------------------------------------
\* Exactly one chain of batches runs for an allocation that is incomplete, and
\* none for one that is complete or released.
THEOREM BatchesChain == Spec => []BatchChain
BY IInvAlways, PTL DEF IInv

\* A simulation the registry shows as STOPPED holds no memory.
THEOREM StoppedIsReleased == Spec => []StoppedHoldsNoMemory
BY IInvAlways, PTL DEF IInv

\* No batch that was queued before a release brings anything back.
THEOREM ReleasesAreFinal == Spec => ReleaseIsFinal
<1> DEFINE Final ==
      \A s \in Sim : <<"MEMORY_RELEASED", s>> \in memoryLog =>
        /\ sizeMb'[s] = 0 /\ filled'[s] = 0
        /\ <<"MEMORY_ALLOCATED", s>> \in memoryLog' => <<"MEMORY_ALLOCATED", s>> \in memoryLog
<1>1. MemoryTypeOK /\ MemoryTypeOK' /\ IInv /\ [Next]_vars => [Final]_vars
  <2> SUFFICES ASSUME MemoryTypeOK, MemoryTypeOK', IInv, Next,
                      NEW s \in Sim, <<"MEMORY_RELEASED", s>> \in memoryLog
               PROVE  /\ sizeMb'[s] = 0 /\ filled'[s] = 0
                      /\ <<"MEMORY_ALLOCATED", s>> \in memoryLog' =>
                           <<"MEMORY_ALLOCATED", s>> \in memoryLog
    BY DEF Final
  <2>1. sizeMb[s] = 0 /\ filled[s] = 0 /\ status[s] # "unborn"
    BY SizeIsNat DEF IInv, ReleasedIsGone, BatchChain, Allocated
  <2>2. CASE UNCHANGED memoryVars
    BY <2>1, <2>2 DEF memoryVars
  <2>3. ASSUME NEW t \in Sim, NEW size \in Size, Allocate(t, size)
        PROVE  /\ sizeMb'[s] = sizeMb[s] /\ filled'[s] = filled[s]
               /\ <<"MEMORY_ALLOCATED", s>> \in memoryLog' <=>
                    <<"MEMORY_ALLOCATED", s>> \in memoryLog
    BY <2>1, <2>3 DEF Allocate, CreateSimulation, MemoryTypeOK
  <2>4. ASSUME NEW t \in Sim, AllocateBatch(t)
        PROVE  /\ sizeMb'[s] = sizeMb[s] /\ filled'[s] = filled[s]
               /\ <<"MEMORY_ALLOCATED", s>> \in memoryLog' <=>
                    <<"MEMORY_ALLOCATED", s>> \in memoryLog
    BY <2>1, <2>4 DEF AllocateBatch, Allocated, MemoryTypeOK
  <2>5. ASSUME NEW sims, DropAllocations(sims)
        PROVE  /\ sizeMb'[s] = 0 /\ filled'[s] = 0
               /\ <<"MEMORY_ALLOCATED", s>> \in memoryLog' <=>
                    <<"MEMORY_ALLOCATED", s>> \in memoryLog
    BY <2>1, <2>5 DEF DropAllocations, MemoryTypeOK
  <2> QED
    BY <2>1, <2>2, <2>3, <2>4, <2>5
    DEF Next, Release, ReleaseAll, RegistryTimer, OtherSimulation, Tick
<1> QED BY <1>1, IInvAlways, TypeCorrect, PTL DEF Spec, ReleaseIsFinal


----------------------------------------------------------------------------
LEMMA UpdateIsLifecycle ==
  ASSUME TrackerTypeOK, NEW s \in Sim, NEW outcome \in Outcome,
         UpdateSimulationStatus(s, outcome)
  PROVE  [Lifecycle!Next]_status
BY DEF UpdateSimulationStatus, TrackerTypeOK, trackerVars, Outcome, Lifecycle!Outcome,
       Lifecycle!End, Lifecycle!Next

LEMMA StepIsLifecycle ==
  ASSUME MemoryTypeOK, [Next]_vars
  PROVE  [Lifecycle!Next]_status
<1> USE DEF MemoryTypeOK
<1>1. ASSUME NEW s \in Sim, NEW type, NEW d, CreateSimulation(s, type, d)
      PROVE  Lifecycle!Next
  BY <1>1 DEF CreateSimulation, TrackerTypeOK, Lifecycle!Begin, Lifecycle!Next
<1>2. CASE ReleaseAll
  <2>1. Lifecycle!EndAll(ActiveAllocations, "STOPPED")
    BY <1>2 DEF ReleaseAll, ActiveAllocations, ActiveSims, Lifecycle!EndAll
  <2> QED BY <2>1 DEF ActiveAllocations, ActiveSims, Lifecycle!Next
<1>3. QED
  BY <1>1, <1>2, UpdateIsLifecycle
  DEF Next, vars, trackerVars, Allocate, AllocateBatch, Release, RegistryTimer,
      OtherSimulation, Tick, TrackerTick, StopSimulation, CompleteSimulation,
      CleanupTimerFires, Outcome

\* The registry keeps its promises to its callers with memory pressure on top
\* of it, which releases several allocations in one step and stops the record
\* of any simulation.
THEOREM RefinesLifecycle == Spec => ImplementsLifecycle
<1>1. Init => Lifecycle!Init
  BY DEF Init, TrackerInit, Lifecycle!Init
<1>2. QED
  BY <1>1, StepIsLifecycle, TypeCorrect, PTL DEF Spec, ImplementsLifecycle, Lifecycle!Spec
=============================================================================
