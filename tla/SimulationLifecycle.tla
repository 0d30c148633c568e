------------------------ MODULE SimulationLifecycle ------------------------
(***************************************************************************)
(* What the simulation registry promises its callers, and nothing of how   *)
(* it keeps the promise: a simulation gets an id nobody had before, runs,  *)
(* ends exactly once with one outcome, and keeps that outcome for as long  *)
(* as it is remembered.  SimulationTracker, CpuStress and MemoryPressure   *)
(* are shown to implement this specification.                              *)
(***************************************************************************)
CONSTANT Sim      \* the ids generateId() can return

VARIABLE state    \* state[s]: where simulation s is in its life

Outcome == {"COMPLETED", "STOPPED", "FAILED"}

TypeOK == state \in [Sim -> {"unborn", "ACTIVE", "removed"} \cup Outcome]

Init == state = [s \in Sim |-> "unborn"]

Begin(s) ==
  /\ state[s] = "unborn"
  /\ state' = [state EXCEPT ![s] = "ACTIVE"]

End(s, outcome) ==
  /\ state[s] = "ACTIVE"
  /\ state' = [state EXCEPT ![s] = outcome]

\* Several active simulations can end in one step (stopAll) ...
EndAll(ending, outcome) ==
  /\ \A s \in ending : state[s] = "ACTIVE"
  /\ state' = [s \in Sim |-> IF s \in ending THEN outcome ELSE state[s]]

\* ... and records can be forgotten: the Map is cleared, or the process dies.
Forget(gone) ==
  /\ \A s \in gone : state[s] # "unborn"
  /\ state' = [s \in Sim |-> IF s \in gone THEN "removed" ELSE state[s]]

Next ==
  \/ \E s \in Sim : Begin(s)
  \/ \E s \in Sim, outcome \in Outcome : End(s, outcome)
  \/ \E ending \in SUBSET Sim : EndAll(ending, "STOPPED")
  \/ \E gone \in SUBSET Sim : Forget(gone)

Spec == Init /\ [][Next]_state
=============================================================================
