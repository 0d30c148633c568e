----------------------------- MODULE IdleTimeout -----------------------------
(***************************************************************************)
(* services/idle-timeout.service.ts: the main process goes idle when no    *)
(* activity was recorded for a while.  Modules that EXTEND this one add    *)
(* the callbacks of notifyStateChange to RecordActivity and CheckIdle.     *)
(*                                                                         *)
(* The service reads two clocks: setTimeout counts on a monotonic one,     *)
(* `elapsed' (Date.now() - lastActivityTimestamp) on the wall clock, which *)
(* is adjusted from time to time.  A tick is one minute, the unit of       *)
(* IDLE_TIMEOUT_MINUTES; `quiet' is what the monotonic clock would give    *)
(* for `elapsed' and no code reads it.                                     *)
(***************************************************************************)
EXTENDS Integers

CONSTANTS
  EnvMinutes,      \* parseInt(IDLE_TIMEOUT_MINUTES), 20 if unset, 0 for NaN
  MaxMinutes,      \* 1440
  MaxStartup,      \* minutes between loading the service and start()
  MaxAdjustments   \* adjustments of the wall clock, one minute each

ASSUME EnvAssumption == EnvMinutes \in Int
ASSUME MaxMinutesAssumption == MaxMinutes \in Nat \ {0}
ASSUME MaxStartupAssumption == MaxStartup \in Nat

VARIABLES isIdle, elapsed, checkTimer, quiet, adjustments

idleVars == <<isIdle, elapsed, checkTimer, quiet, adjustments>>

Unarmed == -1                           \* idleCheckTimer is not running

\* The constructor: idleTimeoutMs.
IdlePeriod ==
  IF EnvMinutes < 1 THEN 1
  ELSE IF EnvMinutes > MaxMinutes THEN MaxMinutes ELSE EnvMinutes

\* All adjustments together are no longer than one period.
ASSUME MaxAdjustmentsAssumption == MaxAdjustments \in 0..IdlePeriod

IdleTypeOK ==
  /\ isIdle \in BOOLEAN
  /\ elapsed \in Int
  /\ checkTimer \in Nat \cup {Unarmed}
  /\ quiet \in Nat
  /\ adjustments \in 0..MaxAdjustments

\* start(): lastActivityTimestamp is still the time the module was loaded.
IdleInit ==
  /\ isIdle = FALSE
  /\ elapsed \in 0..MaxStartup
  /\ checkTimer = IdlePeriod
  /\ quiet = 0
  /\ adjustments = 0

----------------------------------------------------------------------------
\* The process restarts.
IdleBoot ==
  /\ isIdle' = FALSE
  /\ elapsed' \in 0..MaxStartup
  /\ checkTimer' = IdlePeriod
  /\ quiet' = 0
  /\ UNCHANGED adjustments

ActivityWithoutReschedule ==            \* mutant: scheduleIdleCheck is forgotten
  /\ isIdle' = FALSE
  /\ elapsed' = 0
  /\ quiet' = 0
  /\ UNCHANGED <<checkTimer, adjustments>>

\* recordActivity(), before notifyStateChange(FALSE) reaches the callbacks.
RecordActivity ==
  /\ isIdle' = FALSE
  /\ elapsed' = 0
  /\ quiet' = 0
  /\ checkTimer' = IdlePeriod
  /\ UNCHANGED adjustments

StrictCheck ==                          \* mutant: > for >=
  /\ checkTimer = 0
  /\ IF elapsed > IdlePeriod
     THEN isIdle' = TRUE /\ checkTimer' = Unarmed
     ELSE checkTimer' = IdlePeriod /\ UNCHANGED isIdle
  /\ UNCHANGED <<elapsed, quiet, adjustments>>

\* checkIdle(), when the timer fires.  If the wall clock is behind, the check
\* is repeated after another full period.
CheckIdle ==
  /\ checkTimer = 0
  /\ IF elapsed >= IdlePeriod
     THEN isIdle' = TRUE /\ checkTimer' = Unarmed
     ELSE checkTimer' = IdlePeriod /\ UNCHANGED isIdle
  /\ UNCHANGED <<elapsed, quiet, adjustments>>

\* A minute passes.  Nothing reads a clock while no check is armed.
IdleTick ==
  /\ checkTimer > 0
  /\ checkTimer' = checkTimer - 1
  /\ elapsed' = elapsed + 1
  /\ quiet' = quiet + 1
  /\ UNCHANGED <<isIdle, adjustments>>

\* The wall clock is set forwards or back.
AdjustWallClock(d) ==
  /\ adjustments < MaxAdjustments
  /\ adjustments' = adjustments + 1
  /\ elapsed' = elapsed + d
  /\ UNCHANGED <<isIdle, checkTimer, quiet>>

\* The service alone.
IdleNext ==
  \/ RecordActivity
  \/ CheckIdle
  \/ IdleTick
  \/ \E d \in {-1, 1} : AdjustWallClock(d)

IdleSpec == IdleInit /\ [][IdleNext]_idleVars

----------------------------------------------------------------------------
(* What the service promises to the modules that use it.                   *)

\* The watch is never lost: as long as the process is awake a check is armed,
\* and while it is idle none is, whatever activity and checks interleaved.
AlwaysWatching ==
  /\ isIdle => checkTimer = Unarmed
  /\ ~isIdle => checkTimer # Unarmed

\* Idle is timely: an awake process had activity within the last two periods,
\* two because a wall clock that is behind costs one more full period.
IdleWithinTwoPeriods == ~isIdle => quiet + checkTimer <= 2 * IdlePeriod

\* A step goes idle only after a full period without activity, measured on
\* the monotonic clock: setting the wall clock forward cannot cut it short.
NeverIdleEarly == [][~isIdle /\ isIdle' => quiet >= IdlePeriod]_idleVars
=============================================================================
