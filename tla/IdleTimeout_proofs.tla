------------------------- MODULE IdleTimeout_proofs -------------------------
(***************************************************************************)
(* Theorems about the idle timeout service, for every configured period    *)
(* and every number of adjustments of the wall clock that its assumption   *)
(* admits.  They are stated as steps (IdleNext) too, so that a module that *)
(* composes the service can use them.                                      *)
(***************************************************************************)
EXTENDS IdleTimeout, TLAPS

\* Each check is armed for a full period, so the monotonic clock shows one
\* or two of them when it is due; the wall clock lags by at most the
\* adjustments made so far.
IdleInv ==
  /\ IdleTypeOK
  /\ AlwaysWatching
  /\ elapsed >= quiet - adjustments
  /\ ~isIdle => \/ quiet + checkTimer = IdlePeriod
                \/ quiet + checkTimer = 2 * IdlePeriod

LEMMA PeriodPositive == IdlePeriod \in Nat \ {0}
BY EnvAssumption, MaxMinutesAssumption DEF IdlePeriod

LEMMA IdleInitInv == IdleInit => IdleInv
<1> SUFFICES ASSUME IdleInit PROVE IdleInv
  OBVIOUS
<1>1. ~isIdle
  BY DEF IdleInit
<1>2. isIdle \in BOOLEAN
  BY <1>1 DEF IdleInit
<1>3. IdleTypeOK
  BY <1>2, PeriodPositive, MaxStartupAssumption, MaxAdjustmentsAssumption
  DEF IdleInit, IdleTypeOK
<1> QED
  BY <1>1, <1>3, PeriodPositive, MaxStartupAssumption
  DEF IdleInit, IdleInv, AlwaysWatching, Unarmed

LEMMA ActivityKeepsInv == IdleInv /\ RecordActivity => IdleInv'
<1> SUFFICES ASSUME IdleInv, RecordActivity PROVE IdleInv'
  OBVIOUS
<1>1. ~isIdle'
  BY DEF RecordActivity
<1>2. isIdle' \in BOOLEAN
  BY DEF RecordActivity
<1>3. IdleTypeOK'
  BY <1>2, PeriodPositive DEF RecordActivity, IdleInv, IdleTypeOK
<1> QED
  BY <1>1, <1>3, PeriodPositive, MaxAdjustmentsAssumption
  DEF RecordActivity, IdleInv, IdleTypeOK, AlwaysWatching, Unarmed

\* The check goes on for a second period only if the first one was due early
\* on the wall clock; after two periods no adjustment can hold it up.
LEMMA CheckKeepsInv == IdleInv /\ CheckIdle => IdleInv'
<1> SUFFICES ASSUME IdleInv, CheckIdle PROVE IdleInv'
  OBVIOUS
<1>1. /\ ~isIdle /\ checkTimer = 0
      /\ quiet = IdlePeriod \/ quiet = 2 * IdlePeriod
  BY PeriodPositive DEF CheckIdle, IdleInv, IdleTypeOK, AlwaysWatching, Unarmed
<1>2. CASE elapsed >= IdlePeriod
  BY <1>1, <1>2 DEF CheckIdle, IdleInv, IdleTypeOK, AlwaysWatching, Unarmed
<1>3. CASE ~(elapsed >= IdlePeriod)
  <2>1. quiet = IdlePeriod
    BY <1>1, <1>3, PeriodPositive, MaxAdjustmentsAssumption
    DEF IdleInv, IdleTypeOK
  <2> QED
    BY <1>1, <1>3, <2>1, PeriodPositive
    DEF CheckIdle, IdleInv, IdleTypeOK, AlwaysWatching, Unarmed
<1> QED BY <1>2, <1>3

LEMMA TickKeepsInv == IdleInv /\ IdleTick => IdleInv'
BY PeriodPositive DEF IdleTick, IdleInv, IdleTypeOK, AlwaysWatching, Unarmed

LEMMA AdjustKeepsInv ==
  ASSUME IdleInv, NEW d \in {-1, 1}, AdjustWallClock(d)
  PROVE  IdleInv'
BY MaxAdjustmentsAssumption, PeriodPositive
DEF AdjustWallClock, IdleInv, IdleTypeOK, AlwaysWatching, Unarmed

LEMMA IdleInductive == IdleInv /\ [IdleNext]_idleVars => IdleInv'
<1> SUFFICES ASSUME IdleInv, [IdleNext]_idleVars PROVE IdleInv'
  OBVIOUS
<1>1. CASE UNCHANGED idleVars
  BY <1>1 DEF idleVars, IdleInv, IdleTypeOK, AlwaysWatching
<1> QED
  BY <1>1, ActivityKeepsInv, CheckKeepsInv, TickKeepsInv, AdjustKeepsInv
  DEF IdleNext

\* What IdleInv says of the two promises.
LEMMA IdleInvImplies == IdleInv => AlwaysWatching /\ IdleWithinTwoPeriods
BY PeriodPositive DEF IdleInv, IdleTypeOK, IdleWithinTwoPeriods

LEMMA IdleOnlyWhenQuiet ==
  IdleInv /\ [IdleNext]_idleVars => (~isIdle /\ isIdle' => quiet >= IdlePeriod)
<1> SUFFICES ASSUME IdleInv, [IdleNext]_idleVars, ~isIdle, isIdle'
             PROVE  quiet >= IdlePeriod
  OBVIOUS
<1>1. CheckIdle
  BY DEF IdleNext, idleVars, RecordActivity, IdleTick, AdjustWallClock
<1> QED
  BY <1>1, PeriodPositive DEF CheckIdle, IdleInv, IdleTypeOK

LEMMA IdleInvAlways == IdleSpec => []IdleInv
BY IdleInitInv, IdleInductive, PTL DEF IdleSpec

\* The watch on activity is never lost.
THEOREM NeverUnwatched == IdleSpec => []AlwaysWatching
BY IdleInvAlways, IdleInvImplies, PTL

\* The process goes idle within two periods of the last activity.
THEOREM IdleIsTimely == IdleSpec => []IdleWithinTwoPeriods
BY IdleInvAlways, IdleInvImplies, PTL

\* Idle is never declared before a full period has passed without activity.
THEOREM IdleIsNotEarly == IdleSpec => NeverIdleEarly
BY IdleInvAlways, IdleOnlyWhenQuiet, PTL DEF IdleSpec, NeverIdleEarly
=============================================================================
