--------------------------- MODULE LoadTest_proofs ---------------------------
(***************************************************************************)
(* Theorems about the load test service, for any number of requests in any *)
(* overlap, and any sampling rate.                                         *)
(***************************************************************************)
EXTENDS LoadTest, FiniteSetTheorems, TLAPS

----------------------------------------------------------------------------
(* Arithmetic of the sampling counter.                                     *)

LEMMA DivMod ==
  ASSUME NEW a \in Nat, NEW n \in Nat \ {0}
  PROVE  /\ a = n * (a \div n) + (a % n)
         /\ a \div n \in Int
         /\ a % n \in 0..n-1
BY SMTT(20)

LEMMA ModUnique ==
  ASSUME NEW a \in Nat, NEW n \in Nat \ {0}, NEW q \in Int, NEW r \in 0..n-1,
         a = n * q + r
  PROVE  a % n = r
BY SMTT(20)

LEMMA NextSample ==
  ASSUME NEW a \in Nat, NEW n \in Nat \ {0}
  PROVE  (a + 1) % n = IF (a % n) + 1 >= n THEN 0 ELSE (a % n) + 1
<1> DEFINE q == a \div n
           r == a % n
<1>1. a = n * q + r /\ q \in Int /\ r \in 0..n-1
  BY DivMod
<1> HIDE DEF q, r
<1>2. CASE r + 1 >= n
  <2>1. a + 1 = n * q + n
    BY <1>1, <1>2
  <2>2. n * q + n = n * (q + 1) + 0
    BY <1>1
  <2>3. (a + 1) % n = 0
    BY <1>1, <2>1, <2>2, ModUnique, q + 1 \in Int, 0 \in 0..n-1, a + 1 \in Nat
  <2> QED BY <1>2, <2>3 DEF r
<1>3. CASE ~(r + 1 >= n)
  <2>1. a + 1 = n * q + (r + 1) /\ r + 1 \in 0..n-1
    BY <1>1, <1>3
  <2>2. (a + 1) % n = r + 1
    BY <1>1, <2>1, ModUnique, a + 1 \in Nat
  <2> QED BY <1>3, <2>2 DEF r
<1> QED BY <1>2, <1>3

----------------------------------------------------------------------------
(* The inductive invariant: request ids are handed out in order, so that   *)
(* the one a new request gets is not in flight.                            *)

IdsInOrder == inFlightRequestIds \subseteq 0..nextRequestId - 1

IInv == LoadTypeOK /\ IdsInOrder /\ EveryRequestCounted /\ PeriodIsCoherent

LEMMA InFlightIsFinite ==
  ASSUME LoadTypeOK
  PROVE  /\ IsFiniteSet(inFlightRequestIds)
         /\ Cardinality(inFlightRequestIds) \in Nat
<1>1. IsFiniteSet(0..MaxRequests - 1)
  BY FS_Interval, LoadAssumption
<1>2. IsFiniteSet(inFlightRequestIds)
  BY <1>1, FS_Subset DEF LoadTypeOK, Id
<1> QED BY <1>2, FS_CardinalityType

LEMMA InitHolds == Init => IInv
<1> SUFFICES ASSUME Init PROVE IInv
  OBVIOUS
<1>1. LoadTypeOK
  BY LoadAssumption DEF Init, LoadTypeOK, EmptyPeriod, PeriodStats, Params, Id
<1>2. IdsInOrder /\ PeriodIsCoherent
  BY DEF Init, IdsInOrder, PeriodIsCoherent, EmptyPeriod
<1>3. 0 % LATENCY_SAMPLE_RATE = 0
  BY ModUnique, LoadAssumption, 0 = LATENCY_SAMPLE_RATE * 0 + 0,
     0 \in 0..LATENCY_SAMPLE_RATE - 1
<1>4. EveryRequestCounted
  BY <1>3, FS_EmptySet DEF Init, EveryRequestCounted, EmptyPeriod
<1> QED BY <1>1, <1>2, <1>4 DEF IInv

LEMMA BumpIsNat == ASSUME NEW n \in Nat, NEW c PROVE Bump(n, c) \in Nat
BY DEF Bump

LEMMA CompletionShape ==
  ASSUME NEW p \in PeriodStats, NEW suppressLogs \in BOOLEAN, NEW throws \in BOOLEAN
  PROVE  /\ WithCompletion(p, suppressLogs, throws) \in PeriodStats
         /\ WithCompletion(p, suppressLogs, throws).peak = p.peak
         /\ WithCompletion(p, suppressLogs, throws).completed = p.completed + 1
         /\ WithCompletion(p, suppressLogs, throws).exceptions = Bump(p.exceptions, throws)
         /\ WithCompletion(p, suppressLogs, throws).suppressed
              = Bump(p.suppressed, suppressLogs)
<1> DEFINE e == Bump(p.exceptions, throws)
           d == Bump(p.suppressed, suppressLogs)
<1>1. e \in Nat /\ d \in Nat
  BY BumpIsNat DEF PeriodStats
<1>2. WithCompletion(p, suppressLogs, throws) =
        [p EXCEPT !.completed = p.completed + 1, !.exceptions = e, !.suppressed = d]
  BY DEF WithCompletion
<1> HIDE DEF e, d
<1> DEFINE p1 == [p EXCEPT !.completed = p.completed + 1]
           p2 == [p1 EXCEPT !.exceptions = e]
           p3 == [p2 EXCEPT !.suppressed = d]
<1>3. /\ p1 \in PeriodStats /\ p1.completed = p.completed + 1
      /\ p1.peak = p.peak /\ p1.exceptions = p.exceptions
  BY DEF PeriodStats
<1>4. WithCompletion(p, suppressLogs, throws) = p3
  BY <1>2
<1> HIDE DEF p1
<1>5. /\ p2 \in PeriodStats /\ p2.exceptions = e
      /\ p2.peak = p1.peak /\ p2.completed = p1.completed
  BY <1>1, <1>3 DEF PeriodStats
<1> HIDE DEF p2
<1>6. /\ p3 \in PeriodStats /\ p3.suppressed = d
      /\ p3.peak = p2.peak /\ p3.completed = p2.completed
      /\ p3.exceptions = p2.exceptions
  BY <1>1, <1>5 DEF PeriodStats
<1> HIDE DEF p3
<1> QED BY <1>3, <1>4, <1>5, <1>6 DEF e, d

\* The records that executeWork passes along keep their shape.
LEMMA PeriodShape ==
  ASSUME NEW p \in PeriodStats, NEW current \in Nat,
         NEW suppressLogs \in BOOLEAN, NEW throws \in BOOLEAN
  PROVE  /\ WithPeak(p, current) \in PeriodStats
         /\ WithPeak(p, current).peak >= current
         /\ WithPeak(p, current).peak >= p.peak
         /\ WithPeak(p, current).completed = p.completed
         /\ WithPeak(p, current).exceptions = p.exceptions
         /\ WithPeak(p, current).suppressed = p.suppressed
         /\ WithCompletion(p, suppressLogs, throws) \in PeriodStats
         /\ WithCompletion(p, suppressLogs, throws).peak = p.peak
         /\ WithCompletion(p, suppressLogs, throws).completed = p.completed + 1
         /\ WithCompletion(p, suppressLogs, throws).exceptions = Bump(p.exceptions, throws)
         /\ WithCompletion(p, suppressLogs, throws).suppressed
              = Bump(p.suppressed, suppressLogs)
<1>1. /\ p.completed \in Nat
      /\ p.exceptions \in Nat
      /\ p.peak \in Nat
      /\ p.suppressed \in Nat
  BY DEF PeriodStats
<1>2. CASE current > p.peak
  <2>1. WithPeak(p, current) = [p EXCEPT !.peak = current]
    BY <1>2 DEF WithPeak
  <2>2. /\ WithPeak(p, current) \in PeriodStats
        /\ WithPeak(p, current).peak = current
        /\ WithPeak(p, current).completed = p.completed
        /\ WithPeak(p, current).exceptions = p.exceptions
        /\ WithPeak(p, current).suppressed = p.suppressed
    BY <2>1 DEF PeriodStats
  <2> QED BY <1>1, <1>2, <2>2, CompletionShape
<1>3. CASE ~(current > p.peak)
  <2>1. WithPeak(p, current) = p
    BY <1>3 DEF WithPeak
  <2> QED BY <1>1, <1>3, <2>1, CompletionShape
<1> QED BY <1>2, <1>3

\* catch and finally count a request once everywhere, from a period p that has
\* counted the requests before it.
LEMMA CompletionCounts ==
  ASSUME IInv, NEW p \in PeriodStats, NEW suppressLogs \in BOOLEAN, NEW throws \in BOOLEAN,
         p.completed = period.completed, p.exceptions = period.exceptions,
         p.suppressed = period.suppressed,
         UNCHANGED reported,
         Completes(p, suppressLogs, throws)
  PROVE  /\ totalRequestsProcessed' = totalRequestsProcessed + 1
         /\ totalExceptionsThrown' \in Nat
         /\ period' \in PeriodStats /\ period'.peak = p.peak
         /\ period'.completed > 0
         /\ period'.exceptions <= period'.completed
         /\ period'.suppressed <= period'.completed
         /\ totalRequestsProcessed' = reported'.completed + period'.completed
         /\ totalExceptionsThrown' = reported'.exceptions + period'.exceptions
         /\ requestSampleCounter' = totalRequestsProcessed' % LATENCY_SAMPLE_RATE
         /\ requestSampleCounter' \in 0..LATENCY_SAMPLE_RATE - 1
         /\ unlogged' \in Nat
<1> USE DEF IInv, LoadTypeOK
<1>1. /\ totalRequestsProcessed' = totalRequestsProcessed + 1
      /\ totalExceptionsThrown' = Bump(totalExceptionsThrown, throws)
      /\ period' = WithCompletion(p, suppressLogs, throws)
      /\ Sampled
      /\ unlogged' = Bump(unlogged, ~suppressLogs)
  BY DEF Completes
<1>2. /\ period' \in PeriodStats /\ period'.peak = p.peak
      /\ period'.completed = p.completed + 1
      /\ period'.exceptions = Bump(p.exceptions, throws)
      /\ period'.suppressed = Bump(p.suppressed, suppressLogs)
  BY <1>1, PeriodShape
<1>3. /\ totalExceptionsThrown' \in Nat /\ unlogged' \in Nat
  BY <1>1 DEF Bump
<1>4. /\ period'.completed > 0
      /\ period'.exceptions <= period'.completed
      /\ period'.suppressed <= period'.completed
  BY <1>2 DEF Bump, PeriodIsCoherent, PeriodStats
<1>5. /\ totalRequestsProcessed' = reported'.completed + period'.completed
      /\ totalExceptionsThrown' = reported'.exceptions + period'.exceptions
  BY <1>1, <1>2 DEF Bump, EveryRequestCounted, PeriodStats
<1>6. requestSampleCounter' = totalRequestsProcessed' % LATENCY_SAMPLE_RATE
  BY <1>1, NextSample, LoadAssumption DEF Sampled, EveryRequestCounted
<1>7. requestSampleCounter' \in 0..LATENCY_SAMPLE_RATE - 1
  BY <1>1, LoadAssumption DEF Sampled
<1> QED BY <1>1, <1>2, <1>3, <1>4, <1>5, <1>6, <1>7

----------------------------------------------------------------------------
(* Each action keeps the invariant.                                        *)

LEMMA BeginKeeps ==
  ASSUME IInv, NEW suppressLogs \in BOOLEAN, NEW above, NEW chance,
         Begin(suppressLogs, above, chance)
  PROVE  IInv'
<1> USE DEF IInv
<1>1. /\ nextRequestId < MaxRequests
      /\ concurrentRequests' = concurrentRequests + 1
      /\ period' = WithPeak(period, concurrentRequests + 1)
      /\ nextRequestId' = nextRequestId + 1
      /\ inFlightRequestIds' = inFlightRequestIds \cup {nextRequestId}
      /\ UNCHANGED <<totalRequestsProcessed, totalExceptionsThrown,
                     recentProbeLatencies, requestSampleCounter, reported, unlogged>>
  BY DEF Begin
<1>2. /\ period' \in PeriodStats
      /\ period'.peak >= concurrentRequests'
      /\ period'.completed = period.completed
      /\ period'.exceptions = period.exceptions
      /\ period'.suppressed = period.suppressed
  BY <1>1, PeriodShape DEF LoadTypeOK
<1>3. /\ Cardinality(inFlightRequestIds') = Cardinality(inFlightRequestIds) + 1
      /\ inFlightRequestIds' \subseteq 0..nextRequestId' - 1
      /\ inFlightRequestIds' \subseteq Id
  <2>1. nextRequestId \notin inFlightRequestIds
    BY DEF IdsInOrder, LoadTypeOK
  <2>2. Cardinality(inFlightRequestIds') = Cardinality(inFlightRequestIds) + 1
    BY <1>1, <2>1, InFlightIsFinite, FS_AddElement
  <2>3. /\ inFlightRequestIds' \subseteq 0..nextRequestId' - 1
        /\ inFlightRequestIds' \subseteq Id
    BY <1>1, LoadAssumption DEF IdsInOrder, LoadTypeOK, Id
  <2> QED BY <2>2, <2>3
<1>4. request' \in [Id -> Params]
  <2>1. MayThrow(concurrentRequests + 1, above, chance) \in SUBSET BOOLEAN
    BY DEF MayThrow
  <2>2. [suppressLogs |-> suppressLogs,
         throws |-> MayThrow(concurrentRequests + 1, above, chance)] \in Params
    BY <2>1 DEF Params
  <2> QED BY <2>2 DEF Begin, LoadTypeOK
<1>5. LoadTypeOK'
  BY <1>1, <1>2, <1>3, <1>4, LoadAssumption DEF LoadTypeOK
<1>6. EveryRequestCounted'
  BY <1>1, <1>2, <1>3, InFlightIsFinite DEF EveryRequestCounted, LoadTypeOK
<1>7. PeriodIsCoherent'
  BY <1>1, <1>2 DEF PeriodIsCoherent, LoadTypeOK
<1> QED BY <1>3, <1>5, <1>6, <1>7 DEF IdsInOrder

LEMMA AnswerAtOnceKeeps ==
  ASSUME IInv, NEW suppressLogs \in BOOLEAN, NEW throws \in BOOLEAN,
         AnswerAtOnce(suppressLogs, throws)
  PROVE  IInv'
<1> USE DEF IInv
<1> DEFINE p == WithPeak(period, concurrentRequests + 1)
<1>1. /\ nextRequestId < MaxRequests
      /\ nextRequestId' = nextRequestId + 1
      /\ Completes(p, suppressLogs, throws)
      /\ UNCHANGED <<concurrentRequests, inFlightRequestIds, request,
                     recentProbeLatencies, reported>>
  BY DEF AnswerAtOnce
<1>2. /\ p \in PeriodStats
      /\ p.peak >= concurrentRequests + 1
      /\ p.completed = period.completed
      /\ p.exceptions = period.exceptions
      /\ p.suppressed = period.suppressed
  BY PeriodShape DEF LoadTypeOK
<1> HIDE DEF p
<1>3. /\ totalRequestsProcessed' = totalRequestsProcessed + 1
      /\ totalExceptionsThrown' \in Nat
      /\ period' \in PeriodStats /\ period'.peak = p.peak
      /\ period'.completed > 0
      /\ period'.exceptions <= period'.completed
      /\ period'.suppressed <= period'.completed
      /\ totalRequestsProcessed' = reported'.completed + period'.completed
      /\ totalExceptionsThrown' = reported'.exceptions + period'.exceptions
      /\ requestSampleCounter' = totalRequestsProcessed' % LATENCY_SAMPLE_RATE
      /\ requestSampleCounter' \in 0..LATENCY_SAMPLE_RATE - 1
      /\ unlogged' \in Nat
  BY <1>1, <1>2, CompletionCounts
<1>4. LoadTypeOK'
  BY <1>1, <1>3, LoadAssumption DEF LoadTypeOK
<1>5. IdsInOrder'
  BY <1>1 DEF IdsInOrder, LoadTypeOK
<1>6. EveryRequestCounted'
  BY <1>1, <1>3 DEF EveryRequestCounted, LoadTypeOK
<1>7. PeriodIsCoherent'
  BY <1>1, <1>2, <1>3 DEF PeriodIsCoherent, LoadTypeOK, PeriodStats
<1> QED BY <1>4, <1>5, <1>6, <1>7

LEMMA AnswerKeeps ==
  ASSUME IInv, NEW r \in Id, NEW throws \in BOOLEAN, Answer(r, throws)
  PROVE  IInv'
<1> USE DEF IInv
<1>1. /\ r \in inFlightRequestIds
      /\ inFlightRequestIds' = inFlightRequestIds \ {r}
      /\ concurrentRequests' = concurrentRequests - 1
      /\ Completes(period, request[r].suppressLogs, throws)
      /\ UNCHANGED <<nextRequestId, request, recentProbeLatencies, reported>>
  BY DEF Answer
<1>2. /\ Cardinality(inFlightRequestIds') = Cardinality(inFlightRequestIds) - 1
      /\ Cardinality(inFlightRequestIds') \in Nat
  <2>1. /\ IsFiniteSet(inFlightRequestIds')
        /\ Cardinality(inFlightRequestIds') = Cardinality(inFlightRequestIds) - 1
    BY <1>1, InFlightIsFinite, FS_RemoveElement
  <2> QED BY <2>1, FS_CardinalityType
<1>3. /\ totalRequestsProcessed' = totalRequestsProcessed + 1
      /\ totalExceptionsThrown' \in Nat
      /\ period' \in PeriodStats /\ period'.peak = period.peak
      /\ period'.completed > 0
      /\ period'.exceptions <= period'.completed
      /\ period'.suppressed <= period'.completed
      /\ totalRequestsProcessed' = reported'.completed + period'.completed
      /\ totalExceptionsThrown' = reported'.exceptions + period'.exceptions
      /\ requestSampleCounter' = totalRequestsProcessed' % LATENCY_SAMPLE_RATE
      /\ requestSampleCounter' \in 0..LATENCY_SAMPLE_RATE - 1
      /\ unlogged' \in Nat
  <2>1. request[r].suppressLogs \in BOOLEAN
    BY DEF LoadTypeOK, Params
  <2>2. period \in PeriodStats
    BY DEF LoadTypeOK
  <2> QED BY <1>1, <2>1, <2>2, CompletionCounts
<1>4. LoadTypeOK'
  BY <1>1, <1>2, <1>3 DEF LoadTypeOK, EveryRequestCounted
<1>5. IdsInOrder'
  BY <1>1 DEF IdsInOrder
<1>6. EveryRequestCounted'
  BY <1>1, <1>2, <1>3, InFlightIsFinite DEF EveryRequestCounted, LoadTypeOK
<1>7. PeriodIsCoherent'
  BY <1>1, <1>3 DEF PeriodIsCoherent, LoadTypeOK, PeriodStats
<1> QED BY <1>4, <1>5, <1>6, <1>7

LEMMA RecordProbeKeeps == IInv /\ RecordProbeLatency => IInv'
BY LoadAssumption
   DEF IInv, RecordProbeLatency, LoadTypeOK, IdsInOrder, EveryRequestCounted,
       PeriodIsCoherent, counters

LEMMA BroadcastKeeps ==
  ASSUME IInv, BroadcastStats PROVE IInv'
<1> USE DEF IInv
<1>1. /\ reported' = [completed  |-> reported.completed + period.completed,
                      exceptions |-> reported.exceptions + period.exceptions]
      /\ period' = EmptyPeriod
      /\ recentProbeLatencies' = 0
      /\ unlogged' \in Nat
      /\ UNCHANGED <<counters, inFlightRequestIds, nextRequestId, request,
                     requestSampleCounter>>
  BY DEF BroadcastStats, LoadTypeOK
<1>2. LoadTypeOK'
  BY <1>1, LoadAssumption DEF LoadTypeOK, PeriodStats, EmptyPeriod, counters
<1>3. IdsInOrder'
  BY <1>1 DEF IdsInOrder
<1>4. EveryRequestCounted'
  BY <1>1 DEF EveryRequestCounted, EmptyPeriod, counters, LoadTypeOK, PeriodStats
<1>5. PeriodIsCoherent'
  BY <1>1 DEF PeriodIsCoherent, EmptyPeriod
<1> QED BY <1>2, <1>3, <1>4, <1>5

LEMMA Inductive == IInv /\ [Next]_vars => IInv'
<1> SUFFICES ASSUME IInv, [Next]_vars PROVE IInv'
  OBVIOUS
<1>1. CASE UNCHANGED vars
  BY <1>1 DEF vars, counters, IInv, LoadTypeOK, IdsInOrder, EveryRequestCounted,
              PeriodIsCoherent
<1> QED BY <1>1, BeginKeeps, AnswerAtOnceKeeps, AnswerKeeps, RecordProbeKeeps,
           BroadcastKeeps DEF Next

LEMMA IInvAlways == Spec => []IInv
BY InitHolds, Inductive, PTL DEF Spec

\* The counters of the service keep the shapes the class declares; the probe
\* samples stay within their cap.
THEOREM TypeCorrect == Spec => []LoadTypeOK
BY IInvAlways, PTL DEF IInv

\* No interleaving of requests, exceptions and broadcasts loses a request,
\* counts one twice or lets the concurrent counter drift.
THEOREM RequestsAreCounted == Spec => []EveryRequestCounted
BY IInvAlways, PTL DEF IInv

\* A broadcast may cut a period anywhere and the next one is still coherent.
THEOREM PeriodsAreCoherent == Spec => []PeriodIsCoherent
BY IInvAlways, PTL DEF IInv
=============================================================================
