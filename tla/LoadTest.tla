------------------------------- MODULE LoadTest -------------------------------
(***************************************************************************)
(* The load test service (services/load-test.service.ts): requests that    *)
(* overlap and may throw, the lifetime and the period counters they        *)
(* maintain, and the broadcast that reports a period and resets it.        *)
(*                                                                         *)
(* executeWork increments, then awaits in its work loop while other        *)
(* requests, probes and broadcasts run, then counts in its finally block.  *)
(* How long the work loop takes is left open: a request ends at some time. *)
(***************************************************************************)
EXTENDS Integers, FiniteSets

CONSTANTS
  MaxRequests,           \* requests ever received (a bound)
  MAX_PROBE_SAMPLES,
  LATENCY_SAMPLE_RATE,
  Thresholds             \* the positive values of errorAboveConcurrent

ASSUME LoadAssumption ==
  /\ MaxRequests \in Nat /\ MAX_PROBE_SAMPLES \in Nat
  /\ LATENCY_SAMPLE_RATE \in Nat \ {0}
  /\ Thresholds \subseteq Nat

VARIABLES
  concurrentRequests, totalRequestsProcessed, totalExceptionsThrown,
  period,                \* the period counters
  inFlightRequestIds, nextRequestId,
  request,               \* what the closure of each request holds
  recentProbeLatencies,  \* how many there are
  requestSampleCounter,
  reported,              \* history: the sums of what was broadcast
  unlogged               \* history: external requests completed that no
                         \* LOAD_TEST_STATS event covers

counters == <<concurrentRequests, totalRequestsProcessed, totalExceptionsThrown>>
vars == <<counters, period, inFlightRequestIds, nextRequestId, request,
          recentProbeLatencies, requestSampleCounter, reported, unlogged>>

Id == 0..MaxRequests - 1
Chance == {"never", "maybe", "always"}    \* errorPercent: <= 0, between, 100
Params == [suppressLogs : BOOLEAN, throws : SUBSET BOOLEAN]
PeriodStats == [completed : Nat, exceptions : Nat, peak : Nat, suppressed : Nat]
EmptyPeriod == [completed |-> 0, exceptions |-> 0, peak |-> 0, suppressed |-> 0]

LoadTypeOK ==
  /\ concurrentRequests \in Nat
  /\ totalRequestsProcessed \in Nat /\ totalExceptionsThrown \in Nat
  /\ period \in PeriodStats
  /\ inFlightRequestIds \subseteq Id /\ nextRequestId \in 0..MaxRequests
  /\ request \in [Id -> Params]
  /\ recentProbeLatencies \in 0..MAX_PROBE_SAMPLES
  /\ requestSampleCounter \in 0..LATENCY_SAMPLE_RATE - 1
  /\ reported \in [completed : Nat, exceptions : Nat]
  /\ unlogged \in Nat

Init ==
  /\ concurrentRequests = 0 /\ totalRequestsProcessed = 0 /\ totalExceptionsThrown = 0
  /\ period = EmptyPeriod
  /\ inFlightRequestIds = {} /\ nextRequestId = 0
  /\ request = [r \in Id |-> [suppressLogs |-> FALSE, throws |-> {}]]
  /\ recentProbeLatencies = 0 /\ requestSampleCounter = 0
  /\ reported = [completed |-> 0, exceptions |-> 0]
  /\ unlogged = 0

----------------------------------------------------------------------------
Bump(n, condition) == IF condition THEN n + 1 ELSE n

\* updatePeakConcurrent()
WithPeak(p, current) ==
  IF current > p.peak THEN [p EXCEPT !.peak = current] ELSE p

\* What catch and finally add to the period.
WithCompletion(p, suppressLogs, throws) ==
  [p EXCEPT !.completed = @ + 1,
            !.exceptions = Bump(@, throws),
            !.suppressed = Bump(@, suppressLogs)]

\* checkAndThrowConcurrencyException(): whether it may and may not throw, for
\* a request that was the concurrent-th when it started.
MayThrow(concurrent, errorAboveConcurrent, chance) ==
  IF \/ errorAboveConcurrent = 0
     \/ chance = "never"
     \/ errorAboveConcurrent > 0 /\ concurrent <= errorAboveConcurrent
  THEN {FALSE}
  ELSE IF chance = "always" THEN {TRUE} ELSE BOOLEAN

\* Every LATENCY_SAMPLE_RATE-th latency goes to the dashboards.
Sampled ==
  requestSampleCounter' = IF requestSampleCounter + 1 >= LATENCY_SAMPLE_RATE
                          THEN 0 ELSE requestSampleCounter + 1

\* catch and finally, after which the period is p with this request completed.
Completes(p, suppressLogs, throws) ==
  /\ totalRequestsProcessed' = totalRequestsProcessed + 1
  /\ totalExceptionsThrown' = Bump(totalExceptionsThrown, throws)
  /\ period' = WithCompletion(p, suppressLogs, throws)
  /\ Sampled
  /\ unlogged' = Bump(unlogged, ~suppressLogs)

PeakBeforeIncrement(suppressLogs, errorAboveConcurrent, chance) ==
  /\ nextRequestId < MaxRequests        \* mutant: the peak misses this request
  /\ concurrentRequests' = concurrentRequests + 1
  /\ period' = WithPeak(period, concurrentRequests)
  /\ nextRequestId' = nextRequestId + 1
  /\ inFlightRequestIds' = inFlightRequestIds \cup {nextRequestId}
  /\ request' = [request EXCEPT ![nextRequestId] =
       [suppressLogs |-> suppressLogs,
        throws |-> MayThrow(concurrentRequests + 1, errorAboveConcurrent, chance)]]
  /\ UNCHANGED <<totalRequestsProcessed, totalExceptionsThrown,
                 recentProbeLatencies, requestSampleCounter, reported, unlogged>>

\* executeWork() up to its first await.
Begin(suppressLogs, errorAboveConcurrent, chance) ==
  /\ nextRequestId < MaxRequests
  /\ concurrentRequests' = concurrentRequests + 1
  /\ period' = WithPeak(period, concurrentRequests + 1)
  /\ nextRequestId' = nextRequestId + 1
  /\ inFlightRequestIds' = inFlightRequestIds \cup {nextRequestId}
  /\ request' = [request EXCEPT ![nextRequestId] =
       [suppressLogs |-> suppressLogs,
        throws |-> MayThrow(concurrentRequests + 1, errorAboveConcurrent, chance)]]
  /\ UNCHANGED <<totalRequestsProcessed, totalExceptionsThrown,
                 recentProbeLatencies, requestSampleCounter, reported, unlogged>>

\* executeWork() that never awaits: the allocation throws, or the duration is 0.
AnswerAtOnce(suppressLogs, throws) ==
  /\ nextRequestId < MaxRequests
  /\ nextRequestId' = nextRequestId + 1
  /\ Completes(WithPeak(period, concurrentRequests + 1), suppressLogs, throws)
  /\ UNCHANGED <<concurrentRequests, inFlightRequestIds, request,
                 recentProbeLatencies, reported>>

DecrementOnSuccess(r, throws) ==        \* mutant: not in the finally block
  /\ r \in inFlightRequestIds /\ throws \in request[r].throws
  /\ inFlightRequestIds' = inFlightRequestIds \ {r}
  /\ concurrentRequests' = IF throws THEN concurrentRequests ELSE concurrentRequests - 1
  /\ Completes(period, request[r].suppressLogs, throws)
  /\ UNCHANGED <<nextRequestId, request, recentProbeLatencies, reported>>

\* The work loop ends, and with it the request.
Answer(r, throws) ==
  /\ r \in inFlightRequestIds /\ throws \in request[r].throws
  /\ inFlightRequestIds' = inFlightRequestIds \ {r}
  /\ concurrentRequests' = concurrentRequests - 1
  /\ Completes(period, request[r].suppressLogs, throws)
  /\ UNCHANGED <<nextRequestId, request, recentProbeLatencies, reported>>

\* A message of the sidecar; the oldest sample makes room.
RecordProbeLatency ==
  /\ recentProbeLatencies < MAX_PROBE_SAMPLES
  /\ recentProbeLatencies' = recentProbeLatencies + 1
  /\ UNCHANGED <<counters, period, inFlightRequestIds, nextRequestId, request,
                 requestSampleCounter, reported, unlogged>>

SilentIfAnyInternal ==                  \* mutant: one internal call hides all
  /\ period.completed > 0 \/ inFlightRequestIds # {}
  /\ reported' = [completed  |-> reported.completed + period.completed,
                  exceptions |-> reported.exceptions + period.exceptions]
  /\ unlogged' = IF period.suppressed = 0 THEN 0 ELSE unlogged
  /\ period' = EmptyPeriod
  /\ recentProbeLatencies' = 0
  /\ UNCHANGED <<counters, inFlightRequestIds, nextRequestId, request,
                 requestSampleCounter>>

\* The 60 second interval: report the period to the dashboards, log it unless
\* all its requests were internal, and start a new one.
BroadcastStats ==
  /\ period.completed > 0 \/ inFlightRequestIds # {}
  /\ reported' = [completed  |-> reported.completed + period.completed,
                  exceptions |-> reported.exceptions + period.exceptions]
  /\ unlogged' = IF period.suppressed < period.completed THEN 0 ELSE unlogged
  /\ period' = EmptyPeriod
  /\ recentProbeLatencies' = 0
  /\ UNCHANGED <<counters, inFlightRequestIds, nextRequestId, request,
                 requestSampleCounter>>

----------------------------------------------------------------------------
Next ==
  \/ \E suppressLogs \in BOOLEAN, errorAboveConcurrent \in Thresholds \cup {-1, 0},
        chance \in Chance : Begin(suppressLogs, errorAboveConcurrent, chance)
  \/ \E suppressLogs, throws \in BOOLEAN : AnswerAtOnce(suppressLogs, throws)
  \/ \E r \in Id, throws \in BOOLEAN : Answer(r, throws)
  \/ RecordProbeLatency
  \/ BroadcastStats

\* The interval fires, and every work loop ends: its duration is finite.
Fairness ==
  /\ WF_vars(BroadcastStats)
  /\ \A r \in Id : WF_vars(\E throws \in BOOLEAN : Answer(r, throws))

Spec == Init /\ [][Next]_vars /\ Fairness

----------------------------------------------------------------------------
(* Properties.                                                             *)

\* load-test.service.ts:19-33 and :149-152: whichever requests overlap, throw
\* or end at once, and wherever broadcasts fall between them, the concurrent
\* counter is the number of requests in flight, no request is lost or counted
\* twice, and the periods add up to the lifetime.
EveryRequestCounted ==
  /\ concurrentRequests = Cardinality(inFlightRequestIds)
  /\ nextRequestId = concurrentRequests + totalRequestsProcessed
  /\ totalRequestsProcessed = reported.completed + period.completed
  /\ totalExceptionsThrown = reported.exceptions + period.exceptions
  /\ requestSampleCounter = totalRequestsProcessed % LATENCY_SAMPLE_RATE

\* load-test.service.ts:626-710: a period that is cut in the middle of requests
\* stays coherent.  Its error and suppressed counts never exceed its requests
\* (the error rate is at most 100%), and once a request has started in it, its
\* peak covers all that are in flight, the ones carried over included.
PeriodIsCoherent ==
  /\ period.exceptions <= period.completed
  /\ period.suppressed <= period.completed
  /\ period.peak > 0 => period.peak >= concurrentRequests
  /\ period.completed = 0 /\ inFlightRequestIds = {} => period = EmptyPeriod

\* load-test.service.ts:666-669: an external request is always covered by a
\* stats event in the end, also when internal callers share its period.
ExternalLoadIsLogged == unlogged > 0 ~> unlogged = 0
=============================================================================
