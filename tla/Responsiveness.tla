--------------------------- MODULE Responsiveness ---------------------------
(***************************************************************************)
(* How a dashboard comes to show an unresponsive server: the probes of the *)
(* sidecar (sidecar/probe-sidecar.ts), their reports on the IPC channel,   *)
(* the relay in the main process (index.ts), which is the process that may *)
(* be blocked, and onProbeLatency of the page (public/js/charts.js).       *)
(*                                                                         *)
(* A tick is some seconds.  In one, a main process that is not blocked     *)
(* handles everything that waits for it, and the sidecar gets to its       *)
(* timeouts; between ticks all orders are possible.  Of the probes sent in *)
(* a tick one is in flight at a time.  A page handles what is emitted to   *)
(* it at once, as its state depends on nothing else.  Idle phases and      *)
(* restarts of the sidecar are in Sidecar; latencies, statistics and the   *)
(* drawing of the chart are left out.                                      *)
(***************************************************************************)
EXTENDS Integers, Sequences, SequencesExt

CONSTANTS
  ProbeTimeout,   \* PROBE_TIMEOUT_MS, in ticks
  WarnAfter,      \* the 10 s of the page, in ticks
  MaxErrors,      \* bound: probes that fail for a reason of the network
  IpcBound      \* bound: reports waiting on the IPC channel

ASSUME TimeAssumption == ProbeTimeout \in Nat \ {0} /\ WarnAfter \in Nat \ {0}
ASSUME IpcBoundAssumption == MaxErrors \in Nat /\ IpcBound \in Nat

VARIABLES
  blocked,        \* the event loop of the main process is
  blockedFor,     \* for how long, since it had last caught up with the probes
  overlong,       \* it once had not for as long as a probe waits
  waiting,        \* the ages of the probes in flight
  loadTestActive, \* what the sidecar last heard about load tests
  ipc,            \* reports on their way from the sidecar to the main process
  errors,         \* network errors so far
  sinceAnswer,    \* ticks since a probe was answered, up to WarnAfter
  connected,      \* the page has a connection
  connectedFor,   \* ticks since it got it, up to WarnAfter
  isResponsive, consecutiveFailures,
  unresponsiveFor,  \* time since unresponsiveStartTime, up to WarnAfter, or Off
  sinceWarning      \* time since lastWarningTime, up to WarnAfter, or Off

mainVars == <<blocked, blockedFor, overlong>>
probeVars == <<waiting, loadTestActive, errors, sinceAnswer>>
connVars == <<connected, connectedFor>>
displayVars == <<isResponsive, consecutiveFailures, unresponsiveFor, sinceWarning>>
allVars == <<mainVars, probeVars, ipc, connVars, displayVars>>

Off == -1
Age == 0..ProbeTimeout
Report == [success : BOOLEAN, loadTestActive : BOOLEAN]
LongBlock == ProbeTimeout + WarnAfter

ResponsivenessTypeOK ==
  /\ blocked \in BOOLEAN /\ blockedFor \in 0..LongBlock /\ overlong \in BOOLEAN
  /\ waiting \in SUBSET Age
  /\ loadTestActive \in BOOLEAN
  /\ ipc \in Seq(Report)
  /\ errors \in 0..MaxErrors
  /\ sinceAnswer \in 0..WarnAfter
  /\ connected \in BOOLEAN /\ connectedFor \in 0..WarnAfter
  /\ isResponsive \in BOOLEAN /\ consecutiveFailures \in 0..2
  /\ unresponsiveFor \in 0..WarnAfter \cup {Off}
  /\ sinceWarning \in 0..WarnAfter \cup {Off}

DisplayInit ==
  /\ blocked = FALSE /\ blockedFor = 0 /\ overlong = FALSE
  /\ waiting = {} /\ loadTestActive = FALSE
  /\ ipc = <<>>
  /\ errors = 0 /\ sinceAnswer = 0
  /\ connected = TRUE /\ connectedFor = 0
  /\ isResponsive = TRUE /\ consecutiveFailures = 0
  /\ unresponsiveFor = Off /\ sinceWarning = Off

----------------------------------------------------------------------------
(* The sidecar.                                                            *)

\* The probe interval fires; it does not wait for earlier probes.
SendProbe ==
  /\ 0 \notin waiting /\ Len(ipc) < IpcBound
  /\ waiting' = waiting \cup {0}
  /\ UNCHANGED <<mainVars, loadTestActive, errors, sinceAnswer, ipc, connVars, displayVars>>

\* The probe of this age is over and these are its reports.
Settle(age, reports) ==
  /\ age \in waiting
  /\ waiting' = waiting \ {age}
  /\ ipc' = ipc \o reports
  /\ UNCHANGED <<mainVars, connVars, displayVars>>

\* The main process answers, also whether it has a load test; 'end' reports.
ProbeEnds(age, loadTesting) ==
  /\ ~blocked
  /\ Settle(age, <<[success |-> TRUE, loadTestActive |-> loadTesting]>>)
  /\ loadTestActive' = loadTesting
  /\ sinceAnswer' = 0
  /\ UNCHANGED errors

Failure == [success |-> FALSE, loadTestActive |-> loadTestActive]

TimesOutTooSoon(age) ==                 \* mutant: the timeout is cut short
  /\ age >= ProbeTimeout - 1
  /\ Settle(age, <<Failure, Failure>>)
  /\ UNCHANGED <<loadTestActive, errors, sinceAnswer>>

\* 'timeout' destroys the request and reports; the 'error' of the destroyed
\* request reports once more.
ProbeTimesOut(age) ==
  /\ age = ProbeTimeout
  /\ Settle(age, <<Failure, Failure>>)
  /\ UNCHANGED <<loadTestActive, errors, sinceAnswer>>

\* 'error' for a reason of its own.
ProbeErrs(age) ==
  /\ errors < MaxErrors
  /\ errors' = errors + 1
  /\ Settle(age, <<Failure>>)
  /\ UNCHANGED <<loadTestActive, sinceAnswer>>

----------------------------------------------------------------------------
(* The page.                                                               *)

SuccessOutsideLoadTests(loadTesting) == \* mutant: the exception covers too much
  /\ consecutiveFailures' = 0
  /\ isResponsive' = (isResponsive \/ ~loadTesting)
  /\ unresponsiveFor' = IF loadTesting THEN unresponsiveFor ELSE Off
  /\ UNCHANGED sinceWarning

SuccessKeepsStartTime(loadTesting) ==   \* mutant: the outage is not over
  /\ consecutiveFailures' = 0
  /\ UNCHANGED <<isResponsive, unresponsiveFor, sinceWarning>>

OnSuccess(loadTesting) ==
  /\ consecutiveFailures' = 0
  /\ isResponsive' = TRUE
  /\ unresponsiveFor' = Off
  /\ UNCHANGED sinceWarning

\* Two failures in a row begin an outage; a failure in one that has lasted is
\* warned of, outside of load tests and once in 10 s.
OnFailure(loadTesting) ==
  LET begins == isResponsive /\ consecutiveFailures >= 1
      warns  == unresponsiveFor = WarnAfter /\ ~loadTesting /\ sinceWarning \in {Off, WarnAfter}
  IN  /\ consecutiveFailures' = IF consecutiveFailures = 0 THEN 1 ELSE 2
      /\ isResponsive' = (isResponsive /\ ~begins)
      /\ unresponsiveFor' = IF begins THEN 0 ELSE unresponsiveFor
      /\ sinceWarning' = IF warns THEN 0 ELSE sinceWarning

\* onProbeLatency
OnProbeLatency(report) ==
  IF report.success THEN OnSuccess(report.loadTestActive) ELSE OnFailure(report.loadTestActive)

\* The state of the display outlives the connection.
ConnectionLost ==
  /\ connected
  /\ connected' = FALSE /\ connectedFor' = 0
  /\ UNCHANGED <<mainVars, probeVars, ipc, displayVars>>

Connect ==
  /\ ~connected
  /\ connected' = TRUE
  /\ UNCHANGED <<mainVars, probeVars, ipc, connectedFor, displayVars>>

----------------------------------------------------------------------------
(* The main process.                                                       *)

\* A chunk of synchronous work begins.  Between two chunks there is one
\* setImmediate: what had arrived may be handled by then, in part or not at all,
\* and a chunk that leaves a probe waiting prolongs the block.
Block ==
  /\ ~blocked
  /\ blocked' = TRUE
  /\ blockedFor' = IF waiting = {} THEN 0 ELSE blockedFor
  /\ UNCHANGED <<overlong, probeVars, ipc, connVars, displayVars>>

\* The chunk is over.
Unblock ==
  /\ blocked
  /\ blocked' = FALSE
  /\ UNCHANGED <<blockedFor, overlong, probeVars, ipc, connVars, displayVars>>

\* The 'message' handler: io.emit to the pages that are connected.
Relay ==
  /\ ~blocked /\ ipc # <<>>
  /\ ipc' = Tail(ipc)
  /\ IF connected THEN OnProbeLatency(Head(ipc)) ELSE UNCHANGED displayVars
  /\ UNCHANGED <<mainVars, probeVars, connVars>>

UpTo(bound, n) == IF n = Off \/ n = bound THEN n ELSE n + 1

\* Time passes when what could be handled has been; while the main process is
\* blocked, a probe of this tick waits.
Tick ==
  /\ IF blocked THEN 0 \in waiting \/ Len(ipc) >= IpcBound
     ELSE waiting = {} /\ ipc = <<>>
  /\ ProbeTimeout \notin waiting
  /\ waiting' = {age + 1 : age \in waiting}
  /\ blockedFor' = IF blocked THEN UpTo(LongBlock, blockedFor) ELSE 0
  /\ overlong' = (overlong \/ blockedFor' >= ProbeTimeout)
  /\ sinceAnswer' = UpTo(WarnAfter, sinceAnswer)
  /\ connectedFor' = IF connected THEN UpTo(WarnAfter, connectedFor) ELSE 0
  /\ unresponsiveFor' = UpTo(WarnAfter, unresponsiveFor)
  /\ sinceWarning' = UpTo(WarnAfter, sinceWarning)
  /\ UNCHANGED <<blocked, loadTestActive, errors, ipc, connected, isResponsive,
                 consecutiveFailures>>

----------------------------------------------------------------------------
DisplayNext ==
  \/ SendProbe
  \/ \E age \in Age : ProbeTimesOut(age) \/ ProbeErrs(age)
  \/ \E age \in Age, loadTesting \in BOOLEAN : ProbeEnds(age, loadTesting)
  \/ Block \/ Unblock \/ Relay
  \/ ConnectionLost \/ Connect
  \/ Tick

\* The interval fires, what is sent is handled, and time passes.  Nothing says
\* that a block ends or a connection comes back.
DisplayFairness ==
  /\ WF_allVars(SendProbe)
  /\ WF_allVars(\E age \in Age, loadTesting \in BOOLEAN : ProbeEnds(age, loadTesting))
  /\ WF_allVars(\E age \in Age : ProbeTimesOut(age))
  /\ WF_allVars(Relay)
  /\ SF_allVars(Tick)

DisplaySpec == DisplayInit /\ [][DisplayNext]_allVars /\ DisplayFairness

----------------------------------------------------------------------------
(* Properties.                                                             *)

\* The page never shows a server as unresponsive that was never blocked for as
\* long as a probe waits, in one chunk or in several with the same probe waiting,
\* unless the network failed: bursts of late answers after a block, and reports
\* that waited behind it, are no failures.
NoFalseAlarm == errors = 0 /\ ~overlong => isResponsive

\* Once the server is no longer blocked, a connected page shows it as
\* responsive again, under a load test too.
RecoveryShown ==
  <>[](~blocked /\ connected) => (~isResponsive ~> isResponsive)

Warns == sinceWarning' = 0 /\ sinceWarning # 0

\* No probe was answered for 10 s, but for answers whose report is on its way.
Silence == sinceAnswer = WarnAfter \/ \E r \in ToSet(ipc) : r.success

\* A warning tells the truth: when the page says that the server has been
\* unresponsive for 10 s, and was connected for that long, then no probe was
\* answered in that time.
WarningIsHonest == [][Warns /\ connectedFor = WarnAfter => Silence]_allVars

\* The same for a page that may have been disconnected in between.  It does not
\* hold (README.md, Findings): for the page the outage of before still goes on.
WarningAlwaysHonest == [][Warns => Silence]_allVars

\* charts.js:370, "Log unresponsive warning after 10s of being unresponsive":
\* a block that is longer than the probe timeout and those 10 s together, and
\* ends, is warned of on a page that stays connected.  It does not hold
\* (README.md, Findings): the clock of the page starts when the block is over.
WarnedOfBlock ==
  [](connected /\ ~loadTestActive /\ errors = 0) /\ <>[]~blocked =>
    (blockedFor = LongBlock ~> sinceWarning # Off)
=============================================================================
