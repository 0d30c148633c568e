------------------------------- MODULE Sidecar -------------------------------
(***************************************************************************)
(* The sidecar probe process (sidecar/probe-sidecar.ts) and the main       *)
(* process that forks it, tells it over IPC when to suspend its probes and *)
(* restarts it (src/index.ts, from startSidecar on).                       *)
(*                                                                         *)
(* Each fork is a process of its own.  A sidecar whose main process is     *)
(* gone is an orphan: it lives on, reads what is left in its channel, and  *)
(* dies of the first report it cannot send.                                *)
(***************************************************************************)
EXTENDS IdleTimeout, Sequences

CONSTANTS
  Process,       \* the sidecar processes that can be forked (a bound)
  NoProcess,     \* null
  MaxProbes,     \* probes one sidecar has in flight (a bound)
  QueueBound     \* messages one channel holds (a bound)

ASSUME NoProcessAssumption == NoProcess \notin Process
ASSUME BoundAssumption == MaxProbes \in Nat \ {0} /\ QueueBound \in Nat \ {0}

VARIABLES
  mainUp,          \* the main process listens
  isShuttingDown,
  sidecarProcess,
  restartTimers,   \* pending setTimeout(startSidecar, 2000)
  proc,            \* the life of each sidecar
  orphans,         \* sidecars whose main process is gone
  channel,         \* IPC messages from main the sidecar has not handled
  suspended,       \* the sidecar's isIdle
  slow,            \* the sidecar's slowRequestActive
  inFlight         \* its probes that are not settled

sidecarVars == <<mainUp, isShuttingDown, sidecarProcess, restartTimers, proc,
                 orphans, channel, suspended, slow, inFlight>>
vars == <<idleVars, sidecarVars>>

IdleMessage == {"idle", "awake"}
Message == IdleMessage \cup {"slow", "normal"}
Life == {"unforked", "up", "failed", "exited", "reaped"}

Up(p) == proc[p] = "up"
Children == {p \in Process : Up(p) /\ p \notin orphans}

SidecarTypeOK ==
  /\ IdleTypeOK
  /\ mainUp \in BOOLEAN /\ isShuttingDown \in BOOLEAN
  /\ sidecarProcess \in Process \cup {NoProcess}
  /\ restartTimers \in Nat
  /\ proc \in [Process -> Life]
  /\ orphans \in SUBSET Process
  /\ channel \in [Process -> Seq(Message)]
  /\ suspended \in [Process -> BOOLEAN]
  /\ slow \in [Process -> BOOLEAN]
  /\ inFlight \in [Process -> 0..MaxProbes]

Init ==
  /\ IdleInit
  /\ mainUp = FALSE /\ isShuttingDown = FALSE
  /\ sidecarProcess = NoProcess
  /\ restartTimers = 0
  /\ proc = [p \in Process |-> "unforked"]
  /\ orphans = {}
  /\ channel = [p \in Process |-> <<>>]
  /\ suspended = [p \in Process |-> FALSE]
  /\ slow = [p \in Process |-> FALSE]
  /\ inFlight = [p \in Process |-> 0]

----------------------------------------------------------------------------
(* The main process.                                                       *)

StartWithoutState(p, idle) ==           \* mutant: the idle state is not sent
  /\ proc[p] = "unforked"
  /\ proc' = [proc EXCEPT ![p] = "up"]
  /\ sidecarProcess' = p
  /\ UNCHANGED <<channel, suspended, slow, inFlight>>

\* startSidecar(): fork, and tell the new process if the app is idle.  Without a
\* process or a descriptor for it the fork fails with an 'error' event alone,
\* which is logged.  (What startSidecar throws ends the main process: MainEnds.)
StartSidecar(p, idle) ==
  /\ proc[p] = "unforked"
  /\ sidecarProcess' = p
  /\ \/ /\ proc' = [proc EXCEPT ![p] = "up"]
        /\ channel' = IF idle THEN [channel EXCEPT ![p] = <<"idle">>] ELSE channel
     \/ /\ proc' = [proc EXCEPT ![p] = "failed"]
        /\ UNCHANGED channel
  /\ UNCHANGED <<suspended, slow, inFlight>>

\* sidecarProcess.send(): lost when the process is gone.
Send(m) ==
  IF sidecarProcess # NoProcess /\ Up(sidecarProcess)
  THEN /\ Len(channel[sidecarProcess]) < QueueBound
       /\ channel' = [channel EXCEPT ![sidecarProcess] = Append(@, m)]
  ELSE UNCHANGED channel

\* The server listens.
Boot(p) ==
  /\ ~mainUp
  /\ mainUp' = TRUE /\ isShuttingDown' = FALSE /\ restartTimers' = 0
  /\ IdleBoot
  /\ StartSidecar(p, FALSE)
  /\ UNCHANGED orphans

\* recordActivity(), with the callback that informs the sidecar.
Activity ==
  /\ mainUp
  /\ RecordActivity
  /\ IF isIdle THEN Send("awake") ELSE UNCHANGED channel
  /\ UNCHANGED <<mainUp, isShuttingDown, sidecarProcess, restartTimers, proc,
                 orphans, suspended, slow, inFlight>>

IdleCheckFires ==
  /\ mainUp
  /\ CheckIdle
  /\ IF isIdle' THEN Send("idle") ELSE UNCHANGED channel
  /\ UNCHANGED <<mainUp, isShuttingDown, sidecarProcess, restartTimers, proc,
                 orphans, suspended, slow, inFlight>>

\* 'slowRequestState' from a dashboard, relayed.
SlowRequestState(m) ==
  /\ mainUp
  /\ Send(m)
  /\ UNCHANGED <<idleVars, mainUp, isShuttingDown, sidecarProcess, restartTimers,
                 proc, orphans, suspended, slow, inFlight>>

\* A sidecar is gone, and all it knew and had to read and report with it.
Ends(p) ==
  /\ proc' = [proc EXCEPT ![p] = "exited"]
  /\ channel' = [channel EXCEPT ![p] = <<>>]
  /\ suspended' = [suspended EXCEPT ![p] = FALSE]
  /\ slow' = [slow EXCEPT ![p] = FALSE]
  /\ inFlight' = [inFlight EXCEPT ![p] = 0]

memory == <<proc, channel, suspended, slow, inFlight>>

\* shutdownSidecar()
KillSidecar ==
  IF sidecarProcess # NoProcess /\ Up(sidecarProcess)
  THEN Ends(sidecarProcess) ELSE UNCHANGED memory

\* SIGTERM or SIGINT.  The handler replaces the default action, so that the
\* main process itself lives on.
Shutdown ==
  /\ mainUp
  /\ isShuttingDown' = TRUE
  /\ KillSidecar
  /\ UNCHANGED <<idleVars, mainUp, sidecarProcess, restartTimers, orphans>>

\* The main process ends: by process.exit(), which runs the 'exit' handler, or
\* by a crash that runs nothing and orphans the sidecar.
MainEnds(handlersRun) ==
  /\ mainUp
  /\ mainUp' = FALSE
  /\ sidecarProcess' = NoProcess /\ restartTimers' = 0
  /\ IF handlersRun
     THEN KillSidecar /\ UNCHANGED orphans
     ELSE orphans' = orphans \cup Children /\ UNCHANGED memory
  /\ UNCHANGED <<idleVars, isShuttingDown>>

ExitForgotten(p) ==                     \* mutant: no restart is scheduled
  /\ mainUp /\ p = sidecarProcess /\ proc[p] = "exited"
  /\ proc' = [proc EXCEPT ![p] = "reaped"]
  /\ UNCHANGED <<idleVars, mainUp, isShuttingDown, sidecarProcess, restartTimers,
                 orphans, channel, suspended, slow, inFlight>>

\* The 'exit' event of the sidecar.
OnExit(p) ==
  /\ mainUp /\ p = sidecarProcess /\ proc[p] = "exited"
  /\ proc' = [proc EXCEPT ![p] = "reaped"]
  /\ restartTimers' = IF isShuttingDown THEN restartTimers ELSE restartTimers + 1
  /\ UNCHANGED <<idleVars, mainUp, isShuttingDown, sidecarProcess, orphans,
                 channel, suspended, slow, inFlight>>

RestartRepeats(p) ==                    \* mutant: setInterval for setTimeout
  /\ restartTimers > 0
  /\ StartSidecar(p, isIdle)
  /\ UNCHANGED <<idleVars, mainUp, isShuttingDown, restartTimers, orphans>>

\* The restart timer fires; isShuttingDown is not looked at again.
Restart(p) ==
  /\ restartTimers > 0
  /\ restartTimers' = restartTimers - 1
  /\ StartSidecar(p, isIdle)
  /\ UNCHANGED <<idleVars, mainUp, isShuttingDown, orphans>>

----------------------------------------------------------------------------
(* The sidecar.                                                            *)

\* It crashes, or is killed from outside.
Dies(p) ==
  /\ Up(p)
  /\ Ends(p)
  /\ UNCHANGED <<idleVars, mainUp, isShuttingDown, sidecarProcess, restartTimers,
                 orphans>>

NextMessage(p, messages) ==
  /\ Up(p) /\ channel[p] # <<>> /\ Head(channel[p]) \in messages
  /\ channel' = [channel EXCEPT ![p] = Tail(@)]
  /\ UNCHANGED <<idleVars, mainUp, isShuttingDown, sidecarProcess, restartTimers,
                 proc, orphans, inFlight>>

\* 'idleStateChange'
OnIdleMessage(p) ==
  /\ NextMessage(p, IdleMessage)
  /\ suspended' = [suspended EXCEPT ![p] = (Head(channel[p]) = "idle")]
  /\ UNCHANGED slow

\* 'slowRequestStateChange': the probe loop restarts with the interval that
\* slowRequestActive calls for.
OnSlowMessage(p) ==
  /\ NextMessage(p, {"slow", "normal"})
  /\ slow' = [slow EXCEPT ![p] = (Head(channel[p]) = "slow")]
  /\ UNCHANGED suspended

TickWhenSuspended(p) ==                 \* mutant: the idle state is ignored
  /\ Up(p)
  /\ inFlight[p] < MaxProbes
  /\ inFlight' = [inFlight EXCEPT ![p] = @ + 1]
  /\ UNCHANGED <<idleVars, mainUp, isShuttingDown, sidecarProcess, restartTimers,
                 proc, orphans, channel, suspended, slow>>

\* The interval fires: while idle the probe is skipped, otherwise one is sent,
\* whether or not earlier ones are answered.
ProbeTick(p) ==
  /\ Up(p)
  /\ ~suspended[p]
  /\ inFlight[p] < MaxProbes
  /\ inFlight' = [inFlight EXCEPT ![p] = @ + 1]
  /\ UNCHANGED <<idleVars, mainUp, isShuttingDown, sidecarProcess, restartTimers,
                 proc, orphans, channel, suspended, slow>>

OrphanReports(p) ==                     \* mutant: a failed report is ignored
  /\ Up(p) /\ inFlight[p] > 0
  /\ inFlight' = [inFlight EXCEPT ![p] = @ - 1]
  /\ UNCHANGED <<idleVars, mainUp, isShuttingDown, sidecarProcess, restartTimers,
                 proc, orphans, channel, suspended, slow>>

\* 'end', 'error' or 'timeout': the probe is reported to the parent.  Without
\* one, process.send emits an 'error' that nobody handles.
ProbeSettles(p) ==
  /\ Up(p) /\ inFlight[p] > 0
  /\ IF p \in orphans THEN Ends(p)
     ELSE /\ inFlight' = [inFlight EXCEPT ![p] = @ - 1]
          /\ UNCHANGED <<proc, channel, suspended, slow>>
  /\ UNCHANGED <<idleVars, mainUp, isShuttingDown, sidecarProcess, restartTimers,
                 orphans>>

----------------------------------------------------------------------------
\* The wall clock is not adjusted here: that only moves the time at which a
\* check succeeds, which DashboardSocket covers.
TimePasses == mainUp /\ IdleTick /\ UNCHANGED sidecarVars

Next ==
  \/ Activity
  \/ IdleCheckFires
  \/ TimePasses
  \/ Shutdown
  \/ \E handlersRun \in BOOLEAN : MainEnds(handlersRun)
  \/ \E m \in {"slow", "normal"} : SlowRequestState(m)
  \/ \E p \in Process :
       \/ Boot(p)
       \/ OnExit(p)
       \/ Restart(p)
       \/ Dies(p)
       \/ OnIdleMessage(p)
       \/ OnSlowMessage(p)
       \/ ProbeTick(p)
       \/ ProbeSettles(p)

\* Both event loops reach what is due: timers, the exit event and messages;
\* every probe is answered, refused or timed out.
Fairness ==
  /\ WF_vars(TimePasses) /\ WF_vars(IdleCheckFires)
  /\ WF_vars(\E p \in Process : Restart(p))
  /\ \A p \in Process :
       /\ WF_vars(OnExit(p)) /\ WF_vars(OnIdleMessage(p)) /\ WF_vars(OnSlowMessage(p))
       /\ WF_vars(ProbeTick(p)) /\ WF_vars(ProbeSettles(p))

Spec == Init /\ [][Next]_vars /\ Fairness

----------------------------------------------------------------------------
(* Properties.                                                             *)

StatusText(idle) == IF idle THEN "idle" ELSE "awake"

\* A sidecar whose isIdle is s will have it equal to idle after reading q: the
\* last idle message of q says so, or q has none.
Tells(q, s, idle) ==
  \/ \E i \in 1..Len(q) :
       /\ q[i] = StatusText(idle)
       /\ \A j \in 1..Len(q) : j > i => q[j] \notin IdleMessage
  \/ /\ \A i \in 1..Len(q) : q[i] \notin IdleMessage
     /\ s = idle

\* index.ts:328, "critical": whatever order restarts, idle changes and messages
\* come in, the sidecar that is running agrees with the app once it has read
\* what is on the way to it.
SidecarAgrees ==
  sidecarProcess # NoProcess /\ Up(sidecarProcess)
    => Tells(channel[sidecarProcess], suspended[sidecarProcess], isIdle)

\* Crashes, exit events and restart timers never put two sidecars of one main
\* process to work, nor one that the main process has lost sight of.
OneProber ==
  \A p \in Children : p = sidecarProcess /\ restartTimers = 0

\* While the app stays idle, the probe traffic dries up for good: what was in
\* flight settles and the running sidecar, restarted or not, sends no more.
IdleStopsProbes ==
  \A p \in Process :
    <>[](isIdle /\ p \in Children) => <>[](inFlight[p] = 0)

\* The last fork could not be made.
ForkFailed == sidecarProcess # NoProcess /\ proc[sidecarProcess] = "failed"

\* index.ts:255, "Auto-restarts if sidecar crashes (with 2s delay)": unless the app
\* shuts down or ends, or the fork fails, there is a sidecar again (or no process
\* is left to be forked).
SidecarComesBack ==
  (mainUp /\ Children = {})
    ~> \/ ~mainUp \/ isShuttingDown
       \/ Children # {} \/ ForkFailed
       \/ \A p \in Process : proc[p] # "unforked"

\* The same without the exception.  It does not hold (README.md, Findings): a
\* restart whose fork fails is followed by no 'exit' and schedules no other.
SidecarAlwaysComesBack ==
  (mainUp /\ Children = {})
    ~> \/ ~mainUp \/ isShuttingDown
       \/ Children # {}
       \/ \A p \in Process : proc[p] # "unforked"

\* A crash of the main process leaves no sidecar probing: an orphan ends, or it
\* was told to suspend its probes.
OrphansFallSilent ==
  \A p \in Process : p \in orphans ~> (~Up(p) \/ suspended[p])

\* index.ts:313, "Restart sidecar after a brief delay unless main process is
\* shutting down": no sidecar is forked once the shutdown has begun.
\* It does not hold (README.md, Findings).
NoForkInShutdown ==
  [][mainUp /\ isShuttingDown =>
       \A p \in Process : proc[p] = "unforked" => proc'[p] = "unforked"]_vars
=============================================================================
