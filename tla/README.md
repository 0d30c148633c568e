# PerfSimNode in TLA+

PerfSimNode is a Node.js server that makes performance problems on demand (CPU
load, memory pressure, a blocked event loop, slow and failing requests,
crashes) and shows in a dashboard what they do to it. This directory holds its
formal models: what each part does, what it is meant to guarantee, what was
model-checked with TLC on small instances, and what was proved with TLAPS for
every instance. Paths below are relative to the server's source directory
(`src/` of the repository).

Contents: [Inventory](#inventory), [Modules](#modules), [Runs](#runs),
[Fairness](#fairness), [Proofs](#proofs), [Findings](#findings),
[Limits](#limits), [Plan](#plan), [Running it](#running-it).

## Inventory

Three kinds of process take part. **Main** is the Express and Socket.IO server,
a single thread whose unit of atomicity is one callback of the event loop, run
up to its next `await`. **Child processes** are the CPU workers (one per
burning core) and the sidecar, which probes main from outside to see when it
does not answer. **Browsers** hold the dashboards, single threaded as well, and
talk to main by HTTP and over one Socket.IO connection each.

    clients --HTTP--> controllers --> services --> simulation registry
                                        |  \--> event log --io.emit--> dashboards
                                        |--fork, IPC, signals--> CPU workers
      dashboards <==Socket.IO==> index.ts --fork, IPC--> sidecar --HTTP probe--> main
                                        \--> idle timeout --callbacks--> dashboards, sidecar

| Component | State | Operations | Talks to | What makes it hard | What makes it correct |
|---|---|---|---|---|---|
| Simulation registry (`simulation-tracker.service.ts`) | Map of records, Map of cleanup timers | create, stop, complete, fail, remove, clear, timer | called by five services and its own timers | every simulation has a timer here besides the one its service runs | one outcome per simulation, timers exactly for the ACTIVE ones, none forgotten |
| CPU stress (`cpu-stress.service.ts`, `cpu-worker.ts`) | Map of children, Map of completion timers, SIGKILL timers | start, stop, stopAll, auto-completion | registry, log, worker processes | two timers race for each end; forks fail; workers cannot read messages; main crashes | no worker is lost, none outlives its simulation, none is killed by another's stop, the log is true |
| Memory pressure (`memory-pressure.service.ts`) | Map of allocations, filled in batches | allocate, allocateBatch, release, releaseAll | registry, log | a release in the middle of an allocation | a release is final; STOPPED means freed; every allocation settles |
| Slow requests, event-loop blocking, failing requests | promises, worker threads, chains of `setImmediate` | start, settle, late events | registry, log, load test endpoint | work, registry timer, stop and late events of one promise | one verdict, the same in log and answer; every request answered; no record left open |
| Load test (`load-test.service.ts`) | lifetime and period counters, samples | executeWork, broadcastStats, probe samples | sidecar, log, dashboards | periods are cut in the middle of requests that may throw | every request counted once; a period is coherent; external load is logged |
| Idle timeout (`idle-timeout.service.ts`) | isIdle, last activity, check timer | recordActivity, checkIdle | callbacks in `index.ts` | two clocks, timer against activity | never idle early, idle in time, the watch never lost |
| Broadcast and dashboard connection (`index.ts`, `socket-client.js`, `dashboard.js`) | connections, messages in flight, `intentionalDisconnect`, indicator | load, connect, click, lose, reconnect, idle | idle timeout | a page connects between two idle changes; reloads; two calls of initSocket | page and server agree on idleness; the indicator is honest; a load wakes the server for good |
| Sidecar (`probe-sidecar.ts`, `index.ts`) | its process, IPC channel, probes in flight, restart timer | fork, exit, restart, shutdown, messages, probes | idle timeout, dashboards | a restart between two idle changes; a fork that fails; orphans of a crashed main | it agrees with main on idleness, is the only one, comes back unless its fork fails, does not probe an idle server |
| Slow request driver (`dashboard.js`) | three globals shared by calls of one async function | send, interval, settle, stop, poll | `index.ts`, sidecar, other dashboards | overlapping calls; abort against settle; echoes | Stop always has something to abort; a stopped page is quiet; the sidecar hears begin and end |
| Startup translation (`translation*.service.ts`, `translated-html.ts`, `i18n.js`) | source and translated files, batches | check, batch, retry, write | translator API, file system, pages | killed in the middle of a write; failed batches; new versions of the source | what is trusted is complete; what is announced is true; API limits; every start listens |
| Lists of active simulations (`dashboard.js`) | one Map per type, removal timers, `lastProcessId` | POST and DELETE answers, list reload, stop all, process id change | admin, CPU and memory endpoints, metrics | the list is reloaded across an `await`; nothing tells the page of an end; loops over requests that may fail; a page that is cut off | what runs or holds memory keeps its entry; what died with a process leaves; stop all reaches everything |
| Responsiveness display (`charts.js`) | failures in a row, clock of the outage, last warning | probe results | sidecar, relay in `index.ts` | the blocked process relays the reports; a timeout is reported twice; lost connections | no false alarm; a warning is true; recovery is shown |
| Event log (`event-log.service.ts`) | array of entries | append, clear, query | every service, `io.emit` | grows without bound; pages never read it back | see the services that write it |
| Administration, health, metrics, validation, configuration, telemetry | none that others depend on | read, format, check ranges | | | not modelled |

## Modules

| Module | Code | Extends | State it adds |
|---|---|---|---|
| `SimulationLifecycle` | abstract: what the registry promises | | `state`: unborn, ACTIVE, an outcome, removed |
| `SimulationTracker` | the registry | | `status`/`simType` (the Map of records), `cleanupTimer` |
| `CpuStress` | CPU stress, its workers, crash simulations | `SimulationTracker` | `activeProcesses`, `activeTimeout`, `killTimer`, the workers' `proc`, `owner`, `stopQueued`, `orphans`, `main`, `eventLog` |
| `MemoryPressure` | memory pressure | `SimulationTracker` | `sizeMb`/`filled` (the Map of allocations), `pending` batches, `memoryLog` |
| `AsyncSimulations` | slow, blocking and failing requests | `SimulationTracker` | `due`, `lanes`, `sleeping`, `thread`, `result`, `socket`, `answer`, `verdicts` |
| `IdleTimeout` | the idle timeout | | `isIdle`, `elapsed` (wall clock), `checkTimer` (monotonic), ghost `quiet` |
| `DashboardSocket` | dashboards' connections and idle broadcasts | `IdleTimeout` | `page`, `current` (global `socket`), `conn`, `inbox`, `intentional`, `indicator`, histories |
| `Sidecar` | the sidecar and its supervision | `IdleTimeout` | `mainUp`, `isShuttingDown`, `sidecarProcess`, `restartTimers`, `proc`, `channel`, `suspended`, `slow`, `inFlight` |
| `LoadTest` | the load test service | | the counters, `period`, `request`, histories `reported`, `unlogged` |
| `SlowRequestDriver` | sendSlowRequests and its relay | | the three globals, the locals of each call, `inFlight`, `wire`, `announced` |
| `StartupTranslation` | translation at startup | | `source` and `target` files, where the start is, the batch under way |
| `ActiveList` | a page's lists of active simulations | (instance of `SimulationLifecycle`) | `status`/`simType`/`allocated` (the server), `connection`, `listed`, `removalTimer`, `posted`, `reload`, `request`, `bulk`, `lastProcessId` |
| `Responsiveness` | probe reports and their display | | `blocked`, `waiting` probes, `ipc` reports, the fields of `serverResponsiveness` |

`MC<module>` gives the constants of a module their small values for TLC;
`<module>_proofs` holds its theorems. Three of the proof modules are about more
than one module: `AsyncSimulations_proofs` also about the registry it extends,
`Sidecar_proofs` also about `Responsiveness`, and `Dashboard_proofs` about what
runs in a page (`DashboardSocket`, `SlowRequestDriver`, `ActiveList`). To be
extended together, `SlowRequestDriver`, `ActiveList` and `Responsiveness` name
their specifications `SlowSpec`, `ListSpec` and `DisplaySpec`. Modules compose by EXTENDS: a service
that uses the registry extends it, and its actions conjoin the registry's
methods (`CreateSimulation`, `StopSimulation`, ...) exactly where the code
calls them. `DashboardSocket` and `Sidecar` compose with `IdleTimeout` in the
same way: their actions conjoin `RecordActivity` or `CheckIdle` with what the
callback in `index.ts` does then. `ActiveList` uses the registry the other way:
its server is an instance of the abstract `SimulationLifecycle`, which
`SimulationTracker`, `CpuStress` and `MemoryPressure` are proved to implement, so
that a page is checked against anything the registry may do and against no
clock. `Responsiveness` takes the sidecar while it probes; when it does not is
in `Sidecar`.

How to read an action against the code:

- One action is one callback of an event loop, to its end or next `await`. What
  follows an `await` is in the action of the callback that settles the promise.
- Names follow the code (`createSimulation` is `CreateSimulation`); a
  controller that only validates and calls is part of the action of its
  service.
- Time is relative. A timer is the number of ticks until it is due; at 0 it is
  due and may fire late. Where Node orders two timers (same delay, armed one
  after the other) the guard `cleanupTimer[s] = Off` keeps that order.
  `NodeDelay` is what `setTimeout` does to a delay it cannot represent.
- Processes other than main act at any time. Their messages are queues read in
  order, lost when the reader is gone.
- Operators marked `mutant:` are deliberately wrong variants of the definition
  below them. Each property of a passing run is violated when its mutant takes
  the place of the definition (`PROJECT.json`, "mutants"): there is at least one
  plausible bug it would report.

Some modelling decisions deserve a reason:

- **Workers never read messages** (`CpuStress.stopQueued` has no consumer): the
  worker burns in a synchronous loop begun at the top level of its script, so
  its handlers for 'stop' and SIGTERM never run.
- **A registry id may belong to another service.** `DELETE
  /api/simulations/memory/:id` stops whatever record has the id, so
  `CpuStress` and `AsyncSimulations` have a step `MemoryRelease` by which
  their simulations are stopped without their knowledge.
- **The log of CPU stress is compared in one direction**: what it calls stopped
  is STOPPED. Of completions there is nothing to compare, as the service logs
  none (`CompletionNeverLogged`); and a stop by another service is not logged.
- **A fork fails in two ways.** `fork` may throw, which `CpuStress` has for each
  worker and which ends main when it forks the sidecar (`MainEnds`); or it
  returns and emits 'error' alone (no process or descriptor left), which
  `StartSidecar` has: nothing restarts the sidecar then.
- **A block may be a series of chunks** in `Responsiveness`: between two chunks
  the code yields one `setImmediate`, in which anything between all and nothing
  of what waits is handled. `blockedFor` starts anew only where no probe was left
  waiting.
- **A closed connection stays closed** in `ActiveList` until a button of the page
  calls `ensureWebSocket`: Socket.IO gives up after ten attempts, and an idle
  server makes the page close it. `GhostsLeave` excepts such a page and binds it
  again once it reconnects.
- **The six crashes are one**: they differ in what a post-mortem shows. All
  lose main's memory and orphan its children.
- **The wall clock is adjusted** in `IdleTimeout` because the code compares
  `Date.now()` with a period that `setTimeout` counted on another clock.
- **Sources and hashes are versions** in `StartupTranslation`; a text is its
  length, since the batches depend on nothing else.
- **A page has no clock in `ActiveList`**: the timer of the page and that of the
  server run for the same duration from moments a network apart, so either may
  be first. A simulation ends at any time, and the timer fires at any time.
- **The abstract answer of `GET /api/simulations`** has the error in it: while a
  memory simulation is ACTIVE the answer has no simulations (Findings).
- **A main process that is not blocked is prompt** in `Responsiveness`: time
  (in ticks of some seconds) passes only when what waits for it has been
  handled. Within a tick every order is possible. Without this, a probe could
  time out at a server that merely never got to it, which is what blocked means.
- **Histories** (`overlong`, `sinceAnswer`, `connectedFor`, `reported`, `unlogged`, `loaded`, `clicked`, `stopped`,
  `disturbed`, `quiet`, `adjustments`) are read by no guard that models code;
  they only let a property speak about the past, or bound the environment.

## Runs

Each passing run takes less than half a minute with two workers (`sidecar` and
`responsiveness` one to two, `lists` three) and explores everything reachable within its bounds. Symmetry is
not used: nearly all instances have liveness properties.

| Run | States | Question, and the properties that answer it |
|---|---|---|
| `cpu` | 41 k | Do registry, timers and processes agree, whatever fails? `TimerIffActive`: a registry timer for exactly the ACTIVE simulations. `ImplementsLifecycle`: with workers and crashes on top of it the registry implements `SimulationLifecycle`. `NoWorkerLost`, `ActiveWorkersAreSafe` (a late SIGKILL hits only the stopped simulation), `LogMatchesRegistry`, `WorkersReclaimed`. |
| `memory` | 1.2 k | Is a release final in the middle of an allocation? `ReleaseIsFinal`; `BatchChain`: a batch is queued exactly while objects are missing, so that every allocation settles. |
| `async` | 35 k | Do work, registry timer, stop and late events yield one story? `AnsweredIsClosed`, `OneVerdict`, `EveryRequestAnswered`. |
| `dashboard` | 43 k | Do pages and server agree on idleness through loads, clicks, losses and clock changes? `IdleWithinTwoPeriods`, `NeverIdleEarly`, `PagesAgreeWithServer`, `IndicatorHonest`, `LoadedPageStaysConnected`. |
| `sidecar` | 144 k | Is there one sidecar, in agreement with main, whoever crashes? `SidecarAgrees`, `OneProber`, `IdleStopsProbes` (probes that have piled up included), `SidecarComesBack` (unless main ends or shuts down, or the fork fails), `OrphansFallSilent`. |
| `loadtest` | 62 k | Do the counters survive overlap, exceptions and period resets? `EveryRequestCounted`, `PeriodIsCoherent`, `ExternalLoadIsLogged`. |
| `slow` | 118 k | Do overlapping campaigns stay stoppable and announced? `RunningHasSignal`, `QuietWhenStopped`, `CampaignIsAnnounced`, `EveryCampaignReturns`. |
| `translation` | 18 k | Can a start be killed anywhere and the next one be trusted? `TrustedStringsAreComplete`, `ReadyMeansUpToDate`, `BatchesFit`, `EveryStartListens`. |
| `lists` | 428 k | Can a user end everything that runs from the list, and do the dead leave it? `RunningKeepsEntry`: what runs or holds memory keeps its entry through every stop that is refused, fails, or ends something else; only a reload, another process or a timer of its own takes it away. `GhostsLeave`: what died with a server process leaves, even if the reload fails, unless the page gives up reconnecting or is closed for idleness. `BulkReachesEveryEntry`: stop all ends everything it began with, or says that it could not. |
| `responsiveness` | 1.2 M | Does a page tell the truth about a server it hears of through that server? `NoFalseAlarm`: never "unresponsive" unless a block, in one chunk or in many, was as long as a probe waits, or the network failed, although one timeout makes two reports. `WarningIsHonest`: ten seconds without an answer when it says so, on a page that was connected. `RecoveryShown`. |
| `memory_expiry` | | Violated: "Memory does NOT auto-expire" (`NoAutoExpiry`). |
| `cpu_completion` | | Violated: the end of a CPU simulation is announced by an event (`CompletionAnnounced`). |

### Bounds, and why they are enough

- **Simulations**: two ids. The services keep state per id and no operation
  relates more than two (a stop of one against the life of another). An id is
  used once, as `generateId` never repeats one.
- **Durations**: 1 and 2 ticks, so that of two timers each may be due first or
  both at once. `TimeoutMax` is the longest delay setTimeout honours; `cpu` takes
  durations up to it, `memory` has `Forever` = 3 above `TimeoutMax` = 2, as the
  code has. The registry's `removeSimulation` and `clear`, which only tests call,
  are in no run of their own and are covered by the proofs.
- **CPU**: two worker processes, two cores (1 process for moderate, 2 for high
  load), so that forks can run out, succeed in part, and belong to different
  simulations. `KillDelay` is 1.
- **Memory**: sizes 1 to 3 with two objects per MB and batches of three: an
  allocation takes one partial batch, one full and one partial, or two full.
- **Awaited simulations**: two requests per batch, two libuv chains; a batch's
  registry duration (2) is longer than the request timeout (1), as 60 s is
  longer than 30 s.
- **Dashboards**: one page with its up to two connections. Pages do not interact
  with one another, only with the server, and the agreement of pages and server
  is proved for any number. A period of 2 minutes, up to 1 minute between the
  loading of the service and `start()`, two clock adjustments of a minute,
  which together are no more than a period. Up to 5 messages wait in a
  connection; at the bound the server waits (`QueueFree`), which only delays
  steps.
- **Sidecar**: two processes, so that the first can crash, or main can, with a
  successor, and a fork can fail; a period of one minute; two probes in flight,
  so that they pile up; two messages in a channel. TLC does not check deadlock here: when both forks are used up and
  gone and main has ended nothing is left to happen.
- **Load test**: three requests, so that one starts, one is carried over a
  period and one throws; a threshold of 1; a sample every two requests. No
  deadlock check: after three requests the server is quiet.
- **Slow request driver**: two campaigns of one page, 0 to 3 requests each. With
  three, a campaign has a request before, during and after a stop; equal
  messages on the wire are merged, which keeps it finite and its last word.
- **Translation**: strings and two pages in two versions, whose sizes make a
  batch end by number (2), by characters (3), by a text longer than a batch, and
  by the end of the file; one version of a page is empty. One retry, where the
  code has three: attempts differ in number only.
- **Lists**: two simulations, one that the page started (CPU or memory), with its
  button, and a CPU simulation of another client, which can reach this page's list by
  a reload only. A loop has up to two entries to get through. One reload is in
  flight (`Reload`), one DELETE per id, one loop per type. The attempts to reconnect
  are not counted: the page gives up at any time. One restart, so that
  there are simulations of a dead process and of a live one.
- **Responsiveness**: a probe waits 2 ticks and the page 2 ticks, which stand for
  10 s each; three ages of probes are in flight. Up to two network errors,
  since the display counts two; a block may last for longer than both times
  together (`LongBlock`). New probes wait when two reports are queued: the
  display counts no further, and the doubled report of a timeout makes it four. `blockedFor`, `sinceAnswer`,
  `connectedFor` and the two clocks of the page stop at the largest value they are
  compared with.

## Fairness

Weak fairness is assumed of what an event loop, a clock or an operating system
does by itself, and of nothing else:

- time passes (`Tick`, `TimePasses`);
- a due timer fires, a queued `setImmediate`, message or exit event is reached
  (`RegistryTimer`, `AutoComplete`, `KillTimer`, `AllocateBatch`, `SleepOver`,
  `ChainEnds`, `OnExit`, `Restart`, `OnIdleMessage`, `Poll`, ...): Node's loop
  runs every callback that is ready, since no callback here runs forever in
  main (blocking is finite);
- started work ends: a worker thread posts or dies, a request with a timeout
  settles, a probe is answered, refused or timed out, the translator answers or
  `fetch` gives up (`ThreadPosts`, `RequestEvent`, `Answer`, `FetchSettles`,
  `ProbeSettles`, `Check \/ Batch \/ Write`);
- the interval of 60 s fires (`BroadcastStats`), that of the probes too
  (`SendProbe`);
- in `ActiveList`, DELETEs are answered or fail, loops go on, and a page that is
  reconnecting succeeds or gives up (`reconnect_failed`). That it reconnects is
  not assumed, nor anything of a connection that is closed, of reloads, or of
  removal timers. Strong fairness is used twice. `OnMetrics`: metrics are
  broadcast every 250 ms, so a page that is connected again and again gets some.
  `Tick` of `Responsiveness`: time passes although blocks begin and end.

Nothing is assumed of users and clients (start, stop, click, load), of networks
(accept), of failures (crash, loss, kill), of the end of a block, of whoever
restarts main, of the workers' own exits, or of echoes: no liveness property
relies on them. `RecoveryShown` is about pages that stay connected to a server
that stays unblocked.

## Proofs

Every safety invariant, every action property and every refinement that a
passing run checks is a theorem. All theorems are of the form `Spec => []Inv`,
`Spec => [][A]_vars` or `Spec => ImplementsLifecycle` (with `TrackerSpec`,
`SlowSpec`, `ListSpec` or `DisplaySpec` for `Spec` where the table says so), for every value of the constants that satisfies
the named ASSUMEs of the modules: positive durations and sizes, limits that
are natural numbers, `NoProcess` and `Null` outside their sets, the simulation
types the services use, and `Forever` > `TimeoutMax`. `IdleTimeout` assumes
that all adjustments of the wall clock together are no longer than one period,
`AsyncSimulations` that the requests of a batch are finitely many (the code
takes any integer). Each inductive invariant below was first checked by
TLC as an invariant of the run of its module.
Sets of ids, workers, pages, processes and versions are arbitrary, except where
cardinalities matter (below).

| Module | Theorems | Argument |
|---|---|---|
| `AsyncSimulations_proofs`, the registry (`TrackerSpec`) | `RegistryTypeCorrect`, `TimersMatchStatus`, `RegistryRefinesLifecycle` | `TimerIffActive` is inductive with the types, for durations of any length: also where setTimeout cannot represent them a timer is armed, and fires at once. |
| the same, awaited simulations | `AsyncTypeCorrect`, `AsyncTimersMatchStatus`, `AnswersClose`, `OneStory`, `AsyncRefinesLifecycle` | `OneVerdict` is not inductive: nothing in it stops an answered promise from settling again. `SettlesOnce` says that a simulation waits for one kind of work only and, while anything may settle its promise, has no answer. `RegistryStep` shows each step to be one of the registry (or none), so that the registry's lemmas carry over. For each kind of step one lemma shows that the simulation it is about keeps its promise and that nothing happens to the others (`Keeps`, `SameKeeps`). |
| `CpuStress_proofs` | `TypeCorrect`, `WorkersAccountedFor`, `StopsAreIsolated`, `LogIsTruthful`, `TimersMatchStatus`, `CompletionNeverLogged`, `RefinesLifecycle` | Neither `NoWorkerLost` nor `ActiveWorkersAreSafe` is inductive. `IInv` adds `HandlesOwned` (an entry holds only workers forked for it) and `ForkedForBegun` (a worker's simulation has begun, so that a new simulation cannot inherit one). `StopCpuProcesses` is treated once, in `StopKeepsIInv`, for any set of simulations and of children to which sending throws. The log needs `LogInv`, that only begun simulations are in it. `CompletionNeverLogged` is the finding of `cpu_completion` for every instance: an auto-completion timer finds its simulation ended, by `TimerIffActive`. |
| `MemoryPressure_proofs` | `TypeCorrect`, `BatchesChain`, `StoppedIsReleased`, `ReleasesAreFinal`, `RefinesLifecycle` | `IInv` joins `BatchChain` (a batch is queued exactly while objects are missing), `StoppedHoldsNoMemory`, `NothingBeforeBirth` and `ReleasedIsGone`, that a logged release left nothing behind; `ReleaseIsFinal` is a step property that follows from it. |
| `IdleTimeout_proofs` | `NeverUnwatched`, `IdleIsTimely`, `IdleIsNotEarly` | `IdleInv` relates the two clocks: the wall clock is off by at most the adjustments used, so a check that finds too little time elapsed finds enough at the next. |
| `Dashboard_proofs`, connections | `TypeCorrect`, `PagesAgree`, `ServerIdlesInTime`, `ServerIsIdleService`, `ServerIdlesNotEarly`, `IndicatorIsHonest`, `LoadedPageStays` | `IInv` joins the types, `IdleInv` and `Connections`: a connection not open has no messages, later slots are unused, and the last message on each open one is the server's state. Lemmas on the last element of a queue after Append and Tail carry the sequences. `ServerIsIdleService` is a refinement: the composition implements `IdleSpec`, from which `NeverIdleEarly` carries over. The indicator needs the handshake as well, in `HInv`: `HandshakeTracked` (what `intentional`, the indicator and the unread events say in each state of a page's only connection) and `AwakeSinceLoad` (since a load the server is awake and has no "idle" on its way to that page). |
| the same, `SlowSpec` | `SlowTypeCorrect`, `SignalWhileRunning`, `StoppedPageIsQuiet`, `CampaignAnnounced` | `SlowTracked` holds also where campaigns overlap: each of them counts its own requests (`Cardinality` of `inFlight` through sends, settlements and an abort of all) and the controller belongs to one that has not returned. `Undisturbed` says what a page with one campaign at a time looks like in each phase of it: who holds the globals, what ticks, what is out. On top of it `CampaignIsAnnounced` follows the last message of the wire. |
| the same, `ListSpec` | `ListTypeCorrect`, `EntryOfRunningStays` | `RunningKeepsEntry` is about steps, and needs that an answer "ok" to a DELETE is still true when it is read: `DeletedStayEnded`, which holds because an ended simulation never runs again (`Onward`, from the abstract lifecycle) and because a page knows of begun simulations only (`KnownAreBorn`). |
| `Sidecar_proofs` | `TypeCorrect`, `SidecarAgreesAlways`, `OneProberAlways`, `SidecarKeepsWatch` | `SidecarAgrees` speaks of the last idle message of a channel (`Tells`), kept by lemmas on Append and Tail. `OneProber` needs to know which exits are still to be noticed: at most one of restart timer, unnoticed exit and running child exists. |
| the same, `DisplaySpec` | `DisplayTypeCorrect`, `NoAlarmWithoutCause`, `WarningTellsTheTruth` | `ProbesInTime`: a waiting probe is no older than the series of chunks it waits for, and unless one was of full length every report under way is a success and no failure is counted. `OutageMeasured`: the page's clock of an outage is not ahead of the time that passed without an answer, but for the time before it was connected and for answers still on their way. |
| `LoadTest_proofs` | `TypeCorrect`, `RequestsAreCounted`, `PeriodsAreCoherent` | `IInv` adds `IdsInOrder` (ids in flight are below the next one), which makes `Cardinality` of the requests in flight follow each step; the sampling counter takes lemmas about `%`. |
| `StartupTranslation_proofs` | `TypeCorrect`, `TrustedStrings`, `ReadyIsUpToDate`, `BatchesAlwaysFit`, `TranslationsLast` | `LoopInv` is the invariant of the batch loop (texts before `first` are done, `chars` is within the limit or a single text), `WholeIsComplete` and `AnnouncedIsUpToDate` that of the files. |

That the registry implements `SimulationLifecycle` is proved four times on
purpose: for the registry alone, and with CPU stress, memory pressure and the awaited
simulations on top of it. StopAll and releaseAll end several simulations in one
step, a crash forgets all of them, and a failing promise may come after a stop;
the abstract specification is the same. `ActiveList` then relies on no more than it.

Only model-checked, not proved, are the liveness properties (`WorkersReclaimed`,
`EveryRequestAnswered`, `IdleStopsProbes`, `SidecarComesBack`,
`OrphansFallSilent`, `ExternalLoadIsLogged`, `EveryCampaignReturns`,
`EveryStartListens`, `GhostsLeave`, `BulkReachesEveryEntry`,
`RecoveryShown`): fairness and ENABLED are out of the prover's reach. For the same
reason the fairness conjunct of a `Spec` is not used by any proof: the theorems hold
with or without it, and `ImplementsLifecycle` states no fairness.

Proved and not run: the type invariants, `AlwaysWatching`,
`StoppedHoldsNoMemory`, `UpToDateStays`, `NoCompletionLogged`. `TimerIffActive` is
proved for the awaited simulations too, where no run lists it.

## Findings

Where the code and its own documentation disagree, found while modelling. Two
have a run that shows them. Thirteen have a property in a module that is checked
by no run because it does not hold. The others were seen in reading. Details,
with lines and quotes, are in `PROJECT.json` under "findings".

Shown by a run:

1. `memory_expiry`: the "effectively infinite" duration of a memory simulation
   does not fit `setTimeout`, which fires after 1 ms: the record is COMPLETED
   while the memory stays allocated (`memory-pressure.service.ts:94`).
2. `cpu_completion`: the registry's timer, armed first with the same delay,
   completes each CPU simulation before the service does, whose completion
   event is then never logged (`cpu-stress.service.ts:207`).

Stated in a module, and false:

3. `FailureShowsEnglish` (`StartupTranslation`): when a translation fails, pages
   show the outdated one and not English (`translation-startup.service.ts:86`).
4. `FailureRecorded` (`AsyncSimulations`): a failure after the registry timer
   is logged and answered but the record says COMPLETED.
5. `ClickReconnects` (`DashboardSocket`): a click on an idle page reconnects,
   the server answers "idle", and the page disconnects again.
6. `SingleConnection` (`DashboardSocket`): a click while the page loads leads to
   two connections.
7. `NoForkInShutdown` (`Sidecar`): the restart timer does not look at
   `isShuttingDown` again.
8. `SidecarAlwaysComesBack` (`Sidecar`): a restart whose fork fails with an 'error'
   event alone is followed by no other, and the dashboards get no more probes.
9. `CampaignIsComplete` (`SlowRequestDriver`): a campaign whose first request
   settles before the second is sent ends with requests unsent.
10. `TrustedPagesAreComplete` (`StartupTranslation`): a page cut short by a kill
    has its hash in the first line and is trusted for good.
11. `EndedIsUnlisted` (`ActiveList`): no message tells a page that a simulation
    has ended, and entries that came with a reload have no timer: they stay.
12. `StoppedStaysUnlisted` (`ActiveList`): an answer to the reload that is older
    than a stop lists what was stopped, without a timer.
13. `StartedStaysListed` (`ActiveList`): such an answer drops what was started
    after it was written, and with it the button that ends it.
14. `WarnedOfBlock` (`Responsiveness`): a block of the event loop is never warned of,
    however long: the clock starts when its reports arrive, which is when it is over.
15. `WarningAlwaysHonest` (`Responsiveness`): an outage that ended while the page was
    disconnected goes on for it, and the next failed probe is warned of as
    one of ten seconds.

Seen in reading, among others: a timed-out probe is reported twice
(`probe-sidecar.ts:243`); an error answer to a reload empties the lists but not the
screen (`dashboard.js:448`); the fallback for missing probe reports calls an
empty function (`charts.js:399`); no latency above the probe timeout is ever
charted (`probe-sidecar.ts:157`); every change of the slow-request state leaves another
statistics interval (`probe-sidecar.ts:261`); a restarted sidecar is not told of
slow requests under way (`index.ts:330`); a dashboard that is reloaded or loses
its connection in the middle of a campaign leaves the sidecar at its reduced
rate, as nobody says "inactive"; overlapping campaigns clear each other's
interval (`dashboard.js:1003`); nothing calls `sendActivity`
(`socket-client.js:200`), so the server's 'activity' handler never runs;
`periodPeakConcurrent` may be 0 with requests in flight
(`load-test.service.ts:706`); a batch of failing requests has no
limit where a comment says 50 (`failed-request.controller.ts:49`); the event log has no bound although its header
and the configuration name one (`event-log.service.ts:51`).

## Limits

What is not modelled, and why:

- **Metrics, validation, request logging, error handling, configuration,
  telemetry**: stateless, or reading the runtime. The ranges that validation
  lets through are the inputs of the other models.
- **Latencies, rates and chart data**: numbers on which no control depends. The
  durations in `Responsiveness` are in ticks.
- **Garbage collection, CPU scheduling, thread pool**: outside of the program. A
  blocked event loop is a delay, and every step may be late in these models.
- **Event log**: the entries a property needs are in the services' own sets
  (`eventLog`, `memoryLog`, `verdicts`). Order, `clear()` and the queries are
  left out: no page reads the log back (`dashboard.js` only appends what is
  broadcast while it is connected), so nothing depends on them.
- **Rendering**: `ActiveList` has the Maps, and takes the screen to show them.
- **Process ids** differ between restarts in `ActiveList`. Should the platform
  give a new process the id of the old one, a restart is not noticed by the metrics
  and only the reload empties the lists.
- **Two connections of one page** and what an idle server answers a page that
  reconnects are in `DashboardSocket`. `ActiveList` has one connection, which may
  be closed for idleness at any time.
- **scheduledEndAt** of a record is reported and read by nothing in the server; the
  models have the registry's timer only. What `setTimeout` makes of a duration
  that is too long is in `NodeDelay`, and `memory_expiry` shows it.
- **Protected terms** of the translation (marking and unmarking) are in the
  length of a text only; that they survive the translator is not shown.
- **Several main processes** do not exist: the server runs as one instance. One
  that restarts meets what its predecessor left: orphans, files, open pages.
- **Socket.IO** is a channel that delivers in order while it is open and loses
  what is in flight when it breaks; its transports and heartbeats are not
  modelled.

## Plan

The order follows the weight of the behaviour. Twelve parts are done: the registry
and its abstract specification, CPU stress, memory pressure, the awaited
simulations, the idle timeout, the dashboards' connections, the sidecar, the load
test, the driver of slow requests, startup translation, the lists of active
simulations and the responsiveness display, with their runs and the proofs above.
Next:

1. **The safety half of the liveness properties**: that `AutoComplete` and the SIGKILL
   timers of a stopped simulation are due within `KillDelay` of its end, that a loop
   of stop all only shrinks, that a batch chain gets shorter with each step; what is
   left for fairness is then that each of these steps is taken.
2. **`SlowRequestDriver` with `Sidecar`**: what the sidecar was told against
   campaigns of several dashboards and its own restarts; an abstract
   specification (some campaign runs or none does) for both to implement.
3. **An abstract specification of load accounting** implemented by `LoadTest`.
4. **Metrics**: `getCpuMetrics` computes a difference to the last call of anybody
   (`metrics.service.ts`), so the endpoints and the broadcast shorten each
   other's windows; a small model of readers sharing one snapshot.

## Running it

    tlc -workers 2 -config cpu.cfg MCCpuStress        # a run of the table above
    tlapm CpuStress_proofs.tla                        # the proofs of a module

`PROJECT.json` lists the runs with their properties, the source lines each
definition models ("map"), the hazards each property is aimed at, the findings
and the theorems.
