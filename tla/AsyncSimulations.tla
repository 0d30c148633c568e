-------------------------- MODULE AsyncSimulations --------------------------
(***************************************************************************)
(* The simulations whose HTTP request is answered when their work is done: *)
(* slow requests (services/slow-request.service.ts, three patterns),       *)
(* event-loop blocking (services/eventloop-block.service.ts) and batches   *)
(* of failing requests (services/failed-request.service.ts).               *)
(*                                                                         *)
(* All three have one shape: record the simulation, await a promise, close *)
(* the record, log, answer.  Meanwhile the registry runs a timer of its    *)
(* own for the same simulation, and neither waits for the other.  The code *)
(* after an `await' runs in the callback that settles the promise, so      *)
(* settling and closing are one action here.                               *)
(***************************************************************************)
EXTENDS SimulationTracker, FiniteSets

CONSTANTS
  Req,             \* the requests of a batch; a batch uses a subset of them
  Lanes,           \* LIBUV_THREAD_POOL_SIZE: chains of the libuv pattern
  BatchDuration,   \* the 60 s given to the registry for a batch
  RequestTimeout   \* the 30 s timeout of each request of a batch

ASSUME ReqAssumption == IsFiniteSet(Req)
ASSUME LanesAssumption == Lanes \in Nat \ {0}
ASSUME BatchAssumption == BatchDuration \in Duration /\ RequestTimeout \in Nat
ASSUME AsyncTypeAssumption ==
  {"SLOW_REQUEST", "EVENT_LOOP_BLOCKING", "FAILED_REQUEST"} \subseteq SimType

VARIABLES
  due,       \* simulation -> ticks until its own work may be over
  lanes,     \* simulation -> chains of setImmediate callbacks still looping
  sleeping,  \* simulations waiting for the timer of utils delay()
  thread,    \* simulation -> its worker thread
  result,    \* simulation -> request of its batch -> how its promise settled
  socket,    \* simulation -> request of its batch -> its connection
  answer,    \* simulation -> how its HTTP request was answered
  verdicts,  \* <<SIMULATION_COMPLETED or _FAILED, simulation>> log entries
  errorsLogged \* simulation -> number of FAILED_REQUEST_ERROR entries

workVars == <<lanes, sleeping, thread, result, socket>>
asyncVars == <<due, workVars, answer, verdicts, errorsLogged>>
vars == <<trackerVars, asyncVars>>

ThreadState == {"none", "running", "posted", "crashed", "terminated", "exited"}
Verdict == {"SIMULATION_COMPLETED", "SIMULATION_FAILED"}
ServerError == {"500", "504"}
Settled == ServerError \cup {"2xx"}
Batch(s) == {r \in Req : result[s][r] # "none"}

AsyncTypeOK ==
  /\ TrackerTypeOK
  /\ due \in [Sim -> Nat]
  /\ lanes \in [Sim -> 0..Lanes]
  /\ sleeping \in SUBSET Sim
  /\ thread \in [Sim -> ThreadState]
  /\ result \in [Sim -> [Req -> Settled \cup {"none", "pending"}]]
  /\ socket \in [Sim -> [Req -> {"none", "open", "destroyed", "closed"}]]
  /\ answer \in [Sim -> {"none", "ok", "error"}]
  /\ verdicts \in SUBSET (Verdict \X Sim)
  /\ errorsLogged \in [Sim -> Nat]

Init ==
  /\ TrackerInit
  /\ due = [s \in Sim |-> 0]
  /\ lanes = [s \in Sim |-> 0]
  /\ sleeping = {}
  /\ thread = [s \in Sim |-> "none"]
  /\ result = [s \in Sim |-> [r \in Req |-> "none"]]
  /\ socket = [s \in Sim |-> [r \in Req |-> "none"]]
  /\ answer = [s \in Sim |-> "none"]
  /\ verdicts = {}
  /\ errorsLogged = [s \in Sim |-> 0]

----------------------------------------------------------------------------
(* What follows the await.                                                 *)

\* The promise is fulfilled: close the record, log and answer.
Fulfil(s) ==
  /\ CompleteSimulation(s)
  /\ verdicts' = verdicts \cup {<<"SIMULATION_COMPLETED", s>>}
  /\ answer' = [answer EXCEPT ![s] = "ok"]

RejectKeepsRecord(s) ==                 \* mutant: the catch block only rethrows
  /\ verdicts' = verdicts \cup {<<"SIMULATION_FAILED", s>>}
  /\ answer' = [answer EXCEPT ![s] = "error"]
  /\ UNCHANGED trackerVars

\* The promise is rejected: the catch block closes the record, logs, rethrows.
Reject(s) ==
  /\ FailSimulation(s)
  /\ verdicts' = verdicts \cup {<<"SIMULATION_FAILED", s>>}
  /\ answer' = [answer EXCEPT ![s] = "error"]

\* A promise settles once: a later resolve or reject is ignored.
Late(s) ==
  /\ answer[s] # "none"
  /\ UNCHANGED <<trackerVars, verdicts, answer>>

----------------------------------------------------------------------------
(* Starting.                                                               *)

\* GET /api/simulations/slow, pattern setTimeout
StartSlowTimer(s, d) ==
  /\ CreateSimulation(s, "SLOW_REQUEST", d)
  /\ sleeping' = sleeping \cup {s}
  /\ due' = [due EXCEPT ![s] = NodeDelay(d)]
  /\ UNCHANGED <<lanes, thread, result, socket, answer, verdicts, errorsLogged>>

\* Pattern libuv, with Lanes chains, or POST /api/simulations/eventloop with 1.
StartChains(s, type, n, d) ==
  /\ CreateSimulation(s, type, d)
  /\ lanes' = [lanes EXCEPT ![s] = n]
  /\ due' = [due EXCEPT ![s] = d]
  /\ UNCHANGED <<sleeping, thread, result, socket, answer, verdicts, errorsLogged>>

\* Pattern worker: a Worker thread that burns until its own end time.
StartThread(s, d) ==
  /\ CreateSimulation(s, "SLOW_REQUEST", d)
  /\ thread' = [thread EXCEPT ![s] = "running"]
  /\ due' = [due EXCEPT ![s] = d]
  /\ UNCHANGED <<lanes, sleeping, result, socket, answer, verdicts, errorsLogged>>

\* POST /api/simulations/failed: all requests are fired at once.
StartBatch(s, batch) ==
  /\ batch # {}
  /\ CreateSimulation(s, "FAILED_REQUEST", BatchDuration)
  /\ result' = [result EXCEPT ![s] = [r \in Req |-> IF r \in batch THEN "pending" ELSE "none"]]
  /\ socket' = [socket EXCEPT ![s] = [r \in Req |-> IF r \in batch THEN "open" ELSE "none"]]
  /\ due' = [due EXCEPT ![s] = RequestTimeout]
  /\ UNCHANGED <<lanes, sleeping, thread, answer, verdicts, errorsLogged>>

----------------------------------------------------------------------------
(* Finishing.                                                              *)

SleepOverIfActive(s) ==                 \* mutant: a closed record is not answered
  /\ s \in sleeping /\ due[s] = 0 /\ cleanupTimer[s] = Off
  /\ sleeping' = sleeping \ {s}
  /\ IF status[s] = "ACTIVE" THEN Fulfil(s) ELSE UNCHANGED <<trackerVars, verdicts, answer>>
  /\ UNCHANGED <<due, lanes, thread, result, socket, errorsLogged>>

\* The timer of delay(): armed after the registry's, with the same delay, so
\* Node fires it after that one.
SleepOver(s) ==
  /\ s \in sleeping /\ due[s] = 0 /\ cleanupTimer[s] = Off
  /\ sleeping' = sleeping \ {s}
  /\ Fulfil(s)
  /\ UNCHANGED <<due, lanes, thread, result, socket, errorsLogged>>

ChainIgnoresOthers(s) ==                \* mutant: Promise.race, not Promise.all
  /\ lanes[s] > 0 /\ due[s] = 0
  /\ lanes' = [lanes EXCEPT ![s] = lanes[s] - 1]
  /\ Fulfil(s)
  /\ UNCHANGED <<due, sleeping, thread, result, socket, errorsLogged>>

\* A chain sees that the end time is reached (until then it only re-arms
\* itself with setImmediate); the last one fulfils Promise.all.
ChainEnds(s) ==
  /\ lanes[s] > 0 /\ due[s] = 0
  /\ lanes' = [lanes EXCEPT ![s] = lanes[s] - 1]
  /\ IF lanes[s] = 1 THEN Fulfil(s) ELSE UNCHANGED <<trackerVars, verdicts, answer>>
  /\ UNCHANGED <<due, sleeping, thread, result, socket, errorsLogged>>

\* The thread posts 'completed', or dies of an error at any time.
ThreadPosts(s) ==
  /\ thread[s] = "running"
  /\ \/ due[s] = 0 /\ thread' = [thread EXCEPT ![s] = "posted"]
     \/ thread' = [thread EXCEPT ![s] = "crashed"]
  /\ UNCHANGED <<trackerVars, due, lanes, sleeping, result, socket, answer,
                 verdicts, errorsLogged>>

\* Main's 'message' and 'error' handlers terminate the thread and settle.
OnThreadMessage(s) ==
  /\ \/ thread[s] = "posted" /\ Fulfil(s)
     \/ thread[s] = "crashed" /\ Reject(s)
  /\ thread' = [thread EXCEPT ![s] = "terminated"]
  /\ UNCHANGED <<due, lanes, sleeping, result, socket, errorsLogged>>

\* terminate() makes the thread exit with a code other than 0, for which the
\* 'exit' handler rejects the promise that is settled already.
OnThreadExit(s) ==
  /\ thread[s] = "terminated"
  /\ thread' = [thread EXCEPT ![s] = "exited"]
  /\ Late(s)
  /\ UNCHANGED <<due, lanes, sleeping, result, socket, errorsLogged>>

\* resolve(how) of makeFailingRequest: the first of its events wins.
FirstResultWins(s, r, how) ==
  result' = IF result[s][r] = "pending" THEN [result EXCEPT ![s][r] = how] ELSE result

\* The events of one request: a response of the load test endpoint, a
\* connection error, or 30 s of silence, which destroys the request and so
\* makes an 'error' event follow.
RequestEvent(s, r) ==
  /\ \/ /\ socket[s][r] = "open"
        /\ \E how \in {"500", "2xx"} : FirstResultWins(s, r, how)
        /\ socket' = [socket EXCEPT ![s][r] = "closed"]
     \/ /\ socket[s][r] = "open" /\ due[s] = 0
        /\ FirstResultWins(s, r, "504")
        /\ socket' = [socket EXCEPT ![s][r] = "destroyed"]
     \/ /\ socket[s][r] = "destroyed"
        /\ FirstResultWins(s, r, "500")
        /\ socket' = [socket EXCEPT ![s][r] = "closed"]
  /\ IF /\ answer[s] = "none"
        /\ \A q \in Batch(s) : result'[s][q] # "pending"
     THEN /\ Fulfil(s)
          /\ errorsLogged' = [errorsLogged EXCEPT ![s] =
               Cardinality({q \in Req : result'[s][q] \in ServerError})]
     ELSE UNCHANGED <<trackerVars, verdicts, answer, errorsLogged>>
  /\ UNCHANGED <<due, lanes, sleeping, thread>>

RegistryTimer(s) ==
  /\ CleanupTimerFires(s)
  /\ UNCHANGED asyncVars

\* DELETE /api/simulations/memory/:id stops the record of any simulation.
MemoryRelease(s) ==
  /\ StopSimulation(s)
  /\ UNCHANGED asyncVars

Tick ==
  /\ TrackerTick
  /\ due' = [s \in Sim |-> CountDown(due[s])]
  /\ UNCHANGED <<workVars, answer, verdicts, errorsLogged>>

----------------------------------------------------------------------------
Next ==
  \/ \E s \in Sim, d \in Duration :
       \/ StartSlowTimer(s, d)
       \/ StartChains(s, "SLOW_REQUEST", Lanes, d)
       \/ StartChains(s, "EVENT_LOOP_BLOCKING", 1, d)
       \/ StartThread(s, d)
  \/ \E s \in Sim, batch \in SUBSET Req : StartBatch(s, batch)
  \/ \E s \in Sim : SleepOver(s)
  \/ \E s \in Sim : ChainEnds(s)
  \/ \E s \in Sim : ThreadPosts(s)
  \/ \E s \in Sim : OnThreadMessage(s)
  \/ \E s \in Sim : OnThreadExit(s)
  \/ \E s \in Sim, r \in Req : RequestEvent(s, r)
  \/ \E s \in Sim : RegistryTimer(s)
  \/ \E s \in Sim : MemoryRelease(s)
  \/ Tick

\* Threads run, timers fire and queued callbacks are reached.
Fairness ==
  /\ WF_vars(Tick)
  /\ \A s \in Sim :
       /\ WF_vars(SleepOver(s)) /\ WF_vars(ChainEnds(s)) /\ WF_vars(RegistryTimer(s))
       /\ WF_vars(ThreadPosts(s)) /\ WF_vars(OnThreadMessage(s))
       /\ \A r \in Req : WF_vars(RequestEvent(s, r))

Spec == Init /\ [][Next]_vars /\ Fairness

----------------------------------------------------------------------------
(* Properties.                                                             *)

\* No answered request leaves its simulation open: whichever of the work, the
\* registry's timer and a stop comes first, the record is closed and its timer
\* disarmed by the time the client hears of it.
AnsweredIsClosed ==
  \A s \in Sim : answer[s] # "none" =>
    status[s] # "ACTIVE" /\ cleanupTimer[s] = Off

\* The log, the answer and the work tell one story: one verdict at most, the
\* one the client got, and "completed" only when all of the work is over,
\* though the thread, chain and socket events of one promise keep coming.
OneVerdict ==
  \A s \in Sim :
    /\ <<"SIMULATION_COMPLETED", s>> \in verdicts <=> answer[s] = "ok"
    /\ <<"SIMULATION_FAILED", s>> \in verdicts <=> answer[s] = "error"
    /\ status[s] = "FAILED" => answer[s] = "error"
    /\ answer[s] = "ok" => /\ lanes[s] = 0
                           /\ thread[s] \notin {"running", "posted", "crashed"}
                           /\ \A r \in Req : result[s][r] # "pending"
                           /\ errorsLogged[s] =
                                Cardinality({r \in Req : result[s][r] \in ServerError})

\* Every request is answered, whatever ends first and however often the
\* simulation's record is stopped under it.
EveryRequestAnswered ==
  \A s \in Sim : status[s] = "ACTIVE" ~> answer[s] # "none"

\* services/simulation-tracker.service.ts:21, "failSimulation() -> status=FAILED
\* (error during execution)": a simulation whose failure is logged is FAILED.
\* It does not hold (README.md, Findings).
FailureRecorded ==
  \A s \in Sim : <<"SIMULATION_FAILED", s>> \in verdicts => status[s] = "FAILED"
=============================================================================
