----------------------------- MODULE ActiveList -----------------------------
(***************************************************************************)
(* The lists of active simulations of one dashboard page                   *)
(* (public/js/dashboard.js) against the registry behind GET                *)
(* /api/simulations (controllers/admin.controller.ts) and the DELETE       *)
(* handlers of CPU stress and memory pressure.                             *)
(*                                                                         *)
(* The two Maps of activeSimulations are the set `listed', split by the    *)
(* type of its members.  Nothing tells the page that a simulation has      *)
(* ended: an entry leaves by its own timer, by the answer to a DELETE,     *)
(* when the list is loaded again at a new connection, or when the metrics  *)
(* name another process.  Requests and answers are in flight               *)
(* independently of each other and of the connection.                     *)
(*                                                                         *)
(* The registry is taken at its promise, SimulationLifecycle, with the     *)
(* time left out: a simulation ends at some time, and the page's timer,    *)
(* which runs for the same duration, fires at some time before or after.   *)
(* Rendering is left out, and so is the order of a Map.  A crash and the   *)
(* restart after it are one step, and every process has its own id.        *)
(***************************************************************************)
EXTENDS Integers

CONSTANTS
  Sim,           \* ids generateId() can return
  Own,           \* those that answer POSTs of this page
  Clicked,       \* those whose own button is used
  OtherType,     \* what other clients start
  Reload,        \* GET /api/simulations requests the page may have in flight
  MaxRestarts    \* bound: restarts of the server

ASSUME OwnAssumption == Own \subseteq Sim
ASSUME RestartAssumption == MaxRestarts \in Nat

VARIABLES
  status,         \* the registry: where each simulation is in its life
  simType,        \* and of which type it is
  allocated,      \* the Map `allocations' of the server
  boot,           \* which process the server is
  connection,     \* the Socket.IO connection of the page
  listed,         \* activeSimulations.cpu and .memory
  removalTimer,   \* ids for which a timer of startCpuStress is armed
  posted,         \* ids in answers to POSTs that are on their way
  reload,         \* the requests of loadActiveSimulations
  request,        \* the DELETE request of each id, and what sent it
  bulk,           \* what is left to do for stop all and release all
  lastProcessId   \* the process the last metrics came from

serverVars == <<status, simType, allocated, boot>>
deleteVars == <<request, bulk>>
pageVars == <<connection, listed, removalTimer, posted, reload, deleteVars, lastProcessId>>
listVars == <<serverVars, pageVars>>

Registry == INSTANCE SimulationLifecycle WITH state <- status

CPU == "CPU_STRESS"
MEMORY == "MEMORY_PRESSURE"
ListType == {CPU, MEMORY}
NoType == "none"
Caller == {"click"} \cup ListType       \* a button of an entry, or a loop
NoProcess == -1
NoReload == [state |-> "none", sims |-> {}]
NoRequest == [by |-> "click", state |-> "none"]

ActiveSims == {s \in Sim : status[s] = "ACTIVE"}

\* The members of a set of simulations that are of a type.
OfType(sims, type) == {s \in sims : simType[s] = type}

ListTypeOK ==
  /\ Registry!TypeOK
  /\ simType \in [Sim -> ListType \cup {NoType}]
  /\ allocated \in SUBSET Sim
  /\ boot \in 0..MaxRestarts
  /\ connection \in {"trying", "open", "closed"}
  /\ listed \in SUBSET Sim /\ removalTimer \in SUBSET Sim /\ posted \in SUBSET Sim
  /\ reload \in [Reload -> [state : {"none", "sent", "answered"}, sims : SUBSET Sim]]
  /\ request \in [Sim -> [by : Caller, state : {"none", "sent", "ok", "refused"}]]
  /\ bulk \in [ListType -> SUBSET Sim]
  /\ lastProcessId \in 0..MaxRestarts \cup {NoProcess}

ListInit ==
  /\ Registry!Init
  /\ simType = [s \in Sim |-> NoType]
  /\ allocated = {} /\ boot = 0
  /\ connection = "trying"
  /\ listed = {} /\ removalTimer = {} /\ posted = {}
  /\ reload = [k \in Reload |-> NoReload]
  /\ request = [s \in Sim |-> NoRequest]
  /\ bulk = [type \in ListType |-> {}]
  /\ lastProcessId = NoProcess

----------------------------------------------------------------------------
(* The server.                                                             *)

\* A POST is handled, of this page or of another client.
StartSimulation(s, type) ==
  /\ Registry!Begin(s)
  /\ simType' = [simType EXCEPT ![s] = type]
  /\ allocated' = IF type = MEMORY THEN allocated \cup {s} ELSE allocated
  /\ UNCHANGED boot

\* What a DELETE does: the CPU controller refuses a simulation that is not
\* ACTIVE, the memory controller takes any id.
Refuses(s) == simType[s] = CPU /\ status[s] # "ACTIVE"
Delete(s) ==
  /\ IF status[s] = "ACTIVE" THEN Registry!End(s, "STOPPED") ELSE UNCHANGED status
  /\ allocated' = allocated \ {s}
  /\ UNCHANGED <<simType, boot>>

OtherStarts(s, type) ==
  /\ s \notin Own /\ type \in OtherType
  /\ StartSimulation(s, type)
  /\ UNCHANGED pageVars

OtherDeletes(s) ==
  /\ ~Refuses(s)
  /\ Delete(s)
  /\ UNCHANGED pageVars

\* Its duration is over; for a memory simulation that is at once.
RegistryTimer(s) ==
  /\ Registry!End(s, "COMPLETED")
  /\ UNCHANGED <<simType, allocated, boot, pageVars>>

\* scheduledEndAt of a memory simulation is no valid date, so that the answer
\* is an error without simulations while one is ACTIVE.
ServerAnswersReload(k) ==
  /\ reload[k].state = "sent"
  /\ reload' = [reload EXCEPT ![k] = [state |-> "answered", sims |->
       IF OfType(ActiveSims, MEMORY) = {} THEN ActiveSims ELSE {}]]
  /\ UNCHANGED <<serverVars, connection, listed, removalTimer, posted, deleteVars,
                 lastProcessId>>

\* What becomes of a request when it is answered with an error, or not at all.
Failed(r) == IF r.state = "none" THEN r ELSE [r EXCEPT !.state = "refused"]

ServerDeletes(s) ==
  /\ request[s].state = "sent"
  /\ IF Refuses(s)
     THEN /\ request' = [request EXCEPT ![s] = Failed(@)]
          /\ UNCHANGED serverVars
     ELSE /\ request' = [request EXCEPT ![s].state = "ok"]
          /\ Delete(s)
  /\ UNCHANGED <<connection, listed, removalTimer, posted, reload, bulk,
                 lastProcessId>>

\* The process dies and another one takes its place.  What was in flight to or
\* from it fails.
Restart ==
  /\ boot < MaxRestarts
  /\ boot' = boot + 1
  /\ Registry!Forget({s \in Sim : status[s] # "unborn"})
  /\ allocated' = {}
  /\ connection' = IF connection = "open" THEN "trying" ELSE connection
  /\ posted' = {}
  /\ reload' = [k \in Reload |-> NoReload]
  /\ request' = [s \in Sim |-> Failed(request[s])]
  /\ UNCHANGED <<simType, listed, removalTimer, bulk, lastProcessId>>

----------------------------------------------------------------------------
(* The page: starting a simulation.                                        *)

\* Every button of the page begins with it: a closed connection is opened again.
EnsureWebSocket == connection' = IF connection = "closed" THEN "trying" ELSE connection

\* Any button: one of another simulation, or a start that the server never sees.
OtherButton ==
  /\ connection = "closed" /\ EnsureWebSocket
  /\ UNCHANGED <<serverVars, listed, removalTimer, posted, reload, deleteVars,
                 lastProcessId>>

\* startCpuStress or allocateMemory, until the server has handled its POST.
Post(s, type) ==
  /\ s \in Own
  /\ EnsureWebSocket
  /\ StartSimulation(s, type)
  /\ posted' = posted \cup {s}
  /\ UNCHANGED <<listed, removalTimer, reload, deleteVars, lastProcessId>>

\* Its answer arrives.  Only the entry of a CPU simulation gets a timer.
OnPostAnswer(s) ==
  /\ s \in posted
  /\ posted' = posted \ {s}
  /\ listed' = listed \cup {s}
  /\ removalTimer' = IF simType[s] = CPU THEN removalTimer \cup {s} ELSE removalTimer
  /\ UNCHANGED <<serverVars, connection, reload, deleteVars, lastProcessId>>

\* The answer is lost: the user is told that the start failed.
PostFails(s) ==
  /\ s \in posted
  /\ posted' = posted \ {s}
  /\ UNCHANGED <<serverVars, connection, listed, removalTimer, reload, deleteVars,
                 lastProcessId>>

\* The entry is looked up again: it may have gone, or be another object.
RemovalTimerFires(s) ==
  /\ s \in removalTimer
  /\ removalTimer' = removalTimer \ {s}
  /\ listed' = listed \ {s}
  /\ UNCHANGED <<serverVars, connection, posted, reload, deleteVars, lastProcessId>>

----------------------------------------------------------------------------
(* The page: loading the lists.                                            *)

\* onSocketConnected, at every connection of the page.
Connect(k) ==
  /\ connection = "trying"
  /\ reload[k] = NoReload
  /\ connection' = "open"
  /\ reload' = [reload EXCEPT ![k] = [state |-> "sent", sims |-> {}]]
  /\ UNCHANGED <<serverVars, listed, removalTimer, posted, deleteVars, lastProcessId>>

SocketGoes(from, to) ==
  /\ connection = from /\ connection' = to
  /\ UNCHANGED <<serverVars, listed, removalTimer, posted, reload, deleteVars,
                 lastProcessId>>

\* The connection is lost, and Socket.IO begins to reconnect.
Disconnect == SocketGoes("open", "trying")

\* reconnect_failed: maxReconnectAttempts attempts have failed.
GiveUp == SocketGoes("trying", "closed")

\* closeWebSocketForIdle, when the server says that it is idle.
CloseForIdle == SocketGoes("open", "closed")

\* The answer replaces both lists.  When it is an error the loop over its
\* simulations throws, and by then the Maps are empty already.
OnReload(k) ==
  /\ reload[k].state = "answered"
  /\ reload' = [reload EXCEPT ![k] = NoReload]
  /\ listed' = reload[k].sims
  /\ UNCHANGED <<serverVars, connection, removalTimer, posted, deleteVars, lastProcessId>>

\* The request, or its answer, is lost: the lists stay as they are.
ReloadFails(k) ==
  /\ reload[k] # NoReload
  /\ reload' = [reload EXCEPT ![k] = NoReload]
  /\ UNCHANGED <<serverVars, connection, listed, removalTimer, posted, deleteVars,
                 lastProcessId>>

MetricsClearOneList ==                  \* mutant: the memory list is forgotten
  /\ connection = "open"
  /\ lastProcessId' = boot
  /\ IF lastProcessId \notin {NoProcess, boot}
     THEN listed' = listed \ OfType(listed, CPU)
     ELSE UNCHANGED listed
  /\ UNCHANGED <<serverVars, connection, removalTimer, posted, reload, deleteVars>>

\* A metrics broadcast arrives; another process than before empties the lists.
OnMetrics ==
  /\ connection = "open"
  /\ lastProcessId' = boot
  /\ IF lastProcessId \notin {NoProcess, boot}
     THEN listed' = {}
     ELSE UNCHANGED listed
  /\ UNCHANGED <<serverVars, connection, removalTimer, posted, reload, deleteVars>>

----------------------------------------------------------------------------
(* The page: stopping simulations.                                         *)

\* A DELETE is sent by stopCpuSimulation or releaseMemory.  Bound: one in
\* flight for an id.
Send(c, s) ==
  /\ request[s] = NoRequest
  /\ EnsureWebSocket
  /\ request' = [request EXCEPT ![s] = [by |-> c, state |-> "sent"]]
  /\ UNCHANGED <<serverVars, listed, removalTimer, posted, reload, bulk, lastProcessId>>

\* The button of an entry.  Bound: not while a loop still has to get to it.
ClickStop(s) ==
  /\ s \in listed \cap Clicked
  /\ s \notin bulk[simType[s]]
  /\ Send("click", s)

\* Stop all or release all, over the ids its list has now.  Bound: one loop of
\* a kind at a time.
StopAll(type) ==
  /\ bulk[type] = {} /\ OfType(listed, type) # {}
  /\ bulk' = [bulk EXCEPT ![type] = OfType(listed, type)]
  /\ UNCHANGED <<serverVars, connection, listed, removalTimer, posted, reload, request,
                 lastProcessId>>

\* The loop awaits each of its requests.
LoopSends(type, s) ==
  /\ s \in bulk[type]
  /\ \A other \in Sim : request[other].by # type
  /\ Send(type, s)

RefusalEndsLoop(s) ==                   \* mutant: the alert is thrown
  /\ request[s].state \in {"ok", "refused"}
  /\ request' = [request EXCEPT ![s] = NoRequest]
  /\ bulk' = [type \in ListType |->
       IF type # request[s].by THEN bulk[type]
       ELSE IF request[s].state = "ok" THEN bulk[type] \ {s} ELSE {}]
  /\ listed' = IF request[s].state = "ok" THEN listed \ {s} ELSE listed
  /\ UNCHANGED <<serverVars, connection, removalTimer, posted, reload, lastProcessId>>

ReleaseWithoutCheck(s) ==               \* mutant: releaseMemory ignores response.ok
  /\ request[s].state \in {"ok", "refused"}
  /\ request' = [request EXCEPT ![s] = NoRequest]
  /\ bulk' = [type \in ListType |->
       IF type = request[s].by THEN bulk[type] \ {s} ELSE bulk[type]]
  /\ listed' = IF request[s].state = "ok" \/ simType[s] = MEMORY
               THEN listed \ {s} ELSE listed
  /\ UNCHANGED <<serverVars, connection, removalTimer, posted, reload, lastProcessId>>

\* The DELETE is answered, or has failed.  An error is shown in an alert and
\* changes no list, and a loop goes on after it.
OnDeleteAnswer(s) ==
  /\ request[s].state \in {"ok", "refused"}
  /\ request' = [request EXCEPT ![s] = NoRequest]
  /\ bulk' = [type \in ListType |->
       IF type = request[s].by THEN bulk[type] \ {s} ELSE bulk[type]]
  /\ listed' = IF request[s].state = "ok" THEN listed \ {s} ELSE listed
  /\ UNCHANGED <<serverVars, connection, removalTimer, posted, reload, lastProcessId>>

\* The network or the front end fails before or after the server has handled the
\* request.
RequestFails(s) ==
  /\ request[s].state \in {"sent", "ok"}
  /\ request' = [request EXCEPT ![s] = Failed(@)]
  /\ UNCHANGED <<serverVars, connection, listed, removalTimer, posted, reload, bulk,
                 lastProcessId>>

----------------------------------------------------------------------------
ListNext ==
  \/ \E s \in Sim, type \in ListType : OtherStarts(s, type) \/ Post(s, type)
  \/ \E s \in Sim : OtherDeletes(s) \/ RegistryTimer(s)
  \/ \E s \in Sim : OnPostAnswer(s) \/ PostFails(s) \/ RemovalTimerFires(s)
  \/ \E k \in Reload : Connect(k) \/ ServerAnswersReload(k) \/ OnReload(k) \/ ReloadFails(k)
  \/ Disconnect \/ GiveUp \/ CloseForIdle \/ OtherButton
  \/ OnMetrics
  \/ Restart
  \/ \E s \in Sim : ClickStop(s)
  \/ \E type \in ListType : StopAll(type) \/ \E s \in Sim : LoopSends(type, s)
  \/ \E s \in Sim : ServerDeletes(s) \/ OnDeleteAnswer(s) \/ RequestFails(s)

\* Deletes are answered or fail, loops go on, a page that is reconnecting
\* succeeds or gives up, and one that gets connected again and again gets metrics
\* in the end: they are broadcast every 250 ms.  Nothing is assumed of timers, of
\* the answers to other requests, or of the user: a closed connection may stay so.
ListFairness ==
  /\ \A s \in Sim : WF_listVars(ServerDeletes(s) \/ OnDeleteAnswer(s))
  /\ WF_listVars((\E k \in Reload : Connect(k)) \/ GiveUp)
  /\ \A type \in ListType : WF_listVars(\E s \in Sim : LoopSends(type, s))
  /\ SF_listVars(OnMetrics)

ListSpec == ListInit /\ [][ListNext]_listVars /\ ListFairness

----------------------------------------------------------------------------
(* Properties.                                                             *)

\* What is listed of a process that has died leaves, once the page has seen
\* metrics of that process or an earlier one: also if the reload at the new
\* connection fails.  Only a page that gives up or is closed may keep it, and a
\* button that reconnects such a page brings the obligation back.
GhostsLeave ==
  \A s \in Sim :
    s \in listed /\ status[s] = "removed" /\ lastProcessId \in 0..(boot - 1)
      ~> (s \notin listed \/ connection = "closed")

\* The simulation has been ended on the server.
Ended(s) == status[s] # "ACTIVE" /\ s \notin allocated

\* Stop all and release all reach every entry they began with, whatever else
\* ends, reloads or fails while they are awaiting: each is ended on the server,
\* or the user is told that this loop failed to.
BulkReachesEveryEntry ==
  \A type \in ListType, s \in Sim :
    s \in bulk[type] ~>
      (Ended(s) \/ request[s] = [by |-> type, state |-> "refused"])

\* What still runs or holds memory keeps its entry, and with it the button that
\* ends it, through every stop that is refused, fails, or ends something else:
\* it leaves only for a list that was loaded again, another process, or a timer of
\* its own that fires.
RunningKeepsEntry ==
  [][\A s \in listed : s \notin listed' /\ ~Ended(s) =>
       \/ reload' # reload
       \/ lastProcessId' # lastProcessId
       \/ (s \in removalTimer /\ s \notin removalTimer')]_listVars

\* socket-client.js:11, "'simulation' -> Simulation state changes
\* (started/completed/failed)" flow to the page: what has ended leaves the list.
\* It does not hold (README.md, Findings): no such message is sent, and an
\* entry that came with a reload has no timer.
EndedIsUnlisted ==
  \A s \in Sim : s \in listed /\ Ended(s) ~> s \notin listed

\* dashboard.js:686, "Remove from active simulations": what was stopped and is
\* not listed does not get listed.  It does not hold (README.md,
\* Findings): an older answer of the reload lists it.
StoppedStaysUnlisted ==
  [][\A s \in Sim \ listed : status[s] = "STOPPED" /\ s \notin posted => s \notin listed']_listVars

\* dashboard.js:647, "Add to active simulations": what the page has started
\* stays on its list while it is ACTIVE and its timer runs.  It does not hold
\* (README.md, Findings), for the same reason.
StartedStaysListed ==
  [][\A s \in listed : status[s] = "ACTIVE" /\ s \in removalTimer' => s \in listed']_listVars
=============================================================================
