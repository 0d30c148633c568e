--------------------------- MODULE SlowRequestDriver ---------------------------
(***************************************************************************)
(* How a dashboard sends slow requests (sendSlowRequests and               *)
(* stopSlowRequests of public/js/dashboard.js), and how its progress       *)
(* travels over the socket: src/index.ts relays slowRequestState to the    *)
(* sidecar and to every dashboard, which shows it in its overlay.          *)
(*                                                                         *)
(* A campaign is one call of sendSlowRequests: an async function with      *)
(* counters of its own, which nevertheless shares three globals with the   *)
(* calls before and after it.  Nothing keeps the user from starting one    *)
(* while another goes on.  An action is one task of the page with the      *)
(* promise reactions it causes; the delays of requests and intervals are   *)
(* left open.                                                              *)
(***************************************************************************)
EXTENDS Integers, Sequences, FiniteSets

CONSTANTS
  Campaign,      \* calls of sendSlowRequests (a bound)
  Null,
  MaxRequests    \* the largest number a user enters (a bound)

ASSUME NullAssumption == Null \notin Campaign
ASSUME MaxRequestsAssumption == MaxRequests \in Nat \ {0}

VARIABLES
  slowRequestRunning, slowRequestAbortController, slowRequestIntervalId,
  ticking,       \* campaigns whose setInterval has not been cleared
  phase,         \* where each call of sendSlowRequests is
  maxRequests, sentRequests, activeRequests,     \* its local variables
  inFlight,      \* fetches that have not settled, with the signal they got
  statusEl,      \* what the overlay shows
  isConnected,   \* the page has a Socket.IO connection
  wire,          \* slowRequestState messages on their way, equal ones merged
  announced,     \* the state the sidecar and the other dashboards were told last
  stopped,       \* history: campaigns the user stopped
  disturbed      \* history: campaigns overlapped, the connection was lost, the
                 \* page was reloaded or another dashboard ran a campaign

globals == <<slowRequestRunning, slowRequestAbortController, slowRequestIntervalId>>
locals == <<phase, maxRequests, sentRequests, activeRequests>>
slowVars == <<globals, ticking, locals, inFlight, statusEl, isConnected, wire,
          announced, stopped, disturbed>>

Fetch == [campaign : Campaign, number : 1..MaxRequests, signal : Campaign]
Going == {"settling", "polling"}
GoingCampaigns == {c \in Campaign : phase[c] \in Going}
FetchesOf(c) == {q \in inFlight : q.campaign = c}

SlowTypeOK ==
  /\ slowRequestRunning \in BOOLEAN /\ isConnected \in BOOLEAN
  /\ slowRequestAbortController \in Campaign \cup {Null}
  /\ slowRequestIntervalId \in Campaign \cup {Null}
  /\ ticking \in SUBSET Campaign /\ stopped \in SUBSET Campaign
  /\ phase \in [Campaign -> Going \cup {"uncalled", "returned", "unloaded"}]
  /\ maxRequests \in [Campaign -> 0..MaxRequests]
  /\ sentRequests \in [Campaign -> 0..MaxRequests]
  /\ activeRequests \in [Campaign -> 0..MaxRequests]
  /\ inFlight \in SUBSET Fetch
  /\ statusEl \in {"blank", "active", "stopped"}
  /\ wire \in Seq(BOOLEAN)
  /\ announced \in BOOLEAN /\ disturbed \in BOOLEAN

SlowInit ==
  /\ slowRequestRunning = FALSE
  /\ slowRequestAbortController = Null /\ slowRequestIntervalId = Null
  /\ ticking = {}
  /\ phase = [c \in Campaign |-> "uncalled"]
  /\ maxRequests = [c \in Campaign |-> 0]
  /\ sentRequests = [c \in Campaign |-> 0]
  /\ activeRequests = [c \in Campaign |-> 0]
  /\ inFlight = {}
  /\ statusEl = "blank"
  /\ isConnected = TRUE
  /\ wire = <<>> /\ announced = FALSE
  /\ stopped = {} /\ disturbed = FALSE

----------------------------------------------------------------------------
(* The socket.                                                             *)

\* sendSlowRequestState(active): the messages on their way after it.
SendSlowRequestState(queue, active) ==
  IF ~isConnected \/ (queue # <<>> /\ queue[Len(queue)] = active)
  THEN queue ELSE Append(queue, active)

\* onSlowRequestStateUpdate()
OverlayAfter(active) ==
  IF active THEN "active"
  ELSE IF slowRequestRunning THEN statusEl ELSE "blank"

\* The 'slowRequestState' handler of the server: to the sidecar and to all
\* dashboards, the sender included.
Relay ==
  /\ wire # <<>>
  /\ wire' = Tail(wire)
  /\ announced' = Head(wire)
  /\ statusEl' = OverlayAfter(Head(wire))
  /\ UNCHANGED <<globals, ticking, locals, inFlight, isConnected, stopped, disturbed>>

\* The same, for a message of another dashboard.
RelayOther(active) ==
  /\ announced' = active
  /\ statusEl' = IF isConnected THEN OverlayAfter(active) ELSE statusEl
  /\ disturbed' = TRUE
  /\ UNCHANGED <<globals, ticking, locals, inFlight, isConnected, wire, stopped>>

ConnectionDrops ==
  /\ isConnected
  /\ isConnected' = FALSE /\ wire' = <<>> /\ disturbed' = TRUE
  /\ UNCHANGED <<globals, ticking, locals, inFlight, statusEl, announced, stopped>>

Reconnected ==
  /\ ~isConnected
  /\ isConnected' = TRUE
  /\ UNCHANGED <<globals, ticking, locals, inFlight, statusEl, wire, announced,
                 stopped, disturbed>>

----------------------------------------------------------------------------
(* The end of sendSlowRequests.                                            *)

CleanupKeepsRunning(c) ==               \* mutant: the flag is not reset
  /\ ticking' = ticking \ {slowRequestIntervalId}
  /\ slowRequestIntervalId' = Null
  /\ UNCHANGED slowRequestRunning
  /\ slowRequestAbortController' = Null
  /\ phase' = [phase EXCEPT ![c] = "returned"]

CleanupKeepsInterval(c) ==              \* mutant: clearInterval is forgotten
  /\ slowRequestIntervalId' = Null
  /\ slowRequestRunning' = FALSE
  /\ slowRequestAbortController' = Null
  /\ phase' = [phase EXCEPT ![c] = "returned"]
  /\ UNCHANGED ticking

\* "Cleanup": whatever the globals name by now is cleared.
Cleanup(c) ==
  /\ ticking' = ticking \ {slowRequestIntervalId}
  /\ slowRequestIntervalId' = Null
  /\ slowRequestRunning' = FALSE
  /\ slowRequestAbortController' = Null
  /\ phase' = [phase EXCEPT ![c] = "returned"]

PollSilently(c) ==                      \* mutant: the server is not notified
  /\ phase[c] = "polling"
  /\ activeRequests[c] = 0 \/ ~slowRequestRunning
  /\ Cleanup(c)
  /\ statusEl' = "blank"
  /\ UNCHANGED <<maxRequests, sentRequests, activeRequests, inFlight, isConnected,
                 wire, announced, stopped, disturbed>>

\* The polling loop looks again, 100 ms later.  The overlay is blanked also after
\* a stop: the exception is for a text with 'Stopped', which none of the
\* translations of log.slow.stopped contains.
Poll(c) ==
  /\ phase[c] = "polling"
  /\ activeRequests[c] = 0 \/ ~slowRequestRunning
  /\ Cleanup(c)
  /\ wire' = SendSlowRequestState(wire, FALSE)
  /\ statusEl' = "blank"
  /\ UNCHANGED <<maxRequests, sentRequests, activeRequests, inFlight, isConnected,
                 announced, stopped, disturbed>>

----------------------------------------------------------------------------
(* Sending.                                                                *)

\* The form is submitted.  The first request is sent at once, also when the
\* number entered is 0.
SendSlowRequests(c, n) ==
  /\ phase[c] = "uncalled"
  /\ slowRequestRunning' = TRUE
  /\ slowRequestAbortController' = c
  /\ phase' = [phase EXCEPT ![c] = "settling"]
  /\ maxRequests' = [maxRequests EXCEPT ![c] = n]
  /\ sentRequests' = [sentRequests EXCEPT ![c] = 1]
  /\ activeRequests' = [activeRequests EXCEPT ![c] = 1]
  /\ inFlight' = inFlight \cup {[campaign |-> c, number |-> 1, signal |-> c]}
  /\ IF n > 1
     THEN ticking' = ticking \cup {c} /\ slowRequestIntervalId' = c
     ELSE UNCHANGED <<ticking, slowRequestIntervalId>>
  /\ wire' = SendSlowRequestState(wire, TRUE)
  /\ statusEl' = "active"
  /\ disturbed' = (disturbed \/ GoingCampaigns # {})
  /\ UNCHANGED <<isConnected, announced, stopped>>

\* The interval fires when there is nothing to send: it clears the interval
\* the global names, which need not be its own.
IntervalDone(c) ==
  /\ c \in ticking
  /\ ~slowRequestRunning \/ sentRequests[c] >= maxRequests[c]
  /\ ticking' = ticking \ {slowRequestIntervalId}
  /\ slowRequestIntervalId' = Null
  /\ UNCHANGED <<slowRequestRunning, slowRequestAbortController, locals, inFlight,
                 statusEl, isConnected, wire, announced, stopped, disturbed>>

\* The interval fires and sends a request.  Without an AbortController to take
\* the signal from, sendRequest throws halfway.
IntervalSends(c) ==
  /\ c \in ticking
  /\ slowRequestRunning /\ sentRequests[c] < maxRequests[c]
  /\ sentRequests' = [sentRequests EXCEPT ![c] = @ + 1]
  /\ activeRequests' = [activeRequests EXCEPT ![c] = @ + 1]
  /\ inFlight' = inFlight \cup
       {q \in Fetch : /\ q.campaign = c /\ q.number = sentRequests[c] + 1
                      /\ q.signal = slowRequestAbortController}
  /\ wire' = SendSlowRequestState(wire, TRUE)
  /\ statusEl' = "active"
  /\ UNCHANGED <<globals, ticking, phase, maxRequests, isConnected, announced,
                 stopped, disturbed>>

FailureKeepsCount(q) ==                 \* mutant: catch does not decrement
  /\ q \in inFlight
  /\ inFlight' = inFlight \ {q}
  /\ wire' = SendSlowRequestState(wire, TRUE)
  /\ statusEl' = "active"
  /\ IF q.number = 1 THEN phase' = [phase EXCEPT ![q.campaign] = "polling"] ELSE UNCHANGED phase
  /\ UNCHANGED <<globals, ticking, maxRequests, sentRequests, activeRequests,
                 isConnected, announced, stopped, disturbed>>

\* A fetch is answered or fails.  The promises that allSettled waits for are
\* those there were when it was called: the first request's alone.
FetchSettles(q) ==
  LET c == q.campaign
      last == activeRequests[c] = 1
  IN  /\ q \in inFlight
      /\ inFlight' = inFlight \ {q}
      /\ activeRequests' = [activeRequests EXCEPT ![c] = @ - 1]
      /\ IF phase[c] = "settling" /\ q.number = 1 /\ (last \/ ~slowRequestRunning)
         THEN /\ Cleanup(c)
              /\ wire' = SendSlowRequestState(SendSlowRequestState(wire, TRUE), FALSE)
              /\ statusEl' = "blank"
         ELSE /\ phase' = IF phase[c] = "settling" /\ q.number = 1
                          THEN [phase EXCEPT ![c] = "polling"] ELSE phase
              /\ wire' = SendSlowRequestState(wire, TRUE)
              /\ statusEl' = "active"
              /\ UNCHANGED <<globals, ticking>>
      /\ UNCHANGED <<maxRequests, sentRequests, isConnected, announced, stopped, disturbed>>

----------------------------------------------------------------------------
(* Stopping.                                                               *)

\* stopSlowRequests(): abort() rejects every fetch that has the current signal,
\* whose catch blocks run next and report progress once more, and with them
\* the rest of a campaign that was waiting for its first request.
StopSlowRequests ==
  LET c == slowRequestAbortController
      aborted == {q \in inFlight : q.signal = c}
      toldToStop == SendSlowRequestState(wire, FALSE)
  IN  /\ slowRequestRunning
      /\ ticking' = ticking \ {slowRequestIntervalId}
      /\ slowRequestIntervalId' = Null
      /\ slowRequestRunning' = FALSE
      /\ inFlight' = inFlight \ aborted
      /\ activeRequests' = [d \in Campaign |->
           activeRequests[d] - Cardinality({q \in aborted : q.campaign = d})]
      /\ IF c # Null /\ phase[c] = "settling"
         THEN /\ phase' = [phase EXCEPT ![c] = "returned"]
              /\ slowRequestAbortController' = Null
              /\ wire' = SendSlowRequestState(
                           SendSlowRequestState(toldToStop, TRUE), FALSE)
              /\ statusEl' = "blank"
         ELSE /\ UNCHANGED <<phase, slowRequestAbortController>>
              /\ wire' = IF aborted = {} THEN toldToStop
                         ELSE SendSlowRequestState(toldToStop, TRUE)
              /\ statusEl' = IF aborted = {} THEN "stopped" ELSE "active"
      /\ stopped' = stopped \cup GoingCampaigns
      /\ UNCHANGED <<maxRequests, sentRequests, isConnected, announced, disturbed>>

\* The page is reloaded: its fetches are cancelled and no callback runs.
Unload ==
  /\ slowRequestRunning' = FALSE
  /\ slowRequestAbortController' = Null /\ slowRequestIntervalId' = Null
  /\ ticking' = {} /\ inFlight' = {}
  /\ phase' = [c \in Campaign |-> IF phase[c] \in Going THEN "unloaded" ELSE phase[c]]
  /\ activeRequests' = [c \in Campaign |-> 0]
  /\ statusEl' = "blank"
  /\ isConnected' = FALSE /\ wire' = <<>> /\ disturbed' = TRUE
  /\ UNCHANGED <<maxRequests, sentRequests, announced, stopped>>

----------------------------------------------------------------------------
SlowNext ==
  \/ Relay
  \/ \E active \in BOOLEAN : RelayOther(active)
  \/ ConnectionDrops
  \/ Reconnected
  \/ \E c \in Campaign, n \in 0..MaxRequests : SendSlowRequests(c, n)
  \/ \E c \in Campaign : Poll(c) \/ IntervalDone(c) \/ IntervalSends(c)
  \/ \E q \in Fetch : FetchSettles(q)
  \/ StopSlowRequests
  \/ Unload

\* The page reaches its timers, and every fetch is answered or fails.
SlowFairness ==
  /\ \A c \in Campaign : WF_slowVars(Poll(c)) /\ WF_slowVars(IntervalSends(c))
  /\ \A q \in Fetch : WF_slowVars(FetchSettles(q))

SlowSpec == SlowInit /\ [][SlowNext]_slowVars /\ SlowFairness

----------------------------------------------------------------------------
(* Properties.                                                             *)

\* The globals stay usable although calls overlap: while slowRequestRunning,
\* there is a signal to send requests with, it belongs to a campaign that has
\* not returned (so that Stop aborts something), and each campaign knows how
\* many of its requests are out, which its polling loop depends on.
RunningHasSignal ==
  /\ slowRequestRunning =>
       /\ slowRequestAbortController # Null
       /\ phase[slowRequestAbortController] \in Going
  /\ \A c \in Campaign :
       /\ activeRequests[c] = Cardinality(FetchesOf(c))
       /\ phase[c] = "settling" <=> \E q \in FetchesOf(c) : q.number = 1

\* Once a campaign has returned or was stopped, a page that runs one at a time
\* is quiet: no interval ticks and no request is out.
QuietWhenStopped ==
  ~disturbed /\ ~slowRequestRunning => ticking = {} /\ inFlight = {}

\* The sidecar and the overlays follow a campaign that is not disturbed: what
\* they are told last is "active" while it runs, and "inactive", with a blank
\* overlay, when it has returned, though catch blocks report progress after a
\* stop and echoes of earlier messages keep arriving.
ToldLast == IF wire = <<>> THEN announced ELSE wire[Len(wire)]
CampaignIsAnnounced ==
  ~disturbed =>
    /\ slowRequestRunning => ToldLast /\ statusEl = "active"
    /\ GoingCampaigns = {} =>
         ~ToldLast /\ (wire = <<>> => statusEl = "blank")

\* Every call of sendSlowRequests returns, however it overlaps with others.
EveryCampaignReturns ==
  \A c \in Campaign : phase[c] \in Going ~> phase[c] \notin Going

\* dashboard.js:1014, "Wait for all requests to complete or be aborted": a
\* campaign that ran alone and was not stopped returns when it has sent all of
\* its requests.
\* It does not hold (README.md, Findings).
CampaignIsComplete ==
  \A c \in Campaign :
    phase[c] = "returned" /\ c \notin stopped /\ ~disturbed
      => sentRequests[c] >= maxRequests[c]
=============================================================================
