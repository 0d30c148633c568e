--------------------------- MODULE DashboardSocket ---------------------------
(***************************************************************************)
(* The dashboards' Socket.IO connections (public/js/socket-client.js and   *)
(* onIdleStatusUpdate of public/js/dashboard.js) against the connection    *)
(* and idle broadcast handlers of src/index.ts and POST                    *)
(* /api/health/activity.                                                   *)
(*                                                                         *)
(* initSocket may run twice in one page, once from ensureWebSocket and     *)
(* once when the page has recorded its activity, so a page has up to two   *)
(* connections and the global `socket' (here `current') names the newer.   *)
(***************************************************************************)
EXTENDS IdleTimeout, Sequences

CONSTANTS
  Client,       \* browser pages
  QueueBound    \* status messages one connection may have in flight

ASSUME QueueBoundAssumption == QueueBound \in Nat /\ QueueBound >= 3

VARIABLES
  page,         \* how far the page has come with its DOMContentLoaded handler
  current,      \* the global `socket': 0 for null, else a connection
  conn,         \* the state of each connection
  inbox,        \* what the server emitted on it and the page has not handled
  intentional,  \* intentionalDisconnect
  indicator,    \* the class of #connection-status
  loaded,       \* pages whose load woke the server, and it is awake since
  clicked       \* pages that reconnected by a click, and no idle since

clientVars == <<page, current, conn, inbox, intentional, indicator, loaded, clicked>>
vars == <<idleVars, clientVars>>

Conn == 1..2
PageState == {"away", "loading", "posted", "ready"}
ConnState == {"none", "connecting", "open", "closed"}
Message == {"connect", "idle", "awake"}
Indicator == {"blank", "connected", "idle", "disconnected"}

SocketTypeOK ==
  /\ IdleTypeOK
  /\ page \in [Client -> PageState]
  /\ current \in [Client -> 0..2]
  /\ conn \in [Client -> [Conn -> ConnState]]
  /\ inbox \in [Client -> [Conn -> Seq(Message)]]
  /\ intentional \in [Client -> BOOLEAN]
  /\ indicator \in [Client -> Indicator]
  /\ loaded \in SUBSET Client /\ clicked \in SUBSET Client

Init ==
  /\ IdleInit
  /\ page = [c \in Client |-> "away"]
  /\ current = [c \in Client |-> 0]
  /\ conn = [c \in Client |-> [k \in Conn |-> "none"]]
  /\ inbox = [c \in Client |-> [k \in Conn |-> <<>>]]
  /\ intentional = [c \in Client |-> FALSE]
  /\ indicator = [c \in Client |-> "blank"]
  /\ loaded = {} /\ clicked = {}

----------------------------------------------------------------------------
(* The server.                                                             *)

IdleStatus(idle) == IF idle THEN "idle" ELSE "awake"

QueueFree == \A c \in Client, k \in Conn : Len(inbox[c][k]) < QueueBound

\* io.emit('idleStatus'): to the connections that are open.
BroadcastIdle(msg) ==
  inbox' = [c \in Client |-> [k \in Conn |->
              IF conn[c][k] = "open" THEN Append(inbox[c][k], msg) ELSE inbox[c][k]]]

\* recordActivity(), with the callback that informs the dashboards.
Activity ==
  /\ QueueFree
  /\ RecordActivity
  /\ IF isIdle THEN BroadcastIdle("awake") ELSE UNCHANGED inbox

\* A load test request; it does not come from a dashboard.
LoadTestRequest ==
  /\ Activity
  /\ UNCHANGED <<page, current, conn, intentional, indicator, loaded, clicked>>

IdleCheckFires ==
  /\ QueueFree
  /\ CheckIdle
  /\ IF isIdle' THEN BroadcastIdle("idle") /\ loaded' = {} /\ clicked' = {}
     ELSE UNCHANGED <<inbox, loaded, clicked>>
  /\ UNCHANGED <<page, current, conn, intentional, indicator>>

AcceptSilently(c, k) ==                 \* mutant: the status is not sent at once
  /\ conn[c][k] = "connecting"
  /\ conn' = [conn EXCEPT ![c][k] = "open"]
  /\ inbox' = [inbox EXCEPT ![c][k] = <<"connect">>]
  /\ UNCHANGED <<idleVars, page, current, intentional, indicator, loaded, clicked>>

\* The 'connection' handler: the current status follows the handshake.
Accept(c, k) ==
  /\ conn[c][k] = "connecting"
  /\ conn' = [conn EXCEPT ![c][k] = "open"]
  /\ inbox' = [inbox EXCEPT ![c][k] = <<"connect", IdleStatus(isIdle)>>]
  /\ UNCHANGED <<idleVars, page, current, intentional, indicator, loaded, clicked>>

----------------------------------------------------------------------------
(* The page.                                                               *)

\* The page is loaded or reloaded: nothing of its state survives.
Load(c) ==
  /\ page' = [page EXCEPT ![c] = "loading"]
  /\ current' = [current EXCEPT ![c] = 0]
  /\ conn' = [conn EXCEPT ![c] = [k \in Conn |-> "none"]]
  /\ inbox' = [inbox EXCEPT ![c] = [k \in Conn |-> <<>>]]
  /\ intentional' = [intentional EXCEPT ![c] = FALSE]
  /\ indicator' = [indicator EXCEPT ![c] = "blank"]
  /\ loaded' = loaded \ {c} /\ clicked' = clicked \ {c}
  /\ UNCHANGED idleVars

PostAfterConnect(c) ==                  \* mutant: the socket does not wait for it
  /\ page[c] = "ready" /\ c \notin loaded
  /\ Activity
  /\ loaded' = loaded \cup {c}
  /\ UNCHANGED <<page, current, conn, intentional, indicator, clicked>>

\* POST /api/health/activity is handled by the server.
PostActivity(c) ==
  /\ page[c] = "loading"
  /\ Activity
  /\ page' = [page EXCEPT ![c] = "posted"]
  /\ loaded' = loaded \cup {c}
  /\ UNCHANGED <<current, conn, intentional, indicator, clicked>>

\* io(): a new connection, which the global `socket' names from now on.
InitSocket(c) ==
  /\ current' = [current EXCEPT ![c] = current[c] + 1]
  /\ conn' = [conn EXCEPT ![c][current[c] + 1] = "connecting"]

\* The handler goes on once the POST is answered, or has failed.
PageReady(c) ==
  /\ page[c] \in {"loading", "posted"}
  /\ page' = [page EXCEPT ![c] = "ready"]
  /\ InitSocket(c)
  /\ UNCHANGED <<idleVars, inbox, intentional, indicator, loaded, clicked>>

\* ensureWebSocket() at the top of a simulation trigger.  The request of the
\* simulation itself records no activity.
Click(c) ==
  /\ page[c] # "away"
  /\ intentional' = [intentional EXCEPT ![c] = FALSE]
  /\ clicked' = clicked \cup {c}
  /\ IF current[c] = 0
     THEN InitSocket(c)
     ELSE /\ conn[c][current[c]] \in {"connecting", "closed"}
          /\ conn' = [conn EXCEPT ![c][current[c]] = "connecting"]
          /\ UNCHANGED current
  /\ UNCHANGED <<idleVars, page, inbox, indicator, loaded>>

\* 'connect'
OnConnect(c, k) ==
  /\ inbox[c][k] # <<>> /\ Head(inbox[c][k]) = "connect"
  /\ inbox' = [inbox EXCEPT ![c][k] = Tail(@)]
  /\ intentional' = [intentional EXCEPT ![c] = FALSE]
  /\ indicator' = [indicator EXCEPT ![c] = "connected"]
  /\ UNCHANGED <<idleVars, page, current, conn, loaded, clicked>>

\* 'idleStatus' with isIdle false
OnAwake(c, k) ==
  /\ inbox[c][k] # <<>> /\ Head(inbox[c][k]) = "awake"
  /\ inbox' = [inbox EXCEPT ![c][k] = Tail(@)]
  /\ indicator' = [indicator EXCEPT ![c] = "connected"]
  /\ UNCHANGED <<idleVars, page, current, conn, intentional, loaded, clicked>>

\* 'idleStatus' with isIdle true, on any connection: closeWebSocketForIdle()
\* closes the one that `socket' names.
OnIdle(c, k) ==
  /\ inbox[c][k] # <<>> /\ Head(inbox[c][k]) = "idle"
  /\ inbox' = [inbox EXCEPT ![c][k] = Tail(@), ![c][current[c]] = <<>>]
  /\ conn' = [conn EXCEPT ![c][current[c]] = "closed"]
  /\ intentional' = [intentional EXCEPT ![c] = TRUE]
  /\ indicator' = [indicator EXCEPT ![c] = "idle"]
  /\ UNCHANGED <<idleVars, page, current, loaded, clicked>>

LossAlwaysSilent(c, k) ==               \* mutant: the status is never updated
  /\ conn[c][k] = "open"
  /\ conn' = [conn EXCEPT ![c][k] = "connecting"]
  /\ inbox' = [inbox EXCEPT ![c][k] = <<>>]
  /\ UNCHANGED <<idleVars, page, current, intentional, indicator, loaded, clicked>>

\* The network fails: 'disconnect', and the manager reconnects by itself.
ConnectionLost(c, k) ==
  /\ conn[c][k] = "open"
  /\ conn' = [conn EXCEPT ![c][k] = "connecting"]
  /\ inbox' = [inbox EXCEPT ![c][k] = <<>>]
  /\ indicator' = IF intentional[c] THEN indicator
                  ELSE [indicator EXCEPT ![c] = "disconnected"]
  /\ UNCHANGED <<idleVars, page, current, intentional, loaded, clicked>>

\* 'reconnect_failed', after maxReconnectAttempts.
ReconnectFailed(c, k) ==
  /\ conn[c][k] = "connecting"
  /\ conn' = [conn EXCEPT ![c][k] = "closed"]
  /\ indicator' = IF intentional[c] THEN indicator
                  ELSE [indicator EXCEPT ![c] = "disconnected"]
  /\ UNCHANGED <<idleVars, page, current, inbox, intentional, loaded, clicked>>

----------------------------------------------------------------------------
TimePasses == IdleTick /\ UNCHANGED clientVars
WallClockSet == \E d \in {-1, 1} : AdjustWallClock(d) /\ UNCHANGED clientVars

Next ==
  \/ LoadTestRequest
  \/ IdleCheckFires
  \/ TimePasses
  \/ WallClockSet
  \/ \E c \in Client : Load(c) \/ PostActivity(c) \/ PageReady(c) \/ Click(c)
  \/ \E c \in Client, k \in Conn :
       \/ Accept(c, k)
       \/ OnConnect(c, k)
       \/ OnAwake(c, k)
       \/ OnIdle(c, k)
       \/ ConnectionLost(c, k)
       \/ ReconnectFailed(c, k)

\* Time passes, due timers fire, and what is in flight on a connection that
\* stays open arrives.
Fairness ==
  /\ WF_vars(TimePasses) /\ WF_vars(IdleCheckFires)
  /\ \A c \in Client, k \in Conn :
       WF_vars(OnConnect(c, k)) /\ WF_vars(OnAwake(c, k)) /\ WF_vars(OnIdle(c, k))

Spec == Init /\ [][Next]_vars /\ Fairness

----------------------------------------------------------------------------
(* Properties.                                                             *)

\* The server's idle flag as the last message on the way to a page tells it.
Announced(c, k) == inbox[c][k][Len(inbox[c][k])]

\* index.ts:143 and :182.  Connections and idle changes interleave, yet no page
\* is left with a stale status: the last message under way on a connection is
\* the server's state, and the connection of a page that has handled all of
\* them is open only if the server is awake.
PagesAgreeWithServer ==
  \A c \in Client, k \in Conn : conn[c][k] = "open" =>
    /\ inbox[c][k] = <<>> /\ isIdle => k # current[c]
    /\ inbox[c][k] # <<>> => Announced(c, k) = IdleStatus(isIdle)

\* A page that has not called initSocket twice shows "connected" exactly while
\* its connection is up, and shows a loss unless it closed the connection
\* itself: intentionalDisconnect never survives into a later connection.
OneSocket(c) == conn[c][2] = "none"
IndicatorHonest ==
  \A c \in Client : OneSocket(c) /\ inbox[c][1] = <<>> =>
    /\ indicator[c] = "connected" <=> conn[c][1] = "open"
    /\ indicator[c] = "idle" /\ ~intentional[c] => conn[c][1] = "connecting"

\* socket-client.js:260.  The page records its activity before it connects, so
\* that the status it gets is not one from before: a page with one connection
\* is closed for idleness only when the server went idle after that load.
LoadedPageStaysConnected ==
  [][\A c \in Client : c \in loaded /\ OneSocket(c) /\ page[c] = "ready"
       => ~OnIdle(c, 1)]_vars

\* socket-client.js:243, "clicking a button while idle automatically
\* re-establishes the connection": a connection a click brought back is not
\* closed for idleness unless the server went idle after the click.
\* It does not hold (README.md, Findings).
ClickReconnects ==
  [][\A c \in Client : c \in clicked /\ OneSocket(c) => ~OnIdle(c, 1)]_vars

\* socket-client.js:7, "All real-time data flows through this single
\* connection": a page never has two.
\* It does not hold (README.md, Findings).
SingleConnection ==
  \A c \in Client : ~(conn[c][1] = "open" /\ conn[c][2] = "open")
=============================================================================
