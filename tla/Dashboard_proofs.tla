--------------------------- MODULE Dashboard_proofs ---------------------------
(***************************************************************************)
(* Theorems about the dashboard page: its connections (DashboardSocket),   *)
(* for any number of pages, any idle period and any number of status       *)
(* messages in flight; the slow requests it sends (SlowRequestDriver); and *)
(* its lists of active simulations (ActiveList).  The three components     *)
(* share no state; each part below has an inductive invariant of its own.  *)
(***************************************************************************)
EXTENDS DashboardSocket, SlowRequestDriver, ActiveList, IdleTimeout_proofs,
        SequenceTheorems, FiniteSetTheorems

\* A connection exists when initSocket made it, and carries messages only
\* while it is open.
Connections ==
  \A c \in Client :
    /\ page[c] # "ready" => current[c] <= 1
    /\ page[c] = "ready" => current[c] >= 1
    /\ \A k \in Conn :
         /\ k <= current[c] => conn[c][k] # "none"
         /\ conn[c][k] # "none" => k <= current[c]
         /\ conn[c][k] # "open" => inbox[c][k] = <<>>

IInv ==
  /\ IdleInv
  /\ SocketTypeOK
  /\ Connections
  /\ PagesAgreeWithServer

----------------------------------------------------------------------------
(* Sequences of messages.                                                  *)

LEMMA LastOfAppend ==
  ASSUME NEW S, NEW q \in Seq(S), NEW m \in S
  PROVE  /\ Append(q, m) \in Seq(S)
         /\ Append(q, m) # <<>>
         /\ Append(q, m)[Len(Append(q, m))] = m
OBVIOUS

\* Handling the head leaves the last message alone, unless it was the last.
LEMMA LastOfTail ==
  ASSUME NEW S, NEW q \in Seq(S), q # <<>>
  PROVE  /\ Tail(q) \in Seq(S)
         /\ Tail(q) # <<>> => Tail(q)[Len(Tail(q))] = q[Len(q)]
         /\ Tail(q) = <<>> => q[Len(q)] = Head(q)
<1>1. Len(q) \in Nat \ {0} /\ Tail(q) \in Seq(S) /\ Len(Tail(q)) = Len(q) - 1
  BY EmptySeq, HeadTailProperties
<1>2. ASSUME Tail(q) # <<>> PROVE Tail(q)[Len(Tail(q))] = q[Len(q)]
  <2>1. Len(Tail(q)) \in 1..Len(Tail(q))
    BY <1>1, <1>2, EmptySeq
  <2> QED
    BY <1>1, <2>1, HeadTailProperties
<1>3. ASSUME Tail(q) = <<>> PROVE q[Len(q)] = Head(q)
  <2>1. Len(Tail(q)) = 0
    BY <1>3, EmptySeq
  <2>2. Len(q) = 1
    <3>1. \A n \in Nat : n - 1 = 0 => n = 1
      OBVIOUS
    <3> QED
      BY <1>1, <2>1, <3>1, Zenon
  <2> QED
    BY <2>2
<1> QED BY <1>1, <1>2, <1>3

LEMMA HandshakeStatus ==
  ASSUME NEW m \in Message
  PROVE  LET q == <<"connect", m>>
         IN  q \in Seq(Message) /\ q # <<>> /\ q[Len(q)] = m
BY DEF Message

LEMMA StatusDiffers ==
  /\ \A b : IdleStatus(b) \in Message /\ IdleStatus(b) # "connect"
  /\ isIdle => IdleStatus(isIdle) = "idle"
  /\ ~isIdle => IdleStatus(isIdle) = "awake"
BY DEF IdleStatus, Message

----------------------------------------------------------------------------
(* One lemma per step.                                                     *)

LEMMA InitIInv == Init => IInv
<1> SUFFICES ASSUME Init PROVE IInv
  OBVIOUS
<1>1. IdleInv /\ IdleTypeOK
  BY IdleInitInv DEF Init, IdleInv
<1>2. SocketTypeOK
  BY <1>1 DEF Init, SocketTypeOK, PageState, ConnState, Conn, Message, Indicator
<1> QED
  BY <1>1, <1>2 DEF Init, IInv, Connections, PagesAgreeWithServer, Conn

\* A recorded activity leaves every open connection with "awake" as its last
\* message, or with none.
LEMMA ActivityStep ==
  ASSUME IInv, Activity
  PROVE  /\ IdleInv' /\ IdleTypeOK'
         /\ ~isIdle'
         /\ inbox' \in [Client -> [Conn -> Seq(Message)]]
         /\ \A c \in Client, k \in Conn :
              /\ conn[c][k] # "open" => inbox'[c][k] = inbox[c][k]
              /\ conn[c][k] = "open" /\ inbox'[c][k] # <<>>
                   => inbox'[c][k][Len(inbox'[c][k])] = "awake"
<1>1. ~isIdle' /\ isIdle' \in BOOLEAN
  BY DEF Activity, RecordActivity
<1>2. IdleInv' /\ IdleTypeOK'
  BY ActivityKeepsInv DEF Activity, IInv, IdleInv
<1>3. CASE isIdle
  <2>1. inbox' = [c \in Client |-> [k \in Conn |->
                   IF conn[c][k] = "open" THEN Append(inbox[c][k], "awake")
                   ELSE inbox[c][k]]]
    BY <1>3 DEF Activity, BroadcastIdle
  <2>2. \A c \in Client, k \in Conn :
          /\ inbox[c][k] \in Seq(Message)
          /\ Append(inbox[c][k], "awake") \in Seq(Message)
          /\ Append(inbox[c][k], "awake")[Len(Append(inbox[c][k], "awake"))] = "awake"
    BY LastOfAppend DEF IInv, SocketTypeOK, Message
  <2> QED BY <1>1, <1>2, <2>1, <2>2
<1>4. CASE ~isIdle
  <2>1. inbox' = inbox
    BY <1>4 DEF Activity
  <2> QED
    BY <1>1, <1>2, <1>4, <2>1, StatusDiffers
    DEF IInv, SocketTypeOK, PagesAgreeWithServer, Announced
<1> QED BY <1>3, <1>4

LEMMA LoadTestStep == IInv /\ LoadTestRequest => IInv'
<1> SUFFICES ASSUME IInv, LoadTestRequest PROVE IInv'
  OBVIOUS
<1>1. Activity
  BY DEF LoadTestRequest
<1>2. IdleInv' /\ SocketTypeOK'
  BY <1>1, ActivityStep DEF LoadTestRequest, IInv, SocketTypeOK
<1>3. Connections'
  BY <1>1, ActivityStep DEF LoadTestRequest, IInv, SocketTypeOK, Connections
<1>4. PagesAgreeWithServer'
  BY <1>1, ActivityStep, StatusDiffers
  DEF LoadTestRequest, PagesAgreeWithServer, Announced, IdleStatus
<1> QED BY <1>2, <1>3, <1>4 DEF IInv

LEMMA PostStep == ASSUME IInv, NEW c \in Client, PostActivity(c) PROVE IInv'
<1>1. Activity
  BY DEF PostActivity
<1>2. IdleInv' /\ SocketTypeOK'
  BY <1>1, ActivityStep DEF PostActivity, IInv, SocketTypeOK, PageState
<1>3. Connections'
  BY <1>1, ActivityStep DEF PostActivity, IInv, SocketTypeOK, Connections
<1>4. PagesAgreeWithServer'
  BY <1>1, ActivityStep, StatusDiffers
  DEF PostActivity, PagesAgreeWithServer, Announced, IdleStatus
<1> QED BY <1>2, <1>3, <1>4 DEF IInv

LEMMA IdleCheckStep == IInv /\ IdleCheckFires => IInv'
<1> SUFFICES ASSUME IInv, IdleCheckFires PROVE IInv'
  OBVIOUS
<1> USE DEF IInv
<1>1. IdleInv' /\ IdleTypeOK'
  BY CheckKeepsInv DEF IdleCheckFires, IdleInv
<1>2. ~isIdle
  BY DEF IdleCheckFires, CheckIdle, IdleInv, AlwaysWatching, Unarmed
<1>3. CASE elapsed >= IdlePeriod
  <2>1. isIdle' /\ isIdle' = TRUE
    BY <1>3 DEF IdleCheckFires, CheckIdle
  <2>2. inbox' = [c \in Client |-> [k \in Conn |->
                   IF conn[c][k] = "open" THEN Append(inbox[c][k], "idle")
                   ELSE inbox[c][k]]]
    BY <2>1 DEF IdleCheckFires, BroadcastIdle
  <2>3. \A c \in Client, k \in Conn :
          /\ inbox[c][k] \in Seq(Message)
          /\ Append(inbox[c][k], "idle") \in Seq(Message)
          /\ Append(inbox[c][k], "idle") # <<>>
          /\ Append(inbox[c][k], "idle")[Len(Append(inbox[c][k], "idle"))] = "idle"
    <3>1. \A c \in Client, k \in Conn : inbox[c][k] \in Seq(Message)
      BY DEF SocketTypeOK
    <3> QED
      BY <3>1, LastOfAppend DEF Message
  <2>4. SocketTypeOK'
    <3>1. inbox' \in [Client -> [Conn -> Seq(Message)]]
      BY <2>2, <2>3
    <3>2. loaded' = {} /\ clicked' = {}
      BY <2>1 DEF IdleCheckFires
    <3> QED
      BY <1>1, <3>1, <3>2 DEF IdleCheckFires, SocketTypeOK
  <2>5. Connections'
    BY <2>2 DEF IdleCheckFires, Connections, SocketTypeOK
  <2>6. IdleStatus(isIdle)' = "idle"
    BY <2>1 DEF IdleStatus
  <2>7. PagesAgreeWithServer'
    BY <2>2, <2>3, <2>6 DEF IdleCheckFires, PagesAgreeWithServer, Announced
  <2> QED BY <1>1, <2>4, <2>5, <2>7
<1>4. CASE ~(elapsed >= IdlePeriod)
  <2>1. /\ ~isIdle' /\ isIdle' = isIdle
        /\ UNCHANGED <<page, current, conn, inbox, intentional, indicator, loaded, clicked>>
    BY <1>2, <1>4 DEF IdleCheckFires, CheckIdle
  <2> QED
    BY <1>1, <2>1
    DEF SocketTypeOK, Connections, PagesAgreeWithServer, Announced
<1> QED BY <1>3, <1>4

\* A step of the service that no callback follows.
LEMMA ClockStep ==
  ASSUME IInv, TimePasses \/ WallClockSet
  PROVE  IInv'
<1>1. IdleInv' /\ IdleTypeOK' /\ isIdle' = isIdle
  BY TickKeepsInv, AdjustKeepsInv
  DEF TimePasses, WallClockSet, IdleTick, AdjustWallClock, IInv, IdleInv
<1>2. UNCHANGED clientVars
  BY DEF TimePasses, WallClockSet
<1> QED
  BY <1>1, <1>2
  DEF IInv, clientVars, SocketTypeOK, Connections, PagesAgreeWithServer, Announced

\* A page's own steps leave the service alone.
LEMMA PageStepKeepsIdleInv ==
  ASSUME IInv, UNCHANGED idleVars
  PROVE  IdleInv' /\ IdleTypeOK' /\ isIdle' = isIdle
BY DEF IInv, idleVars, IdleInv, IdleTypeOK, AlwaysWatching

LEMMA AcceptStep ==
  ASSUME IInv, NEW c \in Client, NEW k \in Conn, Accept(c, k)
  PROVE  IInv'
<1> USE DEF IInv
<1>1. IdleInv' /\ IdleTypeOK' /\ isIdle' = isIdle
  BY PageStepKeepsIdleInv DEF Accept
<1> DEFINE greeting == <<"connect", IdleStatus(isIdle)>>
<1>2. /\ greeting \in Seq(Message) /\ greeting # <<>>
      /\ greeting[Len(greeting)] = IdleStatus(isIdle)
  BY StatusDiffers, HandshakeStatus
<1> HIDE DEF greeting
<1>3. inbox' = [inbox EXCEPT ![c][k] = greeting]
  BY DEF Accept, greeting
<1>4. SocketTypeOK'
  BY <1>1, <1>2, <1>3 DEF Accept, SocketTypeOK, ConnState
<1>5. Connections'
  BY <1>2, <1>3 DEF Accept, SocketTypeOK, Connections
<1>6. PagesAgreeWithServer'
  BY <1>1, <1>2, <1>3
  DEF Accept, SocketTypeOK, PagesAgreeWithServer, Announced, IdleStatus
<1> QED BY <1>1, <1>4, <1>5, <1>6

LEMMA LoadStep == ASSUME IInv, NEW c \in Client, Load(c) PROVE IInv'
<1> USE DEF IInv
<1>1. IdleInv' /\ IdleTypeOK' /\ isIdle' = isIdle
  BY PageStepKeepsIdleInv DEF Load
<1>2. SocketTypeOK'
  <2>1. inbox' \in [Client -> [Conn -> Seq(Message)]]
    BY EmptySeq DEF Load, SocketTypeOK
  <2> QED
    BY <1>1, <2>1 DEF Load, SocketTypeOK, PageState, ConnState, Indicator
<1>3. Connections'
  BY DEF Load, SocketTypeOK, Connections, Conn
<1>4. PagesAgreeWithServer'
  BY <1>1 DEF Load, SocketTypeOK, PagesAgreeWithServer, Announced, IdleStatus
<1> QED BY <1>1, <1>2, <1>3, <1>4

\* initSocket: `socket' moves on to a connection that did not exist, so no
\* open connection becomes the current one.
SocketAdded(c) ==
  /\ current' \in [Client -> 0..2]
  /\ conn' \in [Client -> [Conn -> ConnState]]
  /\ current'[c] >= 1
  /\ \A d \in Client \ {c} : current'[d] = current[d]
  /\ \A d \in Client, k \in Conn :
       /\ k <= current'[d] => conn'[d][k] # "none"
       /\ conn'[d][k] # "none" => k <= current'[d]
       /\ conn'[d][k] = "open" => conn[d][k] = "open"
       /\ conn[d][k] = "open" => conn'[d][k] = "open"
       /\ conn[d][k] = "open" /\ k # current[d] => k # current'[d]

LEMMA InitSocketStep ==
  ASSUME SocketTypeOK, Connections, NEW c \in Client, current[c] <= 1, InitSocket(c)
  PROVE  SocketAdded(c) /\ current'[c] = current[c] + 1
<1>1. current[c] \in 0..1 /\ current[c] + 1 \in Conn
  BY DEF SocketTypeOK, Conn
<1>2. conn[c][current[c] + 1] = "none"
  BY <1>1 DEF Connections
<1>3. /\ current' \in [Client -> 0..2]
      /\ conn' \in [Client -> [Conn -> ConnState]]
      /\ current'[c] = current[c] + 1
      /\ \A d \in Client \ {c} : current'[d] = current[d]
  BY <1>1 DEF InitSocket, SocketTypeOK, ConnState
<1>4. \A d \in Client, k \in Conn :
        conn'[d][k] = IF d = c /\ k = current[c] + 1 THEN "connecting" ELSE conn[d][k]
  BY <1>1 DEF InitSocket, SocketTypeOK
<1> QED
  BY <1>1, <1>2, <1>3, <1>4 DEF SocketAdded, Connections, SocketTypeOK, Conn

\* In both places where it is called.
LEMMA SocketAddedKeeps ==
  ASSUME IInv, NEW c \in Client, SocketAdded(c), IdleInv', isIdle' = isIdle,
         UNCHANGED inbox,
         page'[c] # "ready" => current'[c] <= 1,
         \A d \in Client \ {c} : page'[d] = page[d]
  PROVE  Connections' /\ PagesAgreeWithServer'
<1>1. \A d \in Client :
        /\ page'[d] # "ready" => current'[d] <= 1
        /\ page'[d] = "ready" => current'[d] >= 1
  BY DEF SocketAdded, IInv, Connections
<1>2. \A d \in Client, k \in Conn :
        /\ k <= current'[d] => conn'[d][k] # "none"
        /\ conn'[d][k] # "none" => k <= current'[d]
        /\ conn'[d][k] # "open" => inbox'[d][k] = <<>>
  BY DEF SocketAdded, IInv, Connections
<1>3. Connections'
  BY <1>1, <1>2 DEF Connections
<1>4. PagesAgreeWithServer'
  BY DEF SocketAdded, IInv, PagesAgreeWithServer, Announced, IdleStatus
<1> QED BY <1>3, <1>4

LEMMA PageReadyStep == ASSUME IInv, NEW c \in Client, PageReady(c) PROVE IInv'
<1>1. IdleInv' /\ IdleTypeOK' /\ isIdle' = isIdle
  BY PageStepKeepsIdleInv DEF PageReady
<1>2. SocketAdded(c)
  BY InitSocketStep DEF PageReady, IInv, Connections
<1>3. SocketTypeOK'
  BY <1>1, <1>2 DEF PageReady, SocketAdded, IInv, SocketTypeOK, PageState
<1>4. page'[c] = "ready" /\ \A d \in Client \ {c} : page'[d] = page[d]
  BY DEF PageReady, IInv, SocketTypeOK
<1>5. Connections' /\ PagesAgreeWithServer'
  BY <1>1, <1>2, <1>4, SocketAddedKeeps DEF PageReady
<1> QED BY <1>1, <1>3, <1>5 DEF IInv

LEMMA ClickStep == ASSUME IInv, NEW c \in Client, Click(c) PROVE IInv'
<1>1. IdleInv' /\ IdleTypeOK' /\ isIdle' = isIdle
  BY PageStepKeepsIdleInv DEF Click
<1> USE DEF IInv
<1>2. CASE current[c] = 0
  <2>1. SocketAdded(c) /\ current'[c] = 1
    BY <1>2, InitSocketStep DEF Click
  <2>2. SocketTypeOK'
    BY <1>1, <2>1 DEF Click, SocketAdded, SocketTypeOK
  <2>3. Connections' /\ PagesAgreeWithServer'
    BY <1>1, <2>1, SocketAddedKeeps DEF Click
  <2> QED BY <1>1, <2>2, <2>3
<1>3. CASE current[c] # 0
  <2>1. /\ current[c] \in Conn /\ conn[c][current[c]] \in {"connecting", "closed"}
        /\ conn' = [conn EXCEPT ![c][current[c]] = "connecting"]
        /\ UNCHANGED current
    BY <1>3 DEF Click, SocketTypeOK, Conn
  <2>2. SocketTypeOK'
    BY <1>1, <2>1 DEF Click, SocketTypeOK, ConnState
  <2>3. \A d \in Client, k \in Conn :
          \/ conn'[d][k] = conn[d][k]
          \/ conn[d][k] = "closed" /\ conn'[d][k] = "connecting"
    <3>1. \A d \in Client, k \in Conn :
            conn'[d][k] = IF d = c /\ k = current[c] THEN "connecting" ELSE conn[d][k]
      BY <2>1 DEF SocketTypeOK
    <3> QED BY <2>1, <3>1
  <2>4. Connections'
    BY <2>1, <2>3 DEF Click, Connections
  <2>5. PagesAgreeWithServer'
    BY <1>1, <2>1, <2>3 DEF Click, PagesAgreeWithServer, Announced, IdleStatus
  <2> QED BY <1>1, <2>2, <2>4, <2>5
<1> QED BY <1>2, <1>3

\* A page handles a message that keeps the connection: what remains in the
\* inbox ends as before, and if nothing does, that message was the last.
LEMMA OnStatusStep ==
  ASSUME IInv, NEW c \in Client, NEW k \in Conn, OnConnect(c, k) \/ OnAwake(c, k)
  PROVE  IInv'
<1> USE DEF IInv
<1>1. IdleInv' /\ IdleTypeOK' /\ isIdle' = isIdle
  BY PageStepKeepsIdleInv DEF OnConnect, OnAwake
<1> DEFINE q == inbox[c][k]
<1>2. q \in Seq(Message) /\ q # <<>> /\ Head(q) \in {"connect", "awake"}
  BY DEF OnConnect, OnAwake, SocketTypeOK
<1>3. /\ Tail(q) \in Seq(Message)
      /\ Tail(q) # <<>> => Tail(q)[Len(Tail(q))] = q[Len(q)]
      /\ Tail(q) = <<>> => q[Len(q)] = Head(q)
  BY <1>2, LastOfTail
<1>4. conn[c][k] = "open" /\ q[Len(q)] = IdleStatus(isIdle)
  BY <1>2 DEF Connections, PagesAgreeWithServer, Announced
<1>5. Tail(q) = <<>> => ~isIdle
  BY <1>2, <1>3, <1>4, StatusDiffers
<1>6. /\ inbox' = [inbox EXCEPT ![c][k] = Tail(q)]
      /\ UNCHANGED <<page, current, conn, loaded, clicked>>
      /\ intentional' \in [Client -> BOOLEAN] /\ indicator' \in [Client -> Indicator]
  BY DEF OnConnect, OnAwake, SocketTypeOK, Indicator
<1> HIDE DEF q
<1>7. SocketTypeOK'
  BY <1>1, <1>3, <1>6 DEF SocketTypeOK
<1>8. \A d \in Client, j \in Conn :
        inbox'[d][j] = IF d = c /\ j = k THEN Tail(q) ELSE inbox[d][j]
  BY <1>6 DEF SocketTypeOK
<1>9. Connections'
  BY <1>4, <1>6, <1>8 DEF Connections
<1>10. PagesAgreeWithServer'
  BY <1>1, <1>3, <1>4, <1>5, <1>6, <1>8
  DEF PagesAgreeWithServer, Announced, IdleStatus
<1> QED BY <1>1, <1>7, <1>9, <1>10

\* closeWebSocketForIdle() may close another connection than the one the
\* message came on; the one that goes on without a message is not current.
LEMMA OnIdleStep ==
  ASSUME IInv, NEW c \in Client, NEW k \in Conn, OnIdle(c, k)
  PROVE  IInv'
<1> USE DEF IInv
<1>1. IdleInv' /\ IdleTypeOK' /\ isIdle' = isIdle
  BY PageStepKeepsIdleInv DEF OnIdle
<1> DEFINE q == inbox[c][k]
           cur == current[c]
<1>2. q \in Seq(Message) /\ q # <<>>
  BY DEF OnIdle, SocketTypeOK
<1>3. /\ Tail(q) \in Seq(Message)
      /\ Tail(q) # <<>> => Tail(q)[Len(Tail(q))] = q[Len(q)]
  BY <1>2, LastOfTail
<1>4. conn[c][k] = "open" /\ q[Len(q)] = IdleStatus(isIdle)
  BY <1>2 DEF Connections, PagesAgreeWithServer, Announced
<1>5. cur \in Conn
  <2>1. k <= current[c]
    BY <1>4 DEF Connections
  <2>2. current[c] \in 0..2 /\ k \in 1..2
    BY DEF SocketTypeOK, Conn
  <2> QED BY <2>1, <2>2 DEF Conn
<1>6. /\ inbox' = [inbox EXCEPT ![c][k] = Tail(q), ![c][cur] = <<>>]
      /\ conn' = [conn EXCEPT ![c][cur] = "closed"]
      /\ UNCHANGED <<page, current, loaded, clicked>>
      /\ intentional' \in [Client -> BOOLEAN] /\ indicator' \in [Client -> Indicator]
  BY DEF OnIdle, SocketTypeOK, Indicator
<1>7. <<>> \in Seq(Message)
  OBVIOUS
<1> HIDE DEF q, cur
<1>8. inbox' \in [Client -> [Conn -> Seq(Message)]] /\ conn' \in [Client -> [Conn -> ConnState]]
  BY <1>3, <1>5, <1>6, <1>7 DEF SocketTypeOK, ConnState
<1>9. SocketTypeOK'
  BY <1>1, <1>6, <1>8 DEF SocketTypeOK
<1>10. \A d \in Client, j \in Conn :
         /\ inbox'[d][j] = IF d = c /\ j = cur THEN <<>>
                           ELSE IF d = c /\ j = k THEN Tail(q) ELSE inbox[d][j]
         /\ conn'[d][j] = IF d = c /\ j = cur THEN "closed" ELSE conn[d][j]
  BY <1>5, <1>6 DEF SocketTypeOK
<1>11. conn[c][cur] # "none"
  BY <1>5 DEF Connections, SocketTypeOK, Conn, cur
<1>12. Connections'
  <2>1. \A d \in Client, j \in Conn :
          /\ conn'[d][j] = "none" => conn[d][j] = "none"
          /\ conn[d][j] = "none" => conn'[d][j] = "none"
          /\ conn'[d][j] # "open" => inbox'[d][j] = <<>>
    BY <1>4, <1>10, <1>11 DEF Connections
  <2> QED
    BY <1>6, <2>1 DEF Connections
<1>13. ASSUME NEW d \in Client, NEW j \in Conn, conn'[d][j] = "open"
       PROVE  /\ inbox'[d][j] = <<>> /\ isIdle' => j # current'[d]
              /\ inbox'[d][j] # <<>> => inbox'[d][j][Len(inbox'[d][j])] = IdleStatus(isIdle)
  <2>1. conn[d][j] = "open" /\ ~(d = c /\ j = cur)
    BY <1>10, <1>13
  <2>2. CASE d = c /\ j = k
    <3>1. k # cur /\ inbox'[d][j] = Tail(q)
      BY <1>10, <2>1, <2>2
    <3>2. current'[d] = cur
      BY <1>6, <2>2 DEF cur
    <3> QED BY <1>3, <1>4, <2>2, <3>1, <3>2
  <2>3. CASE ~(d = c /\ j = k)
    <3>1. inbox'[d][j] = inbox[d][j] /\ current'[d] = current[d]
      BY <1>6, <1>10, <2>1, <2>3
    <3> QED BY <1>1, <2>1, <3>1 DEF PagesAgreeWithServer, Announced
  <2> QED BY <2>2, <2>3
<1>14. PagesAgreeWithServer'
  BY <1>1, <1>13 DEF PagesAgreeWithServer, Announced, IdleStatus
<1> QED BY <1>1, <1>9, <1>12, <1>14

LEMMA LossStep ==
  ASSUME IInv, NEW c \in Client, NEW k \in Conn,
         ConnectionLost(c, k) \/ ReconnectFailed(c, k)
  PROVE  IInv'
<1> USE DEF IInv
<1>1. IdleInv' /\ IdleTypeOK' /\ isIdle' = isIdle
  BY PageStepKeepsIdleInv DEF ConnectionLost, ReconnectFailed
<1>2. UNCHANGED <<page, current, intentional, loaded, clicked>>
  BY DEF ConnectionLost, ReconnectFailed
<1>3. conn'[c][k] \in {"connecting", "closed"} /\ inbox'[c][k] = <<>> /\ conn[c][k] # "none"
  BY DEF ConnectionLost, ReconnectFailed, SocketTypeOK, Connections
<1>4. \A d \in Client, j \in Conn :
        d # c \/ j # k => conn'[d][j] = conn[d][j] /\ inbox'[d][j] = inbox[d][j]
  BY DEF ConnectionLost, ReconnectFailed, SocketTypeOK
<1>5. /\ conn' \in [Client -> [Conn -> ConnState]]
      /\ inbox' \in [Client -> [Conn -> Seq(Message)]]
      /\ indicator' \in [Client -> Indicator]
  <2>1. <<>> \in Seq(Message)
    OBVIOUS
  <2>2. CASE ConnectionLost(c, k)
    BY <2>1, <2>2 DEF ConnectionLost, SocketTypeOK, ConnState, Indicator
  <2>3. CASE ReconnectFailed(c, k)
    BY <2>3 DEF ReconnectFailed, SocketTypeOK, ConnState, Indicator
  <2> QED BY <2>2, <2>3
<1>6. SocketTypeOK'
  BY <1>1, <1>2, <1>5 DEF SocketTypeOK
<1>7. Connections'
  BY <1>2, <1>3, <1>4 DEF Connections
<1>8. PagesAgreeWithServer'
  BY <1>1, <1>2, <1>3, <1>4 DEF PagesAgreeWithServer, Announced, IdleStatus
<1> QED BY <1>1, <1>6, <1>7, <1>8

LEMMA StepKeepsIInv == IInv /\ [Next]_vars => IInv'
<1> SUFFICES ASSUME IInv, [Next]_vars PROVE IInv'
  OBVIOUS
<1>1. CASE UNCHANGED vars
  <2>1. UNCHANGED idleVars /\ UNCHANGED clientVars
    BY <1>1 DEF vars
  <2>2. IdleInv' /\ IdleTypeOK' /\ isIdle' = isIdle
    BY <2>1, PageStepKeepsIdleInv
  <2> QED
    BY <2>1, <2>2
    DEF IInv, clientVars, SocketTypeOK, Connections, PagesAgreeWithServer, Announced, IdleStatus
<1>2. CASE LoadTestRequest \/ IdleCheckFires \/ TimePasses \/ WallClockSet
  BY <1>2, LoadTestStep, IdleCheckStep, ClockStep
<1>3. ASSUME NEW c \in Client, Load(c) \/ PostActivity(c) \/ PageReady(c) \/ Click(c)
      PROVE  IInv'
  BY <1>3, LoadStep, PostStep, PageReadyStep, ClickStep
<1>4. ASSUME NEW c \in Client, NEW k \in Conn,
             \/ Accept(c, k) \/ OnConnect(c, k) \/ OnAwake(c, k) \/ OnIdle(c, k)
             \/ ConnectionLost(c, k) \/ ReconnectFailed(c, k)
      PROVE  IInv'
  BY <1>4, AcceptStep, OnStatusStep, OnIdleStep, LossStep
<1> QED
  BY <1>1, <1>2, <1>3, <1>4 DEF Next

LEMMA IInvAlways == Spec => []IInv
BY InitIInv, StepKeepsIInv, PTL DEF Spec

\* Every value stays within its type.
THEOREM TypeCorrect == Spec => []SocketTypeOK
BY IInvAlways, PTL DEF IInv

\* No page keeps a stale idle status: connections, disconnections and idle
\* changes may interleave in any order, on either of a page's connections.
THEOREM PagesAgree == Spec => []PagesAgreeWithServer
BY IInvAlways, PTL DEF IInv

\* The process, composed with its dashboards, still goes idle in time.
THEOREM ServerIdlesInTime == Spec => []IdleWithinTwoPeriods
<1>1. IInv => IdleWithinTwoPeriods
  BY IdleInvImplies DEF IInv
<1> QED BY <1>1, IInvAlways, PTL

\* What the dashboards and the load test do to the idle timeout is one of its own
\* steps, or nothing.
LEMMA IdleServiceStep == [Next]_vars => [IdleNext]_idleVars
<1> SUFFICES ASSUME [Next]_vars PROVE [IdleNext]_idleVars
  OBVIOUS
<1>1. CASE UNCHANGED vars
  BY <1>1 DEF vars
<1>2. CASE LoadTestRequest \/ IdleCheckFires \/ TimePasses \/ WallClockSet
  BY <1>2
  DEF LoadTestRequest, Activity, IdleCheckFires, TimePasses, WallClockSet, IdleNext
<1>3. ASSUME NEW c \in Client, Load(c) \/ PostActivity(c) \/ PageReady(c) \/ Click(c)
      PROVE  [IdleNext]_idleVars
  BY <1>3 DEF Load, PostActivity, Activity, PageReady, Click, IdleNext
<1>4. ASSUME NEW c \in Client, NEW k \in Conn,
             \/ Accept(c, k) \/ OnConnect(c, k) \/ OnAwake(c, k) \/ OnIdle(c, k)
             \/ ConnectionLost(c, k) \/ ReconnectFailed(c, k)
      PROVE  [IdleNext]_idleVars
  BY <1>4 DEF Accept, OnConnect, OnAwake, OnIdle, ConnectionLost, ReconnectFailed
<1> QED
  BY <1>1, <1>2, <1>3, <1>4 DEF Next

\* Seen from the server, the dashboards are clients of the idle timeout like any
\* other: the composition implements the service alone.
THEOREM ServerIsIdleService == Spec => IdleSpec
<1>1. Init => IdleInit
  BY DEF Init
<1> QED BY <1>1, IdleServiceStep, PTL DEF Spec, IdleSpec

\* With pages, clicks and clocks around it the server is never idle too early.
THEOREM ServerIdlesNotEarly == Spec => NeverIdleEarly
BY ServerIsIdleService, IdleIsNotEarly

----------------------------------------------------------------------------
(* The handshake: what a page with one connection shows.                   *)

\* With the "connect" of its handshake still to come, a page may show anything
\* but a state it closed the connection in; from then on it shows "connected".
HandshakeTracked(c) ==
  OneSocket(c) =>
    /\ conn[c][1] = "none" => indicator[c] = "blank"
    /\ intentional[c] => conn[c][1] = "closed"
    /\ conn[c][1] # "open" => indicator[c] # "connected"
    /\ conn[c][1] = "open" /\ (inbox[c][1] = <<>> \/ Head(inbox[c][1]) # "connect")
         => indicator[c] = "connected"
    /\ conn[c][1] = "closed" /\ indicator[c] = "idle" => intentional[c]

NoneIdle(q) == \A i \in 1..Len(q) : q[i] # "idle"

\* A page whose load woke the server hears of no idleness from before it.
AwakeSinceLoad(c) ==
  c \in loaded =>
    /\ ~isIdle
    /\ OneSocket(c) /\ page[c] = "ready" => NoneIdle(inbox[c][1])

HInv == \A c \in Client : HandshakeTracked(c) /\ AwakeSinceLoad(c)

LEMMA AppendStatus ==
  ASSUME NEW q \in Seq(Message), NEW m \in Message
  PROVE  /\ Append(q, m) # <<>>
         /\ Head(Append(q, m)) = IF q = <<>> THEN m ELSE Head(q)
         /\ NoneIdle(q) /\ m # "idle" => NoneIdle(Append(q, m))
<1>1. /\ Append(q, m) \in Seq(Message) /\ Append(q, m) # <<>>
      /\ Len(Append(q, m)) = Len(q) + 1 /\ Len(q) \in Nat
      /\ \A i \in 1..Len(q) : Append(q, m)[i] = q[i]
      /\ Append(q, m)[Len(q) + 1] = m
  BY AppendProperties
<1>2. Head(Append(q, m)) = Append(q, m)[1]
  BY <1>1, HeadTailProperties
<1>3. q = <<>> \/ (Len(q) >= 1 /\ Head(q) = q[1])
  BY <1>1, HeadTailProperties, EmptySeq
<1>4. q = <<>> => Len(q) = 0
  OBVIOUS
<1>5. Head(Append(q, m)) = IF q = <<>> THEN m ELSE Head(q)
  BY <1>1, <1>2, <1>3, <1>4
<1>6. NoneIdle(q) /\ m # "idle" => NoneIdle(Append(q, m))
  BY <1>1 DEF NoneIdle
<1> QED BY <1>1, <1>5, <1>6

LEMMA TailNoneIdle ==
  ASSUME NEW q \in Seq(Message), q # <<>>, NoneIdle(q)
  PROVE  NoneIdle(Tail(q))
BY HeadTailProperties DEF NoneIdle

\* A page none of whose state changes, save that a status joins what is under
\* way to it.
LEMMA BystanderKeeps ==
  ASSUME IInv, NEW c \in Client, HandshakeTracked(c),
         conn'[c] = conn[c], intentional'[c] = intentional[c],
         indicator'[c] = indicator[c],
         \/ inbox'[c][1] = inbox[c][1]
         \/ \E m \in {"idle", "awake"} : inbox'[c][1] = Append(inbox[c][1], m)
  PROVE  HandshakeTracked(c)'
<1>1. inbox[c][1] \in Seq(Message)
  BY DEF IInv, SocketTypeOK, Conn
<1>2. CASE inbox'[c][1] = inbox[c][1]
  BY <1>2 DEF HandshakeTracked, OneSocket
<1>3. ASSUME NEW m \in {"idle", "awake"}, inbox'[c][1] = Append(inbox[c][1], m)
      PROVE  HandshakeTracked(c)'
  <2>1. /\ inbox'[c][1] # <<>>
        /\ Head(inbox'[c][1]) = IF inbox[c][1] = <<>> THEN m ELSE Head(inbox[c][1])
    BY <1>1, <1>3, AppendStatus DEF Message
  <2> QED BY <2>1 DEF HandshakeTracked, OneSocket
<1> QED BY <1>2, <1>3

LEMMA BroadcastReaches ==
  ASSUME IInv, NEW m \in {"idle", "awake"}, BroadcastIdle(m), NEW c \in Client
  PROVE  \/ inbox'[c][1] = inbox[c][1]
         \/ inbox'[c][1] = Append(inbox[c][1], m)
BY DEF BroadcastIdle, IInv, SocketTypeOK, Conn

\* An activity tells every page that is connected "awake", or nothing.
LEMMA ActivityHInv ==
  ASSUME IInv, HInv, Activity, NEW c \in Client,
         conn'[c] = conn[c], intentional'[c] = intentional[c],
         indicator'[c] = indicator[c], page'[c] = page[c] \/ page'[c] # "ready",
         c \in loaded' => c \in loaded \/ page'[c] # "ready"
  PROVE  HandshakeTracked(c)' /\ AwakeSinceLoad(c)'
<1>1. \/ inbox'[c][1] = inbox[c][1]
      \/ inbox'[c][1] = Append(inbox[c][1], "awake")
  BY BroadcastReaches DEF Activity
<1>2. inbox[c][1] \in Seq(Message)
  BY DEF IInv, SocketTypeOK, Conn
<1>3. HandshakeTracked(c)'
  BY <1>1, BystanderKeeps DEF HInv
<1>4. NoneIdle(inbox[c][1]) => NoneIdle(inbox'[c][1])
  BY <1>1, <1>2, AppendStatus DEF Message
<1>5. ~isIdle'
  BY ActivityStep
<1>6. AwakeSinceLoad(c)'
  BY <1>4, <1>5 DEF HInv, AwakeSinceLoad, OneSocket
<1> QED BY <1>3, <1>6

LEMMA ServerHInv ==
  ASSUME IInv, HInv, LoadTestRequest \/ IdleCheckFires \/ TimePasses \/ WallClockSet,
         NEW c \in Client
  PROVE  HandshakeTracked(c)' /\ AwakeSinceLoad(c)'
<1>1. UNCHANGED <<page, conn, intentional, indicator>>
  BY DEF LoadTestRequest, IdleCheckFires, TimePasses, WallClockSet, clientVars
<1>2. CASE LoadTestRequest
  BY <1>1, <1>2, ActivityHInv DEF LoadTestRequest
<1>3. CASE IdleCheckFires
  <2>1. CASE isIdle'
    <3>1. BroadcastIdle("idle") /\ loaded' = {}
      BY <1>3, <2>1 DEF IdleCheckFires
    <3>2. \/ inbox'[c][1] = inbox[c][1]
          \/ inbox'[c][1] = Append(inbox[c][1], "idle")
      BY <3>1, BroadcastReaches
    <3> QED BY <1>1, <3>1, <3>2, BystanderKeeps DEF HInv, AwakeSinceLoad
  <2>2. CASE ~isIdle'
    <3>1. UNCHANGED <<inbox, loaded>>
      BY <1>3, <2>2 DEF IdleCheckFires
    <3> QED BY <1>1, <2>2, <3>1, BystanderKeeps DEF HInv, AwakeSinceLoad, OneSocket
  <2> QED BY <2>1, <2>2
<1>4. CASE TimePasses \/ WallClockSet
  <2>1. isIdle' = isIdle /\ UNCHANGED <<inbox, loaded>>
    BY <1>4 DEF TimePasses, WallClockSet, IdleTick, AdjustWallClock, clientVars
  <2> QED BY <1>1, <2>1, BystanderKeeps DEF HInv, AwakeSinceLoad, OneSocket
<1> QED BY <1>2, <1>3, <1>4

\* The steps of one page, seen from the others.
LEMMA OthersHInv ==
  ASSUME IInv, HInv, NEW c \in Client, NEW d \in Client, c # d,
         \/ Load(c) \/ PageReady(c) \/ Click(c)
         \/ \E k \in Conn : \/ Accept(c, k) \/ OnConnect(c, k) \/ OnAwake(c, k)
                            \/ OnIdle(c, k) \/ ConnectionLost(c, k)
                            \/ ReconnectFailed(c, k)
  PROVE  HandshakeTracked(d)' /\ AwakeSinceLoad(d)'
<1> DEFINE Untouched ==
      /\ UNCHANGED idleVars
      /\ page'[d] = page[d] /\ conn'[d] = conn[d] /\ inbox'[d] = inbox[d]
      /\ intentional'[d] = intentional[d] /\ indicator'[d] = indicator[d]
      /\ d \in loaded' <=> d \in loaded
<1>1. Untouched
  <2> USE DEF IInv, SocketTypeOK
  <2>1. CASE Load(c) \/ PageReady(c) \/ Click(c)
    BY <2>1 DEF Load, PageReady, Click, InitSocket
  <2>2. ASSUME NEW k \in Conn, Accept(c, k) \/ OnConnect(c, k) \/ OnAwake(c, k)
        PROVE  Untouched
    BY <2>2 DEF Accept, OnConnect, OnAwake
  <2>3. ASSUME NEW k \in Conn, OnIdle(c, k)
        PROVE  Untouched
    BY <2>3 DEF OnIdle
  <2>4. ASSUME NEW k \in Conn, ConnectionLost(c, k) \/ ReconnectFailed(c, k)
        PROVE  Untouched
    BY <2>4 DEF ConnectionLost, ReconnectFailed
  <2> QED BY <2>1, <2>2, <2>3, <2>4
<1> QED
  BY <1>1, BystanderKeeps DEF HInv, AwakeSinceLoad, OneSocket, idleVars

LEMMA PageHInv ==
  ASSUME IInv, HInv, NEW c \in Client,
         Load(c) \/ PostActivity(c) \/ PageReady(c) \/ Click(c)
  PROVE  HandshakeTracked(c)' /\ AwakeSinceLoad(c)'
<1> USE DEF IInv, SocketTypeOK, OneSocket
<1>1. CASE Load(c)
  BY <1>1 DEF Load, HandshakeTracked, AwakeSinceLoad, Conn
<1>2. CASE PostActivity(c)
  <2>1. /\ Activity /\ UNCHANGED <<conn, intentional, indicator>>
        /\ page'[c] # "ready"
    BY <1>2 DEF PostActivity
  <2> QED BY <2>1, ActivityHInv
<1>3. CASE PageReady(c) /\ current[c] = 0
  <2>1. /\ conn[c][1] = "none" /\ inbox[c][1] = <<>>
    BY <1>3 DEF Connections, Conn
  <2>2. /\ conn'[c][1] = "connecting" /\ conn'[c][2] = conn[c][2]
        /\ UNCHANGED <<idleVars, inbox, intentional, indicator, loaded>>
    BY <1>3 DEF PageReady, InitSocket, Conn
  <2> QED
    BY <2>1, <2>2 DEF HInv, HandshakeTracked, AwakeSinceLoad, NoneIdle, idleVars
<1>4. CASE PageReady(c) /\ current[c] # 0
  <2>1. current[c] = 1
    BY <1>4 DEF PageReady, Connections
  <2>2. conn'[c][2] = "connecting"
    BY <1>4, <2>1 DEF PageReady, InitSocket, Conn
  <2> QED
    BY <1>4, <2>2 DEF PageReady, HInv, HandshakeTracked, AwakeSinceLoad, idleVars
<1>5. CASE Click(c) /\ current[c] = 0
  <2>1. /\ conn[c][1] = "none" /\ inbox[c][1] = <<>>
        /\ page[c] # "ready"
    BY <1>5 DEF Connections, Conn
  <2>2. /\ conn'[c][1] = "connecting" /\ conn'[c][2] = conn[c][2]
        /\ ~intentional'[c] /\ UNCHANGED <<idleVars, page, inbox, indicator, loaded>>
    BY <1>5 DEF Click, InitSocket, Conn
  <2> QED
    BY <2>1, <2>2 DEF HInv, HandshakeTracked, AwakeSinceLoad, idleVars
<1>6. CASE Click(c) /\ current[c] # 0
  <2>1. /\ conn[c][current[c]] \in {"connecting", "closed"}
        /\ conn' = [conn EXCEPT ![c][current[c]] = "connecting"]
        /\ ~intentional'[c] /\ UNCHANGED <<idleVars, page, inbox, indicator, loaded>>
    BY <1>6 DEF Click
  <2>2. conn[c][2] = "none" => current[c] = 1
    BY <1>6 DEF Connections, Conn
  <2>3. current[c] \in Conn
    BY <1>6 DEF Conn
  <2>4. conn'[c][2] = "none" => current[c] = 1 /\ conn[c][2] = "none"
    BY <2>1, <2>2, <2>3 DEF Conn
  <2>5. current[c] = 1 => conn'[c][1] = "connecting" /\ conn[c][1] # "open" /\ conn[c][1] # "none"
    BY <2>1 DEF Conn
  <2> QED
    BY <2>1, <2>4, <2>5 DEF HInv, HandshakeTracked, AwakeSinceLoad, idleVars
<1> QED BY <1>1, <1>2, <1>3, <1>4, <1>5, <1>6

LEMMA MessageHInv ==
  ASSUME IInv, HInv, NEW c \in Client, NEW k \in Conn,
         Accept(c, k) \/ OnConnect(c, k) \/ OnAwake(c, k)
  PROVE  HandshakeTracked(c)' /\ AwakeSinceLoad(c)'
<1> USE DEF IInv, SocketTypeOK, OneSocket
<1>1. /\ UNCHANGED <<idleVars, page, loaded>> /\ isIdle' = isIdle
      /\ \A j \in Conn : j # k => conn'[c][j] = conn[c][j] /\ inbox'[c][j] = inbox[c][j]
      /\ conn'[c][k] = "open" /\ conn[c][k] # "none"
  BY DEF Accept, OnConnect, OnAwake, Connections, idleVars
<1>2. conn'[c][2] = "none" => k = 1 /\ conn[c][2] = "none"
  BY <1>1 DEF Conn
<1>3. SUFFICES ASSUME k = 1, conn[c][2] = "none"
               PROVE  HandshakeTracked(c)' /\ AwakeSinceLoad(c)'
  BY <1>1, <1>2 DEF HInv, HandshakeTracked, AwakeSinceLoad
<1>4. HandshakeTracked(c) /\ AwakeSinceLoad(c)
  BY DEF HInv
<1>5. CASE Accept(c, k)
  <2>1. /\ conn[c][1] = "connecting" /\ UNCHANGED <<intentional, indicator>>
        /\ inbox'[c][1] = <<"connect", IdleStatus(isIdle)>>
    BY <1>3, <1>5 DEF Accept, Conn
  <2>2. inbox'[c][1] # <<>> /\ Head(inbox'[c][1]) = "connect"
    BY <2>1
  <2>3. HandshakeTracked(c)'
    BY <1>1, <1>3, <1>4, <2>1, <2>2 DEF HandshakeTracked
  <2>4. ~isIdle => NoneIdle(inbox'[c][1])
    BY <2>1, StatusDiffers DEF NoneIdle
  <2> QED BY <1>1, <1>3, <1>4, <2>3, <2>4 DEF AwakeSinceLoad
<1>6. CASE OnConnect(c, k) \/ OnAwake(c, k)
  <2>1. /\ inbox[c][1] # <<>> /\ inbox'[c][1] = Tail(inbox[c][1])
        /\ indicator'[c] = "connected"
        /\ intentional'[c] => intentional[c]
    <3>1. CASE OnConnect(c, k)
      BY <1>3, <3>1 DEF OnConnect, Conn
    <3>2. CASE OnAwake(c, k)
      BY <1>3, <3>2 DEF OnAwake, Conn
    <3> QED BY <1>6, <3>1, <3>2
  <2>2. NoneIdle(inbox[c][1]) => NoneIdle(inbox'[c][1])
    BY <2>1, TailNoneIdle DEF Conn
  <2>3. ~intentional'[c]
    <3>1. conn[c][1] = "open"
      BY <1>3, <2>1 DEF Connections
    <3> QED BY <1>3, <1>4, <2>1, <3>1 DEF HandshakeTracked
  <2> QED BY <1>1, <1>3, <1>4, <2>1, <2>2, <2>3 DEF HandshakeTracked, AwakeSinceLoad
<1> QED BY <1>5, <1>6

LEMMA EndHInv ==
  ASSUME IInv, HInv, NEW c \in Client, NEW k \in Conn,
         OnIdle(c, k) \/ ConnectionLost(c, k) \/ ReconnectFailed(c, k)
  PROVE  HandshakeTracked(c)' /\ AwakeSinceLoad(c)'
<1> USE DEF IInv, SocketTypeOK, OneSocket
<1>1. UNCHANGED <<idleVars, page, loaded, current>> /\ isIdle' = isIdle
  BY DEF OnIdle, ConnectionLost, ReconnectFailed, idleVars
<1>2. conn[c][k] # "none" /\ k <= current[c]
  BY DEF OnIdle, ConnectionLost, ReconnectFailed, Connections
<1>3. conn'[c][2] = "none" => conn[c][2] = "none"
  BY <1>2 DEF OnIdle, ConnectionLost, ReconnectFailed, Conn, Connections
<1>4. SUFFICES ASSUME conn[c][2] = "none"
               PROVE  HandshakeTracked(c)' /\ AwakeSinceLoad(c)'
  BY <1>1, <1>3 DEF HInv, HandshakeTracked, AwakeSinceLoad
<1>5. k = 1 /\ current[c] = 1
  <2>1. ~(2 <= current[c]) /\ current[c] \in 0..2
    BY <1>4 DEF Connections, Conn
  <2>2. k \in {1, 2} /\ k # 2
    BY <1>2, <1>4 DEF Conn
  <2> QED BY <1>2, <2>1, <2>2
<1>6. HandshakeTracked(c)
  BY DEF HInv
<1>7. /\ conn'[c][1] \in {"connecting", "closed"} /\ inbox'[c][1] = <<>>
      /\ indicator'[c] # "connected"
      /\ intentional'[c] => conn'[c][1] = "closed"
      /\ indicator'[c] = "idle" /\ conn'[c][1] = "closed" => intentional'[c]
  <2>1. CASE OnIdle(c, k)
    BY <1>5, <2>1 DEF OnIdle, Conn
  <2>2. CASE ConnectionLost(c, k)
    BY <1>4, <1>5, <1>6, <2>2 DEF ConnectionLost, HandshakeTracked, Conn
  <2>3. CASE ReconnectFailed(c, k)
    BY <1>4, <1>5, <1>6, <2>3 DEF ReconnectFailed, HandshakeTracked, Connections, Conn
  <2> QED BY <2>1, <2>2, <2>3
<1>8. AwakeSinceLoad(c)'
  BY <1>1, <1>7 DEF HInv, AwakeSinceLoad, NoneIdle
<1> QED BY <1>7, <1>8 DEF HandshakeTracked

LEMMA StepKeepsHInv == IInv /\ HInv /\ [Next]_vars => HInv'
<1> SUFFICES ASSUME IInv, HInv, [Next]_vars, NEW d \in Client
             PROVE  HandshakeTracked(d)' /\ AwakeSinceLoad(d)'
  BY DEF HInv
<1>1. CASE UNCHANGED vars
  BY <1>1, BystanderKeeps
  DEF vars, clientVars, idleVars, HInv, AwakeSinceLoad, OneSocket
<1>2. CASE LoadTestRequest \/ IdleCheckFires \/ TimePasses \/ WallClockSet
  BY <1>2, ServerHInv
<1>3. ASSUME NEW c \in Client, Load(c) \/ PageReady(c) \/ Click(c)
      PROVE  HandshakeTracked(d)' /\ AwakeSinceLoad(d)'
  BY <1>3, PageHInv, OthersHInv
<1>4. ASSUME NEW c \in Client, PostActivity(c)
      PROVE  HandshakeTracked(d)' /\ AwakeSinceLoad(d)'
  <2>1. CASE c = d
    BY <1>4, <2>1, PageHInv
  <2>2. CASE c # d
    <3>1. /\ Activity /\ UNCHANGED <<conn, intentional, indicator>>
          /\ page'[d] = page[d] /\ (d \in loaded' => d \in loaded)
      BY <1>4, <2>2 DEF PostActivity, IInv, SocketTypeOK
    <3> QED BY <3>1, ActivityHInv
  <2> QED BY <2>1, <2>2
<1>5. ASSUME NEW c \in Client, NEW k \in Conn,
             \/ Accept(c, k) \/ OnConnect(c, k) \/ OnAwake(c, k) \/ OnIdle(c, k)
             \/ ConnectionLost(c, k) \/ ReconnectFailed(c, k)
      PROVE  HandshakeTracked(d)' /\ AwakeSinceLoad(d)'
  <2>1. CASE c = d
    BY <1>5, <2>1, MessageHInv, EndHInv
  <2>2. CASE c # d
    BY <1>5, <2>2, OthersHInv
  <2> QED BY <2>1, <2>2
<1> QED BY <1>1, <1>2, <1>3, <1>4, <1>5 DEF Next

LEMMA InitHInv == Init => HInv
BY DEF Init, HInv, HandshakeTracked, AwakeSinceLoad, OneSocket, Conn

LEMMA HInvAlways == Spec => [](IInv /\ HInv)
<1>1. Init => IInv /\ HInv
  BY InitIInv, InitHInv
<1>2. IInv /\ HInv /\ [Next]_vars => (IInv /\ HInv)'
  BY StepKeepsIInv, StepKeepsHInv
<1> QED BY <1>1, <1>2, PTL DEF Spec

\* A page with one connection shows the state of it, and intentionalDisconnect
\* never hides the loss of a later one.
THEOREM IndicatorIsHonest == Spec => []IndicatorHonest
<1>1. IInv /\ HInv => IndicatorHonest
  <2> SUFFICES ASSUME IInv, HInv, NEW c \in Client, OneSocket(c), inbox[c][1] = <<>>
               PROVE  /\ indicator[c] = "connected" <=> conn[c][1] = "open"
                      /\ indicator[c] = "idle" /\ ~intentional[c] => conn[c][1] = "connecting"
    BY DEF IndicatorHonest
  <2>1. conn[c][1] \in {"none", "connecting", "open", "closed"}
    BY DEF IInv, SocketTypeOK, ConnState, Conn
  <2> QED BY <2>1 DEF HInv, HandshakeTracked
<1> QED BY <1>1, HInvAlways, PTL

\* A page with one connection is closed for idleness only if the server went
\* idle after the load that woke it.
THEOREM LoadedPageStays == Spec => LoadedPageStaysConnected
<1>1. ASSUME IInv, HInv, NEW c \in Client, c \in loaded, OneSocket(c), page[c] = "ready"
      PROVE  ~OnIdle(c, 1)
  <2>1. inbox[c][1] \in Seq(Message) /\ NoneIdle(inbox[c][1])
    BY <1>1 DEF IInv, SocketTypeOK, Conn, HInv, AwakeSinceLoad
  <2>2. SUFFICES ASSUME inbox[c][1] # <<>> PROVE Head(inbox[c][1]) # "idle"
    BY DEF OnIdle
  <2>3. Len(inbox[c][1]) >= 1 /\ Head(inbox[c][1]) = inbox[c][1][1]
    BY <2>1, <2>2, HeadTailProperties, EmptySeq
  <2> QED BY <2>1, <2>3 DEF NoneIdle
<1>2. IInv /\ HInv
        => \A c \in Client : c \in loaded /\ OneSocket(c) /\ page[c] = "ready" => ~OnIdle(c, 1)
  BY <1>1
<1> QED BY <1>2, HInvAlways, PTL DEF LoadedPageStaysConnected

----------------------------------------------------------------------------
(* The slow request driver, for any number of campaigns and requests.      *)

\* The counters of a campaign describe its fetches: each was sent under a
\* number of its own, the first with the campaign's own signal.
FetchesTracked ==
  /\ \A q \in inFlight : q.number <= sentRequests[q.campaign]
  /\ \A p, q \in inFlight : p.campaign = q.campaign /\ p.number = q.number => p = q
  /\ \A q \in inFlight : q.number = 1 => q.signal = q.campaign
  /\ \A c \in Campaign : activeRequests[c] <= sentRequests[c]
  /\ \A c \in Campaign : phase[c] = "uncalled" => sentRequests[c] = 0
  /\ \A c \in ticking : sentRequests[c] >= 1

\* While nothing disturbs it, at most one campaign goes on, and the globals,
\* the interval and every fetch are its own.
Undisturbed ==
  ~disturbed =>
    /\ isConnected
    /\ \A c, d \in GoingCampaigns : c = d
    /\ \A c \in ticking : /\ slowRequestRunning
                          /\ c = slowRequestAbortController /\ c = slowRequestIntervalId
    /\ \A q \in inFlight : /\ slowRequestRunning
                           /\ q.campaign = slowRequestAbortController
                           /\ q.signal = q.campaign

\* RunningHasSignal and what it rests on; this part holds in disturbed states.
SlowTracked ==
  /\ SlowTypeOK
  /\ IsFiniteSet(inFlight)
  /\ FetchesTracked
  /\ RunningHasSignal

SlowInv == SlowTracked /\ Undisturbed /\ CampaignIsAnnounced

\* What Cardinality(FetchesOf(c)) does when fetches come and go.
LEMMA FetchesFinite ==
  ASSUME IsFiniteSet(inFlight), NEW c \in Campaign
  PROVE  /\ IsFiniteSet(FetchesOf(c))
         /\ Cardinality(FetchesOf(c)) \in Nat
         /\ Cardinality(FetchesOf(c)) = 0 <=> FetchesOf(c) = {}
<1>1. FetchesOf(c) \subseteq inFlight
  BY DEF FetchesOf
<1>2. IsFiniteSet(FetchesOf(c))
  BY <1>1, FS_Subset
<1> QED BY <1>2, FS_CardinalityType, FS_EmptySet

LEMMA FetchAdded ==
  ASSUME IsFiniteSet(inFlight), NEW q, q \notin inFlight,
         inFlight' = inFlight \cup {q}
  PROVE  /\ IsFiniteSet(inFlight')
         /\ \A c \in Campaign : Cardinality(FetchesOf(c))'
              = IF c = q.campaign THEN Cardinality(FetchesOf(c)) + 1
                ELSE Cardinality(FetchesOf(c))
<1>1. IsFiniteSet(inFlight')
  BY FS_AddElement
<1>2. ASSUME NEW c \in Campaign, c = q.campaign
      PROVE  Cardinality(FetchesOf(c))' = Cardinality(FetchesOf(c)) + 1
  <2>1. FetchesOf(c)' = FetchesOf(c) \cup {q} /\ q \notin FetchesOf(c)
    BY <1>2 DEF FetchesOf
  <2> QED BY <2>1, FetchesFinite, FS_AddElement
<1>3. ASSUME NEW c \in Campaign, c # q.campaign
      PROVE  Cardinality(FetchesOf(c))' = Cardinality(FetchesOf(c))
  <2>1. FetchesOf(c)' = FetchesOf(c)
    BY <1>3 DEF FetchesOf
  <2> QED BY <2>1
<1> QED BY <1>1, <1>2, <1>3

LEMMA FetchRemoved ==
  ASSUME IsFiniteSet(inFlight), NEW q \in inFlight, inFlight' = inFlight \ {q}
  PROVE  /\ IsFiniteSet(inFlight')
         /\ \A c \in Campaign : Cardinality(FetchesOf(c))'
              = IF c = q.campaign THEN Cardinality(FetchesOf(c)) - 1
                ELSE Cardinality(FetchesOf(c))
<1>1. IsFiniteSet(inFlight')
  BY FS_RemoveElement
<1>2. ASSUME NEW c \in Campaign, c = q.campaign
      PROVE  Cardinality(FetchesOf(c))' = Cardinality(FetchesOf(c)) - 1
  <2>1. FetchesOf(c)' = FetchesOf(c) \ {q} /\ q \in FetchesOf(c)
    BY <1>2 DEF FetchesOf
  <2> QED BY <2>1, FetchesFinite, FS_RemoveElement
<1>3. ASSUME NEW c \in Campaign, c # q.campaign
      PROVE  Cardinality(FetchesOf(c))' = Cardinality(FetchesOf(c))
  <2>1. FetchesOf(c)' = FetchesOf(c)
    BY <1>3 DEF FetchesOf
  <2> QED BY <2>1
<1> QED BY <1>1, <1>2, <1>3

\* Whatever is aborted, a campaign's count falls by its share.
LEMMA FetchesAborted ==
  ASSUME IsFiniteSet(inFlight), NEW A \in SUBSET inFlight, inFlight' = inFlight \ A,
         NEW c \in Campaign
  PROVE  LET share == Cardinality({q \in A : q.campaign = c})
         IN  /\ share \in 0..Cardinality(FetchesOf(c))
             /\ Cardinality(FetchesOf(c))' = Cardinality(FetchesOf(c)) - share
<1> DEFINE mine == {q \in A : q.campaign = c}
<1>1. mine \subseteq FetchesOf(c) /\ FetchesOf(c)' = FetchesOf(c) \ mine
  BY DEF FetchesOf
<1>2. IsFiniteSet(FetchesOf(c)) /\ Cardinality(FetchesOf(c)) \in Nat
  BY FetchesFinite
<1>3. FetchesOf(c) \cap mine = mine
  BY <1>1
<1> HIDE DEF mine
<1>4. /\ Cardinality(mine) \in Nat /\ Cardinality(mine) <= Cardinality(FetchesOf(c))
  BY <1>1, <1>2, FS_Subset, FS_CardinalityType
<1>5. Cardinality(FetchesOf(c) \ mine) = Cardinality(FetchesOf(c)) - Cardinality(mine)
  BY <1>2, <1>3, FS_Difference
<1> QED BY <1>1, <1>2, <1>4, <1>5 DEF mine

\* A message is the last one told, also when an equal one absorbs it.
LEMMA SendState ==
  ASSUME NEW queue \in Seq(BOOLEAN), NEW active \in BOOLEAN
  PROVE  LET sent == SendSlowRequestState(queue, active)
         IN  /\ sent \in Seq(BOOLEAN)
             /\ isConnected => sent # <<>> /\ sent[Len(sent)] = active
<1>1. CASE ~isConnected
  BY <1>1 DEF SendSlowRequestState
<1>2. CASE isConnected /\ queue # <<>> /\ queue[Len(queue)] = active
  BY <1>2 DEF SendSlowRequestState
<1>3. CASE isConnected /\ ~(queue # <<>> /\ queue[Len(queue)] = active)
  <2>1. SendSlowRequestState(queue, active) = Append(queue, active)
    BY <1>3 DEF SendSlowRequestState
  <2> QED BY <2>1, LastOfAppend
<1> QED BY <1>1, <1>2, <1>3

\* While slowRequestRunning, a campaign goes on.
LEMMA RunningGoes ==
  ASSUME SlowTracked, slowRequestRunning
  PROVE  /\ slowRequestAbortController \in Campaign
         /\ slowRequestAbortController \in GoingCampaigns
BY DEF SlowTracked, SlowTypeOK, RunningHasSignal, GoingCampaigns

----------------------------------------------------------------------------
LEMMA SlowInitInv == SlowInit => SlowInv
<1> SUFFICES ASSUME SlowInit PROVE SlowInv
  OBVIOUS
<1>1. SlowTypeOK
  <2>1. /\ 0 \in 0..MaxRequests /\ <<>> \in Seq(BOOLEAN)
        /\ "uncalled" \in Going \cup {"uncalled", "returned", "unloaded"}
    BY MaxRequestsAssumption, EmptySeq
  <2>2. /\ phase \in [Campaign -> Going \cup {"uncalled", "returned", "unloaded"}]
        /\ maxRequests \in [Campaign -> 0..MaxRequests]
        /\ sentRequests \in [Campaign -> 0..MaxRequests]
        /\ activeRequests \in [Campaign -> 0..MaxRequests]
    BY <2>1 DEF SlowInit
  <2> QED BY <2>1, <2>2 DEF SlowInit, SlowTypeOK
<1>2. IsFiniteSet(inFlight) /\ FetchesTracked
  BY FS_EmptySet DEF SlowInit, FetchesTracked
<1>3. RunningHasSignal
  <2>1. \A c \in Campaign : FetchesOf(c) = {}
    BY DEF SlowInit, FetchesOf
  <2> QED BY <2>1, FS_EmptySet DEF SlowInit, RunningHasSignal
<1>4. Undisturbed
  BY DEF SlowInit, Undisturbed, GoingCampaigns, Going
<1>5. CampaignIsAnnounced
  BY DEF SlowInit, CampaignIsAnnounced, ToldLast
<1> QED BY <1>1, <1>2, <1>3, <1>4, <1>5 DEF SlowInv, SlowTracked

\* Steps of the socket, and those of a cleared interval, leave the campaigns
\* and their fetches alone.
LEMMA TrackedUnlessTouched ==
  ASSUME SlowTracked, UNCHANGED <<locals, inFlight>>, ticking' \subseteq ticking,
         SlowTypeOK',
         slowRequestRunning' =>
           slowRequestRunning /\ UNCHANGED slowRequestAbortController
  PROVE  SlowTracked'
<1>1. FetchesTracked' /\ IsFiniteSet(inFlight)'
  BY DEF SlowTracked, FetchesTracked, locals
<1>2. RunningHasSignal'
  <2>1. \A c \in Campaign : FetchesOf(c)' = FetchesOf(c)
    BY DEF FetchesOf
  <2> QED BY <2>1 DEF SlowTracked, RunningHasSignal, locals
<1> QED BY <1>1, <1>2 DEF SlowTracked

LEMMA RelayStep == SlowInv /\ Relay => SlowInv'
<1> SUFFICES ASSUME SlowInv, Relay PROVE SlowInv'
  OBVIOUS
<1>1. /\ wire \in Seq(BOOLEAN) /\ wire # <<>> /\ wire' = Tail(wire)
      /\ announced' = Head(wire) /\ statusEl' = OverlayAfter(Head(wire))
      /\ UNCHANGED <<globals, ticking, locals, inFlight, isConnected, stopped, disturbed>>
  BY DEF Relay, SlowInv, SlowTracked, SlowTypeOK
<1>2. /\ Tail(wire) \in Seq(BOOLEAN) /\ Head(wire) \in BOOLEAN
      /\ ToldLast' = ToldLast
      /\ Tail(wire) = <<>> => Head(wire) = ToldLast
  <2>1. Head(wire) \in BOOLEAN
    BY <1>1, HeadTailProperties
  <2> QED BY <1>1, <2>1, LastOfTail DEF ToldLast
<1>3. statusEl' \in {"blank", "active", "stopped"}
  BY <1>1 DEF OverlayAfter, SlowInv, SlowTracked, SlowTypeOK
<1>4. SlowTypeOK'
  BY <1>1, <1>2, <1>3 DEF SlowInv, SlowTracked, SlowTypeOK, globals, locals
<1>5. SlowTracked'
  BY <1>1, <1>4, TrackedUnlessTouched DEF SlowInv, globals
<1>6. Undisturbed'
  BY <1>1 DEF SlowInv, Undisturbed, GoingCampaigns, globals, locals
<1>7. CampaignIsAnnounced'
  <2>1. GoingCampaigns' = GoingCampaigns
    BY <1>1 DEF GoingCampaigns, locals
  <2>2. ASSUME ~disturbed, slowRequestRunning PROVE ToldLast' /\ statusEl' = "active"
    BY <1>1, <1>2, <2>2 DEF SlowInv, CampaignIsAnnounced, OverlayAfter
  <2>3. ASSUME ~disturbed, GoingCampaigns = {}
        PROVE  ~ToldLast' /\ (wire' = <<>> => statusEl' = "blank")
    <3>1. ~slowRequestRunning
      BY <2>3, RunningGoes DEF SlowInv
    <3>2. ~ToldLast
      BY <2>3 DEF SlowInv, CampaignIsAnnounced
    <3> QED BY <1>1, <1>2, <3>1, <3>2 DEF OverlayAfter
  <2> QED BY <1>1, <2>1, <2>2, <2>3 DEF CampaignIsAnnounced, globals
<1> QED BY <1>5, <1>6, <1>7 DEF SlowInv

\* Steps after which the campaign counts as disturbed, and those that keep
\* everything the invariant speaks of.
LEMMA ForeignStep ==
  ASSUME SlowInv,
         \/ \E active \in BOOLEAN : RelayOther(active)
         \/ ConnectionDrops
         \/ Reconnected
  PROVE  SlowInv'
<1>1. /\ UNCHANGED <<globals, ticking, locals, inFlight, stopped>>
      /\ disturbed' = TRUE
  BY DEF RelayOther, ConnectionDrops, Reconnected, SlowInv, Undisturbed, SlowTracked,
         SlowTypeOK
<1>2. /\ statusEl' \in {"blank", "active", "stopped"}
      /\ isConnected' \in BOOLEAN /\ wire' \in Seq(BOOLEAN) /\ announced' \in BOOLEAN
  <2>1. CASE \E active \in BOOLEAN : RelayOther(active)
    BY <2>1 DEF RelayOther, OverlayAfter, SlowInv, SlowTracked, SlowTypeOK
  <2>2. CASE ConnectionDrops
    BY <2>2, EmptySeq DEF ConnectionDrops, SlowInv, SlowTracked, SlowTypeOK
  <2>3. CASE Reconnected
    BY <2>3 DEF Reconnected, SlowInv, SlowTracked, SlowTypeOK
  <2> QED BY <2>1, <2>2, <2>3
<1>3. SlowTypeOK'
  BY <1>1, <1>2 DEF SlowInv, SlowTracked, SlowTypeOK, globals, locals
<1>4. SlowTracked'
  BY <1>1, <1>3, TrackedUnlessTouched DEF SlowInv, globals
<1> QED BY <1>1, <1>4 DEF SlowInv, Undisturbed, CampaignIsAnnounced

----------------------------------------------------------------------------
\* Cleanup, wherever the end of sendSlowRequests is reached.
LEMMA CleanupEffect ==
  ASSUME SlowTypeOK, NEW c \in Campaign, Cleanup(c)
  PROVE  /\ slowRequestRunning' = FALSE
         /\ slowRequestAbortController' = Null /\ slowRequestIntervalId' = Null
         /\ ticking' = ticking \ {slowRequestIntervalId}
         /\ phase' \in [Campaign -> Going \cup {"uncalled", "returned", "unloaded"}]
         /\ \A d \in Campaign : phase'[d] = IF d = c THEN "returned" ELSE phase[d]
         /\ GoingCampaigns' = GoingCampaigns \ {c}
BY DEF Cleanup, SlowTypeOK, GoingCampaigns, Going

\* After it an undisturbed page is quiet, if the campaign had no fetch left.
LEMMA CleanupQuiet ==
  ASSUME SlowInv, NEW c \in Campaign, Cleanup(c), c \in GoingCampaigns,
         ~disturbed, UNCHANGED isConnected,
         \A q \in inFlight' : q \in inFlight /\ q.campaign # c
  PROVE  Undisturbed' /\ GoingCampaigns' = {} /\ inFlight' = {}
<1>1. \A d \in ticking : d = slowRequestIntervalId
  BY DEF SlowInv, Undisturbed
<1>2. ticking' = {}
  BY <1>1 DEF Cleanup
<1>3. GoingCampaigns' = {}
  <2>1. GoingCampaigns \subseteq {c}
    BY DEF SlowInv, Undisturbed
  <2> QED BY <2>1, CleanupEffect DEF SlowInv, SlowTracked
<1>4. inFlight' = {}
  <2>1. SUFFICES ASSUME NEW q \in inFlight' PROVE FALSE
    OBVIOUS
  <2>2. q \in inFlight /\ q.campaign # c
    BY <2>1
  <2>3. slowRequestRunning /\ q.campaign = slowRequestAbortController
    BY <2>2 DEF SlowInv, Undisturbed
  <2>4. slowRequestAbortController \in GoingCampaigns
    BY <2>3, RunningGoes DEF SlowInv
  <2> QED BY <2>2, <2>3, <2>4 DEF SlowInv, Undisturbed
<1> QED BY <1>2, <1>3, <1>4 DEF Undisturbed, SlowInv

LEMMA PollStep == ASSUME SlowInv, NEW c \in Campaign, Poll(c) PROVE SlowInv'
<1>1. /\ phase[c] = "polling" /\ c \in GoingCampaigns
      /\ activeRequests[c] = 0 \/ ~slowRequestRunning
      /\ Cleanup(c)
      /\ wire' = SendSlowRequestState(wire, FALSE) /\ statusEl' = "blank"
      /\ UNCHANGED <<maxRequests, sentRequests, activeRequests, inFlight, isConnected,
                     announced, stopped, disturbed>>
  BY DEF Poll, GoingCampaigns, Going
<1>2. SlowTypeOK /\ IsFiniteSet(inFlight) /\ wire \in Seq(BOOLEAN)
  BY DEF SlowInv, SlowTracked, SlowTypeOK
<1>3. /\ slowRequestRunning' = FALSE
      /\ slowRequestAbortController' = Null /\ slowRequestIntervalId' = Null
      /\ ticking' = ticking \ {slowRequestIntervalId}
      /\ phase' \in [Campaign -> Going \cup {"uncalled", "returned", "unloaded"}]
      /\ \A d \in Campaign : phase'[d] = IF d = c THEN "returned" ELSE phase[d]
  BY <1>1, <1>2, CleanupEffect
<1>4. /\ wire' \in Seq(BOOLEAN)
      /\ isConnected => wire' # <<>> /\ wire'[Len(wire')] = FALSE
  BY <1>1, <1>2, SendState
<1>5. SlowTypeOK'
  BY <1>1, <1>2, <1>3, <1>4 DEF SlowTypeOK
<1>6. FetchesTracked'
  BY <1>1, <1>3 DEF SlowInv, SlowTracked, FetchesTracked
<1>7. RunningHasSignal'
  <2>1. \A d \in Campaign : FetchesOf(d)' = FetchesOf(d)
    BY <1>1 DEF FetchesOf
  <2> QED BY <1>1, <1>3, <2>1 DEF SlowInv, SlowTracked, RunningHasSignal
<1>8. ASSUME ~disturbed
      PROVE  Undisturbed' /\ GoingCampaigns' = {}
  <2>1. \A q \in inFlight : q.campaign # c
    <3>1. CASE activeRequests[c] = 0
      <4>1. FetchesOf(c) = {}
        BY <1>2, <3>1, FetchesFinite DEF SlowInv, SlowTracked, RunningHasSignal
      <4> QED BY <4>1 DEF FetchesOf
    <3>2. CASE ~slowRequestRunning
      BY <1>8, <3>2 DEF SlowInv, Undisturbed
    <3> QED BY <1>1, <3>1, <3>2
  <2>2. \A q \in inFlight' : q \in inFlight /\ q.campaign # c
    BY <1>1, <2>1
  <2> QED BY <1>1, <1>8, <2>2, CleanupQuiet
<1>9. ASSUME ~disturbed PROVE CampaignIsAnnounced'
  <2>1. isConnected
    BY <1>9 DEF SlowInv, Undisturbed
  <2> QED BY <1>3, <1>4, <2>1 DEF CampaignIsAnnounced, ToldLast
<1>10. Undisturbed' /\ CampaignIsAnnounced'
  BY <1>1, <1>8, <1>9 DEF Undisturbed, CampaignIsAnnounced
<1> QED
  BY <1>1, <1>2, <1>5, <1>6, <1>7, <1>10 DEF SlowInv, SlowTracked

----------------------------------------------------------------------------
LEMMA SendStep ==
  ASSUME SlowInv, NEW c \in Campaign, NEW n \in 0..MaxRequests, SendSlowRequests(c, n)
  PROVE  SlowInv'
<1> DEFINE q == [campaign |-> c, number |-> 1, signal |-> c]
<1>1. SlowTypeOK /\ IsFiniteSet(inFlight) /\ 1 \in 0..MaxRequests /\ 1 \in 1..MaxRequests
  BY MaxRequestsAssumption DEF SlowInv, SlowTracked
<1>2. q \in Fetch
  BY <1>1 DEF Fetch
<1>3. sentRequests[c] = 0 /\ phase[c] = "uncalled"
  BY DEF SendSlowRequests, SlowInv, SlowTracked, FetchesTracked
<1>4. \A p \in inFlight : p.campaign # c
  BY <1>1, <1>3 DEF SlowInv, SlowTracked, FetchesTracked, SlowTypeOK, Fetch
<1>5. q.campaign = c /\ q.number = 1 /\ q.signal = c
  OBVIOUS
<1>6. inFlight' = inFlight \cup {q}
  BY DEF SendSlowRequests
<1> HIDE DEF q
<1>7. q \notin inFlight
  BY <1>4, <1>5
<1>8. /\ IsFiniteSet(inFlight')
      /\ \A d \in Campaign : Cardinality(FetchesOf(d))' =
           IF d = c THEN Cardinality(FetchesOf(d)) + 1 ELSE Cardinality(FetchesOf(d))
  BY <1>1, <1>5, <1>6, <1>7, FetchAdded
<1>9. /\ wire' \in Seq(BOOLEAN)
      /\ isConnected => wire' # <<>> /\ wire'[Len(wire')] = TRUE
  <2>1. wire \in Seq(BOOLEAN) /\ wire' = SendSlowRequestState(wire, TRUE)
    BY <1>1 DEF SendSlowRequests, SlowTypeOK
  <2> QED BY <2>1, SendState
<1>10. \A d \in Campaign :
         /\ phase'[d] = IF d = c THEN "settling" ELSE phase[d]
         /\ sentRequests'[d] = IF d = c THEN 1 ELSE sentRequests[d]
         /\ activeRequests'[d] = IF d = c THEN 1 ELSE activeRequests[d]
  BY <1>1 DEF SendSlowRequests, SlowTypeOK
<1>11. /\ slowRequestRunning' = TRUE /\ slowRequestAbortController' = c
       /\ statusEl' = "active" /\ UNCHANGED <<isConnected, announced, stopped>>
       /\ disturbed' = (disturbed \/ GoingCampaigns # {})
       /\ \/ ticking' = ticking \cup {c} /\ slowRequestIntervalId' = c
          \/ UNCHANGED <<ticking, slowRequestIntervalId>>
  BY DEF SendSlowRequests
<1>12. SlowTypeOK'
  <2>1. inFlight' \subseteq Fetch
    BY <1>1, <1>2, <1>6 DEF SlowTypeOK
  <2>2. /\ phase' \in [Campaign -> Going \cup {"uncalled", "returned", "unloaded"}]
        /\ maxRequests' \in [Campaign -> 0..MaxRequests]
        /\ sentRequests' \in [Campaign -> 0..MaxRequests]
        /\ activeRequests' \in [Campaign -> 0..MaxRequests]
    BY <1>1 DEF SendSlowRequests, SlowTypeOK, Going
  <2> QED BY <1>1, <1>9, <1>11, <2>1, <2>2 DEF SlowTypeOK
<1>13. FetchesTracked'
  <2>1. \A p \in inFlight' : p.number <= sentRequests'[p.campaign]
    <3> SUFFICES ASSUME NEW p \in inFlight' PROVE p.number <= sentRequests'[p.campaign]
      OBVIOUS
    <3>1. CASE p = q
      BY <1>5, <1>10, <3>1
    <3>2. CASE p \in inFlight
      <4>1. p.campaign \in Campaign \ {c} /\ p.number <= sentRequests[p.campaign]
        BY <1>1, <1>4, <3>2
        DEF SlowInv, SlowTracked, FetchesTracked, SlowTypeOK, Fetch
      <4> QED BY <1>10, <4>1
    <3> QED BY <1>6, <3>1, <3>2
  <2>2. \A p, r \in inFlight' : p.campaign = r.campaign /\ p.number = r.number => p = r
    BY <1>4, <1>5, <1>6 DEF SlowInv, SlowTracked, FetchesTracked
  <2>3. \A p \in inFlight' : p.number = 1 => p.signal = p.campaign
    BY <1>5, <1>6 DEF SlowInv, SlowTracked, FetchesTracked
  <2>4. \A d \in Campaign : /\ activeRequests'[d] <= sentRequests'[d]
                            /\ phase'[d] = "uncalled" => sentRequests'[d] = 0
                            /\ d \in ticking' => sentRequests'[d] >= 1
    BY <1>10, <1>11 DEF SlowInv, SlowTracked, FetchesTracked
  <2>5. ticking' \subseteq Campaign
    BY <1>12 DEF SlowTypeOK
  <2> QED BY <2>1, <2>2, <2>3, <2>4, <2>5 DEF FetchesTracked
<1>14. RunningHasSignal'
  <2>1. slowRequestAbortController' # Null /\ phase'[slowRequestAbortController'] \in Going
    BY <1>10, <1>11, NullAssumption DEF Going
  <2>2. ASSUME NEW d \in Campaign
        PROVE  /\ activeRequests'[d] = Cardinality(FetchesOf(d))'
               /\ phase'[d] = "settling" <=> \E p \in FetchesOf(d)' : p.number = 1
    <3>1. /\ activeRequests[d] = Cardinality(FetchesOf(d))
          /\ phase[d] = "settling" <=> \E p \in FetchesOf(d) : p.number = 1
      BY DEF SlowInv, SlowTracked, RunningHasSignal
    <3>2. CASE d = c
      <4>1. FetchesOf(d) = {} /\ Cardinality(FetchesOf(d)) = 0
        <5>1. FetchesOf(d) = {}
          BY <1>4, <3>2 DEF FetchesOf
        <5> QED BY <5>1, FS_EmptySet
      <4>2. q \in FetchesOf(d)'
        BY <1>5, <1>6, <3>2 DEF FetchesOf
      <4> QED BY <1>5, <1>8, <1>10, <3>2, <4>1, <4>2
    <3>3. CASE d # c
      <4>1. FetchesOf(d)' = FetchesOf(d)
        BY <1>5, <1>6, <3>3 DEF FetchesOf
      <4> QED BY <1>10, <3>1, <3>3, <4>1
    <3> QED BY <3>2, <3>3
  <2> QED BY <2>1, <2>2 DEF RunningHasSignal
<1>15. ASSUME ~disturbed' PROVE Undisturbed' /\ CampaignIsAnnounced'
  <2>1. ~disturbed /\ GoingCampaigns = {}
    BY <1>11, <1>15
  <2>2. ~slowRequestRunning
    BY <2>1, RunningGoes DEF SlowInv
  <2>3. isConnected /\ ticking = {} /\ inFlight = {}
    BY <2>1, <2>2 DEF SlowInv, Undisturbed
  <2>4. GoingCampaigns' = {c}
    BY <1>10, <2>1 DEF GoingCampaigns, Going
  <2>5. Undisturbed'
    BY <1>5, <1>6, <1>11, <2>3, <2>4 DEF Undisturbed
  <2> QED BY <1>9, <1>11, <2>3, <2>4, <2>5 DEF CampaignIsAnnounced, ToldLast
<1>16. Undisturbed' /\ CampaignIsAnnounced'
  BY <1>15 DEF Undisturbed, CampaignIsAnnounced
<1> QED BY <1>8, <1>12, <1>13, <1>14, <1>16 DEF SlowInv, SlowTracked

LEMMA IntervalDoneStep ==
  ASSUME SlowInv, NEW c \in Campaign, IntervalDone(c)
  PROVE  SlowInv'
<1>1. /\ ticking' = ticking \ {slowRequestIntervalId} /\ slowRequestIntervalId' = Null
      /\ UNCHANGED <<slowRequestRunning, slowRequestAbortController, locals, inFlight,
                     statusEl, isConnected, wire, announced, stopped, disturbed>>
  BY DEF IntervalDone
<1>2. SlowTypeOK'
  BY <1>1 DEF SlowInv, SlowTracked, SlowTypeOK, locals
<1>3. SlowTracked'
  BY <1>1, <1>2, TrackedUnlessTouched DEF SlowInv
<1>4. GoingCampaigns' = GoingCampaigns
  BY <1>1 DEF GoingCampaigns, locals
<1>5. Undisturbed'
  BY <1>1, <1>4 DEF SlowInv, Undisturbed
<1>6. CampaignIsAnnounced'
  BY <1>1, <1>4 DEF SlowInv, CampaignIsAnnounced, ToldLast
<1> QED BY <1>3, <1>5, <1>6 DEF SlowInv

LEMMA IntervalSendsStep ==
  ASSUME SlowInv, NEW c \in Campaign, IntervalSends(c)
  PROVE  SlowInv'
<1> DEFINE n == sentRequests[c] + 1
           q == [campaign |-> c, number |-> n, signal |-> slowRequestAbortController]
<1>1. SlowTypeOK /\ IsFiniteSet(inFlight) /\ SlowTracked
  BY DEF SlowInv, SlowTracked
<1>2. /\ c \in ticking /\ slowRequestRunning /\ sentRequests[c] < maxRequests[c]
      /\ UNCHANGED <<globals, ticking, phase, maxRequests, isConnected, announced,
                     stopped, disturbed>>
      /\ statusEl' = "active"
  BY DEF IntervalSends
<1>3. slowRequestAbortController \in Campaign /\ slowRequestAbortController \in GoingCampaigns
  BY <1>1, <1>2, RunningGoes
<1>4. sentRequests[c] \in Nat /\ sentRequests[c] >= 1 /\ n \in 2..MaxRequests
  BY <1>1, <1>2, MaxRequestsAssumption
  DEF SlowTracked, FetchesTracked, SlowTypeOK
<1>5. /\ q \in Fetch /\ q.campaign = c /\ q.number = n /\ q.number # 1
      /\ q.signal = slowRequestAbortController
  BY <1>3, <1>4 DEF Fetch
<1>6. inFlight' = inFlight \cup {q}
  <2>1. \A p \in Fetch : p.campaign = c /\ p.number = n
                          /\ p.signal = slowRequestAbortController => p = q
    BY DEF Fetch
  <2> QED BY <1>5, <2>1 DEF IntervalSends
<1>7. \A d \in Campaign :
        /\ sentRequests'[d] = IF d = c THEN n ELSE sentRequests[d]
        /\ activeRequests'[d] = IF d = c THEN activeRequests[d] + 1 ELSE activeRequests[d]
  BY <1>1 DEF IntervalSends, SlowTypeOK
<1>8. sentRequests' = [sentRequests EXCEPT ![c] = n]
      /\ activeRequests' = [activeRequests EXCEPT ![c] = @ + 1]
  BY DEF IntervalSends
<1>9. n = sentRequests[c] + 1
  OBVIOUS
<1> HIDE DEF q, n
<1>10. \A p \in inFlight : p.campaign = c => p.number # n
  BY <1>1, <1>4, <1>9 DEF SlowTracked, FetchesTracked, SlowTypeOK, Fetch
<1>11. /\ IsFiniteSet(inFlight')
       /\ \A d \in Campaign : Cardinality(FetchesOf(d))' =
            IF d = c THEN Cardinality(FetchesOf(d)) + 1 ELSE Cardinality(FetchesOf(d))
  BY <1>1, <1>5, <1>6, <1>10, FetchAdded
<1>12. /\ wire' \in Seq(BOOLEAN)
       /\ isConnected => wire' # <<>> /\ wire'[Len(wire')] = TRUE
  <2>1. wire \in Seq(BOOLEAN) /\ wire' = SendSlowRequestState(wire, TRUE)
    BY <1>1 DEF IntervalSends, SlowTypeOK
  <2> QED BY <2>1, SendState
<1>13. SlowTypeOK'
  <2>1. inFlight' \subseteq Fetch
    BY <1>1, <1>5, <1>6 DEF SlowTypeOK
  <2>2. activeRequests[c] + 1 \in 0..MaxRequests
    <3>1. activeRequests[c] \in 0..MaxRequests /\ activeRequests[c] <= sentRequests[c]
      BY <1>1 DEF SlowTracked, FetchesTracked, SlowTypeOK
    <3> QED BY <1>4, <1>9, <3>1, MaxRequestsAssumption
  <2>3. /\ sentRequests' \in [Campaign -> 0..MaxRequests]
        /\ activeRequests' \in [Campaign -> 0..MaxRequests]
    BY <1>1, <1>4, <1>8, <2>2 DEF SlowTypeOK
  <2> QED BY <1>1, <1>2, <1>12, <2>1, <2>3 DEF SlowTypeOK, globals
<1>14. FetchesTracked'
  <2>1. \A p \in inFlight' : p.number <= sentRequests'[p.campaign]
    <3> SUFFICES ASSUME NEW p \in inFlight' PROVE p.number <= sentRequests'[p.campaign]
      OBVIOUS
    <3>1. CASE p = q
      BY <1>4, <1>5, <1>7, <3>1
    <3>2. CASE p \in inFlight
      <4>1. /\ p.campaign \in Campaign /\ p.number \in Nat
            /\ p.number <= sentRequests[p.campaign]
        BY <1>1, <3>2 DEF SlowTracked, FetchesTracked, SlowTypeOK, Fetch
      <4> QED BY <1>4, <1>7, <1>9, <4>1
    <3> QED BY <1>6, <3>1, <3>2
  <2>2. \A p, r \in inFlight' : p.campaign = r.campaign /\ p.number = r.number => p = r
    BY <1>1, <1>5, <1>6, <1>10 DEF SlowTracked, FetchesTracked
  <2>3. \A p \in inFlight' : p.number = 1 => p.signal = p.campaign
    BY <1>1, <1>5, <1>6 DEF SlowTracked, FetchesTracked
  <2>4. \A d \in Campaign : /\ activeRequests'[d] <= sentRequests'[d]
                            /\ phase'[d] = "uncalled" => sentRequests'[d] = 0
                            /\ d \in ticking' => sentRequests'[d] >= 1
    <3>1. c \in ticking /\ sentRequests[c] # 0
      BY <1>2, <1>4
    <3>2. phase[c] # "uncalled"
      BY <1>1, <3>1 DEF SlowTracked, FetchesTracked
    <3>3. \A d \in Campaign : /\ activeRequests[d] \in Nat /\ sentRequests[d] \in Nat
                              /\ activeRequests[d] <= sentRequests[d]
                              /\ phase[d] = "uncalled" => sentRequests[d] = 0
                              /\ d \in ticking => sentRequests[d] >= 1
      BY <1>1 DEF SlowTracked, FetchesTracked, SlowTypeOK
    <3> QED BY <1>2, <1>7, <1>9, <3>2, <3>3
  <2>5. ticking' \subseteq Campaign
    BY <1>13 DEF SlowTypeOK
  <2> QED BY <2>1, <2>2, <2>3, <2>4, <2>5 DEF FetchesTracked
<1>15. RunningHasSignal'
  <2>1. slowRequestAbortController' # Null /\ phase'[slowRequestAbortController'] \in Going
    BY <1>2, <1>3, NullAssumption DEF GoingCampaigns, globals
  <2>2. ASSUME NEW d \in Campaign
        PROVE  /\ activeRequests'[d] = Cardinality(FetchesOf(d))'
               /\ phase'[d] = "settling" <=> \E p \in FetchesOf(d)' : p.number = 1
    <3>1. /\ activeRequests[d] = Cardinality(FetchesOf(d))
          /\ phase[d] = "settling" <=> \E p \in FetchesOf(d) : p.number = 1
      BY <1>1 DEF SlowTracked, RunningHasSignal
    <3>2. \A p : p.number = 1 => (p \in FetchesOf(d)' <=> p \in FetchesOf(d))
      BY <1>5, <1>6 DEF FetchesOf
    <3> QED BY <1>2, <1>7, <1>11, <3>1, <3>2
  <2> QED BY <2>1, <2>2 DEF RunningHasSignal
<1>16. GoingCampaigns' = GoingCampaigns
  BY <1>2 DEF GoingCampaigns
<1>17. Undisturbed'
  BY <1>2, <1>5, <1>6, <1>16 DEF SlowInv, Undisturbed, globals
<1>18. CampaignIsAnnounced'
  <2>1. ~disturbed => isConnected
    BY DEF SlowInv, Undisturbed
  <2> QED
    BY <1>2, <1>3, <1>12, <1>16, <2>1 DEF CampaignIsAnnounced, ToldLast, globals
<1> QED BY <1>11, <1>13, <1>14, <1>15, <1>17, <1>18 DEF SlowInv, SlowTracked

----------------------------------------------------------------------------
\* A settled fetch: only the first of a campaign ends its "settling".
LEMMA SettledTracked ==
  ASSUME SlowTracked, NEW q \in inFlight, FetchSettles(q)
  PROVE  /\ q.campaign \in Campaign
         /\ IsFiniteSet(inFlight')
         /\ FetchesTracked'
         /\ \A d \in Campaign : activeRequests'[d] = Cardinality(FetchesOf(d))'
         /\ activeRequests' \in [Campaign -> 0..MaxRequests]
         /\ \A d \in Campaign : \A p \in FetchesOf(d)' : p.number = 1 =>
              p \in FetchesOf(d) /\ ~(d = q.campaign /\ q.number = 1)
         /\ \A d \in Campaign : \A p \in FetchesOf(d) : p.number = 1 =>
              p \in FetchesOf(d)' \/ (d = q.campaign /\ q.number = 1)
<1> DEFINE c == q.campaign
<1>1. /\ SlowTypeOK /\ IsFiniteSet(inFlight) /\ FetchesTracked
      /\ c \in Campaign
  BY DEF SlowTracked, SlowTypeOK, Fetch
<1>2. /\ inFlight' = inFlight \ {q}
      /\ activeRequests' = [activeRequests EXCEPT ![c] = @ - 1]
      /\ UNCHANGED sentRequests
  BY DEF FetchSettles
<1>3. /\ phase' \in [Campaign -> Going \cup {"uncalled", "returned", "unloaded"}]
      /\ \A d \in Campaign : phase'[d] = phase[d] \/ phase'[d] \in {"polling", "returned"}
      /\ ticking' \subseteq ticking
  <2>1. CASE phase[c] = "settling" /\ q.number = 1 /\ (activeRequests[c] = 1 \/ ~slowRequestRunning)
    <3>1. Cleanup(c)
      BY <2>1 DEF FetchSettles
    <3> QED BY <1>1, <3>1, CleanupEffect
  <2>2. CASE ~(phase[c] = "settling" /\ q.number = 1 /\ (activeRequests[c] = 1 \/ ~slowRequestRunning))
    <3>1. /\ phase' = IF phase[c] = "settling" /\ q.number = 1
                      THEN [phase EXCEPT ![c] = "polling"] ELSE phase
          /\ UNCHANGED ticking
      BY <2>2 DEF FetchSettles
    <3> QED BY <1>1, <3>1 DEF SlowTypeOK, Going
  <2> QED BY <2>1, <2>2
<1>4. q \in FetchesOf(c) /\ Cardinality(FetchesOf(c)) \in Nat \ {0}
  BY <1>1, FetchesFinite DEF FetchesOf
<1> HIDE DEF c
<1>5. /\ IsFiniteSet(inFlight')
      /\ \A d \in Campaign : Cardinality(FetchesOf(d))' =
           IF d = c THEN Cardinality(FetchesOf(d)) - 1 ELSE Cardinality(FetchesOf(d))
  BY <1>1, <1>2, FetchRemoved DEF c
<1>6. \A d \in Campaign : activeRequests[d] = Cardinality(FetchesOf(d))
  BY DEF SlowTracked, RunningHasSignal
<1>7. \A d \in Campaign :
        /\ activeRequests'[d] = IF d = c THEN activeRequests[d] - 1 ELSE activeRequests[d]
        /\ activeRequests[d] \in 0..MaxRequests /\ sentRequests[d] \in 0..MaxRequests
        /\ activeRequests[d] <= sentRequests[d]
  BY <1>1, <1>2 DEF SlowTypeOK, FetchesTracked
<1>8. \A d \in Campaign : /\ activeRequests'[d] \in 0..MaxRequests
                          /\ activeRequests'[d] <= sentRequests'[d]
  BY <1>1, <1>2, <1>4, <1>6, <1>7, MaxRequestsAssumption
<1>9. FetchesTracked'
  <2>1. ticking \subseteq Campaign
    BY <1>1 DEF SlowTypeOK
  <2>2. \A d \in Campaign : phase'[d] = "uncalled" => sentRequests'[d] = 0
    BY <1>1, <1>2, <1>3 DEF FetchesTracked
  <2> QED BY <1>1, <1>2, <1>3, <1>8, <2>1, <2>2 DEF FetchesTracked
<1>10. activeRequests' \in [Campaign -> 0..MaxRequests]
  BY <1>1, <1>2, <1>7, <1>8 DEF SlowTypeOK
<1>11. \A d \in Campaign : \A p \in FetchesOf(d)' : p.number = 1 =>
         p \in FetchesOf(d) /\ ~(d = c /\ q.number = 1)
  BY <1>1, <1>2 DEF FetchesOf, FetchesTracked, c
<1>12. \A d \in Campaign : \A p \in FetchesOf(d) : p.number = 1 =>
         p \in FetchesOf(d)' \/ (d = c /\ q.number = 1)
  BY <1>1, <1>2 DEF FetchesOf, c
<1> QED BY <1>1, <1>5, <1>6, <1>7, <1>9, <1>10, <1>11, <1>12 DEF c

LEMMA FetchSettlesStep ==
  ASSUME SlowInv, NEW q \in inFlight, FetchSettles(q)
  PROVE  SlowInv'
<1> DEFINE c == q.campaign
           ends == /\ phase[c] = "settling" /\ q.number = 1
                   /\ activeRequests[c] = 1 \/ ~slowRequestRunning
<1>1. /\ c \in Campaign
      /\ IsFiniteSet(inFlight') /\ FetchesTracked'
      /\ \A d \in Campaign : activeRequests'[d] = Cardinality(FetchesOf(d))'
      /\ activeRequests' \in [Campaign -> 0..MaxRequests]
      /\ \A d \in Campaign : \A p \in FetchesOf(d)' : p.number = 1 =>
           p \in FetchesOf(d) /\ ~(d = c /\ q.number = 1)
      /\ \A d \in Campaign : \A p \in FetchesOf(d) : p.number = 1 =>
           p \in FetchesOf(d)' \/ (d = c /\ q.number = 1)
  BY SettledTracked DEF SlowInv
<1>2. SlowTypeOK /\ IsFiniteSet(inFlight) /\ SlowTracked /\ wire \in Seq(BOOLEAN)
  BY DEF SlowInv, SlowTracked, SlowTypeOK
<1>3. /\ inFlight' = inFlight \ {q}
      /\ UNCHANGED <<maxRequests, sentRequests, isConnected, announced, stopped, disturbed>>
  BY DEF FetchSettles
<1>4. \A d \in Campaign : phase[d] = "settling" <=> \E p \in FetchesOf(d) : p.number = 1
  BY <1>2 DEF SlowTracked, RunningHasSignal
<1>5. inFlight' \subseteq Fetch
  BY <1>2, <1>3 DEF SlowTypeOK
<1>6. q.number = 1 => phase[c] = "settling"
  BY <1>1, <1>4 DEF FetchesOf
<1>7. CASE ends
  <2>1. /\ Cleanup(c) /\ statusEl' = "blank"
        /\ wire' = SendSlowRequestState(SendSlowRequestState(wire, TRUE), FALSE)
    BY <1>7 DEF FetchSettles
  <2> HIDE DEF c
  <2>2. /\ wire' \in Seq(BOOLEAN)
        /\ isConnected => wire' # <<>> /\ wire'[Len(wire')] = FALSE
    BY <1>2, <2>1, SendState
  <2>3. /\ slowRequestRunning' = FALSE
        /\ slowRequestAbortController' = Null /\ slowRequestIntervalId' = Null
        /\ ticking' = ticking \ {slowRequestIntervalId}
        /\ phase' \in [Campaign -> Going \cup {"uncalled", "returned", "unloaded"}]
        /\ \A d \in Campaign : phase'[d] = IF d = c THEN "returned" ELSE phase[d]
    BY <1>1, <1>2, <2>1, CleanupEffect
  <2>4. SlowTypeOK'
    BY <1>1, <1>2, <1>3, <1>5, <2>1, <2>2, <2>3 DEF SlowTypeOK
  <2>5. RunningHasSignal'
    <3>1. ASSUME NEW d \in Campaign
          PROVE  phase'[d] = "settling" <=> \E p \in FetchesOf(d)' : p.number = 1
      BY <1>1, <1>4, <1>7, <2>3
    <3> QED BY <1>1, <2>3, <3>1 DEF RunningHasSignal
  <2>6. ASSUME ~disturbed PROVE Undisturbed' /\ GoingCampaigns' = {}
    <3>1. c \in GoingCampaigns
      BY <1>1, <1>7 DEF GoingCampaigns, Going
    <3>2. q \in FetchesOf(c) /\ slowRequestRunning
      BY <1>1, <2>6 DEF FetchesOf, SlowInv, Undisturbed, c
    <3>3. Cardinality(FetchesOf(c))' = 0
      <4>1. activeRequests[c] = 1
        BY <1>7, <3>2
      <4>2. activeRequests' = [activeRequests EXCEPT ![c] = @ - 1]
        BY DEF FetchSettles, c
      <4> QED BY <1>1, <1>2, <4>1, <4>2 DEF SlowTypeOK
    <3>4. FetchesOf(c)' = {}
      <4>1. IsFiniteSet(FetchesOf(c)')
        <5>1. FetchesOf(c)' \subseteq inFlight'
          BY DEF FetchesOf
        <5> QED BY <1>1, <5>1, FS_Subset
      <4> QED BY <3>3, <4>1, FS_EmptySet
    <3>5. \A p \in inFlight' : p \in inFlight /\ p.campaign # c
      BY <1>3, <3>4 DEF FetchesOf
    <3> QED BY <1>1, <1>3, <2>1, <2>6, <3>1, <3>5, CleanupQuiet
  <2>7. Undisturbed'
    BY <1>3, <2>6 DEF Undisturbed
  <2>8. CampaignIsAnnounced'
    <3>1. ~disturbed => isConnected
      BY DEF SlowInv, Undisturbed
    <3> QED BY <1>3, <2>2, <2>3, <3>1 DEF CampaignIsAnnounced, ToldLast
  <2> QED BY <1>1, <2>4, <2>5, <2>7, <2>8 DEF SlowInv, SlowTracked
<1>8. CASE ~ends
  <2>1. /\ phase' = IF phase[c] = "settling" /\ q.number = 1
                    THEN [phase EXCEPT ![c] = "polling"] ELSE phase
        /\ wire' = SendSlowRequestState(wire, TRUE) /\ statusEl' = "active"
        /\ UNCHANGED <<globals, ticking>>
    BY <1>8 DEF FetchSettles
  <2>2. /\ wire' \in Seq(BOOLEAN)
        /\ isConnected => wire' # <<>> /\ wire'[Len(wire')] = TRUE
    BY <1>2, <2>1, SendState
  <2>3. \A d \in Campaign :
          phase'[d] = IF d = c /\ q.number = 1 THEN "polling" ELSE phase[d]
    BY <1>1, <1>2, <1>6, <2>1 DEF SlowTypeOK
  <2>4. SlowTypeOK'
    <3>1. phase' \in [Campaign -> Going \cup {"uncalled", "returned", "unloaded"}]
      BY <1>1, <1>2, <2>1 DEF SlowTypeOK, Going
    <3> QED BY <1>1, <1>2, <1>3, <1>5, <2>1, <2>2, <3>1 DEF SlowTypeOK, globals
  <2> HIDE DEF c
  <2>5. GoingCampaigns' = GoingCampaigns
    <3>1. q.number = 1 => phase[c] \in Going
      BY <1>6 DEF Going
    <3> QED BY <2>3, <3>1 DEF GoingCampaigns, Going
  <2>6. RunningHasSignal'
    <3>1. ASSUME slowRequestRunning
          PROVE  /\ slowRequestAbortController # Null
                 /\ phase'[slowRequestAbortController] \in Going
      BY <1>2, <2>3, <3>1, RunningGoes, NullAssumption DEF GoingCampaigns, Going
    <3>2. ASSUME NEW d \in Campaign
          PROVE  phase'[d] = "settling" <=> \E p \in FetchesOf(d)' : p.number = 1
      BY <1>1, <1>4, <2>3
    <3> QED BY <1>1, <2>1, <3>1, <3>2 DEF RunningHasSignal, globals
  <2>7. Undisturbed'
    BY <1>3, <2>1, <2>5 DEF SlowInv, Undisturbed, globals
  <2>8. ASSUME ~disturbed PROVE CampaignIsAnnounced'
    <3>1. isConnected /\ slowRequestRunning
      BY <2>8 DEF SlowInv, Undisturbed
    <3>2. GoingCampaigns' # {}
      BY <1>2, <2>5, <3>1, RunningGoes
    <3> QED BY <2>1, <2>2, <3>1, <3>2 DEF CampaignIsAnnounced, ToldLast
  <2>9. CampaignIsAnnounced'
    BY <1>3, <2>8 DEF CampaignIsAnnounced
  <2> QED BY <1>1, <2>4, <2>6, <2>7, <2>9 DEF SlowInv, SlowTracked
<1> QED BY <1>7, <1>8

----------------------------------------------------------------------------
\* Stop aborts the fetches with the current signal, and with the first one
\* ends the "settling" of the campaign it belongs to.
LEMMA StopStep == SlowInv /\ StopSlowRequests => SlowInv'
<1> SUFFICES ASSUME SlowInv, StopSlowRequests PROVE SlowInv'
  OBVIOUS
<1> DEFINE c == slowRequestAbortController
           aborted == {q \in inFlight : q.signal = c}
           toldToStop == SendSlowRequestState(wire, FALSE)
           share(d) == Cardinality({q \in aborted : q.campaign = d})
<1>1. SlowTypeOK /\ IsFiniteSet(inFlight) /\ SlowTracked /\ wire \in Seq(BOOLEAN)
  BY DEF SlowInv, SlowTracked, SlowTypeOK
<1>2. /\ slowRequestRunning
      /\ ticking' = ticking \ {slowRequestIntervalId} /\ slowRequestIntervalId' = Null
      /\ slowRequestRunning' = FALSE
      /\ inFlight' = inFlight \ aborted
      /\ activeRequests' = [d \in Campaign |-> activeRequests[d] - share(d)]
      /\ stopped' = stopped \cup GoingCampaigns
      /\ UNCHANGED <<maxRequests, sentRequests, isConnected, announced, disturbed>>
  BY DEF StopSlowRequests
<1>3. c \in Campaign /\ c \in GoingCampaigns /\ c # Null
  BY <1>1, <1>2, RunningGoes, NullAssumption
<1>4. \A d \in Campaign :
        /\ share(d) \in 0..activeRequests[d]
        /\ Cardinality(FetchesOf(d))' = activeRequests[d] - share(d)
  <2>1. aborted \in SUBSET inFlight
    OBVIOUS
  <2>2. \A d \in Campaign : activeRequests[d] = Cardinality(FetchesOf(d))
    BY <1>1 DEF SlowTracked, RunningHasSignal
  <2> HIDE DEF aborted
  <2> QED BY <1>1, <1>2, <2>1, <2>2, FetchesAborted
<1>5. IsFiniteSet(inFlight')
  BY <1>1, <1>2, FS_Subset
<1> HIDE DEF share
<1>6. \A d \in Campaign :
        /\ activeRequests'[d] = Cardinality(FetchesOf(d))'
        /\ activeRequests'[d] \in 0..MaxRequests
        /\ activeRequests'[d] <= sentRequests[d]
  <2>1. \A d \in Campaign : /\ activeRequests[d] \in 0..MaxRequests
                            /\ sentRequests[d] \in 0..MaxRequests
                            /\ activeRequests[d] <= sentRequests[d]
    BY <1>1 DEF SlowTypeOK, SlowTracked, FetchesTracked
  <2> QED BY <1>2, <1>4, <2>1, MaxRequestsAssumption
<1>7. toldToStop \in Seq(BOOLEAN)
  BY <1>1, SendState
<1>8. /\ wire' \in Seq(BOOLEAN)
      /\ \A d \in Campaign :
           phase'[d] = IF d = c /\ phase[c] = "settling" THEN "returned" ELSE phase[d]
      /\ phase' \in [Campaign -> Going \cup {"uncalled", "returned", "unloaded"}]
      /\ slowRequestAbortController' \in Campaign \cup {Null}
      /\ statusEl' \in {"blank", "active", "stopped"}
      /\ phase[c] = "settling" /\ isConnected =>
           /\ wire' # <<>> /\ wire'[Len(wire')] = FALSE
           /\ statusEl' = "blank"
  <2>1. CASE phase[c] = "settling"
    <3>1. /\ phase' = [phase EXCEPT ![c] = "returned"]
          /\ slowRequestAbortController' = Null
          /\ wire' = SendSlowRequestState(SendSlowRequestState(toldToStop, TRUE), FALSE)
          /\ statusEl' = "blank"
      BY <1>3, <2>1 DEF StopSlowRequests
    <3> HIDE DEF toldToStop
    <3>2. /\ wire' \in Seq(BOOLEAN)
          /\ isConnected => wire' # <<>> /\ wire'[Len(wire')] = FALSE
      BY <1>7, <3>1, SendState
    <3>3. phase' \in [Campaign -> Going \cup {"uncalled", "returned", "unloaded"}]
      BY <1>1, <3>1 DEF SlowTypeOK
    <3> QED BY <1>1, <1>3, <2>1, <3>1, <3>2, <3>3 DEF SlowTypeOK
  <2>2. CASE phase[c] # "settling"
    <3>1. /\ UNCHANGED <<phase, slowRequestAbortController>>
          /\ wire' = IF aborted = {} THEN toldToStop ELSE SendSlowRequestState(toldToStop, TRUE)
          /\ statusEl' = IF aborted = {} THEN "stopped" ELSE "active"
      BY <2>2 DEF StopSlowRequests
    <3> HIDE DEF toldToStop, aborted
    <3>2. wire' \in Seq(BOOLEAN)
      BY <1>7, <3>1, SendState
    <3> QED BY <1>1, <2>2, <3>1, <3>2 DEF SlowTypeOK
  <2> QED BY <2>1, <2>2
<1> HIDE DEF toldToStop
<1>9. SlowTypeOK'
  <2>1. inFlight' \subseteq Fetch /\ GoingCampaigns \subseteq Campaign
    BY <1>1, <1>2 DEF SlowTypeOK, GoingCampaigns
  <2>2. activeRequests' \in [Campaign -> 0..MaxRequests]
    BY <1>2, <1>6
  <2> QED BY <1>1, <1>2, <1>8, <2>1, <2>2 DEF SlowTypeOK
<1>10. FetchesTracked'
  <2>1. ticking \subseteq Campaign /\ inFlight' \subseteq inFlight
    BY <1>1, <1>2 DEF SlowTypeOK
  <2>2. \A d \in Campaign : /\ activeRequests'[d] <= sentRequests'[d]
                            /\ phase'[d] = "uncalled" => sentRequests'[d] = 0
    BY <1>1, <1>2, <1>6, <1>8 DEF SlowTracked, FetchesTracked
  <2> QED BY <1>1, <1>2, <2>1, <2>2 DEF SlowTracked, FetchesTracked
<1>11. RunningHasSignal'
  <2>1. ASSUME NEW d \in Campaign
        PROVE  phase'[d] = "settling" <=> \E q \in FetchesOf(d)' : q.number = 1
    <3>1. phase[d] = "settling" <=> \E q \in FetchesOf(d) : q.number = 1
      BY <1>1 DEF SlowTracked, RunningHasSignal
    <3>2. \A q \in FetchesOf(d) :
            q.number = 1 => q.signal = d /\ (q \in FetchesOf(d)' <=> d # c)
      BY <1>1, <1>2 DEF SlowTracked, FetchesTracked, FetchesOf
    <3>3. FetchesOf(d)' \subseteq FetchesOf(d)
      BY <1>2 DEF FetchesOf
    <3> QED BY <1>8, <3>1, <3>2, <3>3
  <2> QED BY <1>2, <1>6, <2>1 DEF RunningHasSignal
<1>12. ASSUME ~disturbed PROVE Undisturbed' /\ CampaignIsAnnounced'
  <2>1. isConnected /\ ticking' = {}
    BY <1>2, <1>12 DEF SlowInv, Undisturbed
  <2>2. inFlight' = {}
    BY <1>2, <1>12 DEF SlowInv, Undisturbed
  <2>3. GoingCampaigns' = GoingCampaigns \ {d \in {c} : phase[c] = "settling"}
    BY <1>3, <1>8 DEF GoingCampaigns, Going
  <2>4. Undisturbed'
    BY <1>2, <1>12, <2>1, <2>2, <2>3 DEF SlowInv, Undisturbed
  <2>5. GoingCampaigns' = {} => phase[c] = "settling"
    BY <1>3, <2>3
  <2>6. GoingCampaigns' = {} => ~ToldLast' /\ wire' # <<>>
    BY <1>8, <2>1, <2>5 DEF ToldLast
  <2> QED BY <1>2, <2>4, <2>6 DEF CampaignIsAnnounced
<1>13. Undisturbed' /\ CampaignIsAnnounced'
  BY <1>2, <1>12 DEF Undisturbed, CampaignIsAnnounced
<1> QED BY <1>5, <1>9, <1>10, <1>11, <1>13 DEF SlowInv, SlowTracked

LEMMA UnloadStep == SlowInv /\ Unload => SlowInv'
<1> SUFFICES ASSUME SlowInv, Unload PROVE SlowInv'
  OBVIOUS
<1>1. SlowTypeOK /\ FetchesTracked
  BY DEF SlowInv, SlowTracked
<1>2. SlowTypeOK'
  <2>1. 0 \in 0..MaxRequests /\ <<>> \in Seq(BOOLEAN)
    BY MaxRequestsAssumption, EmptySeq
  <2>2. /\ activeRequests' \in [Campaign -> 0..MaxRequests]
        /\ phase' \in [Campaign -> Going \cup {"uncalled", "returned", "unloaded"}]
    BY <1>1, <2>1 DEF Unload, SlowTypeOK
  <2> QED BY <1>1, <2>1, <2>2 DEF Unload, SlowTypeOK
<1>3. FetchesTracked'
  <2>1. \A d \in Campaign : /\ activeRequests'[d] = 0 /\ sentRequests'[d] \in Nat
                            /\ phase'[d] = "uncalled" => phase[d] = "uncalled"
    BY <1>1 DEF Unload, SlowTypeOK, Going
  <2> QED BY <1>1, <2>1 DEF Unload, FetchesTracked
<1>4. RunningHasSignal' /\ IsFiniteSet(inFlight')
  <2>1. \A d \in Campaign : /\ activeRequests'[d] = 0 /\ phase'[d] # "settling"
                            /\ FetchesOf(d)' = {}
    BY <1>1 DEF Unload, SlowTypeOK, Going, FetchesOf
  <2> QED BY <2>1, FS_EmptySet DEF Unload, RunningHasSignal
<1> QED
  BY <1>2, <1>3, <1>4
  DEF Unload, SlowInv, SlowTracked, Undisturbed, CampaignIsAnnounced

LEMMA SlowStutter == SlowInv /\ UNCHANGED slowVars => SlowInv'
<1> SUFFICES ASSUME SlowInv, UNCHANGED slowVars PROVE SlowInv'
  OBVIOUS
<1> USE DEF slowVars, globals, locals
<1>1. SlowTypeOK'
  BY DEF SlowInv, SlowTracked, SlowTypeOK
<1>2. SlowTracked'
  BY <1>1, TrackedUnlessTouched DEF SlowInv
<1> QED
  BY <1>2 DEF SlowInv, Undisturbed, CampaignIsAnnounced, GoingCampaigns, ToldLast

LEMMA SlowStepKeepsInv == SlowInv /\ [SlowNext]_slowVars => SlowInv'
<1> SUFFICES ASSUME SlowInv, [SlowNext]_slowVars PROVE SlowInv'
  OBVIOUS
<1>1. CASE UNCHANGED slowVars
  BY <1>1, SlowStutter
<1>2. CASE Relay
  BY <1>2, RelayStep
<1>3. CASE (\E active \in BOOLEAN : RelayOther(active)) \/ ConnectionDrops \/ Reconnected
  BY <1>3, ForeignStep
<1>4. ASSUME NEW c \in Campaign, NEW n \in 0..MaxRequests, SendSlowRequests(c, n)
      PROVE  SlowInv'
  BY <1>4, SendStep
<1>5. ASSUME NEW c \in Campaign, Poll(c) \/ IntervalDone(c) \/ IntervalSends(c)
      PROVE  SlowInv'
  BY <1>5, PollStep, IntervalDoneStep, IntervalSendsStep
<1>6. ASSUME NEW q \in Fetch, FetchSettles(q) PROVE SlowInv'
  <2>1. q \in inFlight
    BY <1>6 DEF FetchSettles
  <2> QED BY <1>6, <2>1, FetchSettlesStep
<1>7. CASE StopSlowRequests \/ Unload
  BY <1>7, StopStep, UnloadStep
<1> QED BY <1>1, <1>2, <1>3, <1>4, <1>5, <1>6, <1>7 DEF SlowNext

LEMMA SlowInvAlways == SlowSpec => []SlowInv
BY SlowInitInv, SlowStepKeepsInv, PTL DEF SlowSpec

\* Every value stays within its type: no count of requests becomes negative
\* or exceeds what was entered, however campaigns overlap.
THEOREM SlowTypeCorrect == SlowSpec => []SlowTypeOK
BY SlowInvAlways, PTL DEF SlowInv, SlowTracked

\* The globals that overlapping calls of sendSlowRequests share stay usable,
\* and each call knows how many of its requests are out.
THEOREM SignalWhileRunning == SlowSpec => []RunningHasSignal
BY SlowInvAlways, PTL DEF SlowInv, SlowTracked

\* A page that runs one campaign at a time is quiet once it has returned or
\* was stopped.
THEOREM StoppedPageIsQuiet == SlowSpec => []QuietWhenStopped
<1>1. SlowInv => QuietWhenStopped
  BY DEF SlowInv, Undisturbed, QuietWhenStopped
<1> QED BY <1>1, SlowInvAlways, PTL

\* The sidecar and the overlays follow an undisturbed campaign.
THEOREM CampaignAnnounced == SlowSpec => []CampaignIsAnnounced
BY SlowInvAlways, PTL DEF SlowInv

----------------------------------------------------------------------------
(* The lists of active simulations, for any simulations, reloads and       *)
(* restarts.                                                               *)

Born == {s \in Sim : status[s] # "unborn"}

\* The page knows of a simulation only what the server said of it, which is
\* after its beginning.
KnownAreBorn ==
  /\ listed \subseteq Born /\ posted \subseteq Born
  /\ \A k \in Reload : reload[k].sims \subseteq Born
  /\ \A type \in ListType : bulk[type] \subseteq Born
  /\ \A s \in Sim \ Born : request[s] = NoRequest

\* An id is never given twice, so what a DELETE has ended stays so until its
\* answer arrives.
DeletedStayEnded ==
  \A s \in Sim : request[s].state = "ok" => s \in Born /\ Ended(s)

ListInv == ListTypeOK /\ KnownAreBorn /\ DeletedStayEnded

LEMMA ListInitInv == ListInit => ListInv
<1> SUFFICES ASSUME ListInit PROVE ListInv
  OBVIOUS
<1>1. ListTypeOK
  <2>1. /\ reload \in [Reload -> [state : {"none", "sent", "answered"}, sims : SUBSET Sim]]
        /\ request \in [Sim -> [by : Caller, state : {"none", "sent", "ok", "refused"}]]
    BY DEF ListInit, NoReload, NoRequest, Caller
  <2>2. Registry!TypeOK
    BY DEF ListInit, Registry!Init, Registry!TypeOK
  <2>3. /\ simType \in [Sim -> ListType \cup {NoType}]
        /\ bulk \in [ListType -> SUBSET Sim]
        /\ boot \in 0..MaxRestarts
    BY RestartAssumption DEF ListInit
  <2> QED BY <2>1, <2>2, <2>3 DEF ListInit, ListTypeOK
<1> QED
  BY <1>1 DEF ListInit, ListInv, KnownAreBorn, DeletedStayEnded, NoReload, NoRequest

\* A server whose steps only move simulations on in their life.
Onward ==
  /\ Born \subseteq Born'
  /\ \A s \in Born : Ended(s) => Ended(s)'

\* The invariant follows what the page does and what the server does apart.
LEMMA OnwardKeeps ==
  ASSUME ListInv, Onward, ListTypeOK', UNCHANGED deleteVars,
         listed' \subseteq Born', posted' \subseteq Born',
         \A k \in Reload : reload'[k].sims \subseteq Born'
  PROVE  ListInv'
BY DEF ListInv, Onward, deleteVars, KnownAreBorn, DeletedStayEnded

LEMMA ServerOnward ==
  ASSUME ListInv
  PROVE  /\ \A s \in Sim, type \in ListType : StartSimulation(s, type) =>
              /\ Onward /\ s \in Born' /\ Registry!TypeOK' /\ allocated' \subseteq Sim
              /\ simType' \in [Sim -> ListType \cup {NoType}]
         /\ \A s \in Sim : Delete(s) =>
              /\ Onward /\ Registry!TypeOK' /\ allocated' \subseteq Sim
              /\ s \in Born => Ended(s)'
         /\ \A s \in Sim : Registry!End(s, "COMPLETED") =>
              /\ Born' = Born /\ Registry!TypeOK'
              /\ \A t \in Sim : status'[t] = "ACTIVE" => status[t] = "ACTIVE"
         /\ Restart => Onward /\ Registry!TypeOK'
         /\ UNCHANGED serverVars => Onward
<1> USE DEF ListInv, ListTypeOK, Registry!TypeOK, Registry!Outcome, Born, Ended, Onward
<1>1. ASSUME NEW s \in Sim, NEW type \in ListType, StartSimulation(s, type)
      PROVE  /\ Onward /\ s \in Born' /\ Registry!TypeOK' /\ allocated' \subseteq Sim
             /\ simType' \in [Sim -> ListType \cup {NoType}]
  BY <1>1 DEF StartSimulation, Registry!Begin
<1>2. ASSUME NEW s \in Sim, Delete(s)
      PROVE  /\ Onward /\ Registry!TypeOK' /\ allocated' \subseteq Sim
             /\ s \in Born => Ended(s)'
  BY <1>2 DEF Delete, Registry!End
<1>3. ASSUME NEW s \in Sim, Registry!End(s, "COMPLETED")
      PROVE  /\ Born' = Born /\ Registry!TypeOK'
             /\ \A t \in Sim : status'[t] = "ACTIVE" => status[t] = "ACTIVE"
  BY <1>3 DEF Registry!End
<1>4. Restart => Onward /\ Registry!TypeOK'
  BY DEF Restart, Registry!Forget
<1>5. UNCHANGED serverVars => Onward
  BY DEF serverVars
<1> QED BY <1>1, <1>2, <1>3, <1>4, <1>5

\* Steps that leave the requests and the loops alone.
LEMMA ListServerStep ==
  ASSUME ListInv, NEW s \in Sim, NEW type \in ListType,
         \/ OtherStarts(s, type) \/ Post(s, type) \/ OtherDeletes(s) \/ RegistryTimer(s)
  PROVE  ListInv'
<1>1. Onward /\ Registry!TypeOK' /\ allocated' \subseteq Sim
  <2>1. CASE OtherStarts(s, type) \/ Post(s, type)
    BY <2>1, ServerOnward DEF OtherStarts, Post
  <2>2. CASE OtherDeletes(s)
    BY <2>2, ServerOnward DEF OtherDeletes
  <2>3. CASE RegistryTimer(s)
    BY <2>3, ServerOnward DEF RegistryTimer, Onward, Ended, Born, ListInv, ListTypeOK
  <2> QED BY <2>1, <2>2, <2>3
<1>2. /\ simType' \in [Sim -> ListType \cup {NoType}]
      /\ boot' = boot
      /\ connection' \in {"trying", "open", "closed"}
      /\ UNCHANGED <<listed, removalTimer, reload, deleteVars, lastProcessId>>
      /\ posted' \subseteq posted \cup (Born' \cap Sim)
  <2>1. CASE OtherStarts(s, type) \/ Post(s, type)
    BY <2>1, ServerOnward
    DEF OtherStarts, Post, StartSimulation, EnsureWebSocket, pageVars, Born, ListInv, ListTypeOK
  <2>2. CASE OtherDeletes(s) \/ RegistryTimer(s)
    BY <2>2 DEF OtherDeletes, Delete, RegistryTimer, pageVars, ListInv, ListTypeOK
  <2> QED BY <2>1, <2>2
<1>3. ListTypeOK'
  BY <1>1, <1>2 DEF ListInv, ListTypeOK, deleteVars
<1>4. Born \subseteq Born'
  BY <1>1 DEF Onward
<1>5. /\ listed' \subseteq Born' /\ posted' \subseteq Born'
      /\ \A k \in Reload : reload'[k].sims \subseteq Born'
  BY <1>2, <1>4 DEF ListInv, KnownAreBorn
<1> QED BY <1>1, <1>2, <1>3, <1>5, OnwardKeeps

LEMMA ListPageStep ==
  ASSUME ListInv,
         \/ \E s \in Sim : OnPostAnswer(s) \/ PostFails(s) \/ RemovalTimerFires(s)
         \/ Disconnect \/ GiveUp \/ CloseForIdle \/ OtherButton \/ OnMetrics
  PROVE  ListInv'
<1>1. /\ UNCHANGED serverVars /\ UNCHANGED reload /\ UNCHANGED deleteVars
      /\ connection' \in {"trying", "open", "closed"}
      /\ listed' \subseteq listed \cup posted
      /\ posted' \subseteq posted
      /\ removalTimer' \subseteq Sim
      /\ lastProcessId' \in {lastProcessId, boot}
  BY DEF OnPostAnswer, PostFails, RemovalTimerFires, Disconnect, GiveUp, CloseForIdle,
         SocketGoes, OtherButton, EnsureWebSocket, OnMetrics, ListInv, ListTypeOK
<1>2. ListTypeOK'
  BY <1>1 DEF ListInv, ListTypeOK, Registry!TypeOK, serverVars, deleteVars
<1>3. Onward /\ Born' = Born
  BY <1>1, ServerOnward DEF serverVars, Born
<1> QED BY <1>1, <1>2, <1>3, OnwardKeeps DEF ListInv, KnownAreBorn

LEMMA ListReloadStep ==
  ASSUME ListInv, NEW k \in Reload,
         Connect(k) \/ ServerAnswersReload(k) \/ OnReload(k) \/ ReloadFails(k)
  PROVE  ListInv'
<1>1. /\ UNCHANGED serverVars /\ UNCHANGED <<removalTimer, posted, lastProcessId>>
      /\ UNCHANGED deleteVars
      /\ connection' \in {"trying", "open", "closed"}
      /\ listed' \in {listed, reload[k].sims}
  BY DEF Connect, ServerAnswersReload, OnReload, ReloadFails, ListInv, ListTypeOK
<1>2. /\ \E st \in {"none", "sent", "answered"}, sims \in SUBSET Born :
           reload' = [reload EXCEPT ![k] = [state |-> st, sims |-> sims]]
  <2>1. {} \in SUBSET Born /\ ActiveSims \in SUBSET Born
    BY DEF ActiveSims, Born
  <2>2. CASE Connect(k)
    BY <2>1, <2>2 DEF Connect
  <2>3. CASE ServerAnswersReload(k)
    BY <2>1, <2>3 DEF ServerAnswersReload
  <2>4. CASE OnReload(k) \/ ReloadFails(k)
    BY <2>1, <2>4 DEF OnReload, ReloadFails, NoReload
  <2> QED BY <2>2, <2>3, <2>4
<1>3. Onward /\ Born' = Born /\ Born \subseteq Sim
  BY <1>1, ServerOnward DEF serverVars, Born
<1>4. reload' \in [Reload -> [state : {"none", "sent", "answered"}, sims : SUBSET Sim]]
  BY <1>2, <1>3 DEF ListInv, ListTypeOK
<1>5. ListTypeOK'
  BY <1>1, <1>4 DEF ListInv, ListTypeOK, Registry!TypeOK, serverVars, deleteVars
<1>6. \A j \in Reload : reload'[j].sims \subseteq Born
  BY <1>2 DEF ListInv, ListTypeOK, KnownAreBorn
<1> QED BY <1>1, <1>3, <1>5, <1>6, OnwardKeeps DEF ListInv, KnownAreBorn

\* Steps of the requests: one of them changes, or all of them fail.
LEMMA RequestKeeps ==
  ASSUME ListInv, Onward, ListTypeOK',
         listed' \subseteq listed, posted' \subseteq posted,
         \A k \in Reload : reload'[k].sims \subseteq reload[k].sims,
         \A type \in ListType : bulk'[type] \subseteq bulk[type] \cup listed,
         \A s \in Sim : \/ request'[s] = request[s]
                        \/ s \in Born /\ request'[s].state # "ok"
                        \/ s \in Born /\ Ended(s)'
                        \/ request'[s] = NoRequest
  PROVE  ListInv'
BY DEF ListInv, Onward, KnownAreBorn, DeletedStayEnded, NoRequest

LEMMA FailedRequest ==
  ASSUME NEW r \in [by : Caller, state : {"none", "sent", "ok", "refused"}]
  PROVE  /\ Failed(r) \in [by : Caller, state : {"none", "sent", "ok", "refused"}]
         /\ Failed(r).state \in {"none", "refused"}
BY DEF Failed

LEMMA ListSendStep ==
  ASSUME ListInv, NEW type \in ListType,
         StopAll(type) \/ \E s \in Sim : ClickStop(s) \/ LoopSends(type, s)
  PROVE  ListInv'
<1>1. /\ UNCHANGED serverVars
      /\ UNCHANGED <<listed, removalTimer, posted, reload, lastProcessId>>
      /\ connection' \in {"trying", "open", "closed"}
  BY DEF ClickStop, StopAll, LoopSends, Send, EnsureWebSocket, ListInv, ListTypeOK
<1>2. CASE StopAll(type)
  <2>1. OfType(listed, type) \subseteq listed
    BY DEF OfType
  <2>2. /\ bulk' \in [ListType -> SUBSET Sim] /\ UNCHANGED request
        /\ \A t \in ListType : bulk'[t] \subseteq bulk[t] \cup listed
    BY <1>2, <2>1 DEF StopAll, ListInv, ListTypeOK
  <2>3. ListTypeOK'
    BY <1>1, <2>2 DEF ListInv, ListTypeOK, Registry!TypeOK, serverVars
  <2>4. Onward
    BY <1>1, ServerOnward
  <2> QED BY <1>1, <2>2, <2>3, <2>4, RequestKeeps
<1>3. ASSUME NEW s \in Sim, ClickStop(s) \/ LoopSends(type, s) PROVE ListInv'
  <2>1. s \in Born
    BY <1>3 DEF ClickStop, LoopSends, ListInv, KnownAreBorn
  <2>2. \E c \in Caller : request' = [request EXCEPT ![s] = [by |-> c, state |-> "sent"]]
    BY <1>3 DEF ClickStop, LoopSends, Send, Caller
  <2>3. /\ request' \in [Sim -> [by : Caller, state : {"none", "sent", "ok", "refused"}]]
        /\ \A t \in Sim : request'[t] = request[t] \/ (t \in Born /\ request'[t].state # "ok")
    BY <2>1, <2>2 DEF ListInv, ListTypeOK
  <2>4. UNCHANGED bulk
    BY <1>3 DEF ClickStop, LoopSends, Send
  <2>5. ListTypeOK'
    BY <1>1, <2>3, <2>4 DEF ListInv, ListTypeOK, Registry!TypeOK, serverVars
  <2>6. Onward
    BY <1>1, ServerOnward
  <2> QED BY <1>1, <2>3, <2>4, <2>5, <2>6, RequestKeeps
<1> QED BY <1>2, <1>3

LEMMA ListAnswerStep ==
  ASSUME ListInv, NEW s \in Sim, ServerDeletes(s) \/ OnDeleteAnswer(s) \/ RequestFails(s)
  PROVE  ListInv'
<1> DEFINE Request == [by : Caller, state : {"none", "sent", "ok", "refused"}]
<1>1. request \in [Sim -> Request] /\ request[s] \in Request
  BY DEF ListInv, ListTypeOK
<1>2. NoRequest \in Request /\ NoRequest.state = "none"
  BY DEF NoRequest, Caller
<1>3. UNCHANGED <<connection, removalTimer, posted, reload, lastProcessId>>
  BY DEF ServerDeletes, OnDeleteAnswer, RequestFails
<1>4. request[s].state # "none" => s \in Born
  BY DEF ListInv, KnownAreBorn, NoRequest
<1>5. CASE ServerDeletes(s) /\ ~Refuses(s)
  <2>1. /\ request' = [request EXCEPT ![s].state = "ok"] /\ Delete(s)
        /\ UNCHANGED <<listed, bulk>> /\ s \in Born
    BY <1>4, <1>5 DEF ServerDeletes
  <2>2. Onward /\ Registry!TypeOK' /\ allocated' \subseteq Sim /\ Ended(s)'
    BY <2>1, ServerOnward
  <2>3. request' \in [Sim -> Request]
    BY <1>1, <2>1
  <2>4. ListTypeOK'
    BY <1>3, <2>1, <2>2, <2>3 DEF Delete, ListInv, ListTypeOK
  <2>5. \A t \in Sim : request'[t] = request[t] \/ (t \in Born /\ Ended(t)')
    BY <1>1, <2>1, <2>2
  <2> QED BY <1>3, <2>1, <2>2, <2>4, <2>5, RequestKeeps
<1>6. CASE (ServerDeletes(s) /\ Refuses(s)) \/ RequestFails(s)
  <2>1. /\ request' = [request EXCEPT ![s] = Failed(@)]
        /\ UNCHANGED serverVars /\ UNCHANGED <<listed, bulk>> /\ s \in Born
    BY <1>4, <1>6 DEF ServerDeletes, RequestFails
  <2>2. Failed(request[s]) \in Request /\ Failed(request[s]).state # "ok"
    BY <1>1, FailedRequest
  <2>3. request' \in [Sim -> Request]
    BY <1>1, <2>1, <2>2
  <2>4. ListTypeOK'
    BY <1>3, <2>1, <2>3 DEF ListInv, ListTypeOK, Registry!TypeOK, serverVars
  <2>5. \A t \in Sim : request'[t] = request[t] \/ (t \in Born /\ request'[t].state # "ok")
    BY <1>1, <2>1, <2>2
  <2>6. Onward
    BY <2>1, ServerOnward
  <2> QED BY <1>3, <2>1, <2>4, <2>5, <2>6, RequestKeeps
<1>7. CASE OnDeleteAnswer(s)
  <2>1. /\ request' = [request EXCEPT ![s] = NoRequest]
        /\ UNCHANGED serverVars /\ listed' \subseteq listed
        /\ bulk' = [type \in ListType |->
             IF type = request[s].by THEN bulk[type] \ {s} ELSE bulk[type]]
    BY <1>7 DEF OnDeleteAnswer
  <2>2. /\ bulk' \in [ListType -> SUBSET Sim]
        /\ \A type \in ListType : bulk'[type] \subseteq bulk[type]
    BY <2>1 DEF ListInv, ListTypeOK
  <2>3. request' \in [Sim -> Request]
    BY <1>1, <1>2, <2>1
  <2>4. ListTypeOK'
    BY <1>3, <2>1, <2>2, <2>3 DEF ListInv, ListTypeOK, Registry!TypeOK, serverVars
  <2>5. \A t \in Sim : request'[t] = request[t] \/ request'[t] = NoRequest
    BY <1>1, <1>2, <2>1
  <2>6. Onward
    BY <2>1, ServerOnward
  <2> QED BY <1>3, <2>1, <2>2, <2>4, <2>5, <2>6, RequestKeeps
<1> QED BY <1>5, <1>6, <1>7

LEMMA ListRestartStep == ListInv /\ Restart => ListInv'
<1> SUFFICES ASSUME ListInv, Restart PROVE ListInv'
  OBVIOUS
<1>1. /\ boot' = boot + 1 /\ boot < MaxRestarts
      /\ allocated' = {} /\ posted' = {}
      /\ connection' \in {"trying", connection}
      /\ reload' = [k \in Reload |-> NoReload]
      /\ request' = [s \in Sim |-> Failed(request[s])]
      /\ UNCHANGED <<simType, listed, removalTimer, bulk, lastProcessId>>
  BY DEF Restart
<1>2. Onward /\ Registry!TypeOK'
  BY ServerOnward
<1>3. request' \in [Sim -> [by : Caller, state : {"none", "sent", "ok", "refused"}]]
  BY <1>1, FailedRequest DEF ListInv, ListTypeOK
<1>4. \A s \in Sim : \/ s \in Born /\ request'[s].state # "ok"
                    \/ request'[s] = NoRequest
  <2>1. Failed(NoRequest) = NoRequest
    BY DEF Failed, NoRequest
  <2> QED BY <1>1, <2>1, FailedRequest DEF ListInv, ListTypeOK, KnownAreBorn
<1>5. \A k \in Reload : reload'[k].sims = {}
  BY <1>1 DEF NoReload
<1>6. ListTypeOK'
  <2>1. reload' \in [Reload -> [state : {"none", "sent", "answered"}, sims : SUBSET Sim]]
    BY <1>1 DEF NoReload
  <2>2. boot' \in 0..MaxRestarts
    BY <1>1, RestartAssumption DEF ListInv, ListTypeOK
  <2> QED BY <1>1, <1>2, <1>3, <2>1, <2>2 DEF ListInv, ListTypeOK
<1> QED BY <1>1, <1>2, <1>4, <1>5, <1>6, RequestKeeps

LEMMA ListStepKeepsInv == ListInv /\ [ListNext]_listVars => ListInv'
<1> SUFFICES ASSUME ListInv, [ListNext]_listVars PROVE ListInv'
  OBVIOUS
<1>1. CASE UNCHANGED listVars
  BY <1>1
  DEF listVars, serverVars, pageVars, deleteVars, ListInv, ListTypeOK, Registry!TypeOK,
      KnownAreBorn, DeletedStayEnded, Born, Ended
<1>2. ASSUME NEW s \in Sim, NEW type \in ListType, OtherStarts(s, type) \/ Post(s, type)
      PROVE  ListInv'
  BY <1>2, ListServerStep
<1>3. ASSUME NEW s \in Sim, OtherDeletes(s) \/ RegistryTimer(s)
      PROVE  ListInv'
  BY <1>3, ListServerStep DEF ListType
<1>4. ASSUME NEW s \in Sim, OnPostAnswer(s) \/ PostFails(s) \/ RemovalTimerFires(s)
      PROVE  ListInv'
  BY <1>4, ListPageStep
<1>5. ASSUME NEW k \in Reload,
             Connect(k) \/ ServerAnswersReload(k) \/ OnReload(k) \/ ReloadFails(k)
      PROVE  ListInv'
  BY <1>5, ListReloadStep
<1>6. CASE Disconnect \/ GiveUp \/ CloseForIdle \/ OtherButton \/ OnMetrics
  BY <1>6, ListPageStep
<1>7. ASSUME NEW s \in Sim, ClickStop(s)
      PROVE  ListInv'
  BY <1>7, ListSendStep DEF ListType
<1>8. ASSUME NEW type \in ListType, NEW s \in Sim, LoopSends(type, s)
      PROVE  ListInv'
  BY <1>8, ListSendStep
<1>9. ASSUME NEW type \in ListType, StopAll(type)
      PROVE  ListInv'
  BY <1>9, ListSendStep
<1>10. ASSUME NEW s \in Sim, ServerDeletes(s) \/ OnDeleteAnswer(s) \/ RequestFails(s)
       PROVE  ListInv'
  BY <1>10, ListAnswerStep
<1> QED
  BY <1>1, <1>2, <1>3, <1>4, <1>5, <1>6, <1>7, <1>8, <1>9, <1>10, ListRestartStep
  DEF ListNext

LEMMA ListInvAlways == ListSpec => []ListInv
BY ListInitInv, ListStepKeepsInv, PTL DEF ListSpec

\* Every value stays within its type.
THEOREM ListTypeCorrect == ListSpec => []ListTypeOK
BY ListInvAlways, PTL DEF ListInv

\* An entry of what still runs, or holds memory, leaves the list only with a
\* reload, another process or a timer of its own that fires: no DELETE takes it
\* away, whatever the registry and other clients did while it was awaited.
THEOREM EntryOfRunningStays == ListSpec => RunningKeepsEntry
<1> DEFINE Keeps == \A s \in listed : s \notin listed' /\ ~Ended(s) =>
             \/ reload' # reload
             \/ lastProcessId' # lastProcessId
             \/ (s \in removalTimer /\ s \notin removalTimer')
<1>1. ASSUME ListInv, [ListNext]_listVars PROVE Keeps
  <2>1. SUFFICES ASSUME NEW s \in listed, s \notin listed', ~Ended(s)
                 PROVE  \/ reload' # reload \/ lastProcessId' # lastProcessId
                        \/ s \in removalTimer /\ s \notin removalTimer'
    OBVIOUS
  <2>2. ListNext
    BY <1>1, <2>1 DEF listVars, pageVars
  <2>3. \/ \E t \in Sim : RemovalTimerFires(t) \/ OnDeleteAnswer(t)
        \/ \E k \in Reload : OnReload(k)
        \/ OnMetrics
    BY <2>1, <2>2
    DEF ListNext, OtherStarts, Post, OtherDeletes, RegistryTimer, OnPostAnswer, PostFails,
        Connect, ServerAnswersReload, ReloadFails, Disconnect, GiveUp, CloseForIdle, SocketGoes, OtherButton,
        Restart, ClickStop, Send, StopAll, LoopSends, ServerDeletes, RequestFails, pageVars
  <2>4. ASSUME NEW t \in Sim, RemovalTimerFires(t)
        PROVE  s \in removalTimer /\ s \notin removalTimer'
    <3>1. t = s
      BY <2>1, <2>4 DEF RemovalTimerFires
    <3> QED BY <2>4, <3>1 DEF RemovalTimerFires
  <2>5. ASSUME NEW t \in Sim, OnDeleteAnswer(t) PROVE FALSE
    <3>1. t = s /\ request[s].state = "ok"
      BY <2>1, <2>5 DEF OnDeleteAnswer
    <3> QED BY <1>1, <2>1, <3>1 DEF ListInv, DeletedStayEnded
  <2>6. ASSUME NEW k \in Reload, OnReload(k) PROVE reload' # reload
    <3>1. reload[k].state = "answered" /\ reload'[k].state = "none"
      BY <1>1, <2>6 DEF OnReload, ListInv, ListTypeOK, NoReload
    <3> QED BY <3>1
  <2>7. ASSUME OnMetrics PROVE lastProcessId' # lastProcessId
    BY <2>1, <2>7 DEF OnMetrics
  <2> QED BY <2>3, <2>4, <2>5, <2>6, <2>7
<1>2. ListInv /\ [ListNext]_listVars => [Keeps]_listVars
  BY <1>1
<1> QED BY <1>2, ListInvAlways, PTL DEF ListSpec, RunningKeepsEntry
=============================================================================
