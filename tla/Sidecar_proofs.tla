--------------------------- MODULE Sidecar_proofs ---------------------------
(***************************************************************************)
(* Theorems about the sidecar (Sidecar), for any number of forks,          *)
(* restarts, crashes and messages in flight, and about what a page makes   *)
(* of its probes (Responsiveness).  The two components share no state;     *)
(* each part below has an inductive invariant of its own.                  *)
(***************************************************************************)
EXTENDS Sidecar, Responsiveness, IdleTimeout_proofs, SequenceTheorems

----------------------------------------------------------------------------
(* What a channel tells its reader.                                        *)

LEMMA TellsNothing ==
  ASSUME NEW idle PROVE Tells(<<>>, idle, idle)
BY DEF Tells

LEMMA TellsOne ==
  ASSUME NEW idle, NEW s PROVE Tells(<<StatusText(idle)>>, s, idle)
BY DEF Tells

LEMMA AppendFacts ==
  ASSUME NEW q \in Seq(Message), NEW m \in Message
  PROVE  /\ Append(q, m) \in Seq(Message)
         /\ Len(q) \in Nat
         /\ Len(Append(q, m)) = Len(q) + 1
         /\ Append(q, m)[Len(q) + 1] = m
         /\ \A i \in 1..Len(q) : Append(q, m)[i] = q[i]
OBVIOUS

LEMMA TellsAppendedStatus ==
  ASSUME NEW q \in Seq(Message), NEW s, NEW idle, StatusText(idle) \in Message
  PROVE  Tells(Append(q, StatusText(idle)), s, idle)
<1> DEFINE r == Append(q, StatusText(idle))
<1>1. /\ Len(q) \in Nat /\ Len(r) = Len(q) + 1
      /\ r[Len(q) + 1] = StatusText(idle)
  BY AppendFacts
<1> HIDE DEF r
<1>2. /\ Len(r) \in 1..Len(r) /\ r[Len(r)] = StatusText(idle)
      /\ \A j \in 1..Len(r) : ~(j > Len(r))
  BY <1>1
<1>3. Tells(r, s, idle)
  BY <1>2 DEF Tells
<1> QED BY <1>3 DEF r

LEMMA TellsAppendedOther ==
  ASSUME NEW q \in Seq(Message), NEW s, NEW idle, Tells(q, s, idle),
         NEW m \in Message \ IdleMessage
  PROVE  Tells(Append(q, m), s, idle)
<1> DEFINE r == Append(q, m)
<1>1. /\ Len(q) \in Nat /\ Len(r) = Len(q) + 1
      /\ r[Len(q) + 1] = m
      /\ \A i \in 1..Len(q) : r[i] = q[i]
  BY AppendFacts
<1> HIDE DEF r
<1>2. ASSUME NEW i \in 1..Len(q), q[i] = StatusText(idle),
             \A j \in 1..Len(q) : j > i => q[j] \notin IdleMessage
      PROVE  Tells(r, s, idle)
  <2>1. i \in 1..Len(r) /\ r[i] = StatusText(idle)
    BY <1>1, <1>2
  <2>2. \A j \in 1..Len(r) : j > i => r[j] \notin IdleMessage
    BY <1>1, <1>2
  <2> QED BY <2>1, <2>2 DEF Tells
<1>3. ASSUME \A i \in 1..Len(q) : q[i] \notin IdleMessage, s = idle
      PROVE  Tells(r, s, idle)
  <2>1. \A i \in 1..Len(r) : r[i] \notin IdleMessage
    BY <1>1, <1>3
  <2> QED BY <1>3, <2>1 DEF Tells
<1> QED BY <1>2, <1>3 DEF Tells, r

\* Reading the head: it either sets the reader's flag or leaves it alone.
LEMMA TellsAfterHead ==
  ASSUME NEW q \in Seq(Message), q # <<>>, NEW s, NEW t, NEW idle, Tells(q, s, idle),
         Head(q) \notin IdleMessage => t = s,
         Head(q) = StatusText(idle) => t = idle
  PROVE  Tells(Tail(q), t, idle)
<1> DEFINE r == Tail(q)
<1>1. /\ Len(q) \in Nat \ {0} /\ Len(r) = Len(q) - 1
      /\ Head(q) = q[1]
      /\ \A i \in 1..Len(r) : r[i] = q[i + 1]
  BY EmptySeq, HeadTailProperties
<1> HIDE DEF r
<1>2. ASSUME NEW i \in 1..Len(q), q[i] = StatusText(idle),
             \A j \in 1..Len(q) : j > i => q[j] \notin IdleMessage
      PROVE  Tells(r, t, idle)
  <2>1. CASE i = 1
    <3>1. \A j \in 1..Len(r) : r[j] \notin IdleMessage
      BY <1>1, <1>2, <2>1
    <3>2. t = idle
      BY <1>1, <1>2, <2>1
    <3> QED BY <3>1, <3>2 DEF Tells
  <2>2. CASE i # 1
    <3>1. i - 1 \in 1..Len(r) /\ r[i - 1] = StatusText(idle)
      BY <1>1, <1>2, <2>2
    <3>2. \A j \in 1..Len(r) : j > i - 1 => r[j] \notin IdleMessage
      BY <1>1, <1>2, <2>2
    <3> QED BY <3>1, <3>2 DEF Tells
  <2> QED BY <2>1, <2>2
<1>3. ASSUME \A i \in 1..Len(q) : q[i] \notin IdleMessage, s = idle
      PROVE  Tells(r, t, idle)
  <2>1. \A i \in 1..Len(r) : r[i] \notin IdleMessage
    BY <1>1, <1>3
  <2>2. t = idle
    BY <1>1, <1>3
  <2> QED BY <2>1, <2>2 DEF Tells
<1> QED BY <1>2, <1>3 DEF Tells, r

----------------------------------------------------------------------------
(* The inductive invariant.                                                *)

\* At most one restart timer is armed, and only when the last sidecar is gone;
\* a main process that is down has neither; a process that was never forked
\* knows nothing.
Forks ==
  /\ \A p \in Process : Up(p) /\ p \notin orphans => p = sidecarProcess
  /\ restartTimers <= 1
  /\ restartTimers > 0
       => /\ sidecarProcess # NoProcess
          /\ proc[sidecarProcess] = "reaped"
  /\ ~mainUp => restartTimers = 0 /\ sidecarProcess = NoProcess
  /\ sidecarProcess # NoProcess
       => /\ proc[sidecarProcess] # "unforked"
          /\ sidecarProcess \notin orphans
  /\ \A p \in Process :
       /\ p \in orphans => proc[p] # "unforked"
       /\ proc[p] = "unforked" => channel[p] = <<>> /\ suspended[p] = FALSE

IInv == IdleInv /\ SidecarTypeOK /\ Forks /\ SidecarAgrees

LEMMA ForksOneProber == SidecarTypeOK /\ Forks => OneProber
<1> SUFFICES ASSUME SidecarTypeOK, Forks, NEW p \in Process, Up(p), p \notin orphans
             PROVE  p = sidecarProcess /\ restartTimers = 0
  BY DEF OneProber, Children
<1>1. p = sidecarProcess /\ sidecarProcess # NoProcess
  BY NoProcessAssumption DEF Forks
<1>2. ~(restartTimers > 0)
  BY <1>1 DEF Forks, Up
<1> QED BY <1>1, <1>2 DEF SidecarTypeOK

LEMMA InitHolds == Init => IInv
<1> SUFFICES ASSUME Init PROVE IInv
  OBVIOUS
<1>1. IdleInv /\ IdleTypeOK
  BY IdleInitInv DEF Init, IdleInv
<1>2. SidecarTypeOK
  <2>1. /\ mainUp \in BOOLEAN /\ isShuttingDown \in BOOLEAN
        /\ sidecarProcess \in Process \cup {NoProcess}
        /\ restartTimers \in Nat
        /\ proc \in [Process -> Life]
        /\ orphans \in SUBSET Process
    BY DEF Init, Life
  <2>2. /\ suspended \in [Process -> BOOLEAN]
        /\ slow \in [Process -> BOOLEAN]
    BY DEF Init
  <2>3. channel \in [Process -> Seq(Message)]
    <3>1. <<>> \in Seq(Message)
      OBVIOUS
    <3> QED BY <3>1 DEF Init
  <2>4. inFlight \in [Process -> 0..MaxProbes]
    BY BoundAssumption DEF Init
  <2> QED BY <1>1, <2>1, <2>2, <2>3, <2>4 DEF SidecarTypeOK
<1>3. Forks /\ SidecarAgrees
  BY DEF Init, Forks, SidecarAgrees, Up
<1> QED BY <1>1, <1>2, <1>3 DEF IInv

LEMMA StatusIsMessage ==
  /\ \A b : StatusText(b) \in Message
  /\ StatusText(TRUE) = "idle" /\ StatusText(FALSE) = "awake"
BY DEF StatusText, Message, IdleMessage

\* What the main process sends reaches the channel of the sidecar, or is lost
\* with it; no other channel changes.
LEMMA SendKeepsShape ==
  ASSUME IInv, NEW m \in Message, Send(m)
  PROVE  /\ channel' \in [Process -> Seq(Message)]
         /\ \A p \in Process : proc[p] = "unforked" => channel'[p] = channel[p]
         /\ sidecarProcess # NoProcess /\ Up(sidecarProcess)
              => channel'[sidecarProcess] = Append(channel[sidecarProcess], m)
<1>1. CASE sidecarProcess # NoProcess /\ Up(sidecarProcess)
  <2>1. sidecarProcess \in Process /\ channel \in [Process -> Seq(Message)]
    BY <1>1 DEF IInv, SidecarTypeOK
  <2>2. Append(channel[sidecarProcess], m) \in Seq(Message)
    BY <2>1, AppendFacts
  <2>3. channel' = [channel EXCEPT ![sidecarProcess] = Append(channel[sidecarProcess], m)]
    BY <1>1 DEF Send
  <2> QED BY <1>1, <2>1, <2>2, <2>3 DEF Up
<1>2. CASE ~(sidecarProcess # NoProcess /\ Up(sidecarProcess))
  BY <1>2 DEF IInv, SidecarTypeOK, Send
<1> QED BY <1>1, <1>2

LEMMA ActivityKeeps == ASSUME IInv, Activity PROVE IInv'
<1> USE DEF IInv
<1>1. /\ ~isIdle' /\ isIdle' = FALSE
      /\ IdleInv' /\ IdleTypeOK'
  <2>1. ~isIdle'
    BY DEF Activity, RecordActivity
  <2>2. isIdle' = FALSE
    BY DEF Activity, RecordActivity
  <2>3. IdleInv' /\ IdleTypeOK'
    BY ActivityKeepsInv DEF Activity, IdleInv
  <2> QED BY <2>1, <2>2, <2>3
<1>2. UNCHANGED <<mainUp, isShuttingDown, sidecarProcess, restartTimers, proc,
                  orphans, suspended, slow, inFlight>>
  BY DEF Activity
<1>3. CASE isIdle
  <2>1. Send(StatusText(FALSE))
    BY <1>3, StatusIsMessage DEF Activity
  <2>2. /\ channel' \in [Process -> Seq(Message)]
        /\ \A p \in Process : proc[p] = "unforked" => channel'[p] = channel[p]
        /\ sidecarProcess # NoProcess /\ Up(sidecarProcess)
             => channel'[sidecarProcess] = Append(channel[sidecarProcess], StatusText(FALSE))
    BY <2>1, SendKeepsShape, StatusIsMessage
  <2>3. SidecarTypeOK' /\ Forks'
    BY <1>1, <1>2, <2>2 DEF SidecarTypeOK, Forks, Up
  <2>4. SidecarAgrees'
    BY <1>1, <1>2, <2>2, TellsAppendedStatus, StatusIsMessage
    DEF SidecarAgrees, SidecarTypeOK, Up
  <2> QED BY <1>1, <2>3, <2>4
<1>4. CASE ~isIdle
  <2>1. channel' = channel /\ isIdle = FALSE
    BY <1>4 DEF Activity, SidecarTypeOK, IdleTypeOK
  <2>2. SidecarTypeOK' /\ Forks'
    BY <1>1, <1>2, <2>1 DEF SidecarTypeOK, Forks, Up
  <2>3. SidecarAgrees'
    BY <1>1, <1>2, <2>1 DEF SidecarAgrees, Up
  <2> QED BY <1>1, <2>2, <2>3
<1> QED BY <1>3, <1>4

LEMMA CheckKeeps == ASSUME IInv, IdleCheckFires PROVE IInv'
<1> USE DEF IInv
<1>1. IdleInv' /\ IdleTypeOK'
  BY CheckKeepsInv DEF IdleCheckFires, IdleInv
<1>2. UNCHANGED <<mainUp, isShuttingDown, sidecarProcess, restartTimers, proc,
                  orphans, suspended, slow, inFlight>>
  BY DEF IdleCheckFires
<1>3. CASE isIdle'
  <2>1. Send(StatusText(TRUE)) /\ isIdle' = TRUE
    BY <1>1, <1>3, StatusIsMessage DEF IdleCheckFires, IdleTypeOK
  <2>2. /\ channel' \in [Process -> Seq(Message)]
        /\ \A p \in Process : proc[p] = "unforked" => channel'[p] = channel[p]
        /\ sidecarProcess # NoProcess /\ Up(sidecarProcess)
             => channel'[sidecarProcess] = Append(channel[sidecarProcess], StatusText(TRUE))
    BY <2>1, SendKeepsShape, StatusIsMessage
  <2>3. SidecarTypeOK' /\ Forks'
    BY <1>1, <1>2, <2>2 DEF SidecarTypeOK, Forks, Up
  <2>4. SidecarAgrees'
    BY <1>2, <2>1, <2>2, TellsAppendedStatus, StatusIsMessage
    DEF SidecarAgrees, SidecarTypeOK, Up
  <2> QED BY <1>1, <2>3, <2>4
<1>4. CASE ~isIdle'
  <2>1. channel' = channel
    BY <1>4 DEF IdleCheckFires
  <2>2. isIdle' = isIdle
    BY <1>4 DEF IdleCheckFires, CheckIdle
  <2>3. SidecarTypeOK' /\ Forks'
    BY <1>1, <1>2, <2>1 DEF SidecarTypeOK, Forks, Up
  <2>4. SidecarAgrees'
    BY <1>2, <2>1, <2>2 DEF SidecarAgrees, Up
  <2> QED BY <1>1, <2>3, <2>4
<1> QED BY <1>3, <1>4

LEMMA SlowStateKeeps ==
  ASSUME IInv, NEW m \in {"slow", "normal"}, SlowRequestState(m) PROVE IInv'
<1> USE DEF IInv
<1>1. m \in Message \ IdleMessage
  BY DEF Message, IdleMessage
<1>2. Send(m) /\ UNCHANGED <<idleVars, mainUp, isShuttingDown, sidecarProcess,
                             restartTimers, proc, orphans, suspended, slow, inFlight>>
  BY DEF SlowRequestState
<1>3. IdleInv' /\ IdleTypeOK' /\ isIdle' = isIdle
  BY <1>2 DEF idleVars, IdleInv, IdleTypeOK, AlwaysWatching
<1>4. /\ channel' \in [Process -> Seq(Message)]
      /\ \A p \in Process : proc[p] = "unforked" => channel'[p] = channel[p]
      /\ sidecarProcess # NoProcess /\ Up(sidecarProcess)
           => channel'[sidecarProcess] = Append(channel[sidecarProcess], m)
  BY <1>1, <1>2, SendKeepsShape
<1>5. SidecarTypeOK' /\ Forks'
  BY <1>2, <1>3, <1>4 DEF SidecarTypeOK, Forks, Up
<1>6. SidecarAgrees'
  <2> SUFFICES ASSUME sidecarProcess # NoProcess, Up(sidecarProcess)
               PROVE  Tells(channel'[sidecarProcess], suspended[sidecarProcess], isIdle)
    BY <1>2, <1>3 DEF SidecarAgrees, Up
  <2>1. channel[sidecarProcess] \in Seq(Message)
    BY DEF SidecarTypeOK
  <2>2. Tells(channel[sidecarProcess], suspended[sidecarProcess], isIdle)
    BY DEF SidecarAgrees
  <2> QED BY <1>1, <1>4, <2>1, <2>2, TellsAppendedOther
<1> QED BY <1>3, <1>5, <1>6

LEMMA TimeKeeps == ASSUME IInv, TimePasses PROVE IInv'
<1>1. IdleInv' /\ IdleTypeOK' /\ isIdle' = isIdle
  BY TickKeepsInv DEF TimePasses, IInv, IdleInv, IdleTick
<1>2. UNCHANGED sidecarVars
  BY DEF TimePasses
<1> QED BY <1>1, <1>2 DEF IInv, sidecarVars, SidecarTypeOK, Forks, SidecarAgrees, Up

\* A sidecar that ends takes its channel and flags with it.
LEMMA EndsShape ==
  ASSUME IInv, NEW p \in Process, Up(p), Ends(p)
  PROVE  /\ proc' \in [Process -> Life]
         /\ channel' \in [Process -> Seq(Message)]
         /\ suspended' \in [Process -> BOOLEAN]
         /\ slow' \in [Process -> BOOLEAN]
         /\ inFlight' \in [Process -> 0..MaxProbes]
         /\ proc'[p] = "exited"
         /\ \A x \in Process \ {p} : /\ proc'[x] = proc[x]
                                     /\ channel'[x] = channel[x]
                                     /\ suspended'[x] = suspended[x]
<1> USE DEF IInv, SidecarTypeOK, Ends
<1>1. channel' \in [Process -> Seq(Message)]
  <2>1. <<>> \in Seq(Message)
    OBVIOUS
  <2> QED BY <2>1
<1>2. /\ proc' \in [Process -> Life]
      /\ suspended' \in [Process -> BOOLEAN]
      /\ slow' \in [Process -> BOOLEAN]
  BY DEF Life
<1>3. inFlight' \in [Process -> 0..MaxProbes]
  BY BoundAssumption
<1>4. /\ proc'[p] = "exited"
      /\ \A x \in Process \ {p} : /\ proc'[x] = proc[x]
                                  /\ channel'[x] = channel[x]
                                  /\ suspended'[x] = suspended[x]
  OBVIOUS
<1> QED BY <1>1, <1>2, <1>3, <1>4

\* Steps in which one sidecar ends and the main process notices nothing.
LEMMA EndsKeeps ==
  ASSUME IInv, NEW p \in Process, Up(p), Ends(p),
         UNCHANGED <<idleVars, mainUp, sidecarProcess, restartTimers, orphans>>,
         isShuttingDown' \in BOOLEAN
  PROVE  IInv'
<1>1. IdleInv' /\ IdleTypeOK' /\ isIdle' = isIdle
  BY DEF IInv, idleVars, IdleInv, IdleTypeOK, AlwaysWatching
<1>2. SidecarTypeOK'
  BY <1>1, EndsShape DEF IInv, SidecarTypeOK
<1>3. Forks'
  BY EndsShape DEF IInv, SidecarTypeOK, Forks, Up
<1>4. SidecarAgrees'
  BY <1>1, EndsShape DEF IInv, SidecarTypeOK, SidecarAgrees, Up
<1> QED BY <1>1, <1>2, <1>3, <1>4 DEF IInv

LEMMA ShutdownKeeps == ASSUME IInv, Shutdown PROVE IInv'
<1>1. CASE sidecarProcess # NoProcess /\ Up(sidecarProcess)
  <2>1. Ends(sidecarProcess) /\ sidecarProcess \in Process
    BY <1>1 DEF Shutdown, KillSidecar, IInv, SidecarTypeOK
  <2> QED BY <1>1, <2>1, EndsKeeps DEF Shutdown
<1>2. CASE ~(sidecarProcess # NoProcess /\ Up(sidecarProcess))
  <2>1. UNCHANGED memory
    BY <1>2 DEF Shutdown, KillSidecar
  <2> QED BY <2>1 DEF Shutdown, memory, idleVars, IInv, IdleInv, IdleTypeOK,
             AlwaysWatching, SidecarTypeOK, Forks, SidecarAgrees, Up
<1> QED BY <1>1, <1>2

LEMMA MainEndsKeeps ==
  ASSUME IInv, NEW handlersRun \in BOOLEAN, MainEnds(handlersRun) PROVE IInv'
<1>1. /\ mainUp' = FALSE /\ sidecarProcess' = NoProcess /\ restartTimers' = 0
      /\ UNCHANGED <<idleVars, isShuttingDown>>
  BY DEF MainEnds
<1>2. IdleInv' /\ IdleTypeOK'
  BY <1>1 DEF IInv, idleVars, IdleInv, IdleTypeOK, AlwaysWatching
<1>3. SidecarAgrees'
  BY <1>1 DEF SidecarAgrees
<1>4. CASE handlersRun /\ sidecarProcess # NoProcess /\ Up(sidecarProcess)
  <2>1. /\ Ends(sidecarProcess) /\ sidecarProcess \in Process
        /\ orphans' = orphans
    BY <1>4 DEF MainEnds, KillSidecar, IInv, SidecarTypeOK
  <2>2. SidecarTypeOK'
    BY <1>1, <1>2, <1>4, <2>1, EndsShape DEF IInv, SidecarTypeOK
  <2>3. Forks'
    <3>1. /\ proc'[sidecarProcess] = "exited"
          /\ \A x \in Process \ {sidecarProcess} : /\ proc'[x] = proc[x]
                                                   /\ channel'[x] = channel[x]
                                                   /\ suspended'[x] = suspended[x]
      BY <1>4, <2>1, EndsShape
    <3>2. \A x \in Process : ~(proc'[x] = "up" /\ x \notin orphans)
      BY <3>1 DEF IInv, Forks, Up
    <3>3. \A x \in Process :
            /\ x \in orphans => proc'[x] # "unforked"
            /\ proc'[x] = "unforked" => channel'[x] = <<>> /\ suspended'[x] = FALSE
      BY <3>1 DEF IInv, Forks
    <3> QED BY <1>1, <2>1, <3>2, <3>3 DEF Forks, Up
  <2> QED BY <1>2, <1>3, <2>2, <2>3 DEF IInv
<1>5. CASE handlersRun /\ ~(sidecarProcess # NoProcess /\ Up(sidecarProcess))
  <2>1. UNCHANGED memory /\ orphans' = orphans
    BY <1>5 DEF MainEnds, KillSidecar
  <2>2. SidecarTypeOK'
    BY <1>1, <1>2, <2>1 DEF IInv, SidecarTypeOK, memory
  <2>3. Forks'
    BY <1>1, <1>5, <2>1, NoProcessAssumption
    DEF IInv, SidecarTypeOK, Forks, Up, memory
  <2> QED BY <1>2, <1>3, <2>2, <2>3 DEF IInv
<1>6. CASE ~handlersRun
  <2>1. UNCHANGED memory /\ orphans' = orphans \cup Children
    BY <1>6 DEF MainEnds
  <2>2. SidecarTypeOK'
    BY <1>1, <1>2, <2>1 DEF IInv, SidecarTypeOK, memory, Children
  <2>3. Forks'
    BY <1>1, <2>1 DEF IInv, SidecarTypeOK, Forks, Up, memory, Children
  <2> QED BY <1>2, <1>3, <2>2, <2>3 DEF IInv
<1> QED BY <1>4, <1>5, <1>6

\* The new process is told at once if the app is idle, before any change of
\* state can be sent to it.
LEMMA StartKeeps ==
  ASSUME IInv, NEW p \in Process, NEW idle \in BOOLEAN, StartSidecar(p, idle),
         mainUp', isIdle' = idle, IdleInv', mainUp' \in BOOLEAN,
         isShuttingDown' \in BOOLEAN,
         \A x \in Process : ~(Up(x) /\ x \notin orphans),
         restartTimers' = 0, orphans' = orphans
  PROVE  IInv'
<1> USE DEF IInv
<1>1. /\ proc[p] = "unforked"
      /\ \/ proc' = [proc EXCEPT ![p] = "up"]
         \/ proc' = [proc EXCEPT ![p] = "failed"]
      /\ sidecarProcess' = p
      /\ UNCHANGED <<suspended, slow, inFlight>>
  BY DEF StartSidecar
<1>2. /\ channel[p] = <<>> /\ suspended[p] = FALSE /\ p \notin orphans
  BY <1>1 DEF Forks
<1>3. /\ channel' \in [Process -> Seq(Message)]
      /\ \A x \in Process \ {p} : channel'[x] = channel[x]
      /\ proc'[p] = "up" /\ idle => channel'[p] = <<"idle">>
      /\ proc'[p] = "up" /\ ~idle => channel'[p] = <<>>
  <2>1. <<"idle">> \in Seq(Message)
    BY DEF Message, IdleMessage
  <2>2. CASE idle /\ proc'[p] = "up"
    <3>1. channel' = [channel EXCEPT ![p] = <<"idle">>]
      BY <2>2 DEF StartSidecar, SidecarTypeOK
    <3> QED BY <2>1, <2>2, <3>1 DEF SidecarTypeOK
  <2>3. CASE ~(idle /\ proc'[p] = "up")
    <3>1. channel' = channel
      BY <2>3 DEF StartSidecar, SidecarTypeOK
    <3> QED BY <1>2, <2>3, <3>1 DEF SidecarTypeOK
  <2> QED BY <2>2, <2>3
<1>4. SidecarTypeOK'
  BY <1>1, <1>3 DEF SidecarTypeOK, Life, IdleInv
<1>5. Forks'
  BY <1>1, <1>2, <1>3, NoProcessAssumption DEF Forks, SidecarTypeOK, Up
<1>6. SidecarAgrees'
  <2>1. CASE idle /\ proc'[p] = "up"
    <3>1. channel'[p] = <<StatusText(idle)>>
      BY <1>3, <2>1 DEF StatusText
    <3> QED BY <1>1, <3>1, TellsOne DEF SidecarAgrees
  <2>2. CASE ~idle /\ proc'[p] = "up"
    <3>1. channel'[p] = <<>> /\ suspended'[p] = idle
      BY <1>1, <1>2, <1>3, <2>2
    <3> QED BY <1>1, <3>1, TellsNothing DEF SidecarAgrees
  <2>3. CASE proc'[p] # "up"
    BY <1>1, <2>3 DEF SidecarAgrees, Up
  <2> QED BY <2>1, <2>2, <2>3
<1> QED BY <1>4, <1>5, <1>6

LEMMA BootKeeps == ASSUME IInv, NEW p \in Process, Boot(p) PROVE IInv'
<1>1. IdleInv' /\ isIdle' = FALSE
  <2>1. isIdle' = FALSE /\ ~isIdle'
    BY DEF Boot, IdleBoot
  <2>2. IdleTypeOK'
    <3>1. isIdle' \in BOOLEAN
      BY <2>1
    <3>2. elapsed' \in Int /\ checkTimer' \in Nat /\ quiet' \in Nat
      BY PeriodPositive, MaxStartupAssumption DEF Boot, IdleBoot
    <3> QED
      BY <3>1, <3>2 DEF Boot, IdleBoot, IInv, IdleInv, IdleTypeOK
  <2> QED
    BY <2>1, <2>2, PeriodPositive, MaxStartupAssumption, MaxAdjustmentsAssumption
    DEF Boot, IdleBoot, IInv, IdleInv, AlwaysWatching, Unarmed, IdleTypeOK
<1>2. /\ mainUp' /\ mainUp' \in BOOLEAN /\ isShuttingDown' \in BOOLEAN
      /\ restartTimers' = 0 /\ orphans' = orphans
      /\ StartSidecar(p, FALSE)
  BY DEF Boot
<1>3. \A x \in Process : ~(Up(x) /\ x \notin orphans)
  BY NoProcessAssumption DEF Boot, IInv, Forks
<1> QED BY <1>1, <1>2, <1>3, StartKeeps

LEMMA RestartKeeps == ASSUME IInv, NEW p \in Process, Restart(p) PROVE IInv'
<1>1. IdleInv' /\ isIdle' = isIdle /\ isIdle \in BOOLEAN
  BY DEF Restart, idleVars, IInv, IdleInv, IdleTypeOK, AlwaysWatching
<1>2. /\ restartTimers = 1 /\ restartTimers' = 0
  BY DEF Restart, IInv, SidecarTypeOK, Forks
<1>3. \A x \in Process : ~(Up(x) /\ x \notin orphans)
  BY <1>2 DEF IInv, Forks, Up
<1>4. /\ mainUp /\ mainUp' \in BOOLEAN /\ isShuttingDown' \in BOOLEAN
      /\ mainUp' = mainUp /\ orphans' = orphans
      /\ StartSidecar(p, isIdle)
  BY <1>2 DEF Restart, IInv, SidecarTypeOK, Forks
<1> QED BY <1>1, <1>2, <1>3, <1>4, StartKeeps

LEMMA OnExitKeeps == ASSUME IInv, NEW p \in Process, OnExit(p) PROVE IInv'
<1> USE DEF IInv
<1>1. IdleInv' /\ IdleTypeOK' /\ isIdle' = isIdle
  BY DEF OnExit, idleVars, IdleInv, IdleTypeOK, AlwaysWatching
<1>2. /\ proc' = [proc EXCEPT ![p] = "reaped"] /\ p = sidecarProcess
      /\ proc[p] = "exited" /\ mainUp
      /\ restartTimers' \in {restartTimers, restartTimers + 1}
      /\ UNCHANGED <<mainUp, isShuttingDown, sidecarProcess, orphans, channel,
                     suspended, slow, inFlight>>
  BY DEF OnExit
<1>3. restartTimers = 0
  BY <1>2 DEF Forks, SidecarTypeOK
<1>4. SidecarTypeOK'
  BY <1>1, <1>2, <1>3 DEF SidecarTypeOK, Life
<1>5. Forks'
  BY <1>2, <1>3, NoProcessAssumption DEF Forks, SidecarTypeOK, Up
<1>6. SidecarAgrees'
  BY <1>2 DEF SidecarAgrees, SidecarTypeOK, Up
<1> QED BY <1>1, <1>4, <1>5, <1>6

LEMMA DiesKeeps == ASSUME IInv, NEW p \in Process, Dies(p) PROVE IInv'
BY EndsKeeps DEF Dies, IInv, SidecarTypeOK

\* Reading a message that sets isIdle to t, or leaves it at t.
LEMMA ReadKeeps ==
  ASSUME IInv, NEW p \in Process, NEW t \in BOOLEAN,
         NextMessage(p, Message),
         suspended' = [suspended EXCEPT ![p] = t],
         slow' \in [Process -> BOOLEAN],
         Head(channel[p]) \notin IdleMessage => t = suspended[p],
         Head(channel[p]) = StatusText(isIdle) => t = isIdle
  PROVE  IInv'
<1> USE DEF IInv
<1>1. /\ Up(p) /\ channel[p] # <<>>
      /\ channel' = [channel EXCEPT ![p] = Tail(channel[p])]
      /\ UNCHANGED <<idleVars, mainUp, isShuttingDown, sidecarProcess, restartTimers,
                     proc, orphans, inFlight>>
  BY DEF NextMessage
<1>2. IdleInv' /\ IdleTypeOK' /\ isIdle' = isIdle
  BY <1>1 DEF idleVars, IdleInv, IdleTypeOK, AlwaysWatching
<1>3. channel[p] \in Seq(Message) /\ Tail(channel[p]) \in Seq(Message)
  <2>1. channel[p] \in Seq(Message)
    BY DEF SidecarTypeOK
  <2> QED BY <1>1, <2>1, HeadTailProperties
<1>4. SidecarTypeOK'
  BY <1>1, <1>2, <1>3 DEF SidecarTypeOK
<1>5. Forks'
  BY <1>1 DEF Forks, SidecarTypeOK, Up
<1>6. SidecarAgrees'
  <2> SUFFICES ASSUME sidecarProcess # NoProcess, Up(sidecarProcess)
               PROVE  Tells(channel'[sidecarProcess], suspended'[sidecarProcess], isIdle)
    BY <1>1, <1>2 DEF SidecarAgrees, Up
  <2>1. Tells(channel[sidecarProcess], suspended[sidecarProcess], isIdle)
    BY DEF SidecarAgrees
  <2>2. CASE sidecarProcess = p
    <3>1. channel'[p] = Tail(channel[p]) /\ suspended'[p] = t
      BY <1>1 DEF SidecarTypeOK
    <3>2. Tells(Tail(channel[p]), t, isIdle)
      BY <1>1, <1>3, <2>1, <2>2, TellsAfterHead
    <3> QED BY <2>2, <3>1, <3>2
  <2>3. CASE sidecarProcess # p
    <3>1. /\ channel'[sidecarProcess] = channel[sidecarProcess]
          /\ suspended'[sidecarProcess] = suspended[sidecarProcess]
      BY <1>1, <2>3 DEF SidecarTypeOK
    <3> QED BY <2>1, <3>1
  <2> QED BY <2>2, <2>3
<1> QED BY <1>2, <1>4, <1>5, <1>6

LEMMA OnIdleMessageKeeps ==
  ASSUME IInv, NEW p \in Process, OnIdleMessage(p) PROVE IInv'
<1> DEFINE t == (Head(channel[p]) = "idle")
<1>1. /\ NextMessage(p, IdleMessage) /\ slow' = slow
      /\ suspended' = [suspended EXCEPT ![p] = t]
  BY DEF OnIdleMessage
<1>2. NextMessage(p, Message) /\ Head(channel[p]) \in IdleMessage
  BY <1>1 DEF NextMessage, Message
<1>3. ASSUME Head(channel[p]) = StatusText(isIdle) PROVE t = isIdle
  <2>1. isIdle = TRUE \/ isIdle = FALSE
    BY DEF IInv, SidecarTypeOK, IdleTypeOK
  <2>2. CASE isIdle = TRUE
    BY <1>3, <2>2, StatusIsMessage
  <2>3. CASE isIdle = FALSE
    BY <1>3, <2>3, StatusIsMessage
  <2> QED BY <2>1, <2>2, <2>3
<1>4. slow' \in [Process -> BOOLEAN]
  BY <1>1 DEF IInv, SidecarTypeOK
<1>5. t \in BOOLEAN
  OBVIOUS
<1> HIDE DEF t
<1> QED BY <1>1, <1>2, <1>3, <1>4, <1>5, ReadKeeps

LEMMA OnSlowMessageKeeps ==
  ASSUME IInv, NEW p \in Process, OnSlowMessage(p) PROVE IInv'
<1> DEFINE t == suspended[p]
<1>1. /\ NextMessage(p, {"slow", "normal"}) /\ suspended' = suspended
      /\ slow' = [slow EXCEPT ![p] = (Head(channel[p]) = "slow")]
  BY DEF OnSlowMessage
<1>2. /\ NextMessage(p, Message)
      /\ Head(channel[p]) # "idle" /\ Head(channel[p]) # "awake"
  BY <1>1 DEF NextMessage, Message
<1>3. Head(channel[p]) # StatusText(isIdle)
  BY <1>2 DEF StatusText
<1>4. slow' \in [Process -> BOOLEAN] /\ t \in BOOLEAN
  BY <1>1 DEF IInv, SidecarTypeOK
<1>5. suspended' = [suspended EXCEPT ![p] = t]
  BY <1>1 DEF IInv, SidecarTypeOK
<1>6. Head(channel[p]) \notin IdleMessage => t = suspended[p]
  OBVIOUS
<1> HIDE DEF t
<1> QED BY <1>2, <1>3, <1>4, <1>5, <1>6, ReadKeeps

\* Probes change nothing that the invariant relates.
LEMMA ProbeCountKeeps ==
  ASSUME IInv, inFlight' \in [Process -> 0..MaxProbes],
         UNCHANGED <<idleVars, mainUp, isShuttingDown, sidecarProcess, restartTimers,
                     proc, orphans, channel, suspended, slow>>
  PROVE  IInv'
BY DEF IInv, idleVars, IdleInv, IdleTypeOK, AlwaysWatching, SidecarTypeOK, Forks,
       SidecarAgrees, Up

LEMMA ProbeTickKeeps == ASSUME IInv, NEW p \in Process, ProbeTick(p) PROVE IInv'
<1>1. inFlight' \in [Process -> 0..MaxProbes]
  BY BoundAssumption DEF ProbeTick, IInv, SidecarTypeOK
<1> QED BY <1>1, ProbeCountKeeps DEF ProbeTick

LEMMA ProbeSettlesKeeps ==
  ASSUME IInv, NEW p \in Process, ProbeSettles(p) PROVE IInv'
<1>1. CASE p \in orphans
  BY <1>1, EndsKeeps DEF ProbeSettles, IInv, SidecarTypeOK
<1>2. CASE p \notin orphans
  <2>1. inFlight' \in [Process -> 0..MaxProbes]
    <3>1. inFlight' = [inFlight EXCEPT ![p] = inFlight[p] - 1] /\ inFlight[p] > 0
      BY <1>2 DEF ProbeSettles
    <3>2. inFlight[p] \in 0..MaxProbes /\ inFlight \in [Process -> 0..MaxProbes]
      BY DEF IInv, SidecarTypeOK
    <3>3. inFlight[p] - 1 \in 0..MaxProbes
      BY <3>1, <3>2, BoundAssumption
    <3> QED BY <3>1, <3>2, <3>3
  <2> QED BY <1>2, <2>1, ProbeCountKeeps DEF ProbeSettles
<1> QED BY <1>1, <1>2

LEMMA Inductive == IInv /\ [Next]_vars => IInv'
<1> SUFFICES ASSUME IInv, [Next]_vars PROVE IInv'
  OBVIOUS
<1>1. CASE UNCHANGED vars
  BY <1>1 DEF vars, sidecarVars, IInv, idleVars, IdleInv, IdleTypeOK, AlwaysWatching,
              SidecarTypeOK, Forks, SidecarAgrees, Up
<1>2. CASE Activity \/ IdleCheckFires \/ TimePasses \/ Shutdown
  BY <1>2, ActivityKeeps, CheckKeeps, TimeKeeps, ShutdownKeeps
<1>3. ASSUME NEW h \in BOOLEAN, MainEnds(h) PROVE IInv'
  BY <1>3, MainEndsKeeps
<1>4. ASSUME NEW m \in {"slow", "normal"}, SlowRequestState(m) PROVE IInv'
  BY <1>4, SlowStateKeeps
<1>5. ASSUME NEW p \in Process,
             \/ Boot(p)          \/ OnExit(p)        \/ Restart(p)
             \/ Dies(p)          \/ OnIdleMessage(p) \/ OnSlowMessage(p)
             \/ ProbeTick(p)     \/ ProbeSettles(p)
      PROVE  IInv'
  BY <1>5, BootKeeps, OnExitKeeps, RestartKeeps, DiesKeeps, OnIdleMessageKeeps,
     OnSlowMessageKeeps, ProbeTickKeeps, ProbeSettlesKeeps
<1> QED BY <1>1, <1>2, <1>3, <1>4, <1>5 DEF Next

LEMMA IInvAlways == Spec => []IInv
BY InitHolds, Inductive, PTL DEF Spec

\* The variables of both processes keep their types.
THEOREM TypeCorrect == Spec => []SidecarTypeOK
BY IInvAlways, PTL DEF IInv

\* Whatever crashes, restarts, idle changes and messages in flight there are,
\* the running sidecar ends up agreeing with the app.
THEOREM SidecarAgreesAlways == Spec => []SidecarAgrees
BY IInvAlways, PTL DEF IInv

\* One main process never has two sidecars at work.
THEOREM OneProberAlways == Spec => []OneProber
<1>1. IInv => OneProber
  BY ForksOneProber DEF IInv
<1> QED BY <1>1, IInvAlways, PTL

\* Restarts and crashes do not disturb the idle timeout: it stays armed while
\* the app is awake.
THEOREM SidecarKeepsWatch == Spec => [](AlwaysWatching /\ IdleWithinTwoPeriods)
<1>1. IInv => AlwaysWatching /\ IdleWithinTwoPeriods
  BY IdleInvImplies DEF IInv
<1> QED BY <1>1, IInvAlways, PTL

----------------------------------------------------------------------------
(* What a dashboard shows of the server's responsiveness, for any timeout, *)
(* any warning period and any number of probes and reports.                *)

Answered == \E i \in 1..Len(ipc) : ipc[i].success
AllSucceeded == \A i \in 1..Len(ipc) : ipc[i].success

\* A probe that waits was sent since the main process had last caught up with the
\* probes, and has waited for its full time only if it once had not for that long.
ProbesInTime ==
  /\ \A age \in waiting : age <= blockedFor
  /\ blockedFor >= ProbeTimeout => overlong
  /\ ~overlong => \A age \in waiting : age < ProbeTimeout
  /\ errors = 0 /\ ~overlong => isResponsive /\ AllSucceeded

\* The page's clock of an outage is not ahead of the time without an answer,
\* but for the time before it was connected and the answers it does not know of.
OutageMeasured ==
  /\ ~connected => connectedFor = 0
  /\ \/ Answered \/ unresponsiveFor = Off
     \/ sinceAnswer >= unresponsiveFor \/ sinceAnswer >= connectedFor

DisplayInv == ResponsivenessTypeOK /\ ProbesInTime /\ OutageMeasured

\* Reports that are appended are all there is new.
LEMMA OneReport ==
  ASSUME ipc \in Seq(Report), NEW r \in Report, ipc' = ipc \o <<r>>
  PROVE  /\ ipc' \in Seq(Report)
         /\ Answered => Answered'
         /\ r.success => Answered'
         /\ AllSucceeded /\ r.success => AllSucceeded'
<1>1. /\ ipc' \in Seq(Report) /\ Len(ipc) \in Nat /\ Len(ipc') = Len(ipc) + 1
      /\ \A i \in 1..Len(ipc) : ipc'[i] = ipc[i]
      /\ ipc'[Len(ipc) + 1] = r
  OBVIOUS
<1> QED BY <1>1 DEF Answered, AllSucceeded

LEMMA TwoReports ==
  ASSUME ipc \in Seq(Report), NEW r \in Report, ipc' = ipc \o <<r, r>>
  PROVE  /\ ipc' \in Seq(Report)
         /\ Answered => Answered'
<1>1. /\ ipc' \in Seq(Report) /\ Len(ipc) \in Nat /\ Len(ipc') = Len(ipc) + 2
      /\ \A i \in 1..Len(ipc) : ipc'[i] = ipc[i]
  OBVIOUS
<1> QED BY <1>1 DEF Answered

\* The report that is relayed was the only success, or another one remains.
LEMMA RelayedReport ==
  ASSUME ipc \in Seq(Report), ipc # <<>>, ipc' = Tail(ipc)
  PROVE  /\ ipc' \in Seq(Report)
         /\ Head(ipc) \in Report
         /\ Answered => Answered' \/ Head(ipc).success
         /\ AllSucceeded => AllSucceeded' /\ Head(ipc).success
<1>1. /\ ipc' \in Seq(Report) /\ Head(ipc) \in Report
      /\ Len(ipc) \in Nat \ {0} /\ Len(ipc') = Len(ipc) - 1
      /\ Head(ipc) = ipc[1]
      /\ \A i \in 1..Len(ipc') : ipc'[i] = ipc[i + 1]
  BY HeadTailProperties, EmptySeq
<1>2. ASSUME Answered, ~Head(ipc).success PROVE Answered'
  <2>1. PICK i \in 1..Len(ipc) : ipc[i].success
    BY <1>2 DEF Answered
  <2>2. i # 1 /\ i - 1 \in 1..Len(ipc') /\ ipc'[i - 1] = ipc[i]
    BY <1>1, <1>2, <2>1
  <2> QED BY <2>1, <2>2 DEF Answered
<1>3. ASSUME AllSucceeded PROVE AllSucceeded' /\ Head(ipc).success
  BY <1>1, <1>3 DEF AllSucceeded
<1> QED BY <1>1, <1>2, <1>3

LEMMA DisplayInitInv == DisplayInit => DisplayInv
<1> SUFFICES ASSUME DisplayInit PROVE DisplayInv
  OBVIOUS
<1>1. ResponsivenessTypeOK
  <2>1. ipc \in Seq(Report)
    BY EmptySeq DEF DisplayInit
  <2>2. 0 \in 0..LongBlock /\ 0 \in 0..WarnAfter /\ 0 \in 0..MaxErrors
    BY TimeAssumption, IpcBoundAssumption DEF LongBlock
  <2>3. /\ waiting \in SUBSET Age /\ consecutiveFailures \in 0..2
        /\ blockedFor \in 0..LongBlock /\ errors \in 0..MaxErrors
        /\ sinceAnswer \in 0..WarnAfter /\ connectedFor \in 0..WarnAfter
        /\ unresponsiveFor \in 0..WarnAfter \cup {Off}
        /\ sinceWarning \in 0..WarnAfter \cup {Off}
    BY <2>2 DEF DisplayInit
  <2>4. /\ blocked \in BOOLEAN /\ overlong \in BOOLEAN /\ loadTestActive \in BOOLEAN
        /\ connected \in BOOLEAN /\ isResponsive \in BOOLEAN
    BY DEF DisplayInit
  <2> QED BY <2>1, <2>3, <2>4 DEF ResponsivenessTypeOK
<1>2. ProbesInTime /\ OutageMeasured
  BY TimeAssumption DEF DisplayInit, ProbesInTime, OutageMeasured, AllSucceeded
<1> QED BY <1>1, <1>2 DEF DisplayInv

LEMMA ProbeStep ==
  ASSUME DisplayInv,
         \/ SendProbe
         \/ \E age \in Age : ProbeTimesOut(age) \/ ProbeErrs(age)
         \/ \E age \in Age, loadTesting \in BOOLEAN : ProbeEnds(age, loadTesting)
  PROVE  DisplayInv'
<1> USE TimeAssumption, IpcBoundAssumption
<1>1. CASE SendProbe
  <2>1. /\ waiting' = waiting \cup {0} /\ 0 \in Age /\ blockedFor >= 0
        /\ UNCHANGED <<mainVars, loadTestActive, errors, sinceAnswer, ipc, connVars, displayVars>>
    BY <1>1 DEF SendProbe, Age, DisplayInv, ResponsivenessTypeOK, LongBlock
  <2>2. ResponsivenessTypeOK'
    BY <2>1 DEF DisplayInv, ResponsivenessTypeOK, mainVars, connVars, displayVars
  <2>3. ProbesInTime'
    BY <2>1 DEF DisplayInv, ProbesInTime, AllSucceeded, mainVars, displayVars
  <2>4. OutageMeasured'
    BY <2>1 DEF DisplayInv, OutageMeasured, Answered, connVars, displayVars
  <2> QED BY <2>2, <2>3, <2>4 DEF DisplayInv
<1>2. ASSUME NEW age \in Age, ProbeTimesOut(age) PROVE DisplayInv'
  <2>1. /\ age = ProbeTimeout /\ age \in waiting /\ waiting' = waiting \ {age}
        /\ ipc' = ipc \o <<Failure, Failure>>
        /\ UNCHANGED <<mainVars, connVars, displayVars, loadTestActive, errors, sinceAnswer>>
    BY <1>2 DEF ProbeTimesOut, Settle
  <2>2. Failure \in Report
    BY DEF Failure, Report, DisplayInv, ResponsivenessTypeOK
  <2>3. ipc' \in Seq(Report) /\ (Answered => Answered')
    BY <2>1, <2>2, TwoReports DEF DisplayInv, ResponsivenessTypeOK
  <2>4. ResponsivenessTypeOK'
    BY <2>1, <2>3
    DEF DisplayInv, ResponsivenessTypeOK, mainVars, connVars, displayVars
  <2>5. overlong
    BY <2>1 DEF DisplayInv, ProbesInTime
  <2>6. ProbesInTime'
    BY <2>1, <2>5 DEF DisplayInv, ProbesInTime, mainVars, displayVars
  <2>7. OutageMeasured'
    BY <2>1, <2>3 DEF DisplayInv, OutageMeasured, connVars, displayVars
  <2> QED BY <2>4, <2>6, <2>7 DEF DisplayInv
<1>3. ASSUME NEW age \in Age, ProbeErrs(age) PROVE DisplayInv'
  <2>1. /\ age \in waiting /\ waiting' = waiting \ {age}
        /\ errors < MaxErrors /\ errors' = errors + 1
        /\ ipc' = ipc \o <<Failure>>
        /\ UNCHANGED <<mainVars, connVars, displayVars, loadTestActive, sinceAnswer>>
    BY <1>3 DEF ProbeErrs, Settle
  <2>2. Failure \in Report
    BY DEF Failure, Report, DisplayInv, ResponsivenessTypeOK
  <2>3. ipc' \in Seq(Report) /\ (Answered => Answered')
    BY <2>1, <2>2, OneReport DEF DisplayInv, ResponsivenessTypeOK
  <2>4. errors' \in 0..MaxErrors /\ errors' # 0
    BY <2>1 DEF DisplayInv, ResponsivenessTypeOK
  <2>5. ResponsivenessTypeOK'
    BY <2>1, <2>3, <2>4
    DEF DisplayInv, ResponsivenessTypeOK, mainVars, connVars, displayVars
  <2>6. ProbesInTime'
    BY <2>1, <2>4 DEF DisplayInv, ProbesInTime, mainVars, displayVars
  <2>7. OutageMeasured'
    BY <2>1, <2>3 DEF DisplayInv, OutageMeasured, connVars, displayVars
  <2> QED BY <2>5, <2>6, <2>7 DEF DisplayInv
<1>4. ASSUME NEW age \in Age, NEW loadTesting \in BOOLEAN, ProbeEnds(age, loadTesting)
      PROVE  DisplayInv'
  <2> DEFINE r == [success |-> TRUE, loadTestActive |-> loadTesting]
  <2>1. /\ age \in waiting /\ waiting' = waiting \ {age}
        /\ ipc' = ipc \o <<r>>
        /\ loadTestActive' = loadTesting /\ sinceAnswer' = 0
        /\ UNCHANGED <<mainVars, connVars, displayVars, errors>>
    BY <1>4 DEF ProbeEnds, Settle
  <2>2. r \in Report /\ r.success
    BY DEF Report
  <2>3. ipc' \in Seq(Report) /\ Answered' /\ (AllSucceeded => AllSucceeded')
    <3> HIDE DEF r
    <3> QED BY <2>1, <2>2, OneReport DEF DisplayInv, ResponsivenessTypeOK
  <2>4. ResponsivenessTypeOK'
    BY <2>1, <2>3
    DEF DisplayInv, ResponsivenessTypeOK, mainVars, connVars, displayVars
  <2>5. ProbesInTime'
    BY <2>1, <2>3 DEF DisplayInv, ProbesInTime, mainVars, displayVars
  <2>6. OutageMeasured'
    BY <2>1, <2>3 DEF DisplayInv, OutageMeasured, connVars, displayVars
  <2> QED BY <2>4, <2>5, <2>6 DEF DisplayInv
<1> QED BY <1>1, <1>2, <1>3, <1>4

\* A chunk of a block begins or ends while probes wait, or the first one begins.
LEMMA BlockStep ==
  ASSUME DisplayInv, Block \/ Unblock \/ ConnectionLost \/ Connect
  PROVE  DisplayInv'
<1> USE TimeAssumption
<1>1. UNCHANGED <<overlong, probeVars, ipc, displayVars>>
  BY DEF Block, Unblock, ConnectionLost, Connect, mainVars, connVars
<1>2. /\ blocked' \in BOOLEAN /\ blockedFor' \in {blockedFor, 0}
      /\ waiting = {} \/ blockedFor' = blockedFor
      /\ connected' \in BOOLEAN /\ connectedFor' \in {connectedFor, 0}
      /\ ~connected' => connectedFor' = 0
  <2> USE DEF mainVars, connVars, DisplayInv, ResponsivenessTypeOK, OutageMeasured
  <2>1. CASE Block
    BY <2>1 DEF Block
  <2>2. CASE Unblock
    BY <2>2 DEF Unblock
  <2>3. CASE ConnectionLost
    BY <2>3 DEF ConnectionLost
  <2>4. CASE Connect
    BY <2>4 DEF Connect
  <2> QED BY <2>1, <2>2, <2>3, <2>4
<1>3. /\ blockedFor \in 0..LongBlock /\ 0 \in 0..LongBlock
      /\ connectedFor \in 0..WarnAfter /\ 0 \in 0..WarnAfter
      /\ sinceAnswer \in 0..WarnAfter
  BY DEF LongBlock, DisplayInv, ResponsivenessTypeOK
<1>4. ResponsivenessTypeOK'
  BY <1>1, <1>2, <1>3 DEF DisplayInv, ResponsivenessTypeOK, probeVars, displayVars
<1>5. ProbesInTime'
  BY <1>1, <1>2 DEF DisplayInv, ProbesInTime, AllSucceeded, probeVars, displayVars
<1>6. OutageMeasured'
  BY <1>1, <1>2, <1>3 DEF DisplayInv, OutageMeasured, Answered, probeVars, displayVars
<1> QED BY <1>4, <1>5, <1>6 DEF DisplayInv

LEMMA ReportRelayed == DisplayInv /\ Relay => DisplayInv'
<1> SUFFICES ASSUME DisplayInv, Relay PROVE DisplayInv'
  OBVIOUS
<1> USE TimeAssumption
<1>1. /\ ipc \in Seq(Report) /\ ipc # <<>> /\ ipc' = Tail(ipc)
      /\ IF connected THEN OnProbeLatency(Head(ipc)) ELSE UNCHANGED displayVars
      /\ UNCHANGED <<mainVars, probeVars, connVars>>
  BY DEF Relay, DisplayInv, ResponsivenessTypeOK
<1>2. /\ ipc' \in Seq(Report) /\ Head(ipc) \in Report
      /\ Answered => Answered' \/ Head(ipc).success
      /\ AllSucceeded => AllSucceeded' /\ Head(ipc).success
  BY <1>1, RelayedReport
<1>3. /\ isResponsive' \in BOOLEAN /\ consecutiveFailures' \in 0..2
      /\ unresponsiveFor' \in {unresponsiveFor, 0, Off}
      /\ sinceWarning' \in {sinceWarning, 0}
      /\ unresponsiveFor' = unresponsiveFor \/ unresponsiveFor' \in {0, Off}
      /\ connected /\ Head(ipc).success => unresponsiveFor' = Off
      /\ Head(ipc).success /\ isResponsive => isResponsive'
  <2> USE DEF DisplayInv, ResponsivenessTypeOK
  <2>1. CASE ~connected
    BY <1>1, <2>1 DEF displayVars
  <2>2. CASE connected /\ Head(ipc).success
    BY <1>1, <2>2 DEF OnProbeLatency, OnSuccess
  <2>3. CASE connected /\ ~Head(ipc).success
    BY <1>1, <2>3 DEF OnProbeLatency, OnFailure
  <2> QED BY <2>1, <2>2, <2>3
<1>4. ResponsivenessTypeOK'
  BY <1>1, <1>2, <1>3
  DEF DisplayInv, ResponsivenessTypeOK, mainVars, probeVars, connVars
<1>5. ProbesInTime'
  BY <1>1, <1>2, <1>3 DEF DisplayInv, ProbesInTime, mainVars, probeVars
<1>6. OutageMeasured'
  <2>1. sinceAnswer \in Nat /\ ~connected => connectedFor = 0
    BY DEF DisplayInv, ResponsivenessTypeOK, OutageMeasured
  <2>2. sinceAnswer >= 0
    BY DEF DisplayInv, ResponsivenessTypeOK
  <2> QED BY <1>1, <1>2, <1>3, <2>1, <2>2 DEF DisplayInv, OutageMeasured, connVars, probeVars
<1> QED BY <1>4, <1>5, <1>6 DEF DisplayInv

LEMMA UpToBounds ==
  ASSUME NEW bound \in Nat \ {0}, NEW n \in 0..bound \cup {Off}
  PROVE  /\ UpTo(bound, n) \in 0..bound \cup {Off}
         /\ UpTo(bound, n) = Off <=> n = Off
         /\ UpTo(bound, n) # 0
         /\ n # Off => UpTo(bound, n) \in 0..bound
         /\ n # Off => UpTo(bound, n) = IF n = bound THEN bound ELSE n + 1
BY DEF UpTo, Off

LEMMA ClockTicks == DisplayInv /\ Tick => DisplayInv'
<1> SUFFICES ASSUME DisplayInv, Tick PROVE DisplayInv'
  OBVIOUS
<1> USE TimeAssumption
<1>1. /\ waiting \in SUBSET Age /\ ProbeTimeout \notin waiting
      /\ waiting' = {age + 1 : age \in waiting}
      /\ ~blocked => waiting = {}
      /\ blockedFor' = IF blocked THEN UpTo(LongBlock, blockedFor) ELSE 0
      /\ overlong' = (overlong \/ blockedFor' >= ProbeTimeout)
      /\ UNCHANGED <<blocked, loadTestActive, errors, ipc, connected, isResponsive,
                     consecutiveFailures>>
  BY DEF Tick, DisplayInv, ResponsivenessTypeOK
<1>2. LongBlock \in Nat \ {0} /\ LongBlock >= ProbeTimeout /\ Off \notin 0..LongBlock
  BY DEF LongBlock, Off
<1>3. blockedFor \in 0..LongBlock
  BY DEF DisplayInv, ResponsivenessTypeOK
<1>4. /\ blockedFor' \in 0..LongBlock
      /\ blocked => blockedFor' = IF blockedFor = LongBlock THEN LongBlock ELSE blockedFor + 1
  BY <1>1, <1>2, <1>3 DEF UpTo, Off
<1>5. waiting' \in SUBSET Age
  BY <1>1 DEF Age
<1>6. /\ sinceAnswer' \in 0..WarnAfter /\ connectedFor' \in 0..WarnAfter
      /\ unresponsiveFor' \in 0..WarnAfter \cup {Off}
      /\ sinceWarning' \in 0..WarnAfter \cup {Off}
      /\ sinceAnswer' = IF sinceAnswer = WarnAfter THEN WarnAfter ELSE sinceAnswer + 1
      /\ connectedFor' = IF ~connected THEN 0
                         ELSE IF connectedFor = WarnAfter THEN WarnAfter ELSE connectedFor + 1
      /\ unresponsiveFor' = IF unresponsiveFor \in {Off, WarnAfter} THEN unresponsiveFor
                            ELSE unresponsiveFor + 1
  <2>1. /\ sinceAnswer \in 0..WarnAfter /\ connectedFor \in 0..WarnAfter
        /\ unresponsiveFor \in 0..WarnAfter \cup {Off}
        /\ sinceWarning \in 0..WarnAfter \cup {Off}
    BY DEF DisplayInv, ResponsivenessTypeOK
  <2> QED BY <2>1 DEF Tick, UpTo, Off
<1>7. ResponsivenessTypeOK'
  BY <1>1, <1>4, <1>5, <1>6 DEF DisplayInv, ResponsivenessTypeOK
<1>8. ProbesInTime'
  <2>1. \A age \in waiting : age \in Nat /\ age <= ProbeTimeout /\ age # ProbeTimeout
    BY <1>1 DEF Age
  <2>2. \A age \in waiting : age <= blockedFor
    BY DEF DisplayInv, ProbesInTime
  <2>3. overlong' \/ blockedFor' < ProbeTimeout
    <3>1. blockedFor' >= ProbeTimeout \/ blockedFor' < ProbeTimeout
      BY <1>4
    <3> QED BY <1>1, <3>1, Zenon
  <2>4. ASSUME blocked, ~overlong', NEW age \in waiting
        PROVE  age + 1 <= blockedFor' /\ age + 1 < ProbeTimeout
    BY <1>2, <1>3, <1>4, <2>1, <2>2, <2>3, <2>4
  <2>5. ASSUME blocked, NEW age \in waiting
        PROVE  age + 1 <= blockedFor'
    BY <1>2, <1>3, <1>4, <2>1, <2>2, <2>5
  <2>6. /\ \A age \in waiting' : age <= blockedFor'
        /\ ~overlong' => \A age \in waiting' : age < ProbeTimeout
    BY <1>1, <2>4, <2>5
  <2> QED BY <1>1, <2>3, <2>6 DEF DisplayInv, ProbesInTime, AllSucceeded
<1>9. OutageMeasured'
  BY <1>1, <1>6 DEF DisplayInv, OutageMeasured, Answered, ResponsivenessTypeOK, Off
<1> QED BY <1>7, <1>8, <1>9 DEF DisplayInv

LEMMA DisplayStepKeepsInv == DisplayInv /\ [DisplayNext]_allVars => DisplayInv'
<1> SUFFICES ASSUME DisplayInv, [DisplayNext]_allVars PROVE DisplayInv'
  OBVIOUS
<1>1. CASE UNCHANGED allVars
  BY <1>1
  DEF allVars, mainVars, probeVars, connVars, displayVars, DisplayInv, ResponsivenessTypeOK,
      ProbesInTime, OutageMeasured, Answered, AllSucceeded
<1>2. CASE DisplayNext
  BY <1>2, ProbeStep, BlockStep, ReportRelayed, ClockTicks DEF DisplayNext
<1> QED BY <1>1, <1>2

LEMMA DisplayInvAlways == DisplaySpec => []DisplayInv
BY DisplayInitInv, DisplayStepKeepsInv, PTL DEF DisplaySpec

\* Every value stays within its type.
THEOREM DisplayTypeCorrect == DisplaySpec => []ResponsivenessTypeOK
BY DisplayInvAlways, PTL DEF DisplayInv

\* No page ever shows as unresponsive a server that was never blocked for as
\* long as a probe waits, if the network does not fail.
THEOREM NoAlarmWithoutCause == DisplaySpec => []NoFalseAlarm
<1>1. DisplayInv => NoFalseAlarm
  BY DEF DisplayInv, ProbesInTime, NoFalseAlarm
<1> QED BY <1>1, DisplayInvAlways, PTL

\* A warning on a page that was connected all the time means silence.
THEOREM WarningTellsTheTruth == DisplaySpec => WarningIsHonest
<1>1. ASSUME DisplayInv, [DisplayNext]_allVars, Warns, connectedFor = WarnAfter
      PROVE  Silence
  <2>1. Relay /\ connected /\ ~Head(ipc).success
    <3>1. DisplayNext /\ sinceWarning' # sinceWarning
      BY <1>1 DEF Warns, allVars, displayVars
    <3>2. ~Tick
      BY <1>1, TimeAssumption, UpToBounds
      DEF Tick, Warns, DisplayInv, ResponsivenessTypeOK
    <3>3. Relay
      BY <3>1, <3>2
      DEF DisplayNext, SendProbe, ProbeTimesOut, ProbeErrs, ProbeEnds, Settle, Block, Unblock,
          ConnectionLost, Connect, displayVars
    <3> QED BY <3>1, <3>3 DEF Relay, OnProbeLatency, OnSuccess, displayVars
  <2>2. unresponsiveFor = WarnAfter
    BY <1>1, <2>1 DEF Relay, OnProbeLatency, OnFailure, Warns
  <2>3. Answered \/ sinceAnswer = WarnAfter
    BY <1>1, <2>2, TimeAssumption
    DEF DisplayInv, OutageMeasured, ResponsivenessTypeOK, Off
  <2>4. ipc \in Seq(Report) /\ 1..Len(ipc) = DOMAIN ipc
    BY <1>1 DEF DisplayInv, ResponsivenessTypeOK
  <2> QED BY <2>3, <2>4 DEF Silence, Answered, ToSet
<1>2. DisplayInv /\ [DisplayNext]_allVars
        => [Warns /\ connectedFor = WarnAfter => Silence]_allVars
  BY <1>1
<1> QED BY <1>2, DisplayInvAlways, PTL DEF DisplaySpec, WarningIsHonest
=============================================================================
