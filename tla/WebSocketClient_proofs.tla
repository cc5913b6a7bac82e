----------------------- MODULE WebSocketClient_proofs -----------------------
(***************************************************************************)
(* The safety properties of WebSocketClient for all settings. One          *)
(* inductive invariant carries them: it says what the delay and the        *)
(* heartbeat timer are worth while the socket is open, which is what the   *)
(* callbacks rely on when they schedule the next attempt.                  *)
(***************************************************************************)
EXTENDS WebSocketClient, TLAPS

Sockets == {"none", "connecting", "refused", "open", "closed"}

(* TypeOK in two parts: the SMT encoding keeps Booleans and numbers apart. *)
Flags ==
  /\ intended \in BOOLEAN /\ ticking \in BOOLEAN
  /\ serverUp \in BOOLEAN /\ peer \in BOOLEAN
Values ==
  /\ socket \in Sockets
  /\ untilReconnect \in Int /\ untilHeartbeat \in Int
  /\ delay \in Nat /\ silence \in Nat

DelayInv ==
  /\ delay <= InitialDelay \/ delay <= MaxDelay
  /\ ~intended => socket = "none" /\ ~ticking

OpenInv ==
  socket = "open" =>
    /\ delay = InitialDelay
    /\ untilHeartbeat > 0 /\ untilHeartbeat + silence = HeartbeatInterval

Bounds == NeverStranded /\ BackoffBounded /\ DelayInv /\ OpenInv

IInv == Flags /\ Values /\ Bounds

LEMMA TypeOK_Parts == TypeOK <=> Flags /\ Values
BY DEF TypeOK, Flags, Values, Sockets

LEMMA Init_Inv == Init => IInv
<1> SUFFICES ASSUME Init PROVE IInv
  OBVIOUS
<1>1. Flags
  BY DEF Init, Fresh, Flags
<1>2. Values
  BY DEF Init, Fresh, Values, Sockets
<1>3. Bounds
  BY SettingsAssumption
  DEF Init, Fresh, Bounds, NeverStranded, BackoffBounded, DelayInv, OpenInv
<1>4. QED
  BY <1>1, <1>2, <1>3 DEF IInv

-----------------------------------------------------------------------------
(* Connect and Disconnect as the subsystem uses them keep the invariant.   *)
LEMMA Subsystem_Inv ==
  ASSUME IInv, Initialize \/ Deinitialize \/ Reconnect
  PROVE  IInv'
<1> USE SettingsAssumption DEF IInv
<1>1. CASE Initialize
  <2> USE <1>1 DEF Initialize, OpenSocket, Attempt
  <2>1. Flags'
    BY DEF Flags
  <2>2. Values'
    BY DEF Values, Sockets
  <2>3. Bounds'
    BY DEF Values, Bounds, NeverStranded, BackoffBounded, DelayInv, OpenInv
  <2>4. QED
    BY <2>1, <2>2, <2>3
<1>2. CASE Deinitialize
  <2> USE <1>2 DEF Deinitialize
  <2>1. Flags'
    BY DEF Flags
  <2>2. Values'
    BY DEF Values, Sockets
  <2>3. Bounds'
    BY DEF Bounds, NeverStranded, BackoffBounded, DelayInv, OpenInv
  <2>4. QED
    BY <2>1, <2>2, <2>3
<1>3. CASE Reconnect
  <2> USE <1>3 DEF Reconnect, Attempt
  <2>1. Flags'
    BY DEF Flags
  <2>2. Values'
    BY DEF Values, Sockets
  <2>3. Bounds'
    BY DEF Bounds, NeverStranded, BackoffBounded, DelayInv, OpenInv
  <2>4. QED
    BY <2>1, <2>2, <2>3
<1>4. QED
  BY <1>1, <1>2, <1>3

-----------------------------------------------------------------------------
(* What ScheduleReconnect leaves behind when a socket reports its end.     *)
LEMMA Schedule_Bounds ==
  ASSUME IInv, intended, ScheduleReconnect
  PROVE  /\ untilReconnect' = delay /\ untilReconnect' > 0
         /\ delay' \in Nat \ {0}
         /\ delay' <= InitialDelay \/ delay' <= MaxDelay
BY SettingsAssumption
DEF IInv, Values, Bounds, BackoffBounded, DelayInv, ScheduleReconnect, NextDelay

(* The three callbacks of the socket keep the invariant.                   *)
LEMMA Callbacks_Inv ==
  ASSUME IInv, Callbacks
  PROVE  IInv'
<1> USE SettingsAssumption DEF IInv
<1>1. CASE HandleConnected
  <2> USE <1>1 DEF HandleConnected
  <2>1. Flags'
    BY DEF Flags
  <2>2. Values'
    BY DEF Values, Sockets
  <2>3. Bounds'
    BY DEF Values, Bounds, NeverStranded, BackoffBounded, DelayInv, OpenInv
  <2>4. QED
    BY <2>1, <2>2, <2>3
<1>2. CASE HandleConnectionError \/ HandleClosed
  <2> USE <1>2 DEF HandleConnectionError, HandleClosed
  <2>1. intended
    BY DEF Bounds, DelayInv
  <2>2. ScheduleReconnect
    OBVIOUS
  <2>3. /\ untilReconnect' = delay /\ untilReconnect' > 0
        /\ delay' \in Nat \ {0}
        /\ delay' <= InitialDelay \/ delay' <= MaxDelay
    BY <2>1, <2>2, Schedule_Bounds
  <2>4. Flags'
    BY DEF Flags
  <2>5. Values'
    BY <2>3 DEF Values, Sockets
  <2>6. intended' = intended /\ ticking' = ticking /\ ticking /\ socket' = "closed"
    BY <2>1 DEF Bounds, NeverStranded
  <2>7. NeverStranded' /\ OpenInv'
    BY <2>3, <2>6 DEF NeverStranded, OpenInv
  <2>8. BackoffBounded' /\ DelayInv'
    BY <2>1, <2>3, <2>6 DEF Values, Bounds, BackoffBounded, DelayInv
  <2>9. Bounds'
    BY <2>7, <2>8 DEF Bounds
  <2>10. QED
    BY <2>4, <2>5, <2>9
<1>3. QED
  BY <1>1, <1>2 DEF Callbacks

-----------------------------------------------------------------------------
(* What the reconnect timer of a tick does to a client that is ticking.    *)
LEMMA TickReconnect_Bounds ==
  ASSUME IInv, intended, NEW delta \in Nat \ {0}, TickReconnect(delta)
  PROVE  /\ intended' = TRUE /\ ticking' = TRUE
         /\ socket' \in Sockets /\ socket' # "none"
         /\ untilReconnect' \in Int /\ untilReconnect' <= untilReconnect
         /\ socket' = "closed" => untilReconnect' > 0
         /\ delay' = delay
         /\ socket' = "open" <=> socket = "open"
<1> USE SettingsAssumption
    DEF IInv, Flags, Values, Bounds, NeverStranded, BackoffBounded,
        TickReconnect, OpenSocket, Attempt, Sockets
<1>0. untilReconnect - delta \in Int /\ untilReconnect - delta <= untilReconnect
  OBVIOUS
<1>1. CASE untilReconnect > 0 /\ untilReconnect - delta <= 0 /\ socket # "open"
  BY <1>1
<1>2. CASE untilReconnect > 0 /\ untilReconnect - delta <= 0 /\ socket = "open"
  BY <1>2
<1>3. CASE untilReconnect > 0 /\ ~(untilReconnect - delta <= 0)
  <2>1. untilReconnect' = untilReconnect - delta
    BY <1>3
  <2>2. UNCHANGED <<intended, delay, socket, ticking>>
    BY <1>3
  <2>3. untilReconnect' > 0 /\ untilReconnect' <= untilReconnect
    BY <1>3, <2>1
  <2>4. QED
    BY <2>1, <2>2, <2>3
<1>4. CASE ~(untilReconnect > 0)
  BY <1>4
<1>5. QED
  BY ONLY <1>1, <1>2, <1>3, <1>4

(* The heartbeat timer and the silence it bounds add up to the interval.   *)
LEMMA TickHeartbeat_Sum ==
  ASSUME IInv, NEW delta \in Nat \ {0}, TickHeartbeat(delta)
  PROVE  /\ untilHeartbeat' \in Int /\ silence' \in Nat
         /\ socket = "open" =>
              /\ untilHeartbeat' > 0
              /\ untilHeartbeat' + silence' = HeartbeatInterval
<1> USE SettingsAssumption DEF IInv, Values, Bounds, OpenInv, TickHeartbeat
<1>1. CASE socket = "open" /\ untilHeartbeat - delta <= 0
  BY <1>1
<1>2. CASE socket = "open" /\ ~(untilHeartbeat - delta <= 0)
  BY <1>2
<1>3. CASE socket # "open"
  BY <1>3
<1>4. QED
  BY <1>1, <1>2, <1>3

(* A tick keeps the invariant: the reconnect timer that runs out has a     *)
(* fresh socket in its place, and the heartbeat is sent when it is due.    *)
LEMMA Tick_Inv ==
  ASSUME IInv, Tick
  PROVE  IInv'
<1>1. PICK delta \in 1..MaxDelta : TickReconnect(delta) /\ TickHeartbeat(delta)
  BY DEF Tick
<1>2. delta \in Nat \ {0}
  BY <1>1, SettingsAssumption
<1>3. intended
  BY DEF IInv, Bounds, DelayInv, Tick
<1>4. /\ intended' = TRUE /\ ticking' = TRUE
      /\ socket' \in Sockets /\ socket' # "none"
      /\ untilReconnect' \in Int /\ untilReconnect' <= untilReconnect
      /\ socket' = "closed" => untilReconnect' > 0
      /\ delay' = delay
      /\ socket' = "open" <=> socket = "open"
  BY <1>1, <1>2, <1>3, TickReconnect_Bounds
<1>5. /\ untilHeartbeat' \in Int /\ silence' \in Nat
      /\ socket = "open" =>
           /\ untilHeartbeat' > 0
           /\ untilHeartbeat' + silence' = HeartbeatInterval
  BY <1>1, <1>2, TickHeartbeat_Sum
<1>6. Flags'
  BY <1>4 DEF Tick, IInv, Flags
<1>7. Values'
  BY <1>4, <1>5 DEF IInv, Values
<1>8. NeverStranded' /\ DelayInv'
  BY <1>3, <1>4 DEF IInv, Bounds, NeverStranded, DelayInv
<1>9. BackoffBounded'
  BY <1>3, <1>4, SettingsAssumption DEF IInv, Values, Bounds, BackoffBounded
<1>10. OpenInv'
  BY <1>4, <1>5 DEF IInv, Bounds, OpenInv
<1>11. QED
  BY <1>6, <1>7, <1>8, <1>9, <1>10 DEF IInv, Bounds

(* The server and the network leave the client's own state alone.          *)
LEMMA Environment_Inv ==
  ASSUME IInv, ServerStart \/ ServerStop \/ Lose
  PROVE  IInv'
<1> USE DEF IInv, ServerStart, ServerStop, Lose, clientVars
<1>1. Flags'
  BY DEF Flags
<1>2. Values'
  BY DEF Values, Sockets
<1>3. Bounds'
  BY DEF Bounds, NeverStranded, BackoffBounded, DelayInv, OpenInv
<1>4. QED
  BY <1>1, <1>2, <1>3

LEMMA Next_Inv == IInv /\ [Next]_vars => IInv'
<1> SUFFICES ASSUME IInv, [Next]_vars PROVE IInv'
  OBVIOUS
<1>1. CASE Initialize \/ Deinitialize \/ Reconnect
  BY <1>1, Subsystem_Inv
<1>2. CASE Callbacks
  BY <1>2, Callbacks_Inv
<1>3. CASE Tick
  BY <1>3, Tick_Inv
<1>4. CASE ServerStart \/ ServerStop \/ Lose
  BY <1>4, Environment_Inv
<1>5. CASE UNCHANGED vars
  BY <1>5 DEF vars, clientVars, IInv, Flags, Values, Bounds, NeverStranded,
              BackoffBounded, DelayInv, OpenInv
<1>6. QED
  BY <1>1, <1>2, <1>3, <1>4, <1>5 DEF Next

LEMMA Invariance == Spec => []IInv
BY Init_Inv, Next_Inv, PTL DEF Spec

-----------------------------------------------------------------------------
(* Every reachable state of the client has the declared types: no timer,   *)
(* however the ticks fall, leaves the integers and no delay is negative.   *)
THEOREM ClientTypes == Spec => []TypeOK
<1>1. IInv => TypeOK
  BY TypeOK_Parts DEF IInv
<1>2. QED
  BY <1>1, Invariance, PTL

(* For all settings, a client that wants a connection always has a socket  *)
(* that will report back or a timer that will open the next one.           *)
THEOREM ClientNeverStranded == Spec => []NeverStranded
<1>1. IInv => NeverStranded
  BY DEF IInv, Bounds
<1>2. QED
  BY <1>1, Invariance, PTL

(* For all settings, also with a maximum below the initial delay, the wait *)
(* before an attempt is positive and at most the larger of the two.        *)
THEOREM ClientBackoffBounded == Spec => []BackoffBounded
<1>1. IInv => BackoffBounded
  BY DEF IInv, Bounds
<1>2. QED
  BY <1>1, Invariance, PTL

(* For every interval and every bound on the time between two ticks, an    *)
(* open connection is never silent for as long as the interval.            *)
THEOREM ClientHeartbeatTimely == Spec => []HeartbeatTimely
<1>1. IInv => HeartbeatTimely
  BY SettingsAssumption DEF IInv, Values, Bounds, OpenInv, HeartbeatTimely
<1>2. QED
  BY <1>1, Invariance, PTL

(* For all settings, the first retry after a connection that worked waits  *)
(* the initial delay.                                                      *)
THEOREM ClientRetriesFromInitial == Spec => RetryFromInitial
<1>1. IInv /\ [Next]_vars =>
        [socket = "open" /\ socket' = "closed" => untilReconnect' = InitialDelay]_vars
  <2> SUFFICES ASSUME IInv, Next, socket = "open", socket' = "closed"
               PROVE  untilReconnect' = InitialDelay
    OBVIOUS
  <2>1. CASE Callbacks
    BY <2>1 DEF Callbacks, HandleConnected, HandleConnectionError, HandleClosed,
                ScheduleReconnect, IInv, Bounds, DelayInv, OpenInv
  <2>2. CASE Tick
    BY <2>2 DEF Tick, TickReconnect
  <2>3. CASE ~(Callbacks \/ Tick)
    BY <2>3 DEF Next, Initialize, Deinitialize, Reconnect, OpenSocket, Attempt,
                ServerStart, ServerStop, Lose, clientVars
  <2>4. QED
    BY <2>1, <2>2, <2>3
<1>2. QED
  BY <1>1, Invariance, PTL DEF Spec, RetryFromInitial
=============================================================================
