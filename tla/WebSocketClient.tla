--------------------------- MODULE WebSocketClient ---------------------------
(***************************************************************************)
(* FSageWebSocketClient, the plugin's end of the bridge, and the part of   *)
(* USageBridgeSubsystem that owns it. Everything here runs on the game     *)
(* thread of the editor: callbacks of the socket, ticks of FTSTicker and   *)
(* calls from the subsystem, each one an action. The server and the        *)
(* network decide when a connection attempt succeeds and when a connection *)
(* breaks. Times are whole seconds.                                        *)
(***************************************************************************)
EXTENDS Integers

CONSTANTS
  InitialDelay,       \* InitialReconnectDelaySeconds
  MaxDelay,           \* MaxReconnectDelaySeconds
  HeartbeatInterval,  \* HeartbeatIntervalSeconds
  MaxDelta            \* the longest time between two ticks (a bound)

ASSUME SettingsAssumption ==
  /\ InitialDelay \in Nat \ {0} /\ MaxDelay \in Nat \ {0}
  /\ HeartbeatInterval \in Nat \ {0} /\ MaxDelta \in Nat \ {0}

VARIABLES
  intended,       \* bConnectIntended
  socket,         \* Socket: not set, or the state of the socket it holds
  ticking,        \* TickerHandle is valid
  untilReconnect, \* TimeUntilReconnect
  untilHeartbeat, \* TimeUntilHeartbeat
  delay,          \* CurrentReconnectDelay
  serverUp,       \* the server listens
  peer,           \* the other end of an open connection is still there
  silence         \* history: seconds since the last hello or heartbeat

clientVars == <<intended, socket, ticking, untilReconnect, untilHeartbeat, delay>>
vars == <<clientVars, serverUp, peer, silence>>

TypeOK ==
  /\ intended \in BOOLEAN /\ ticking \in BOOLEAN
  /\ socket \in {"none", "connecting", "refused", "open", "closed"}
  /\ untilReconnect \in Int /\ untilHeartbeat \in Int /\ delay \in Nat
  /\ serverUp \in BOOLEAN /\ peer \in BOOLEAN /\ silence \in Nat

(* A client as BuildClientFromSettings makes it. *)
Fresh ==
  /\ intended = FALSE /\ socket = "none" /\ ticking = FALSE
  /\ untilReconnect = -1 /\ untilHeartbeat = -1 /\ delay = 0

Init == Fresh /\ serverUp \in BOOLEAN /\ peer = FALSE /\ silence = 0

-----------------------------------------------------------------------------
(* Connect(), when the socket is not open. An attempt made while nobody    *)
(* listens is "refused"; the callback that reports it comes later.         *)
Attempt == IF serverUp THEN "connecting" ELSE "refused"

OpenSocket ==
  /\ intended' = TRUE
  /\ delay' = IF delay <= 0 THEN InitialDelay ELSE delay
  /\ socket' = Attempt
  /\ ticking' = TRUE

(* Initialize with bAutoConnect. *)
Initialize ==
  /\ socket = "none" /\ ~intended
  /\ OpenSocket
  /\ UNCHANGED <<untilReconnect, untilHeartbeat, serverUp, peer, silence>>

(* Deinitialize: Disconnect(), and the client is released. The next        *)
(* Initialize has a fresh one.                                             *)
Deinitialize ==
  /\ intended
  /\ intended' = FALSE /\ socket' = "none" /\ ticking' = FALSE
  /\ untilReconnect' = -1 /\ untilHeartbeat' = -1 /\ delay' = 0
  /\ peer' = FALSE
  /\ UNCHANGED <<serverUp, silence>>

(* Reconnect(): Disconnect the old client, make a new one, Connect it.     *)
Reconnect ==
  /\ intended' = TRUE /\ socket' = Attempt /\ ticking' = TRUE
  /\ untilReconnect' = -1 /\ untilHeartbeat' = -1 /\ delay' = InitialDelay
  /\ peer' = FALSE
  /\ UNCHANGED <<serverUp, silence>>

-----------------------------------------------------------------------------
(* Mutant: the delay doubles without end. *)
NextDelay_Unbounded(d) == 2 * d

NextDelay(d) == IF 2 * d < MaxDelay THEN 2 * d ELSE MaxDelay

ScheduleReconnect ==
  /\ untilReconnect' = IF intended THEN delay ELSE untilReconnect
  /\ delay' = IF intended THEN NextDelay(delay) ELSE delay

(* Mutant: the delay reached so far is kept after a success. *)
HandleConnected_KeepsDelay ==
  /\ socket \in {"connecting", "refused"} /\ serverUp
  /\ socket' = "open" /\ peer' = TRUE
  /\ untilHeartbeat' = HeartbeatInterval
  /\ silence' = 0
  /\ UNCHANGED <<intended, ticking, untilReconnect, delay, serverUp>>

(* The attempt succeeds, also a refused one that the network retried; the  *)
(* subsystem's HandleConnected sends the hello.                            *)
HandleConnected ==
  /\ socket \in {"connecting", "refused"} /\ serverUp
  /\ socket' = "open" /\ peer' = TRUE
  /\ delay' = InitialDelay
  /\ untilHeartbeat' = HeartbeatInterval
  /\ silence' = 0
  /\ UNCHANGED <<intended, ticking, untilReconnect, serverUp>>

(* Mutant: only a connection that was open is tried again. *)
HandleConnectionError_GivesUp ==
  /\ socket = "refused"
  /\ socket' = "closed"
  /\ UNCHANGED <<intended, ticking, untilReconnect, untilHeartbeat, delay,
                 serverUp, peer, silence>>

HandleConnectionError ==
  /\ socket = "refused"
  /\ socket' = "closed"
  /\ ScheduleReconnect
  /\ UNCHANGED <<intended, ticking, untilHeartbeat, serverUp, peer, silence>>

HandleClosed ==
  /\ socket = "open" /\ ~peer
  /\ socket' = "closed"
  /\ ScheduleReconnect
  /\ UNCHANGED <<intended, ticking, untilHeartbeat, serverUp, peer, silence>>

-----------------------------------------------------------------------------
(* Tick: the reconnect timer first, then the heartbeat of a socket that is *)
(* open (never the one just created).                                      *)

TickReconnect(delta) ==
  IF untilReconnect > 0
    THEN /\ untilReconnect' = untilReconnect - delta
         /\ IF untilReconnect - delta <= 0 /\ intended /\ socket # "open"
              THEN OpenSocket
              ELSE UNCHANGED <<intended, delay, socket, ticking>>
    ELSE UNCHANGED <<untilReconnect, intended, delay, socket, ticking>>

(* Mutant: a tick counts as one second, however long it took. *)
TickHeartbeat_FixedStep(delta) ==
  IF socket = "open"
    THEN LET due == untilHeartbeat - 1 <= 0 IN
         /\ untilHeartbeat' = IF due THEN HeartbeatInterval
                                     ELSE untilHeartbeat - 1
         /\ silence' = IF due THEN 0 ELSE silence + delta
    ELSE UNCHANGED <<untilHeartbeat, silence>>

TickHeartbeat(delta) ==
  IF socket = "open"
    THEN LET due == untilHeartbeat - delta <= 0 IN
         /\ untilHeartbeat' = IF due THEN HeartbeatInterval
                                     ELSE untilHeartbeat - delta
         /\ silence' = IF due THEN 0 ELSE silence + delta
    ELSE UNCHANGED <<untilHeartbeat, silence>>

Tick ==
  /\ ticking
  /\ \E delta \in 1..MaxDelta : TickReconnect(delta) /\ TickHeartbeat(delta)
  /\ UNCHANGED <<serverUp, peer>>

-----------------------------------------------------------------------------
(* The server and the network. *)

ServerStart == ~serverUp /\ serverUp' = TRUE /\ UNCHANGED <<clientVars, peer, silence>>

ServerStop ==
  /\ serverUp /\ serverUp' = FALSE /\ peer' = FALSE
  /\ socket' = IF socket = "connecting" THEN "refused" ELSE socket
  /\ UNCHANGED <<intended, ticking, untilReconnect, untilHeartbeat, delay, silence>>

Lose == peer /\ peer' = FALSE /\ UNCHANGED <<clientVars, serverUp, silence>>

Callbacks == HandleConnected \/ HandleConnectionError \/ HandleClosed

Next ==
  \/ Initialize \/ Deinitialize \/ Reconnect
  \/ Callbacks \/ Tick
  \/ ServerStart \/ ServerStop \/ Lose

Spec == Init /\ [][Next]_vars

(* The game thread ticks, and the socket reports what became of an attempt *)
(* or of a connection whose other end has gone.                            *)
FairSpec == Spec /\ WF_vars(Tick) /\ WF_vars(Callbacks)

-----------------------------------------------------------------------------
(* A client that wants to be connected is never stranded: it has a socket  *)
(* that will report back, or a running ticker and a reconnect timer        *)
(* (Connect, Disconnect, ScheduleReconnect and the three callbacks).       *)
NeverStranded ==
  intended => /\ ticking /\ socket # "none"
              /\ socket = "closed" => untilReconnect > 0

(* "exponential backoff (initial 1s, max 5s)": no wait is longer than the  *)
(* larger of the two settings, and none is zero.                           *)
BackoffBounded ==
  /\ untilReconnect <= InitialDelay \/ untilReconnect <= MaxDelay
  /\ intended => delay > 0

(* "Plugin -> server every 15s": on an open connection the last hello or   *)
(* heartbeat is always younger than the interval, up to the tick that is   *)
(* due, however uneven the ticks are (Tick, HandleConnected).              *)
HeartbeatTimely == socket = "open" => silence < HeartbeatInterval

(* After a connection that worked, the first retry waits the initial delay *)
(* again, whatever delay had been reached before it (HandleConnected,      *)
(* ScheduleReconnect).                                                     *)
RetryFromInitial ==
  [][socket = "open" /\ socket' = "closed" => untilReconnect' = InitialDelay]_vars

(* While the server listens, a client that wants a connection gets one.    *)
Reconnects ==
  intended /\ serverUp ~> socket = "open" \/ ~serverUp \/ ~intended
=============================================================================
