------------------------------- MODULE Heartbeat -------------------------------
(* The heartbeat of two socket wires: each sends its timestamp and what it   *)
(* last heard of the other's at every interval, and takes the connection for *)
(* dead when the other's answer is too many intervals old.  The timestamps   *)
(* outlive the connection.                                                   *)
EXTENDS Integers, Sequences

CONSTANTS
  Wires,                  \* the two
  MaximumHeartbeatDelay,
  MaxPings,               \* bounds the pings of each
  MaxFlying,              \* bounds the pings of each that are not received
  MaxConnected            \* bounds the connections
ASSUME HeartbeatAssumption ==
  /\ \E v, w \in Wires : v # w /\ Wires = {v, w}
  /\ {MaximumHeartbeatDelay, MaxPings, MaxFlying, MaxConnected} \subseteq Nat
  /\ MaximumHeartbeatDelay >= 3

VARIABLES
  current,       \* current_timestamp of each
  counterpart,   \* counterpart_timestamp: the newest heard of the other's
  acknowledged,  \* counterpart_acknowledge_timestamp
  heartbeatAlive,
  pings,         \* what each has sent and the other not received
  pinging,       \* a ping is sent but current not yet incremented
  connections,   \* how many connections there have been, and restarts
  start,         \* observer: current when this connection began
  last,          \* observer: who sent the last ping
  late           \* observer: the network or a thread was slower than an interval

beatVars == <<current, counterpart, acknowledged, heartbeatAlive, pings, pinging,
              connections, start, last, late>>

OtherWire(w) == CHOOSE v \in Wires : v # w

BeatInit ==
  /\ current = [w \in Wires |-> 0]
  /\ counterpart = [w \in Wires |-> 0]
  /\ acknowledged = [w \in Wires |-> 0]
  /\ heartbeatAlive = [w \in Wires |-> FALSE]
  /\ pings = [w \in Wires |-> <<>>]
  /\ pinging = [w \in Wires |-> FALSE]
  /\ connections = 1
  /\ start = [w \in Wires |-> 0]
  /\ last \in Wires
  /\ late = FALSE

\* A broken variant: the delay itself is already too much.
EstablishedStrictly(timestamp, notion) == timestamp - notion < MaximumHeartbeatDelay

connection_established(timestamp, notion) == timestamp - notion <= MaximumHeartbeatDelay

\* ping: the check and the sending; the increment comes after.  Late is a
\* ping that is still on its way when its sender sends the next one, and a wire
\* that sends no ping between two of the other's.
Ping(w) ==
  /\ ~pinging[w] /\ current[w] < MaxPings /\ Len(pings[w]) < MaxFlying
  /\ heartbeatAlive' = [heartbeatAlive EXCEPT ![w] = @ /\ connection_established(current[w], acknowledged[w])]
  /\ pings' = [pings EXCEPT ![w] = Append(@, <<current[w], counterpart[w]>>)]
  /\ pinging' = [pinging EXCEPT ![w] = TRUE]
  /\ last' = w
  /\ late' = (late \/ pings[w] # <<>> \/ (last = w /\ current[w] > start[w]))
  /\ UNCHANGED <<current, counterpart, acknowledged, connections, start>>

\* A ping that cannot be sent is not counted.
PingFails(w) ==
  /\ ~pinging[w]
  /\ heartbeatAlive' = [heartbeatAlive EXCEPT ![w] = @ /\ connection_established(current[w], acknowledged[w])]
  /\ late' = TRUE
  /\ UNCHANGED <<current, counterpart, acknowledged, pings, pinging, connections, start, last>>

Increment(w) ==
  /\ pinging[w]
  /\ current' = [current EXCEPT ![w] = @ + 1]
  /\ pinging' = [pinging EXCEPT ![w] = FALSE]
  /\ UNCHANGED <<counterpart, acknowledged, heartbeatAlive, pings, connections, start, last, late>>

\* read_header, on the receiving thread.
ReceivePing(w) ==
  LET from == OtherWire(w)
  IN /\ pings[from] # <<>>
     /\ counterpart' = [counterpart EXCEPT ![w] = Head(pings[from])[1]]
     /\ acknowledged' = [acknowledged EXCEPT ![w] = Head(pings[from])[2]]
     /\ heartbeatAlive' = [heartbeatAlive EXCEPT
                             ![w] = @ \/ connection_established(current[w], Head(pings[from])[2])]
     /\ pings' = [pings EXCEPT ![from] = Tail(@)]
     /\ UNCHANGED <<current, pinging, connections, start, last, late>>

\* The connection is replaced; the other side's program may be a new one.
Reconnect(restarted) ==
  /\ connections < MaxConnected
  /\ connections' = connections + 1
  /\ \A w \in Wires : ~pinging[w]
  /\ pings' = [w \in Wires |-> <<>>]
  /\ current' = [w \in Wires |-> IF w \in restarted THEN 0 ELSE current[w]]
  /\ start' = current'
  /\ counterpart' = [w \in Wires |-> IF w \in restarted THEN 0 ELSE counterpart[w]]
  /\ acknowledged' = [w \in Wires |-> IF w \in restarted THEN 0 ELSE acknowledged[w]]
  /\ heartbeatAlive' = [w \in Wires |-> IF w \in restarted THEN FALSE ELSE heartbeatAlive[w]]
  /\ late' = FALSE
  /\ UNCHANGED <<pinging, last>>

BeatNext ==
  \/ \E w \in Wires : Ping(w) \/ PingFails(w) \/ Increment(w) \/ ReceivePing(w)
  \/ \E restarted \in SUBSET Wires : Reconnect(restarted)

BeatSpec == BeatInit /\ [][BeatNext]_beatVars

-----------------------------------------------------------------------------
\* A connection that is in time, one ping of each side in turn and each
\* received before the next, is never taken for dead once the other side has
\* answered a ping of this connection: three intervals are just enough
\* (SocketWire.cpp:178, 383, SocketWire.h:106).
NoFalseAlarm ==
  [][\A w \in Wires :
       heartbeatAlive[w] /\ ~heartbeatAlive'[w] /\ connections' = connections
         => late' \/ acknowledged[w] < start[w]]_beatVars
===============================================================================
