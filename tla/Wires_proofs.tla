----------------------------- MODULE Wires_proofs ------------------------------
(***************************************************************************)
(* What goes on over a socket wire besides the packages themselves.        *)
(*                                                                         *)
(* The heartbeat, for any number of pings and connections: pings that are  *)
(* in time alternate, and the answer in a ping is what its sender had      *)
(* received by then, so that an answer is at most three intervals old.     *)
(*                                                                         *)
(* Messages in packages, for any messages, lengths, chunk size and number  *)
(* of connections: the packages are the messages in pieces, and where the  *)
(* reader is in its message follows from the last package it received and  *)
(* what is left of it.  A reader that waits has read all of that package,  *)
(* so that the next one goes on where it is.                               *)
(***************************************************************************)
EXTENDS Heartbeat, MessageStream, SequenceTheorems, TLAPS

\* HEARTBEAT

\* Each of two wires has the other one.
LEMMA OtherWireIs ==
  ASSUME NEW v \in Wires
  PROVE  /\ OtherWire(v) \in Wires /\ OtherWire(v) # v
         /\ \A w \in Wires : w = v \/ w = OtherWire(v)
  BY HeartbeatAssumption DEF OtherWire

BeatTypeOK ==
  /\ current \in [Wires -> Int] /\ counterpart \in [Wires -> Int] /\ acknowledged \in [Wires -> Int]
  /\ heartbeatAlive \in [Wires -> BOOLEAN]
  /\ pings \in [Wires -> Seq(Int \X Int)] /\ pinging \in [Wires -> BOOLEAN]
  /\ connections \in Int /\ start \in [Wires -> Int] /\ last \in Wires /\ late \in BOOLEAN

\* The pings that a wire has sent over this connection, and those of them that
\* the other one has received.
SentPings(w) == current[w] - start[w] + IF pinging[w] THEN 1 ELSE 0
ReceivedPings(w) == SentPings(w) - Len(pings[w])

\* How many pings the other wire had sent when w sent its n-th.
SentBefore(w, n) ==
  SentPings(OtherWire(w)) - (IF last = w THEN 0 ELSE 1) - SentPings(w) + n

\* An answer by w that is in time for a wire whose pings it has received but one.
Recent(w, n, answer) ==
  LET m == SentBefore(w, n) IN m >= 2 => answer >= start[OtherWire(w)] + m - 2

\* Pings alternate; each is received before the next, and its answer is what
\* the sender had received by then.
InTime(w) ==
  LET o == OtherWire(w) IN
  /\ SentPings(w) >= 0 /\ Len(pings[w]) <= 1 /\ ReceivedPings(w) >= 0
  /\ last = w => SentPings(w) - SentPings(o) \in {0, 1}
  /\ pings[w] # <<>> => /\ pings[w][1][1] = start[w] + SentPings(w) - 1
                        /\ Recent(w, SentPings(w), pings[w][1][2])
  /\ ReceivedPings(w) >= 1 => /\ counterpart[o] >= start[w] + ReceivedPings(w) - 1
                              /\ Recent(w, ReceivedPings(w), acknowledged[o])

BeatInv == BeatTypeOK /\ (~late => \A w \in Wires : InTime(w))

\* A queue of at most one ping.
LEMMA OnlyOne ==
  ASSUME NEW S, NEW q \in Seq(S), q # <<>>, Len(q) <= 1
  PROVE  Len(q) = 1 /\ Head(q) = q[1] /\ Tail(q) = <<>>
<1>1. Len(q) \in Nat /\ Len(q) # 0 BY EmptySeq
<1>2. Len(q) = 1 BY <1>1
<1>3. Tail(q) \in Seq(S) /\ Len(Tail(q)) = 0 BY <1>2
<1>4. Tail(q) = <<>> BY <1>3, EmptySeq
<1>5. Head(q) = q[1] OBVIOUS
<1>. QED BY <1>2, <1>4, <1>5

\* The types of what a wire has.
LEMMA BeatTypes ==
  ASSUME BeatTypeOK, NEW x \in Wires
  PROVE  /\ current[x] \in Int /\ counterpart[x] \in Int /\ acknowledged[x] \in Int /\ start[x] \in Int
         /\ pings[x] \in Seq(Int \X Int) /\ Len(pings[x]) \in Nat
         /\ pinging[x] \in BOOLEAN /\ heartbeatAlive[x] \in BOOLEAN
         /\ SentPings(x) \in Int /\ ReceivedPings(x) \in Int
<1>1. /\ current[x] \in Int /\ start[x] \in Int /\ pings[x] \in Seq(Int \X Int)
  BY DEF BeatTypeOK
<1>2. Len(pings[x]) \in Nat BY <1>1
<1>. QED BY <1>1, <1>2 DEF BeatTypeOK, SentPings, ReceivedPings

\* At first nobody has pinged.
LEMMA BeatStarts == BeatInit => BeatInv
<1>. SUFFICES ASSUME BeatInit PROVE BeatInv OBVIOUS
<1>1. BeatTypeOK
  <2>1. <<>> \in Seq(Int \X Int) OBVIOUS
  <2>2. /\ 0 \in Int /\ 1 \in Int
        /\ pings \in [Wires -> Seq(Int \X Int)] BY <2>1 DEF BeatInit
  <2>3. /\ current \in [Wires -> Int] /\ counterpart \in [Wires -> Int] /\ acknowledged \in [Wires -> Int]
        /\ start \in [Wires -> Int] /\ heartbeatAlive \in [Wires -> BOOLEAN] /\ pinging \in [Wires -> BOOLEAN]
    BY DEF BeatInit
  <2>4. connections \in Int /\ last \in Wires BY DEF BeatInit
  <2>5. late \in BOOLEAN BY Zenon DEF BeatInit
  <2>. QED BY <2>2, <2>3, <2>4, <2>5 DEF BeatTypeOK
<1>2. ASSUME NEW w \in Wires PROVE InTime(w)
  BY OtherWireIs DEF BeatInit, InTime, SentPings, ReceivedPings, Recent, SentBefore
<1>. QED BY <1>1, <1>2 DEF BeatInv

\* Every step keeps the types.
LEMMA BeatTyped ==
  ASSUME BeatTypeOK, [BeatNext]_beatVars
  PROVE  BeatTypeOK'
<1>1. ASSUME NEW w \in Wires, Ping(w) PROVE BeatTypeOK'
  <2>1. <<current[w], counterpart[w]>> \in Int \X Int BY DEF BeatTypeOK
  <2>2. pings' \in [Wires -> Seq(Int \X Int)] BY <1>1, <2>1 DEF BeatTypeOK, Ping
  <2>3. heartbeatAlive' \in [Wires -> BOOLEAN]
    BY <1>1 DEF BeatTypeOK, Ping, connection_established
  <2>4. late' \in BOOLEAN BY <1>1 DEF Ping, BeatTypeOK
  <2>. QED BY <1>1, <2>2, <2>3, <2>4 DEF BeatTypeOK, Ping
<1>2. ASSUME NEW w \in Wires, PingFails(w) PROVE BeatTypeOK'
  <2>1. heartbeatAlive' \in [Wires -> BOOLEAN]
    BY <1>2 DEF BeatTypeOK, PingFails, connection_established
  <2>. QED BY <1>2, <2>1 DEF BeatTypeOK, PingFails
<1>3. ASSUME NEW w \in Wires, Increment(w) PROVE BeatTypeOK'
  BY <1>3 DEF BeatTypeOK, Increment
<1>4. ASSUME NEW w \in Wires, ReceivePing(w) PROVE BeatTypeOK'
  <2>. DEFINE from == OtherWire(w)
  <2>1. from \in Wires /\ pings[from] \in Seq(Int \X Int) /\ pings[from] # <<>>
    BY <1>4, OtherWireIs DEF BeatTypeOK, ReceivePing
  <2>2. Head(pings[from]) \in Int \X Int /\ Tail(pings[from]) \in Seq(Int \X Int) BY <2>1
  <2>3. Head(pings[from])[1] \in Int /\ Head(pings[from])[2] \in Int BY <2>2
  <2>4. heartbeatAlive' \in [Wires -> BOOLEAN]
    BY <1>4 DEF BeatTypeOK, ReceivePing, connection_established
  <2>5. pings' \in [Wires -> Seq(Int \X Int)] BY <1>4, <2>1, <2>2 DEF BeatTypeOK, ReceivePing
  <2>6. counterpart' \in [Wires -> Int] /\ acknowledged' \in [Wires -> Int]
    BY <1>4, <2>3 DEF BeatTypeOK, ReceivePing
  <2>. QED BY <1>4, <2>4, <2>5, <2>6 DEF BeatTypeOK, ReceivePing
<1>5. ASSUME NEW restarted \in SUBSET Wires, Reconnect(restarted) PROVE BeatTypeOK'
  <2>1. <<>> \in Seq(Int \X Int) OBVIOUS
  <2>2. heartbeatAlive' \in [Wires -> BOOLEAN] BY <1>5 DEF BeatTypeOK, Reconnect
  <2>3. /\ current' \in [Wires -> Int] /\ counterpart' \in [Wires -> Int] /\ acknowledged' \in [Wires -> Int]
        /\ start' \in [Wires -> Int]
    BY <1>5 DEF BeatTypeOK, Reconnect
  <2>4. pings' \in [Wires -> Seq(Int \X Int)] BY <1>5, <2>1 DEF Reconnect
  <2>5. connections' \in Int /\ late' \in BOOLEAN /\ last' \in Wires /\ pinging' \in [Wires -> BOOLEAN]
    <3>1. connections' = connections + 1 /\ pinging' = pinging /\ last' = last BY <1>5 DEF Reconnect
    <3>2. late' \in BOOLEAN BY <1>5, Zenon DEF Reconnect
    <3>. QED BY <3>1, <3>2 DEF BeatTypeOK
  <2>. QED BY <2>2, <2>3, <2>4, <2>5 DEF BeatTypeOK
<1>6. CASE UNCHANGED beatVars BY <1>6 DEF BeatTypeOK, beatVars
<1>. QED BY <1>1, <1>2, <1>3, <1>4, <1>5, <1>6 DEF BeatNext

\* A ping in time: the other wire has pinged since the last one.
LEMMA PingInTime ==
  ASSUME BeatInv, BeatTypeOK', NEW v \in Wires, Ping(v), ~late', NEW w \in Wires
  PROVE  InTime(w)'
<1>. DEFINE o == OtherWire(v)
<1>1. /\ o \in Wires /\ o # v /\ OtherWire(o) = v /\ (w = v \/ w = o)
  BY OtherWireIs
<1>. USE DEF BeatInv
<1>2. /\ ~late /\ pings[v] = <<>> /\ (last = v => current[v] <= start[v])
      /\ ~pinging[v] /\ pinging' = [pinging EXCEPT ![v] = TRUE] /\ last' = v
      /\ pings' = [pings EXCEPT ![v] = <<<<current[v], counterpart[v]>>>>]
      /\ UNCHANGED <<current, counterpart, acknowledged, start>>
  <2>1. /\ ~late /\ pings[v] = <<>> /\ ~(last = v /\ current[v] > start[v]) BY DEF Ping
  <2>2. Append(pings[v], <<current[v], counterpart[v]>>) = <<<<current[v], counterpart[v]>>>> BY <2>1
  <2>. QED BY <2>1, <2>2, BeatTypes DEF Ping
<1>13. /\ pinging[v]' = TRUE /\ pinging[o]' = pinging[o]
       /\ pings[v]' = <<<<current[v], counterpart[v]>>>> /\ pings[o]' = pings[o]
  BY <1>1, <1>2 DEF BeatTypeOK
<1>3. InTime(v) /\ InTime(o) /\ last \in {v, o} BY <1>1, <1>2, OtherWireIs DEF BeatInv, BeatTypeOK
<1>7. /\ Len(pings[v]) = 0 /\ Len(pings[o]) \in Nat /\ Len(pings[v])' = 1 /\ pings[o]' = pings[o]
      /\ pings[v]'[1] = <<current[v], counterpart[v]>>
      /\ (pings[o] # <<>> => Len(pings[o]) >= 1)
  <2>1. pings[o] \in Seq(Int \X Int) BY <1>1, BeatTypes
  <2>. QED BY <1>2, <1>13, <2>1
<1>8. /\ counterpart[v] \in Int /\ counterpart[o] \in Int /\ start[v] \in Int /\ start[o] \in Int
      /\ current[v] \in Int /\ current[o] \in Int
  BY <1>1, BeatTypes
<1>4. /\ SentPings(v)' = SentPings(v) + 1 /\ SentPings(o)' = SentPings(o)
      /\ ReceivedPings(v) = SentPings(v) /\ ReceivedPings(v)' = ReceivedPings(v)
      /\ ReceivedPings(o)' = ReceivedPings(o)
      /\ SentPings(v) = current[v] - start[v]
  <2>1. ~pinging[v] /\ pinging[v]' /\ UNCHANGED <<current, start>> BY <1>2, <1>13
  <2>2. SentPings(v) = current[v] - start[v] BY <2>1, <1>8 DEF SentPings
  <2>3. SentPings(v)' = current[v] - start[v] + 1 BY <2>1 DEF SentPings
  <2>4. SentPings(o)' = SentPings(o) BY <2>1, <1>13 DEF SentPings
  <2>5. SentPings(o) \in Int /\ SentPings(v) \in Int BY <1>1, BeatTypes
  <2>. QED BY <2>2, <2>3, <2>4, <2>5, <1>7, <1>8 DEF ReceivedPings
<1>5. SentPings(v) \in Int /\ SentPings(o) \in Int /\ ReceivedPings(v) \in Int /\ ReceivedPings(o) \in Int
  BY <1>1, BeatTypes
<1>6. last = v => SentPings(v) = 0 /\ SentPings(o) = 0
  <2>. SUFFICES ASSUME last = v PROVE SentPings(v) = 0 /\ SentPings(o) = 0 OBVIOUS
  <2>1. SentPings(v) <= 0 BY <1>2, <1>4, <1>8
  <2>2. SentPings(v) >= 0 /\ SentPings(o) >= 0 /\ SentPings(v) - SentPings(o) \in {0, 1} BY <1>3 DEF InTime
  <2>. QED BY <2>1, <2>2, <1>5
<1>9. ASSUME NEW n \in Int, last = o PROVE SentBefore(v, n)' = SentBefore(v, n) /\ SentBefore(o, n)' = SentBefore(o, n)
  BY <1>1, <1>2, <1>4, <1>5, <1>9 DEF SentBefore
<1>10. SentBefore(v, SentPings(v))' = SentPings(o)
  BY <1>1, <1>2, <1>4, <1>5 DEF SentBefore
<1>11. CASE w = v
  <2>1. SentPings(v)' >= 0 /\ Len(pings[v])' <= 1 /\ ReceivedPings(v)' >= 0
    BY <1>3, <1>4, <1>5, <1>7 DEF InTime
  <2>2. SentPings(v)' - SentPings(o)' \in {0, 1}
    BY <1>3, <1>4, <1>5, <1>6, <1>1 DEF InTime
  <2>3. pings[v]'[1][1] = start[v]' + SentPings(v)' - 1
    BY <1>2, <1>4, <1>7, <1>8
  <2>4. SentPings(o) >= 2 => counterpart[v] >= start[o] + SentPings(o) - 2
    <3>. SUFFICES ASSUME SentPings(o) >= 2 PROVE counterpart[v] >= start[o] + SentPings(o) - 2 OBVIOUS
    <3>1. ReceivedPings(o) >= SentPings(o) - 1 BY <1>3, <1>5, <1>7 DEF InTime, ReceivedPings
    <3>2. counterpart[v] >= start[o] + ReceivedPings(o) - 1 BY <1>1, <1>3, <1>5, <3>1 DEF InTime
    <3>. QED BY <1>5, <1>8, <3>1, <3>2
  <2>5. Recent(v, SentPings(v), pings[v][1][2])'
    BY <2>4, <1>1, <1>2, <1>4, <1>7, <1>10 DEF Recent
  <2>6. ReceivedPings(v)' >= 1 => counterpart[o]' >= start[v]' + ReceivedPings(v)' - 1
    BY <1>2, <1>3, <1>4 DEF InTime
  <2>7. ReceivedPings(v)' >= 1 => Recent(v, ReceivedPings(v), acknowledged[o])'
    <3>. SUFFICES ASSUME ReceivedPings(v)' >= 1 PROVE Recent(v, ReceivedPings(v), acknowledged[o])' OBVIOUS
    <3>1. last = o BY <1>3, <1>4, <1>6
    <3>2. Recent(v, ReceivedPings(v), acknowledged[o]) BY <1>3, <1>4 DEF InTime
    <3>. QED BY <3>1, <3>2, <1>1, <1>2, <1>4, <1>5, <1>9 DEF Recent
  <2>. QED BY <2>1, <2>2, <2>3, <2>5, <2>6, <2>7, <1>11 DEF InTime
<1>12. CASE w = o
  <2>1. /\ SentPings(o)' >= 0 /\ Len(pings[o])' <= 1 /\ ReceivedPings(o)' >= 0 /\ last' # o
    BY <1>1, <1>2, <1>3, <1>4, <1>7 DEF InTime
  <2>2. pings[o]' # <<>> => last = o /\ pings[o]'[1][1] = start[o]' + SentPings(o)' - 1
    BY <1>2, <1>3, <1>4, <1>5, <1>6, <1>7 DEF InTime, ReceivedPings
  <2>3. pings[o]' # <<>> => Recent(o, SentPings(o), pings[o][1][2])'
    BY <2>2, <1>1, <1>2, <1>3, <1>4, <1>5, <1>7, <1>9 DEF InTime, Recent
  <2>4. ReceivedPings(o)' >= 1 => last = o /\ counterpart[v]' >= start[o]' + ReceivedPings(o)' - 1
    BY <1>1, <1>2, <1>3, <1>4, <1>5, <1>6, <1>7 DEF InTime, ReceivedPings
  <2>5. ReceivedPings(o)' >= 1 => Recent(o, ReceivedPings(o), acknowledged[v])'
    BY <2>4, <1>1, <1>2, <1>3, <1>4, <1>5, <1>7, <1>9 DEF InTime, Recent
  <2>. QED BY <2>1, <2>2, <2>3, <2>4, <2>5, <1>1, <1>12 DEF InTime
<1>. QED BY <1>1, <1>11, <1>12

\* Counting a ping changes nothing: it counted since it was sent.
LEMMA IncrementInTime ==
  ASSUME BeatInv, NEW v \in Wires, Increment(v), ~late', NEW w \in Wires
  PROVE  InTime(w)'
<1>1. InTime(w) BY DEF BeatInv, Increment
<1>2. \A x \in Wires : SentPings(x)' = SentPings(x)
  <2>. SUFFICES ASSUME NEW x \in Wires PROVE SentPings(x)' = SentPings(x) OBVIOUS
  <2>1. /\ current[x] \in Int /\ start[x] \in Int /\ pinging[v]
        /\ current' = [current EXCEPT ![v] = @ + 1] /\ pinging' = [pinging EXCEPT ![v] = FALSE] /\ start' = start
    BY BeatTypes DEF BeatInv, Increment
  <2>2. /\ current'[x] = IF x = v THEN current[x] + 1 ELSE current[x]
        /\ x # v => pinging'[x] = pinging[x]
        /\ x = v => ~pinging'[x]
    BY <2>1 DEF BeatInv, BeatTypeOK
  <2>3. CASE x = v BY <2>1, <2>2, <2>3 DEF SentPings
  <2>4. CASE x # v BY <2>1, <2>2, <2>4 DEF SentPings
  <2>. QED BY <2>3, <2>4
<1>3. \A x \in Wires : ReceivedPings(x)' = ReceivedPings(x)
  BY <1>2 DEF Increment, ReceivedPings
<1>4. UNCHANGED <<last, counterpart, acknowledged, pings, start>> BY DEF Increment
<1>5. OtherWire(w) \in Wires BY OtherWireIs
<1>6. \A n : SentBefore(w, n)' = SentBefore(w, n) BY <1>2, <1>4, <1>5 DEF SentBefore
<1>7. \A n, a : Recent(w, n, a)' <=> Recent(w, n, a) BY <1>4, <1>6 DEF Recent
<1>8. InTime(w)' <=> InTime(w) BY <1>2, <1>3, <1>4, <1>5, <1>7, OtherWireIs DEF InTime
<1>. QED BY <1>1, <1>8

\* The ping on its way was the last one, so all of its sender are received.
LEMMA ReceiveInTime ==
  ASSUME BeatInv, NEW v \in Wires, ReceivePing(v), ~late', NEW w \in Wires
  PROVE  InTime(w)'
<1>. DEFINE o == OtherWire(v)
<1>1. /\ o \in Wires /\ o # v /\ OtherWire(o) = v /\ (w = v \/ w = o)
  BY OtherWireIs
<1>2. /\ pings[o] # <<>> /\ counterpart' = [counterpart EXCEPT ![v] = Head(pings[o])[1]]
      /\ acknowledged' = [acknowledged EXCEPT ![v] = Head(pings[o])[2]]
      /\ pings' = [pings EXCEPT ![o] = Tail(@)] /\ UNCHANGED <<current, pinging, start, last, late>>
  BY DEF ReceivePing
<1>3. InTime(v) /\ InTime(o) BY <1>1, <1>2 DEF BeatInv
<1>4. pings[o] \in Seq(Int \X Int) BY <1>1, BeatTypes DEF BeatInv
<1>5. Len(pings[o]) = 1 /\ Head(pings[o]) = pings[o][1] /\ Tail(pings[o]) = <<>>
  <2>1. Len(pings[o]) <= 1 BY <1>3 DEF InTime
  <2>. QED BY <1>2, <1>4, <2>1, OnlyOne
<1>6. /\ pings[o]' = <<>> /\ pings[v]' = pings[v]
      /\ counterpart[v]' = pings[o][1][1] /\ acknowledged[v]' = pings[o][1][2]
      /\ counterpart[o]' = counterpart[o] /\ acknowledged[o]' = acknowledged[o]
  BY <1>1, <1>2, <1>5 DEF BeatInv, BeatTypeOK
<1>7. \A x \in Wires : SentPings(x)' = SentPings(x) /\ SentPings(x) \in Int
  BY <1>2, BeatTypes DEF SentPings, BeatInv
<1>8. \A x \in Wires : \A n : SentBefore(x, n)' = SentBefore(x, n)
  BY <1>2, <1>7, OtherWireIs DEF SentBefore
<1>9. \A x \in Wires : \A n, a : Recent(x, n, a)' <=> Recent(x, n, a)
  BY <1>2, <1>8 DEF Recent
<1>10. CASE w = o
  <2>1. ReceivedPings(o)' = SentPings(o) /\ Len(pings[o])' = 0 BY <1>1, <1>6, <1>7 DEF ReceivedPings
  <2>2. counterpart[v]' = start[o]' + SentPings(o)' - 1 BY <1>1, <1>2, <1>3, <1>6, <1>7 DEF InTime
  <2>3. Recent(o, SentPings(o), pings[o][1][2]) BY <1>2, <1>3 DEF InTime
  <2>4. Recent(o, ReceivedPings(o), acknowledged[v])' BY <2>1, <2>3, <1>1, <1>6, <1>9
  <2>5. SentPings(o)' >= 0 /\ (last' = o => SentPings(o)' - SentPings(v)' \in {0, 1})
    BY <1>1, <1>2, <1>3, <1>7 DEF InTime
  <2>6. start[o]' \in Int BY <1>1, <1>2 DEF BeatInv, BeatTypeOK
  <2>. QED BY <2>1, <2>2, <2>4, <2>5, <2>6, <1>1, <1>6, <1>7, <1>10 DEF InTime
<1>11. CASE w = v
  <2>1. ReceivedPings(v)' = ReceivedPings(v) BY <1>6, <1>7 DEF ReceivedPings
  <2>. QED BY <2>1, <1>1, <1>2, <1>3, <1>6, <1>7, <1>9, <1>11 DEF InTime
<1>. QED BY <1>1, <1>10, <1>11

\* The first thing of a connection.
LEMMA ReconnectInTime ==
  ASSUME BeatInv, BeatTypeOK', NEW restarted \in SUBSET Wires, Reconnect(restarted), NEW w \in Wires
  PROVE  InTime(w)'
<1>1. OtherWire(w) \in Wires BY OtherWireIs
<1>2. \A x \in Wires : current'[x] = start'[x] /\ start'[x] \in Int /\ pings'[x] = <<>> /\ ~pinging'[x]
  BY DEF Reconnect, BeatTypeOK
<1>3. \A x \in Wires : SentPings(x)' = 0 /\ ReceivedPings(x)' = 0
  BY <1>2 DEF SentPings, ReceivedPings
<1>. QED BY <1>1, <1>2, <1>3 DEF InTime

\* Every step keeps the pings in time.
LEMMA BeatKept == BeatInv /\ [BeatNext]_beatVars => BeatInv'
<1>. SUFFICES ASSUME BeatInv, [BeatNext]_beatVars PROVE BeatInv' OBVIOUS
<1>1. BeatTypeOK' BY BeatTyped DEF BeatInv
<1>2. ASSUME ~late', NEW w \in Wires PROVE InTime(w)'
  <2>1. CASE UNCHANGED beatVars
    <3>1. InTime(w) BY <1>2, <2>1 DEF BeatInv, beatVars
    <3>. QED BY <2>1, <3>1 DEF beatVars, InTime, SentPings, ReceivedPings, Recent, SentBefore
  <2>2. ASSUME NEW v \in Wires, PingFails(v) PROVE FALSE BY <2>2, <1>2 DEF PingFails
  <2>. QED BY <1>1, <1>2, <2>1, <2>2, PingInTime, IncrementInTime, ReceiveInTime, ReconnectInTime DEF BeatNext
<1>. QED BY <1>1, <1>2 DEF BeatInv

\* In every state pings that were in time have been answered in time.
THEOREM BeatInvariance == BeatSpec => []BeatInv
<1>. QED BY BeatStarts, BeatKept, PTL DEF BeatSpec

\* A connection in time is never taken for dead.
THEOREM NoAlarm == BeatSpec => NoFalseAlarm
<1>. DEFINE Quiet == \A w \in Wires :
       heartbeatAlive[w] /\ ~heartbeatAlive'[w] /\ connections' = connections
         => late' \/ acknowledged[w] < start[w]
<1>1. ASSUME BeatInv, BeatInv', BeatNext PROVE Quiet
  <2>. SUFFICES ASSUME NEW w \in Wires, heartbeatAlive[w], ~heartbeatAlive'[w], connections' = connections,
                       ~late', acknowledged[w] >= start[w]
                PROVE  FALSE
    <3>1. \A w \in Wires : acknowledged[w] \in Int /\ start[w] \in Int BY <1>1, BeatTypes DEF BeatInv
    <3>. QED BY <3>1
  <2>. DEFINE o == OtherWire(w)
  <2>1. o \in Wires /\ OtherWire(o) = w /\ o # w BY OtherWireIs
  <2>2. Ping(w)
    <3>1. ASSUME NEW v \in Wires, PingFails(v) PROVE FALSE BY <3>1 DEF PingFails
    <3>2. ASSUME NEW v \in Wires, Ping(v) PROVE v = w
      <4>1. heartbeatAlive' = [heartbeatAlive EXCEPT ![v] = @ /\ connection_established(current[v], acknowledged[v])]
        BY <3>2 DEF Ping
      <4>2. heartbeatAlive \in [Wires -> BOOLEAN] BY <1>1 DEF BeatInv, BeatTypeOK
      <4>. QED BY <4>1, <4>2
    <3>3. ASSUME NEW v \in Wires, Increment(v) PROVE FALSE BY <3>3 DEF Increment
    <3>4. ASSUME NEW v \in Wires, ReceivePing(v) PROVE FALSE
      <4>1. heartbeatAlive' = [heartbeatAlive EXCEPT
              ![v] = @ \/ connection_established(current[v], Head(pings[OtherWire(v)])[2])]
        BY <3>4 DEF ReceivePing
      <4>2. heartbeatAlive \in [Wires -> BOOLEAN] BY <1>1 DEF BeatInv, BeatTypeOK
      <4>3. heartbeatAlive'[w] BY <4>1, <4>2 DEF connection_established
      <4>. QED BY <4>3
    <3>5. ASSUME NEW restarted \in SUBSET Wires, Reconnect(restarted) PROVE FALSE
      BY <3>5 DEF Reconnect, BeatInv, BeatTypeOK
    <3>. QED BY <1>1, <3>1, <3>2, <3>3, <3>4, <3>5 DEF BeatNext
  <2>3. /\ ~connection_established(current[w], acknowledged[w])
        /\ ~late /\ ~pinging[w] /\ (last = w => current[w] <= start[w])
    <3>1. ~late /\ ~pinging[w] /\ ~(last = w /\ current[w] > start[w]) BY <2>2 DEF Ping
    <3>2. heartbeatAlive' = [heartbeatAlive EXCEPT ![w] = @ /\ connection_established(current[w], acknowledged[w])]
      BY <2>2 DEF Ping
    <3>3. heartbeatAlive \in [Wires -> BOOLEAN] BY <1>1 DEF BeatInv, BeatTypeOK
    <3>4. ~connection_established(current[w], acknowledged[w]) BY <3>2, <3>3
    <3>5. current[w] \in Int /\ start[w] \in Int BY <1>1, BeatTypes DEF BeatInv
    <3>. QED BY <3>1, <3>4, <3>5
  <2>4. /\ current[w] \in Int /\ acknowledged[w] \in Int /\ start[w] \in Int
        /\ SentPings(w) = current[w] - start[w] /\ SentPings(o) \in Int /\ Len(pings[o]) \in Nat
    BY <1>1, <2>1, <2>3, BeatTypes DEF BeatInv, SentPings
  <2>5. current[w] - acknowledged[w] > 3
    BY <2>3, <2>4, HeartbeatAssumption DEF connection_established
  <2>6. InTime(o) /\ InTime(w) BY <1>1, <2>1, <2>3 DEF BeatInv
  <2>7. SentPings(w) > 3 BY <2>4, <2>5
  <2>8. last = o /\ SentPings(o) - SentPings(w) \in {0, 1}
    <3>1. last \in Wires BY <1>1 DEF BeatInv, BeatTypeOK
    <3>2. last # w BY <2>3, <2>4, <2>7
    <3>3. last = o BY <3>1, <3>2, OtherWireIs
    <3>. QED BY <2>1, <2>6, <3>3 DEF InTime
  <2>9. ReceivedPings(o) \in Int /\ ReceivedPings(o) >= SentPings(o) - 1
    BY <2>4, <2>6 DEF InTime, ReceivedPings
  <2>10. Recent(o, ReceivedPings(o), acknowledged[w])
    BY <2>1, <2>4, <2>6, <2>7, <2>8, <2>9 DEF InTime
  <2>11. SentBefore(o, ReceivedPings(o)) >= SentPings(w) - 1
    BY <2>1, <2>4, <2>8, <2>9 DEF SentBefore
  <2>12. SentBefore(o, ReceivedPings(o)) \in Int
    BY <2>1, <2>4, <2>8, <2>9 DEF SentBefore
  <2>. QED BY <2>1, <2>4, <2>5, <2>7, <2>10, <2>11, <2>12 DEF Recent
<1>2. BeatInv /\ BeatInv' /\ [BeatNext]_beatVars => [Quiet]_beatVars BY <1>1
<1>. QED BY <1>2, BeatInvariance, PTL DEF BeatSpec, NoFalseAlarm

-------------------------------------------------------------------------------
\* MESSAGES IN PACKAGES

Units == MessageNumbers \X Nat
Total(m) == BodyUnits[m] + 2

\* p is a piece of message m behind its first k units; size and id come together.
Piece(p, m, k) ==
  /\ k \in Nat /\ Len(p) >= 1 /\ k + Len(p) <= Total(m)
  /\ k = 0 => Len(p) >= 2
  /\ \A i \in 1 .. Len(p) : p[i] = <<m, k + i>>

Of(p) == p[1][1]
From(p) == p[1][2] - 1
End(p) == From(p) + Len(p)

Continues(p, q) ==
  \/ Of(q) = Of(p) /\ From(q) = End(p)
  \/ Of(q) = Of(p) + 1 /\ From(q) = 0 /\ End(p) = Total(Of(p))

\* The packages ps are w messages, cut in pieces.
InPieces(w, ps) ==
  /\ w \in 0 .. Len(BodyUnits) /\ ps \in Seq(Seq(Units))
  /\ \A n \in 1 .. Len(ps) : Of(ps[n]) \in 1 .. w /\ Piece(ps[n], Of(ps[n]), From(ps[n]))
  /\ \A n \in 1 .. Len(ps) : n + 1 <= Len(ps) => Continues(ps[n], ps[n + 1])
  /\ Len(ps) >= 1 => Of(ps[1]) = 1 /\ From(ps[1]) = 0
  /\ IF w = 0 THEN ps = <<>>
     ELSE Len(ps) >= 1 /\ Of(ps[Len(ps)]) = w /\ End(ps[Len(ps)]) = Total(w)

\* The reader is between two messages.
Between == reading = "header" /\ sz = -1 /\ id_ = -1 /\ got = <<>>

\* It has read the first k units of message m.
Inside(m, k) ==
  \/ k = 0 /\ Between
  \/ k = 1 /\ reading = "header" /\ sz = SizeOf(m) /\ id_ = -1
  \/ k = 2 /\ reading = "header" /\ sz = SizeOf(m) /\ id_ = m
  \/ /\ k >= 2 /\ reading = "body" /\ sz = BodyUnits[m] /\ id_ = m
     /\ got \in Seq(Units) /\ Len(got) = k - 2 /\ \A i \in 1 .. Len(got) : got[i] = <<m, i + 2>>

After(m) == dispatched # <<>> /\ Is(dispatched[Len(dispatched)], m)

ReaderAt(m, k) ==
  /\ m \in MessageNumbers /\ k \in Nat /\ units \in Seq(Units)
  /\ \A i \in 1 .. Len(units) : units[i] = <<m, k + i>>
  /\ \/ Inside(m, k) /\ (m = 1 \/ After(m - 1))
     \/ k = Total(m) /\ Between /\ After(m)

Intact ==
  \A i \in DOMAIN dispatched :
    \E m \in MessageNumbers :
      /\ Is(dispatched[i], m)
      /\ m = 1 \/ (i > 1 /\ Is(dispatched[i - 1], m - 1))

Undisturbed ==
  /\ announced \in Int
  /\ dispatched \in Seq([id : Int, body : Seq(Units), size : Int])
  /\ (~streamConnected \/ next <= max_received_seqn) => units = <<>> /\ Between
  /\ IF max_received_seqn = 0 THEN units = <<>> /\ Between
     ELSE \E k \in Nat : /\ k + Len(units) = End(packages[max_received_seqn])
                         /\ ReaderAt(Of(packages[max_received_seqn]), k)
  /\ Intact

StreamInv ==
  /\ InPieces(written, packages)
  /\ max_received_seqn \in 0 .. Len(packages)
  /\ next \in 1 .. max_received_seqn + 1 /\ first \in 1 .. next
  /\ stray \in BOOLEAN /\ interrupted \in BOOLEAN /\ threw \in BOOLEAN
  /\ ~stray /\ ~interrupted /\ ~threw => Undisturbed
-----------------------------------------------------------------------------
\* A quotient and its remainder.
LEMMA Division ==
  ASSUME NEW a \in Nat, NEW c \in Nat, c > 0
  PROVE  /\ a \div c \in Nat /\ c * (a \div c) <= a /\ a < c * ((a \div c) + 1)
  OBVIOUS

\* Multiples of a number grow with their factor.
LEMMA Times ==
  ASSUME NEW i \in Nat, NEW j \in Nat, NEW c \in Nat
  PROVE  /\ i <= j => i * c <= j * c
         /\ (i + 1) * c = i * c + c /\ i * c \in Nat /\ c * i = i * c
  OBVIOUS

\* The two halves of a concatenation.
LEMMA Joined ==
  ASSUME NEW S, NEW p \in Seq(S), NEW q \in Seq(S)
  PROVE  /\ p \o q \in Seq(S) /\ Len(p \o q) = Len(p) + Len(q)
         /\ \A i \in 1 .. Len(p) : (p \o q)[i] = p[i]
         /\ \A i \in 1 .. Len(q) : (p \o q)[Len(p) + i] = q[i]
  OBVIOUS

\* Sequences with the same elements are the same.
LEMMA SameElements ==
  ASSUME NEW S, NEW p \in Seq(S), NEW q \in Seq(S), Len(p) = Len(q),
         \A i \in 1 .. Len(p) : p[i] = q[i]
  PROVE  p = q
  OBVIOUS

\* The messages have lengths.
LEMMA Messages ==
  /\ Len(BodyUnits) \in Nat /\ MessageNumbers = 1 .. Len(BodyUnits)
  /\ \A m \in MessageNumbers : BodyUnits[m] \in Nat /\ Total(m) \in Nat /\ Total(m) >= 2
                               /\ m \in Nat /\ m >= 1
  BY StreamAssumption DEF MessageNumbers, Total

\* A message of n units in pieces of c.
LEMMA ChunksAre ==
  ASSUME NEW m \in MessageNumbers
  PROVE  LET cs == Chunks(MessageUnits(m)) IN
         /\ cs \in Seq(Seq(Units)) /\ Len(cs) >= 1
         /\ \A j \in 1 .. Len(cs) : Piece(cs[j], m, (j - 1) * ChunkUnits)
         /\ \A j \in 1 .. Len(cs) : j < Len(cs) => Len(cs[j]) = ChunkUnits
         /\ (Len(cs) - 1) * ChunkUnits + Len(cs[Len(cs)]) = Total(m)
<1>. DEFINE s == MessageUnits(m)
            t == Total(m)
            c == ChunkUnits
            l == (t + c - 1) \div c
            cs == Chunks(s)
<1>1. /\ t \in Nat /\ t >= 2 /\ c \in Nat /\ c >= 2 /\ BodyUnits[m] \in Nat
  BY Messages, StreamAssumption
<1>2. /\ s \in Seq(Units) /\ Len(s) = t /\ \A i \in 1 .. t : s[i] = <<m, i>>
  BY <1>1 DEF MessageUnits, Units, Total
<1>3. l \in Nat /\ l * c <= t + c - 1 /\ t + c - 1 < l * c + c
  <2>1. t + c - 1 \in Nat BY <1>1
  <2>. HIDE DEF t
  <2>2. l \in Nat /\ c * l <= t + c - 1 /\ t + c - 1 < c * (l + 1) BY <1>1, <2>1, Division
  <2>. HIDE DEF l
  <2>. QED BY <1>1, <2>2, Times
<1>. HIDE DEF l, t, c
<1>4. l >= 1
  <2>1. l = 0 => l * c = 0 BY <1>1
  <2>. QED BY <1>1, <1>3, <2>1
<1>5. cs = [j \in 1 .. l |-> SubSeq(s, (j - 1) * c + 1, IF j * c < t THEN j * c ELSE t)]
  BY <1>2 DEF Chunks, l, c
<1>6. ASSUME NEW j \in 1 .. l
      PROVE  /\ cs[j] \in Seq(Units) /\ Piece(cs[j], m, (j - 1) * c)
             /\ j < l => Len(cs[j]) = c
             /\ j = l => (l - 1) * c + Len(cs[l]) = t
  <2>. DEFINE k == (j - 1) * c
              e == IF j * c < t THEN j * c ELSE t
  <2>1. k \in Nat /\ j * c = k + c
    <3>1. j - 1 \in Nat BY <1>3
    <3>. QED BY <3>1, <1>1, Times
  <2>2. k <= t - 1
    <3>1. /\ j - 1 \in Nat /\ l - 1 \in Nat /\ j - 1 <= l - 1 BY <1>3, <1>4
    <3>2. k <= (l - 1) * c BY <3>1, <1>1, Times
    <3>3. l * c = (l - 1) * c + c
      <4>1. (l - 1) + 1 = l BY <1>3, <1>4
      <4>. QED BY <3>1, <4>1, <1>1, Times
    <3>4. (l - 1) * c \in Nat BY <3>1, <1>1, Times
    <3>. HIDE DEF k
    <3>. QED BY <3>2, <3>3, <3>4, <2>1, <1>1, <1>3
  <2>. HIDE DEF k
  <2>3. e \in Nat /\ k + 1 <= e /\ e <= t BY <1>1, <2>1, <2>2
  <2>4. cs[j] = SubSeq(s, k + 1, e) BY <1>5 DEF k
  <2>. HIDE DEF e, cs, s
  <2>5. /\ cs[j] \in Seq(Units) /\ Len(cs[j]) = e - k
        /\ \A i \in 1 .. Len(cs[j]) : cs[j][i] = s[k + i]
    BY <1>1, <1>2, <2>1, <2>3, <2>4
  <2>6. \A i \in 1 .. Len(cs[j]) : cs[j][i] = <<m, k + i>>
    BY <1>1, <1>2, <2>1, <2>3, <2>5
  <2>7. k = 0 => e >= 2 BY <1>1, <2>1 DEF e
  <2>8. Piece(cs[j], m, k) BY <2>1, <2>3, <2>5, <2>6, <2>7, <1>1 DEF Piece, t
  <2>9. j < l => e = k + c
    <3>. SUFFICES ASSUME j < l PROVE j * c < t BY <2>1 DEF e
    <3>1. j * c <= (l - 1) * c /\ l * c = (l - 1) * c + c /\ (l - 1) * c \in Nat
      <4>1. j \in Nat /\ l - 1 \in Nat /\ j <= l - 1 /\ (l - 1) + 1 = l BY <1>3, <1>4
      <4>. QED BY <4>1, <1>1, Times
    <3>. QED BY <3>1, <2>1, <1>1, <1>3
  <2>10. j = l => e = t BY <1>1, <1>3, <2>1 DEF e
  <2>11. j < l => Len(cs[j]) = c BY <2>1, <2>3, <2>5, <2>9, <1>1
  <2>12. j = l => k + Len(cs[j]) = t BY <2>1, <2>3, <2>5, <2>10, <1>1
  <2>. QED BY <2>5, <2>8, <2>11, <2>12 DEF k
<1>7. cs \in Seq(Seq(Units)) /\ Len(cs) = l
  <2>1. \A j \in 1 .. l : cs[j] \in Seq(Units) BY <1>6
  <2>2. DOMAIN cs = 1 .. l BY <1>5
  <2>3. cs = [j \in 1 .. l |-> cs[j]] BY <1>5
  <2>. HIDE DEF cs
  <2>. QED BY <1>3, <2>1, <2>2, <2>3
<1>. QED BY <1>4, <1>6, <1>7 DEF t, c

\* The messages sent so far and the next one, in pieces.
LEMMA InPiecesLonger ==
  ASSUME NEW w, NEW ps, InPieces(w, ps), w < Len(BodyUnits)
  PROVE  LET qs == ps \o Chunks(MessageUnits(w + 1)) IN
         /\ InPieces(w + 1, qs) /\ Len(ps) <= Len(qs)
         /\ \A n \in 1 .. Len(ps) : qs[n] = ps[n]
<1>. DEFINE m == w + 1
            cs == Chunks(MessageUnits(m))
            qs == ps \o cs
<1>1. /\ w \in Nat /\ m \in MessageNumbers /\ m \in Nat /\ m \in 0 .. Len(BodyUnits)
  BY Messages DEF InPieces
<1>2. /\ cs \in Seq(Seq(Units)) /\ Len(cs) \in Nat /\ Len(cs) >= 1
      /\ \A j \in 1 .. Len(cs) : Piece(cs[j], m, (j - 1) * ChunkUnits)
      /\ \A j \in 1 .. Len(cs) : j < Len(cs) => Len(cs[j]) = ChunkUnits
      /\ (Len(cs) - 1) * ChunkUnits + Len(cs[Len(cs)]) = Total(m)
  BY <1>1, ChunksAre
<1>. HIDE DEF cs, m
<1>3. ps \in Seq(Seq(Units)) /\ Len(ps) \in Nat BY DEF InPieces
<1>4. /\ qs \in Seq(Seq(Units)) /\ Len(qs) = Len(ps) + Len(cs)
      /\ \A n \in 1 .. Len(ps) : qs[n] = ps[n]
      /\ \A j \in 1 .. Len(cs) : qs[Len(ps) + j] = cs[j]
  BY <1>2, <1>3
<1>. HIDE DEF qs
<1>5. \A j \in 1 .. Len(cs) : /\ Of(cs[j]) = m /\ From(cs[j]) = (j - 1) * ChunkUnits
                              /\ Piece(cs[j], Of(cs[j]), From(cs[j])) /\ Len(cs[j]) \in Nat
  <2>. SUFFICES ASSUME NEW j \in 1 .. Len(cs)
                PROVE  /\ Of(cs[j]) = m /\ From(cs[j]) = (j - 1) * ChunkUnits
                       /\ Piece(cs[j], Of(cs[j]), From(cs[j])) /\ Len(cs[j]) \in Nat
    OBVIOUS
  <2>1. PICK k : k = (j - 1) * ChunkUnits OBVIOUS
  <2>2. Piece(cs[j], m, k) BY <1>2, <2>1
  <2>3. cs[j] \in Seq(Units) /\ Len(cs[j]) \in Nat BY <1>2
  <2>4. cs[j][1] = <<m, k + 1>> /\ k \in Nat BY <2>2, <2>3 DEF Piece
  <2>5. Of(cs[j]) = m /\ From(cs[j]) = k BY <2>4 DEF Of, From
  <2>. QED BY <2>1, <2>2, <2>3, <2>5
<1>6. ASSUME NEW n \in 1 .. Len(qs)
      PROVE  \/ n \in 1 .. Len(ps)
             \/ \E j \in 1 .. Len(cs) : n = Len(ps) + j
  <2>. SUFFICES ASSUME n > Len(ps) PROVE \E j \in 1 .. Len(cs) : n = Len(ps) + j BY <1>3
  <2>1. n - Len(ps) \in 1 .. Len(cs) /\ n = Len(ps) + (n - Len(ps)) BY <1>2, <1>3, <1>4
  <2>. QED BY <2>1
<1>7. ASSUME NEW n \in 1 .. Len(qs) PROVE Of(qs[n]) \in 1 .. m /\ Piece(qs[n], Of(qs[n]), From(qs[n]))
  <2>1. CASE n \in 1 .. Len(ps)
    BY <1>1, <1>4, <2>1 DEF InPieces, m
  <2>2. ASSUME NEW j \in 1 .. Len(cs), n = Len(ps) + j PROVE Of(qs[n]) \in 1 .. m /\ Piece(qs[n], Of(qs[n]), From(qs[n]))
    <3>1. qs[n] = cs[j] /\ Of(cs[j]) = m /\ Piece(cs[j], Of(cs[j]), From(cs[j])) BY <1>4, <1>5, <2>2
    <3>2. m \in 1 .. m BY <1>1 DEF m
    <3>. QED BY <3>1, <3>2
  <2>. QED BY <1>6, <2>1, <2>2
<1>8. ASSUME NEW n \in 1 .. Len(qs), n + 1 <= Len(qs) PROVE Continues(qs[n], qs[n + 1])
  <2>1. CASE n < Len(ps)
    <3>1. n \in 1 .. Len(ps) /\ n + 1 \in 1 .. Len(ps) BY <1>3, <2>1
    <3>. QED BY <1>4, <3>1 DEF InPieces
  <2>2. CASE n = Len(ps)
    <3>1. 1 \in 1 .. Len(cs) /\ n \in 1 .. Len(ps) BY <1>2, <1>3, <2>2
    <3>2. qs[n + 1] = cs[1] /\ qs[n] = ps[Len(ps)] BY <1>4, <2>2, <3>1
    <3>3. Of(cs[1]) = m /\ From(cs[1]) = (1 - 1) * ChunkUnits BY <1>5, <3>1
    <3>4. (1 - 1) * ChunkUnits = 0 BY StreamAssumption
    <3>5. Of(ps[Len(ps)]) = w /\ End(ps[Len(ps)]) = Total(w)
      BY <1>3, <2>2, <3>1 DEF InPieces
    <3>. QED BY <3>2, <3>3, <3>4, <3>5 DEF Continues, m
  <2>3. CASE n > Len(ps)
    <3>1. PICK j \in 1 .. Len(cs) : n = Len(ps) + j BY <1>6, <1>3, <2>3
    <3>2. j + 1 \in 1 .. Len(cs) /\ n + 1 = Len(ps) + (j + 1) /\ j < Len(cs)
      <4>1. Len(qs) = Len(ps) + Len(cs) /\ n + 1 <= Len(qs) BY <1>4, <1>8
      <4>2. Len(ps) \in Nat /\ Len(cs) \in Nat BY <1>2, <1>3
      <4>. QED BY <3>1, <4>1, <4>2
    <3>3. qs[n] = cs[j] /\ qs[n + 1] = cs[j + 1] BY <1>4, <3>1, <3>2
    <3>4. /\ Of(cs[j]) = m /\ Of(cs[j + 1]) = m /\ From(cs[j]) = (j - 1) * ChunkUnits
          /\ From(cs[j + 1]) = ((j + 1) - 1) * ChunkUnits /\ Len(cs[j]) = ChunkUnits
      BY <1>2, <1>5, <3>2
    <3>5. ((j + 1) - 1) * ChunkUnits = (j - 1) * ChunkUnits + ChunkUnits
      <4>1. j - 1 \in Nat /\ (j - 1) + 1 = (j + 1) - 1 OBVIOUS
      <4>. QED BY <4>1, Times, StreamAssumption
    <3>. QED BY <3>3, <3>4, <3>5 DEF Continues, End
  <2>. QED BY <1>3, <2>1, <2>2, <2>3
<1>9. Len(qs) >= 1 /\ Of(qs[1]) = 1 /\ From(qs[1]) = 0
  <2>1. CASE Len(ps) = 0
    <3>1. w = 0 BY <2>1 DEF InPieces
    <3>2. 1 \in 1 .. Len(cs) /\ qs[1] = cs[1] BY <1>2, <1>4, <2>1
    <3>3. Of(cs[1]) = m /\ From(cs[1]) = (1 - 1) * ChunkUnits BY <1>5, <3>2
    <3>4. (1 - 1) * ChunkUnits = 0 BY StreamAssumption
    <3>. QED BY <1>2, <1>4, <2>1, <3>1, <3>2, <3>3, <3>4 DEF m
  <2>2. CASE Len(ps) >= 1
    <3>1. 1 \in 1 .. Len(ps) /\ Of(ps[1]) = 1 /\ From(ps[1]) = 0 BY <1>3, <2>2 DEF InPieces
    <3>. QED BY <1>2, <1>3, <1>4, <3>1
  <2>. QED BY <1>3, <2>1, <2>2
<1>10. Of(qs[Len(qs)]) = m /\ End(qs[Len(qs)]) = Total(m)
  <2>1. Len(cs) \in 1 .. Len(cs) BY <1>2
  <2>2. qs[Len(ps) + Len(cs)] = cs[Len(cs)] BY <1>4, <2>1
  <2>3. qs[Len(qs)] = cs[Len(cs)] BY <1>4, <2>2
  <2>. QED BY <1>2, <1>5, <2>1, <2>3 DEF End
<1>11. m # 0 BY <1>1 DEF m
<1>12. InPieces(m, qs) BY <1>1, <1>4, <1>7, <1>8, <1>9, <1>10, <1>11 DEF InPieces
<1>. QED BY <1>2, <1>3, <1>4, <1>12 DEF m, qs, cs
-----------------------------------------------------------------------------
\* At first nothing is sent and nothing read.
LEMMA StreamStarts == StreamInit => StreamInv
<1>. SUFFICES ASSUME StreamInit PROVE StreamInv OBVIOUS
<1>1. InPieces(0, <<>>) BY Messages DEF InPieces
<1>2. Undisturbed
  <2>1. <<>> \in Seq([id : Int, body : Seq(Units), size : Int]) OBVIOUS
  <2>2. announced \in Int /\ dispatched = <<>> /\ max_received_seqn = 0 /\ units = <<>> /\ Between
    BY DEF StreamInit, Between
  <2>3. Intact BY <2>2 DEF Intact
  <2>. QED BY <2>1, <2>2, <2>3 DEF Undisturbed
<1>3. stray \in BOOLEAN /\ interrupted \in BOOLEAN /\ threw \in BOOLEAN BY Zenon DEF StreamInit
<1>. QED BY <1>1, <1>2, <1>3 DEF StreamInit, StreamInv

\* The package that was received last, and how far the reader is.
LEMMA LastPackage ==
  ASSUME StreamInv, Undisturbed, max_received_seqn # 0
  PROVE  \E m \in MessageNumbers, k \in Nat :
           LET p == packages[max_received_seqn] IN
           /\ max_received_seqn \in 1 .. Len(packages)
           /\ m = Of(p) /\ Piece(p, m, From(p)) /\ From(p) \in Nat /\ Len(p) \in Nat /\ Len(p) >= 1
           /\ k + Len(units) = End(p) /\ End(p) <= Total(m) /\ End(p) >= 2
           /\ ReaderAt(m, k)
<1>. DEFINE p == packages[max_received_seqn]
<1>1. /\ max_received_seqn \in 1 .. Len(packages) /\ packages \in Seq(Seq(Units)) /\ Len(packages) \in Nat
      /\ written \in 0 .. Len(BodyUnits)
  BY DEF StreamInv, InPieces
<1>2. p \in Seq(Units) /\ Len(p) \in Nat BY <1>1
<1>3. Of(p) \in 1 .. written /\ Piece(p, Of(p), From(p)) BY <1>1 DEF StreamInv, InPieces
<1>4. Of(p) \in MessageNumbers BY <1>1, <1>3, Messages
<1>5. /\ From(p) \in Nat /\ Len(p) >= 1 /\ End(p) <= Total(Of(p)) /\ (From(p) = 0 => Len(p) >= 2)
  BY <1>3 DEF Piece, End
<1>6. End(p) >= 2 BY <1>2, <1>5 DEF End
<1>7. PICK k \in Nat : k + Len(units) = End(p) /\ ReaderAt(Of(p), k) BY DEF Undisturbed
<1>. QED BY <1>1, <1>2, <1>3, <1>4, <1>5, <1>6, <1>7

\* Who waits for a package has read the last one, and is between two messages
\* unless that one has a successor of the same message.
LEMMA StarvedAt ==
  ASSUME NEW m \in MessageNumbers, NEW k \in Nat, ReaderAt(m, k), Starved, k >= 2, k <= Total(m)
  PROVE  \/ k < Total(m) /\ Inside(m, k) /\ reading = "body" /\ (m = 1 \/ After(m - 1))
         \/ k = Total(m) /\ Between /\ After(m)
<1>1. Total(m) \in Nat /\ BodyUnits[m] \in Nat /\ m # -1 /\ Total(m) = BodyUnits[m] + 2 BY Messages DEF Total
<1>2. CASE Inside(m, k) /\ (m = 1 \/ After(m - 1))
  <2>1. ~(reading = "header" /\ sz = SizeOf(m) /\ id_ = m) BY <1>1 DEF Starved, SizeOf
  <2>2. reading = "body" /\ sz = BodyUnits[m] /\ Len(got) = k - 2
    BY <1>2, <2>1 DEF Inside, Between
  <2>3. k < Total(m) BY <1>1, <2>2 DEF Starved, Wanting
  <2>. QED BY <1>2, <2>2, <2>3
<1>. QED BY <1>2 DEF ReaderAt

\* A message more, in pieces behind the others.
LEMMA SendKeeps == StreamInv /\ Send => StreamInv'
<1>. SUFFICES ASSUME StreamInv, Send PROVE StreamInv' OBVIOUS
<1>1. /\ InPieces(written', packages') /\ Len(packages) <= Len(packages')
      /\ \A n \in 1 .. Len(packages) : packages'[n] = packages[n]
  BY InPiecesLonger DEF StreamInv, Send
<1>2. UNCHANGED <<first, next, max_received_seqn, flags>> BY DEF Send
<1>3. Len(packages) \in Nat /\ Len(packages') \in Nat BY <1>1 DEF StreamInv, InPieces
<1>4. ASSUME Undisturbed PROVE Undisturbed'
  <2>1. UNCHANGED <<streamConnected, next, max_received_seqn, units, reading, sz, id_, got, dispatched, announced>>
    BY DEF Send
  <2>2. max_received_seqn # 0 => packages'[max_received_seqn] = packages[max_received_seqn]
    BY <1>1, <1>3 DEF StreamInv
  <2>3. \A m, k : ReaderAt(m, k)' <=> ReaderAt(m, k)
    BY <2>1 DEF ReaderAt, Inside, Between, After
  <2>. QED BY <1>4, <2>1, <2>2, <2>3 DEF Undisturbed, Between, Intact
<1>. QED BY <1>1, <1>2, <1>3, <1>4 DEF StreamInv, flags

\* A connection starts with a package that was received, or with the one after.
LEMMA ConnectKeeps == StreamInv /\ Connect => StreamInv'
<1>. SUFFICES ASSUME StreamInv, Connect PROVE StreamInv' OBVIOUS
<1>1. PICK seqn \in first .. next : first' = seqn /\ next' = seqn BY DEF Connect
<1>2. UNCHANGED <<written, packages, max_received_seqn, flags>> /\ ~streamConnected BY DEF Connect
<1>3. next' \in 1 .. max_received_seqn' + 1 /\ first' \in 1 .. next'
  BY <1>1, <1>2 DEF StreamInv
<1>4. ASSUME Undisturbed PROVE Undisturbed'
  <2>1. UNCHANGED <<packages, max_received_seqn, units, reading, sz, id_, got, dispatched, announced>>
    BY DEF Connect
  <2>2. units = <<>> /\ Between BY <1>2, <1>4 DEF Undisturbed
  <2>3. \A m, k : ReaderAt(m, k)' <=> ReaderAt(m, k)
    BY <2>1 DEF ReaderAt, Inside, Between, After
  <2>. QED BY <1>4, <2>1, <2>2, <2>3 DEF Undisturbed, Between, Intact
<1>. QED BY <1>2, <1>3, <1>4 DEF StreamInv, flags

\* A connection that ends while the reader is between two messages loses nothing
\* that was received.
LEMMA DisconnectKeeps == StreamInv /\ Disconnect => StreamInv'
<1>. SUFFICES ASSUME StreamInv, Disconnect PROVE StreamInv' OBVIOUS
<1>1. /\ UNCHANGED <<written, packages, first, next, max_received_seqn, units, sz, id_, dispatched,
                      announced, stray, threw>>
      /\ reading' = "header" /\ got' = <<>> /\ Starved /\ units = <<>>
      /\ interrupted' = (interrupted \/ reading = "body")
  BY DEF Disconnect, Starved
<1>2. ASSUME Undisturbed, ~interrupted' PROVE Undisturbed'
  <2>1. reading # "body" BY <1>1, <1>2
  <2>2. CASE max_received_seqn = 0
    <3>1. Between' BY <1>1, <1>2, <2>2 DEF Undisturbed, Between
    <3>. QED BY <1>1, <1>2, <2>2, <3>1 DEF Undisturbed, Intact
  <2>3. CASE max_received_seqn # 0
    <3>1. PICK m \in MessageNumbers, k \in Nat :
            /\ m = Of(packages[max_received_seqn]) /\ End(packages[max_received_seqn]) >= 2
            /\ k + Len(units) = End(packages[max_received_seqn])
            /\ End(packages[max_received_seqn]) <= Total(m) /\ ReaderAt(m, k)
      BY <1>2, <2>3, LastPackage
    <3>2. Len(units) = 0 BY <1>1
    <3>3. k = Total(m) /\ Between /\ After(m) BY <1>1, <2>1, <3>1, <3>2, StarvedAt
    <3>4. Between' BY <1>1, <3>3 DEF Between
    <3>5. ReaderAt(m, k)' BY <1>1, <3>1, <3>3, <3>4 DEF ReaderAt, After
    <3>. QED BY <1>1, <1>2, <2>3, <3>1, <3>4, <3>5 DEF Undisturbed, Intact
  <2>. QED BY <2>2, <2>3
<1>3. interrupted' \in BOOLEAN /\ (~interrupted' => ~interrupted) BY <1>1 DEF StreamInv
<1>. QED BY <1>1, <1>2, <1>3 DEF StreamInv

\* The package after the last one goes on where the reader waits; package 1, taken
\* again, is read as the first message again.
LEMMA ReadPackageKeeps == StreamInv /\ ReadPackage => StreamInv'
<1>. SUFFICES ASSUME StreamInv, ReadPackage PROVE StreamInv' OBVIOUS
<1>1. /\ UNCHANGED <<written, packages, streamConnected, first, reading, sz, id_, got, dispatched,
                      announced, interrupted, threw>>
      /\ Starved /\ streamConnected /\ units = <<>> /\ next <= Len(packages) /\ next' = next + 1
  BY DEF ReadPackage, Starved
<1>2. Len(packages) \in Nat BY DEF StreamInv, InPieces
<1>3. CASE next <= max_received_seqn /\ next # 1
  <2>1. stray' = TRUE /\ max_received_seqn' = max_received_seqn BY <1>3 DEF ReadPackage
  <2>2. next' \in 1 .. max_received_seqn' + 1 /\ first' \in 1 .. next' BY <1>1, <1>3, <2>1 DEF StreamInv
  <2>. QED BY <1>1, <2>1, <2>2 DEF StreamInv
<1>4. CASE ~(next <= max_received_seqn /\ next # 1)
  <2>1. units' = packages[next] /\ max_received_seqn' = next /\ stray' = stray
    BY <1>4 DEF ReadPackage
  <2>2. /\ next' \in 1 .. max_received_seqn' + 1 /\ first' \in 1 .. next'
        /\ max_received_seqn' \in 0 .. Len(packages) /\ next \in 1 .. Len(packages)
        /\ next' > max_received_seqn' /\ max_received_seqn' # 0
    BY <1>1, <1>2, <2>1 DEF StreamInv
  <2>. DEFINE q == packages[next]
  <2>3. /\ packages \in Seq(Seq(Units)) /\ q \in Seq(Units) /\ Of(q) \in 1 .. written
        /\ Piece(q, Of(q), From(q)) /\ written \in 0 .. Len(BodyUnits)
    BY <2>2 DEF StreamInv, InPieces
  <2>4. Of(q) \in MessageNumbers /\ From(q) \in Nat /\ From(q) + Len(q) = End(q)
        /\ \A i \in 1 .. Len(q) : q[i] = <<Of(q), From(q) + i>>
    BY <2>3, Messages DEF Piece, End
  <2>5. From(q) < Total(Of(q)) BY <2>3, <2>4, Messages DEF Piece
  <2>6. ASSUME Undisturbed
        PROVE  Inside(Of(q), From(q)) /\ (Of(q) = 1 \/ After(Of(q) - 1))
    <3>1. CASE next = 1
      <4>1. Of(q) = 1 /\ From(q) = 0 BY <1>1, <1>2, <3>1 DEF StreamInv, InPieces
      <4>2. Between BY <2>6, <3>1, <1>2 DEF Undisturbed, StreamInv
      <4>. QED BY <4>1, <4>2 DEF Inside
    <3>2. CASE next # 1
      <4>1. next = max_received_seqn + 1 /\ max_received_seqn # 0 BY <1>2, <1>4, <3>2 DEF StreamInv
      <4>. DEFINE p == packages[max_received_seqn]
      <4>2. PICK m \in MessageNumbers, k \in Nat :
            /\ m = Of(p) /\ End(p) >= 2 /\ k + Len(units) = End(p) /\ End(p) <= Total(m) /\ ReaderAt(m, k)
        BY <2>6, <4>1, LastPackage
      <4>3. k = End(p)
        <5>1. Len(units) = 0 BY <1>1
        <5>. QED BY <4>2, <5>1
      <4>4. \/ k < Total(m) /\ Inside(m, k) /\ reading = "body" /\ (m = 1 \/ After(m - 1))
            \/ k = Total(m) /\ Between /\ After(m)
        BY <1>1, <4>2, <4>3, StarvedAt
      <4>5. Continues(p, q) BY <1>1, <1>2, <2>2, <4>1 DEF StreamInv, InPieces
      <4>6. CASE Of(q) = m /\ From(q) = k
        BY <2>5, <4>4, <4>6
      <4>7. CASE Of(q) = m + 1 /\ From(q) = 0 /\ k = Total(m)
        <5>1. Between /\ After(m) /\ m = Of(q) - 1 BY <4>4, <4>7, Messages
        <5>. QED BY <4>7, <5>1 DEF Inside
      <4>. QED BY <4>2, <4>3, <4>5, <4>6, <4>7 DEF Continues
    <3>. QED BY <3>1, <3>2
  <2>7. ASSUME Undisturbed PROVE Undisturbed'
    <3>2. Of(packages'[max_received_seqn']) = Of(q) /\ End(packages'[max_received_seqn']) = End(q)
      BY <1>1, <2>1
    <3>. HIDE DEF q
    <3>3. PICK m \in MessageNumbers, k \in Nat : m = Of(q) /\ k = From(q) BY <2>4
    <3>4. ReaderAt(m, k)'
      <4>1. units' \in Seq(Units) /\ \A i \in 1 .. Len(units') : units'[i] = <<m, k + i>>
        BY <2>1, <2>3, <2>4, <3>3 DEF q
      <4>2. Inside(m, k) /\ (m = 1 \/ After(m - 1)) BY <2>6, <2>7, <3>3
      <4>3. Inside(m, k)' BY <1>1, <4>2 DEF Inside, Between
      <4>4. m = 1 \/ After(m - 1)' BY <1>1, <4>2 DEF After
      <4>. QED BY <4>1, <4>3, <4>4 DEF ReaderAt
    <3>5. k + Len(units') = End(q) BY <2>1, <2>4, <3>3 DEF q
    <3>6. announced' \in Int /\ dispatched' \in Seq([id : Int, body : Seq(Units), size : Int]) /\ Intact'
      BY <1>1, <2>7 DEF Undisturbed, Intact
    <3>7. streamConnected' /\ ~(next' <= max_received_seqn') BY <1>1, <2>2
    <3>. QED BY <2>2, <3>2, <3>3, <3>4, <3>5, <3>6, <3>7 DEF Undisturbed
  <2>. QED BY <1>1, <2>1, <2>2, <2>7 DEF StreamInv
<1>. QED BY <1>3, <1>4

\* A step of the reader within the last package, from the k-th unit of m to j.
LEMMA WithinPackage ==
  ASSUME StreamInv, Undisturbed, max_received_seqn # 0, streamConnected, ~(next <= max_received_seqn),
         UNCHANGED <<linkState, max_received_seqn, flags>>,
         NEW m \in MessageNumbers, m = Of(packages[max_received_seqn]), NEW j \in Nat,
         ReaderAt(m, j)', j + Len(units') = End(packages[max_received_seqn]),
         announced' \in Int, dispatched' \in Seq([id : Int, body : Seq(Units), size : Int]), Intact'
  PROVE  StreamInv'
<1>1. UNCHANGED <<written, packages, streamConnected, first, next, max_received_seqn, stray, interrupted, threw>>
  BY DEF linkState, flags
<1>2. Undisturbed' BY <1>1 DEF Undisturbed
<1>. QED BY <1>1, <1>2 DEF StreamInv

\* Until it waits, the reader is connected and in the newest package.
LEMMA ReaderIs ==
  ASSUME StreamInv, Undisturbed, units # <<>> \/ ~Between
  PROVE  /\ streamConnected /\ ~(next <= max_received_seqn) /\ max_received_seqn # 0
  BY DEF Undisturbed, StreamInv

\* The first unit of a message is its size.
LEMMA ReadSizeKeeps == StreamInv /\ ReadSize => StreamInv'
<1>. SUFFICES ASSUME StreamInv, ReadSize PROVE StreamInv' OBVIOUS
<1>1. UNCHANGED <<linkState, max_received_seqn, reading, id_, got, dispatched, flags>>
      /\ reading = "header" /\ sz = -1 /\ units # <<>> /\ units' = Tail(units)
  BY DEF ReadSize
<1>2. CASE stray \/ interrupted \/ threw BY <1>1, <1>2 DEF StreamInv, linkState, flags
<1>3. CASE ~stray /\ ~interrupted /\ ~threw
  <2>1. Undisturbed BY <1>3 DEF StreamInv
  <2>2. streamConnected /\ ~(next <= max_received_seqn) /\ max_received_seqn # 0 BY <1>1, <2>1, ReaderIs
  <2>. DEFINE p == packages[max_received_seqn]
  <2>3. PICK m \in MessageNumbers, k \in Nat :
          m = Of(p) /\ k + Len(units) = End(p) /\ End(p) <= Total(m) /\ ReaderAt(m, k)
    BY <2>1, <2>2, LastPackage
  <2>4. /\ Total(m) \in Nat /\ Total(m) >= 2 /\ BodyUnits[m] \in Nat /\ SizeOf(m) \in Int /\ SizeOf(m) # -1
    BY Messages DEF SizeOf
  <2>5. units \in Seq(Units) /\ Len(units) \in Nat /\ Len(units) # 0 BY <1>1, <2>3, EmptySeq DEF ReaderAt
  <2>6. k # Total(m) BY <2>3, <2>4, <2>5
  <2>7. k = 0 /\ Between /\ (m = 1 \/ After(m - 1))
    BY <1>1, <2>3, <2>4, <2>6 DEF ReaderAt, Inside
  <2>8. Head(units) = <<m, 1>> BY <2>3, <2>5, <2>7 DEF ReaderAt
  <2>9. sz' = SizeOf(m) /\ announced' = SizeOf(m) BY <2>8 DEF ReadSize, SizesRead, IsSize
  <2>10. ReaderAt(m, 1)'
    <3>1. Inside(m, 1)' BY <1>1, <2>7, <2>9 DEF Inside, Between
    <3>2. /\ units' \in Seq(Units) /\ Len(units') = Len(units) - 1
          /\ \A i \in 1 .. Len(units') : units'[i] = units[i + 1]
      BY <1>1, <2>5
    <3>3. \A i \in 1 .. Len(units') : units'[i] = <<m, 1 + i>>
      BY <2>3, <2>5, <2>7, <3>2 DEF ReaderAt
    <3>4. m = 1 \/ After(m - 1)' BY <1>1, <2>7 DEF After
    <3>. QED BY <3>1, <3>2, <3>3, <3>4 DEF ReaderAt
  <2>11. 1 + Len(units') = End(p) BY <1>1, <2>3, <2>5, <2>7
  <2>12. dispatched' \in Seq([id : Int, body : Seq(Units), size : Int]) /\ Intact'
    BY <1>1, <2>1 DEF Undisturbed, Intact
  <2>. QED BY <1>1, <2>1, <2>2, <2>3, <2>4, <2>9, <2>10, <2>11, <2>12, WithinPackage
<1>. QED BY <1>2, <1>3

\* The second one is its id, in the same package.
LEMMA ReadIdKeeps == StreamInv /\ ReadId => StreamInv'
<1>. SUFFICES ASSUME StreamInv, ReadId PROVE StreamInv' OBVIOUS
<1>1. UNCHANGED <<linkState, max_received_seqn, reading, sz, got, dispatched, announced, flags>>
      /\ reading = "header" /\ sz # -1 /\ id_ = -1 /\ units # <<>> /\ units' = Tail(units)
      /\ id_' = IdRead(Head(units))
  BY DEF ReadId
<1>2. CASE stray \/ interrupted \/ threw BY <1>1, <1>2 DEF StreamInv, linkState, flags
<1>3. CASE ~stray /\ ~interrupted /\ ~threw
  <2>1. Undisturbed BY <1>3 DEF StreamInv
  <2>2. streamConnected /\ ~(next <= max_received_seqn) /\ max_received_seqn # 0 BY <1>1, <2>1, ReaderIs
  <2>. DEFINE p == packages[max_received_seqn]
  <2>3. PICK m \in MessageNumbers, k \in Nat :
          m = Of(p) /\ k + Len(units) = End(p) /\ End(p) <= Total(m) /\ ReaderAt(m, k)
    BY <2>1, <2>2, LastPackage
  <2>4. m # -1 BY Messages
  <2>5. units \in Seq(Units) /\ Len(units) \in Nat /\ Len(units) # 0 BY <1>1, <2>3, EmptySeq DEF ReaderAt
  <2>7. k = 1 /\ sz = SizeOf(m) /\ (m = 1 \/ After(m - 1))
    BY <1>1, <2>3, <2>4 DEF ReaderAt, Inside, Between
  <2>8. Head(units) = <<m, 2>> BY <2>3, <2>5, <2>7 DEF ReaderAt
  <2>9. id_' = m BY <1>1, <2>8 DEF IdRead, IsId
  <2>10. ReaderAt(m, 2)'
    <3>1. Inside(m, 2)' BY <1>1, <2>7, <2>9 DEF Inside, SizeOf
    <3>2. /\ units' \in Seq(Units) /\ Len(units') = Len(units) - 1
          /\ \A i \in 1 .. Len(units') : units'[i] = units[i + 1]
      BY <1>1, <2>5
    <3>3. \A i \in 1 .. Len(units') : units'[i] = <<m, 2 + i>>
      <4>. SUFFICES ASSUME NEW i \in 1 .. Len(units') PROVE units'[i] = <<m, 2 + i>> OBVIOUS
      <4>1. i + 1 \in 1 .. Len(units) /\ 1 + (i + 1) = 2 + i BY <2>5, <3>2
      <4>2. \A j \in 1 .. Len(units) : units[j] = <<m, 1 + j>> BY <2>3, <2>7 DEF ReaderAt
      <4>. QED BY <3>2, <4>1, <4>2
    <3>4. m = 1 \/ After(m - 1)' BY <1>1, <2>7 DEF After
    <3>. QED BY <3>1, <3>2, <3>3, <3>4 DEF ReaderAt
  <2>11. 2 + Len(units') = End(p) BY <1>1, <2>3, <2>5, <2>7
  <2>12. announced' \in Int /\ dispatched' \in Seq([id : Int, body : Seq(Units), size : Int]) /\ Intact'
    BY <1>1, <2>1 DEF Undisturbed, Intact
  <2>. QED BY <1>1, <2>1, <2>2, <2>3, <2>10, <2>11, <2>12, WithinPackage
<1>. QED BY <1>2, <1>3

\* Size and id are read, and the size is that of the body now.
LEMMA BeginBodyKeeps == StreamInv /\ BeginBody => StreamInv'
<1>. SUFFICES ASSUME StreamInv, BeginBody PROVE StreamInv' OBVIOUS
<1>1. /\ UNCHANGED <<written, packages, streamConnections, first, next, max_received_seqn, units, id_,
                      dispatched, announced, flags>>
      /\ reading = "header" /\ sz # -1 /\ id_ # -1 /\ sz' = sz - 1 /\ got' = <<>>
      /\ sz >= 1 => reading' = "body" /\ UNCHANGED streamConnected
  BY DEF BeginBody
<1>2. CASE stray \/ interrupted \/ threw BY <1>1, <1>2 DEF StreamInv, flags
<1>3. CASE ~stray /\ ~interrupted /\ ~threw
  <2>1. Undisturbed BY <1>3 DEF StreamInv
  <2>2. streamConnected /\ ~(next <= max_received_seqn) /\ max_received_seqn # 0
    BY <1>1, <2>1, ReaderIs DEF Between
  <2>. DEFINE p == packages[max_received_seqn]
  <2>3. PICK m \in MessageNumbers, k \in Nat :
          m = Of(p) /\ k + Len(units) = End(p) /\ End(p) <= Total(m) /\ ReaderAt(m, k)
    BY <2>1, <2>2, LastPackage
  <2>7. k = 2 /\ sz = SizeOf(m) /\ id_ = m /\ (m = 1 \/ After(m - 1))
    BY <1>1, <2>3 DEF ReaderAt, Inside, Between
  <2>8. sz' = BodyUnits[m] /\ reading' = "body" /\ UNCHANGED <<linkState, flags>>
    BY <1>1, <2>7, Messages DEF SizeOf, linkState
  <2>9. <<>> \in Seq(Units) OBVIOUS
  <2>10. ReaderAt(m, 2)'
    <3>1. Inside(m, 2)' BY <1>1, <2>7, <2>8, <2>9 DEF Inside
    <3>4. m = 1 \/ After(m - 1)' BY <1>1, <2>7 DEF After
    <3>. QED BY <1>1, <2>3, <2>7, <3>1, <3>4 DEF ReaderAt
  <2>11. 2 + Len(units') = End(p) BY <1>1, <2>3, <2>7
  <2>12. announced' \in Int /\ dispatched' \in Seq([id : Int, body : Seq(Units), size : Int]) /\ Intact'
    BY <1>1, <2>1 DEF Undisturbed, Intact
  <2>. QED BY <1>1, <2>1, <2>2, <2>3, <2>8, <2>10, <2>11, <2>12, WithinPackage
<1>. QED BY <1>2, <1>3

\* What a round of the read takes from the package goes behind what it has.
LEMMA ReadBodyKeeps == StreamInv /\ ReadBody => StreamInv'
<1>. SUFFICES ASSUME StreamInv, ReadBody PROVE StreamInv' OBVIOUS
<1>1. UNCHANGED <<linkState, max_received_seqn, reading, sz, id_, dispatched, announced, flags>>
      /\ reading = "body" /\ Wanting /\ units # <<>>
  BY DEF ReadBody
<1>2. CASE stray \/ interrupted \/ threw BY <1>1, <1>2 DEF StreamInv, linkState, flags
<1>3. CASE ~stray /\ ~interrupted /\ ~threw
  <2>1. Undisturbed BY <1>3 DEF StreamInv
  <2>2. streamConnected /\ ~(next <= max_received_seqn) /\ max_received_seqn # 0
    BY <1>1, <2>1, ReaderIs
  <2>. DEFINE p == packages[max_received_seqn]
  <2>3. PICK m \in MessageNumbers, k \in Nat :
          m = Of(p) /\ k + Len(units) = End(p) /\ End(p) <= Total(m) /\ ReaderAt(m, k)
    BY <2>1, <2>2, LastPackage
  <2>4. BodyUnits[m] \in Nat BY Messages
  <2>5. units \in Seq(Units) /\ Len(units) \in Nat /\ Len(units) # 0 BY <1>1, <2>3, EmptySeq DEF ReaderAt
  <2>6. /\ k >= 2 /\ sz = BodyUnits[m] /\ id_ = m /\ (m = 1 \/ After(m - 1))
        /\ got \in Seq(Units) /\ Len(got) = k - 2 /\ \A i \in 1 .. Len(got) : got[i] = <<m, i + 2>>
    BY <1>1, <2>3 DEF ReaderAt, Inside, Between
  <2>7. PICK n \in Nat : /\ n <= Len(units) /\ n >= 1
                         /\ got' = got \o SubSeq(units, 1, n) /\ units' = SubSeq(units, n + 1, Len(units))
    <3>. DEFINE n == IF sz - Len(got) < Len(units) THEN sz - Len(got) ELSE Len(units)
    <3>1. got' = got \o SubSeq(units, 1, n) /\ units' = SubSeq(units, n + 1, Len(units)) BY DEF ReadBody
    <3>2. n \in Nat /\ n <= Len(units) /\ n >= 1 BY <1>1, <2>4, <2>5, <2>6 DEF Wanting
    <3>. QED BY <3>1, <3>2
  <2>8. /\ SubSeq(units, 1, n) \in Seq(Units) /\ Len(SubSeq(units, 1, n)) = n
        /\ \A i \in 1 .. n : SubSeq(units, 1, n)[i] = <<m, k + i>>
    BY <2>3, <2>5, <2>7 DEF ReaderAt
  <2>9. /\ units' \in Seq(Units) /\ Len(units') = Len(units) - n
        /\ \A i \in 1 .. Len(units') : units'[i] = units[n + i]
    BY <2>5, <2>7
  <2>20. PICK r : r = SubSeq(units, 1, n) OBVIOUS
  <2>21. /\ got' = got \o r /\ r \in Seq(Units) /\ Len(r) = n
         /\ \A i \in 1 .. n : r[i] = <<m, k + i>>
    BY <2>7, <2>8, <2>20
  <2>22. /\ got' \in Seq(Units) /\ Len(got') = Len(got) + Len(r)
         /\ \A i \in 1 .. Len(got) : got'[i] = got[i]
         /\ \A i \in 1 .. Len(r) : got'[Len(got) + i] = r[i]
    <3>1. got \in Seq(Units) /\ r \in Seq(Units) /\ got' = got \o r BY <2>6, <2>21
    <3>2. /\ got \o r \in Seq(Units) /\ Len(got \o r) = Len(got) + Len(r)
          /\ \A i \in 1 .. Len(got) : (got \o r)[i] = got[i]
          /\ \A i \in 1 .. Len(r) : (got \o r)[Len(got) + i] = r[i]
      BY <3>1, Joined
    <3>. QED BY <3>1, <3>2
  <2>10. /\ got' \in Seq(Units) /\ Len(got') = (k + n) - 2
    BY <2>6, <2>21, <2>22
  <2>11. ASSUME NEW i \in 1 .. Len(got') PROVE got'[i] = <<m, i + 2>>
    <3>1. CASE i <= Len(got) BY <2>6, <2>22, <3>1
    <3>2. CASE i > Len(got)
      <4>1. i - Len(got) \in 1 .. n /\ i = Len(got) + (i - Len(got))
        BY <2>6, <2>21, <2>22, <3>2
      <4>2. k + (i - Len(got)) = i + 2 BY <2>6
      <4>3. got'[i] = r[i - Len(got)] BY <2>21, <2>22, <4>1
      <4>. QED BY <2>21, <4>1, <4>2, <4>3
    <3>. QED BY <2>6, <3>1, <3>2
  <2>12. ReaderAt(m, k + n)'
    <3>1. Inside(m, k + n)' BY <1>1, <2>6, <2>7, <2>10, <2>11 DEF Inside
    <3>2. \A i \in 1 .. Len(units') : units'[i] = <<m, (k + n) + i>>
      <4>. SUFFICES ASSUME NEW i \in 1 .. Len(units') PROVE units'[i] = <<m, (k + n) + i>> OBVIOUS
      <4>1. n + i \in 1 .. Len(units) /\ k + (n + i) = (k + n) + i BY <2>5, <2>7, <2>9
      <4>. QED BY <2>3, <2>9, <4>1 DEF ReaderAt
    <3>4. m = 1 \/ After(m - 1)' BY <1>1, <2>6 DEF After
    <3>5. m \in MessageNumbers /\ k + n \in Nat BY <2>3, <2>7
    <3>6. units' \in Seq(Units) BY <2>9
    <3>. HIDE DEF Inside, After
    <3>. QED BY <3>1, <3>2, <3>4, <3>5, <3>6 DEF ReaderAt
  <2>13. (k + n) + Len(units') = End(p) /\ k + n \in Nat
    <3>1. k \in Nat /\ k + Len(units) = End(p) /\ Len(units) \in Nat BY <2>3, <2>5
    <3>2. n \in Nat /\ Len(units') = Len(units) - n BY <2>7, <2>9
    <3>3. PICK e : e = End(p) OBVIOUS
    <3>. QED BY <3>1, <3>2, <3>3
  <2>14. announced' \in Int /\ dispatched' \in Seq([id : Int, body : Seq(Units), size : Int]) /\ Intact'
    BY <1>1, <2>1 DEF Undisturbed, Intact
  <2>. QED BY <1>1, <2>1, <2>2, <2>3, <2>12, <2>13, <2>14, WithinPackage
<1>. QED BY <1>2, <1>3

\* All of the message is read, and its body is what was collected.
LEMMA DispatchKeeps == StreamInv /\ Dispatch => StreamInv'
<1>. SUFFICES ASSUME StreamInv, Dispatch PROVE StreamInv' OBVIOUS
<1>. DEFINE d == [id |-> id_, body |-> got, size |-> announced]
<1>1. UNCHANGED <<linkState, max_received_seqn, units, flags>>
      /\ reading = "body" /\ ~Wanting /\ dispatched' = Append(dispatched, d)
      /\ sz' = -1 /\ id_' = -1 /\ announced' = -1 /\ reading' = "header" /\ got' = <<>>
  BY DEF Dispatch
<1>2. CASE stray \/ interrupted \/ threw BY <1>1, <1>2 DEF StreamInv, linkState, flags
<1>3. CASE ~stray /\ ~interrupted /\ ~threw
  <2>1. Undisturbed BY <1>3 DEF StreamInv
  <2>2. streamConnected /\ ~(next <= max_received_seqn) /\ max_received_seqn # 0
    BY <1>1, <2>1, ReaderIs DEF Between
  <2>. DEFINE p == packages[max_received_seqn]
  <2>3. PICK m \in MessageNumbers, k \in Nat :
          m = Of(p) /\ k + Len(units) = End(p) /\ End(p) <= Total(m) /\ ReaderAt(m, k)
    BY <2>1, <2>2, LastPackage
  <2>4. BodyUnits[m] \in Nat /\ Total(m) = BodyUnits[m] + 2 /\ m \in Int BY Messages DEF Total
  <2>5. units \in Seq(Units) /\ Len(units) \in Nat BY <2>3 DEF ReaderAt
  <2>6. /\ k >= 2 /\ sz = BodyUnits[m] /\ id_ = m /\ (m = 1 \/ After(m - 1))
        /\ got \in Seq(Units) /\ Len(got) = k - 2 /\ \A i \in 1 .. Len(got) : got[i] = <<m, i + 2>>
    BY <1>1, <2>3 DEF ReaderAt, Inside, Between
  <2>7. k = Total(m) BY <1>1, <2>3, <2>4, <2>5, <2>6 DEF Wanting
  <2>8. got = Body(m)
    <3>1. /\ Body(m) \in Seq(Units) /\ Len(Body(m)) = BodyUnits[m]
          /\ \A i \in 1 .. BodyUnits[m] : Body(m)[i] = <<m, i + 2>>
      <4>1. /\ MessageUnits(m) \in Seq(Units) /\ Len(MessageUnits(m)) = BodyUnits[m] + 2
            /\ \A i \in 1 .. BodyUnits[m] + 2 : MessageUnits(m)[i] = <<m, i>>
        BY <2>4 DEF MessageUnits, Units
      <4>. HIDE DEF MessageUnits
      <4>2. PICK s : s = MessageUnits(m) OBVIOUS
      <4>3. /\ s \in Seq(Units) /\ Len(s) = BodyUnits[m] + 2 /\ \A i \in 1 .. BodyUnits[m] + 2 : s[i] = <<m, i>>
        BY <4>1, <4>2
      <4>4. Body(m) = SubSeq(s, 3, BodyUnits[m] + 2) BY <4>2 DEF Body
      <4>5. /\ SubSeq(s, 3, BodyUnits[m] + 2) \in Seq(Units)
            /\ Len(SubSeq(s, 3, BodyUnits[m] + 2)) = BodyUnits[m]
            /\ \A i \in 1 .. BodyUnits[m] : SubSeq(s, 3, BodyUnits[m] + 2)[i] = s[i + 2]
        BY <2>4, <4>3
      <4>6. \A i \in 1 .. BodyUnits[m] : s[i + 2] = <<m, i + 2>> BY <2>4, <4>3
      <4>. QED BY <4>4, <4>5, <4>6
    <3>2. Len(got) = BodyUnits[m] BY <2>4, <2>6, <2>7
    <3>3. \A i \in 1 .. Len(got) : got[i] = Body(m)[i] BY <2>6, <3>1, <3>2
    <3>4. got \in Seq(Units) /\ Body(m) \in Seq(Units) /\ Len(got) = Len(Body(m)) BY <2>6, <3>1, <3>2
    <3>. QED BY <3>3, <3>4, SameElements
  <2>9. Is(d, m) BY <2>6, <2>8 DEF Is
  <2>10. /\ d \in [id : Int, body : Seq(Units), size : Int]
         /\ dispatched \in Seq([id : Int, body : Seq(Units), size : Int])
    BY <2>1, <2>4, <2>6 DEF Undisturbed
  <2>. DEFINE D == [id : Int, body : Seq(Units), size : Int]
  <2>. HIDE DEF d, D
  <2>11. /\ dispatched' \in Seq(D) /\ Len(dispatched') = Len(dispatched) + 1 /\ Len(dispatched) \in Nat
         /\ \A i \in 1 .. Len(dispatched) : dispatched'[i] = dispatched[i]
         /\ dispatched'[Len(dispatched')] = d
         /\ DOMAIN dispatched' = 1 .. Len(dispatched') /\ DOMAIN dispatched = 1 .. Len(dispatched)
    BY <1>1, <2>10 DEF D
  <2>12. After(m)' BY <2>9, <2>11 DEF After
  <2>13. ReaderAt(m, k)'
    <3>1. Between' BY <1>1 DEF Between
    <3>. QED BY <1>1, <2>3, <2>7, <2>12, <3>1 DEF ReaderAt
  <2>14. Intact'
    <3>. SUFFICES ASSUME NEW i \in 1 .. Len(dispatched')
                  PROVE  \E o \in MessageNumbers :
                           /\ Is(dispatched'[i], o)
                           /\ o = 1 \/ (i > 1 /\ Is(dispatched'[i - 1], o - 1))
      BY <2>11 DEF Intact
    <3>1. CASE i <= Len(dispatched)
      <4>0. i \in DOMAIN dispatched BY <2>11, <3>1
      <4>1. PICK o \in MessageNumbers :
              Is(dispatched[i], o) /\ (o = 1 \/ (i > 1 /\ Is(dispatched[i - 1], o - 1)))
        BY <2>1, <4>0 DEF Undisturbed, Intact
      <4>2. dispatched'[i] = dispatched[i] /\ (i > 1 => dispatched'[i - 1] = dispatched[i - 1])
        BY <2>11, <3>1
      <4>. QED BY <4>1, <4>2
    <3>2. CASE i > Len(dispatched)
      <4>1. i = Len(dispatched') /\ Is(dispatched'[i], m) BY <2>9, <2>11, <3>2
      <4>2. CASE m = 1 BY <4>1, <4>2
      <4>3. CASE m # 1
        <5>1. dispatched # <<>> /\ Is(dispatched[Len(dispatched)], m - 1) BY <2>6, <4>3 DEF After
        <5>2. Len(dispatched) >= 1 BY <2>11, <5>1, <2>10, EmptySeq
        <5>3. i > 1 /\ dispatched'[i - 1] = dispatched[Len(dispatched)] BY <2>11, <4>1, <5>2
        <5>. QED BY <4>1, <5>1, <5>3
      <4>. QED BY <4>2, <4>3
    <3>. QED BY <2>11, <3>1, <3>2
  <2>15. k + Len(units') = End(p) BY <1>1, <2>3
  <2>16. announced' \in Int /\ dispatched' \in Seq([id : Int, body : Seq(Units), size : Int])
    BY <1>1, <2>11 DEF D
  <2>17. UNCHANGED <<linkState, max_received_seqn, flags>> BY <1>1
  <2>. QED BY <2>1, <2>2, <2>3, <2>13, <2>14, <2>15, <2>16, <2>17, WithinPackage
<1>. QED BY <1>2, <1>3

\* The message whose handler throws was whole; what comes after it is not promised.
LEMMA DispatchThrowsKeeps == StreamInv /\ DispatchThrows => StreamInv'
BY DEF StreamInv, DispatchThrows

\* As long as no package is dropped, no message interrupted and no handler throws,
\* the reader is where the last package puts it.
THEOREM StreamInvariance == StreamSpec => []StreamInv
<1>1. StreamInv /\ [StreamNext]_streamVars => StreamInv'
  <2>. SUFFICES ASSUME StreamInv, [StreamNext]_streamVars PROVE StreamInv' OBVIOUS
  <2>1. CASE UNCHANGED streamVars
    <3>1. UNCHANGED <<written, packages, streamConnections, streamConnected, first, next, max_received_seqn,
                      units, reading, sz, id_, got, dispatched, announced, stray, interrupted, threw>>
      BY <2>1 DEF streamVars, linkState, flags
    <3>2. \A m, k : ReaderAt(m, k)' <=> ReaderAt(m, k)
      BY <3>1 DEF ReaderAt, Inside, Between, After
    <3>3. Undisturbed' <=> Undisturbed BY <3>1, <3>2 DEF Undisturbed, Between, Intact
    <3>. QED BY <3>1, <3>3 DEF StreamInv
  <2>. QED BY <2>1, SendKeeps, ConnectKeeps, ReadPackageKeeps, DisconnectKeeps, ReadSizeKeeps, ReadIdKeeps,
              BeginBodyKeeps, ReadBodyKeeps, DispatchKeeps, DispatchThrowsKeeps DEF StreamNext
<1>. QED BY <1>1, StreamStarts, PTL DEF StreamSpec

\* Undisturbed by a dropped package, an interrupted message or a handler that throws,
\* every message comes out as it was sent, after its predecessor.
THEOREM IntactTheorem == StreamSpec => []IntactUnlessDisturbed
<1>1. StreamInv => IntactUnlessDisturbed
  BY DEF StreamInv, Undisturbed, Intact, IntactUnlessDisturbed
<1>. QED BY <1>1, StreamInvariance, PTL
===============================================================================
