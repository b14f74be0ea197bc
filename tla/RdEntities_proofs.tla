-------------------------- MODULE RdEntities_proofs ---------------------------
(***************************************************************************)
(* Why the two ends of a reactive entity agree: a property, whose master   *)
(* numbers its values; a set, which numbers nothing; a list, which numbers *)
(* its changes at each end; a map, whose master waits for answers.  Why    *)
(* calls of one entity are kept apart and answered once.                   *)
(***************************************************************************)
EXTENDS RdProperty, RdSet, RdList, RdMap, RdCall, RdEndpoint, SequenceTheorems, TLAPS

-------------------------------------------------------------------------------

\* The counterpart of an end is the other end.
LEMMA OtherEnds == /\ Other(Master) = Slave /\ Other(Slave) = Master
                   /\ Master \in Peers /\ Slave \in Peers /\ Master # Slave
                   /\ \A p \in Peers : Other(p) \in Peers /\ Other(p) # p /\ Other(Other(p)) = p
                                       /\ Peers = {p, Other(p)}
  BY WireEndsAssumption DEF Other, Peers

\* A queue that a message was put on.
LEMMA Longer ==
  ASSUME NEW S, NEW w \in Seq(S), NEW m \in S
  PROVE  /\ Append(w, m) \in Seq(S) /\ Len(w) \in Nat /\ DOMAIN w = 1 .. Len(w)
         /\ DOMAIN Append(w, m) = 1 .. (Len(w) + 1)
         /\ \A i \in DOMAIN w : Append(w, m)[i] = w[i]
         /\ Append(w, m)[Len(w) + 1] = m
  OBVIOUS

\* A queue whose first message was taken.
LEMMA Shorter ==
  ASSUME NEW S, NEW w \in Seq(S), w # <<>>
  PROVE  /\ Head(w) \in S /\ Head(w) = w[1] /\ Tail(w) \in Seq(S)
         /\ Len(w) \in Nat \ {0} /\ DOMAIN w = 1 .. Len(w)
         /\ DOMAIN Tail(w) = 1 .. (Len(w) - 1)
         /\ \A i \in DOMAIN Tail(w) : Tail(w)[i] = w[i + 1]
  OBVIOUS

-------------------------------------------------------------------------------
(***************************************************************************)
(* What TLAPS proves about RdProperty, for any set of values and any       *)
(* number of sets: with nothing on the way the two ends agree.             *)
(***************************************************************************)
\* The last message on the way to p.
LastTo(p) == wire[p][Len(wire[p])]

\* The messages on the way to the slave carry the versions it lacks, in order.
Numbered ==
  /\ master_version[Master] = master_version[Slave] + Len(wire[Slave])
  /\ \A i \in 1..Len(wire[Slave]) :
       wire[Slave][i].version = master_version[Slave] + i

\* The messages on the way to the master carry versions the slave had.
Lagging ==
  /\ \A i \in 1..Len(wire[Master]) :
       wire[Master][i].version <= master_version[Slave]
  /\ \A i, j \in 1..Len(wire[Master]) :
       i <= j => wire[Master][i].version <= wire[Master][j].version

\* The last message to the slave has the master's value.  When there is none
\* the slave holds what the last acceptable message to the master says, or the
\* master's value if the master will reject all that is on the way to it.
Agreement ==
  IF wire[Slave] # <<>>
  THEN value[Master] = LastTo(Slave).value
  ELSE value[Slave] =
         IF wire[Master] # <<>>
              /\ LastTo(Master).version = master_version[Slave]
         THEN LastTo(Master).value ELSE value[Master]

IInv == TypeOK /\ Numbered /\ Lagging /\ Agreement
-----------------------------------------------------------------------------
\* Converged and SlaveBehind are what is left of IInv on a quiet wire.
LEMMA InvImplies == IInv => Converged /\ SlaveBehind
<1>. SUFFICES ASSUME IInv PROVE Converged /\ SlaveBehind
  OBVIOUS
<1>1. Converged
  BY DEF IInv, Agreement, Converged, Quiet, Peers
<1>2. wire[Master] \in Seq(Message)
  BY DEF IInv, TypeOK, Peers
<1>3. SlaveBehind
  BY <1>2 DEF IInv, Numbered, Lagging, SlaveBehind
<1>. QED
  BY <1>1, <1>3

\* Both ends start with the same value and no messages.
LEMMA PropertyInitInv == Init => IInv
<1>. SUFFICES ASSUME Init PROVE IInv
  OBVIOUS
<1>1. TypeOK
  BY RdPropertyAssumption, WireEndsAssumption DEF Init, TypeOK, Message
<1>2. /\ \A p \in Peers : wire[p] = <<>> /\ master_version[p] = 0
      /\ value[Master] = value[Slave]
  BY DEF Init, Peers
<1>3. Numbered /\ Lagging
  BY <1>2 DEF Numbered, Lagging, Peers
<1>4. Agreement
  BY <1>2 DEF Agreement, Peers
<1>. QED
  BY <1>1, <1>3, <1>4 DEF IInv

\* What the invariant says of the four functions at the two ends.
LEMMA Typed ==
  ASSUME TypeOK
  PROVE  /\ value[Master] \in Values /\ value[Slave] \in Values
         /\ master_version[Master] \in Nat /\ master_version[Slave] \in Nat
         /\ wire[Master] \in Seq(Message) /\ wire[Slave] \in Seq(Message)
         /\ \A p \in Peers : \A i \in 1..Len(wire[p]) :
              wire[p][i].version \in Nat /\ wire[p][i].value \in Values
<1>1. \A p \in Peers : wire[p] \in Seq(Message)
  BY DEF TypeOK
<1>2. \A p \in Peers : \A i \in 1..Len(wire[p]) : wire[p][i] \in Message
  BY <1>1
<1>. QED
  BY <1>1, <1>2 DEF TypeOK, Peers, Message

\* Both kinds of steps keep the types.
LEMMA SetType == ASSUME TypeOK, NEW p \in Peers, NEW v \in Values, Set(p, v)
                 PROVE  TypeOK'
<1>1. Other(p) \in Peers
  BY DEF Other, Peers
<1>2. NextVersion(p) \in Nat
  BY DEF NextVersion, TypeOK
<1>3. [version |-> NextVersion(p), value |-> v] \in Message
  BY <1>2 DEF Message
<1>4. value' \in [Peers -> Values] /\ master_version' \in [Peers -> Nat]
  BY <1>2 DEF Set, TypeOK
<1>5. wire' \in [Peers -> Seq(Message)]
  BY <1>1, <1>3 DEF Set, TypeOK
<1>6. sets' \in 0..MaxSets
  BY RdPropertyAssumption, WireEndsAssumption DEF Set, TypeOK
<1>. QED
  BY <1>4, <1>5, <1>6 DEF TypeOK

\* Handling a message keeps the types.
LEMMA ReceiveType == ASSUME TypeOK, NEW p \in Peers, Receive(p) PROVE TypeOK'
<1>1. wire[p] \in Seq(Message) /\ wire[p] # <<>>
  BY DEF Receive, TypeOK
<1>2. Head(wire[p]) \in Message /\ Tail(wire[p]) \in Seq(Message)
  BY <1>1
<1>3. Head(wire[p]).version \in Nat /\ Head(wire[p]).value \in Values
  BY <1>2 DEF Message
<1>4. wire' \in [Peers -> Seq(Message)] /\ sets' \in 0..MaxSets
  BY <1>2 DEF Receive, TypeOK
<1>5. value' \in [Peers -> Values] /\ master_version' \in [Peers -> Nat]
  <2>1. CASE Rejected(p, Head(wire[p]))
    BY <2>1 DEF Receive, TypeOK
  <2>2. CASE ~Rejected(p, Head(wire[p]))
    BY <2>2, <1>3 DEF Receive, TypeOK
  <2>. QED
    BY <2>1, <2>2
<1>. QED
  BY <1>4, <1>5 DEF TypeOK
-----------------------------------------------------------------------------
\* The master's set becomes the last message to the slave.
LEMMA MasterSets ==
  ASSUME IInv, NEW v \in Values, Set(Master, v)
  PROVE  Numbered' /\ Lagging' /\ Agreement'
<1>. DEFINE message == [version |-> master_version[Master] + 1, value |-> v]
<1>1. /\ value'[Master] = v
      /\ master_version'[Master] = master_version[Master] + 1
      /\ master_version'[Slave] = master_version[Slave]
      /\ wire'[Slave] = Append(wire[Slave], message)
      /\ wire'[Master] = wire[Master]
  BY RdPropertyAssumption, WireEndsAssumption
    DEF Set, IInv, TypeOK, Other, NextVersion, is_master, Peers
<1>2. wire[Slave] \in Seq(Message) /\ message \in Message
      /\ master_version[Master] \in Nat /\ master_version[Slave] \in Nat
  BY Typed DEF IInv, Message
<1>3. /\ Len(wire'[Slave]) = Len(wire[Slave]) + 1
      /\ wire'[Slave] # <<>>
      /\ \A i \in 1..Len(wire[Slave]) : wire'[Slave][i] = wire[Slave][i]
      /\ wire'[Slave][Len(wire[Slave]) + 1] = message
  BY <1>1, <1>2
<1>4. Numbered'
  <2>1. master_version'[Master] = master_version'[Slave] + Len(wire'[Slave])
    BY <1>1, <1>2, <1>3 DEF IInv, Numbered
  <2>2. ASSUME NEW i \in 1..Len(wire'[Slave])
        PROVE  wire'[Slave][i].version = master_version'[Slave] + i
    <3>1. CASE i = Len(wire[Slave]) + 1
      BY <3>1, <1>1, <1>2, <1>3 DEF IInv, Numbered
    <3>2. CASE i # Len(wire[Slave]) + 1
      <4>1. i \in 1..Len(wire[Slave])
        BY <3>2, <1>2, <1>3
      <4>. QED
        BY <4>1, <1>1, <1>3 DEF IInv, Numbered
    <3>. QED
      BY <3>1, <3>2
  <2>. QED
    BY <2>1, <2>2 DEF Numbered
<1>5. Lagging'
  BY <1>1 DEF IInv, Lagging
<1>6. Agreement'
  BY <1>1, <1>3 DEF Agreement, LastTo
<1>. QED
  BY <1>4, <1>5, <1>6

\* The slave's set becomes the last message to the master.
LEMMA SlaveSets ==
  ASSUME IInv, NEW v \in Values, Set(Slave, v)
  PROVE  Numbered' /\ Lagging' /\ Agreement'
<1>. DEFINE message == [version |-> master_version[Slave], value |-> v]
<1>1. /\ value'[Slave] = v /\ value'[Master] = value[Master]
      /\ master_version'[Master] = master_version[Master]
      /\ master_version'[Slave] = master_version[Slave]
      /\ wire'[Master] = Append(wire[Master], message)
      /\ wire'[Slave] = wire[Slave]
  BY RdPropertyAssumption, WireEndsAssumption
    DEF Set, IInv, TypeOK, Other, NextVersion, is_master, Peers
<1>2. wire[Master] \in Seq(Message) /\ message \in Message
      /\ master_version[Slave] \in Nat
      /\ \A i \in 1..Len(wire[Master]) : wire[Master][i].version \in Nat
  BY Typed DEF IInv, Message, Peers
<1>3. /\ Len(wire'[Master]) = Len(wire[Master]) + 1
      /\ wire'[Master] # <<>>
      /\ \A i \in 1..Len(wire[Master]) : wire'[Master][i] = wire[Master][i]
      /\ wire'[Master][Len(wire[Master]) + 1] = message
  BY <1>1, <1>2
<1>4. Numbered'
  BY <1>1 DEF IInv, Numbered
<1>5. Lagging'
  <2>1. ASSUME NEW i \in 1..Len(wire'[Master])
        PROVE  wire'[Master][i].version <= master_version'[Slave]
    <3>1. CASE i = Len(wire[Master]) + 1
      BY <3>1, <1>1, <1>2, <1>3
    <3>2. CASE i \in 1..Len(wire[Master])
      BY <3>2, <1>1, <1>3 DEF IInv, Lagging
    <3>. QED
      BY <3>1, <3>2, <1>2, <1>3
  <2>2. ASSUME NEW i \in 1..Len(wire'[Master]), NEW j \in 1..Len(wire'[Master]),
               i <= j
        PROVE  wire'[Master][i].version <= wire'[Master][j].version
    <3>1. CASE j = Len(wire[Master]) + 1
      BY <3>1, <2>1, <1>1, <1>3
    <3>2. CASE j \in 1..Len(wire[Master])
      <4>1. i \in 1..Len(wire[Master])
        BY <3>2, <2>2, <1>2
      <4>. QED
        BY <4>1, <3>2, <2>2, <1>3 DEF IInv, Lagging
    <3>. QED
      BY <3>1, <3>2, <1>2, <1>3
  <2>. QED
    BY <2>1, <2>2 DEF Lagging
<1>6. Agreement'
  <2>1. CASE wire[Slave] # <<>>
    BY <2>1, <1>1 DEF IInv, Agreement, LastTo
  <2>2. CASE wire[Slave] = <<>>
    BY <2>2, <1>1, <1>3 DEF Agreement, LastTo
  <2>. QED
    BY <2>1, <2>2
<1>. QED
  BY <1>4, <1>5, <1>6
\* What Tail does to a sequence of messages.
LEMMA TailOfMessages ==
  ASSUME NEW w \in Seq(Message), w # <<>>
  PROVE  /\ Tail(w) \in Seq(Message)
         /\ Len(w) \in Nat \ {0} /\ Len(Tail(w)) = Len(w) - 1
         /\ Head(w) = w[1]
         /\ \A i \in 1..Len(Tail(w)) : Tail(w)[i] = w[i + 1]
         /\ Tail(w) # <<>> => Tail(w)[Len(Tail(w))] = w[Len(w)]
         /\ Tail(w) = <<>> => Len(w) = 1
<1>1. /\ Tail(w) \in Seq(Message)
      /\ Len(w) \in Nat \ {0} /\ Len(Tail(w)) = Len(w) - 1
      /\ Head(w) = w[1]
      /\ \A i \in 1..Len(Tail(w)) : Tail(w)[i] = w[i + 1]
  OBVIOUS
<1>2. ASSUME Tail(w) # <<>> PROVE Tail(w)[Len(Tail(w))] = w[Len(w)]
  <2>1. Len(Tail(w)) \in 1..Len(Tail(w))
    BY <1>1, <1>2
  <2>. QED
    BY <2>1, <1>1
<1>3. ASSUME Tail(w) = <<>> PROVE Len(w) = 1
  <2>0. Len(<<>>) = 0
    OBVIOUS
  <2>1. Len(Tail(w)) = 0
    BY <1>3, <2>0, Zenon
  <2>. QED
    BY <2>1, <1>1
<1>. QED
  BY <1>1, <1>2, <1>3

\* The slave takes the head of its wire, whose version is its next.
LEMMA SlaveReceives ==
  ASSUME IInv, Receive(Slave)
  PROVE  Numbered' /\ Lagging' /\ Agreement'
<1>. DEFINE w == wire[Slave]
<1>1. /\ w \in Seq(Message) /\ w # <<>>
      /\ master_version[Master] \in Nat /\ master_version[Slave] \in Nat
      /\ \A i \in 1..Len(wire[Master]) : wire[Master][i].version \in Nat
      /\ wire[Master] \in Seq(Message)
  BY Typed DEF IInv, Receive, Peers
<1>2. ~Rejected(Slave, Head(w))
  BY RdPropertyAssumption, WireEndsAssumption DEF Rejected, is_master
<1>3. /\ value'[Slave] = Head(w).value /\ value'[Master] = value[Master]
      /\ master_version'[Slave] = Head(w).version
      /\ master_version'[Master] = master_version[Master]
      /\ wire'[Slave] = Tail(w) /\ wire'[Master] = wire[Master]
  BY <1>2, RdPropertyAssumption, WireEndsAssumption DEF Receive, IInv, TypeOK, Peers
<1>4. /\ Tail(w) \in Seq(Message)
      /\ Len(w) \in Nat \ {0} /\ Len(Tail(w)) = Len(w) - 1
      /\ Head(w) = w[1]
      /\ \A i \in 1..Len(Tail(w)) : Tail(w)[i] = w[i + 1]
      /\ Tail(w) # <<>> => Tail(w)[Len(Tail(w))] = w[Len(w)]
      /\ Tail(w) = <<>> => Len(w) = 1
  BY <1>1, TailOfMessages
<1>5. /\ master_version[Master] = master_version[Slave] + Len(w)
      /\ \A i \in 1..Len(w) : w[i].version = master_version[Slave] + i
  BY DEF IInv, Numbered
<1>6. master_version'[Slave] = master_version[Slave] + 1
  BY <1>3, <1>4, <1>5
<1>7. Numbered'
  <2>1. master_version'[Master] = master_version'[Slave] + Len(wire'[Slave])
    BY <1>1, <1>3, <1>4, <1>5, <1>6
  <2>2. ASSUME NEW i \in 1..Len(Tail(w))
        PROVE  wire'[Slave][i].version = master_version'[Slave] + i
    <3>1. i + 1 \in 1..Len(w)
      BY <1>4
    <3>2. w[i + 1].version = master_version[Slave] + (i + 1)
      BY <3>1, <1>5
    <3>3. wire'[Slave][i] = w[i + 1]
      BY <1>3, <1>4
    <3>4. i \in Nat
      BY <1>4
    <3>5. (master_version[Slave] + 1) + i = master_version[Slave] + (i + 1)
      BY <3>4, <1>1
    <3>6. wire'[Slave][i].version = w[i + 1].version
      BY <3>3, Zenon
    <3>7. master_version'[Slave] + i = (master_version[Slave] + 1) + i
      BY <1>6, Zenon
    <3>. QED
      BY <3>2, <3>5, <3>6, <3>7, Zenon
  <2>. QED
    BY <2>1, <2>2, <1>3 DEF Numbered
<1>8. Lagging'
  <2>1. \A i \in 1..Len(wire[Master]) :
          wire[Master][i].version <= master_version[Slave] + 1
    BY <1>1 DEF IInv, Lagging
  <2>. QED
    BY <2>1, <1>3, <1>6 DEF IInv, Lagging
<1>9. Agreement'
  <2>1. value[Master] = w[Len(w)].value
    BY <1>1 DEF IInv, Agreement, LastTo
  <2>2. CASE Tail(w) # <<>>
    BY <2>1, <2>2, <1>3, <1>4 DEF Agreement, LastTo
  <2>3. CASE Tail(w) = <<>>
    <3>1. value'[Slave] = value[Master]
      BY <2>1, <2>3, <1>3, <1>4
    <3>2. wire[Master] # <<>> => LastTo(Master).version # master_version'[Slave]
      <4>1. ASSUME wire[Master] # <<>>
            PROVE  LastTo(Master).version <= master_version[Slave]
        <5>1. Len(wire[Master]) \in 1..Len(wire[Master])
          BY <4>1, <1>1
        <5>. QED
          BY <5>1 DEF IInv, Lagging, LastTo
      <4>2. ASSUME wire[Master] # <<>> PROVE LastTo(Master).version \in Nat
        BY <4>2, <1>1 DEF LastTo
      <4>. QED
        BY <4>1, <4>2, <1>1, <1>6
    <3>. QED
      BY <3>1, <3>2, <2>3, <1>3 DEF Agreement, LastTo
  <2>. QED
    BY <2>2, <2>3
<1>. QED
  BY <1>7, <1>8, <1>9

\* The master takes the head of its wire, and only if the slave lacks nothing.
LEMMA MasterReceives ==
  ASSUME IInv, Receive(Master)
  PROVE  /\ Numbered' /\ Lagging' /\ Agreement'
         /\ value'[Master] # value[Master] => wire[Slave] = <<>>
         /\ master_version' = master_version
<1>. DEFINE w == wire[Master]
<1>1. /\ w \in Seq(Message) /\ w # <<>> /\ wire[Slave] \in Seq(Message)
      /\ master_version[Master] \in Nat /\ master_version[Slave] \in Nat
      /\ \A i \in 1..Len(w) : w[i].version \in Nat
  BY Typed DEF IInv, Receive, Peers
<1>2. /\ value'[Slave] = value[Slave]
      /\ master_version'[Slave] = master_version[Slave]
      /\ wire'[Master] = Tail(w) /\ wire'[Slave] = wire[Slave]
  <2>1. wire'[Master] = Tail(w) /\ wire'[Slave] = wire[Slave]
    BY RdPropertyAssumption, WireEndsAssumption DEF Receive, IInv, TypeOK, Peers
  <2>2. value'[Slave] = value[Slave]
        /\ master_version'[Slave] = master_version[Slave]
    <3>1. CASE Rejected(Master, Head(w))
      BY <3>1 DEF Receive
    <3>2. CASE ~Rejected(Master, Head(w))
      BY <3>2, RdPropertyAssumption, WireEndsAssumption DEF Receive, IInv, TypeOK, Peers
    <3>. QED
      BY <3>1, <3>2
  <2>. QED
    BY <2>1, <2>2
<1>3. /\ Tail(w) \in Seq(Message)
      /\ Len(w) \in Nat \ {0} /\ Len(Tail(w)) = Len(w) - 1
      /\ Head(w) = w[1]
      /\ \A i \in 1..Len(Tail(w)) : Tail(w)[i] = w[i + 1]
      /\ Tail(w) # <<>> => Tail(w)[Len(Tail(w))] = w[Len(w)]
      /\ Tail(w) = <<>> => Len(w) = 1
  BY <1>1, TailOfMessages
<1>4. /\ \A i \in 1..Len(w) : w[i].version <= master_version[Slave]
      /\ \A i, j \in 1..Len(w) : i <= j => w[i].version <= w[j].version
      /\ master_version[Master] = master_version[Slave] + Len(wire[Slave])
  BY DEF IInv, Lagging, Numbered
<1>5. Lagging'
  <2>1. \A i \in 1..Len(Tail(w)) : i + 1 \in 1..Len(w)
    BY <1>3
  <2>2. \A i \in 1..Len(Tail(w)) : Tail(w)[i].version <= master_version[Slave]
    BY <2>1, <1>3, <1>4
  <2>3. \A i, j \in 1..Len(Tail(w)) :
          i <= j => Tail(w)[i].version <= Tail(w)[j].version
    BY <2>1, <1>3, <1>4
  <2>. QED
    BY <2>2, <2>3, <1>2 DEF Lagging
<1>6. CASE Rejected(Master, Head(w))
  <2>1. value' = value /\ master_version' = master_version
    BY <1>6 DEF Receive
  <2>2. w[1].version < master_version[Master]
    BY <1>6, <1>3 DEF Rejected
  <2>3. Numbered'
    BY <2>1, <1>2 DEF IInv, Numbered
  <2>4. Agreement'
    <3>1. CASE wire[Slave] # <<>>
      BY <3>1, <2>1, <1>2 DEF IInv, Agreement, LastTo
    <3>2. CASE wire[Slave] = <<>> /\ Tail(w) # <<>>
      BY <3>2, <2>1, <1>1, <1>2, <1>3 DEF IInv, Agreement, LastTo
    <3>3. CASE wire[Slave] = <<>> /\ Tail(w) = <<>>
      <4>1. master_version[Master] = master_version[Slave]
        BY <3>3, <1>1, <1>4
      <4>2. w[Len(w)].version # master_version[Slave]
        BY <3>3, <4>1, <2>2, <1>1, <1>3
      <4>3. value[Slave] = value[Master]
        BY <3>3, <4>2 DEF IInv, Agreement, LastTo
      <4>. QED
        BY <3>3, <4>3, <2>1, <1>2 DEF Agreement
    <3>. QED
      BY <3>1, <3>2, <3>3
  <2>. QED
    BY <2>1, <2>3, <2>4, <1>5
<1>7. CASE ~Rejected(Master, Head(w))
  <2>1. value'[Master] = w[1].value /\ master_version'[Master] = w[1].version
        /\ master_version' = [master_version EXCEPT ![Master] = w[1].version]
    BY <1>7, <1>3 DEF Receive, IInv, TypeOK, Peers
  <2>2. 1 \in 1..Len(w)
    BY <1>3
  <2>3. w[1].version >= master_version[Master]
    BY <1>7, <1>1, <1>3, <2>2 DEF Rejected, is_master
  <2>4. /\ Len(wire[Slave]) = 0
        /\ w[1].version = master_version[Master]
        /\ w[1].version = master_version[Slave]
    BY <2>2, <2>3, <1>1, <1>4
  <2>5. wire[Slave] = <<>>
    BY <2>4, <1>1
  <2>6. master_version' = master_version
    BY <2>1, <2>4 DEF IInv, TypeOK
  <2>7. Numbered'
    BY <2>6, <1>2 DEF IInv, Numbered
  <2>8. Len(w) \in 1..Len(w) /\ w[Len(w)].version = master_version[Slave]
    <3>1. Len(w) \in 1..Len(w) /\ 1 <= Len(w)
      BY <1>3
    <3>2. w[1].version <= w[Len(w)].version
      BY <3>1, <2>2, <1>4
    <3>3. w[Len(w)].version <= master_version[Slave]
      BY <3>1, <1>4
    <3>4. w[Len(w)].version \in Nat
      BY <3>1, <1>1
    <3>. QED
      BY <3>1, <3>2, <3>3, <3>4, <2>4, <1>1
  <2>9. value[Slave] = w[Len(w)].value
    BY <2>5, <2>8, <1>1 DEF IInv, Agreement, LastTo
  <2>10. Agreement'
    <3>1. CASE Tail(w) # <<>>
      BY <3>1, <2>5, <2>6, <2>8, <2>9, <1>2, <1>3 DEF Agreement, LastTo
    <3>2. CASE Tail(w) = <<>>
      BY <3>2, <2>1, <2>5, <2>9, <1>2, <1>3 DEF Agreement
    <3>. QED
      BY <3>1, <3>2
  <2>. QED
    BY <2>5, <2>6, <2>7, <2>10, <1>5
<1>. QED
  BY <1>6, <1>7
-----------------------------------------------------------------------------
\* Every step keeps the invariant.
LEMMA PropertyNextInv == IInv /\ [Next]_vars => IInv'
<1>. SUFFICES ASSUME IInv, [Next]_vars PROVE IInv'
  OBVIOUS
<1>1. CASE UNCHANGED vars
  BY <1>1 DEF vars, IInv, TypeOK, Numbered, Lagging, Agreement, LastTo
<1>2. CASE Done
  BY <1>2 DEF Done, vars, IInv, TypeOK, Numbered, Lagging, Agreement, LastTo
<1>3. ASSUME NEW p \in Peers, NEW v \in Values, Set(p, v) PROVE IInv'
  <2>1. TypeOK'
    BY <1>3, SetType DEF IInv
  <2>2. CASE p = Master
    BY <2>1, <2>2, <1>3, MasterSets DEF IInv
  <2>3. CASE p = Slave
    BY <2>1, <2>3, <1>3, SlaveSets DEF IInv
  <2>. QED
    BY <2>2, <2>3 DEF Peers
<1>4. ASSUME NEW p \in Peers, Receive(p) PROVE IInv'
  <2>1. TypeOK'
    BY <1>4, ReceiveType DEF IInv
  <2>2. CASE p = Master
    BY <2>1, <2>2, <1>4, MasterReceives DEF IInv
  <2>3. CASE p = Slave
    BY <2>1, <2>3, <1>4, SlaveReceives DEF IInv
  <2>. QED
    BY <2>2, <2>3 DEF Peers
<1>. QED
  BY <1>1, <1>2, <1>3, <1>4 DEF Next

\* The inductive invariant holds of every run.
THEOREM PropertyInvariance == Spec => []IInv
<1>. QED
  BY PropertyInitInv, PropertyNextInv, PTL DEF Spec

\* The types, of RdPropertyBase's fields and of the messages.
THEOREM PropertyTypeCorrect == Spec => []TypeOK
<1>1. IInv => TypeOK
  BY DEF IInv
<1>. QED
  BY <1>1, PropertyInvariance, PTL

\* Whenever nothing is on its way both ends hold the same value.
THEOREM PropertyConvergence == Spec => []Converged
<1>. QED
  BY InvImplies, PropertyInvariance, PTL

\* The version of the slave is behind by the messages on the way to it.
THEOREM Versions == Spec => []SlaveBehind
<1>. QED
  BY InvImplies, PropertyInvariance, PTL

\* A set of the master is not undone by a set made in ignorance of it.
THEOREM NotUndone == Spec => MasterNotUndone
<1>. DEFINE Kept == \A p \in {Master} :
       (sets' = sets /\ value'[p] # value[p]) => wire[Slave] = <<>>
<1>1. ASSUME IInv, Next PROVE Kept
  <2>1. CASE Done
    BY <2>1 DEF Done, vars
  <2>2. ASSUME NEW p \in Peers, NEW v \in Values, Set(p, v) PROVE Kept
    BY <2>2, <1>1 DEF Set, IInv, TypeOK
  <2>3. ASSUME NEW p \in Peers, Receive(p) PROVE Kept
    <3>1. CASE p = Master
      BY <3>1, <2>3, <1>1, MasterReceives
    <3>2. CASE p = Slave
      <4>1. ~Rejected(Slave, Head(wire[Slave]))
        BY RdPropertyAssumption, WireEndsAssumption DEF Rejected, is_master
      <4>2. value'[Master] = value[Master]
        BY <3>2, <4>1, <2>3, <1>1, RdPropertyAssumption, WireEndsAssumption
          DEF Receive, IInv, TypeOK, Peers
      <4>. QED
        BY <4>2
    <3>. QED
      BY <3>1, <3>2 DEF Peers
  <2>. QED
    BY <2>1, <2>2, <2>3, <1>1 DEF Next
<1>2. IInv /\ [Next]_vars => [Kept]_vars
  BY <1>1
<1>3. Spec => [][Kept]_vars
  BY <1>2, PropertyInvariance, PTL DEF Spec
<1>. QED
  BY <1>3 DEF MasterNotUndone

-------------------------------------------------------------------------------
(***************************************************************************)
(* Why a set without versions agrees about a member whose changes never    *)
(* crossed: the changes of one on their way all go one way, and the last   *)
(* of them says what the end that made them holds.                         *)
(***************************************************************************)
SetMessage == [member : Members, adds : BOOLEAN]

SetTypeOK ==
  /\ set \in [Peers -> SUBSET Members]
  /\ setWire \in [Peers -> Seq(SetMessage)]
  /\ setChanges \in [Peers -> Nat]
  /\ collided \in SUBSET Members

\* The i-th message on the way to p is the last about v.
IsLast(p, v, i) ==
  /\ i \in DOMAIN setWire[p] /\ setWire[p][i].member = v
  /\ \A j \in DOMAIN setWire[p] : setWire[p][j].member = v => j <= i

\* Changes of v are on their way to one end at most.
OneWay(v) == ~(OnTheWay(Master, v) /\ OnTheWay(Slave, v))

\* The last change of v on its way to p is what the other end holds.
LastDecides(v) ==
  \A p \in Peers, i \in Nat : IsLast(p, v, i) => (setWire[p][i].adds <=> v \in set[Other(p)])

\* Where none is on its way the ends agree.
Settled(v) ==
  (\A p \in Peers : ~OnTheWay(p, v)) => (v \in set[Master] <=> v \in set[Slave])

Agreed(v) == OneWay(v) /\ LastDecides(v) /\ Settled(v)
SetInv == SetTypeOK /\ \A v \in Members \ collided : Agreed(v)

\* The invariant holds of two empty sets.
LEMMA SetInitInv == SetInit => SetInv
<1>. SUFFICES ASSUME SetInit PROVE SetInv OBVIOUS
<1>1. SetTypeOK BY DEF SetInit, SetTypeOK, SetMessage
<1>2. \A v \in Members : Agreed(v)
  BY DEF SetInit, Agreed, OneWay, LastDecides, Settled, OnTheWay, IsLast, Peers
<1>. QED BY <1>1, <1>2 DEF SetInv

\* Every step keeps the types.
LEMMA SetStepTyped == ASSUME SetTypeOK, SetNext PROVE SetTypeOK'
<1>1. ASSUME NEW p \in Peers, NEW v \in Members, NEW adds \in BOOLEAN, SetChange(p, v, adds)
      PROVE  SetTypeOK'
  <2>1. [member |-> v, adds |-> adds] \in SetMessage BY DEF SetMessage
  <2>2. Other(p) \in Peers BY OtherEnds DEF Peers
  <2>3. setWire' \in [Peers -> Seq(SetMessage)] BY <1>1, <2>1, <2>2 DEF SetTypeOK, SetChange
  <2>. QED BY <1>1, <2>3 DEF SetTypeOK, SetChange, With
<1>2. ASSUME NEW p \in Peers, ReceiveSetChange(p) PROVE SetTypeOK'
  <2>1. Head(setWire[p]) \in SetMessage /\ Tail(setWire[p]) \in Seq(SetMessage)
    BY <1>2 DEF SetTypeOK, ReceiveSetChange
  <2>. QED BY <1>2, <2>1 DEF SetTypeOK, ReceiveSetChange, Received, With, SetMessage
<1>. QED BY <1>1, <1>2 DEF SetNext

\* What the wire to q holds after a message was added.
LEMMA SetAppended ==
  ASSUME SetTypeOK, NEW q \in Peers, NEW m \in SetMessage, setWire' = [setWire EXCEPT ![q] = Append(@, m)]
  PROVE  /\ DOMAIN setWire[q] = 1 .. Len(setWire[q]) /\ Len(setWire[q]) \in Nat
         /\ DOMAIN setWire'[q] = 1 .. (Len(setWire[q]) + 1)
         /\ \A i \in DOMAIN setWire[q] : setWire'[q][i] = setWire[q][i]
         /\ setWire'[q][Len(setWire[q]) + 1] = m
         /\ \A r \in Peers \ {q} : setWire'[r] = setWire[r]
<1>1. setWire[q] \in Seq(SetMessage) /\ setWire'[q] = Append(setWire[q], m)
  BY DEF SetTypeOK
<1>2. \A r \in Peers \ {q} : setWire'[r] = setWire[r] BY DEF SetTypeOK
<1>. QED BY <1>1, <1>2

\* A change of v says nothing about the other members.
LEMMA ChangeKeepsOthers ==
  ASSUME SetTypeOK, NEW p \in Peers, NEW v \in Members, NEW adds \in BOOLEAN, SetChange(p, v, adds),
         NEW u \in Members, u # v, Agreed(u)
  PROVE  Agreed(u)'
<1>. DEFINE q == Other(p)  m == [member |-> v, adds |-> adds]
<1>1. q \in Peers /\ m \in SetMessage /\ m.member = v BY OtherEnds DEF Peers, SetMessage
<1>2. setWire' = [setWire EXCEPT ![q] = Append(@, m)] BY DEF SetChange
<1>. HIDE DEF q, m
<1>3. \A r \in Peers : OnTheWay(r, u)' <=> OnTheWay(r, u)
  BY <1>1, <1>2, SetAppended DEF OnTheWay
<1>4. ASSUME NEW r \in Peers, NEW i \in Nat, IsLast(r, u, i)'
      PROVE  IsLast(r, u, i) /\ setWire'[r][i] = setWire[r][i]
  <2>1. CASE r = q BY <2>1, <1>1, <1>2, <1>4, SetAppended DEF IsLast
  <2>2. CASE r # q BY <2>2, <1>1, <1>2, <1>4, SetAppended DEF IsLast
  <2>. QED BY <2>1, <2>2
<1>5. \A r \in Peers : u \in set'[r] <=> u \in set[r] BY DEF SetChange, With, SetTypeOK
<1>6. \A r \in Peers : Other(r) \in Peers BY OtherEnds DEF Peers
<1>7. LastDecides(u)' BY <1>4, <1>5, <1>6 DEF LastDecides, Agreed
<1>8. OneWay(u)' BY <1>3, OtherEnds DEF OneWay, Agreed
<1>9. Settled(u)' BY <1>3, <1>5, OtherEnds DEF Settled, Agreed
<1>. QED BY <1>7, <1>8, <1>9 DEF Agreed

\* A change of v that crosses none is the last about v, and agreed.
LEMMA ChangeAgrees ==
  ASSUME SetTypeOK, NEW p \in Peers, NEW v \in Members, NEW adds \in BOOLEAN, SetChange(p, v, adds),
         ~OnTheWay(p, v), Agreed(v)
  PROVE  Agreed(v)'
<1>. DEFINE q == Other(p)  m == [member |-> v, adds |-> adds]
<1>1. q \in Peers /\ m \in SetMessage /\ m.member = v /\ m.adds = adds
  BY OtherEnds DEF Peers, SetMessage
<1>2. setWire' = [setWire EXCEPT ![q] = Append(@, m)] BY DEF SetChange
<1>3. q # p /\ Other(q) = p /\ Peers = {p, q} BY OtherEnds DEF Peers
<1>. HIDE DEF q, m
<1>4. v \in set'[p] <=> adds BY DEF SetChange, With, SetTypeOK
<1>5. ~OnTheWay(p, v)' BY <1>1, <1>2, <1>3, SetAppended DEF OnTheWay
<1>. DEFINE n == Len(setWire[q]) + 1
<1>6. n \in Nat /\ DOMAIN setWire'[q] = 1 .. n /\ setWire'[q][n] = m
  <2>1. Len(setWire[q]) \in Nat /\ DOMAIN setWire'[q] = 1 .. n BY <1>1, <1>2, SetAppended
  <2>2. setWire'[q][n] = m BY <1>1, <1>2, SetAppended
  <2>. QED BY <2>1, <2>2
<1>. HIDE DEF n
<1>7. n \in DOMAIN setWire'[q] /\ setWire'[q][n].member = v
  <2>1. n >= 1 BY <1>1, <1>2, SetAppended DEF n
  <2>. QED BY <2>1, <1>1, <1>6
<1>8. OnTheWay(q, v)' BY <1>7 DEF OnTheWay
<1>9. ASSUME NEW i \in Nat, IsLast(q, v, i)' PROVE setWire'[q][i].adds = adds
  <2>1. i \in 1 .. n /\ n <= i BY <1>6, <1>7, <1>9 DEF IsLast
  <2>. QED BY <2>1, <1>1, <1>6
<1>10. \A i \in Nat : ~IsLast(p, v, i)' BY <1>5 DEF IsLast, OnTheWay
<1>11. LastDecides(v)' BY <1>3, <1>4, <1>9, <1>10 DEF LastDecides
<1>12. OneWay(v)' BY <1>3, <1>5 DEF OneWay, Peers
<1>13. Settled(v)' BY <1>3, <1>8 DEF Settled
<1>. QED BY <1>11, <1>12, <1>13 DEF Agreed

\* What is left on the wire to p after its first message was received.
LEMMA SetRemoved ==
  ASSUME SetTypeOK, NEW p \in Peers, ReceiveSetChange(p)
  PROVE  /\ DOMAIN setWire[p] = 1 .. Len(setWire[p]) /\ Len(setWire[p]) \in Nat \ {0}
         /\ DOMAIN setWire'[p] = 1 .. (Len(setWire[p]) - 1)
         /\ \A i \in DOMAIN setWire'[p] : setWire'[p][i] = setWire[p][i + 1]
         /\ \A r \in Peers \ {p} : setWire'[r] = setWire[r]
<1>1. setWire[p] \in Seq(SetMessage) /\ setWire[p] # <<>> /\ setWire'[p] = Tail(setWire[p])
  BY DEF SetTypeOK, ReceiveSetChange
<1>2. \A r \in Peers \ {p} : setWire'[r] = setWire[r] BY DEF SetTypeOK, ReceiveSetChange
<1>. QED BY <1>1, <1>2

\* What is received keeps a member agreed that was.
LEMMA ReceiveKeeps ==
  ASSUME SetTypeOK, NEW p \in Peers, ReceiveSetChange(p), NEW u \in Members, Agreed(u)
  PROVE  Agreed(u)'
<1>. DEFINE q == Other(p)  m == setWire[p][1]
<1>1. q \in Peers /\ q # p /\ Other(q) = p /\ Peers = {p, q} BY OtherEnds DEF Peers
<1>2. /\ m = Head(setWire[p]) /\ m \in SetMessage
      /\ set' = [set EXCEPT ![p] = With(set[p], m.member, m.adds)]
  BY DEF SetTypeOK, ReceiveSetChange, Received
<1>3. /\ u \in set'[q] <=> u \in set[q]
      /\ u \in set'[p] <=> IF u = m.member THEN m.adds ELSE u \in set[p]
  BY <1>1, <1>2 DEF SetTypeOK, With, SetMessage
<1>. HIDE DEF q
<1>4. /\ OnTheWay(q, u)' <=> OnTheWay(q, u)
      /\ \A i \in Nat : IsLast(q, u, i)' => IsLast(q, u, i) /\ setWire'[q][i] = setWire[q][i]
  BY <1>1, SetRemoved DEF OnTheWay, IsLast
<1>5. OnTheWay(p, u)' => OnTheWay(p, u)
  <2>. SUFFICES ASSUME NEW i \in DOMAIN setWire'[p], setWire'[p][i].member = u PROVE OnTheWay(p, u)
    BY DEF OnTheWay
  <2>1. i + 1 \in DOMAIN setWire[p] /\ setWire[p][i + 1].member = u BY SetRemoved
  <2>. QED BY <2>1 DEF OnTheWay
<1>6. ASSUME NEW i \in Nat, IsLast(p, u, i)'
      PROVE  IsLast(p, u, i + 1) /\ setWire'[p][i] = setWire[p][i + 1]
  <2>1. i \in DOMAIN setWire'[p] /\ setWire'[p][i].member = u BY <1>6 DEF IsLast
  <2>2. i + 1 \in DOMAIN setWire[p] /\ setWire[p][i + 1].member = u /\ setWire'[p][i] = setWire[p][i + 1]
    BY <2>1, SetRemoved
  <2>3. ASSUME NEW j \in DOMAIN setWire[p], setWire[p][j].member = u PROVE j <= i + 1
    <3>1. CASE j = 1 BY <3>1
    <3>2. CASE j # 1
      <4>1. j \in Nat /\ j - 1 \in DOMAIN setWire'[p] /\ setWire'[p][j - 1].member = u
        BY <3>2, <2>3, SetRemoved
      <4>. QED BY <4>1, <1>6 DEF IsLast
    <3>. QED BY <3>1, <3>2
  <2>. QED BY <2>2, <2>3 DEF IsLast
<1>7. ASSUME u = m.member PROVE OnTheWay(p, u) /\ ~OnTheWay(q, u)
  <2>1. 1 \in DOMAIN setWire[p] BY SetRemoved
  <2>2. OnTheWay(p, u) BY <2>1, <1>7 DEF OnTheWay
  <2>. QED BY <2>2, <1>1 DEF Agreed, OneWay, Peers
<1>8. OneWay(u)' BY <1>1, <1>4, <1>5 DEF OneWay, Agreed, Peers
<1>9. LastDecides(u)'
  <2>1. ASSUME NEW i \in Nat, IsLast(p, u, i)' PROVE setWire'[p][i].adds <=> u \in set'[q]
    BY <2>1, <1>3, <1>6 DEF Agreed, LastDecides, q
  <2>2. ASSUME NEW i \in Nat, IsLast(q, u, i)' PROVE setWire'[q][i].adds <=> u \in set'[p]
    <3>1. IsLast(q, u, i) /\ setWire'[q][i] = setWire[q][i] BY <2>2, <1>4
    <3>2. u # m.member BY <3>1, <1>7 DEF IsLast, OnTheWay
    <3>. QED BY <3>1, <3>2, <1>1, <1>3 DEF Agreed, LastDecides
  <2>. QED BY <2>1, <2>2, <1>1 DEF LastDecides, q
<1>10. Settled(u)'
  <2>. SUFFICES ASSUME ~OnTheWay(p, u)', ~OnTheWay(q, u)' PROVE u \in set'[p] <=> u \in set'[q]
    BY <1>1, OtherEnds DEF Settled, Peers
  <2>1. CASE u = m.member
    <3>1. \A j \in DOMAIN setWire[p] : setWire[p][j].member = u => j <= 1
      <4>. SUFFICES ASSUME NEW j \in DOMAIN setWire[p], setWire[p][j].member = u, j # 1 PROVE FALSE
        BY SetRemoved
      <4>1. j - 1 \in DOMAIN setWire'[p] /\ setWire'[p][j - 1].member = u BY SetRemoved
      <4>. QED BY <4>1 DEF OnTheWay
    <3>2. IsLast(p, u, 1) BY <3>1, <2>1, SetRemoved DEF IsLast
    <3>. QED BY <3>2, <2>1, <1>3 DEF Agreed, LastDecides, q
  <2>2. CASE u # m.member
    <3>1. ~OnTheWay(p, u)
      <4>. SUFFICES ASSUME NEW j \in DOMAIN setWire[p], setWire[p][j].member = u PROVE FALSE
        BY DEF OnTheWay
      <4>1. j - 1 \in DOMAIN setWire'[p] /\ setWire'[p][j - 1].member = u BY <2>2, SetRemoved
      <4>. QED BY <4>1 DEF OnTheWay
    <3>. QED BY <3>1, <2>2, <1>1, <1>3, <1>4, OtherEnds DEF Agreed, Settled, Peers
  <2>. QED BY <2>1, <2>2
<1>. QED BY <1>8, <1>9, <1>10 DEF Agreed

\* Every step keeps the invariant.
LEMMA SetNextInv == SetInv /\ [SetNext]_setVars => SetInv'
<1>. SUFFICES ASSUME SetInv, [SetNext]_setVars PROVE SetInv' OBVIOUS
<1>1. CASE UNCHANGED setVars
  BY <1>1 DEF setVars, SetInv, SetTypeOK, Agreed, OneWay, LastDecides, Settled, OnTheWay, IsLast
<1>2. CASE SetNext
  <2>1. SetTypeOK' BY <1>2, SetStepTyped DEF SetInv
  <2>2. ASSUME NEW p \in Peers, NEW v \in Members, NEW adds \in BOOLEAN, SetChange(p, v, adds),
               NEW u \in Members \ collided'
        PROVE  Agreed(u)'
    <3>1. u \in Members \ collided /\ (u = v => ~OnTheWay(p, v)) BY <2>2 DEF SetChange
    <3>. QED BY <3>1, <2>2, ChangeAgrees, ChangeKeepsOthers DEF SetInv
  <2>3. ASSUME NEW p \in Peers, ReceiveSetChange(p), NEW u \in Members \ collided'
        PROVE  Agreed(u)'
    BY <2>3, ReceiveKeeps DEF SetInv, ReceiveSetChange
  <2>. QED BY <1>2, <2>1, <2>2, <2>3 DEF SetNext, SetInv
<1>. QED BY <1>1, <1>2

\* The inductive invariant, for any members and any number of changes.
THEOREM SetInvariance == SetSpec => []SetInv
<1>. QED BY SetInitInv, SetNextInv, PTL DEF SetSpec

\* Types, for any members and any number of changes.
THEOREM SetTypeCorrect == SetSpec => []SetTypeOK
<1>1. SetInv => SetTypeOK BY DEF SetInv
<1>. QED BY <1>1, SetInvariance, PTL

\* When nothing is on its way both ends hold the same members, but for those
\* whose changes crossed (RdSet.h sends no versions).
THEOREM SetConvergence == SetSpec => []SetConvergedUnlessCollided
<1>1. SetInv => SetConvergedUnlessCollided
  <2>. SUFFICES ASSUME SetInv, \A p \in Peers : setWire[p] = <<>>, NEW v \in Members \ collided
       PROVE  v \in set[Master] <=> v \in set[Slave]
    BY DEF SetConvergedUnlessCollided
  <2>1. \A p \in Peers : ~OnTheWay(p, v) BY DEF OnTheWay
  <2>. QED BY <2>1 DEF SetInv, Agreed, Settled
<1>. QED BY <1>1, SetInvariance, PTL

-------------------------------------------------------------------------------
(***************************************************************************)
(* Why the count of changes notices every crossing and nothing else, for   *)
(* any elements and any number of changes, and why the lists are equal     *)
(* when it noticed none.                                                   *)
(***************************************************************************)
AnyChange == [op : {"ADD", "UPDATE", "REMOVE"}, index : Nat, element : Elements]
ListMessage == [version : Int, change : AnyChange]

ListTypeOK ==
  /\ list \in [Peers -> Seq(Elements)]
  /\ list_version \in [Peers -> Int]
  /\ listWire \in [Peers -> Seq(ListMessage)]
  /\ listChanges \in [Peers -> Nat]
  /\ conflicts \in SUBSET Peers /\ crossed \in BOOLEAN

\* Both ends will have counted the same when nothing is on its way.
Balanced ==
  list_version[Master] + Len(listWire[Master]) = list_version[Slave] + Len(listWire[Slave])

\* The number the i-th message on the way to p will meet there, as things are.
Expected(p, i) == list_version[p] + i - 1

\* No message is ahead of the count it will meet.
NoneAhead ==
  \A p \in Peers : \A i \in DOMAIN listWire[p] : listWire[p][i].version <= Expected(p, i)

\* As long as no changes have crossed each will meet its number.
AllMet ==
  ~crossed => /\ conflicts = {}
              /\ \A p \in Peers : \A i \in DOMAIN listWire[p] : listWire[p][i].version = Expected(p, i)

\* Once some have, an end reported it or a message on its way will make it.
Noticed ==
  crossed => \/ conflicts # {}
             \/ \E p \in Peers : \E i \in DOMAIN listWire[p] : listWire[p][i].version < Expected(p, i)

\* The messages on the way to p lead from its list to the other end's, the list
\* being h[i] after the i-th of them.
LeadsBy(p, h) ==
  /\ h \in [0 .. Len(listWire[p]) -> Seq(Elements)]
  /\ h[0] = list[p] /\ h[Len(listWire[p])] = list[Other(p)]
  /\ \A i \in 1 .. Len(listWire[p]) :
       /\ listWire[p][i].change \in ListChanges(Len(h[i - 1]))
       /\ h[i] = Changed(h[i - 1], listWire[p][i].change)
Leads(p) == \E h : LeadsBy(p, h)

\* As long as no changes have crossed, one way is empty and the other leads to
\* equal lists.
WillBeEqual == ~crossed => \E p \in Peers : listWire[Other(p)] = <<>> /\ Leads(p)

ListInv == ListTypeOK /\ Balanced /\ NoneAhead /\ AllMet /\ Noticed /\ WillBeEqual
-------------------------------------------------------------------------------
\* Equal lists need no message to lead from one to the other.
LEMMA EqualLeads ==
  ASSUME ListTypeOK, NEW p \in Peers, listWire[p] = <<>>, list[p] = list[Other(p)]
  PROVE  Leads(p)
<1>. DEFINE h == [i \in 0 .. Len(listWire[p]) |-> list[p]]
<1>1. Len(listWire[p]) = 0 OBVIOUS
<1>2. LeadsBy(p, h) BY <1>1, OtherEnds DEF LeadsBy, ListTypeOK
<1>. QED BY <1>2 DEF Leads

\* The invariant holds of two empty lists.
LEMMA ListInitInv == ListInit => ListInv
<1>. SUFFICES ASSUME ListInit PROVE ListInv OBVIOUS
<1>1. ListTypeOK
  <2>1. <<>> \in Seq(Elements) /\ <<>> \in Seq(ListMessage) OBVIOUS
  <2>2. list_version \in [Peers -> Int] /\ listChanges \in [Peers -> Nat] BY DEF ListInit
  <2>. QED BY <2>1, <2>2 DEF ListInit, ListTypeOK
<1>2. Balanced /\ NoneAhead /\ AllMet /\ Noticed
  BY OtherEnds DEF ListInit, Balanced, NoneAhead, AllMet, Noticed
<1>3. listWire[Other(Master)] = <<>> /\ listWire[Master] = <<>> /\ list[Master] = list[Other(Master)]
  BY OtherEnds DEF ListInit
<1>4. WillBeEqual BY <1>1, <1>3, EqualLeads, OtherEnds DEF WillBeEqual
<1>. QED BY <1>1, <1>2, <1>4 DEF ListInv

\* A change of a list makes a list.
LEMMA ChangedType ==
  ASSUME NEW s \in Seq(Elements), NEW change \in ListChanges(Len(s))
  PROVE  Changed(s, change) \in Seq(Elements) /\ change \in AnyChange
<1>1. change \in AnyChange BY DEF ListChanges, AnyChange
<1>2. CASE change.op = "ADD"
  <2>1. change.index \in 1 .. (Len(s) + 1) /\ change.element \in Elements BY <1>2 DEF ListChanges
  <2>2. SubSeq(s, 1, change.index - 1) \in Seq(Elements) /\ SubSeq(s, change.index, Len(s)) \in Seq(Elements)
    BY <2>1
  <2>3. <<change.element>> \in Seq(Elements) BY <2>1
  <2>4. InsertAt(s, change.index, change.element) \in Seq(Elements) BY <2>2, <2>3 DEF InsertAt
  <2>. QED BY <1>1, <1>2, <2>4 DEF Changed
<1>3. CASE change.op = "UPDATE"
  <2>1. change.index \in 1 .. Len(s) /\ change.element \in Elements BY <1>3 DEF ListChanges
  <2>2. ReplaceAt(s, change.index, change.element) \in Seq(Elements) BY <2>1 DEF ReplaceAt
  <2>. QED BY <1>1, <1>3, <2>2 DEF Changed
<1>4. CASE change.op = "REMOVE"
  <2>1. change.index \in 1 .. Len(s) BY <1>4 DEF ListChanges
  <2>2. SubSeq(s, 1, change.index - 1) \in Seq(Elements) /\ SubSeq(s, change.index + 1, Len(s)) \in Seq(Elements)
    BY <2>1
  <2>3. RemoveAt(s, change.index) \in Seq(Elements) BY <2>2 DEF RemoveAt
  <2>. QED BY <1>1, <1>4, <2>3 DEF Changed
<1>. QED BY <1>1, <1>2, <1>3, <1>4 DEF AnyChange

\* A local change, and what it leaves of the wires.
LEMMA ChangeSends ==
  ASSUME ListTypeOK, NEW q \in Peers, ListChange(q)
  PROVE  \E change \in ListChanges(Len(list[q])) :
           LET p == Other(q)  m == [version |-> list_version[q], change |-> change] IN
           /\ m \in ListMessage
           /\ list' = [list EXCEPT ![q] = Changed(list[q], change)]
           /\ Changed(list[q], change) \in Seq(Elements)
           /\ listWire'[q] = listWire[q]
           /\ listWire'[p] = Append(listWire[p], m)
           /\ list_version'[p] = list_version[p] /\ list_version'[q] = list_version[q] + 1
           /\ crossed' = (crossed \/ listWire[q] # <<>>) /\ conflicts' = conflicts
           /\ ListTypeOK'
<1>. PICK change \in ListChanges(Len(list[q])) :
       /\ list' = [list EXCEPT ![q] = Changed(@, change)]
       /\ listWire' = [listWire EXCEPT ![Other(q)] =
                         Append(@, [version |-> list_version[q], change |-> change])]
  BY DEF ListChange
<1>. DEFINE p == Other(q)  m == [version |-> list_version[q], change |-> change]
<1>1. p \in Peers /\ p # q BY OtherEnds
<1>2. list[q] \in Seq(Elements) BY DEF ListTypeOK
<1>3. Changed(list[q], change) \in Seq(Elements) /\ change \in AnyChange BY <1>2, ChangedType
<1>4. m \in ListMessage BY <1>3 DEF ListMessage, ListTypeOK
<1>5. listWire'[q] = listWire[q] /\ listWire'[p] = Append(listWire[p], m) BY <1>1 DEF ListTypeOK
<1>6. listWire' \in [Peers -> Seq(ListMessage)] BY <1>1, <1>4 DEF ListTypeOK
<1>7. /\ list_version'[p] = list_version[p] /\ list_version'[q] = list_version[q] + 1
      /\ crossed' = (crossed \/ listWire[q] # <<>>) /\ conflicts' = conflicts
  BY <1>1 DEF ListChange, ListTypeOK
<1>8. ListTypeOK'
  <2>1. list' \in [Peers -> Seq(Elements)] BY <1>3 DEF ListTypeOK
  <2>2. list_version' \in [Peers -> Int] /\ listChanges' \in [Peers -> Nat]
    BY DEF ListChange, ListTypeOK
  <2>3. conflicts' \in SUBSET Peers /\ crossed' \in BOOLEAN BY DEF ListChange, ListTypeOK
  <2>. QED BY <1>6, <2>1, <2>2, <2>3 DEF ListTypeOK
<1>. QED BY <1>3, <1>4, <1>5, <1>7, <1>8

\* A change received, and what it leaves of the wires.
LEMMA ChangeArrives ==
  ASSUME ListTypeOK, NEW p \in Peers, ReceiveListChange(p)
  PROVE  LET q == Other(p)  m == Head(listWire[p]) IN
         /\ listWire[p] # <<>> /\ m \in ListMessage
         /\ listWire'[q] = listWire[q] /\ listWire'[p] = Tail(listWire[p])
         /\ list'[q] = list[q]
         /\ m.change \in ListChanges(Len(list[p])) => list'[p] = Changed(list[p], m.change)
         /\ list_version'[q] = list_version[q] /\ list_version'[p] = list_version[p] + 1
         /\ crossed' = crossed
         /\ conflicts' = IF m.version = list_version[p] THEN conflicts ELSE conflicts \cup {p}
         /\ ListTypeOK'
<1>. DEFINE q == Other(p)  m == Head(listWire[p])
<1>1. q \in Peers /\ p # q BY OtherEnds
<1>2. listWire[p] # <<>> /\ m \in ListMessage /\ Tail(listWire[p]) \in Seq(ListMessage)
  BY DEF ListTypeOK, ReceiveListChange
<1>3. /\ listWire'[q] = listWire[q] /\ listWire'[p] = Tail(listWire[p])
      /\ listWire' \in [Peers -> Seq(ListMessage)]
  BY <1>1, <1>2 DEF ListTypeOK, ReceiveListChange
<1>4. /\ list_version'[q] = list_version[q] /\ list_version'[p] = list_version[p] + 1
      /\ crossed' = crossed
      /\ conflicts' = IF m.version = list_version[p] THEN conflicts ELSE conflicts \cup {p}
  BY <1>1 DEF ListTypeOK, ReceiveListChange, Counted
<1>5. list[p] \in Seq(Elements) BY DEF ListTypeOK
<1>6. /\ list' \in [Peers -> Seq(Elements)] /\ list'[q] = list[q]
      /\ m.change \in ListChanges(Len(list[p])) => list'[p] = Changed(list[p], m.change)
  <2>1. CASE m.change \in ListChanges(Len(list[p]))
    <3>1. list' = [list EXCEPT ![p] = Changed(list[p], m.change)] BY <2>1 DEF ReceiveListChange
    <3>2. Changed(list[p], m.change) \in Seq(Elements) BY <2>1, <1>5, ChangedType
    <3>. QED BY <3>1, <3>2, <1>1 DEF ListTypeOK
  <2>2. CASE m.change \notin ListChanges(Len(list[p]))
    <3>1. PICK s \in [1 .. Len(list[p]) -> Elements] : list' = [list EXCEPT ![p] = s]
      BY <2>2 DEF ReceiveListChange
    <3>2. s \in Seq(Elements) BY <1>5
    <3>. QED BY <3>1, <3>2, <2>2, <1>1 DEF ListTypeOK
  <2>. QED BY <2>1, <2>2
<1>7. ListTypeOK' BY <1>3, <1>4, <1>6 DEF ListTypeOK, ReceiveListChange, Counted
<1>. QED BY <1>1, <1>2, <1>3, <1>4, <1>6, <1>7

\* A change of an end is counted there, and on its way to the other.
LEMMA ChangeBalances ==
  ASSUME ListTypeOK, Balanced, NEW q \in Peers, ListChange(q)
  PROVE  Balanced'
<1>. PICK p \in Peers : p = Other(q) BY OtherEnds
<1>1. q # p /\ Peers = {p, q} BY OtherEnds
<1>2. /\ listWire[p] \in Seq(ListMessage) /\ listWire[q] \in Seq(ListMessage)
      /\ list_version[p] \in Int /\ list_version[q] \in Int
  BY DEF ListTypeOK
<1>3. /\ listWire'[q] = listWire[q] /\ Len(listWire'[p]) = Len(listWire[p]) + 1
      /\ list_version'[p] = list_version[p] /\ list_version'[q] = list_version[q] + 1
  <2>1. PICK m \in ListMessage :
          /\ listWire'[q] = listWire[q] /\ listWire'[p] = Append(listWire[p], m)
          /\ list_version'[p] = list_version[p] /\ list_version'[q] = list_version[q] + 1
    BY ChangeSends
  <2>. QED BY <2>1, <1>2
<1>4. PICK n \in Nat : n = Len(listWire[p]) BY <1>2
<1>5. PICK k \in Nat : k = Len(listWire[q]) BY <1>2
<1>6. list_version[q] + k = list_version[p] + n BY <1>1, <1>4, <1>5, OtherEnds DEF Balanced, Peers
<1>7. list_version'[q] + k = list_version'[p] + (n + 1)
  <2>1. list_version[p] \in Int /\ list_version[q] \in Int BY <1>2
  <2>2. list_version'[p] = list_version[p] /\ list_version'[q] = list_version[q] + 1 BY <1>3
  <2>. QED BY <2>1, <2>2, <1>6
<1>8. Len(listWire'[q]) = k /\ Len(listWire'[p]) = n + 1 BY <1>3, <1>4, <1>5
<1>9. list_version'[q] + Len(listWire'[q]) = list_version'[p] + Len(listWire'[p]) BY <1>7, <1>8
<1>. QED BY <1>1, <1>9, OtherEnds DEF Balanced, Peers

\* Changes of an end keep what the numbers say.
LEMMA ChangeKeepsNumbers ==
  ASSUME ListInv, NEW q \in Peers, ListChange(q)
  PROVE  Balanced' /\ NoneAhead' /\ AllMet' /\ Noticed'
<1>. PICK p \in Peers : p = Other(q) BY OtherEnds
<1>1. ListTypeOK BY DEF ListInv
<1>2. PICK m \in ListMessage :
        /\ m.version = list_version[q]
        /\ listWire'[q] = listWire[q] /\ listWire'[p] = Append(listWire[p], m)
        /\ list_version'[p] = list_version[p] /\ list_version'[q] = list_version[q] + 1
        /\ crossed' = (crossed \/ listWire[q] # <<>>) /\ conflicts' = conflicts
  BY <1>1, ChangeSends
<1>3. q # p /\ Peers = {p, q} BY OtherEnds
<1>4. /\ listWire[p] \in Seq(ListMessage) /\ listWire[q] \in Seq(ListMessage)
      /\ list_version[p] \in Int /\ list_version[q] \in Int
  BY <1>1 DEF ListTypeOK
<1>. PICK n \in Nat : n = Len(listWire[p]) BY <1>4
<1>. PICK k \in Nat : k = Len(listWire[q]) BY <1>4
<1>5. list_version[q] + k = list_version[p] + n
  BY <1>3, OtherEnds DEF ListInv, Balanced, Peers
<1>6. /\ DOMAIN listWire'[p] = 1 .. (n + 1) /\ Len(listWire'[p]) = n + 1
      /\ DOMAIN listWire[p] = 1 .. n /\ listWire'[p][n + 1] = m
      /\ \A i \in 1 .. n : listWire'[p][i] = listWire[p][i]
      /\ DOMAIN listWire[q] = 1 .. k /\ (listWire[q] = <<>> <=> k = 0)
  BY <1>2, <1>4
<1>7. /\ \A i \in 1 .. n : listWire[p][i].version \in Int
      /\ \A i \in 1 .. k : listWire[q][i].version \in Int
  <2>1. /\ \A i \in 1 .. n : listWire[p][i] \in ListMessage
        /\ \A i \in 1 .. k : listWire[q][i] \in ListMessage
    BY <1>4, <1>6
  <2>. QED BY <2>1 DEF ListMessage
<1>8. Balanced' BY <1>1, ChangeBalances DEF ListInv
<1>9. NoneAhead'
  <2>1. \A i \in 1 .. n : listWire[p][i].version <= list_version[p] + i - 1
    BY <1>6 DEF ListInv, NoneAhead, Expected
  <2>2. \A i \in 1 .. k : listWire[q][i].version <= list_version[q] + i - 1
    BY <1>6 DEF ListInv, NoneAhead, Expected
  <2>3. \A i \in 1 .. (n + 1) : listWire'[p][i].version <= list_version'[p] + i - 1
    <3>1. m.version <= list_version[p] + (n + 1) - 1 BY <1>2, <1>4, <1>5
    <3>2. \A i \in 1 .. (n + 1) : i = n + 1 \/ i \in 1 .. n OBVIOUS
    <3>. QED BY <3>1, <3>2, <2>1, <1>2, <1>6
  <2>4. \A i \in 1 .. k : listWire'[q][i].version <= list_version'[q] + i - 1
    BY <2>2, <1>2, <1>4, <1>7
  <2>. QED BY <2>3, <2>4, <1>2, <1>3, <1>6 DEF NoneAhead, Expected
<1>10. AllMet'
  <2>. SUFFICES ASSUME ~crossed'
       PROVE /\ conflicts' = {}
             /\ \A r \in Peers : \A i \in DOMAIN listWire'[r] :
                  listWire'[r][i].version = Expected(r, i)'
    BY DEF AllMet
  <2>1. ~crossed /\ k = 0 BY <1>2, <1>6
  <2>2. \A i \in 1 .. n : listWire[p][i].version = list_version[p] + i - 1
    BY <2>1, <1>6 DEF ListInv, AllMet, Expected
  <2>3. \A i \in 1 .. (n + 1) : listWire'[p][i].version = list_version'[p] + i - 1
    <3>1. m.version = list_version[p] + (n + 1) - 1 BY <2>1, <1>2, <1>4, <1>5
    <3>2. \A i \in 1 .. (n + 1) : i = n + 1 \/ i \in 1 .. n OBVIOUS
    <3>. QED BY <3>1, <3>2, <2>2, <1>2, <1>6
  <2>4. DOMAIN listWire'[q] = {} BY <2>1, <1>2, <1>6
  <2>. QED BY <2>1, <2>3, <2>4, <1>2, <1>3, <1>6 DEF ListInv, AllMet, Expected
<1>11. Noticed'
  <2>1. CASE crossed /\ conflicts # {} BY <2>1, <1>2 DEF Noticed
  <2>2. CASE crossed /\ conflicts = {}
    <3>1. \/ \E i \in 1 .. n : listWire[p][i].version < list_version[p] + i - 1
          \/ \E i \in 1 .. k : listWire[q][i].version < list_version[q] + i - 1
      BY <2>2, <1>3, <1>6 DEF ListInv, Noticed, Expected
    <3>2. CASE \E i \in 1 .. n : listWire[p][i].version < list_version[p] + i - 1
      <4>1. PICK i \in 1 .. n : listWire[p][i].version < list_version[p] + i - 1 BY <3>2
      <4>2. i \in DOMAIN listWire'[p] /\ listWire'[p][i].version < list_version'[p] + i - 1
        BY <4>1, <1>2, <1>6
      <4>. QED BY <4>2 DEF Noticed, Expected
    <3>3. CASE \E i \in 1 .. k : listWire[q][i].version < list_version[q] + i - 1
      <4>1. PICK i \in 1 .. k : listWire[q][i].version < list_version[q] + i - 1 BY <3>3
      <4>2. i \in DOMAIN listWire'[q] /\ listWire'[q][i].version < list_version'[q] + i - 1
        BY <4>1, <1>2, <1>4, <1>6, <1>7
      <4>. QED BY <4>2 DEF Noticed, Expected
    <3>. QED BY <3>1, <3>2, <3>3
  <2>3. CASE ~crossed /\ k # 0
    <3>1. m.version < list_version[p] + (n + 1) - 1 BY <2>3, <1>2, <1>4, <1>5
    <3>2. n + 1 \in DOMAIN listWire'[p] /\ listWire'[p][n + 1].version < list_version'[p] + (n + 1) - 1
      BY <3>1, <1>2, <1>6
    <3>. QED BY <3>2 DEF Noticed, Expected
  <2>4. CASE ~crossed /\ k = 0 BY <2>4, <1>2, <1>6 DEF Noticed
  <2>. QED BY <2>1, <2>2, <2>3, <2>4
<1>. QED BY <1>8, <1>9, <1>10, <1>11

\* Changes that arrive keep it too: one that has crossed makes a conflict.
LEMMA ArriveKeepsNumbers ==
  ASSUME ListInv, NEW p \in Peers, ReceiveListChange(p)
  PROVE  Balanced' /\ NoneAhead' /\ AllMet' /\ Noticed'
<1>. PICK q \in Peers : q = Other(p) BY OtherEnds
<1>. PICK m : m = Head(listWire[p]) OBVIOUS
<1>1. ListTypeOK BY DEF ListInv
<1>2. /\ listWire[p] # <<>>
      /\ listWire'[q] = listWire[q] /\ listWire'[p] = Tail(listWire[p])
      /\ list_version'[q] = list_version[q] /\ list_version'[p] = list_version[p] + 1
      /\ crossed' = crossed
      /\ conflicts' = IF m.version = list_version[p] THEN conflicts ELSE conflicts \cup {p}
  BY <1>1, ChangeArrives
<1>3. q # p /\ Peers = {p, q} BY OtherEnds
<1>4. /\ listWire[p] \in Seq(ListMessage) /\ listWire[q] \in Seq(ListMessage)
      /\ list_version[p] \in Int /\ list_version[q] \in Int
  BY <1>1 DEF ListTypeOK
<1>. PICK n \in Nat : n = Len(listWire[p]) BY <1>4
<1>. PICK k \in Nat : k = Len(listWire[q]) BY <1>4
<1>5. list_version[q] + k = list_version[p] + n
  BY <1>3, OtherEnds DEF ListInv, Balanced, Peers
<1>6. /\ n > 0 /\ DOMAIN listWire[p] = 1 .. n /\ DOMAIN listWire[q] = 1 .. k
      /\ DOMAIN listWire'[p] = 1 .. (n - 1) /\ Len(listWire'[p]) = n - 1
      /\ \A i \in 1 .. (n - 1) : i + 1 \in 1 .. n /\ listWire'[p][i] = listWire[p][i + 1]
      /\ m = listWire[p][1]
  BY <1>2, <1>4
<1>7. \A i \in Int : list_version'[p] + i - 1 = list_version[p] + (i + 1) - 1 BY <1>2, <1>4
<1>8. Balanced'
  <2>1. Len(listWire'[q]) = k /\ Len(listWire'[p]) = n - 1 BY <1>2, <1>6
  <2>2. list_version'[q] + k = list_version'[p] + (n - 1) BY <1>2, <1>4, <1>5
  <2>3. list_version'[q] + Len(listWire'[q]) = list_version'[p] + Len(listWire'[p])
    BY <2>1, <2>2
  <2>. QED BY <2>3, <1>3, OtherEnds DEF Balanced, Peers
<1>9. NoneAhead'
  <2>1. \A i \in 1 .. n : listWire[p][i].version <= list_version[p] + i - 1
    BY <1>6 DEF ListInv, NoneAhead, Expected
  <2>2. \A i \in DOMAIN listWire'[q] : listWire'[q][i].version <= list_version'[q] + i - 1
    BY <1>2 DEF ListInv, NoneAhead, Expected
  <2>3. \A i \in DOMAIN listWire'[p] : listWire'[p][i].version <= list_version'[p] + i - 1
    <3>. TAKE i \in DOMAIN listWire'[p]
    <3>1. i \in Int /\ i + 1 \in 1 .. n /\ listWire'[p][i] = listWire[p][i + 1] BY <1>6
    <3>2. listWire[p][i + 1].version <= list_version[p] + (i + 1) - 1 BY <3>1, <2>1
    <3>. QED BY <3>1, <3>2, <1>7
  <2>. QED BY <2>2, <2>3, <1>3 DEF NoneAhead, Expected
<1>10. AllMet'
  <2>. SUFFICES ASSUME ~crossed
       PROVE /\ conflicts' = {}
             /\ \A r \in Peers : \A i \in DOMAIN listWire'[r] :
                  listWire'[r][i].version = Expected(r, i)'
    BY <1>2 DEF AllMet
  <2>1. \A i \in 1 .. n : listWire[p][i].version = list_version[p] + i - 1
    BY <1>6 DEF ListInv, AllMet, Expected
  <2>2. conflicts' = {}
    <3>1. m.version = list_version[p]
      <4>1. 1 \in 1 .. n /\ list_version[p] + 1 - 1 = list_version[p] BY <1>4, <1>6
      <4>. QED BY <4>1, <2>1, <1>6
    <3>. QED BY <3>1, <1>2 DEF ListInv, AllMet
  <2>3. \A i \in DOMAIN listWire'[q] : listWire'[q][i].version = list_version'[q] + i - 1
    BY <1>2 DEF ListInv, AllMet, Expected
  <2>4. \A i \in DOMAIN listWire'[p] : listWire'[p][i].version = list_version'[p] + i - 1
    <3>. TAKE i \in DOMAIN listWire'[p]
    <3>1. i \in Int /\ i + 1 \in 1 .. n /\ listWire'[p][i] = listWire[p][i + 1] BY <1>6
    <3>2. listWire[p][i + 1].version = list_version[p] + (i + 1) - 1 BY <3>1, <2>1
    <3>. QED BY <3>1, <3>2, <1>7
  <2>. QED BY <2>2, <2>3, <2>4, <1>3 DEF Expected
<1>11. Noticed'
  <2>1. CASE ~crossed BY <2>1, <1>2 DEF Noticed
  <2>2. CASE conflicts # {} BY <2>2, <1>2 DEF Noticed
  <2>3. CASE crossed /\ conflicts = {}
    <3>1. \/ \E i \in 1 .. n : listWire[p][i].version < list_version[p] + i - 1
          \/ \E i \in DOMAIN listWire[q] : listWire[q][i].version < list_version[q] + i - 1
      BY <2>3, <1>3, <1>6 DEF ListInv, Noticed, Expected
    <3>2. CASE \E i \in 1 .. n : listWire[p][i].version < list_version[p] + i - 1
      <4>1. PICK i \in 1 .. n : listWire[p][i].version < list_version[p] + i - 1 BY <3>2
      <4>2. CASE i = 1
        <5>1. list_version[p] + i - 1 = list_version[p] /\ ~(list_version[p] < list_version[p])
          BY <4>2, <1>4
        <5>2. m.version # list_version[p] BY <4>1, <4>2, <5>1, <1>6
        <5>. QED BY <5>2, <1>2 DEF Noticed
      <4>3. CASE i # 1
        <5>1. i - 1 \in 1 .. (n - 1) /\ (i - 1) + 1 = i BY <4>3
        <5>2. i - 1 \in DOMAIN listWire'[p] /\ listWire'[p][i - 1] = listWire[p][i]
          BY <5>1, <1>6
        <5>3. list_version'[p] + (i - 1) - 1 = list_version[p] + i - 1 BY <1>2, <1>4
        <5>4. listWire'[p][i - 1].version < list_version'[p] + (i - 1) - 1 BY <4>1, <5>2, <5>3
        <5>. QED BY <5>2, <5>4 DEF Noticed, Expected
      <4>. QED BY <4>2, <4>3
    <3>3. CASE \E i \in DOMAIN listWire[q] : listWire[q][i].version < list_version[q] + i - 1
      BY <3>3, <1>2 DEF Noticed, Expected
    <3>. QED BY <3>1, <3>2, <3>3
  <2>. QED BY <2>1, <2>2, <2>3
<1>. QED BY <1>8, <1>9, <1>10, <1>11

\* A change made with nothing on its way from the other end leads there too.
LEMMA ChangeLeads ==
  ASSUME ListInv, NEW q \in Peers, ListChange(q)
  PROVE  WillBeEqual'
<1>. PICK p \in Peers : p = Other(q) BY OtherEnds
<1>1. ListTypeOK BY DEF ListInv
<1>2. PICK change \in ListChanges(Len(list[q])) : \E m \in ListMessage :
        /\ m.change = change
        /\ list' = [list EXCEPT ![q] = Changed(list[q], change)]
        /\ Changed(list[q], change) \in Seq(Elements)
        /\ listWire'[q] = listWire[q] /\ listWire'[p] = Append(listWire[p], m)
        /\ crossed' = (crossed \/ listWire[q] # <<>>)
  BY <1>1, ChangeSends
<1>. PICK m \in ListMessage :
        /\ m.change = change
        /\ list' = [list EXCEPT ![q] = Changed(list[q], change)]
        /\ Changed(list[q], change) \in Seq(Elements)
        /\ listWire'[q] = listWire[q] /\ listWire'[p] = Append(listWire[p], m)
        /\ crossed' = (crossed \/ listWire[q] # <<>>)
  BY <1>2
<1>3. q # p /\ Peers = {p, q} /\ Other(p) = q BY OtherEnds
<1>. SUFFICES ASSUME ~crossed' PROVE listWire'[Other(p)] = <<>> /\ Leads(p)' BY DEF WillBeEqual
<1>4. ~crossed /\ listWire[q] = <<>> OBVIOUS
<1>5. Leads(p)
  <2>1. PICK r \in Peers : listWire[Other(r)] = <<>> /\ Leads(r) BY <1>4 DEF ListInv, WillBeEqual
  <2>2. CASE r = q
    <3>1. listWire[p] = <<>> /\ Len(listWire[q]) = 0 BY <2>1, <2>2, <1>4
    <3>2. list[p] = list[q] BY <2>1, <2>2, <3>1 DEF Leads, LeadsBy
    <3>. QED BY <3>1, <3>2, <1>1, <1>3, EqualLeads
  <2>. QED BY <2>1, <2>2, <1>3
<1>6. listWire[p] \in Seq(ListMessage) /\ list'[p] = list[p] /\ list'[q] = Changed(list[q], change)
  BY <1>1, <1>3 DEF ListTypeOK
<1>. PICK n \in Nat : n = Len(listWire[p])
  <2>1. listWire[p] \in Seq(ListMessage) BY <1>6
  <2>2. Len(listWire[p]) \in Nat BY <2>1
  <2>. QED BY <2>2
<1>. PICK h : LeadsBy(p, h) BY <1>5 DEF Leads
<1>7. /\ h \in [0 .. n -> Seq(Elements)] /\ h[0] = list[p] /\ h[n] = list[q]
      /\ \A i \in 1 .. n : /\ listWire[p][i].change \in ListChanges(Len(h[i - 1]))
                           /\ h[i] = Changed(h[i - 1], listWire[p][i].change)
  BY <1>3 DEF LeadsBy
<1>8. /\ Len(listWire'[p]) = n + 1 /\ listWire'[p][n + 1] = m
      /\ \A i \in 1 .. n : listWire'[p][i] = listWire[p][i]
  BY <1>6
<1>. PICK g : g = [i \in 0 .. (n + 1) |-> IF i = n + 1 THEN Changed(list[q], change) ELSE h[i]]
  OBVIOUS
<1>9. g \in [0 .. (n + 1) -> Seq(Elements)]
  <2>1. \A i \in 0 .. (n + 1) : i # n + 1 => i \in 0 .. n OBVIOUS
  <2>. QED BY <2>1, <1>7
<1>10. g[0] = h[0] /\ g[n + 1] = Changed(list[q], change) /\ \A i \in 0 .. n : g[i] = h[i] OBVIOUS
<1>11. \A i \in 1 .. (n + 1) : /\ listWire'[p][i].change \in ListChanges(Len(g[i - 1]))
                               /\ g[i] = Changed(g[i - 1], listWire'[p][i].change)
  <2>. TAKE i \in 1 .. (n + 1)
  <2>1. CASE i = n + 1
    <3>1. g[i - 1] = list[q] /\ g[i] = Changed(list[q], change) BY <2>1, <1>7, <1>10
    <3>. QED BY <3>1, <2>1, <1>8
  <2>2. CASE i # n + 1
    <3>1. i \in 1 .. n /\ g[i] = h[i] /\ g[i - 1] = h[i - 1] BY <2>2, <1>10
    <3>. QED BY <3>1, <1>7, <1>8
  <2>. QED BY <2>1, <2>2
<1>12. LeadsBy(p, g)' BY <1>3, <1>6, <1>7, <1>8, <1>9, <1>10, <1>11 DEF LeadsBy
<1>13. listWire'[Other(p)] = <<>> BY <1>3, <1>4
<1>. QED BY <1>12, <1>13 DEF Leads

\* A change that arrives is the first of those that lead to the other list.
LEMMA ArriveLeads ==
  ASSUME ListInv, NEW p \in Peers, ReceiveListChange(p)
  PROVE  WillBeEqual'
<1>. PICK q \in Peers : q = Other(p) BY OtherEnds
<1>. PICK m : m = Head(listWire[p]) OBVIOUS
<1>1. ListTypeOK BY DEF ListInv
<1>2. /\ listWire[p] # <<>>
      /\ listWire'[q] = listWire[q] /\ listWire'[p] = Tail(listWire[p])
      /\ list'[q] = list[q]
      /\ m.change \in ListChanges(Len(list[p])) => list'[p] = Changed(list[p], m.change)
      /\ crossed' = crossed
  BY <1>1, ChangeArrives
<1>3. q # p /\ Peers = {p, q} /\ Other(q) = p BY OtherEnds
<1>. SUFFICES ASSUME ~crossed PROVE listWire'[Other(p)] = <<>> /\ Leads(p)'
  BY <1>2 DEF WillBeEqual
<1>4. listWire[q] = <<>> /\ Leads(p)
  <2>1. PICK r \in Peers : listWire[Other(r)] = <<>> /\ Leads(r) BY DEF ListInv, WillBeEqual
  <2>. QED BY <2>1, <1>2, <1>3
<1>5. listWire[p] \in Seq(ListMessage) BY <1>1 DEF ListTypeOK
<1>. PICK n \in Nat : n = Len(listWire[p]) BY <1>5
<1>. PICK h : LeadsBy(p, h) BY <1>4 DEF Leads
<1>6. /\ h \in [0 .. n -> Seq(Elements)] /\ h[0] = list[p] /\ h[n] = list[q]
      /\ \A i \in 1 .. n : /\ listWire[p][i].change \in ListChanges(Len(h[i - 1]))
                           /\ h[i] = Changed(h[i - 1], listWire[p][i].change)
  BY DEF LeadsBy
<1>7. /\ n > 0 /\ Len(listWire'[p]) = n - 1 /\ m = listWire[p][1]
      /\ \A i \in 1 .. (n - 1) : listWire'[p][i] = listWire[p][i + 1]
  BY <1>2, <1>5
<1>. PICK g : g = [i \in 0 .. (n - 1) |-> h[i + 1]] OBVIOUS
<1>8. /\ \A i \in 0 .. (n - 1) : i + 1 \in 0 .. n /\ g[i] = h[i + 1]
      /\ g \in [0 .. (n - 1) -> Seq(Elements)]
  BY <1>6
<1>9. g[0] = list'[p]
  <2>1. 1 \in 1 .. n /\ 1 - 1 = 0 BY <1>7
  <2>2. m.change \in ListChanges(Len(h[0])) /\ h[1] = Changed(h[0], m.change)
    BY <2>1, <1>6, <1>7
  <2>3. g[0] = h[1] BY <1>7, <1>8
  <2>. QED BY <2>2, <2>3, <1>2, <1>6
<1>10. g[n - 1] = list'[q]
  <2>1. n - 1 \in 0 .. (n - 1) /\ (n - 1) + 1 = n BY <1>7
  <2>. QED BY <2>1, <1>2, <1>6, <1>8
<1>11. \A i \in 1 .. (n - 1) : /\ listWire'[p][i].change \in ListChanges(Len(g[i - 1]))
                               /\ g[i] = Changed(g[i - 1], listWire'[p][i].change)
  <2>. TAKE i \in 1 .. (n - 1)
  <2>1. i + 1 \in 1 .. n /\ (i + 1) - 1 = i /\ i \in 0 .. (n - 1) /\ i - 1 \in 0 .. (n - 1)
        /\ (i - 1) + 1 = i
    OBVIOUS
  <2>2. g[i] = h[i + 1] /\ g[i - 1] = h[i] BY <2>1, <1>8
  <2>. QED BY <2>1, <2>2, <1>6, <1>7
<1>12. LeadsBy(p, g)' BY <1>3, <1>7, <1>8, <1>9, <1>10, <1>11 DEF LeadsBy
<1>13. listWire'[Other(p)] = <<>> BY <1>2, <1>4
<1>. QED BY <1>12, <1>13 DEF Leads

\* Every step keeps the invariant.
LEMMA ListNextInv == ASSUME ListInv, [ListNext]_listVars PROVE ListInv'
<1>1. CASE ListNext
  <2>1. ASSUME NEW p \in Peers, ListChange(p) PROVE ListInv'
    <3>1. ListTypeOK' BY <2>1, ChangeSends DEF ListInv
    <3>. QED BY <2>1, <3>1, ChangeKeepsNumbers, ChangeLeads DEF ListInv
  <2>2. ASSUME NEW p \in Peers, ReceiveListChange(p) PROVE ListInv'
    <3>1. ListTypeOK' BY <2>2, ChangeArrives DEF ListInv
    <3>. QED BY <2>2, <3>1, ArriveKeepsNumbers, ArriveLeads DEF ListInv
  <2>. QED BY <1>1, <2>1, <2>2 DEF ListNext
<1>2. CASE UNCHANGED listVars
  <2>1. ListTypeOK' /\ Balanced' /\ NoneAhead' /\ AllMet' /\ Noticed'
    BY <1>2 DEF listVars, ListInv, ListTypeOK, Balanced, NoneAhead, AllMet, Noticed, Expected
  <2>2. \A p, h : LeadsBy(p, h) => LeadsBy(p, h)' BY <1>2 DEF listVars, LeadsBy
  <2>3. \A p : Leads(p) => Leads(p)' BY <2>2 DEF Leads
  <2>4. WillBeEqual' BY <1>2, <2>3 DEF listVars, ListInv, WillBeEqual
  <2>. QED BY <2>1, <2>4 DEF ListInv
<1>. QED BY <1>1, <1>2

\* The invariant holds in every state of every behaviour of the list.
THEOREM ListInvariance == ListSpec => []ListInv
BY ListInitInv, ListNextInv, PTL DEF ListSpec

\* The lists, their counts and the messages keep their types.
THEOREM ListTypeCorrect == ListSpec => []ListTypeOK
BY ListInvariance, PTL DEF ListInv

\* A conflict is reported only after changes crossed; when nothing is on its
\* way and none was reported, none crossed and the lists are equal.
THEOREM NumbersNotice == ListSpec => []ConflictIffCrossed
<1>1. ListInv => ConflictIffCrossed
  <2>. SUFFICES ASSUME ListInv PROVE ConflictIffCrossed OBVIOUS
  <2>1. conflicts # {} => crossed BY DEF ListInv, AllMet
  <2>2. ASSUME \A p \in Peers : listWire[p] = <<>>, conflicts = {}
        PROVE  ~crossed /\ list[Master] = list[Slave]
    <3>1. ~crossed BY <2>2 DEF ListInv, Noticed
    <3>2. PICK p \in Peers : Leads(p) BY <3>1 DEF ListInv, WillBeEqual
    <3>3. Len(listWire[p]) = 0 BY <2>2
    <3>4. list[p] = list[Other(p)] BY <3>2, <3>3 DEF Leads, LeadsBy
    <3>. QED BY <3>1, <3>4, OtherEnds DEF Peers
  <2>. QED BY <2>1, <2>2 DEF ConflictIffCrossed
<1>. QED BY <1>1, ListInvariance, PTL

-------------------------------------------------------------------------------

(***************************************************************************)
(* A key of the map.  While a change of it by the master is pending, the   *)
(* change or its answer is on the way, and the master takes only what the  *)
(* slave changed behind the answer.  The definitions speak of a key k, of  *)
(* what pends, of the queues ws to the slave and wm to the master, and of  *)
(* the values a at the master and b at the slave.                          *)
(***************************************************************************)
MapMessage == [op : {"put", "ACK"}, key : Keys, value : MapValues \cup {Absent}, version : Nat]
PendingEntry == [key : Keys, version : Nat, live : BOOLEAN]

MapTypeOK ==
  /\ map \in [Peers -> [Keys -> MapValues \cup {Absent}]]
  /\ next_version \in Nat
  /\ pendingForAck \in SUBSET PendingEntry
  /\ mapWire \in [Peers -> Seq(MapMessage)]
  /\ mapChanges \in [Peers -> Nat]
  /\ unguarded \in SUBSET Keys /\ ackErrors \in SUBSET Keys

\* Numbers are the master's, answers the slave's.
Numbers ==
  /\ \A i \in DOMAIN mapWire[Slave] : mapWire[Slave][i].op = "put" /\ mapWire[Slave][i].version > 0
  /\ \A i \in DOMAIN mapWire[Master] : mapWire[Master][i].op = "put" => mapWire[Master][i].version = 0

NoneAbout(k, w) == \A i \in DOMAIN w : w[i].key # k
OnlyPuts(k, w) == \A i \in DOMAIN w : w[i].key = k => w[i].op = "put"
NoEntry(k, pend) == \A e \in pend : e.key # k
TheEntry(k, pend, e) ==
  e \in pend /\ e.key = k /\ e.live /\ e.version > 0 /\ \A f \in pend : f.key = k => f = e

\* What the master will take: the last change of k behind the j-th message
\* says what the slave holds, and without one the ends agree.
Takes(k, w, j, a, b) ==
  /\ \A i \in DOMAIN w :
       i > j /\ w[i].key = k /\ (\A l \in DOMAIN w : w[l].key = k => l <= i) => w[i].value = b
  /\ (\A i \in DOMAIN w : w[i].key = k => i <= j) => a = b

\* No change by the master is pending.
NonePending(k, pend, ws, wm, a, b) ==
  NoEntry(k, pend) /\ NoneAbout(k, ws) /\ OnlyPuts(k, wm) /\ Takes(k, wm, 0, a, b)

\* The pending one is the i-th message on the way to the slave.
SentAs(k, e, i, ws, wm, a) ==
  /\ i \in DOMAIN ws /\ ws[i].key = k /\ ws[i].version = e.version /\ ws[i].value = a
  /\ \A l \in DOMAIN ws : ws[l].key = k => l = i
  /\ OnlyPuts(k, wm)

\* The slave has answered it with the j-th message on the way to the master.
AnsweredBy(k, e, j, ws, wm, a, b) ==
  /\ NoneAbout(k, ws)
  /\ j \in DOMAIN wm /\ wm[j].key = k /\ wm[j].op = "ACK" /\ wm[j].version = e.version
  /\ \A l \in DOMAIN wm : wm[l].key = k /\ l # j => wm[l].op = "put"
  /\ Takes(k, wm, j, a, b)

OnePending(k, e, pend, ws, wm, a, b) ==
  /\ TheEntry(k, pend, e) /\ a # Absent
  /\ \/ \E i \in DOMAIN ws : SentAs(k, e, i, ws, wm, a)
     \/ \E j \in DOMAIN wm : AnsweredBy(k, e, j, ws, wm, a, b)

Guarded(k, pend, ws, wm, a, b) ==
  NonePending(k, pend, ws, wm, a, b) \/ \E e \in pend : OnePending(k, e, pend, ws, wm, a, b)

KeyGuarded(k) ==
  Guarded(k, pendingForAck, mapWire[Slave], mapWire[Master], map[Master][k], map[Slave][k])

MapInv == MapTypeOK /\ Numbers /\ \A k \in Keys \ unguarded : k \notin ackErrors /\ KeyGuarded(k)

\* The invariant holds of two empty maps.
LEMMA MapInitInv == MapInit => MapInv
<1>. SUFFICES ASSUME MapInit PROVE MapInv OBVIOUS
<1>1. MapTypeOK
  <2>1. <<>> \in Seq(MapMessage) OBVIOUS
  <2>. QED BY <2>1 DEF MapInit, MapTypeOK, EmptyMap
<1>2. Numbers BY OtherEnds DEF MapInit, Numbers
<1>3. \A k \in Keys : NonePending(k, pendingForAck, mapWire[Slave], mapWire[Master], map[Master][k], map[Slave][k])
  BY OtherEnds DEF MapInit, EmptyMap, NonePending, NoEntry, NoneAbout, OnlyPuts, Takes
<1>. QED BY <1>1, <1>2, <1>3 DEF MapInv, KeyGuarded, Guarded, MapInit

\* What a message about another key does to what the master will take.
LEMMA TakesLonger ==
  ASSUME NEW w \in Seq(MapMessage), NEW m \in MapMessage, NEW k, m.key # k, NEW j \in Nat, NEW a, NEW b,
         Takes(k, w, j, a, b)
  PROVE  Takes(k, Append(w, m), j, a, b)
<1>. DEFINE W == Append(w, m)
<1>1. /\ Len(w) \in Nat /\ DOMAIN w = 1 .. Len(w) /\ DOMAIN W = 1 .. (Len(w) + 1)
      /\ \A i \in DOMAIN w : W[i] = w[i]
      /\ W[Len(w) + 1].key # k
  BY Longer
<1>. HIDE DEF W
<1>2. \A i \in DOMAIN W : W[i].key = k => i \in DOMAIN w /\ w[i].key = k /\ W[i] = w[i] BY <1>1
<1>3. \A i \in DOMAIN w : i \in DOMAIN W /\ W[i] = w[i] BY <1>1
<1>4. Takes(k, W, j, a, b) BY <1>2, <1>3 DEF Takes
<1>. QED BY <1>4 DEF W

\* A change by the slave is the last of the key.
LEMMA TakesNew ==
  ASSUME NEW w \in Seq(MapMessage), NEW m \in MapMessage, NEW k, m.key = k, NEW j \in Nat, j <= Len(w), NEW a
  PROVE  Takes(k, Append(w, m), j, a, m.value)
<1>. DEFINE W == Append(w, m)
<1>1. Len(w) \in Nat /\ DOMAIN W = 1 .. (Len(w) + 1) /\ W[Len(w) + 1] = m BY Longer
<1>. HIDE DEF W
<1>2. Len(w) + 1 \in DOMAIN W /\ Len(w) + 1 > j BY <1>1
<1>3. \A i \in DOMAIN W : (\A l \in DOMAIN W : W[l].key = k => l <= i) => i = Len(w) + 1
  BY <1>1, <1>2
<1>4. Takes(k, W, j, a, m.value) BY <1>1, <1>2, <1>3 DEF Takes
<1>. QED BY <1>4 DEF W

\* What is behind the j-th message is behind its predecessor once the first is gone.
LEMMA TakesShorter ==
  ASSUME NEW w \in Seq(MapMessage), w # <<>>, NEW k, NEW j \in Nat \ {0}, NEW a, NEW b, Takes(k, w, j, a, b)
  PROVE  Takes(k, Tail(w), j - 1, a, b)
<1>. DEFINE W == Tail(w)
<1>1. /\ Len(w) \in Nat \ {0} /\ DOMAIN w = 1 .. Len(w) /\ DOMAIN W = 1 .. (Len(w) - 1)
      /\ \A i \in DOMAIN W : W[i] = w[i + 1]
  BY Shorter
<1>. HIDE DEF W
<1>2. \A i \in DOMAIN W : i \in Int /\ i + 1 \in DOMAIN w /\ w[i + 1] = W[i] BY <1>1
<1>3. \A i \in DOMAIN w : i \in Int /\ (i > j => i - 1 \in DOMAIN W /\ W[i - 1] = w[i]) BY <1>1
<1>4. ASSUME NEW i \in DOMAIN W, i > j - 1, W[i].key = k, \A l \in DOMAIN W : W[l].key = k => l <= i
      PROVE  W[i].value = b
  <2>1. i + 1 \in DOMAIN w /\ i + 1 > j /\ w[i + 1].key = k BY <1>2, <1>4
  <2>2. ASSUME NEW l \in DOMAIN w, w[l].key = k PROVE l <= i + 1
    <3>1. CASE l <= j BY <3>1, <2>1, <1>3, <1>2
    <3>2. CASE l > j
      <4>1. l - 1 \in DOMAIN W /\ W[l - 1].key = k BY <3>2, <2>2, <1>3
      <4>2. l - 1 <= i BY <4>1, <1>4
      <4>. QED BY <4>2, <1>2, <1>3
    <3>. QED BY <3>1, <3>2, <1>3
  <2>. QED BY <2>1, <2>2, <1>2 DEF Takes
<1>5. ASSUME \A i \in DOMAIN W : W[i].key = k => i <= j - 1 PROVE a = b
  <2>1. ASSUME NEW i \in DOMAIN w, w[i].key = k, i > j PROVE FALSE
    <3>1. i - 1 \in DOMAIN W /\ W[i - 1].key = k BY <2>1, <1>3
    <3>2. i - 1 <= j - 1 BY <3>1, <1>5
    <3>. QED BY <3>2, <2>1, <1>3
  <2>. QED BY <2>1, <1>3 DEF Takes
<1>6. Takes(k, W, j - 1, a, b) BY <1>4, <1>5 DEF Takes
<1>. QED BY <1>6 DEF W

\* A message the master takes: one about k gives it the value.
LEMMA TakesFirst ==
  ASSUME NEW w \in Seq(MapMessage), w # <<>>, NEW k, NEW a, NEW b, Takes(k, w, 0, a, b)
  PROVE  Takes(k, Tail(w), 0, IF Head(w).key = k THEN Head(w).value ELSE a, b)
<1>. DEFINE W == Tail(w)  c == IF Head(w).key = k THEN Head(w).value ELSE a
<1>1. /\ Len(w) \in Nat \ {0} /\ DOMAIN w = 1 .. Len(w) /\ DOMAIN W = 1 .. (Len(w) - 1)
      /\ \A i \in DOMAIN W : W[i] = w[i + 1]
      /\ Head(w) = w[1]
  BY Shorter
<1>. HIDE DEF W
<1>2. \A i \in DOMAIN W : i \in Int /\ i > 0 /\ i + 1 \in DOMAIN w /\ w[i + 1] = W[i] BY <1>1
<1>3. \A i \in DOMAIN w : i \in Int /\ i > 0 /\ (i # 1 => i - 1 \in DOMAIN W /\ W[i - 1] = w[i]) BY <1>1
<1>4. ASSUME NEW i \in DOMAIN W, W[i].key = k, \A l \in DOMAIN W : W[l].key = k => l <= i
      PROVE  W[i].value = b
  <2>1. i + 1 \in DOMAIN w /\ i + 1 > 0 /\ w[i + 1].key = k BY <1>2, <1>4
  <2>2. ASSUME NEW l \in DOMAIN w, w[l].key = k PROVE l <= i + 1
    <3>1. CASE l = 1 BY <3>1, <1>2
    <3>2. CASE l # 1
      <4>1. l - 1 \in DOMAIN W /\ W[l - 1].key = k BY <3>2, <2>2, <1>3
      <4>2. l - 1 <= i BY <4>1, <1>4
      <4>. QED BY <4>2, <1>2, <1>3
    <3>. QED BY <3>1, <3>2
  <2>. QED BY <2>1, <2>2, <1>2 DEF Takes
<1>5. ASSUME \A i \in DOMAIN W : W[i].key = k => i <= 0 PROVE c = b
  <2>1. ASSUME NEW i \in DOMAIN w, w[i].key = k PROVE i = 1
    <3>1. ASSUME i # 1 PROVE FALSE
      <4>1. i - 1 \in DOMAIN W /\ W[i - 1].key = k BY <3>1, <2>1, <1>3
      <4>. QED BY <4>1, <1>5, <1>2
    <3>. QED BY <3>1
  <2>2. CASE w[1].key = k
    <3>1. 1 \in DOMAIN w /\ 1 > 0 /\ \A l \in DOMAIN w : w[l].key = k => l <= 1 BY <1>1, <2>1
    <3>2. w[1].value = b BY <3>1, <2>2 DEF Takes
    <3>. QED BY <3>2, <2>2, <1>1
  <2>3. CASE w[1].key # k
    <3>1. \A i \in DOMAIN w : w[i].key # k BY <2>1, <2>3
    <3>2. a = b BY <3>1 DEF Takes
    <3>. QED BY <3>2, <2>3, <1>1
  <2>. QED BY <2>2, <2>3
<1>6. Takes(k, W, 0, c, b) BY <1>4, <1>5 DEF Takes
<1>. QED BY <1>6 DEF W

\* Which messages about k a longer and a shorter queue have.
LEMMA AboutLonger ==
  ASSUME NEW w \in Seq(MapMessage), NEW m \in MapMessage, NEW k, m.key # k
  PROVE  /\ \A i \in DOMAIN w : i \in DOMAIN Append(w, m) /\ Append(w, m)[i] = w[i]
         /\ \A i \in DOMAIN Append(w, m) : Append(w, m)[i].key = k => i \in DOMAIN w /\ Append(w, m)[i] = w[i]
<1>. DEFINE W == Append(w, m)
<1>1. /\ Len(w) \in Nat /\ DOMAIN w = 1 .. Len(w) /\ DOMAIN W = 1 .. (Len(w) + 1)
      /\ \A i \in DOMAIN w : W[i] = w[i]
      /\ W[Len(w) + 1].key # k
  BY Longer
<1>. HIDE DEF W
<1>2. \A i \in DOMAIN w : i \in DOMAIN W BY <1>1
<1>3. \A i \in DOMAIN W : W[i].key = k => i \in DOMAIN w /\ W[i] = w[i] BY <1>1
<1>. QED BY <1>1, <1>2, <1>3 DEF W

\* The same when the first of a queue is taken.
LEMMA AboutShorter ==
  ASSUME NEW w \in Seq(MapMessage), w # <<>>
  PROVE  /\ \A i \in DOMAIN w : i \in Int /\ (i # 1 => i - 1 \in DOMAIN Tail(w) /\ Tail(w)[i - 1] = w[i])
         /\ \A i \in DOMAIN Tail(w) : i \in Int /\ i + 1 \in DOMAIN w /\ i + 1 # 1 /\ Tail(w)[i] = w[i + 1]
         /\ 1 \in DOMAIN w /\ Head(w) = w[1] /\ Head(w) \in MapMessage /\ Tail(w) \in Seq(MapMessage)
<1>. DEFINE W == Tail(w)
<1>1. /\ Len(w) \in Nat \ {0} /\ DOMAIN w = 1 .. Len(w) /\ DOMAIN W = 1 .. (Len(w) - 1)
      /\ \A i \in DOMAIN W : W[i] = w[i + 1]
      /\ Head(w) = w[1] /\ Head(w) \in MapMessage /\ W \in Seq(MapMessage)
  BY Shorter
<1>. HIDE DEF W
<1>2. \A i \in DOMAIN W : i \in Int /\ i + 1 \in DOMAIN w /\ i + 1 # 1 /\ W[i] = w[i + 1] BY <1>1
<1>3. \A i \in DOMAIN w : i \in Int /\ (i # 1 => i - 1 \in DOMAIN W /\ W[i - 1] = w[i]) BY <1>1
<1>. QED BY <1>1, <1>2, <1>3 DEF W

\* A key stays guarded when messages about others are put on the queues or
\* taken from them, and when entries of others change.
LEMMA OtherToSlave ==
  ASSUME NEW pend, NEW ws \in Seq(MapMessage), NEW wm \in Seq(MapMessage), NEW k, NEW a, NEW b,
         NEW m \in MapMessage, m.key # k, Guarded(k, pend, ws, wm, a, b)
  PROVE  Guarded(k, pend, Append(ws, m), wm, a, b)
<1>. DEFINE W == Append(ws, m)
<1>1. /\ \A i \in DOMAIN ws : i \in DOMAIN W /\ W[i] = ws[i]
      /\ \A i \in DOMAIN W : W[i].key = k => i \in DOMAIN ws /\ W[i] = ws[i]
  BY AboutLonger
<1>. HIDE DEF W
<1>2. NoneAbout(k, ws) => NoneAbout(k, W) BY <1>1 DEF NoneAbout
<1>3. ASSUME NEW e, NEW i \in DOMAIN ws, SentAs(k, e, i, ws, wm, a)
      PROVE  i \in DOMAIN W /\ SentAs(k, e, i, W, wm, a)
  BY <1>1, <1>3 DEF SentAs
<1>4. CASE NonePending(k, pend, ws, wm, a, b)
  BY <1>2, <1>4 DEF NonePending, Guarded, W
<1>5. ASSUME NEW e \in pend, OnePending(k, e, pend, ws, wm, a, b) PROVE OnePending(k, e, pend, W, wm, a, b)
  BY <1>2, <1>3, <1>5 DEF OnePending, AnsweredBy
<1>. QED BY <1>4, <1>5 DEF Guarded, W

\* The same when the slave sends a change of another key.
LEMMA OtherFromSlave ==
  ASSUME NEW pend, NEW ws \in Seq(MapMessage), NEW wm \in Seq(MapMessage), NEW k, NEW a, NEW b,
         NEW m \in MapMessage, m.key # k, Guarded(k, pend, ws, wm, a, b)
  PROVE  Guarded(k, pend, ws, Append(wm, m), a, b)
<1>. DEFINE W == Append(wm, m)
<1>1. /\ \A i \in DOMAIN wm : i \in DOMAIN W /\ W[i] = wm[i]
      /\ \A i \in DOMAIN W : W[i].key = k => i \in DOMAIN wm /\ W[i] = wm[i]
  BY AboutLonger
<1>2. \A j \in Nat : Takes(k, wm, j, a, b) => Takes(k, W, j, a, b) BY TakesLonger
<1>3. DOMAIN wm \subseteq Nat BY Longer
<1>. HIDE DEF W
<1>4. OnlyPuts(k, wm) => OnlyPuts(k, W) BY <1>1 DEF OnlyPuts
<1>5. CASE NonePending(k, pend, ws, wm, a, b)
  BY <1>2, <1>4, <1>5 DEF NonePending, Guarded, W
<1>6. ASSUME NEW e, NEW j \in DOMAIN wm, AnsweredBy(k, e, j, ws, wm, a, b)
      PROVE  j \in DOMAIN W /\ AnsweredBy(k, e, j, ws, W, a, b)
  BY <1>1, <1>2, <1>3, <1>6 DEF AnsweredBy
<1>7. ASSUME NEW e \in pend, OnePending(k, e, pend, ws, wm, a, b) PROVE OnePending(k, e, pend, ws, W, a, b)
  BY <1>4, <1>6, <1>7 DEF OnePending, SentAs
<1>. QED BY <1>5, <1>7 DEF Guarded, W

\* The same when the master takes a change of another key.
LEMMA OtherByMaster ==
  ASSUME NEW pend, NEW ws \in Seq(MapMessage), NEW wm \in Seq(MapMessage), NEW k, NEW a, NEW b,
         wm # <<>>, Head(wm).key # k, Guarded(k, pend, ws, wm, a, b)
  PROVE  Guarded(k, pend, ws, Tail(wm), a, b)
<1>. DEFINE W == Tail(wm)
<1>1. /\ \A i \in DOMAIN wm : i \in Int /\ (i # 1 => i - 1 \in DOMAIN W /\ W[i - 1] = wm[i])
      /\ \A i \in DOMAIN W : i \in Int /\ i + 1 \in DOMAIN wm /\ i + 1 # 1 /\ W[i] = wm[i + 1]
      /\ Head(wm) = wm[1]
  BY AboutShorter
<1>2. /\ Takes(k, wm, 0, a, b) => Takes(k, W, 0, a, b)
      /\ \A j \in Nat \ {0} : Takes(k, wm, j, a, b) => Takes(k, W, j - 1, a, b)
  BY TakesFirst, TakesShorter
<1>3. DOMAIN wm \subseteq Nat \ {0} BY Shorter
<1>. HIDE DEF W
<1>4. ASSUME OnlyPuts(k, wm) PROVE OnlyPuts(k, W)
  <2>1. \A i \in DOMAIN W : i + 1 \in DOMAIN wm /\ W[i] = wm[i + 1] BY <1>1
  <2>. QED BY <2>1, <1>4 DEF OnlyPuts
<1>5. CASE NonePending(k, pend, ws, wm, a, b)
  BY <1>2, <1>4, <1>5 DEF NonePending, Guarded, W
<1>6. ASSUME NEW e, NEW j \in DOMAIN wm, AnsweredBy(k, e, j, ws, wm, a, b)
      PROVE  j - 1 \in DOMAIN W /\ AnsweredBy(k, e, j - 1, ws, W, a, b)
  <2>1. j # 1 BY <1>1, <1>6 DEF AnsweredBy
  <2>2. j - 1 \in DOMAIN W /\ W[j - 1] = wm[j] BY <2>1, <1>1
  <2>3. \A l \in DOMAIN W : W[l].key = k /\ l # j - 1 => W[l].op = "put"
    <3>. SUFFICES ASSUME NEW l \in DOMAIN W, W[l].key = k, l # j - 1 PROVE W[l].op = "put" OBVIOUS
    <3>1. l + 1 \in DOMAIN wm /\ l + 1 # j /\ wm[l + 1] = W[l] BY <1>1
    <3>. QED BY <3>1, <1>6 DEF AnsweredBy
  <2>4. Takes(k, W, j - 1, a, b) BY <1>2, <1>3, <1>6 DEF AnsweredBy
  <2>. QED BY <2>2, <2>3, <2>4, <1>6 DEF AnsweredBy
<1>7. ASSUME NEW e \in pend, OnePending(k, e, pend, ws, wm, a, b) PROVE OnePending(k, e, pend, ws, W, a, b)
  BY <1>4, <1>6, <1>7 DEF OnePending, SentAs
<1>. QED BY <1>5, <1>7 DEF Guarded, W

\* The same when the slave takes a message about another key.
LEMMA OtherBySlave ==
  ASSUME NEW pend, NEW ws \in Seq(MapMessage), NEW wm \in Seq(MapMessage), NEW k, NEW a, NEW b,
         ws # <<>>, Head(ws).key # k, Guarded(k, pend, ws, wm, a, b)
  PROVE  Guarded(k, pend, Tail(ws), wm, a, b)
<1>. DEFINE W == Tail(ws)
<1>1. /\ \A i \in DOMAIN ws : i \in Int /\ (i # 1 => i - 1 \in DOMAIN W /\ W[i - 1] = ws[i])
      /\ \A i \in DOMAIN W : i \in Int /\ i + 1 \in DOMAIN ws /\ i + 1 # 1 /\ W[i] = ws[i + 1]
      /\ Head(ws) = ws[1]
  BY AboutShorter
<1>. HIDE DEF W
<1>2. NoneAbout(k, ws) => NoneAbout(k, W) BY <1>1 DEF NoneAbout
<1>3. ASSUME NEW e, NEW i \in DOMAIN ws, SentAs(k, e, i, ws, wm, a)
      PROVE  i - 1 \in DOMAIN W /\ SentAs(k, e, i - 1, W, wm, a)
  <2>1. i # 1 BY <1>1, <1>3 DEF SentAs
  <2>2. i - 1 \in DOMAIN W /\ W[i - 1] = ws[i] BY <2>1, <1>1
  <2>3. \A l \in DOMAIN W : W[l].key = k => l = i - 1
    <3>. SUFFICES ASSUME NEW l \in DOMAIN W, W[l].key = k PROVE l = i - 1 OBVIOUS
    <3>1. l + 1 = i BY <1>1, <1>3 DEF SentAs
    <3>. QED BY <3>1, <1>1
  <2>. QED BY <2>2, <2>3, <1>3 DEF SentAs
<1>4. CASE NonePending(k, pend, ws, wm, a, b)
  BY <1>2, <1>4 DEF NonePending, Guarded, W
<1>5. ASSUME NEW e \in pend, OnePending(k, e, pend, ws, wm, a, b) PROVE OnePending(k, e, pend, W, wm, a, b)
  BY <1>2, <1>3, <1>5 DEF OnePending, AnsweredBy
<1>. QED BY <1>4, <1>5 DEF Guarded, W

\* The same when only entries of other keys come and go.
LEMMA OtherEntries ==
  ASSUME NEW pend, NEW pend2, NEW ws, NEW wm, NEW k, NEW a, NEW b,
         \A e \in pend : e.key = k => e \in pend2, \A e \in pend2 : e.key = k => e \in pend,
         Guarded(k, pend, ws, wm, a, b)
  PROVE  Guarded(k, pend2, ws, wm, a, b)
<1>1. NoEntry(k, pend) => NoEntry(k, pend2) BY DEF NoEntry
<1>2. CASE NonePending(k, pend, ws, wm, a, b) BY <1>1, <1>2 DEF NonePending, Guarded
<1>3. ASSUME NEW e \in pend, OnePending(k, e, pend, ws, wm, a, b)
      PROVE  e \in pend2 /\ OnePending(k, e, pend2, ws, wm, a, b)
  BY <1>3 DEF OnePending, TheEntry
<1>. QED BY <1>2, <1>3 DEF Guarded

\* The slave changes the key: what it holds is the last the master gets.
LEMMA SlaveChanges ==
  ASSUME NEW pend, NEW ws \in Seq(MapMessage), NEW wm \in Seq(MapMessage), NEW k, NEW a, NEW b,
         NEW m \in MapMessage, m.key = k, m.op = "put", Guarded(k, pend, ws, wm, a, b)
  PROVE  Guarded(k, pend, ws, Append(wm, m), a, m.value)
<1>. DEFINE W == Append(wm, m)
<1>1. /\ Len(wm) \in Nat /\ DOMAIN wm = 1 .. Len(wm) /\ DOMAIN W = 1 .. (Len(wm) + 1)
      /\ \A i \in DOMAIN wm : W[i] = wm[i]
      /\ W[Len(wm) + 1] = m
  BY Longer
<1>2. \A j \in Nat : j <= Len(wm) => Takes(k, W, j, a, m.value) BY TakesNew
<1>. HIDE DEF W
<1>3. OnlyPuts(k, wm) => OnlyPuts(k, W) BY <1>1 DEF OnlyPuts
<1>4. CASE NonePending(k, pend, ws, wm, a, b)
  BY <1>1, <1>2, <1>3, <1>4 DEF NonePending, Guarded, W
<1>5. ASSUME NEW e, NEW j \in DOMAIN wm, AnsweredBy(k, e, j, ws, wm, a, b)
      PROVE  j \in DOMAIN W /\ AnsweredBy(k, e, j, ws, W, a, m.value)
  <2>1. j \in DOMAIN W /\ W[j] = wm[j] /\ j \in Nat /\ j <= Len(wm) BY <1>1
  <2>2. \A l \in DOMAIN W : W[l].key = k /\ l # j => W[l].op = "put" BY <1>1, <1>5 DEF AnsweredBy
  <2>. QED BY <2>1, <2>2, <1>2, <1>5 DEF AnsweredBy
<1>6. ASSUME NEW e \in pend, OnePending(k, e, pend, ws, wm, a, b)
      PROVE  OnePending(k, e, pend, ws, W, a, m.value)
  BY <1>3, <1>5, <1>6 DEF OnePending, SentAs
<1>. QED BY <1>4, <1>6 DEF Guarded, W

\* The master changes the key when none is pending.
LEMMA MasterChanges ==
  ASSUME NEW pend, NEW pend2, NEW ws \in Seq(MapMessage), NEW wm, NEW k, NEW a, NEW b,
         NEW m \in MapMessage, m.key = k, m.value # Absent, NEW e, TheEntry(k, pend2, e), e.version = m.version,
         NonePending(k, pend, ws, wm, a, b)
  PROVE  Guarded(k, pend2, Append(ws, m), wm, m.value, b)
<1>. DEFINE W == Append(ws, m)
<1>1. /\ Len(ws) \in Nat /\ DOMAIN ws = 1 .. Len(ws) /\ DOMAIN W = 1 .. (Len(ws) + 1)
      /\ \A i \in DOMAIN ws : W[i] = ws[i]
      /\ W[Len(ws) + 1] = m
  BY Longer
<1>. HIDE DEF W
<1>2. Len(ws) + 1 \in DOMAIN W BY <1>1
<1>3. \A l \in DOMAIN W : W[l].key = k => l = Len(ws) + 1 BY <1>1 DEF NonePending, NoneAbout
<1>4. SentAs(k, e, Len(ws) + 1, W, wm, m.value) BY <1>1, <1>2, <1>3 DEF SentAs, NonePending
<1>. QED BY <1>2, <1>4 DEF Guarded, OnePending, TheEntry, W

\* The slave takes a change of the key and answers it.
LEMMA SlaveTakes ==
  ASSUME NEW pend, NEW ws \in Seq(MapMessage), NEW wm \in Seq(MapMessage), NEW k, NEW a, NEW b,
         ws # <<>>, Head(ws).key = k, NEW m \in MapMessage, m.op = "ACK", m.key = k, m.version = Head(ws).version,
         Guarded(k, pend, ws, wm, a, b)
  PROVE  Guarded(k, pend, Tail(ws), Append(wm, m), a, Head(ws).value)
<1>. DEFINE V == Tail(ws)  W == Append(wm, m)  n == Len(wm) + 1
<1>1. /\ \A i \in DOMAIN V : i \in Int /\ i + 1 \in DOMAIN ws /\ i + 1 # 1 /\ V[i] = ws[i + 1]
      /\ Head(ws) = ws[1] /\ 1 \in DOMAIN ws
  BY AboutShorter
<1>2. n \in Nat /\ n \in DOMAIN W /\ W[n] = m /\ \A l \in DOMAIN W : l # n => l \in DOMAIN wm /\ W[l] = wm[l]
  <2>1. /\ Len(wm) \in Nat /\ DOMAIN wm = 1 .. Len(wm) /\ DOMAIN W = 1 .. (Len(wm) + 1)
        /\ \A i \in DOMAIN wm : W[i] = wm[i]
        /\ W[Len(wm) + 1] = m
    BY Longer
  <2>. HIDE DEF W
  <2>2. n \in Nat /\ n \in DOMAIN W /\ W[n] = m BY <2>1
  <2>3. \A l \in DOMAIN W : l # n => l \in DOMAIN wm /\ W[l] = wm[l] BY <2>1
  <2>. QED BY <2>2, <2>3
<1>3. \A i \in DOMAIN W : i \in Nat /\ i <= n BY Longer
<1>. HIDE DEF V, W, n
<1>4. ~NonePending(k, pend, ws, wm, a, b) BY <1>1 DEF NonePending, NoneAbout
<1>5. ASSUME NEW e \in pend, OnePending(k, e, pend, ws, wm, a, b)
      PROVE  OnePending(k, e, pend, V, W, a, Head(ws).value)
  <2>1. PICK i \in DOMAIN ws : SentAs(k, e, i, ws, wm, a)
    BY <1>1, <1>5 DEF OnePending, AnsweredBy, NoneAbout
  <2>2. i = 1 /\ Head(ws).value = a /\ m.version = e.version BY <2>1, <1>1 DEF SentAs
  <2>3. NoneAbout(k, V) BY <2>1, <2>2, <1>1 DEF NoneAbout, SentAs
  <2>4. \A l \in DOMAIN W : W[l].key = k /\ l # n => W[l].op = "put" BY <2>1, <1>2 DEF SentAs, OnlyPuts
  <2>5. Takes(k, W, n, a, a) BY <1>2, <1>3 DEF Takes
  <2>6. AnsweredBy(k, e, n, V, W, a, Head(ws).value) BY <2>2, <2>3, <2>4, <2>5, <1>2 DEF AnsweredBy
  <2>. QED BY <2>6, <1>2, <1>5 DEF OnePending
<1>. QED BY <1>4, <1>5 DEF Guarded, V, W

\* The master gets a change of the key: it takes it if none of its own is
\* pending.
LEMMA MasterGets ==
  ASSUME NEW pend, NEW ws \in Seq(MapMessage), NEW wm \in Seq(MapMessage), NEW k, NEW a, NEW b,
         wm # <<>>, Head(wm).key = k, Head(wm).op = "put", Guarded(k, pend, ws, wm, a, b)
  PROVE  /\ NoEntry(k, pend) => Guarded(k, pend, ws, Tail(wm), Head(wm).value, b)
         /\ ~NoEntry(k, pend) => a # Absent /\ Guarded(k, pend, ws, Tail(wm), a, b)
<1>. DEFINE W == Tail(wm)
<1>1. /\ \A i \in DOMAIN wm : i \in Int /\ (i # 1 => i - 1 \in DOMAIN W /\ W[i - 1] = wm[i])
      /\ \A i \in DOMAIN W : i \in Int /\ i + 1 \in DOMAIN wm /\ i + 1 # 1 /\ W[i] = wm[i + 1]
      /\ Head(wm) = wm[1]
  BY AboutShorter
<1>2. /\ Takes(k, wm, 0, a, b) => Takes(k, W, 0, Head(wm).value, b)
      /\ \A j \in Nat \ {0} : Takes(k, wm, j, a, b) => Takes(k, W, j - 1, a, b)
  BY TakesFirst, TakesShorter
<1>3. DOMAIN wm \subseteq Nat \ {0} BY Shorter
<1>. HIDE DEF W
<1>4. ASSUME OnlyPuts(k, wm) PROVE OnlyPuts(k, W)
  <2>1. \A i \in DOMAIN W : i + 1 \in DOMAIN wm /\ W[i] = wm[i + 1] BY <1>1
  <2>. QED BY <2>1, <1>4 DEF OnlyPuts
<1>5. CASE NonePending(k, pend, ws, wm, a, b)
  BY <1>2, <1>4, <1>5 DEF NonePending, Guarded, W
<1>6. ASSUME NEW e, NEW j \in DOMAIN wm, AnsweredBy(k, e, j, ws, wm, a, b)
      PROVE  j - 1 \in DOMAIN W /\ AnsweredBy(k, e, j - 1, ws, W, a, b)
  <2>1. j # 1 BY <1>1, <1>6 DEF AnsweredBy
  <2>2. j - 1 \in DOMAIN W /\ W[j - 1] = wm[j] BY <2>1, <1>1
  <2>3. \A l \in DOMAIN W : W[l].key = k /\ l # j - 1 => W[l].op = "put"
    <3>. SUFFICES ASSUME NEW l \in DOMAIN W, W[l].key = k, l # j - 1 PROVE W[l].op = "put" OBVIOUS
    <3>1. l + 1 \in DOMAIN wm /\ l + 1 # j /\ wm[l + 1] = W[l] BY <1>1
    <3>. QED BY <3>1, <1>6 DEF AnsweredBy
  <2>4. Takes(k, W, j - 1, a, b) BY <1>2, <1>3, <1>6 DEF AnsweredBy
  <2>. QED BY <2>2, <2>3, <2>4, <1>6 DEF AnsweredBy
<1>7. ASSUME NEW e \in pend, OnePending(k, e, pend, ws, wm, a, b)
      PROVE  ~NoEntry(k, pend) /\ a # Absent /\ OnePending(k, e, pend, ws, W, a, b)
  BY <1>4, <1>6, <1>7 DEF OnePending, SentAs, NoEntry, TheEntry
<1>8. NonePending(k, pend, ws, wm, a, b) => NoEntry(k, pend) BY DEF NonePending
<1>. QED BY <1>5, <1>7, <1>8 DEF Guarded, W

\* The master gets an answer: it is that of the pending change.
LEMMA MasterAnswered ==
  ASSUME NEW pend, NEW ws \in Seq(MapMessage), NEW wm \in Seq(MapMessage), NEW k, NEW a, NEW b,
         wm # <<>>, Head(wm).key = k, Head(wm).op = "ACK", Guarded(k, pend, ws, wm, a, b)
  PROVE  \E e \in pend : /\ TheEntry(k, pend, e) /\ e.version = Head(wm).version
                         /\ Guarded(k, pend \ {e}, ws, Tail(wm), a, b)
<1>. DEFINE W == Tail(wm)
<1>1. /\ \A i \in DOMAIN W : i \in Int /\ i + 1 \in DOMAIN wm /\ i + 1 # 1 /\ W[i] = wm[i + 1]
      /\ Head(wm) = wm[1] /\ 1 \in DOMAIN wm
  BY AboutShorter
<1>2. Takes(k, wm, 1, a, b) => Takes(k, W, 0, a, b) BY TakesShorter
<1>. HIDE DEF W
<1>3. ~OnlyPuts(k, wm) BY <1>1 DEF OnlyPuts
<1>4. PICK e \in pend : OnePending(k, e, pend, ws, wm, a, b) BY <1>3 DEF Guarded, NonePending
<1>5. PICK j \in DOMAIN wm : AnsweredBy(k, e, j, ws, wm, a, b) BY <1>3, <1>4 DEF OnePending, SentAs
<1>6. j = 1 BY <1>1, <1>5 DEF AnsweredBy
<1>7. e.version = Head(wm).version /\ Takes(k, W, 0, a, b) /\ NoneAbout(k, ws)
  BY <1>1, <1>2, <1>5, <1>6 DEF AnsweredBy
<1>8. OnlyPuts(k, W) BY <1>1, <1>5, <1>6 DEF AnsweredBy, OnlyPuts
<1>9. TheEntry(k, pend, e) /\ NoEntry(k, pend \ {e}) BY <1>4 DEF OnePending, TheEntry, NoEntry
<1>10. Guarded(k, pend \ {e}, ws, W, a, b) BY <1>7, <1>8, <1>9 DEF Guarded, NonePending
<1>. QED BY <1>7, <1>9, <1>10 DEF W

\* Every step keeps the types.
LEMMA MapStepTyped == ASSUME MapTypeOK, MapNext PROVE MapTypeOK'
<1>1. ASSUME NEW p \in Peers, NEW k \in Keys, NEW v \in MapValues \cup {Absent}, MapChange(p, k, v)
      PROVE  MapTypeOK'
  <2>1. \A n \in Nat : [op |-> "put", key |-> k, value |-> v, version |-> n] \in MapMessage BY DEF MapMessage
  <2>2. Other(p) \in Peers BY OtherEnds
  <2>3. mapWire' \in [Peers -> Seq(MapMessage)]
    <3>1. (IF is_master(p) THEN next_version + 1 ELSE 0) \in Nat BY DEF MapTypeOK
    <3>. QED BY <1>1, <2>1, <2>2, <3>1 DEF MapTypeOK, MapChange
  <2>4. pendingForAck' \in SUBSET PendingEntry /\ next_version' \in Nat /\ unguarded' \in SUBSET Keys
    <3>1. CASE is_master(p)
      <4>1. PICK found \in Lookup(k) : Pending(k, v # Absent, found) BY <1>1, <3>1 DEF MapChange
      <4>2. \A e \in pendingForAck : [e EXCEPT !.live = @ /\ (v # Absent \/ e.key # k)] \in PendingEntry
        BY DEF MapTypeOK, PendingEntry
      <4>3. [key |-> k, version |-> next_version + 1, live |-> v # Absent] \in PendingEntry
        BY DEF MapTypeOK, PendingEntry
      <4>4. pendingForAck' \in SUBSET PendingEntry BY <4>1, <4>2, <4>3 DEF Pending
      <4>. QED BY <1>1, <3>1, <4>4 DEF MapChange, MapTypeOK
    <3>2. CASE ~is_master(p) BY <1>1, <3>2 DEF MapChange, MapTypeOK
    <3>. QED BY <3>1, <3>2
  <2>5. map' \in [Peers -> [Keys -> MapValues \cup {Absent}]] BY <1>1 DEF MapTypeOK, MapChange
  <2>. QED BY <1>1, <2>3, <2>4, <2>5 DEF MapTypeOK, MapChange
<1>2. ASSUME NEW p \in Peers, ReceiveChange(p) PROVE MapTypeOK'
  <2>1. mapWire[p] \in Seq(MapMessage) /\ mapWire[p] # <<>> BY <1>2 DEF MapTypeOK, ReceiveChange
  <2>2. PICK m \in MapMessage : m = Head(mapWire[p]) BY <2>1, Shorter
  <2>3. /\ Tail(mapWire[p]) \in Seq(MapMessage) /\ m.key \in Keys /\ m.value \in MapValues \cup {Absent}
        /\ Acknowledgement(m) \in MapMessage
    BY <2>1, Shorter DEF Acknowledgement, MapMessage
  <2>4. Other(p) \in Peers /\ Other(p) # p BY OtherEnds
  <2>5. mapWire' \in [Peers -> Seq(MapMessage)]
    <3>1. CASE m.version = 0 BY <1>2, <2>2, <2>3, <3>1 DEF MapTypeOK, ReceiveChange
    <3>2. CASE m.version # 0
      <4>1. mapWire' = [mapWire EXCEPT ![p] = Tail(@), ![Other(p)] = Append(@, Acknowledgement(m))]
        BY <1>2, <2>2, <3>2 DEF ReceiveChange
      <4>2. Append(mapWire[Other(p)], Acknowledgement(m)) \in Seq(MapMessage)
        BY <2>3, <2>4, Longer DEF MapTypeOK
      <4>. QED BY <4>1, <4>2, <2>3, <2>4 DEF MapTypeOK
    <3>. QED BY <3>1, <3>2
  <2>6. map' \in [Peers -> [Keys -> MapValues \cup {Absent}]] BY <1>2, <2>2, <2>3 DEF MapTypeOK, ReceiveChange
  <2>7. pendingForAck' \in SUBSET PendingEntry
    <3>1. \A e \in pendingForAck : [e EXCEPT !.live = @ /\ e.key # m.key] \in PendingEntry
      BY DEF MapTypeOK, PendingEntry
    <3>2. \/ pendingForAck' = pendingForAck
          \/ pendingForAck' = {[e EXCEPT !.live = @ /\ e.key # m.key] : e \in pendingForAck}
      BY <1>2, <2>2 DEF ReceiveChange
    <3>. QED BY <3>1, <3>2 DEF MapTypeOK
  <2>. QED BY <1>2, <2>5, <2>6, <2>7 DEF MapTypeOK, ReceiveChange
<1>3. ASSUME ReceiveAck PROVE MapTypeOK'
  <2>1. mapWire[Master] \in Seq(MapMessage) /\ mapWire[Master] # <<>> BY <1>3, OtherEnds DEF MapTypeOK, ReceiveAck
  <2>2. PICK m \in MapMessage : m = Head(mapWire[Master]) BY <2>1, Shorter
  <2>3. Tail(mapWire[Master]) \in Seq(MapMessage) /\ m.key \in Keys BY <2>1, Shorter DEF MapMessage
  <2>. QED BY <1>3, <2>2, <2>3 DEF MapTypeOK, ReceiveAck
<1>. QED BY <1>1, <1>2, <1>3 DEF MapNext

\* What a lookup of a guarded key finds: its only entry, or none.
LEMMA Found ==
  ASSUME NEW k, NEW found \in Lookup(k)
  PROVE  /\ found \subseteq {e \in pendingForAck : e.key = k}
         /\ NoEntry(k, pendingForAck) => found = {}
         /\ \A e : TheEntry(k, pendingForAck, e) => found = {e}
<1>1. found \subseteq {e \in pendingForAck : e.key = k} BY DEF Lookup
<1>2. NoEntry(k, pendingForAck) => found = {} BY <1>1 DEF NoEntry
<1>3. ASSUME NEW e, TheEntry(k, pendingForAck, e) PROVE found = {e}
  <2>1. {f \in pendingForAck : f.key = k} = {e} BY <1>3 DEF TheEntry
  <2>2. e.live /\ e \in pendingForAck /\ e.key = k BY <1>3 DEF TheEntry
  <2>. QED BY <2>1, <2>2 DEF Lookup
<1>. QED BY <1>1, <1>2, <1>3

\* A guarded key has its only entry or none.
LEMMA EntryOrNone ==
  ASSUME NEW k, KeyGuarded(k)
  PROVE  NoEntry(k, pendingForAck) \/ \E e : TheEntry(k, pendingForAck, e)
BY DEF KeyGuarded, Guarded, NonePending, OnePending

\* A local change keeps the keys guarded, but for one the master changes again.
LEMMA MapChangeKeeps ==
  ASSUME MapInv, NEW p \in Peers, NEW k \in Keys, NEW v \in MapValues \cup {Absent}, MapChange(p, k, v),
         NEW u \in Keys \ unguarded'
  PROVE  u \notin ackErrors' /\ KeyGuarded(u)'
<1>. DEFINE n == IF is_master(p) THEN next_version + 1 ELSE 0
            m == [op |-> "put", key |-> k, value |-> v, version |-> n]
<1>1. unguarded \subseteq unguarded' BY DEF MapChange
<1>2. u \in Keys \ unguarded /\ u \notin ackErrors' /\ KeyGuarded(u) BY <1>1 DEF MapChange, MapInv
<1>3. /\ mapWire[Master] \in Seq(MapMessage) /\ mapWire[Slave] \in Seq(MapMessage)
      /\ next_version \in Nat /\ map \in [Peers -> [Keys -> MapValues \cup {Absent}]]
  BY OtherEnds DEF MapInv, MapTypeOK
<1>4. n \in Nat BY <1>3
<1>5. m \in MapMessage /\ m.key = k /\ m.op = "put" /\ m.value = v /\ m.version = n BY <1>4 DEF MapMessage
<1>6. mapWire' = [mapWire EXCEPT ![Other(p)] = Append(@, m)] BY DEF MapChange
<1>7. map' = [map EXCEPT ![p][k] = v] BY DEF MapChange
<1>8. CASE p = Slave
  <2>1. ~is_master(p) /\ Other(p) = Master BY <1>8, OtherEnds DEF is_master
  <2>2. pendingForAck' = pendingForAck BY <2>1 DEF MapChange
  <2>3. mapWire'[Slave] = mapWire[Slave] /\ mapWire'[Master] = Append(mapWire[Master], m)
    BY <1>6, <2>1, OtherEnds DEF MapInv, MapTypeOK
  <2>4. map'[Master] = map[Master] /\ map'[Slave][u] = IF u = k THEN v ELSE map[Slave][u]
    BY <1>3, <1>7, <1>8, OtherEnds
  <2>. HIDE DEF m, n
  <2>5. CASE u = k
    <3>1. Guarded(u, pendingForAck, mapWire[Slave], Append(mapWire[Master], m), map[Master][u], m.value)
      BY <1>2, <1>3, <1>5, <2>5, SlaveChanges DEF KeyGuarded
    <3>. QED BY <3>1, <1>2, <1>5, <2>2, <2>3, <2>4, <2>5 DEF KeyGuarded
  <2>6. CASE u # k
    <3>1. Guarded(u, pendingForAck, mapWire[Slave], Append(mapWire[Master], m), map[Master][u], map[Slave][u])
      BY <1>2, <1>3, <1>5, <2>6, OtherFromSlave DEF KeyGuarded
    <3>. QED BY <3>1, <1>2, <2>2, <2>3, <2>4, <2>6 DEF KeyGuarded
  <2>. QED BY <2>5, <2>6
<1>9. CASE p = Master
  <2>1. is_master(p) /\ Other(p) = Slave BY <1>9, OtherEnds DEF is_master
  <2>2. PICK found \in Lookup(k) :
          /\ Pending(k, v # Absent, found)
          /\ unguarded' = IF found # {} \/ v = Absent THEN unguarded \cup {k} ELSE unguarded
    BY <2>1 DEF MapChange
  <2>3. mapWire'[Master] = mapWire[Master] /\ mapWire'[Slave] = Append(mapWire[Slave], m)
    BY <1>6, <2>1, OtherEnds DEF MapInv, MapTypeOK
  <2>4. map'[Slave] = map[Slave] /\ map'[Master][u] = IF u = k THEN v ELSE map[Master][u]
    BY <1>3, <1>7, <1>9, OtherEnds
  <2>5. n = next_version + 1 BY <2>1
  <2>. HIDE DEF m, n
  <2>6. pendingForAck \in SUBSET PendingEntry BY DEF MapInv, MapTypeOK
  <2>7. CASE u = k
    <3>1. found = {} /\ v # Absent BY <2>2, <2>7
    <3>2. NoEntry(k, pendingForAck) BY <3>1, <1>2, <2>2, <2>7, Found, EntryOrNone
    <3>3. NonePending(k, pendingForAck, mapWire[Slave], mapWire[Master], map[Master][k], map[Slave][k])
      BY <3>2, <1>2, <2>7 DEF KeyGuarded, Guarded, OnePending, TheEntry, NoEntry
    <3>. DEFINE e == [key |-> k, version |-> n, live |-> TRUE]
    <3>4. TheEntry(k, pendingForAck', e) /\ e.version = m.version
      <4>1. pendingForAck' = {[f EXCEPT !.live = @ /\ (TRUE \/ f.key # k)] : f \in pendingForAck} \cup {e}
        BY <2>2, <2>5, <3>1 DEF Pending
      <4>2. \A f \in pendingForAck : [f EXCEPT !.live = @ /\ (TRUE \/ f.key # k)].key # k
        BY <2>6, <3>2 DEF PendingEntry, NoEntry
      <4>3. e.version > 0 BY <1>3, <2>5
      <4>. QED BY <4>1, <4>2, <4>3, <1>5 DEF TheEntry
    <3>. HIDE DEF e
    <3>5. Guarded(k, pendingForAck', Append(mapWire[Slave], m), mapWire[Master], m.value, map[Slave][k])
      BY <3>1, <3>3, <3>4, <1>3, <1>5, MasterChanges
    <3>. QED BY <3>5, <1>2, <1>5, <2>3, <2>4, <2>7 DEF KeyGuarded
  <2>8. CASE u # k
    <3>1. \A e \in pendingForAck : e.key = u => e \in pendingForAck'
      <4>. SUFFICES ASSUME NEW e \in pendingForAck, e.key = u PROVE e \in pendingForAck' OBVIOUS
      <4>1. [e EXCEPT !.live = @ /\ (v # Absent \/ e.key # k)] = e BY <2>6, <2>8 DEF PendingEntry
      <4>. QED BY <4>1, <2>2 DEF Pending
    <3>2. \A e \in pendingForAck' : e.key = u => e \in pendingForAck
      <4>. SUFFICES ASSUME NEW e \in pendingForAck', e.key = u PROVE e \in pendingForAck OBVIOUS
      <4>1. e \in {[f EXCEPT !.live = @ /\ (v # Absent \/ f.key # k)] : f \in pendingForAck}
        BY <2>2, <2>8 DEF Pending
      <4>2. PICK f \in pendingForAck : e = [f EXCEPT !.live = @ /\ (v # Absent \/ f.key # k)] BY <4>1
      <4>3. f.key = u BY <4>2, <2>6 DEF PendingEntry
      <4>4. e = f BY <4>2, <4>3, <2>6, <2>8 DEF PendingEntry
      <4>. QED BY <4>4
    <3>3. Guarded(u, pendingForAck', mapWire[Slave], mapWire[Master], map[Master][u], map[Slave][u])
      BY <3>1, <3>2, <1>2, OtherEntries DEF KeyGuarded
    <3>4. Guarded(u, pendingForAck', Append(mapWire[Slave], m), mapWire[Master], map[Master][u], map[Slave][u])
      BY <3>3, <1>3, <1>5, <2>8, OtherToSlave
    <3>. QED BY <3>4, <1>2, <2>3, <2>4, <2>8 DEF KeyGuarded
  <2>. QED BY <2>7, <2>8
<1>. QED BY <1>8, <1>9 DEF Peers

\* What is received keeps the keys guarded.
LEMMA ReceiveChangeKeeps ==
  ASSUME MapInv, NEW p \in Peers, ReceiveChange(p), NEW u \in Keys \ unguarded'
  PROVE  u \notin ackErrors' /\ KeyGuarded(u)'
<1>1. u \in Keys \ unguarded /\ u \notin ackErrors' /\ KeyGuarded(u) BY DEF ReceiveChange, MapInv
<1>2. /\ mapWire[Master] \in Seq(MapMessage) /\ mapWire[Slave] \in Seq(MapMessage)
      /\ map \in [Peers -> [Keys -> MapValues \cup {Absent}]] /\ mapWire \in [Peers -> Seq(MapMessage)]
      /\ pendingForAck \in SUBSET PendingEntry
  BY OtherEnds DEF MapInv, MapTypeOK
<1>3. mapWire[p] # <<>> /\ Head(mapWire[p]).op = "put" BY DEF ReceiveChange
<1>4. PICK m \in MapMessage : m = Head(mapWire[p]) BY <1>2, <1>3, Shorter
<1>5. m.key \in Keys /\ m.value \in MapValues \cup {Absent} BY DEF MapMessage
<1>6. PICK found \in Lookup(m.key) :
       /\ map' = IF RejectedMap(p, m, found) THEN map ELSE [map EXCEPT ![p][m.key] = m.value]
       /\ mapWire' = IF m.version = 0
                     THEN [mapWire EXCEPT ![p] = Tail(@)]
                     ELSE [mapWire EXCEPT ![p] = Tail(@), ![Other(p)] = Append(@, Acknowledgement(m))]
       /\ pendingForAck' =
            IF is_master(p) /\ map'[p][m.key] = Absent
            THEN {[e EXCEPT !.live = @ /\ e.key # m.key] : e \in pendingForAck}
            ELSE pendingForAck
  BY <1>4 DEF ReceiveChange
<1>7. 1 \in DOMAIN mapWire[p] /\ mapWire[p][1] = m BY <1>2, <1>3, <1>4, AboutShorter
<1>8. CASE p = Slave
  <2>1. ~is_master(p) /\ Other(p) = Master BY <1>8, OtherEnds DEF is_master
  <2>2. m.version > 0 BY <1>7, <1>8 DEF MapInv, Numbers
  <2>3. m.version # 0 BY <2>2
  <2>. DEFINE a == Acknowledgement(m)
  <2>4. a \in MapMessage /\ a.op = "ACK" /\ a.key = m.key /\ a.version = m.version
    BY DEF Acknowledgement, MapMessage
  <2>. HIDE DEF a
  <2>5. mapWire'[Slave] = Tail(mapWire[Slave]) /\ mapWire'[Master] = Append(mapWire[Master], a)
    BY <1>2, <1>6, <1>8, <2>1, <2>3, OtherEnds DEF a
  <2>6. map' = [map EXCEPT ![Slave][m.key] = m.value] BY <1>6, <1>8, <2>1 DEF RejectedMap
  <2>7. map'[Master] = map[Master] /\ map'[Slave][u] = IF u = m.key THEN m.value ELSE map[Slave][u]
    BY <1>2, <1>5, <2>6, OtherEnds
  <2>8. pendingForAck' = pendingForAck BY <1>6, <2>1
  <2>9. CASE u = m.key
    <3>1. Guarded(u, pendingForAck, Tail(mapWire[Slave]), Append(mapWire[Master], a), map[Master][u], m.value)
      BY <1>1, <1>2, <1>3, <1>4, <1>8, <2>4, <2>9, SlaveTakes DEF KeyGuarded
    <3>. QED BY <3>1, <1>1, <2>5, <2>7, <2>8, <2>9 DEF KeyGuarded
  <2>10. CASE u # m.key
    <3>1. Guarded(u, pendingForAck, Tail(mapWire[Slave]), mapWire[Master], map[Master][u], map[Slave][u])
      BY <1>1, <1>2, <1>3, <1>4, <1>8, <2>10, OtherBySlave DEF KeyGuarded
    <3>2. Tail(mapWire[Slave]) \in Seq(MapMessage) BY <1>2, <1>3, <1>8, Shorter
    <3>3. Guarded(u, pendingForAck, Tail(mapWire[Slave]), Append(mapWire[Master], a), map[Master][u], map[Slave][u])
      BY <3>1, <3>2, <1>2, <2>4, <2>10, OtherFromSlave
    <3>. QED BY <3>3, <1>1, <2>5, <2>7, <2>8, <2>10 DEF KeyGuarded
  <2>. QED BY <2>9, <2>10
<1>9. CASE p = Master
  <2>1. is_master(p) /\ Other(p) = Slave BY <1>9, OtherEnds DEF is_master
  <2>2. m.version = 0 BY <1>3, <1>4, <1>7, <1>9 DEF MapInv, Numbers
  <2>3. mapWire'[Slave] = mapWire[Slave] /\ mapWire'[Master] = Tail(mapWire[Master])
    BY <1>2, <1>6, <1>9, <2>2, OtherEnds
  <2>4. map' = IF found # {} THEN map ELSE [map EXCEPT ![Master][m.key] = m.value]
    BY <1>6, <1>9, <2>1, <2>2 DEF RejectedMap
  <2>5. /\ map'[Slave] = map[Slave]
        /\ map'[Master][u] = IF u = m.key /\ found = {} THEN m.value ELSE map[Master][u]
    BY <1>2, <1>5, <2>4, OtherEnds
  <2>6. CASE u = m.key
    <3>1. CASE NoEntry(u, pendingForAck)
      <4>1. found = {} BY <3>1, <2>6, Found
      <4>2. Guarded(u, pendingForAck, mapWire[Slave], Tail(mapWire[Master]), m.value, map[Slave][u])
        BY <3>1, <1>1, <1>2, <1>3, <1>4, <1>9, <2>6, MasterGets DEF KeyGuarded
      <4>3. /\ \A e \in pendingForAck : e.key = u => e \in pendingForAck'
            /\ \A e \in pendingForAck' : e.key = u => e \in pendingForAck
        <5>1. \A e \in pendingForAck : e.key # u BY <3>1 DEF NoEntry
        <5>2. \A e \in pendingForAck : [e EXCEPT !.live = @ /\ e.key # m.key].key # u
          BY <5>1, <1>2 DEF PendingEntry
        <5>. QED BY <5>1, <5>2, <1>6
      <4>4. Guarded(u, pendingForAck', mapWire[Slave], Tail(mapWire[Master]), m.value, map[Slave][u])
        BY <4>2, <4>3, OtherEntries
      <4>. QED BY <4>1, <4>4, <1>1, <2>3, <2>5, <2>6 DEF KeyGuarded
    <3>2. CASE ~NoEntry(u, pendingForAck)
      <4>1. PICK e : TheEntry(u, pendingForAck, e) BY <3>2, <1>1, EntryOrNone
      <4>2. found # {} BY <4>1, <2>6, Found
      <4>3. /\ map[Master][u] # Absent
            /\ Guarded(u, pendingForAck, mapWire[Slave], Tail(mapWire[Master]), map[Master][u], map[Slave][u])
        BY <3>2, <1>1, <1>2, <1>3, <1>4, <1>9, <2>6, MasterGets DEF KeyGuarded
      <4>4. pendingForAck' = pendingForAck BY <4>2, <4>3, <1>6, <1>9, <2>4, <2>6
      <4>. QED BY <4>2, <4>3, <4>4, <1>1, <2>3, <2>5 DEF KeyGuarded
    <3>. QED BY <3>1, <3>2
  <2>7. CASE u # m.key
    <3>1. Guarded(u, pendingForAck, mapWire[Slave], Tail(mapWire[Master]), map[Master][u], map[Slave][u])
      BY <1>1, <1>2, <1>3, <1>4, <1>9, <2>7, OtherByMaster DEF KeyGuarded
    <3>2. ASSUME NEW e \in pendingForAck, e.key = u PROVE [e EXCEPT !.live = @ /\ e.key # m.key] = e
      BY <3>2, <1>2, <2>7 DEF PendingEntry
    <3>3. \A e \in pendingForAck : e.key = u => e \in pendingForAck' BY <3>2, <1>6
    <3>4. ASSUME NEW e \in pendingForAck', e.key = u PROVE e \in pendingForAck
      <4>1. CASE e \notin pendingForAck
        <5>1. PICK f \in pendingForAck : e = [f EXCEPT !.live = @ /\ f.key # m.key] BY <4>1, <1>6
        <5>2. f.key = u BY <5>1, <3>4, <1>2 DEF PendingEntry
        <5>. QED BY <5>1, <5>2, <3>2
      <4>. QED BY <4>1
    <3>5. Guarded(u, pendingForAck', mapWire[Slave], Tail(mapWire[Master]), map[Master][u], map[Slave][u])
      BY <3>1, <3>3, <3>4, OtherEntries
    <3>. QED BY <3>5, <1>1, <2>3, <2>5, <2>7 DEF KeyGuarded
  <2>. QED BY <2>6, <2>7
<1>. QED BY <1>8, <1>9 DEF Peers

\* An answer ends the change it is about, and is no error.
LEMMA ReceiveAckKeeps ==
  ASSUME MapInv, ReceiveAck, NEW u \in Keys \ unguarded'
  PROVE  u \notin ackErrors' /\ KeyGuarded(u)'
<1>1. u \in Keys \ unguarded /\ u \notin ackErrors /\ KeyGuarded(u) BY DEF ReceiveAck, MapInv
<1>2. /\ mapWire[Master] \in Seq(MapMessage) /\ mapWire[Slave] \in Seq(MapMessage)
      /\ mapWire \in [Peers -> Seq(MapMessage)] /\ pendingForAck \in SUBSET PendingEntry
  BY OtherEnds DEF MapInv, MapTypeOK
<1>3. mapWire[Master] # <<>> /\ Head(mapWire[Master]).op = "ACK" BY DEF ReceiveAck
<1>4. PICK m \in MapMessage : m = Head(mapWire[Master]) BY <1>2, <1>3, Shorter
<1>5. PICK found \in Lookup(m.key) :
       /\ pendingForAck' = pendingForAck \ Acknowledges(m, found)
       /\ ackErrors' = IF \E e \in found : e.version >= m.version THEN ackErrors ELSE ackErrors \cup {m.key}
  BY <1>4 DEF ReceiveAck
<1>6. mapWire'[Master] = Tail(mapWire[Master]) /\ mapWire'[Slave] = mapWire[Slave] /\ map' = map
  BY <1>2, OtherEnds DEF ReceiveAck
<1>7. CASE u = m.key
  <2>1. PICK e \in pendingForAck :
          /\ TheEntry(u, pendingForAck, e) /\ e.version = m.version
          /\ Guarded(u, pendingForAck \ {e}, mapWire[Slave], Tail(mapWire[Master]), map[Master][u], map[Slave][u])
    BY <1>1, <1>2, <1>3, <1>4, <1>7, MasterAnswered DEF KeyGuarded
  <2>2. found = {e} BY <2>1, <1>7, Found
  <2>3. Acknowledges(m, found) = {e} BY <2>1, <2>2 DEF Acknowledges
  <2>4. m.version \in Nat BY DEF MapMessage
  <2>5. ackErrors' = ackErrors BY <2>1, <2>2, <2>4, <1>5
  <2>. QED BY <2>1, <2>3, <2>5, <1>1, <1>5, <1>6 DEF KeyGuarded
<1>8. CASE u # m.key
  <2>1. Guarded(u, pendingForAck, mapWire[Slave], Tail(mapWire[Master]), map[Master][u], map[Slave][u])
    BY <1>1, <1>2, <1>3, <1>4, <1>8, OtherByMaster DEF KeyGuarded
  <2>2. \A e \in Acknowledges(m, found) : e.key # u BY <1>8, Found DEF Acknowledges
  <2>3. Guarded(u, pendingForAck', mapWire[Slave], Tail(mapWire[Master]), map[Master][u], map[Slave][u])
    BY <2>1, <2>2, <1>5, OtherEntries
  <2>. QED BY <2>3, <1>1, <1>5, <1>6, <1>8 DEF KeyGuarded
<1>. QED BY <1>7, <1>8

\* Numbers stay the master's and answers the slave's.
LEMMA NumbersKept == ASSUME MapInv, MapNext PROVE Numbers'
<1>. DEFINE OfMaster(w) == \A i \in DOMAIN w : w[i].op = "put" /\ w[i].version > 0
            OfSlave(w) == \A i \in DOMAIN w : w[i].op = "put" => w[i].version = 0
<1>1. /\ mapWire[Master] \in Seq(MapMessage) /\ mapWire[Slave] \in Seq(MapMessage)
      /\ mapWire \in [Peers -> Seq(MapMessage)] /\ next_version \in Nat
      /\ OfMaster(mapWire[Slave]) /\ OfSlave(mapWire[Master])
  BY OtherEnds DEF MapInv, MapTypeOK, Numbers
<1>2. ASSUME NEW w \in Seq(MapMessage), NEW m \in MapMessage
      PROVE  /\ OfMaster(w) /\ m.op = "put" /\ m.version > 0 => OfMaster(Append(w, m))
             /\ OfSlave(w) /\ (m.op = "put" => m.version = 0) => OfSlave(Append(w, m))
  <2>1. \A i \in DOMAIN Append(w, m) : Append(w, m)[i] = m \/ (i \in DOMAIN w /\ Append(w, m)[i] = w[i])
    BY Longer
  <2>. QED BY <2>1
<1>3. ASSUME NEW w \in Seq(MapMessage), w # <<>>
      PROVE  /\ OfMaster(w) => OfMaster(Tail(w)) /\ Head(w).version > 0
             /\ OfSlave(w) => OfSlave(Tail(w)) /\ (Head(w).op = "put" => Head(w).version = 0)
  <2>1. /\ \A i \in DOMAIN Tail(w) : i + 1 \in DOMAIN w /\ Tail(w)[i] = w[i + 1]
        /\ 1 \in DOMAIN w /\ Head(w) = w[1]
    BY <1>3, AboutShorter
  <2>. QED BY <2>1
<1>4. Numbers' <=> OfMaster(mapWire'[Slave]) /\ OfSlave(mapWire'[Master]) BY DEF Numbers
<1>. HIDE DEF OfMaster, OfSlave
<1>5. ASSUME NEW p \in Peers, NEW k \in Keys, NEW v \in MapValues \cup {Absent}, MapChange(p, k, v)
      PROVE  Numbers'
  <2>. DEFINE m(n) == [op |-> "put", key |-> k, value |-> v, version |-> n]
  <2>1. \A n \in Nat : m(n) \in MapMessage /\ m(n).op = "put" /\ m(n).version = n BY DEF MapMessage
  <2>2. CASE p = Master
    <3>1. mapWire' = [mapWire EXCEPT ![Slave] = Append(@, m(next_version + 1))]
      BY <1>5, <2>2, OtherEnds DEF MapChange, is_master
    <3>2. next_version + 1 \in Nat /\ next_version + 1 > 0 BY <1>1
    <3>. QED BY <3>1, <3>2, <1>1, <1>2, <1>4, <2>1, OtherEnds
  <2>3. CASE p = Slave
    <3>1. mapWire' = [mapWire EXCEPT ![Master] = Append(@, m(0))]
      BY <1>5, <2>3, OtherEnds DEF MapChange, is_master
    <3>. QED BY <3>1, <1>1, <1>2, <1>4, <2>1, OtherEnds
  <2>. QED BY <2>2, <2>3 DEF Peers
<1>6. ASSUME NEW p \in Peers, ReceiveChange(p) PROVE Numbers'
  <2>1. mapWire[p] \in Seq(MapMessage) /\ mapWire[p] # <<>> /\ Head(mapWire[p]).op = "put"
    BY <1>1, <1>6 DEF ReceiveChange
  <2>2. PICK m \in MapMessage : m = Head(mapWire[p]) BY <2>1, Shorter
  <2>3. mapWire' = IF m.version = 0
                   THEN [mapWire EXCEPT ![p] = Tail(@)]
                   ELSE [mapWire EXCEPT ![p] = Tail(@), ![Other(p)] = Append(@, Acknowledgement(m))]
    BY <1>6, <2>2 DEF ReceiveChange
  <2>4. Acknowledgement(m) \in MapMessage /\ Acknowledgement(m).op # "put" BY DEF Acknowledgement, MapMessage
  <2>5. CASE p = Master
    <3>1. m.version = 0 BY <1>1, <1>3, <2>1, <2>2, <2>5
    <3>2. mapWire'[Master] = Tail(mapWire[Master]) /\ mapWire'[Slave] = mapWire[Slave]
      BY <3>1, <1>1, <2>3, <2>5, OtherEnds
    <3>. QED BY <3>2, <1>1, <1>3, <1>4, <2>1, <2>5
  <2>6. CASE p = Slave
    <3>1. m.version > 0 BY <1>1, <1>3, <2>1, <2>2, <2>6
    <3>2. m.version # 0 BY <3>1
    <3>3. mapWire'[Slave] = Tail(mapWire[Slave]) /\ mapWire'[Master] = Append(mapWire[Master], Acknowledgement(m))
      BY <3>2, <1>1, <2>3, <2>6, OtherEnds
    <3>. QED BY <3>3, <1>1, <1>2, <1>3, <1>4, <2>1, <2>4, <2>6
  <2>. QED BY <2>5, <2>6 DEF Peers
<1>7. ASSUME ReceiveAck PROVE Numbers'
  <2>1. mapWire[Master] # <<>> /\ mapWire'[Master] = Tail(mapWire[Master]) /\ mapWire'[Slave] = mapWire[Slave]
    BY <1>1, <1>7, OtherEnds DEF ReceiveAck
  <2>. QED BY <2>1, <1>1, <1>3, <1>4
<1>. QED BY <1>5, <1>6, <1>7 DEF MapNext

\* Every step keeps the invariant.
LEMMA MapNextInv == MapInv /\ [MapNext]_mapVars => MapInv'
<1>. SUFFICES ASSUME MapInv, [MapNext]_mapVars PROVE MapInv' OBVIOUS
<1>1. CASE UNCHANGED mapVars
  BY <1>1 DEF mapVars, MapInv, MapTypeOK, Numbers, KeyGuarded
<1>2. CASE MapNext
  <2>1. MapTypeOK' /\ Numbers' BY <1>2, MapStepTyped, NumbersKept DEF MapInv
  <2>2. \A u \in Keys \ unguarded' : u \notin ackErrors' /\ KeyGuarded(u)'
    BY <1>2, MapChangeKeeps, ReceiveChangeKeeps, ReceiveAckKeeps DEF MapNext
  <2>. QED BY <2>1, <2>2 DEF MapInv
<1>. QED BY <1>1, <1>2

\* The inductive invariant, for any keys, values and number of changes.
THEOREM MapInvariance == MapSpec => []MapInv
<1>. QED BY MapInitInv, MapNextInv, PTL DEF MapSpec

\* Types, for any keys, values and number of changes.
THEOREM MapTypeCorrect == MapSpec => []MapTypeOK
<1>1. MapInv => MapTypeOK BY DEF MapInv
<1>. QED BY <1>1, MapInvariance, PTL

\* When nothing is on its way both ends have the same value under a key the
\* master changed only when its former change was answered; none of the key is
\* pending then, and no answer was taken for an error (RdMap.h).
THEOREM MapConvergence == MapSpec => []MapConvergedUnlessUnguarded
<1>1. MapInv => MapConvergedUnlessUnguarded
  <2>. SUFFICES ASSUME MapInv, NEW k \in Keys \ unguarded
       PROVE  /\ k \notin ackErrors
              /\ (\A p \in Peers : mapWire[p] = <<>>) =>
                   map[Master][k] = map[Slave][k] /\ \A e \in pendingForAck : e.key # k
    BY DEF MapConvergedUnlessUnguarded
  <2>1. k \notin ackErrors /\ KeyGuarded(k) BY DEF MapInv
  <2>2. ASSUME \A p \in Peers : mapWire[p] = <<>>
        PROVE  map[Master][k] = map[Slave][k] /\ \A e \in pendingForAck : e.key # k
    <3>1. mapWire[Master] = <<>> /\ mapWire[Slave] = <<>> BY <2>2, OtherEnds
    <3>2. NonePending(k, pendingForAck, mapWire[Slave], mapWire[Master], map[Master][k], map[Slave][k])
      BY <2>1, <3>1 DEF KeyGuarded, Guarded, OnePending
    <3>. QED BY <3>1, <3>2 DEF NonePending, NoEntry, Takes
  <2>. QED BY <2>1, <2>2
<1>. QED BY <1>1, MapInvariance, PTL

-------------------------------------------------------------------------------
(***************************************************************************)
(* Both ends of a call: why one call does not disturb another, whatever    *)
(* becomes of its task and whenever its answer comes, why a result that    *)
(* was set stays, and why the other end answers a call once.               *)
(***************************************************************************)
Phases == {"new", "started", "waiting", "expired", "returned", "refused", "gone"}
Delivery == {Idle} \cup [task : Tasks, result : Results, at : {"checking", "setting", "firing"}]
AnswerRecord == [task : Tasks, result : Results]

CallTypeOK ==
  /\ phase \in [Tasks -> Phases] /\ result \in [Tasks -> Results \cup {"none"}]
  /\ immediate \in SUBSET Tasks /\ sync_task_id \in Tasks \cup {NoTask}
  /\ subscribed \in SUBSET Tasks /\ cancels \in SUBSET Tasks /\ ending \in SUBSET Tasks
  /\ bindAlive \in BOOLEAN
  /\ requests \in SUBSET Tasks /\ answers \in SUBSET AnswerRecord
  /\ delivering \in [Threads -> Delivery] /\ responses \in SUBSET AnswerRecord
  /\ touched \in SUBSET Tasks /\ givenUp \in SUBSET Tasks /\ hurried \in SUBSET Tasks
  /\ thrown \in SUBSET Tasks /\ raced \in SUBSET Tasks

\* The other end has yet to answer, or its answer is on the way.
Awaited(t) == t \in requests \/ \E a \in answers : a.task = t

\* A call is answered once.
OneAnswer ==
  /\ \A t \in requests, a \in answers : a.task # t
  /\ \A a, b \in answers : a.task = b.task => a = b

\* While the bind lifetime lasts only an answer sets a result, and nobody is
\* cancelled.
OnlyAnswered ==
  bindAlive =>
    /\ ending = {}
    /\ \A t \in Tasks : result[t] # "none" \/ InUse(t) => ~Awaited(t)

\* A call that was not made, or was refused, is unknown to everybody.
Unknown ==
  \A t \in Tasks : phase[t] \in {"new", "refused"} =>
    result[t] = "none" /\ ~Awaited(t) /\ t \notin cancels /\ ~InUse(t)

\* A task that was destroyed in time has its result, and nobody will use it.
GoneInTime ==
  \A t \in Tasks : phase[t] = "gone" =>
    /\ t \notin cancels
    /\ t \in givenUp \cup hurried \/ (result[t] # "none" /\ ~InUse(t))

\* Who sets a result found none, or both threads did.
SettersFoundNone ==
  /\ \A w \in Threads : delivering[w].at = "setting" =>
       result[delivering[w].task] = "none" \/ delivering[w].task \in raced
  /\ \A v, w \in Threads :
       v # w /\ delivering[v].at = "setting" /\ delivering[w].at = "setting"
         /\ delivering[v].task = delivering[w].task => delivering[w].task \in raced

\* Between two sync calls sync_task_id is reset, unless one threw.
ResetUnlessThrown ==
  sync_task_id # NoTask => phase[sync_task_id] \in {"waiting", "expired"} \/ thrown # {}

CallInv ==
  /\ CallTypeOK
  /\ OneAnswer /\ OnlyAnswered /\ Unknown /\ GoneInTime /\ SettersFoundNone /\ ResetUnlessThrown
  /\ CallsKeptApart
-------------------------------------------------------------------------------
\* The invariant holds before the first call.
LEMMA CallStarts == CallInit => CallInv
<1>. SUFFICES ASSUME CallInit PROVE CallInv OBVIOUS
<1>1. CallTypeOK BY DEF CallInit, CallTypeOK, Phases, Delivery, AnswerRecord
<1>2. \A w \in Threads : delivering[w] = Idle BY DEF CallInit
<1>3. \A t \in Tasks : ~InUse(t) /\ ~Awaited(t)
  BY <1>2, RdCallAssumption DEF CallInit, InUse, Awaited, Idle
<1>4. OneAnswer /\ OnlyAnswered /\ Unknown /\ GoneInTime /\ ResetUnlessThrown
  BY <1>3 DEF CallInit, OneAnswer, OnlyAnswered, Unknown, GoneInTime, ResetUnlessThrown
<1>5. SettersFoundNone BY <1>2 DEF SettersFoundNone, Idle
<1>6. CallsKeptApart BY DEF CallInit, CallsKeptApart, TouchedOnlyInFlight, RefusedOnlyAfterThrow
<1>. QED BY <1>1, <1>4, <1>5, <1>6 DEF CallInv

\* What a thread delivers is idle or about a task.
LEMMA DeliveryType ==
  ASSUME CallTypeOK, NEW w \in Threads, delivering[w].at # "idle"
  PROVE  /\ delivering[w] \in [task : Tasks, result : Results, at : {"checking", "setting", "firing"}]
         /\ delivering[w].task \in Tasks
  BY DEF CallTypeOK, Delivery, Idle

\* Every step keeps the types.
LEMMA CallTyped == ASSUME CallTypeOK, CallNext PROVE CallTypeOK'
<1>. USE DEF CallTypeOK
<1>1. ASSUME NEW t \in Tasks, NEW atOnce \in BOOLEAN, Start(t, atOnce) PROVE CallTypeOK'
  BY <1>1 DEF Start, Phases, historyVars
<1>2. ASSUME NEW t \in Tasks, Sync(t) PROVE CallTypeOK' BY <1>2 DEF Sync, Phases, historyVars
<1>3. ASSUME NEW t \in Tasks, Refuse(t) PROVE CallTypeOK'
  BY <1>3 DEF Refuse, Phases, historyVars, wireVars
<1>4. ASSUME NEW t \in Tasks, Expire(t) PROVE CallTypeOK'
  BY <1>4 DEF Expire, Phases, historyVars, wireVars, callLifetimes
<1>5. ASSUME NEW t \in Tasks, Return(t) PROVE CallTypeOK'
  BY <1>5 DEF Return, Phases, historyVars, wireVars, callLifetimes
<1>6. ASSUME NEW t \in Tasks, Throw(t) PROVE CallTypeOK'
  BY <1>6 DEF Throw, Destroy, Phases, wireVars
<1>7. ASSUME NEW t \in Tasks, Drop(t) PROVE CallTypeOK'
  BY <1>7 DEF Drop, Destroy, Phases, wireVars
<1>8. ASSUME NEW t \in Tasks, Cancel(t) PROVE CallTypeOK'
  <2>1. [task |-> t, result |-> "Cancelled", at |-> "checking"] \in Delivery
    BY DEF Delivery, Results
  <2>. QED BY <1>8, <2>1 DEF Cancel, historyVars, Threads
<1>9. ASSUME NEW t \in Tasks, NEW r \in Results, Answer(t, r) PROVE CallTypeOK'
  <2>1. [task |-> t, result |-> r] \in AnswerRecord BY DEF AnswerRecord
  <2>. QED BY <1>9, <2>1 DEF Answer, historyVars, callLifetimes
<1>10. ASSUME NEW a \in answers, Deliver(a) PROVE CallTypeOK'
  <2>1. a \in AnswerRecord /\ a.task \in Tasks /\ a.result \in Results BY DEF AnswerRecord
  <2>2. [task |-> a.task, result |-> a.result, at |-> "checking"] \in Delivery
    BY <2>1 DEF Delivery
  <2>. QED BY <1>10, <2>1, <2>2 DEF Deliver, Touch, Threads, callLifetimes
<1>11. ASSUME NEW a \in responses, Respond(a) PROVE CallTypeOK'
  <2>1. a.task \in Tasks /\ a.result \in Results BY DEF AnswerRecord
  <2>2. [task |-> a.task, result |-> a.result, at |-> "checking"] \in Delivery
    BY <2>1 DEF Delivery
  <2>. QED BY <1>11, <2>2 DEF Respond, Threads, callLifetimes, historyVars
<1>12. ASSUME NEW w \in Threads, Check(w) PROVE CallTypeOK'
  <2>1. delivering[w].task \in Tasks /\ delivering[w] \in Delivery BY <1>12, DeliveryType DEF Check
  <2>2. [delivering[w] EXCEPT !.at = "setting"] \in Delivery
    BY <1>12, DeliveryType DEF Check, Delivery
  <2>3. Idle \in Delivery BY DEF Delivery
  <2>4. delivering' \in [Threads -> Delivery] BY <1>12, <2>2, <2>3 DEF Check
  <2>. QED BY <1>12, <2>1, <2>4 DEF Check, Touch, callLifetimes
<1>13. ASSUME NEW w \in Threads, SetResult(w) PROVE CallTypeOK'
  <2>1. delivering[w] \in [task : Tasks, result : Results, at : {"checking", "setting", "firing"}]
    BY <1>13, DeliveryType DEF SetResult
  <2>2. [delivering[w] EXCEPT !.at = "firing"] \in Delivery /\ Idle \in Delivery
    BY <2>1 DEF Delivery
  <2>3. delivering' \in [Threads -> Delivery] BY <1>13, <2>2 DEF SetResult
  <2>. QED BY <1>13, <2>1, <2>3 DEF SetResult, Touch, callLifetimes
<1>14. ASSUME NEW w \in Threads, FireChange(w) PROVE CallTypeOK'
  <2>1. delivering[w].task \in Tasks BY <1>14, DeliveryType DEF FireChange
  <2>2. Idle \in Delivery BY DEF Delivery
  <2>. QED BY <1>14, <2>1, <2>2 DEF FireChange, Touch, callLifetimes
<1>15. CASE End BY <1>15 DEF End, historyVars, wireVars
<1>. QED BY <1>1, <1>2, <1>3, <1>4, <1>5, <1>6, <1>7, <1>8, <1>9, <1>10, <1>11, <1>12, <1>13,
            <1>14, <1>15 DEF CallNext

\* A call that is made disturbs nothing: it was unknown.
LEMMA StartKeeps ==
  ASSUME CallInv, NEW t \in Tasks, NEW atOnce \in BOOLEAN, Start(t, atOnce)
  PROVE  CallInv'
<1>1. CallTypeOK /\ CallTypeOK' BY CallTyped DEF CallInv, CallNext
<1>2. OneAnswer' BY DEF CallInv, OneAnswer, Start, Awaited, Unknown
<1>3. OnlyAnswered' BY DEF CallInv, OnlyAnswered, Start, InUse, Awaited, Unknown
<1>4. Unknown' BY DEF CallInv, CallTypeOK, Unknown, Start, InUse, Awaited
<1>5. GoneInTime' BY DEF CallInv, GoneInTime, Start, historyVars, InUse
<1>6. SettersFoundNone' BY DEF CallInv, SettersFoundNone, Start, historyVars
<1>7. ResetUnlessThrown' BY DEF CallInv, ResetUnlessThrown, Start, historyVars
<1>8. CallsKeptApart'
  BY DEF CallInv, CallsKeptApart, TouchedOnlyInFlight, RefusedOnlyAfterThrow, Start,
       historyVars
<1>. QED BY <1>1, <1>2, <1>3, <1>4, <1>5, <1>6, <1>7, <1>8 DEF CallInv

\* So does a synchronous one.
LEMMA SyncKeeps ==
  ASSUME CallInv, NEW t \in Tasks, Sync(t)
  PROVE  CallInv'
<1>1. CallTypeOK /\ CallTypeOK' BY CallTyped DEF CallInv, CallNext
<1>2. OneAnswer' BY DEF CallInv, OneAnswer, Sync, Awaited, Unknown
<1>3. OnlyAnswered' BY DEF CallInv, OnlyAnswered, Sync, InUse, Awaited, Unknown
<1>4. Unknown' BY DEF CallInv, CallTypeOK, Unknown, Sync, InUse, Awaited
<1>5. GoneInTime' BY DEF CallInv, GoneInTime, Sync, historyVars, InUse
<1>6. SettersFoundNone' BY DEF CallInv, SettersFoundNone, Sync, historyVars
<1>7. ResetUnlessThrown' BY <1>1 DEF CallTypeOK, ResetUnlessThrown, Sync
<1>8. CallsKeptApart'
  BY DEF CallInv, CallsKeptApart, TouchedOnlyInFlight, RefusedOnlyAfterThrow, Sync, historyVars
<1>. QED BY <1>1, <1>2, <1>3, <1>4, <1>5, <1>6, <1>7, <1>8 DEF CallInv

\* A call is refused only after one threw.
LEMMA RefuseKeeps ==
  ASSUME CallInv, NEW t \in Tasks, Refuse(t)
  PROVE  CallInv'
<1>1. CallTypeOK /\ CallTypeOK' BY CallTyped DEF CallInv, CallNext
<1>2. OneAnswer' BY DEF CallInv, OneAnswer, Refuse, wireVars
<1>3. OnlyAnswered' BY DEF CallInv, OnlyAnswered, Refuse, wireVars, InUse, Awaited
<1>4. Unknown' BY DEF CallInv, Unknown, Refuse, wireVars, InUse, Awaited
<1>5. GoneInTime' BY DEF CallInv, GoneInTime, Refuse, historyVars, wireVars, InUse
<1>6. SettersFoundNone' BY DEF CallInv, SettersFoundNone, Refuse, historyVars, wireVars
<1>7. ResetUnlessThrown' BY DEF CallInv, ResetUnlessThrown, Refuse, historyVars
<1>8. CallsKeptApart'
  BY DEF CallInv, CallTypeOK, CallsKeptApart, TouchedOnlyInFlight, RefusedOnlyAfterThrow,
       Refuse, historyVars, ResetUnlessThrown, CallerFree
<1>. QED BY <1>1, <1>2, <1>3, <1>4, <1>5, <1>6, <1>7, <1>8 DEF CallInv

\* The end of the loop of sync.
LEMMA ExpireKeeps ==
  ASSUME CallInv, NEW t \in Tasks, Expire(t)
  PROVE  CallInv'
<1>1. CallTypeOK /\ CallTypeOK' BY CallTyped DEF CallInv, CallNext
<1>2. OneAnswer' BY DEF CallInv, OneAnswer, Expire, wireVars
<1>3. OnlyAnswered'
  BY DEF CallInv, OnlyAnswered, Expire, wireVars, callLifetimes, InUse, Awaited
<1>4. Unknown' BY DEF CallInv, Unknown, Expire, wireVars, callLifetimes, InUse, Awaited
<1>5. GoneInTime'
  BY DEF CallInv, GoneInTime, Expire, historyVars, wireVars, callLifetimes, InUse
<1>6. SettersFoundNone' BY DEF CallInv, SettersFoundNone, Expire, historyVars, wireVars
<1>7. ResetUnlessThrown' BY DEF CallInv, ResetUnlessThrown, Expire, historyVars
<1>8. CallsKeptApart'
  BY DEF CallInv, CallsKeptApart, TouchedOnlyInFlight, RefusedOnlyAfterThrow, Expire,
       historyVars
<1>. QED BY <1>1, <1>2, <1>3, <1>4, <1>5, <1>6, <1>7, <1>8 DEF CallInv

\* A synchronous call that returns resets sync_task_id.
LEMMA ReturnKeeps ==
  ASSUME CallInv, NEW t \in Tasks, Return(t)
  PROVE  CallInv'
<1>1. CallTypeOK /\ CallTypeOK' BY CallTyped DEF CallInv, CallNext
<1>2. OneAnswer' BY DEF CallInv, OneAnswer, Return, wireVars
<1>3. OnlyAnswered'
  BY DEF CallInv, OnlyAnswered, Return, wireVars, callLifetimes, InUse, Awaited
<1>4. Unknown' BY DEF CallInv, Unknown, Return, wireVars, callLifetimes, InUse, Awaited
<1>5. GoneInTime'
  BY DEF CallInv, GoneInTime, Return, historyVars, wireVars, callLifetimes, InUse
<1>6. SettersFoundNone' BY DEF CallInv, SettersFoundNone, Return, historyVars, wireVars
<1>7. ResetUnlessThrown' BY DEF ResetUnlessThrown, Return
<1>8. CallsKeptApart'
  BY DEF CallInv, CallsKeptApart, TouchedOnlyInFlight, RefusedOnlyAfterThrow, Return,
       historyVars
<1>. QED BY <1>1, <1>2, <1>3, <1>4, <1>5, <1>6, <1>7, <1>8 DEF CallInv

\* One that throws destroys its task.
LEMMA ThrowKeeps ==
  ASSUME CallInv, NEW t \in Tasks, Throw(t)
  PROVE  CallInv'
<1>1. CallTypeOK /\ CallTypeOK' BY CallTyped DEF CallInv, CallNext
<1>2. OneAnswer' BY DEF CallInv, OneAnswer, Throw, wireVars
<1>3. OnlyAnswered' BY DEF CallInv, OnlyAnswered, Throw, wireVars, InUse, Awaited
<1>4. Unknown' BY DEF CallInv, Unknown, Throw, Destroy, wireVars, InUse, Awaited
<1>5. GoneInTime' BY DEF CallInv, GoneInTime, Throw, Destroy, wireVars, InUse
<1>6. SettersFoundNone' BY DEF CallInv, SettersFoundNone, Throw, wireVars
<1>7. ResetUnlessThrown' BY DEF ResetUnlessThrown, Throw
<1>8. CallsKeptApart'
  BY DEF CallInv, CallsKeptApart, TouchedOnlyInFlight, RefusedOnlyAfterThrow, Throw, Destroy
<1>. QED BY <1>1, <1>2, <1>3, <1>4, <1>5, <1>6, <1>7, <1>8 DEF CallInv

\* A task that is dropped has its result, or it is recorded.
LEMMA DropKeeps ==
  ASSUME CallInv, NEW t \in Tasks, Drop(t)
  PROVE  CallInv'
<1>1. CallTypeOK /\ CallTypeOK' BY CallTyped DEF CallInv, CallNext
<1>2. OneAnswer' BY DEF CallInv, OneAnswer, Drop, wireVars
<1>3. OnlyAnswered' BY DEF CallInv, OnlyAnswered, Drop, wireVars, InUse, Awaited
<1>4. Unknown' BY DEF CallInv, Unknown, Drop, Destroy, wireVars, InUse, Awaited
<1>5. GoneInTime' BY DEF CallInv, GoneInTime, Drop, Destroy, wireVars, InUse
<1>6. SettersFoundNone' BY DEF CallInv, SettersFoundNone, Drop, wireVars
<1>7. ResetUnlessThrown' BY DEF CallInv, ResetUnlessThrown, Drop
<1>8. CallsKeptApart'
  BY DEF CallInv, CallsKeptApart, TouchedOnlyInFlight, RefusedOnlyAfterThrow, Drop, Destroy
<1>. QED BY <1>1, <1>2, <1>3, <1>4, <1>5, <1>6, <1>7, <1>8 DEF CallInv

\* Only the ended lifetime cancels, and only tasks that are there.
LEMMA CancelKeeps ==
  ASSUME CallInv, NEW t \in Tasks, Cancel(t)
  PROVE  CallInv'
<1>1. CallTypeOK /\ CallTypeOK' BY CallTyped DEF CallInv, CallNext
<1>2. OneAnswer' BY DEF CallInv, OneAnswer, Cancel
<1>3. OnlyAnswered' BY DEF CallInv, OnlyAnswered, Cancel
<1>4. Unknown' BY DEF CallInv, Unknown, Cancel, InUse, Awaited
<1>5. GoneInTime' BY DEF CallInv, GoneInTime, Cancel, historyVars, InUse
<1>6. SettersFoundNone' BY DEF CallInv, SettersFoundNone, Cancel, historyVars
<1>7. ResetUnlessThrown' BY DEF CallInv, ResetUnlessThrown, Cancel, historyVars
<1>8. CallsKeptApart'
  BY DEF CallInv, CallsKeptApart, TouchedOnlyInFlight, RefusedOnlyAfterThrow, Cancel,
       historyVars
<1>. QED BY <1>1, <1>2, <1>3, <1>4, <1>5, <1>6, <1>7, <1>8 DEF CallInv

\* The other end answers what it was asked.
LEMMA AnswerKeeps ==
  ASSUME CallInv, NEW t \in Tasks, NEW r \in Results, Answer(t, r)
  PROVE  CallInv'
<1>1. CallTypeOK /\ CallTypeOK' BY CallTyped DEF CallInv, CallNext
<1>2. OneAnswer' BY DEF CallInv, OneAnswer, Answer
<1>3. OnlyAnswered' BY DEF CallInv, OnlyAnswered, Answer, callLifetimes, InUse, Awaited
<1>4. Unknown' BY DEF CallInv, Unknown, Answer, callLifetimes, InUse, Awaited
<1>5. GoneInTime' BY DEF CallInv, GoneInTime, Answer, historyVars, callLifetimes, InUse
<1>6. SettersFoundNone' BY DEF CallInv, SettersFoundNone, Answer, historyVars
<1>7. ResetUnlessThrown' BY DEF CallInv, ResetUnlessThrown, Answer, historyVars
<1>8. CallsKeptApart'
  BY DEF CallInv, CallsKeptApart, TouchedOnlyInFlight, RefusedOnlyAfterThrow, Answer,
       historyVars
<1>. QED BY <1>1, <1>2, <1>3, <1>4, <1>5, <1>6, <1>7, <1>8 DEF CallInv

\* An answer finds its task, unless the caller gave it up.
LEMMA DeliverKeeps ==
  ASSUME CallInv, NEW a \in answers, Deliver(a)
  PROVE  CallInv'
<1>1. CallTypeOK /\ CallTypeOK' BY CallTyped DEF CallInv, CallNext
<1>2. OneAnswer' BY DEF CallInv, OneAnswer, Deliver
<1>3. OnlyAnswered'
  BY DEF CallInv, CallTypeOK, OnlyAnswered, Deliver, callLifetimes, InUse, Awaited, OneAnswer
<1>4. Unknown' BY DEF CallInv, CallTypeOK, Unknown, Deliver, callLifetimes, InUse, Awaited
<1>5. GoneInTime'
  BY DEF CallInv, CallTypeOK, GoneInTime, Deliver, callLifetimes, InUse, Destroyed
<1>6. SettersFoundNone' BY DEF CallInv, CallTypeOK, SettersFoundNone, Deliver
<1>7. ResetUnlessThrown' BY DEF CallInv, ResetUnlessThrown, Deliver
<1>8. CallsKeptApart'
  BY <1>1 DEF CallInv, CallTypeOK, CallsKeptApart, TouchedOnlyInFlight, RefusedOnlyAfterThrow,
       Deliver, Touch, Destroyed, Unknown, GoneInTime, OnlyAnswered, Awaited
<1>. QED BY <1>1, <1>2, <1>3, <1>4, <1>5, <1>6, <1>7, <1>8 DEF CallInv

\* What was queued is taken by the scheduler.
LEMMA RespondKeeps ==
  ASSUME CallInv, NEW a \in responses, Respond(a)
  PROVE  CallInv'
<1>1. CallTypeOK /\ CallTypeOK' BY CallTyped DEF CallInv, CallNext
<1>2. OneAnswer' BY DEF CallInv, OneAnswer, Respond
<1>3. OnlyAnswered' BY DEF CallInv, OnlyAnswered, Respond, callLifetimes, InUse, Awaited
<1>4. Unknown' BY DEF CallInv, Unknown, Respond, callLifetimes, InUse, Awaited
<1>5. GoneInTime' BY DEF CallInv, GoneInTime, Respond, callLifetimes, historyVars, InUse
<1>6. SettersFoundNone' BY DEF CallInv, SettersFoundNone, Respond, historyVars
<1>7. ResetUnlessThrown' BY DEF CallInv, ResetUnlessThrown, Respond, historyVars
<1>8. CallsKeptApart'
  BY DEF CallInv, CallsKeptApart, TouchedOnlyInFlight, RefusedOnlyAfterThrow, Respond,
       historyVars
<1>. QED BY <1>1, <1>2, <1>3, <1>4, <1>5, <1>6, <1>7, <1>8 DEF CallInv

\* A thread that finds no result is to set one.
LEMMA CheckKeeps ==
  ASSUME CallInv, NEW w \in Threads, Check(w)
  PROVE  CallInv'
<1>1. CallTypeOK /\ CallTypeOK' BY CallTyped DEF CallInv, CallNext
<1>2. OneAnswer' BY DEF CallInv, OneAnswer, Check
<1>3. OnlyAnswered'
  BY RdCallAssumption DEF CallInv, OnlyAnswered, Check, callLifetimes, InUse, Awaited, Idle
<1>4. Unknown'
  BY RdCallAssumption DEF CallInv, Unknown, Check, callLifetimes, InUse, Awaited, Idle
<1>5. GoneInTime' BY RdCallAssumption DEF CallInv, GoneInTime, Check, callLifetimes, InUse, Idle
<1>6. SettersFoundNone' BY DEF CallInv, SettersFoundNone, Check, Empty, Idle, Threads
<1>7. ResetUnlessThrown' BY DEF CallInv, ResetUnlessThrown, Check
<1>8. CallsKeptApart'
  BY <1>1 DEF CallInv, CallTypeOK, CallsKeptApart, TouchedOnlyInFlight, RefusedOnlyAfterThrow,
       Check, Touch, Destroyed, Unknown, GoneInTime, InUse
<1>. QED BY <1>1, <1>2, <1>3, <1>4, <1>5, <1>6, <1>7, <1>8 DEF CallInv

\* A result is set over none, unless both threads had found none.
LEMMA SetResultKeeps ==
  ASSUME CallInv, NEW w \in Threads, SetResult(w)
  PROVE  CallInv'
<1>1. CallTypeOK /\ CallTypeOK' BY CallTyped DEF CallInv, CallNext
<1>2. OneAnswer' BY DEF CallInv, OneAnswer, SetResult
<1>3. OnlyAnswered'
  BY RdCallAssumption DEF CallInv, CallTypeOK, OnlyAnswered, SetResult, callLifetimes, InUse,
       Awaited, Delivery, Idle
<1>4. Unknown'
  BY RdCallAssumption DEF CallInv, CallTypeOK, Unknown, SetResult, callLifetimes, InUse,
       Awaited, Delivery, Idle
<1>5. GoneInTime'
  BY RdCallAssumption DEF CallInv, CallTypeOK, GoneInTime, SetResult, callLifetimes, InUse,
       Delivery, Idle
<1>6. SettersFoundNone' BY DEF CallInv, CallTypeOK, SettersFoundNone, SetResult, Idle, Delivery
<1>7. ResetUnlessThrown' BY DEF CallInv, ResetUnlessThrown, SetResult
<1>8. CallsKeptApart'
  BY <1>1 DEF CallInv, CallTypeOK, CallsKeptApart, TouchedOnlyInFlight, RefusedOnlyAfterThrow,
       SetResult, Touch, Destroyed, Unknown, GoneInTime, InUse
<1>. QED BY <1>1, <1>2, <1>3, <1>4, <1>5, <1>6, <1>7, <1>8 DEF CallInv

\* The listeners of a result are called.
LEMMA FireChangeKeeps ==
  ASSUME CallInv, NEW w \in Threads, FireChange(w)
  PROVE  CallInv'
<1>1. CallTypeOK /\ CallTypeOK' BY CallTyped DEF CallInv, CallNext
<1>2. OneAnswer' BY DEF CallInv, OneAnswer, FireChange
<1>3. OnlyAnswered'
  BY RdCallAssumption DEF CallInv, OnlyAnswered, FireChange, callLifetimes, InUse, Awaited,
       Idle
<1>4. Unknown'
  BY RdCallAssumption DEF CallInv, Unknown, FireChange, callLifetimes, InUse, Awaited, Idle
<1>5. GoneInTime'
  BY RdCallAssumption DEF CallInv, GoneInTime, FireChange, callLifetimes, InUse, Idle
<1>6. SettersFoundNone' BY DEF CallInv, SettersFoundNone, FireChange, Idle
<1>7. ResetUnlessThrown' BY DEF CallInv, ResetUnlessThrown, FireChange
<1>8. CallsKeptApart'
  BY <1>1 DEF CallInv, CallTypeOK, CallsKeptApart, TouchedOnlyInFlight, RefusedOnlyAfterThrow,
       FireChange, Touch, Destroyed, Unknown, GoneInTime, InUse
<1>. QED BY <1>1, <1>2, <1>3, <1>4, <1>5, <1>6, <1>7, <1>8 DEF CallInv

\* The end of the lifetime takes the tasks that can be cancelled.
LEMMA EndKeeps ==
  ASSUME CallInv, End
  PROVE  CallInv'
<1>1. CallTypeOK /\ CallTypeOK' BY CallTyped DEF CallInv, CallNext
<1>2. OneAnswer' BY DEF CallInv, OneAnswer, End, wireVars
<1>3. OnlyAnswered' BY DEF OnlyAnswered, End
<1>4. Unknown' BY DEF CallInv, Unknown, End, wireVars, InUse, Awaited
<1>5. GoneInTime' BY DEF CallInv, GoneInTime, End, historyVars, wireVars, InUse
<1>6. SettersFoundNone' BY DEF CallInv, SettersFoundNone, End, historyVars, wireVars
<1>7. ResetUnlessThrown' BY DEF CallInv, ResetUnlessThrown, End, historyVars
<1>8. CallsKeptApart'
  BY DEF CallInv, CallsKeptApart, TouchedOnlyInFlight, RefusedOnlyAfterThrow, End, historyVars
<1>. QED BY <1>1, <1>2, <1>3, <1>4, <1>5, <1>6, <1>7, <1>8 DEF CallInv

\* Every step keeps the invariant.
LEMMA CallKept == ASSUME CallInv, [CallNext]_callVars PROVE CallInv'
<1>1. CASE CallNext
  <2>1. ASSUME NEW t \in Tasks, NEW atOnce \in BOOLEAN, Start(t, atOnce) PROVE CallInv'
    BY <2>1, StartKeeps
  <2>2. ASSUME NEW t \in Tasks, Sync(t) \/ Refuse(t) \/ Expire(t) \/ Return(t) PROVE CallInv'
    BY <2>2, SyncKeeps, RefuseKeeps, ExpireKeeps, ReturnKeeps
  <2>3. ASSUME NEW t \in Tasks, Throw(t) \/ Drop(t) \/ Cancel(t) PROVE CallInv'
    BY <2>3, ThrowKeeps, DropKeeps, CancelKeeps
  <2>4. ASSUME NEW t \in Tasks, NEW r \in Results, Answer(t, r) PROVE CallInv'
    BY <2>4, AnswerKeeps
  <2>5. ASSUME NEW a \in answers, Deliver(a) PROVE CallInv' BY <2>5, DeliverKeeps
  <2>6. ASSUME NEW a \in responses, Respond(a) PROVE CallInv' BY <2>6, RespondKeeps
  <2>7. ASSUME NEW w \in Threads, Check(w) \/ SetResult(w) \/ FireChange(w) PROVE CallInv'
    BY <2>7, CheckKeeps, SetResultKeeps, FireChangeKeeps
  <2>8. CASE End BY <2>8, EndKeeps
  <2>. QED BY <1>1, <2>1, <2>2, <2>3, <2>4, <2>5, <2>6, <2>7, <2>8 DEF CallNext
<1>2. CASE UNCHANGED callVars
  <2>. USE <1>2 DEF callVars, callLifetimes, wireVars, historyVars, CallInv
  <2>1. CallTypeOK' BY DEF CallTypeOK
  <2>2. (\A t : Awaited(t)' <=> Awaited(t)) /\ (\A t : InUse(t)' <=> InUse(t)) BY DEF Awaited, InUse
  <2>3. OneAnswer' /\ OnlyAnswered' /\ Unknown' /\ GoneInTime'
    BY <2>2 DEF OneAnswer, OnlyAnswered, Unknown, GoneInTime
  <2>4. SettersFoundNone' /\ ResetUnlessThrown' BY DEF SettersFoundNone, ResetUnlessThrown
  <2>5. CallsKeptApart' BY DEF CallsKeptApart, TouchedOnlyInFlight, RefusedOnlyAfterThrow
  <2>. QED BY <2>1, <2>3, <2>4, <2>5
<1>. QED BY <1>1, <1>2

\* The invariant holds in every state of every behaviour of the calls.
THEOREM CallInvariance == CallSpec => []CallInv
BY CallStarts, CallKept, PTL DEF CallSpec

\* Calls, tasks and answers keep their types.
THEOREM CallTypeCorrect == CallSpec => []CallTypeOK
<1>1. CallInv => CallTypeOK BY DEF CallInv
<1>. QED BY <1>1, CallInvariance, PTL

\* One call does not disturb another: a task is used after its end only when it
\* was given up with its result on the way, and a sync call is refused only
\* after another one threw.
THEOREM KeptApart == CallSpec => []CallsKeptApart
<1>1. CallInv => CallsKeptApart BY DEF CallInv
<1>. QED BY <1>1, CallInvariance, PTL

\* A result that was set stays, unless both threads had found none: only a
\* thread about to set a result changes one, and it found none.
THEOREM ResultStays == CallSpec => ResultStaysUnlessRaced
<1>. DEFINE Stays == \A t \in Tasks : (result[t] # "none" /\ result'[t] # result[t]) => t \in raced
<1>1. ASSUME CallInv, NEW w \in Threads, SetResult(w) PROVE Stays
  <2>1. delivering[w].at = "setting" BY <1>1 DEF SetResult
  <2>2. result[delivering[w].task] = "none" \/ delivering[w].task \in raced
    BY <1>1, <2>1 DEF CallInv, SettersFoundNone
  <2>3. \A t \in Tasks : t # delivering[w].task => result'[t] = result[t]
    BY <1>1 DEF SetResult, CallInv, CallTypeOK
  <2>. QED BY <2>2, <2>3
<1>2. CallNext => result' = result \/ \E w \in Threads : SetResult(w)
  BY DEF CallNext, Start, Sync, Refuse, Expire, Return, Throw, Drop, Cancel, Answer, Deliver,
         Respond, Check, FireChange, End
<1>3. CallInv /\ [CallNext]_callVars => [Stays]_callVars
  BY <1>1, <1>2 DEF callVars
<1>. QED BY <1>3, CallInvariance, PTL DEF CallSpec, ResultStaysUnlessRaced

-----------------------------------------------------------------------------
(***************************************************************************)
(* The other end.  Whoever appends to the results of a call, the endpoint  *)
(* that receives it, the listener, or the end of advise, finds it in a     *)
(* state which it leaves by that: a call that is asked, or whose task has  *)
(* the listener, has not been answered, and a call the endpoint attaches   *)
(* to has no result unless a thread overtook it.                           *)
(***************************************************************************)
EndpointTypeOK ==
  /\ asked \subseteq Calls /\ withdrawals \subseteq Calls
  /\ handlerSet \in BOOLEAN /\ endpointAlive \in BOOLEAN
  /\ attaching = Nowhere \/ attaching \in [call : Calls, at : {"binding", "advised"}]
  /\ task \in [Calls -> TaskResults \cup {"none"}]
  /\ completing \subseteq Calls /\ listening \subseteq Calls /\ cancellable \subseteq Calls
  /\ wired \subseteq Calls /\ held \subseteq Calls /\ stranded \subseteq Calls
  /\ sent \in [Calls -> Seq(TaskResults)]
  /\ overtaken \subseteq Calls /\ unanswered \subseteq Calls

\* Nothing outlives the endpoint, and a call is cancellable while it is heard.
EndsTogether ==
  /\ cancellable = listening
  /\ ~endpointAlive => held = {} /\ wired = {} /\ listening = {}

CallUnanswered(c) ==
  /\ c \in asked => /\ sent[c] = <<>> /\ task[c] = "none"
                    /\ c \notin listening /\ c \notin held /\ c \notin wired
  /\ c \in listening => sent[c] = <<>>
  /\ attaching = [call |-> c, at |-> "binding"] => sent[c] = <<>> /\ c \notin listening
  /\ c \in completing => task[c] # "none"
  /\ attaching.call = c => c \notin asked /\ (task[c] = "none" \/ c \in overtaken)

AnsweredOnce(c) ==
  /\ Len(sent[c]) <= 1
  /\ (sent[c] # <<>> /\ c \in held) => \/ c \in wired /\ sent[c] = <<"Success">>
                                       \/ c \in stranded /\ sent[c] = <<"Fault">>

EndpointInv ==
  /\ EndpointTypeOK /\ EndsTogether
  /\ \A c \in Calls : CallUnanswered(c) /\ (c \notin overtaken => AnsweredOnce(c))

\* What becomes of a call that a step is not about, or only takes from.
LEMMA Elsewhere ==
  ASSUME NEW d \in Calls, CallUnanswered(d), d \notin overtaken => AnsweredOnce(d),
         d \in asked' => d \in asked, task'[d] = task[d], sent'[d] = sent[d],
         d \in listening' => d \in listening, d \in completing' => d \in completing,
         d \in held' => d \in held /\ (d \in wired => d \in wired'), d \in wired' => d \in wired,
         d \in overtaken => d \in overtaken', d \in stranded => d \in stranded',
         attaching' = attaching \/ attaching' = Nowhere
           \/ (attaching'.call = d => attaching = [call |-> d, at |-> "binding"] /\ attaching'.at # "binding"),
         NoCall # d
  PROVE  CallUnanswered(d)' /\ (d \notin overtaken' => AnsweredOnce(d)')
<1>1. attaching' = [call |-> d, at |-> "binding"] => attaching = [call |-> d, at |-> "binding"]
  BY DEF Nowhere
<1>2. attaching'.call = d => attaching.call = d BY DEF Nowhere
<1>. QED BY <1>1, <1>2 DEF CallUnanswered, AnsweredOnce

\* A result is handled: it is sent, and bound or released.
LEMMA Handled ==
  ASSUME EndpointTypeOK, EndsTogether, NEW c \in Calls, NEW r \in TaskResults, HandleResult(c, r)
  PROVE  /\ sent' \in [Calls -> Seq(TaskResults)] /\ wired' \subseteq Calls /\ held' \subseteq Calls
         /\ stranded' \subseteq Calls /\ stranded \subseteq stranded'
         /\ \A d \in Calls : d # c => /\ sent'[d] = sent[d]
                                      /\ d \in held' <=> d \in held
                                      /\ d \in wired' <=> d \in wired
         /\ ~endpointAlive => held' = {} /\ wired' = {}
         /\ sent[c] = <<>> => AnsweredOnce(c)'
<1>. USE DEF EndpointTypeOK, HandleResult
<1>1. PICK x \in TaskResults : sent' = [sent EXCEPT ![c] = Append(@, x)] BY DEF TaskResults
<1>2. sent[c] \in Seq(TaskResults) OBVIOUS
<1>3. Append(sent[c], x) \in Seq(TaskResults) BY <1>2
<1>4. sent' \in [Calls -> Seq(TaskResults)] /\ sent'[c] = Append(sent[c], x) BY <1>1, <1>3
<1>5. sent[c] = <<>> => AnsweredOnce(c)'
  <2>. SUFFICES ASSUME sent[c] = <<>> PROVE AnsweredOnce(c)' OBVIOUS
  <2>1. sent'[c] = <<x>> /\ Len(sent'[c]) = 1 BY <1>4
  <2>2. c \in held' => \/ c \in wired' /\ sent'[c] = Append(sent[c], "Success")
                       \/ c \in stranded' /\ sent'[c] = Append(sent[c], "Fault")
    <3>1. \A y : sent' = [sent EXCEPT ![c] = Append(@, y)] => sent'[c] = Append(sent[c], y) OBVIOUS
    <3>2. CASE held' = held \ {c} BY <3>2
    <3>3. CASE c \in wired' /\ r = "Success" /\ sent' = [sent EXCEPT ![c] = Append(@, r)]
      <4>1. sent' = [sent EXCEPT ![c] = Append(@, "Success")] BY <3>3
      <4>2. sent'[c] = Append(sent[c], "Success") BY <3>1, <4>1
      <4>. QED BY <3>3, <4>2
    <3>4. CASE c \in stranded' /\ sent' = [sent EXCEPT ![c] = Append(@, "Fault")] BY <3>1, <3>4
    <3>. QED BY <3>2, <3>3, <3>4
  <2>3. Append(<<>>, "Success") = <<"Success">> /\ Append(<<>>, "Fault") = <<"Fault">> OBVIOUS
  <2>. QED BY <2>1, <2>2, <2>3 DEF AnsweredOnce
<1>. QED BY <1>1, <1>4, <1>5 DEF EndsTogether

\* A call that has not been answered is answered, and leaves the state it was in.
LEMMA AnswersIt ==
  ASSUME EndpointInv, NEW c \in Calls, NEW r \in TaskResults, HandleResult(c, r),
         listening' = listening \ {c}, cancellable' = cancellable \ {c},
         c \notin asked', asked' \subseteq asked,
         attaching' = attaching \/ attaching' = Nowhere,
         attaching' # [call |-> c, at |-> "binding"],
         task' \in [Calls -> TaskResults \cup {"none"}], \A d \in Calls : d # c => task'[d] = task[d],
         attaching'.call = c => c \in overtaken,
         completing' \subseteq completing, task'[c] # "none", withdrawals' \subseteq Calls,
         UNCHANGED <<handlerSet, endpointAlive, propertyVars>>,
         sent[c] = <<>> \/ c \in overtaken
  PROVE  EndpointInv'
<1>. USE DEF EndpointInv, propertyVars
<1>1. /\ sent' \in [Calls -> Seq(TaskResults)] /\ wired' \subseteq Calls /\ held' \subseteq Calls
      /\ stranded' \subseteq Calls /\ stranded \subseteq stranded'
      /\ \A d \in Calls : d # c => /\ sent'[d] = sent[d]
                                   /\ d \in held' <=> d \in held
                                   /\ d \in wired' <=> d \in wired
      /\ ~endpointAlive => held' = {} /\ wired' = {}
      /\ sent[c] = <<>> => AnsweredOnce(c)'
  BY Handled
<1>2. EndpointTypeOK' BY <1>1 DEF EndpointTypeOK
<1>3. EndsTogether' BY <1>1 DEF EndsTogether
<1>4. ASSUME NEW d \in Calls, d # c PROVE CallUnanswered(d)' /\ (d \notin overtaken' => AnsweredOnce(d)')
  BY <1>1, <1>4, Elsewhere, RdEndpointAssumption
<1>5. CallUnanswered(c)' /\ (c \notin overtaken' => AnsweredOnce(c)')
  BY <1>1 DEF CallUnanswered
<1>. QED BY <1>2, <1>3, <1>4, <1>5

\* A handler is set, or a message is sent under the identity of a call.
LEMMA QuietSteps ==
  ASSUME EndpointInv, SetHandler \/ \E c \in Calls : Withdraw(c)
  PROVE  EndpointInv'
<1>1. /\ UNCHANGED <<asked, endpointAlive, attaching, taskVars, propertyVars>>
      /\ withdrawals' \subseteq Calls /\ handlerSet' \in BOOLEAN
  <2>0. withdrawals \subseteq Calls /\ handlerSet \in BOOLEAN BY DEF EndpointInv, EndpointTypeOK
  <2>1. CASE SetHandler BY <2>0, <2>1 DEF SetHandler
  <2>2. ASSUME NEW c \in Calls, Withdraw(c)
        PROVE  /\ UNCHANGED <<asked, endpointAlive, attaching, taskVars, propertyVars>>
               /\ withdrawals' \subseteq Calls /\ handlerSet' = handlerSet
    BY <2>0, <2>2 DEF Withdraw
  <2>. QED BY <2>0, <2>1, <2>2
<1>. QED BY <1>1 DEF EndpointInv, EndpointTypeOK, EndsTogether, CallUnanswered, AnsweredOnce, taskVars,
                    callingVars, resultVars, propertyVars

\* The endpoint receives a call.
LEMMA ReceiveCallStep ==
  ASSUME EndpointInv, NEW c \in Calls, ReceiveCall(c)
  PROVE  EndpointInv'
<1>. USE DEF ReceiveCall, EndpointInv, propertyVars
<1>0. /\ c \notin asked' /\ asked' \subseteq asked /\ attaching = Nowhere
      /\ sent[c] = <<>> /\ task[c] = "none" /\ c \notin listening /\ c \notin held /\ c \notin wired
  BY DEF CallUnanswered
<1>1. CASE unanswered' = unanswered \cup {c} /\ UNCHANGED <<attaching, taskVars>>
  <2>1. EndpointTypeOK' BY <1>1 DEF EndpointTypeOK, taskVars, callingVars, resultVars
  <2>2. EndsTogether' BY <1>1 DEF EndsTogether, taskVars, callingVars, resultVars
  <2>3. ASSUME NEW d \in Calls PROVE CallUnanswered(d)' /\ (d \notin overtaken' => AnsweredOnce(d)')
    BY <1>0, <1>1, <2>3, Elsewhere, RdEndpointAssumption DEF taskVars, callingVars, resultVars
  <2>. QED BY <2>1, <2>2, <2>3
<1>2. CASE /\ \E r \in TaskResults : task' = [task EXCEPT ![c] = r] /\ HandleResult(c, r)
           /\ UNCHANGED <<attaching, completing, callingVars, unanswered>>
  <2>1. PICK r \in TaskResults : task' = [task EXCEPT ![c] = r] /\ HandleResult(c, r) BY <1>2
  <2>2. listening' = listening \ {c} /\ cancellable' = cancellable \ {c}
    BY <1>0, <1>2 DEF callingVars, EndsTogether
  <2>3. attaching'.call # c /\ attaching' # [call |-> c, at |-> "binding"]
    BY <1>0, <1>2, RdEndpointAssumption DEF Nowhere
  <2>4. /\ task' \in [Calls -> TaskResults \cup {"none"}]
        /\ \A d \in Calls : d # c => task'[d] = task[d]
        /\ completing' \subseteq completing /\ task'[c] # "none" /\ withdrawals' \subseteq Calls
    BY <1>2, <2>1 DEF EndpointTypeOK, TaskResults
  <2>. HIDE DEF ReceiveCall, EndpointInv, propertyVars
  <2>5. UNCHANGED <<handlerSet, endpointAlive, propertyVars>> BY <1>2 DEF ReceiveCall, propertyVars
  <2>6. attaching' = attaching /\ (attaching'.call = c => c \in overtaken) BY <1>2, <2>3
  <2>7. c \notin asked' /\ asked' \subseteq asked /\ sent[c] = <<>> BY <1>0
  <2>8. HandleResult(c, r) BY <2>1
  <2>. QED BY <2>2, <2>3, <2>4, <2>5, <2>6, <2>7, <2>8, AnswersIt
<1>3. CASE /\ endpointAlive /\ attaching' = [call |-> c, at |-> "binding"] /\ held' = held \cup {c}
           /\ UNCHANGED <<task, completing, callingVars, wired, sent, stranded, unanswered>>
  <2>1. EndpointTypeOK' BY <1>3 DEF EndpointTypeOK, callingVars
  <2>2. EndsTogether' BY <1>3 DEF EndsTogether, callingVars
  <2>3. ASSUME NEW d \in Calls, d # c PROVE CallUnanswered(d)' /\ (d \notin overtaken' => AnsweredOnce(d)')
    BY <1>0, <1>3, <2>3, Elsewhere, RdEndpointAssumption DEF callingVars
  <2>4. CallUnanswered(c)' /\ (c \notin overtaken' => AnsweredOnce(c)')
    BY <1>0, <1>3 DEF CallUnanswered, AnsweredOnce, callingVars
  <2>. QED BY <2>1, <2>2, <2>3, <2>4
<1>. QED BY <1>1, <1>2, <1>3

\* The endpoint attaches itself to the task, or finds its own lifetime ended.
LEMMA AttachStep ==
  ASSUME EndpointInv, Attach
  PROVE  EndpointInv'
<1>. USE DEF EndpointInv
<1>1. PICK c \in Calls : c = attaching.call /\ attaching = [call |-> c, at |-> "binding"]
  BY DEF Attach, EndpointTypeOK, Nowhere
<1>2. /\ sent[c] = <<>> /\ c \notin listening /\ c \notin asked
      /\ task[c] = "none" \/ c \in overtaken
  BY <1>1 DEF CallUnanswered
<1>3. UNCHANGED <<asked, withdrawals, handlerSet, endpointAlive, task, completing, wired, held,
                  stranded, overtaken, unanswered>>
  BY DEF Attach, propertyVars
<1>4. CASE endpointAlive
  <2>1. /\ attaching' = [call |-> c, at |-> "advised"]
        /\ cancellable' = cancellable \cup {c} /\ listening' = listening \cup {c} /\ sent' = sent
    BY <1>1, <1>4 DEF Attach
  <2>2. EndpointTypeOK' BY <1>3, <2>1 DEF EndpointTypeOK
  <2>3. EndsTogether' BY <1>3, <1>4, <2>1 DEF EndsTogether
  <2>4. ASSUME NEW d \in Calls, d # c PROVE CallUnanswered(d)' /\ (d \notin overtaken' => AnsweredOnce(d)')
    BY <1>1, <1>3, <2>1, <2>4, Elsewhere, RdEndpointAssumption
  <2>5. CallUnanswered(c)' /\ (c \notin overtaken' => AnsweredOnce(c)')
    BY <1>2, <1>3, <2>1 DEF CallUnanswered, AnsweredOnce
  <2>. QED BY <2>2, <2>3, <2>4, <2>5
<1>5. CASE ~endpointAlive
  <2>1. /\ attaching' = Nowhere /\ sent' = [sent EXCEPT ![c] = Append(@, "Fault")]
        /\ UNCHANGED <<listening, cancellable>>
    BY <1>1, <1>5 DEF Attach, callingVars
  <2>2. sent' \in [Calls -> Seq(TaskResults)] /\ sent'[c] = <<"Fault">>
    <3>1. Append(sent[c], "Fault") = <<"Fault">> BY <1>2
    <3>2. "Fault" \in TaskResults BY DEF TaskResults
    <3>. QED BY <2>1, <3>1, <3>2 DEF EndpointTypeOK
  <2>3. EndpointTypeOK' BY <1>3, <2>1, <2>2 DEF EndpointTypeOK
  <2>4. EndsTogether' BY <1>3, <2>1 DEF EndsTogether
  <2>5. ASSUME NEW d \in Calls, d # c PROVE CallUnanswered(d)' /\ (d \notin overtaken' => AnsweredOnce(d)')
    <3>1. sent'[d] = sent[d] BY <2>1, <2>5 DEF EndpointTypeOK
    <3>. QED BY <1>1, <1>3, <2>1, <2>5, <3>1, Elsewhere, RdEndpointAssumption
  <2>6. c \notin held BY <1>5 DEF EndsTogether
  <2>7. attaching' # [call |-> c, at |-> "binding"] /\ attaching'.call # c
    BY <2>1, RdEndpointAssumption DEF Nowhere
  <2>8. CallUnanswered(c)' BY <1>2, <1>3, <2>1, <2>7 DEF CallUnanswered
  <2>9. AnsweredOnce(c)' BY <1>3, <2>2, <2>6 DEF AnsweredOnce
  <2>. QED BY <2>3, <2>4, <2>5, <2>8, <2>9
<1>. QED BY <1>4, <1>5

\* The end of advise handles a value only if a thread was faster.
LEMMA AttachedStep ==
  ASSUME EndpointInv, Attached
  PROVE  EndpointInv'
<1>1. PICK c \in Calls : c = attaching.call /\ attaching = [call |-> c, at |-> "advised"]
  BY DEF Attached, EndpointInv, EndpointTypeOK, Nowhere
<1>2. c \notin asked /\ (task[c] = "none" \/ c \in overtaken) BY <1>1 DEF EndpointInv, CallUnanswered
<1>3. /\ UNCHANGED <<asked, withdrawals, handlerSet, endpointAlive, task, completing, propertyVars>>
      /\ AdviseValue(c) /\ attaching' = Nowhere
  BY <1>1 DEF Attached
<1>4. attaching'.call # c /\ attaching' # [call |-> c, at |-> "binding"]
  BY <1>3, RdEndpointAssumption DEF Nowhere
<1>5. CASE task[c] = "none"
  <2>1. UNCHANGED <<listening, cancellable, wired, held, sent, stranded, overtaken, unanswered>>
    BY <1>3, <1>5 DEF AdviseValue, callingVars, resultVars, propertyVars
  <2>2. EndpointTypeOK' BY <1>3, <2>1 DEF EndpointInv, EndpointTypeOK
  <2>3. EndsTogether' BY <1>3, <2>1 DEF EndpointInv, EndsTogether
  <2>4. ASSUME NEW d \in Calls PROVE CallUnanswered(d)' /\ (d \notin overtaken' => AnsweredOnce(d)')
    BY <1>3, <2>1, <2>4, Elsewhere, RdEndpointAssumption DEF EndpointInv
  <2>. QED BY <2>2, <2>3, <2>4 DEF EndpointInv
<1>6. CASE task[c] # "none"
  <2>1. /\ HandleResult(c, task[c]) /\ task[c] \in TaskResults
        /\ listening' = listening \ {c} /\ cancellable' = cancellable \ {c}
    BY <1>3, <1>6 DEF AdviseValue, Answered, EndpointInv, EndpointTypeOK
  <2>2. c \in overtaken BY <1>2, <1>6
  <2>3. /\ task' \in [Calls -> TaskResults \cup {"none"}]
        /\ \A d \in Calls : d # c => task'[d] = task[d]
        /\ completing' \subseteq completing /\ task'[c] # "none" /\ withdrawals' \subseteq Calls
    BY <1>3, <1>6 DEF EndpointInv, EndpointTypeOK
  <2>. QED BY <1>2, <1>3, <1>4, <2>1, <2>2, <2>3, AnswersIt
<1>. QED BY <1>5, <1>6

\* A thread completes the task; if the endpoint attaches itself, it is overtaken.
LEMMA CompleteStep ==
  ASSUME EndpointInv, NEW c \in Calls, NEW r \in {"Success", "Fault"}, Complete(c, r)
  PROVE  EndpointInv'
<1>. USE DEF EndpointInv
<1>1. /\ task' = [task EXCEPT ![c] = r] /\ completing' = completing \cup {c}
      /\ overtaken' = IF attaching.call = c THEN overtaken \cup {c} ELSE overtaken
      /\ UNCHANGED <<asked, withdrawals, handlerSet, endpointAlive, attaching, listening, cancellable,
                     wired, held, sent, stranded, unanswered>>
      /\ c \notin asked \/ task[c] = "Cancelled"
  BY DEF Complete, Unfinished, callingVars, resultVars
<1>2. EndpointTypeOK' BY <1>1 DEF EndpointTypeOK, TaskResults
<1>3. EndsTogether' BY <1>1 DEF EndsTogether
<1>4. ASSUME NEW d \in Calls, d # c PROVE CallUnanswered(d)' /\ (d \notin overtaken' => AnsweredOnce(d)')
  <2>1. task'[d] = task[d] BY <1>1, <1>4 DEF EndpointTypeOK
  <2>. QED BY <1>1, <1>4, <2>1, Elsewhere, RdEndpointAssumption
<1>5. c \notin asked BY <1>1 DEF CallUnanswered
<1>6. CallUnanswered(c)' /\ (c \notin overtaken' => AnsweredOnce(c)')
  <2>1. task'[c] = r /\ r # "none" BY <1>1 DEF EndpointTypeOK
  <2>. QED BY <1>1, <1>5, <2>1 DEF CallUnanswered, AnsweredOnce
<1>. QED BY <1>2, <1>3, <1>4, <1>6

\* Its listeners are called, those that are still there.
LEMMA CompletedStep ==
  ASSUME EndpointInv, NEW c \in Calls, Completed(c)
  PROVE  EndpointInv'
<1>1. /\ UNCHANGED <<asked, withdrawals, handlerSet, endpointAlive, attaching, task, propertyVars>>
      /\ completing' = completing \ {c}
  BY DEF Completed
<1>2. CASE c \notin listening
  <2>1. UNCHANGED <<listening, cancellable, wired, held, sent, stranded>>
    BY <1>2 DEF Completed, callingVars, resultVars
  <2>. QED BY <1>1, <2>1 DEF EndpointInv, EndpointTypeOK, EndsTogether, CallUnanswered, AnsweredOnce,
                             propertyVars
<1>3. CASE c \in listening
  <2>1. /\ HandleResult(c, task[c]) /\ listening' = listening \ {c} /\ cancellable' = cancellable \ {c}
    BY <1>3 DEF Completed, Answered
  <2>2. /\ c \notin asked /\ sent[c] = <<>> /\ task[c] # "none"
        /\ attaching # [call |-> c, at |-> "binding"]
        /\ attaching.call = c => c \in overtaken
    BY <1>3 DEF Completed, EndpointInv, CallUnanswered
  <2>3. /\ task[c] \in TaskResults /\ task' \in [Calls -> TaskResults \cup {"none"}]
        /\ completing' \subseteq completing /\ withdrawals' \subseteq Calls
    BY <1>1, <2>2 DEF EndpointInv, EndpointTypeOK
  <2>. QED BY <1>1, <2>1, <2>2, <2>3, AnswersIt
<1>. QED BY <1>2, <1>3

\* A message under the identity of the call cancels it, releases its result, or
\* comes too late.
LEMMA ReceiveWithdrawalStep ==
  ASSUME EndpointInv, NEW c \in Calls, ReceiveWithdrawal(c)
  PROVE  EndpointInv'
<1>1. /\ attaching = Nowhere /\ withdrawals' = withdrawals \ {c}
      /\ UNCHANGED <<asked, handlerSet, endpointAlive, attaching, completing, propertyVars>>
  BY DEF ReceiveWithdrawal
<1>2. CASE /\ c \in cancellable /\ task' = [task EXCEPT ![c] = "Cancelled"]
           /\ Answered(c, "Cancelled")
  <2>1. /\ HandleResult(c, "Cancelled") /\ "Cancelled" \in TaskResults
        /\ listening' = listening \ {c} /\ cancellable' = cancellable \ {c}
    BY <1>2 DEF Answered, TaskResults
  <2>2. c \notin asked /\ sent[c] = <<>>
    BY <1>2 DEF EndpointInv, EndsTogether, CallUnanswered
  <2>3. attaching'.call # c /\ attaching' # [call |-> c, at |-> "binding"]
    BY <1>1, RdEndpointAssumption DEF Nowhere
  <2>4. /\ task' \in [Calls -> TaskResults \cup {"none"}] /\ task'[c] # "none"
        /\ \A d \in Calls : d # c => task'[d] = task[d]
    BY <1>2, <2>1 DEF EndpointInv, EndpointTypeOK
  <2>5. completing' \subseteq completing /\ withdrawals' \subseteq Calls
    BY <1>1 DEF EndpointInv, EndpointTypeOK
  <2>. QED BY <1>1, <2>1, <2>2, <2>3, <2>4, <2>5, AnswersIt
<1>3. CASE /\ wired' = wired \ {c} /\ held' = held \ {c}
           /\ UNCHANGED <<task, callingVars, sent, stranded>>
  <2>1. EndpointTypeOK' BY <1>1, <1>3 DEF EndpointInv, EndpointTypeOK, callingVars, propertyVars
  <2>2. EndsTogether' BY <1>1, <1>3 DEF EndpointInv, EndsTogether, callingVars
  <2>3. ASSUME NEW d \in Calls PROVE CallUnanswered(d)' /\ (d \notin overtaken' => AnsweredOnce(d)')
    BY <1>1, <1>3, <2>3, Elsewhere, RdEndpointAssumption DEF EndpointInv, callingVars, propertyVars
  <2>. QED BY <2>1, <2>2, <2>3 DEF EndpointInv
<1>4. CASE UNCHANGED <<task, callingVars, resultVars>>
  BY <1>1, <1>4 DEF EndpointInv, EndpointTypeOK, EndsTogether, CallUnanswered, AnsweredOnce,
                    callingVars, resultVars, propertyVars
<1>. QED BY <1>2, <1>3, <1>4 DEF ReceiveWithdrawal

\* The bind lifetime of the endpoint ends.
LEMMA EndEndpointStep ==
  ASSUME EndpointInv, EndEndpoint
  PROVE  EndpointInv'
<1>. USE DEF EndEndpoint, EndpointInv
<1>1. EndpointTypeOK' BY DEF EndpointTypeOK
<1>2. EndsTogether' BY DEF EndsTogether
<1>3. ASSUME NEW d \in Calls PROVE CallUnanswered(d)' /\ (d \notin overtaken' => AnsweredOnce(d)')
  BY <1>3, Elsewhere, RdEndpointAssumption
<1>. QED BY <1>1, <1>2, <1>3

\* Every call is asked once, and nothing has become of it.
LEMMA EndpointStarts == EndpointInit => EndpointInv
<1>. SUFFICES ASSUME EndpointInit PROVE EndpointInv OBVIOUS
<1>. USE DEF EndpointInit
<1>1. EndpointTypeOK
  <2>1. sent \in [Calls -> Seq(TaskResults)] /\ task \in [Calls -> TaskResults \cup {"none"}] OBVIOUS
  <2>. QED BY <2>1 DEF EndpointTypeOK
<1>2. EndsTogether BY DEF EndsTogether
<1>3. ASSUME NEW c \in Calls PROVE CallUnanswered(c) /\ AnsweredOnce(c)
  <2>1. sent[c] = <<>> /\ Len(sent[c]) = 0 OBVIOUS
  <2>2. attaching.call # c /\ attaching # [call |-> c, at |-> "binding"]
    BY RdEndpointAssumption DEF Nowhere
  <2>. QED BY <2>1, <2>2 DEF CallUnanswered, AnsweredOnce
<1>. QED BY <1>1, <1>2, <1>3 DEF EndpointInv

\* The inductive invariant of calls at the other end, for any number of calls.
THEOREM EndpointInvariance == EndpointSpec => []EndpointInv
<1>1. EndpointInv /\ [EndpointNext]_endpointVars => EndpointInv'
  <2>. SUFFICES ASSUME EndpointInv, [EndpointNext]_endpointVars PROVE EndpointInv' OBVIOUS
  <2>1. CASE EndpointNext
    BY <2>1, QuietSteps, ReceiveCallStep, AttachStep, AttachedStep, CompleteStep, CompletedStep,
       ReceiveWithdrawalStep, EndEndpointStep DEF EndpointNext
  <2>2. CASE UNCHANGED endpointVars
    BY <2>2 DEF EndpointInv, EndpointTypeOK, EndsTogether, CallUnanswered, AnsweredOnce, endpointVars,
                taskVars, callingVars, resultVars, propertyVars
  <2>. QED BY <2>1, <2>2
<1>. QED BY <1>1, EndpointStarts, PTL DEF EndpointSpec

\* The types of its state.
THEOREM EndpointTypeCorrect == EndpointSpec => []EndpointTypeOK
<1>1. EndpointInv => EndpointTypeOK BY DEF EndpointInv
<1>. QED BY <1>1, EndpointInvariance, PTL

\* A call is answered once, and its bound result can be released, or failed on its
\* way, unless another thread overtook the endpoint while that attached itself to the task.
THEOREM AnsweredTheorem == EndpointSpec => []AnsweredOnceUnlessOvertaken
<1>1. EndpointInv => AnsweredOnceUnlessOvertaken
  BY DEF EndpointInv, AnsweredOnceUnlessOvertaken, AnsweredOnce
<1>. QED BY <1>1, EndpointInvariance, PTL
===============================================================================
