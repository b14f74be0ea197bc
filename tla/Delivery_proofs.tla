----------------------------- MODULE Delivery_proofs ---------------------------
(***************************************************************************)
(* Messages on their way to the wire and from the wire to the entities.    *)
(*                                                                         *)
(* ExtWire, for any threads, sends and bindings: a connected ext leaves no *)
(* message behind in sendQ; what a thread sends arrives in order; it is    *)
(* lost only at an end that has unbound the ext.                           *)
(*                                                                         *)
(* The broker keeps the order of the wire for each id, over its three      *)
(* queues and the unlocked steps of the worker.  Whatever waits for an id, *)
(* with the default scheduler, in the entry of the id or in the hands of   *)
(* the worker, comes after what was handled and before what is behind it:  *)
(* first the messages from before the subscription, one for each action,   *)
(* then those from after it.  The worker empties an entry only when no     *)
(* action is left for it.                                                  *)
(***************************************************************************)
EXTENDS ExtWire, MessageBroker, SequenceTheorems, FiniteSetTheorems, TLAPS

\* EXTWIRE

\* The lock is held by the thread that is about to enqueue, and by no other.
LockHeld ==
  \A p \in Peers, t \in Threads : sender[p][t] = "enqueue" <=> lock[p] = t

IInv == TypeOK /\ LockHeld /\ NothingLeftBehind

\* The counterpart of an end is an end.
LEMMA OtherPeer == \A p \in Peers : Other(p) \in Peers
<1>. SUFFICES ASSUME NEW p \in Peers PROVE Other(p) \in Peers
  OBVIOUS
<1>1. \E q \in Peers : q # p
  BY ExtWireAssumption
<1>. QED
  BY <1>1 DEF Other

\* The invariant holds before anything is bound.
LEMMA InitInv == Init => IInv
<1>. SUFFICES ASSUME Init PROVE IInv
  OBVIOUS
<1>1. TypeOK
  BY DEF Init, TypeOK, Phase
<1>2. LockHeld /\ NothingLeftBehind
  BY ExtWireAssumption DEF Init, LockHeld, NothingLeftBehind
<1>. QED
  BY <1>1, <1>2 DEF IInv
-----------------------------------------------------------------------------
\* Types.  What is transmitted is a sequence of messages.
LEMMA TransmitType ==
  ASSUME TypeOK, NEW p \in Peers, NEW messages \in Seq(Message),
         Transmit(p, messages)
  PROVE  wire' \in [Peers -> Seq(Message)]
<1>1. wire[Other(p)] \in Seq(Message)
  BY OtherPeer DEF TypeOK
<1>2. wire[Other(p)] \o messages \in Seq(Message)
  BY <1>1
<1>. QED
  BY <1>2, OtherPeer DEF Transmit, TypeOK

\* The messages of the handshake are messages.
LEMMA ExtType == \A state \in ExtState : Ext(state) \in Message
  BY DEF Ext, Message, ExtMessage

\* What a thread sends next is a message for a member.
LEMMA PayloadType ==
  ASSUME TypeOK, NEW p \in Peers, NEW t \in Threads
  PROVE  /\ Payload(t, sent[p][t]) \in MemberMessage
         /\ Payload(t, sent[p][t]) \in Message
<1>1. sent[p][t] \in Nat
  BY DEF TypeOK
<1>. QED
  BY <1>1 DEF Payload, MemberMessage, Message

\* Binding keeps the types.
LEMMA BindType == ASSUME TypeOK, NEW p \in Peers, Bind(p) PROVE TypeOK'
<1>1. CASE BindAdvise(p)
  BY <1>1 DEF BindAdvise, TypeOK, Phase, sendVars, arrivalVars
<1>2. CASE BindAnnounce(p)
  <2>1. <<Ext("Ready")>> \in Seq(Message)
    BY ExtType DEF ExtState
  <2>2. wire' \in [Peers -> Seq(Message)]
    BY <1>2, <2>1, TransmitType DEF BindAnnounce
  <2>. QED
    BY <1>2, <2>2 DEF BindAnnounce, TypeOK, Phase, extVars, sendVars, arrivalVars
<1>3. CASE BindMembers(p)
  BY <1>3 DEF BindMembers, TypeOK, Phase, extVars, sendVars, arrivalVars
<1>. QED
  BY <1>1, <1>2, <1>3 DEF Bind

\* Unbinding keeps the types.
LEMMA UnbindType == ASSUME TypeOK, NEW p \in Peers, Unbind(p) PROVE TypeOK'
<1>1. CASE UnbindMembers(p)
  BY <1>1 DEF UnbindMembers, TypeOK, Phase, extVars, sendVars, arrivalVars
<1>2. CASE UnbindAnnounce(p)
  <2>1. <<Ext("Disconnected")>> \in Seq(Message)
    BY ExtType DEF ExtState
  <2>2. wire' \in [Peers -> Seq(Message)]
    BY <1>2, <2>1, TransmitType DEF UnbindAnnounce
  <2>. QED
    BY <1>2, <2>2
      DEF UnbindAnnounce, TypeOK, Phase, extVars, sendVars, arrivalVars
<1>3. CASE Unsubscribe(p)
  BY <1>3 DEF Unsubscribe, TypeOK, Phase, extVars, sendVars, arrivalVars
<1>. QED
  BY <1>1, <1>2, <1>3 DEF Unbind

\* Every part of a send keeps the types.
LEMMA SendType ==
  ASSUME TypeOK, NEW p \in Peers, NEW t \in Threads, Send(p, t)
  PROVE  TypeOK'
<1>1. CASE SendLock(p, t)
  <2>1. sent' \in [Peers -> [Threads -> Nat]]
    BY <1>1 DEF SendLock, TypeOK
  <2>2. /\ sender' \in [Peers -> [Threads -> {"idle", "enqueue", "transmit"}]]
        /\ lock' \in [Peers -> Threads \cup {"free"}]
    <3>1. CASE sendQ[p] # <<>> \/ ~connected[p]
      <4>1. /\ sender' = [sender EXCEPT ![p][t] = "enqueue"]
            /\ lock' = [lock EXCEPT ![p] = t]
        BY <1>1, <3>1 DEF SendLock
      <4>. QED
        BY <4>1 DEF TypeOK
    <3>2. CASE ~(sendQ[p] # <<>> \/ ~connected[p])
      <4>1. sender' = [sender EXCEPT ![p][t] = "transmit"] /\ lock' = lock
        BY <1>1, <3>2 DEF SendLock
      <4>. QED
        BY <4>1 DEF TypeOK
    <3>. QED
      BY <3>1, <3>2
  <2>. QED
    BY <1>1, <2>1, <2>2 DEF SendLock, TypeOK, arrivalVars
<1>2. CASE SendEnqueue(p, t)
  <2>1. sendQ' \in [Peers -> Seq(MemberMessage)]
    BY <1>2, PayloadType DEF SendEnqueue, TypeOK
  <2>. QED
    BY <1>2, <2>1 DEF SendEnqueue, TypeOK, arrivalVars
<1>3. CASE SendTransmit(p, t)
  <2>1. <<Payload(t, sent[p][t])>> \in Seq(Message)
    BY PayloadType
  <2>2. wire' \in [Peers -> Seq(Message)]
    BY <1>3, <2>1, TransmitType DEF SendTransmit
  <2>. QED
    BY <1>3, <2>2 DEF SendTransmit, TypeOK, extVars, arrivalVars
<1>. QED
  BY <1>1, <1>2, <1>3 DEF Send

\* The listener of connected keeps the types.
LEMMA FlushType == ASSUME TypeOK, NEW p \in Peers, Flush(p) PROVE TypeOK'
<1>1. sendQ[p] \in Seq(Message)
  <2>1. sendQ[p] \in Seq(MemberMessage)
    BY DEF TypeOK
  <2>. QED
    BY <2>1 DEF Message
<1>2. wire' \in [Peers -> Seq(Message)]
  BY <1>1, TransmitType DEF Flush
<1>3. sendQ' \in [Peers -> Seq(MemberMessage)]
  <2>1. <<>> \in Seq(MemberMessage)
    OBVIOUS
  <2>. QED
    BY <2>1 DEF Flush, TypeOK
<1>4. firing' \in [Peers -> BOOLEAN]
  BY DEF Flush, TypeOK
<1>. QED
  BY <1>2, <1>3, <1>4 DEF Flush, TypeOK, sendVars, arrivalVars

\* The handling of the counterpart's state keeps the types.
LEMMA OnStateType ==
  ASSUME TypeOK, NEW p \in Peers, NEW message \in ExtMessage,
         OnState(p, message)
  PROVE  /\ connected' \in [Peers -> BOOLEAN] /\ firing' \in [Peers -> BOOLEAN]
         /\ sendQ' = sendQ /\ lock' = lock
         /\ Reply(message) \in Seq(Message)
<1>1. Reply(message) \in Seq(Message)
  BY ExtType DEF Reply, ExtState
<1>. QED
  BY <1>1 DEF OnState, SetConnected, TypeOK

\* Handling a message on the wire's thread keeps the types.
LEMMA ReceiveType == ASSUME TypeOK, NEW p \in Peers, Receive(p) PROVE TypeOK'
<1>. DEFINE message == Head(wire[p])
<1>1. wire[p] \in Seq(Message) /\ wire[p] # <<>> /\ tasks[p] \in Seq(Message)
  BY DEF Receive, TypeOK
<1>2. message \in Message /\ Tail(wire[p]) \in Seq(Message)
  BY <1>1
<1>. DEFINE at_once == /\ message \in ExtMessage /\ Subscribed(p)
                       /\ Range(tasks[p]) \cap ExtMessage = {}
<1>3. CASE at_once
  <2>1. /\ OnState(p, message)
        /\ wire' = [q \in Peers |-> IF q = p THEN Tail(wire[p])
                                    ELSE wire[q] \o Reply(message)]
        /\ tasks' = tasks
    BY <1>3 DEF Receive
  <2>2. /\ connected' \in [Peers -> BOOLEAN] /\ firing' \in [Peers -> BOOLEAN]
        /\ sendQ' = sendQ /\ lock' = lock
        /\ Reply(message) \in Seq(Message)
    BY <2>1, <1>3, OnStateType
  <2>3. \A q \in Peers : wire[q] \o Reply(message) \in Seq(Message)
    BY <2>2 DEF TypeOK
  <2>6. wire' \in [Peers -> Seq(Message)]
    BY <2>1, <2>3, <1>2
  <2>. QED
    BY <2>1, <2>2, <2>6 DEF Receive, TypeOK, sendVars
<1>4. CASE ~at_once
  <2>1. /\ wire' = [wire EXCEPT ![p] = Tail(@)]
        /\ tasks' = [tasks EXCEPT ![p] = Append(@, message)]
        /\ UNCHANGED extVars
    BY <1>4 DEF Receive
  <2>2. wire' \in [Peers -> Seq(Message)] /\ tasks' \in [Peers -> Seq(Message)]
    BY <2>1, <1>1, <1>2 DEF TypeOK
  <2>. QED
    BY <2>1, <2>2 DEF Receive, TypeOK, sendVars, extVars
<1>. QED
  BY <1>3, <1>4

\* A task of the default scheduler keeps the types.
LEMMA RunTaskType == ASSUME TypeOK, NEW p \in Peers, RunTask(p) PROVE TypeOK'
<1>. DEFINE message == Head(tasks[p])
<1>1. tasks[p] \in Seq(Message) /\ tasks[p] # <<>>
  BY DEF RunTask, TypeOK
<1>2. message \in Message /\ Tail(tasks[p]) \in Seq(Message)
  BY <1>1
<1>3. tasks' \in [Peers -> Seq(Message)]
  BY <1>2 DEF RunTask, TypeOK
<1>4. CASE message \in ExtMessage /\ Subscribed(p)
  <2>1. OnState(p, message) /\ Transmit(p, Reply(message))
    BY <1>4 DEF RunTask
  <2>2. /\ connected' \in [Peers -> BOOLEAN] /\ firing' \in [Peers -> BOOLEAN]
        /\ sendQ' = sendQ /\ lock' = lock
        /\ Reply(message) \in Seq(Message)
    BY <2>1, <1>4, OnStateType
  <2>3. wire' \in [Peers -> Seq(Message)]
    BY <2>1, <2>2, TransmitType
  <2>. QED
    BY <1>3, <1>4, <2>2, <2>3 DEF RunTask, TypeOK, sendVars
<1>5. CASE message \in ExtMessage /\ ~Subscribed(p)
  BY <1>3, <1>5 DEF RunTask, TypeOK, sendVars, extVars
<1>6. CASE message \notin ExtMessage
  <2>1. message \in MemberMessage
    BY <1>2, <1>6 DEF Message
  <2>2. /\ delivered' \in [Peers -> Seq(MemberMessage)]
        /\ lost' \in [Peers -> SUBSET MemberMessage]
    <3>1. CASE phase[p] = "bound"
      <4>1. delivered' = [delivered EXCEPT ![p] = Append(@, message)]
            /\ lost' = lost
        BY <3>1, <1>6 DEF RunTask
      <4>2. Append(delivered[p], message) \in Seq(MemberMessage)
        BY <2>1 DEF TypeOK
      <4>. QED
        BY <4>1, <4>2 DEF TypeOK
    <3>2. CASE phase[p] # "bound"
      <4>1. lost' = [lost EXCEPT ![p] = @ \cup {message}]
            /\ delivered' = delivered
        BY <3>2, <1>6 DEF RunTask
      <4>2. lost[p] \cup {message} \in SUBSET MemberMessage
        BY <2>1 DEF TypeOK
      <4>. QED
        BY <4>1, <4>2 DEF TypeOK
    <3>. QED
      BY <3>1, <3>2
  <2>. QED
    BY <1>3, <1>6, <2>2 DEF RunTask, TypeOK, sendVars, extVars
<1>. QED
  BY <1>4, <1>5, <1>6
-----------------------------------------------------------------------------
\* Every step keeps the types.
LEMMA NextType == TypeOK /\ [Next]_vars => TypeOK'
<1>. SUFFICES ASSUME TypeOK, [Next]_vars PROVE TypeOK'
  OBVIOUS
<1>1. CASE UNCHANGED vars
  BY <1>1 DEF vars, TypeOK, extVars, sendVars, arrivalVars
<1>2. ASSUME NEW p \in Peers,
             \/ Bind(p) \/ Unbind(p) \/ Receive(p) \/ RunTask(p) \/ Flush(p)
             \/ \E t \in Threads : Send(p, t)
      PROVE  TypeOK'
  BY <1>2, BindType, UnbindType, ReceiveType, RunTaskType, FlushType, SendType
<1>. QED
  BY <1>1, <1>2 DEF Next

\* Steps that leave the ext wire and its senders alone keep the rest.
LEMMA OthersKeep ==
  ASSUME LockHeld, NothingLeftBehind, UNCHANGED <<extVars, sender>>
  PROVE  LockHeld' /\ NothingLeftBehind'
  BY DEF LockHeld, NothingLeftBehind, extVars

\* A state message fires the listener when it connects; the ends that are
\* connected already have nothing left behind.
LEMMA OnStateKeeps ==
  ASSUME IInv, NEW p \in Peers, NEW message \in ExtMessage,
         OnState(p, message), ~firing[p], UNCHANGED sender
  PROVE  LockHeld' /\ NothingLeftBehind'
<1>1. LockHeld'
  BY DEF IInv, LockHeld, OnState
<1>2. ASSUME NEW q \in Peers, connected'[q], ~firing'[q]
      PROVE  connected[q] /\ ~firing[q]
  BY <1>2 DEF IInv, TypeOK, OnState, SetConnected
<1>3. NothingLeftBehind'
  BY <1>2 DEF IInv, NothingLeftBehind, OnState
<1>. QED
  BY <1>1, <1>3

\* Binding keeps the discipline of the lock and leaves nothing behind.
LEMMA BindKeeps ==
  ASSUME IInv, NEW p \in Peers, Bind(p) PROVE LockHeld' /\ NothingLeftBehind'
<1>1. CASE BindAdvise(p)
  <2>1. LockHeld'
    BY <1>1 DEF BindAdvise, IInv, LockHeld, sendVars
  <2>2. ASSUME NEW q \in Peers, connected'[q], ~firing'[q]
        PROVE  connected[q] /\ ~firing[q] /\ sendQ'[q] = sendQ[q]
    BY <2>2, <1>1 DEF BindAdvise, IInv, TypeOK
  <2>3. NothingLeftBehind'
    BY <2>2, <1>1 DEF IInv, NothingLeftBehind, BindAdvise, sendVars
  <2>. QED
    BY <2>1, <2>3
<1>2. CASE BindAnnounce(p) \/ BindMembers(p)
  BY <1>2, OthersKeep DEF BindAnnounce, BindMembers, IInv, sendVars
<1>. QED
  BY <1>1, <1>2 DEF Bind

\* A send leaves nothing behind: it looks at connected under the lock.
LEMMA SendKeeps ==
  ASSUME IInv, NEW p \in Peers, NEW t \in Threads, Send(p, t)
  PROVE  LockHeld' /\ NothingLeftBehind'
<1>1. CASE SendLock(p, t)
  <2>1. CASE sendQ[p] # <<>> \/ ~connected[p]
    <3>1. /\ sender' = [sender EXCEPT ![p][t] = "enqueue"]
          /\ lock' = [lock EXCEPT ![p] = t] /\ lock[p] = "free"
          /\ UNCHANGED <<sendQ, connected, firing>>
      BY <1>1, <2>1 DEF SendLock
    <3>2. \A u \in Threads : sender[p][u] # "enqueue"
      BY <3>1, ExtWireAssumption DEF IInv, LockHeld
    <3>3. LockHeld'
      <4>1. \A u \in Threads : sender'[p][u] = "enqueue" <=> u = t
        BY <3>1, <3>2 DEF IInv, TypeOK
      <4>2. \A q \in Peers : q # p => sender'[q] = sender[q] /\ lock'[q] = lock[q]
        BY <3>1 DEF IInv, TypeOK
      <4>3. lock'[p] = t
        BY <3>1 DEF IInv, TypeOK
      <4>. QED
        BY <4>1, <4>2, <4>3 DEF IInv, LockHeld
    <3>4. connected[p] => firing[p]
      BY <2>1 DEF IInv, NothingLeftBehind
    <3>5. NothingLeftBehind'
      BY <3>1, <3>4 DEF IInv, TypeOK, NothingLeftBehind
    <3>. QED
      BY <3>3, <3>5
  <2>2. CASE ~(sendQ[p] # <<>> \/ ~connected[p])
    <3>1. /\ sender' = [sender EXCEPT ![p][t] = "transmit"]
          /\ UNCHANGED <<lock, sendQ, connected, firing>>
          /\ sender[p][t] = "idle"
      BY <1>1, <2>2 DEF SendLock
    <3>2. \A q \in Peers, u \in Threads :
            sender'[q][u] = "enqueue" <=> sender[q][u] = "enqueue"
      BY <3>1 DEF IInv, TypeOK
    <3>. QED
      BY <3>1, <3>2 DEF IInv, LockHeld, NothingLeftBehind
  <2>. QED
    BY <2>1, <2>2
<1>2. CASE SendEnqueue(p, t)
  <2>1. /\ sender' = [sender EXCEPT ![p][t] = "idle"]
        /\ lock' = [lock EXCEPT ![p] = "free"]
        /\ UNCHANGED <<connected, firing>>
        /\ \A q \in Peers : q # p => sendQ'[q] = sendQ[q]
        /\ sender[p][t] = "enqueue"
    BY <1>2 DEF SendEnqueue, IInv, TypeOK
  <2>2. lock[p] = t
    BY <2>1 DEF IInv, LockHeld
  <2>3. LockHeld'
    <3>1. ASSUME NEW q \in Peers, NEW u \in Threads, q # p
          PROVE  sender'[q][u] = "enqueue" <=> lock'[q] = u
      BY <3>1, <2>1 DEF IInv, TypeOK, LockHeld
    <3>2. ASSUME NEW u \in Threads
          PROVE  sender'[p][u] # "enqueue" /\ lock'[p] # u
      <4>1. lock'[p] = "free"
        BY <2>1 DEF IInv, TypeOK
      <4>2. u # t => sender'[p][u] = sender[p][u] /\ sender[p][u] # "enqueue"
        BY <2>1, <2>2 DEF IInv, TypeOK, LockHeld
      <4>3. sender'[p][t] = "idle"
        BY <2>1 DEF IInv, TypeOK
      <4>. QED
        BY <4>1, <4>2, <4>3, ExtWireAssumption
    <3>. QED
      BY <3>1, <3>2 DEF LockHeld
  <2>4. ~(connected[p] /\ ~firing[p])
    BY <2>1 DEF IInv, NothingLeftBehind
  <2>5. NothingLeftBehind'
    BY <2>1, <2>4 DEF IInv, TypeOK, NothingLeftBehind
  <2>. QED
    BY <2>3, <2>5
<1>3. CASE SendTransmit(p, t)
  <2>1. /\ sender' = [sender EXCEPT ![p][t] = "idle"]
        /\ UNCHANGED <<lock, sendQ, connected, firing>>
        /\ sender[p][t] = "transmit"
    BY <1>3 DEF SendTransmit, extVars
  <2>2. \A q \in Peers, u \in Threads :
          sender'[q][u] = "enqueue" <=> sender[q][u] = "enqueue"
    BY <2>1 DEF IInv, TypeOK
  <2>. QED
    BY <2>1, <2>2 DEF IInv, LockHeld, NothingLeftBehind
<1>. QED
  BY <1>1, <1>2, <1>3 DEF Send

\* After the flush of the listener sendQ is empty.
LEMMA FlushKeeps ==
  ASSUME IInv, NEW p \in Peers, Flush(p) PROVE LockHeld' /\ NothingLeftBehind'
<1>1. /\ sendQ' = [sendQ EXCEPT ![p] = <<>>]
      /\ firing' = [firing EXCEPT ![p] = FALSE]
      /\ UNCHANGED <<connected, lock, sender>> /\ lock[p] = "free"
  BY DEF Flush, sendVars
<1>2. \A t \in Threads : sender[p][t] # "enqueue"
  BY <1>1, ExtWireAssumption DEF IInv, LockHeld
<1>3. LockHeld'
  BY <1>1 DEF IInv, LockHeld
<1>4. NothingLeftBehind'
  BY <1>1, <1>2 DEF IInv, TypeOK, NothingLeftBehind
<1>. QED
  BY <1>3, <1>4

\* A message handled on the wire's thread leaves nothing behind.
LEMMA ReceiveKeeps ==
  ASSUME IInv, NEW p \in Peers, Receive(p)
  PROVE  LockHeld' /\ NothingLeftBehind'
<1>. DEFINE message == Head(wire[p])
            at_once == /\ message \in ExtMessage /\ Subscribed(p)
                       /\ Range(tasks[p]) \cap ExtMessage = {}
<1>1. CASE at_once
  <2>1. OnState(p, message) /\ ~firing[p] /\ UNCHANGED sender
    BY <1>1 DEF Receive, sendVars
  <2>. QED
    BY <1>1, <2>1, OnStateKeeps
<1>2. CASE ~at_once
  <2>1. UNCHANGED <<extVars, sender>>
    BY <1>2 DEF Receive, sendVars
  <2>. QED
    BY <2>1, OthersKeep DEF IInv
<1>. QED
  BY <1>1, <1>2

\* A task of the default scheduler leaves nothing behind.
LEMMA RunTaskKeeps ==
  ASSUME IInv, NEW p \in Peers, RunTask(p)
  PROVE  LockHeld' /\ NothingLeftBehind'
<1>. DEFINE message == Head(tasks[p])
<1>1. CASE message \in ExtMessage /\ Subscribed(p)
  <2>1. OnState(p, message) /\ ~firing[p] /\ UNCHANGED sender
    BY <1>1 DEF RunTask, sendVars
  <2>. QED
    BY <1>1, <2>1, OnStateKeeps
<1>2. CASE ~(message \in ExtMessage /\ Subscribed(p))
  <2>1. UNCHANGED <<extVars, sender>>
    BY <1>2 DEF RunTask, sendVars
  <2>. QED
    BY <2>1, OthersKeep DEF IInv
<1>. QED
  BY <1>1, <1>2

\* Every step keeps the invariant.
LEMMA NextInv == IInv /\ [Next]_vars => IInv'
<1>. SUFFICES ASSUME IInv, [Next]_vars PROVE IInv'
  OBVIOUS
<1>1. TypeOK'
  BY NextType DEF IInv
<1>2. CASE UNCHANGED vars
  <2>1. UNCHANGED <<extVars, sender>>
    BY <1>2 DEF vars, sendVars
  <2>. QED
    BY <1>1, <2>1, OthersKeep DEF IInv
<1>3. ASSUME NEW p \in Peers, Unbind(p) PROVE LockHeld' /\ NothingLeftBehind'
  BY <1>3, OthersKeep
    DEF Unbind, UnbindMembers, UnbindAnnounce, Unsubscribe, sendVars, IInv
<1>4. ASSUME NEW p \in Peers,
             \/ Bind(p) \/ Receive(p) \/ RunTask(p) \/ Flush(p)
             \/ \E t \in Threads : Send(p, t)
      PROVE  LockHeld' /\ NothingLeftBehind'
  BY <1>4, BindKeeps, ReceiveKeeps, RunTaskKeeps, FlushKeeps, SendKeeps
<1>. QED
  BY <1>1, <1>2, <1>3, <1>4 DEF Next, IInv

\* The inductive invariant holds of every run.
THEOREM Invariance == Spec => []IInv
<1>. QED
  BY InitInv, NextInv, PTL DEF Spec

\* The types, of ExtWire's and RdExtBase's fields and of the messages.
THEOREM TypeCorrect == Spec => []TypeOK
<1>1. IInv => TypeOK
  BY DEF IInv
<1>. QED
  BY <1>1, Invariance, PTL

\* While an ext is connected and its listener is done, sendQ is empty.
THEOREM NothingWaits == Spec => []NothingLeftBehind
<1>1. IInv => NothingLeftBehind
  BY DEF IInv
<1>. QED
  BY <1>1, Invariance, PTL
-----------------------------------------------------------------------------
(***************************************************************************)
(* The way of what the threads of an end send to the other one: from sendQ *)
(* or directly to the wire, to the tasks there, to the members.  The       *)
(* definitions speak of the messages delivered d, the tasks k, the wire w, *)
(* sendQ s, and of the numbers n given and the calls a of the threads.     *)
(***************************************************************************)
Earlier(l, m) ==
  l \in MemberMessage /\ m \in MemberMessage /\ l.from = m.from => l.number < m.number

Precedes(v, m) == \A i \in DOMAIN v : Earlier(v[i], m)
Follows(m, v) == \A i \in DOMAIN v : Earlier(m, v[i])
Rising(v) == \A i, j \in DOMAIN v : i < j => Earlier(v[i], v[j])
Before(v, w) == \A i \in DOMAIN v, j \in DOMAIN w : Earlier(v[i], w[j])

\* Each stage is in order, and ahead of the stages behind it.
Line(d, k, w, s) ==
  /\ Rising(d) /\ Rising(k) /\ Rising(w) /\ Rising(s)
  /\ Before(d, k) /\ Before(d, w) /\ Before(d, s)
  /\ Before(k, w) /\ Before(k, s) /\ Before(w, s)

\* What is under way has a number that its thread was given, and not yet the
\* one that the thread is about to hand on.
Given(v, n, a) ==
  \A i \in DOMAIN v : v[i] \in MemberMessage =>
    IF a[v[i].from] = "idle" THEN v[i].number <= n[v[i].from] ELSE v[i].number < n[v[i].from]

\* A thread that bypasses sendQ has nothing in it.
NothingToOvertake(s, a) == \A i \in DOMAIN s : s[i] \in MemberMessage => a[s[i].from] # "transmit"

Ordered(d, k, w, s, n, a) ==
  /\ Line(d, k, w, s)
  /\ Given(d, n, a) /\ Given(k, n, a) /\ Given(w, n, a) /\ Given(s, n, a)
  /\ NothingToOvertake(s, a)

AllOrdered ==
  \A p, r \in Peers : p # r =>
    Ordered(delivered[r], tasks[r], wire[r], sendQ[p], sent[p], sender[p])

\* Until an end binds the ext for the first time it has not said Ready, and so
\* the other end sends nothing for the members.
Free(v, S) == \A i \in DOMAIN v : v[i] \notin S
SilentUntilBound ==
  \A p, r \in Peers : p # r /\ binds[p] = 0 =>
    /\ phase[p] = "unbound" /\ lost[p] = {}
    /\ ~firing[p] /\ ~firing[r] /\ ~connected[r]
    /\ \A t \in Threads : sender[r][t] # "transmit"
    /\ Free(wire[p], MemberMessage) /\ Free(tasks[p], MemberMessage)
    /\ Free(wire[r], ExtMessage) /\ Free(tasks[r], ExtMessage)

DeliveryInv == IInv /\ AllOrdered /\ SilentUntilBound /\ LostOnlyWhenUnbound

\* A sequence that a message was put on.
LEMMA Longer ==
  ASSUME NEW S, NEW w \in Seq(S), NEW m \in S
  PROVE  /\ Append(w, m) \in Seq(S)
         /\ \A i \in DOMAIN Append(w, m) : (i \in DOMAIN w /\ Append(w, m)[i] = w[i]) \/ Append(w, m)[i] = m
         /\ \A i, j \in DOMAIN Append(w, m) : i < j => i \in DOMAIN w /\ Append(w, m)[i] = w[i]
  OBVIOUS

\* A sequence whose first message was taken.
LEMMA Shorter ==
  ASSUME NEW S, NEW w \in Seq(S), w # <<>>
  PROVE  /\ Head(w) \in S /\ Tail(w) \in Seq(S)
         /\ 1 \in DOMAIN w /\ Head(w) = w[1]
         /\ \A i \in DOMAIN Tail(w) : i + 1 \in DOMAIN w /\ 1 < i + 1 /\ Tail(w)[i] = w[i + 1]
         /\ \A i, j \in DOMAIN Tail(w) : i < j => i + 1 < j + 1
  OBVIOUS

\* One sequence behind another.
LEMMA Joined ==
  ASSUME NEW S, NEW v \in Seq(S), NEW w \in Seq(S)
  PROVE  /\ v \o w \in Seq(S)
         /\ \A i \in DOMAIN (v \o w) :
              \/ i \in DOMAIN v /\ (v \o w)[i] = v[i]
              \/ i \notin DOMAIN v /\ i - Len(v) \in DOMAIN w /\ (v \o w)[i] = w[i - Len(v)]
         /\ \A i, j \in DOMAIN (v \o w) :
              i < j => /\ j \in DOMAIN v => i \in DOMAIN v
                       /\ i - Len(v) < j - Len(v)
  OBVIOUS

\* A stage that a message joins which is behind all that is there.
LEMMA StageLonger ==
  ASSUME NEW v \in Seq(Message), NEW m \in Message, NEW u
  PROVE  /\ Rising(v) /\ Precedes(v, m) => Rising(Append(v, m))
         /\ Before(v, u) /\ Follows(m, u) => Before(Append(v, m), u)
         /\ Before(u, v) /\ Precedes(u, m) => Before(u, Append(v, m))
<1>. DEFINE V == Append(v, m)
<1>1. /\ \A i \in DOMAIN V : (i \in DOMAIN v /\ V[i] = v[i]) \/ V[i] = m
      /\ \A i, j \in DOMAIN V : i < j => i \in DOMAIN v /\ V[i] = v[i]
  BY Longer
<1>. HIDE DEF V
<1>2. Rising(v) /\ Precedes(v, m) => Rising(V) BY <1>1 DEF Rising, Precedes
<1>3. Before(v, u) /\ Follows(m, u) => Before(V, u) BY <1>1 DEF Before, Follows
<1>4. Before(u, v) /\ Precedes(u, m) => Before(u, V) BY <1>1 DEF Before, Precedes
<1>. QED BY <1>2, <1>3, <1>4 DEF V

\* A stage that its first message leaves.
LEMMA StageShorter ==
  ASSUME NEW v \in Seq(Message), v # <<>>, NEW u
  PROVE  /\ Rising(v) => Rising(Tail(v)) /\ Follows(Head(v), Tail(v))
         /\ Before(v, u) => Before(Tail(v), u) /\ Follows(Head(v), u)
         /\ Before(u, v) => Before(u, Tail(v)) /\ Precedes(u, Head(v))
<1>. DEFINE V == Tail(v)  h == Head(v)
<1>1. /\ 1 \in DOMAIN v /\ h = v[1]
      /\ \A i \in DOMAIN V : i + 1 \in DOMAIN v /\ 1 < i + 1 /\ V[i] = v[i + 1]
      /\ \A i, j \in DOMAIN V : i < j => i + 1 < j + 1
  BY Shorter
<1>. HIDE DEF V, h
<1>2. Rising(v) => Rising(V) /\ Follows(h, V) BY <1>1 DEF Rising, Follows
<1>3. Before(v, u) => Before(V, u) /\ Follows(h, u) BY <1>1 DEF Before, Follows
<1>4. Before(u, v) => Before(u, V) /\ Precedes(u, h) BY <1>1 DEF Before, Precedes
<1>. QED BY <1>2, <1>3, <1>4 DEF V, h

\* A stage that all of another one joins.
LEMMA StageJoined ==
  ASSUME NEW v \in Seq(Message), NEW w \in Seq(Message), NEW u
  PROVE  /\ Rising(v) /\ Rising(w) /\ Before(v, w) => Rising(v \o w)
         /\ Before(u, v) /\ Before(u, w) => Before(u, v \o w)
<1>. DEFINE V == v \o w
<1>1. PICK n : n = Len(v) OBVIOUS
<1>2. /\ \A i \in DOMAIN V : \/ i \in DOMAIN v /\ V[i] = v[i]
                             \/ i \notin DOMAIN v /\ i - n \in DOMAIN w /\ V[i] = w[i - n]
      /\ \A i, j \in DOMAIN V : i < j => (j \in DOMAIN v => i \in DOMAIN v) /\ i - n < j - n
  BY <1>1, Joined
<1>. HIDE DEF V
<1>3. Rising(v) /\ Rising(w) /\ Before(v, w) => Rising(V) BY <1>2 DEF Rising, Before
<1>4. Before(u, v) /\ Before(u, w) => Before(u, V) BY <1>2 DEF Before
<1>. QED BY <1>3, <1>4 DEF V

\* The same for what is said of each message of a stage.
LEMMA StageGiven ==
  ASSUME NEW v \in Seq(Message), NEW n, NEW a
  PROVE  /\ \A m \in Message : Given(v, n, a) /\ Given(<<m>>, n, a) => Given(Append(v, m), n, a)
         /\ v # <<>> /\ Given(v, n, a) => Given(Tail(v), n, a) /\ Given(<<Head(v)>>, n, a)
         /\ \A w \in Seq(Message) : Given(v, n, a) /\ Given(w, n, a) => Given(v \o w, n, a)
<1>1. ASSUME NEW m \in Message, Given(v, n, a), Given(<<m>>, n, a) PROVE Given(Append(v, m), n, a)
  <2>. DEFINE V == Append(v, m)
  <2>1. \A i \in DOMAIN V : (i \in DOMAIN v /\ V[i] = v[i]) \/ V[i] = m BY Longer
  <2>2. m \in MemberMessage => IF a[m.from] = "idle" THEN m.number <= n[m.from] ELSE m.number < n[m.from]
    <3>1. 1 \in DOMAIN <<m>> /\ <<m>>[1] = m OBVIOUS
    <3>. QED BY <1>1, <3>1 DEF Given
  <2>. HIDE DEF V
  <2>3. Given(V, n, a) BY <1>1, <2>1, <2>2 DEF Given
  <2>. QED BY <2>3 DEF V
<1>2. ASSUME v # <<>>, Given(v, n, a) PROVE Given(Tail(v), n, a) /\ Given(<<Head(v)>>, n, a)
  <2>. DEFINE V == Tail(v)  h == Head(v)
  <2>1. /\ 1 \in DOMAIN v /\ h = v[1]
        /\ \A i \in DOMAIN V : i + 1 \in DOMAIN v /\ V[i] = v[i + 1]
    BY <1>2, Shorter
  <2>2. \A i \in DOMAIN <<h>> : <<h>>[i] = h OBVIOUS
  <2>. HIDE DEF V, h
  <2>3. Given(V, n, a) BY <1>2, <2>1 DEF Given
  <2>4. Given(<<h>>, n, a) BY <1>2, <2>1, <2>2 DEF Given
  <2>. QED BY <2>3, <2>4 DEF V, h
<1>3. ASSUME NEW w \in Seq(Message), Given(v, n, a), Given(w, n, a) PROVE Given(v \o w, n, a)
  <2>. DEFINE V == v \o w
  <2>1. PICK l : l = Len(v) OBVIOUS
  <2>2. \A i \in DOMAIN V : \/ i \in DOMAIN v /\ V[i] = v[i]
                            \/ i - l \in DOMAIN w /\ V[i] = w[i - l]
    BY <2>1, Joined
  <2>. HIDE DEF V
  <2>3. Given(V, n, a) BY <1>3, <2>2 DEF Given
  <2>. QED BY <2>3 DEF V
<1>. QED BY <1>1, <1>2, <1>3

\* The messages of the ext itself are none for a member.
LEMMA Kinds == \A m \in Message : m \in ExtMessage <=> m \notin MemberMessage
<1>1. ASSUME NEW m \in ExtMessage, m \in MemberMessage PROVE FALSE
  <2>1. DOMAIN m = {"ext"} BY DEF ExtMessage
  <2>2. DOMAIN m = {"from", "number"} BY <1>1 DEF MemberMessage
  <2>. QED BY <2>1, <2>2
<1>. QED BY <1>1 DEF Message
-----------------------------------------------------------------------------
\* A message leaves the line, or goes from one stage to the next.
LEMMA TaskLeaves ==
  ASSUME NEW d \in Seq(Message), NEW k \in Seq(Message), NEW w, NEW s, NEW n, NEW a,
         Ordered(d, k, w, s, n, a), k # <<>>
  PROVE  /\ Ordered(d, Tail(k), w, s, n, a)
         /\ Ordered(Append(d, Head(k)), Tail(k), w, s, n, a)
<1>1. Head(k) \in Message BY Shorter
<1>2. /\ Rising(Tail(k)) /\ Before(d, Tail(k)) /\ Before(Tail(k), w) /\ Before(Tail(k), s)
      /\ Precedes(d, Head(k))
      /\ Follows(Head(k), Tail(k)) /\ Follows(Head(k), w) /\ Follows(Head(k), s)
  BY StageShorter DEF Ordered, Line
<1>3. Given(Tail(k), n, a) /\ Given(<<Head(k)>>, n, a) BY StageGiven DEF Ordered
<1>4. /\ Rising(Append(d, Head(k))) /\ Before(Append(d, Head(k)), Tail(k))
      /\ Before(Append(d, Head(k)), w) /\ Before(Append(d, Head(k)), s)
  BY <1>1, <1>2, StageLonger DEF Ordered, Line
<1>5. Given(Append(d, Head(k)), n, a) BY <1>1, <1>3, StageGiven DEF Ordered
<1>. QED BY <1>2, <1>3, <1>4, <1>5 DEF Ordered, Line

\* The same for the wire.
LEMMA MessageLeaves ==
  ASSUME NEW d, NEW k \in Seq(Message), NEW w \in Seq(Message), NEW s, NEW n, NEW a,
         Ordered(d, k, w, s, n, a), w # <<>>
  PROVE  /\ Ordered(d, k, Tail(w), s, n, a)
         /\ Ordered(d, Append(k, Head(w)), Tail(w), s, n, a)
<1>1. Head(w) \in Message BY Shorter
<1>2. /\ Rising(Tail(w)) /\ Before(d, Tail(w)) /\ Before(k, Tail(w)) /\ Before(Tail(w), s)
      /\ Precedes(d, Head(w)) /\ Precedes(k, Head(w))
      /\ Follows(Head(w), Tail(w)) /\ Follows(Head(w), s)
  BY StageShorter DEF Ordered, Line
<1>3. Given(Tail(w), n, a) /\ Given(<<Head(w)>>, n, a) BY StageGiven DEF Ordered
<1>4. /\ Rising(Append(k, Head(w))) /\ Before(d, Append(k, Head(w)))
      /\ Before(Append(k, Head(w)), Tail(w)) /\ Before(Append(k, Head(w)), s)
  BY <1>1, <1>2, StageLonger DEF Ordered, Line
<1>5. Given(Append(k, Head(w)), n, a) BY <1>1, <1>3, StageGiven DEF Ordered
<1>. QED BY <1>2, <1>3, <1>4, <1>5 DEF Ordered, Line

\* What the ext itself sends has no place in the order.
LEMMA StateJoins ==
  ASSUME NEW d, NEW k, NEW w \in Seq(Message), NEW s, NEW n, NEW a,
         Ordered(d, k, w, s, n, a), NEW m \in Message, m \notin MemberMessage
  PROVE  Ordered(d, k, Append(w, m), s, n, a)
<1>1. Precedes(d, m) /\ Precedes(k, m) /\ Precedes(w, m) /\ Follows(m, s)
  BY DEF Precedes, Follows, Earlier
<1>2. /\ Rising(Append(w, m)) /\ Before(d, Append(w, m)) /\ Before(k, Append(w, m))
      /\ Before(Append(w, m), s)
  BY <1>1, StageLonger DEF Ordered, Line
<1>3. Given(<<m>>, n, a)
  <2>1. \A i \in DOMAIN <<m>> : <<m>>[i] = m OBVIOUS
  <2>. QED BY <2>1 DEF Given
<1>4. Given(Append(w, m), n, a) BY <1>3, StageGiven DEF Ordered
<1>. QED BY <1>2, <1>4 DEF Ordered, Line

\* A call that hands its message on is over.
LEMMA CallEnds ==
  ASSUME NEW v, NEW n, NEW a \in [Threads -> {"idle", "enqueue", "transmit"}], NEW t \in Threads,
         n \in [Threads -> Nat], v \in Seq(Message)
  PROVE  Given(v, n, a) => Given(v, n, [a EXCEPT ![t] = "idle"])
<1>. DEFINE A == [a EXCEPT ![t] = "idle"]
<1>1. \A u \in Threads : A[u] = "idle" \/ A[u] = a[u] OBVIOUS
<1>2. \A m \in MemberMessage : m.from \in Threads /\ m.number \in Nat BY DEF MemberMessage
<1>3. \A u \in Threads : n[u] \in Nat OBVIOUS
<1>. HIDE DEF A
<1>4. Given(v, n, a) => Given(v, n, A) BY <1>1, <1>2, <1>3 DEF Given
<1>. QED BY <1>4 DEF A

\* A message that a thread sends, with its latest number.
LEMMA SentMessage ==
  ASSUME NEW d, NEW k, NEW w, NEW s, NEW n \in [Threads -> Nat],
         NEW a \in [Threads -> {"idle", "enqueue", "transmit"}],
         Ordered(d, k, w, s, n, a), NEW t \in Threads, a[t] # "idle"
  PROVE  LET m == Payload(t, n[t]) IN
         /\ m \in MemberMessage /\ m \in Message
         /\ Precedes(d, m) /\ Precedes(k, m) /\ Precedes(w, m) /\ Precedes(s, m)
         /\ a[t] = "transmit" => Follows(m, s)
         /\ Given(<<m>>, n, [a EXCEPT ![t] = "idle"])
<1>. DEFINE m == Payload(t, n[t])
<1>1. m \in MemberMessage /\ m \in Message /\ m.from = t /\ m.number = n[t] /\ n[t] \in Nat
  BY DEF Payload, MemberMessage, Message
<1>2. Given(<<m>>, n, [a EXCEPT ![t] = "idle"])
  <2>1. \A i \in DOMAIN <<m>> : <<m>>[i] = m OBVIOUS
  <2>2. [a EXCEPT ![t] = "idle"][t] = "idle" OBVIOUS
  <2>. QED BY <1>1, <2>1, <2>2 DEF Given
<1>. HIDE DEF m
<1>3. Precedes(d, m) /\ Precedes(k, m) /\ Precedes(w, m) /\ Precedes(s, m)
  BY <1>1 DEF Ordered, Given, Precedes, Earlier
<1>4. a[t] = "transmit" => Follows(m, s)
  BY <1>1 DEF Ordered, NothingToOvertake, Follows, Earlier
<1>. QED BY <1>1, <1>2, <1>3, <1>4 DEF m

\* It overtakes nothing, whether it goes to the wire or waits in sendQ.
LEMMA MessageJoins ==
  ASSUME NEW d \in Seq(Message), NEW k \in Seq(Message), NEW w \in Seq(Message), NEW s \in Seq(Message),
         NEW n \in [Threads -> Nat], NEW a \in [Threads -> {"idle", "enqueue", "transmit"}],
         Ordered(d, k, w, s, n, a), NEW t \in Threads
  PROVE  LET A == [a EXCEPT ![t] = "idle"] IN
         /\ a[t] = "transmit" => Ordered(d, k, Append(w, Payload(t, n[t])), s, n, A)
         /\ a[t] = "enqueue" => Ordered(d, k, w, Append(s, Payload(t, n[t])), n, A)
<1>. DEFINE m == Payload(t, n[t])  A == [a EXCEPT ![t] = "idle"]
<1>. SUFFICES ASSUME a[t] # "idle"
     PROVE  /\ a[t] = "transmit" => Ordered(d, k, Append(w, m), s, n, A)
            /\ a[t] = "enqueue" => Ordered(d, k, w, Append(s, m), n, A)
  OBVIOUS
<1>1. /\ m \in MemberMessage /\ m \in Message
      /\ Precedes(d, m) /\ Precedes(k, m) /\ Precedes(w, m) /\ Precedes(s, m)
      /\ a[t] = "transmit" => Follows(m, s)
      /\ Given(<<m>>, n, A)
  BY SentMessage
<1>2. Given(d, n, A) /\ Given(k, n, A) /\ Given(w, n, A) /\ Given(s, n, A) BY CallEnds DEF Ordered
<1>3. \A u \in Threads : A[u] # "transmit" \/ A[u] = a[u] OBVIOUS
<1>4. m.from = t /\ A[t] = "idle" BY DEF Payload
<1>. HIDE DEF m, A
<1>5. NothingToOvertake(s, A) BY <1>3 DEF Ordered, NothingToOvertake, MemberMessage
<1>6. ASSUME a[t] = "transmit" PROVE Ordered(d, k, Append(w, m), s, n, A)
  <2>1. /\ Rising(Append(w, m)) /\ Before(d, Append(w, m)) /\ Before(k, Append(w, m))
        /\ Before(Append(w, m), s)
    BY <1>1, <1>6, StageLonger DEF Ordered, Line
  <2>2. Given(Append(w, m), n, A) BY <1>1, <1>2, StageGiven
  <2>. QED BY <1>2, <1>5, <2>1, <2>2 DEF Ordered, Line
<1>7. ASSUME a[t] = "enqueue" PROVE Ordered(d, k, w, Append(s, m), n, A)
  <2>1. /\ Rising(Append(s, m)) /\ Before(d, Append(s, m)) /\ Before(k, Append(s, m))
        /\ Before(w, Append(s, m))
    BY <1>1, StageLonger DEF Ordered, Line
  <2>2. Given(Append(s, m), n, A) BY <1>1, <1>2, StageGiven
  <2>3. NothingToOvertake(Append(s, m), A)
    <3>. DEFINE S == Append(s, m)
    <3>1. \A i \in DOMAIN S : (i \in DOMAIN s /\ S[i] = s[i]) \/ S[i] = m BY <1>1, Longer
    <3>. HIDE DEF S
    <3>2. NothingToOvertake(S, A) BY <1>4, <1>5, <3>1 DEF NothingToOvertake
    <3>. QED BY <3>2 DEF S
  <2>. QED BY <1>2, <2>1, <2>2, <2>3 DEF Ordered, Line
<1>. QED BY <1>6, <1>7 DEF m, A

\* A call of send that begins is given the next number, and bypasses sendQ only
\* when that is empty.
LEMMA CallBegins ==
  ASSUME NEW d \in Seq(Message), NEW k \in Seq(Message), NEW w \in Seq(Message), NEW s \in Seq(Message),
         NEW n \in [Threads -> Nat], NEW a \in [Threads -> {"idle", "enqueue", "transmit"}],
         Ordered(d, k, w, s, n, a), NEW t \in Threads, a[t] = "idle",
         NEW c \in {"enqueue", "transmit"}, c = "transmit" => s = <<>>
  PROVE  Ordered(d, k, w, s, [n EXCEPT ![t] = @ + 1], [a EXCEPT ![t] = c])
<1>. DEFINE N == [n EXCEPT ![t] = @ + 1]  A == [a EXCEPT ![t] = c]
<1>1. \A u \in Threads : /\ n[u] \in Nat
                         /\ u = t => A[u] # "idle" /\ N[u] = n[u] + 1 /\ a[u] = "idle"
                         /\ u # t => A[u] = a[u] /\ N[u] = n[u]
  OBVIOUS
<1>2. \A m \in MemberMessage : m.from \in Threads /\ m.number \in Nat BY DEF MemberMessage
<1>3. A[t] = c OBVIOUS
<1>. HIDE DEF N, A
<1>4. ASSUME NEW v, Given(v, n, a) PROVE Given(v, N, A)
  <2>. SUFFICES ASSUME NEW i \in DOMAIN v, v[i] \in MemberMessage
       PROVE IF A[v[i].from] = "idle" THEN v[i].number <= N[v[i].from] ELSE v[i].number < N[v[i].from]
    BY DEF Given
  <2>1. PICK u \in Threads : u = v[i].from BY <1>2
  <2>2. PICK l \in Nat : l = v[i].number BY <1>2
  <2>3. IF a[u] = "idle" THEN l <= n[u] ELSE l < n[u] BY <1>4, <2>1, <2>2 DEF Given
  <2>4. IF A[u] = "idle" THEN l <= N[u] ELSE l < N[u] BY <1>1, <2>3
  <2>. QED BY <2>1, <2>2, <2>4
<1>5. NothingToOvertake(s, A)
  <2>1. CASE c = "transmit" BY <2>1 DEF NothingToOvertake
  <2>2. CASE c = "enqueue" BY <1>1, <1>2, <1>3, <2>2 DEF NothingToOvertake, Ordered
  <2>. QED BY <2>1, <2>2
<1>6. Ordered(d, k, w, s, N, A) BY <1>4, <1>5 DEF Ordered
<1>. QED BY <1>6 DEF N, A

\* All of sendQ goes to the wire at once, or with the ext.
LEMMA QueueLeaves ==
  ASSUME NEW d \in Seq(Message), NEW k \in Seq(Message), NEW w \in Seq(Message), NEW s \in Seq(Message),
         NEW n, NEW a, Ordered(d, k, w, s, n, a)
  PROVE  Ordered(d, k, w \o s, <<>>, n, a) /\ Ordered(d, k, w, <<>>, n, a)
<1>1. /\ \A v : Before(v, <<>>)
      /\ Rising(<<>>) /\ Given(<<>>, n, a) /\ NothingToOvertake(<<>>, a)
  BY DEF Before, Rising, Given, NothingToOvertake
<1>2. Rising(w \o s) /\ Before(d, w \o s) /\ Before(k, w \o s) BY StageJoined DEF Ordered, Line
<1>3. Given(w \o s, n, a) BY StageGiven DEF Ordered
<1>. QED BY <1>1, <1>2, <1>3 DEF Ordered, Line
-----------------------------------------------------------------------------
\* There are two ends.
LEMMA TwoEnds ==
  ASSUME NEW p \in Peers, NEW r \in Peers, p # r
  PROVE  Other(p) = r /\ Other(r) = p /\ \A q \in Peers : q = p \/ q = r
<1>1. PICK x, y \in Peers : x # y /\ Peers = {x, y} BY ExtWireAssumption
<1>2. \A q \in Peers : q = p \/ q = r BY <1>1
<1>. QED BY <1>2 DEF Other

\* The types that the order needs.
LEMMA LineTyped ==
  ASSUME TypeOK, NEW p \in Peers, NEW r \in Peers
  PROVE  /\ delivered[r] \in Seq(Message) /\ tasks[r] \in Seq(Message) /\ wire[r] \in Seq(Message)
         /\ sendQ[p] \in Seq(Message) /\ sent[p] \in [Threads -> Nat]
         /\ sender[p] \in [Threads -> {"idle", "enqueue", "transmit"}]
<1>1. \A v \in Seq(MemberMessage) : v \in Seq(Message) BY DEF Message
<1>. QED BY <1>1 DEF TypeOK

\* Binding and unbinding drop what waits in sendQ and say so to the other end.
LEMMA BindKeepsOrder ==
  ASSUME IInv, AllOrdered, NEW x \in Peers, Bind(x) \/ Unbind(x)
  PROVE  AllOrdered'
<1>. SUFFICES ASSUME NEW p \in Peers, NEW r \in Peers, p # r
     PROVE  Ordered(delivered[r], tasks[r], wire[r], sendQ[p], sent[p], sender[p])'
  BY DEF AllOrdered
<1>. DEFINE d == delivered[r]  k == tasks[r]  w == wire[r]  s == sendQ[p]  n == sent[p]  a == sender[p]
<1>1. Ordered(d, k, w, s, n, a) BY DEF AllOrdered
<1>2. /\ d \in Seq(Message) /\ k \in Seq(Message) /\ w \in Seq(Message)
      /\ s \in Seq(Message) /\ wire \in [Peers -> Seq(Message)] /\ sendQ \in [Peers -> Seq(MemberMessage)]
  BY LineTyped DEF IInv, TypeOK
<1>3. delivered' = delivered /\ tasks' = tasks /\ sent' = sent /\ sender' = sender
  BY DEF Bind, BindAdvise, BindAnnounce, BindMembers, Unbind, UnbindMembers, UnbindAnnounce, Unsubscribe,
         sendVars, arrivalVars
<1>4. sendQ'[p] = s \/ sendQ'[p] = <<>>
  BY <1>2 DEF Bind, BindAdvise, BindAnnounce, BindMembers, Unbind, UnbindMembers, UnbindAnnounce,
              Unsubscribe, extVars
<1>5. \/ wire'[r] = w
      \/ \E m \in ExtMessage : wire'[r] = Append(w, m) /\ sendQ' = sendQ
  <2>1. \A state \in ExtState : Ext(state) \in ExtMessage BY DEF Ext, ExtMessage
  <2>2. ASSUME NEW state \in ExtState, Transmit(x, <<Ext(state)>>), sendQ' = sendQ
        PROVE  wire'[r] = w \/ \E m \in ExtMessage : wire'[r] = Append(w, m) /\ sendQ' = sendQ
    <3>1. w \o <<Ext(state)>> = Append(w, Ext(state)) BY <1>2, <2>1 DEF Message
    <3>2. wire'[r] = w \/ wire'[r] = w \o <<Ext(state)>> BY <1>2, <2>2 DEF Transmit
    <3>. QED BY <2>1, <2>2, <3>1, <3>2
  <2>3. CASE BindAnnounce(x) \/ UnbindAnnounce(x)
    BY <2>2, <2>3 DEF BindAnnounce, UnbindAnnounce, ExtState, extVars
  <2>4. CASE BindAdvise(x) \/ BindMembers(x) \/ UnbindMembers(x) \/ Unsubscribe(x)
    BY <2>4 DEF BindAdvise, BindMembers, UnbindMembers, Unsubscribe
  <2>. QED BY <2>3, <2>4 DEF Bind, Unbind
<1>6. Ordered(d, k, w, <<>>, n, a) BY <1>1, <1>2, QueueLeaves, LineTyped DEF IInv
<1>7. \A m \in ExtMessage : Ordered(d, k, Append(w, m), s, n, a)
  BY <1>1, <1>2, StateJoins, Kinds DEF Message
<1>. QED BY <1>1, <1>3, <1>4, <1>5, <1>6, <1>7

\* So do the threads that send, and the listener that flushes.
LEMMA SendKeepsOrder ==
  ASSUME IInv, AllOrdered, NEW x \in Peers, Flush(x) \/ \E t \in Threads : Send(x, t)
  PROVE  AllOrdered'
<1>. SUFFICES ASSUME NEW p \in Peers, NEW r \in Peers, p # r
     PROVE  Ordered(delivered[r], tasks[r], wire[r], sendQ[p], sent[p], sender[p])'
  BY DEF AllOrdered
<1>. DEFINE d == delivered[r]  k == tasks[r]  w == wire[r]  s == sendQ[p]  n == sent[p]  a == sender[p]
<1>1. Ordered(d, k, w, s, n, a) BY DEF AllOrdered
<1>2. /\ d \in Seq(Message) /\ k \in Seq(Message) /\ w \in Seq(Message) /\ s \in Seq(Message)
      /\ n \in [Threads -> Nat] /\ a \in [Threads -> {"idle", "enqueue", "transmit"}]
  BY LineTyped DEF IInv
<1>3. /\ wire \in [Peers -> Seq(Message)] /\ sendQ \in [Peers -> Seq(MemberMessage)]
      /\ sent \in [Peers -> [Threads -> Nat]]
      /\ sender \in [Peers -> [Threads -> {"idle", "enqueue", "transmit"}]]
  BY DEF IInv, TypeOK
<1>4. Other(p) = r /\ Other(r) = p /\ (x = p \/ x = r) BY TwoEnds
<1>5. delivered' = delivered /\ tasks' = tasks
  BY DEF Flush, Send, SendLock, SendEnqueue, SendTransmit, arrivalVars
<1>6. CASE x = r
  <2>1. CASE Flush(x)
    <3>1. wire'[r] = w /\ sendQ'[p] = s /\ sent' = sent /\ sender' = sender
      BY <2>1, <1>3, <1>4, <1>6 DEF Flush, Transmit, sendVars
    <3>. QED BY <3>1, <1>1, <1>5
  <2>2. CASE \E t \in Threads : Send(x, t)
    <3>1. PICK t \in Threads : Send(x, t) BY <2>2
    <3>2. sent'[p] = n /\ sender'[p] = a
      BY <3>1, <1>3, <1>4, <1>6 DEF Send, SendLock, SendEnqueue, SendTransmit
    <3>3. sendQ'[p] = s
      BY <3>1, <1>3, <1>4, <1>6 DEF Send, SendLock, SendEnqueue, SendTransmit, extVars
    <3>4. wire'[r] = w
      BY <3>1, <1>3, <1>4, <1>6 DEF Send, SendLock, SendEnqueue, SendTransmit, Transmit
    <3>. QED BY <3>2, <3>3, <3>4, <1>1, <1>5
  <2>. QED BY <2>1, <2>2
<1>7. CASE x = p /\ Flush(x)
  <2>1. wire'[r] = w \o s /\ sendQ'[p] = <<>> /\ sent' = sent /\ sender' = sender
    BY <1>3, <1>4, <1>7 DEF Flush, Transmit, sendVars
  <2>. QED BY <1>1, <1>2, <1>5, <2>1, QueueLeaves
<1>8. ASSUME NEW t \in Threads, x = p, Send(x, t)
      PROVE  Ordered(delivered[r], tasks[r], wire[r], sendQ[p], sent[p], sender[p])'
  <2>1. CASE SendLock(p, t)
    <3>1. PICK c \in {"enqueue", "transmit"} :
            /\ sender' = [sender EXCEPT ![p][t] = c] /\ (c = "transmit" => s = <<>>)
      BY <2>1 DEF SendLock
    <3>2. /\ sender'[p] = [a EXCEPT ![t] = c] /\ sent'[p] = [n EXCEPT ![t] = @ + 1] /\ a[t] = "idle"
          /\ UNCHANGED <<wire, sendQ>>
      BY <1>3, <2>1, <3>1 DEF SendLock
    <3>3. Ordered(d, k, w, s, [n EXCEPT ![t] = @ + 1], [a EXCEPT ![t] = c])
      BY <1>1, <1>2, <3>1, <3>2, CallBegins
    <3>. QED BY <1>5, <3>2, <3>3
  <2>2. CASE SendEnqueue(p, t)
    <3>1. /\ sender'[p] = [a EXCEPT ![t] = "idle"] /\ sendQ'[p] = Append(s, Payload(t, n[t]))
          /\ a[t] = "enqueue" /\ UNCHANGED <<wire, sent>>
      BY <1>3, <2>2 DEF SendEnqueue
    <3>2. Ordered(d, k, w, Append(s, Payload(t, n[t])), n, [a EXCEPT ![t] = "idle"])
      BY <1>1, <1>2, <3>1, MessageJoins
    <3>. QED BY <1>5, <3>1, <3>2
  <2>3. CASE SendTransmit(p, t)
    <3>1. Payload(t, n[t]) \in Message BY PayloadType DEF IInv
    <3>2. w \o <<Payload(t, n[t])>> = Append(w, Payload(t, n[t])) BY <1>2, <3>1
    <3>3. /\ sender'[p] = [a EXCEPT ![t] = "idle"] /\ wire'[r] = Append(w, Payload(t, n[t]))
          /\ a[t] = "transmit" /\ UNCHANGED <<sendQ, sent>>
      BY <1>3, <1>4, <2>3, <3>2 DEF SendTransmit, Transmit, extVars
    <3>4. Ordered(d, k, Append(w, Payload(t, n[t])), s, n, [a EXCEPT ![t] = "idle"])
      BY <1>1, <1>2, <3>3, MessageJoins
    <3>. QED BY <1>5, <3>3, <3>4
  <2>. QED BY <1>8, <2>1, <2>2, <2>3 DEF Send
<1>. QED BY <1>4, <1>6, <1>7, <1>8

\* So does the thread of the wire, with the answer it may give.
LEMMA ReceiveKeepsOrder == ASSUME IInv, AllOrdered, NEW x \in Peers, Receive(x) PROVE AllOrdered'
<1>. SUFFICES ASSUME NEW p \in Peers, NEW r \in Peers, p # r
     PROVE  Ordered(delivered[r], tasks[r], wire[r], sendQ[p], sent[p], sender[p])'
  BY DEF AllOrdered
<1>. DEFINE d == delivered[r]  k == tasks[r]  w == wire[r]  s == sendQ[p]  n == sent[p]  a == sender[p]
            message == Head(wire[x])
<1>1. Ordered(d, k, w, s, n, a) BY DEF AllOrdered
<1>2. d \in Seq(Message) /\ k \in Seq(Message) /\ w \in Seq(Message)
  BY LineTyped DEF IInv
<1>3. wire \in [Peers -> Seq(Message)] /\ tasks \in [Peers -> Seq(Message)] BY DEF IInv, TypeOK
<1>4. Other(p) = r /\ Other(r) = p /\ (x = p \/ x = r) BY TwoEnds
<1>5. delivered' = delivered /\ UNCHANGED sendVars /\ wire[x] # <<>> BY DEF Receive
<1>6. sendQ' = sendQ BY DEF Receive, OnState, extVars
<1>7. message \in Message BY <1>3, <1>5
<1>8. CASE x = r
  <2>1. wire'[r] = Tail(w) /\ (tasks'[r] = k \/ tasks'[r] = Append(k, Head(w)))
    BY <1>3, <1>4, <1>8 DEF Receive
  <2>2. Ordered(d, k, Tail(w), s, n, a) /\ Ordered(d, Append(k, Head(w)), Tail(w), s, n, a)
    BY <1>1, <1>2, <1>5, <1>8, MessageLeaves
  <2>. QED BY <1>5, <1>6, <2>1, <2>2 DEF sendVars
<1>9. CASE x = p
  <2>1. tasks'[r] = k /\ (wire'[r] = w \/ wire'[r] = w \o Reply(message))
    BY <1>3, <1>4, <1>9 DEF Receive
  <2>2. wire'[r] = w \/ \E m \in ExtMessage : wire'[r] = Append(w, m)
    <3>1. Ext("ReceivedCounterpart") \in ExtMessage BY DEF Ext, ExtMessage, ExtState
    <3>2. w \o <<>> = w /\ w \o <<Ext("ReceivedCounterpart")>> = Append(w, Ext("ReceivedCounterpart"))
      BY <1>2, <3>1 DEF Message
    <3>. QED BY <2>1, <3>1, <3>2 DEF Reply
  <2>3. \A m \in ExtMessage : Ordered(d, k, Append(w, m), s, n, a)
    BY <1>1, <1>2, StateJoins, Kinds DEF Message
  <2>. QED BY <1>1, <1>5, <1>6, <2>1, <2>2, <2>3 DEF sendVars
<1>. QED BY <1>4, <1>8, <1>9

\* And so does the default scheduler.
LEMMA RunTaskKeepsOrder == ASSUME IInv, AllOrdered, NEW x \in Peers, RunTask(x) PROVE AllOrdered'
<1>. SUFFICES ASSUME NEW p \in Peers, NEW r \in Peers, p # r
     PROVE  Ordered(delivered[r], tasks[r], wire[r], sendQ[p], sent[p], sender[p])'
  BY DEF AllOrdered
<1>. DEFINE d == delivered[r]  k == tasks[r]  w == wire[r]  s == sendQ[p]  n == sent[p]  a == sender[p]
            message == Head(tasks[x])
<1>1. Ordered(d, k, w, s, n, a) BY DEF AllOrdered
<1>2. d \in Seq(Message) /\ k \in Seq(Message) /\ w \in Seq(Message)
  BY LineTyped DEF IInv
<1>3. /\ wire \in [Peers -> Seq(Message)] /\ tasks \in [Peers -> Seq(Message)]
      /\ delivered \in [Peers -> Seq(MemberMessage)]
  BY DEF IInv, TypeOK
<1>4. Other(p) = r /\ Other(r) = p /\ (x = p \/ x = r) BY TwoEnds
<1>5. UNCHANGED sendVars /\ tasks[x] # <<>> /\ tasks' = [tasks EXCEPT ![x] = Tail(@)] BY DEF RunTask
<1>6. sendQ' = sendQ BY DEF RunTask, OnState, extVars
<1>7. wire' = wire \/ Transmit(x, Reply(message)) BY DEF RunTask
<1>8. CASE x = r
  <2>1. wire'[r] = w BY <1>3, <1>4, <1>7, <1>8 DEF Transmit
  <2>2. delivered'[r] = d \/ delivered'[r] = Append(d, Head(k)) BY <1>3, <1>8 DEF RunTask
  <2>3. Ordered(d, Tail(k), w, s, n, a) /\ Ordered(Append(d, Head(k)), Tail(k), w, s, n, a)
    BY <1>1, <1>2, <1>5, <1>8, TaskLeaves
  <2>. QED BY <1>3, <1>5, <1>6, <1>8, <2>1, <2>2, <2>3 DEF sendVars
<1>9. CASE x = p
  <2>1. wire'[r] = w \/ wire'[r] = w \o Reply(message) BY <1>3, <1>4, <1>7, <1>9 DEF Transmit
  <2>2. wire'[r] = w \/ \E m \in ExtMessage : wire'[r] = Append(w, m)
    <3>1. Ext("ReceivedCounterpart") \in ExtMessage BY DEF Ext, ExtMessage, ExtState
    <3>2. w \o <<>> = w /\ w \o <<Ext("ReceivedCounterpart")>> = Append(w, Ext("ReceivedCounterpart"))
      BY <1>2, <3>1 DEF Message
    <3>. QED BY <2>1, <3>1, <3>2 DEF Reply
  <2>3. \A m \in ExtMessage : Ordered(d, k, Append(w, m), s, n, a)
    BY <1>1, <1>2, StateJoins, Kinds DEF Message
  <2>4. delivered'[r] = d /\ tasks'[r] = k BY <1>3, <1>5, <1>9 DEF RunTask
  <2>. QED BY <1>1, <1>5, <1>6, <2>2, <2>3, <2>4 DEF sendVars
<1>. QED BY <1>4, <1>8, <1>9
-----------------------------------------------------------------------------
\* What a sequence is free of.
LEMMA FreeOf ==
  ASSUME NEW v \in Seq(Message), NEW S, Free(v, S)
  PROVE  /\ \A m \in Message \ S : Free(Append(v, m), S)
         /\ v # <<>> => Free(Tail(v), S) /\ Head(v) \notin S
<1>1. ASSUME NEW m \in Message \ S PROVE Free(Append(v, m), S)
  <2>. DEFINE V == Append(v, m)
  <2>1. \A i \in DOMAIN V : (i \in DOMAIN v /\ V[i] = v[i]) \/ V[i] = m BY Longer
  <2>. HIDE DEF V
  <2>2. Free(V, S) BY <1>1, <2>1 DEF Free
  <2>. QED BY <2>2 DEF V
<1>2. ASSUME v # <<>> PROVE Free(Tail(v), S) /\ Head(v) \notin S
  <2>. DEFINE V == Tail(v)  h == Head(v)
  <2>1. /\ 1 \in DOMAIN v /\ h = v[1]
        /\ \A i \in DOMAIN V : i + 1 \in DOMAIN v /\ V[i] = v[i + 1]
    BY <1>2, Shorter
  <2>. HIDE DEF V, h
  <2>2. Free(V, S) /\ h \notin S BY <2>1 DEF Free
  <2>. QED BY <2>2 DEF V, h
<1>. QED BY <1>1, <1>2

\* An end that never bound the ext, while the other does, sends or flushes.
LEMMA OthersStaySilent ==
  ASSUME IInv, SilentUntilBound, NEW x \in Peers,
         Bind(x) \/ Unbind(x) \/ Flush(x) \/ \E t \in Threads : Send(x, t)
  PROVE  SilentUntilBound'
<1>. SUFFICES ASSUME NEW p \in Peers, NEW r \in Peers, p # r, binds'[p] = 0
     PROVE  /\ phase'[p] = "unbound" /\ lost'[p] = {}
            /\ ~firing'[p] /\ ~firing'[r] /\ ~connected'[r]
            /\ \A t \in Threads : sender'[r][t] # "transmit"
            /\ Free(wire'[p], MemberMessage) /\ Free(tasks'[p], MemberMessage)
            /\ Free(wire'[r], ExtMessage) /\ Free(tasks'[r], ExtMessage)
  BY DEF SilentUntilBound
<1>1. binds[p] = 0
  <2>1. binds \in [Peers -> Nat] BY DEF IInv, TypeOK
  <2>2. binds' = binds \/ BindAdvise(x)
    BY DEF Bind, BindAnnounce, BindMembers, Unbind, UnbindMembers, UnbindAnnounce, Unsubscribe,
           Flush, Send, SendLock, SendEnqueue, SendTransmit
  <2>3. CASE BindAdvise(x) BY <2>1, <2>3 DEF BindAdvise
  <2>. QED BY <2>2, <2>3
<1>2. /\ phase[p] = "unbound" /\ lost[p] = {}
      /\ ~firing[p] /\ ~firing[r] /\ ~connected[r]
      /\ \A t \in Threads : sender[r][t] # "transmit"
      /\ Free(wire[p], MemberMessage) /\ Free(tasks[p], MemberMessage)
      /\ Free(wire[r], ExtMessage) /\ Free(tasks[r], ExtMessage)
  BY <1>1 DEF SilentUntilBound
<1>3. Other(p) = r /\ Other(r) = p /\ (x = p \/ x = r) BY TwoEnds
<1>4. /\ wire \in [Peers -> Seq(Message)] /\ phase \in [Peers -> Phase] /\ binds \in [Peers -> Nat]
      /\ connected \in [Peers -> BOOLEAN] /\ firing \in [Peers -> BOOLEAN]
      /\ sender \in [Peers -> [Threads -> {"idle", "enqueue", "transmit"}]]
      /\ wire[p] \in Seq(Message) /\ wire[r] \in Seq(Message)
  BY DEF IInv, TypeOK
<1>5. tasks' = tasks /\ lost' = lost
  BY DEF Bind, BindAdvise, BindAnnounce, BindMembers, Unbind, UnbindMembers, UnbindAnnounce, Unsubscribe,
         Flush, Send, SendLock, SendEnqueue, SendTransmit, arrivalVars
<1>6. CASE x = p /\ ~\E t \in Threads : Send(x, t)
  <2>1. BindAdvise(p) BY <1>2, <1>6 DEF Bind, BindAnnounce, BindMembers, Unbind, UnbindMembers,
                                         UnbindAnnounce, Unsubscribe, Flush
  <2>. QED BY <1>4, <2>1, <1>1 DEF BindAdvise
<1>7. ASSUME NEW t \in Threads, x = p, Send(p, t)
      PROVE  /\ UNCHANGED <<phase, firing, connected>> /\ sender'[r] = sender[r] /\ wire'[p] = wire[p]
             /\ Free(wire'[r], ExtMessage)
  <2>1. ~SendLock(p, t) BY <1>2 DEF SendLock
  <2>2. CASE SendEnqueue(p, t) BY <1>2, <1>4, <2>2 DEF SendEnqueue
  <2>3. CASE SendTransmit(p, t)
    <3>1. Payload(t, sent[p][t]) \in Message \ ExtMessage
      <4>1. Payload(t, sent[p][t]) \in MemberMessage BY PayloadType DEF IInv
      <4>. QED BY <4>1, Kinds DEF Message
    <3>2. wire'[r] = wire[r] \o <<Payload(t, sent[p][t])>> /\ wire'[p] = wire[p]
      BY <1>3, <1>4, <2>3 DEF SendTransmit, Transmit
    <3>3. wire'[r] = Append(wire[r], Payload(t, sent[p][t])) BY <1>4, <3>1, <3>2
    <3>4. UNCHANGED <<phase, firing, connected>> /\ sender'[r] = sender[r]
      BY <1>4, <2>3 DEF SendTransmit, extVars
    <3>5. Free(Append(wire[r], Payload(t, sent[p][t])), ExtMessage) BY <1>2, <1>4, <3>1, FreeOf
    <3>. QED BY <3>2, <3>3, <3>4, <3>5
  <2>. QED BY <1>7, <2>1, <2>2, <2>3 DEF Send
<1>8. CASE x = r /\ (Bind(r) \/ Unbind(r))
  <2>1. /\ phase'[p] = "unbound" /\ ~firing'[p] /\ ~firing'[r] /\ ~connected'[r] /\ sender' = sender
        /\ wire'[r] = wire[r]
    BY <1>2, <1>3, <1>4, <1>8
    DEF Bind, BindAdvise, BindAnnounce, BindMembers, Unbind, UnbindMembers, UnbindAnnounce, Unsubscribe,
        Transmit, extVars, sendVars
  <2>2. Free(wire'[p], MemberMessage)
    <3>1. \A state \in ExtState : Ext(state) \in Message \ MemberMessage
      <4>1. \A state \in ExtState : Ext(state) \in ExtMessage BY DEF Ext, ExtMessage
      <4>. QED BY <4>1, Kinds DEF Message
    <3>2. wire'[p] = wire[p] \/ \E state \in ExtState : wire'[p] = wire[p] \o <<Ext(state)>>
      BY <1>3, <1>4, <1>8
      DEF Bind, BindAdvise, BindAnnounce, BindMembers, Unbind, UnbindMembers, UnbindAnnounce, Unsubscribe,
          Transmit, ExtState
    <3>3. \A state \in ExtState : wire[p] \o <<Ext(state)>> = Append(wire[p], Ext(state)) BY <1>4, <3>1
    <3>4. \A state \in ExtState : Free(Append(wire[p], Ext(state)), MemberMessage)
      BY <1>2, <1>4, <3>1, FreeOf
    <3>. QED BY <1>2, <3>2, <3>3, <3>4
  <2>. QED BY <1>2, <1>5, <2>1, <2>2
<1>9. ASSUME NEW t \in Threads, x = r, Send(r, t)
      PROVE  /\ UNCHANGED <<phase, firing, connected, wire>> /\ \A u \in Threads : sender'[r][u] # "transmit"
  <2>1. ~SendTransmit(r, t) BY <1>2 DEF SendTransmit
  <2>2. CASE SendLock(r, t)
    <3>1. sender' = [sender EXCEPT ![r][t] = "enqueue"] BY <1>2, <2>2 DEF SendLock
    <3>. QED BY <1>2, <1>4, <2>2, <3>1 DEF SendLock
  <2>3. CASE SendEnqueue(r, t) BY <1>2, <1>4, <2>3 DEF SendEnqueue
  <2>. QED BY <1>9, <2>1, <2>2, <2>3 DEF Send
<1>10. CASE x = r /\ Flush(r) BY <1>2, <1>10 DEF Flush
<1>11. CASE \E t \in Threads : Send(x, t)
  <2>1. PICK t \in Threads : Send(x, t) BY <1>11
  <2>2. CASE x = p BY <1>2, <1>5, <1>7, <2>1, <2>2
  <2>3. CASE x = r BY <1>2, <1>5, <1>9, <2>1, <2>3
  <2>. QED BY <1>3, <2>2, <2>3
<1>. QED BY <1>3, <1>6, <1>8, <1>10, <1>11

\* The messages that arrive keep it silent: an end that is not subscribed
\* answers nothing, and the other hears nothing of the ext.
LEMMA ArrivalStaysSilent ==
  ASSUME IInv, SilentUntilBound, NEW x \in Peers, Receive(x) \/ RunTask(x)
  PROVE  SilentUntilBound'
<1>. SUFFICES ASSUME NEW p \in Peers, NEW r \in Peers, p # r, binds[p] = 0
     PROVE  /\ phase'[p] = "unbound" /\ lost'[p] = {}
            /\ ~firing'[p] /\ ~firing'[r] /\ ~connected'[r]
            /\ \A t \in Threads : sender'[r][t] # "transmit"
            /\ Free(wire'[p], MemberMessage) /\ Free(tasks'[p], MemberMessage)
            /\ Free(wire'[r], ExtMessage) /\ Free(tasks'[r], ExtMessage)
  BY DEF SilentUntilBound, Receive, RunTask
<1>2. /\ phase[p] = "unbound" /\ lost[p] = {}
      /\ ~firing[p] /\ ~firing[r] /\ ~connected[r]
      /\ \A t \in Threads : sender[r][t] # "transmit"
      /\ Free(wire[p], MemberMessage) /\ Free(tasks[p], MemberMessage)
      /\ Free(wire[r], ExtMessage) /\ Free(tasks[r], ExtMessage)
  BY DEF SilentUntilBound
<1>3. Other(p) = r /\ Other(r) = p /\ (x = p \/ x = r) BY TwoEnds
<1>4. /\ wire \in [Peers -> Seq(Message)] /\ tasks \in [Peers -> Seq(Message)]
      /\ wire[p] \in Seq(Message) /\ wire[r] \in Seq(Message)
      /\ tasks[p] \in Seq(Message) /\ tasks[r] \in Seq(Message)
  BY DEF IInv, TypeOK
<1>5. phase' = phase /\ sender' = sender BY DEF Receive, RunTask, sendVars
<1>6. CASE Receive(x)
  <2>1. ~(Head(wire[x]) \in ExtMessage /\ Subscribed(x))
    <3>1. CASE x = p BY <1>2, <3>1 DEF Subscribed
    <3>2. CASE x = r BY <1>2, <1>4, <1>6, <3>2, FreeOf DEF Receive
    <3>. QED BY <1>3, <3>1, <3>2
  <2>2. /\ wire' = [wire EXCEPT ![x] = Tail(@)]
        /\ tasks' = [tasks EXCEPT ![x] = Append(@, Head(wire[x]))]
        /\ UNCHANGED <<extVars, lost>> /\ wire[x] # <<>>
    BY <1>6, <2>1 DEF Receive
  <2>3. Head(wire[x]) \in Message BY <1>4, <2>2
  <2>4. /\ Free(wire'[p], MemberMessage) /\ Free(tasks'[p], MemberMessage)
        /\ Free(wire'[r], ExtMessage) /\ Free(tasks'[r], ExtMessage)
    <3>1. CASE x = p
      <4>1. /\ wire'[p] = Tail(wire[p]) /\ tasks'[p] = Append(tasks[p], Head(wire[p]))
            /\ wire'[r] = wire[r] /\ tasks'[r] = tasks[r]
        BY <1>4, <2>2, <3>1
      <4>2. Free(Tail(wire[p]), MemberMessage) /\ Head(wire[p]) \in Message \ MemberMessage
        BY <1>2, <1>4, <2>2, <2>3, <3>1, FreeOf
      <4>. QED BY <1>2, <1>4, <4>1, <4>2, FreeOf
    <3>2. CASE x = r
      <4>1. /\ wire'[r] = Tail(wire[r]) /\ tasks'[r] = Append(tasks[r], Head(wire[r]))
            /\ wire'[p] = wire[p] /\ tasks'[p] = tasks[p]
        BY <1>4, <2>2, <3>2
      <4>2. Free(Tail(wire[r]), ExtMessage) /\ Head(wire[r]) \in Message \ ExtMessage
        BY <1>2, <1>4, <2>2, <2>3, <3>2, FreeOf
      <4>. QED BY <1>2, <1>4, <4>1, <4>2, FreeOf
    <3>. QED BY <1>3, <3>1, <3>2
  <2>. QED BY <1>2, <1>5, <2>2, <2>4 DEF extVars
<1>7. CASE RunTask(x)
  <2>1. tasks[x] # <<>> /\ tasks' = [tasks EXCEPT ![x] = Tail(@)] BY <1>7 DEF RunTask
  <2>2. ~(Head(tasks[x]) \in ExtMessage /\ Subscribed(x))
    <3>1. CASE x = p BY <1>2, <3>1 DEF Subscribed
    <3>2. CASE x = r BY <1>2, <1>4, <2>1, <3>2, FreeOf
    <3>. QED BY <1>3, <3>1, <3>2
  <2>3. UNCHANGED <<extVars, wire>> BY <1>7, <2>2 DEF RunTask
  <2>4. Free(tasks'[p], MemberMessage) /\ Free(tasks'[r], ExtMessage)
    <3>1. Free(Tail(tasks[x]), MemberMessage) \/ x # p BY <1>2, <1>4, <2>1, FreeOf
    <3>2. Free(Tail(tasks[x]), ExtMessage) \/ x # r BY <1>2, <1>4, <2>1, FreeOf
    <3>. QED BY <1>2, <1>3, <1>4, <2>1, <3>1, <3>2
  <2>5. lost'[p] = {}
    <3>1. CASE x = p
      <4>1. Head(tasks[p]) \in Message /\ Head(tasks[p]) \notin MemberMessage
        BY <1>2, <1>4, <2>1, <3>1, FreeOf, Shorter
      <4>2. lost' = lost BY <1>7, <3>1, <4>1, Kinds DEF RunTask
      <4>. QED BY <1>2, <4>2
    <3>2. CASE x = r
      <4>1. lost \in [Peers -> SUBSET MemberMessage] BY DEF IInv, TypeOK
      <4>2. lost'[p] = lost[p] BY <1>7, <3>2, <4>1 DEF RunTask
      <4>. QED BY <1>2, <4>2
    <3>. QED BY <1>3, <3>1, <3>2
  <2>. QED BY <1>2, <1>5, <2>3, <2>4, <2>5 DEF extVars
<1>. QED BY <1>6, <1>7

\* A message is lost only while the ext is not bound.
LEMMA LossKept ==
  ASSUME IInv, SilentUntilBound, LostOnlyWhenUnbound, Next
  PROVE  LostOnlyWhenUnbound'
<1>. SUFFICES ASSUME NEW p \in Peers, lost'[p] # {} PROVE binds'[p] > 1 \/ phase'[p] = "unbound"
  BY DEF LostOnlyWhenUnbound
<1>. USE DEF IInv, TypeOK
<1>1. PICK x \in Peers : \/ Bind(x) \/ Unbind(x) \/ Receive(x) \/ RunTask(x) \/ Flush(x)
                         \/ \E t \in Threads : Send(x, t)
  BY DEF Next
<1>2. CASE RunTask(x) /\ x = p
  <2>1. phase' = phase /\ binds' = binds BY <1>2 DEF RunTask
  <2>2. phase[p] = "unbound" \/ lost'[p] = lost[p] BY <1>2 DEF RunTask
  <2>. QED BY <2>1, <2>2 DEF LostOnlyWhenUnbound
<1>3. CASE ~(RunTask(x) /\ x = p)
  <2>1. lost'[p] = lost[p]
    BY <1>1, <1>3
    DEF Bind, BindAdvise, BindAnnounce, BindMembers, Unbind, UnbindMembers, UnbindAnnounce, Unsubscribe,
        Flush, Send, SendLock, SendEnqueue, SendTransmit, Receive, RunTask, arrivalVars
  <2>2. binds[p] > 1 \/ phase[p] = "unbound" BY <2>1 DEF LostOnlyWhenUnbound
  <2>3. CASE BindAdvise(p)
    <3>1. \E r \in Peers : p # r BY ExtWireAssumption
    <3>2. binds[p] # 0 BY <2>1, <3>1 DEF SilentUntilBound
    <3>. QED BY <2>3, <3>2 DEF BindAdvise
  <2>4. CASE ~BindAdvise(p)
    <3>1. binds'[p] = binds[p] /\ (phase[p] = "unbound" => phase'[p] = "unbound")
      BY <1>1, <2>4
      DEF Bind, BindAdvise, BindAnnounce, BindMembers, Unbind, UnbindMembers, UnbindAnnounce, Unsubscribe,
          Flush, Send, SendLock, SendEnqueue, SendTransmit, Receive, RunTask
    <3>. QED BY <2>2, <3>1
  <2>. QED BY <2>3, <2>4
<1>. QED BY <1>2, <1>3

\* Nothing is on its way before anything is bound.
LEMMA DeliveryInitInv == Init => DeliveryInv
<1>. SUFFICES ASSUME Init PROVE DeliveryInv OBVIOUS
<1>1. IInv BY InitInv
<1>2. AllOrdered
  BY DEF Init, AllOrdered, Ordered, Line, Rising, Before, Given, NothingToOvertake
<1>3. SilentUntilBound /\ LostOnlyWhenUnbound
  BY DEF Init, SilentUntilBound, LostOnlyWhenUnbound, Free
<1>. QED BY <1>1, <1>2, <1>3 DEF DeliveryInv

\* Every step keeps the order and the silence.
LEMMA DeliveryNextInv == DeliveryInv /\ [Next]_vars => DeliveryInv'
<1>. SUFFICES ASSUME DeliveryInv, [Next]_vars PROVE DeliveryInv' OBVIOUS
<1>1. IInv' BY NextInv DEF DeliveryInv
<1>2. CASE UNCHANGED vars
  <2>1. AllOrdered'
    BY <1>2 DEF vars, extVars, sendVars, arrivalVars, DeliveryInv, AllOrdered
  <2>2. SilentUntilBound' /\ LostOnlyWhenUnbound'
    BY <1>2 DEF vars, extVars, sendVars, arrivalVars, DeliveryInv, SilentUntilBound, LostOnlyWhenUnbound
  <2>. QED BY <1>1, <2>1, <2>2 DEF DeliveryInv
<1>3. CASE Next
  <2>1. AllOrdered'
    BY <1>3, BindKeepsOrder, SendKeepsOrder, ReceiveKeepsOrder, RunTaskKeepsOrder DEF Next, DeliveryInv
  <2>2. SilentUntilBound' BY <1>3, OthersStaySilent, ArrivalStaysSilent DEF Next, DeliveryInv
  <2>3. LostOnlyWhenUnbound' BY <1>3, LossKept DEF DeliveryInv
  <2>. QED BY <1>1, <2>1, <2>2, <2>3 DEF DeliveryInv
<1>. QED BY <1>2, <1>3

\* The order of everything under way between the two ends is kept.
THEOREM DeliveryInvariance == Spec => []DeliveryInv
<1>. QED BY DeliveryInitInv, DeliveryNextInv, PTL DEF Spec

\* What one thread sends arrives in order, by sendQ or directly, over any number
\* of bindings, and is lost only at an end that has unbound the ext
\* (ExtWire::send and the listener of connected, RdExtBase::init).
THEOREM DeliveryTheorem == Spec => []DeliveryCorrect
<1>1. DeliveryInv => DeliveryCorrect
  <2>. SUFFICES ASSUME DeliveryInv PROVE DeliveryCorrect OBVIOUS
  <2>1. ASSUME NEW r \in Peers, NEW i \in DOMAIN delivered[r], NEW j \in DOMAIN delivered[r],
               i < j, delivered[r][i].from = delivered[r][j].from
        PROVE  delivered[r][i].number < delivered[r][j].number
    <3>1. PICK p \in Peers : p # r BY ExtWireAssumption
    <3>2. Rising(delivered[r]) BY <3>1 DEF DeliveryInv, AllOrdered, Ordered, Line
    <3>3. delivered[r] \in Seq(MemberMessage) BY DEF DeliveryInv, IInv, TypeOK
    <3>4. delivered[r][i] \in MemberMessage /\ delivered[r][j] \in MemberMessage BY <3>3
    <3>. QED BY <2>1, <3>2, <3>4 DEF Rising, Earlier
  <2>. QED BY <2>1 DEF DeliveryInv, DeliveryCorrect, InOrderPerThread
<1>. QED BY <1>1, DeliveryInvariance, PTL
-----------------------------------------------------------------------------
\* THE BROKER

Elems(s) == {s[i] : i \in DOMAIN s}
Increasing(s) == \A i, j \in DOMAIN s : i < j => s[i] < s[j]
Below(A, B) == \A a \in A, b \in B : a < b

ActionsFor(s, id) == {i \in DOMAIN s : s[i].kind = "action" /\ s[i].id = id}
InvokesFor(s, id) == {i \in DOMAIN s : s[i].kind = "invoke" /\ s[i].id = id}
Queued(s, id) == {s[i].message : i \in InvokesFor(s, id)}
QueuedInOrder(s, id) ==
  /\ \A i, j \in InvokesFor(s, id) : i < j => s[i].message < s[j].message
  /\ \A i \in ActionsFor(s, id), j \in InvokesFor(s, id) : i < j

Entries == [entry : Nat, live : BOOLEAN, default : Seq(Nat), custom : Seq(Nat)]
DefaultTasks == [kind : {"action"}, id : Ids, entry : Nat]
                  \cup [kind : {"invoke"}, id : Ids, message : Nat]
Workers == {IdleWorker}
  \cup [pc : {"handle", "check", "take"}, id : Ids, subscribed : BOOLEAN, message : Seq(Nat)]
  \cup [pc : {"erase", "flush"}, id : Ids, subscribed : BOOLEAN, custom : Seq(Nat)]

BrokerTypeOK ==
  /\ subscriptions \in [Ids -> {"absent", "null", "entity"}]
  /\ broker \in [Ids -> Entries] /\ defaultTasks \in Seq(DefaultTasks)
  /\ worker \in Workers
  /\ worker.pc = "flush" => worker.custom # <<>>
  /\ dispatched \in Nat /\ handled \in [Ids -> Seq(Nat)]
  /\ ended \subseteq Ids /\ racedIds \subseteq Ids

WorksOn(id, at) == worker.pc \in at /\ worker.id = id

AtWork(id) == worker.pc # "idle" /\ worker.id = id

\* An entry has what its actions will find, and the worker keeps it until then.
EntryKept(id) ==
  /\ subscriptions[id] = "entity" => id \notin ended
  /\ ~broker[id].live => broker[id].default = <<>> /\ broker[id].custom = <<>>
  /\ id \notin racedIds =>
       /\ Cardinality(ActionsFor(defaultTasks, id)) = Len(broker[id].default)
       /\ \A i \in ActionsFor(defaultTasks, id) :
            broker[id].live /\ broker[id].entry = defaultTasks[i].entry
       /\ WorksOn(id, {"handle", "check", "take", "erase"}) => broker[id].live
       /\ WorksOn(id, {"take", "erase", "flush"}) => broker[id].default = <<>>
       /\ WorksOn(id, {"erase", "flush"}) => broker[id].custom = <<>>

\* What the worker has in its hands of an id.
InHand(id) ==
  IF WorksOn(id, {"handle"}) THEN Elems(worker.message)
  ELSE IF WorksOn(id, {"erase", "flush"}) THEN Elems(worker.custom) ELSE {}

FromBefore(id) == Elems(broker[id].default)
FromThen(id) == Elems(broker[id].custom) \cup Queued(defaultTasks, id)

\* Handled before what is in the hand, that before what came before the
\* subscription, that before the rest, and all of it before the next message.
Chain(done, hand, before, then, next) ==
  /\ Below(done, hand) /\ Below(done, before) /\ Below(done, then)
  /\ Below(hand, before) /\ Below(hand, then) /\ Below(before, then)
  /\ \A x \in done \cup hand \cup before \cup then : x \in Nat /\ x < next

InOrder(id) ==
  /\ Chain(Elems(handled[id]), InHand(id), FromBefore(id), FromThen(id), dispatched + 1)
  /\ Increasing(broker[id].default) /\ Increasing(broker[id].custom)
  /\ WorksOn(id, {"erase", "flush"}) => Increasing(worker.custom)
  /\ QueuedInOrder(defaultTasks, id)

\* Who waits where.
WaitsAtHome(id) ==
  /\ SchedulerOf[id] # "default" => Queued(defaultTasks, id) = {}
  /\ SchedulerOf[id] = "default" =>
       broker[id].custom = <<>> /\ (WorksOn(id, {"erase", "flush"}) => worker.custom = <<>>)
  /\ subscriptions[id] # "entity" =>
       /\ FromThen(id) = {} /\ (WorksOn(id, {"erase", "flush"}) => worker.custom = <<>>)

EntryOrdered(id) ==
  /\ Increasing(handled[id])
  /\ id \notin ended => InOrder(id) /\ WaitsAtHome(id)

\* One id among the others.
InGoodOrder(id) ==
  /\ EntryKept(id)
  /\ id \notin racedIds /\ SchedulerOf[id] # "intern" => EntryOrdered(id)

BrokerInv == BrokerTypeOK /\ \A id \in Ids : InGoodOrder(id)

\* A message at the end of a queue of messages.
LEMMA MessageAppended ==
  ASSUME NEW s \in Seq(Nat), NEW x \in Nat
  PROVE  /\ Append(s, x) \in Seq(Nat) /\ Append(s, x) # <<>>
         /\ Len(Append(s, x)) = Len(s) + 1
         /\ Elems(Append(s, x)) = Elems(s) \cup {x}
         /\ Increasing(s) /\ Below(Elems(s), {x}) => Increasing(Append(s, x))
<1>. DEFINE t == Append(s, x)
<1>1. /\ t \in Seq(Nat) /\ Len(s) \in Nat /\ DOMAIN s = 1 .. Len(s) /\ Len(t) = Len(s) + 1
      /\ DOMAIN t = 1 .. (Len(s) + 1) /\ t[Len(s) + 1] = x
      /\ \A i \in DOMAIN s : t[i] = s[i]
  OBVIOUS
<1>. HIDE DEF t
<1>2. Elems(t) = Elems(s) \cup {x}
  <2>1. \A i \in DOMAIN t : i \in DOMAIN s \/ i = Len(s) + 1 BY <1>1
  <2>2. Len(s) + 1 \in DOMAIN t /\ \A i \in DOMAIN s : i \in DOMAIN t BY <1>1
  <2>. QED BY <2>1, <2>2, <1>1 DEF Elems
<1>3. ASSUME Increasing(s), Below(Elems(s), {x}) PROVE Increasing(t)
  <2>. SUFFICES ASSUME NEW i \in DOMAIN t, NEW j \in DOMAIN t, i < j PROVE t[i] < t[j] BY DEF Increasing
  <2>1. i \in DOMAIN s /\ t[i] = s[i] BY <1>1
  <2>2. CASE j = Len(s) + 1
    <3>1. s[i] \in Elems(s) BY <2>1 DEF Elems
    <3>. QED BY <3>1, <2>1, <2>2, <1>1, <1>3 DEF Below
  <2>3. CASE j # Len(s) + 1
    <3>1. j \in DOMAIN s /\ t[j] = s[j] BY <2>3, <1>1
    <3>. QED BY <3>1, <2>1, <1>3 DEF Increasing
  <2>. QED BY <2>2, <2>3
<1>4. t # <<>> BY <1>1
<1>. QED BY <1>1, <1>2, <1>3, <1>4 DEF t

\* The first of a queue of messages and the rest.
LEMMA MessageTaken ==
  ASSUME NEW s \in Seq(Nat), s # <<>>
  PROVE  /\ Tail(s) \in Seq(Nat) /\ Head(s) \in Nat
         /\ Len(s) \in Nat \ {0} /\ Len(Tail(s)) = Len(s) - 1
         /\ Elems(s) = {Head(s)} \cup Elems(Tail(s))
         /\ Increasing(s) => Increasing(Tail(s)) /\ Below({Head(s)}, Elems(Tail(s)))
<1>. DEFINE t == Tail(s)
<1>1. /\ t \in Seq(Nat) /\ Len(s) \in Nat \ {0} /\ DOMAIN s = 1 .. Len(s) /\ Len(t) = Len(s) - 1
      /\ DOMAIN t = 1 .. (Len(s) - 1) /\ Head(s) = s[1] /\ Head(s) \in Nat
      /\ \A i \in DOMAIN t : t[i] = s[i + 1]
  OBVIOUS
<1>. HIDE DEF t
<1>2. \A i \in DOMAIN t : i \in Int /\ i + 1 \in DOMAIN s /\ 1 < i + 1 /\ t[i] = s[i + 1]
  <2>1. PICK n : n = Len(s) /\ n \in Nat \ {0} BY <1>1
  <2>2. DOMAIN s = 1 .. n /\ DOMAIN t = 1 .. (n - 1) BY <1>1, <2>1
  <2>3. \A i \in 1 .. (n - 1) : i \in Int /\ i + 1 \in 1 .. n /\ 1 < i + 1 BY <2>1
  <2>. QED BY <1>1, <2>2, <2>3
<1>3. ASSUME NEW i \in DOMAIN s PROVE i \in Int /\ (i # 1 => i - 1 \in DOMAIN t /\ t[i - 1] = s[i])
  <2>1. PICK n : n = Len(s) /\ n \in Nat \ {0} BY <1>1
  <2>2. DOMAIN s = 1 .. n /\ DOMAIN t = 1 .. (n - 1) BY <1>1, <2>1
  <2>3. i \in 1 .. n BY <2>2
  <2>4. i \in Int /\ (i # 1 => i - 1 \in 1 .. (n - 1)) /\ (i - 1) + 1 = i BY <2>1, <2>3
  <2>. QED BY <2>2, <2>4, <1>2
<1>4. 1 \in DOMAIN s BY <1>1
<1>5. Elems(s) = {Head(s)} \cup Elems(t)
  <2>1. ASSUME NEW v \in Elems(s) PROVE v \in {Head(s)} \cup Elems(t)
    <3>1. PICK i \in DOMAIN s : v = s[i] BY <2>1 DEF Elems
    <3>2. CASE i = 1 BY <3>1, <3>2, <1>1
    <3>3. CASE i # 1
      <4>1. i - 1 \in DOMAIN t /\ t[i - 1] = v BY <3>1, <3>3, <1>3
      <4>. QED BY <4>1 DEF Elems
    <3>. QED BY <3>2, <3>3
  <2>2. ASSUME NEW v \in Elems(t) PROVE v \in Elems(s) BY <2>2, <1>1, <1>2 DEF Elems
  <2>3. Head(s) \in Elems(s) BY <1>1, <1>4 DEF Elems
  <2>. QED BY <2>1, <2>2, <2>3
<1>6. ASSUME Increasing(s) PROVE Increasing(t)
  <2>. SUFFICES ASSUME NEW i \in DOMAIN t, NEW j \in DOMAIN t, i < j PROVE t[i] < t[j] BY DEF Increasing
  <2>1. i + 1 \in DOMAIN s /\ j + 1 \in DOMAIN s /\ i + 1 < j + 1 BY <1>2
  <2>2. s[i + 1] < s[j + 1] BY <2>1, <1>6 DEF Increasing
  <2>. QED BY <2>2, <1>2
<1>7. ASSUME Increasing(s) PROVE Below({Head(s)}, Elems(t))
  <2>. SUFFICES ASSUME NEW i \in DOMAIN t PROVE s[1] < t[i] BY <1>1 DEF Below, Elems
  <2>. QED BY <1>1, <1>2, <1>4, <1>7 DEF Increasing
<1>. QED BY <1>1, <1>5, <1>6, <1>7 DEF t

\* The empty queue.
LEMMA NoMessage ==
  /\ <<>> \in Seq(Nat) /\ Elems(<<>>) = {} /\ Increasing(<<>>) /\ Len(<<>>) = 0
  /\ \A s \in Seq(Nat) : Elems(s) = {} \/ Len(s) = 0 => s = <<>>
<1>1. \A s \in Seq(Nat) : DOMAIN s = 1 .. Len(s) /\ Len(s) \in Nat OBVIOUS
<1>2. \A s \in Seq(Nat) : Len(s) = 0 => s = <<>> OBVIOUS
<1>3. \A s \in Seq(Nat) : Elems(s) = {} => Len(s) = 0
  <2>. SUFFICES ASSUME NEW s \in Seq(Nat), Elems(s) = {}, Len(s) # 0 PROVE FALSE OBVIOUS
  <2>1. 1 \in DOMAIN s BY <1>1
  <2>. QED BY <2>1 DEF Elems
<1>4. /\ <<>> \in Seq(Nat) /\ Elems(<<>>) = {} /\ Increasing(<<>>) /\ Len(<<>>) = 0
  BY DEF Elems, Increasing
<1>. QED BY <1>2, <1>3, <1>4

\* Numbers in a queue are numbers.
LEMMA MessagesAreNumbers ==
  ASSUME NEW s \in Seq(Nat)
  PROVE  \A x \in Elems(s) : x \in Nat
BY DEF Elems

\* Positions that move up by one are as many as before.
LEMMA ShiftedCount ==
  ASSUME NEW A, NEW B, IsFiniteSet(A),
         \A i \in A : i \in Int /\ i - 1 \in B, \A i \in B : i \in Int /\ i + 1 \in A
  PROVE  IsFiniteSet(B) /\ Cardinality(B) = Cardinality(A)
<1>. DEFINE f == [i \in A |-> i - 1]
<1>1. f \in [A -> B] OBVIOUS
<1>2. \A i, j \in A : f[i] = f[j] => i = j OBVIOUS
<1>3. \A j \in B : j + 1 \in A /\ f[j + 1] = j OBVIOUS
<1>4. f \in Bijection(A, B)
  BY <1>1, <1>2, <1>3 DEF Bijection, Injection, Surjection, IsInjective
<1>5. ExistsBijection(A, B) BY <1>4 DEF ExistsBijection
<1>. QED BY <1>5, FS_Bijection

\* The actions in a queue can be counted.
LEMMA ActionsCounted ==
  ASSUME NEW s \in Seq(DefaultTasks), NEW id
  PROVE  IsFiniteSet(ActionsFor(s, id)) /\ Cardinality(ActionsFor(s, id)) \in Nat
<1>1. DOMAIN s = 1 .. Len(s) /\ Len(s) \in Nat OBVIOUS
<1>2. IsFiniteSet(DOMAIN s) BY <1>1, FS_Interval
<1>3. ActionsFor(s, id) \in SUBSET DOMAIN s BY DEF ActionsFor
<1>4. IsFiniteSet(ActionsFor(s, id)) BY <1>2, <1>3, FS_Subset
<1>. QED BY <1>4, FS_CardinalityType

\* A task at the end of the queue.
LEMMA TaskAppended ==
  ASSUME NEW s \in Seq(DefaultTasks), NEW t \in DefaultTasks
  PROVE  /\ Append(s, t) \in Seq(DefaultTasks)
         /\ Len(s) + 1 \in DOMAIN Append(s, t) /\ Append(s, t)[Len(s) + 1] = t
         /\ \A i \in DOMAIN s : i \in Int /\ i < Len(s) + 1 /\ i \in DOMAIN Append(s, t) /\ Append(s, t)[i] = s[i]
         /\ \A i \in DOMAIN Append(s, t) : i \in DOMAIN s \/ i = Len(s) + 1
         /\ Len(s) \in Nat
OBVIOUS

\* The first task of the queue is taken.
LEMMA TaskTaken ==
  ASSUME NEW s \in Seq(DefaultTasks), s # <<>>
  PROVE  /\ Tail(s) \in Seq(DefaultTasks)
         /\ 1 \in DOMAIN s /\ Head(s) = s[1] /\ Head(s) \in DefaultTasks
         /\ \A i \in DOMAIN Tail(s) : i \in Int /\ i + 1 \in DOMAIN s /\ i + 1 > 1 /\ Tail(s)[i] = s[i + 1]
         /\ \A i \in DOMAIN s : i \in Int /\ i >= 1 /\ (i # 1 => i - 1 \in DOMAIN Tail(s) /\ Tail(s)[i - 1] = s[i])
<1>. DEFINE t == Tail(s)
<1>1. /\ t \in Seq(DefaultTasks) /\ Len(s) \in Nat \ {0} /\ DOMAIN s = 1 .. Len(s)
      /\ DOMAIN t = 1 .. (Len(s) - 1) /\ Head(s) = s[1] /\ Head(s) \in DefaultTasks
      /\ \A i \in DOMAIN t : t[i] = s[i + 1]
  OBVIOUS
<1>. HIDE DEF t
<1>2. \A i \in DOMAIN t : i \in Int /\ i + 1 \in DOMAIN s /\ i + 1 > 1 /\ t[i] = s[i + 1] BY <1>1
<1>3. ASSUME NEW i \in DOMAIN s PROVE i \in Int /\ i >= 1 /\ (i # 1 => i - 1 \in DOMAIN t /\ t[i - 1] = s[i])
  <2>1. i \in Int /\ i >= 1 /\ (i # 1 => i - 1 \in DOMAIN t) /\ (i - 1) + 1 = i BY <1>1
  <2>. QED BY <2>1, <1>2
<1>4. 1 \in DOMAIN s BY <1>1
<1>. QED BY <1>1, <1>2, <1>3, <1>4 DEF t

\* What queueing an action, a message, or something for another id makes of
\* the queue s.
ActionAdded(s, u, t, id) ==
  /\ Cardinality(ActionsFor(u, id)) = Cardinality(ActionsFor(s, id)) + 1
  /\ \A i \in ActionsFor(u, id) : u[i] = t \/ (i \in ActionsFor(s, id) /\ u[i] = s[i])
  /\ Queued(u, id) = Queued(s, id)
  /\ Queued(s, id) = {} => QueuedInOrder(u, id)

MessageAdded(s, u, m, id) ==
  /\ ActionsFor(u, id) = ActionsFor(s, id)
  /\ \A i \in ActionsFor(s, id) : u[i] = s[i]
  /\ Queued(u, id) = Queued(s, id) \cup {m}
  /\ QueuedInOrder(s, id) /\ Below(Queued(s, id), {m}) => QueuedInOrder(u, id)

NothingAdded(s, u, id) ==
  /\ Cardinality(ActionsFor(u, id)) = Cardinality(ActionsFor(s, id))
  /\ \A i \in ActionsFor(u, id) : \E j \in ActionsFor(s, id) : u[i] = s[j]
  /\ Queued(u, id) = Queued(s, id)
  /\ QueuedInOrder(s, id) => QueuedInOrder(u, id)

\* An action for the id is queued: when no invoke of the id is there, the
\* order is kept.
LEMMA ActionQueued ==
  ASSUME NEW s \in Seq(DefaultTasks), NEW t \in DefaultTasks, NEW u, u = Append(s, t), NEW id,
         t.kind = "action", t.id = id
  PROVE  ActionAdded(s, u, t, id)
<1>. DEFINE n == Len(s) + 1
<1>1. /\ n \in DOMAIN u /\ u[n] = t
      /\ \A i \in DOMAIN s : i \in Int /\ i < n /\ i \in DOMAIN u /\ u[i] = s[i]
      /\ \A i \in DOMAIN u : i \in DOMAIN s \/ i = n
      /\ n \in Int
  BY TaskAppended
<1>. HIDE DEF n
<1>2. ActionsFor(u, id) = ActionsFor(s, id) \cup {n} BY <1>1 DEF ActionsFor
<1>3. n \notin ActionsFor(s, id) BY <1>1 DEF ActionsFor
<1>4. Cardinality(ActionsFor(u, id)) = Cardinality(ActionsFor(s, id)) + 1
  BY <1>2, <1>3, ActionsCounted, FS_AddElement
<1>5. InvokesFor(u, id) = InvokesFor(s, id) BY <1>1 DEF InvokesFor
<1>6. \A i \in InvokesFor(s, id) : u[i] = s[i] BY <1>1 DEF InvokesFor
<1>7. Queued(u, id) = Queued(s, id) BY <1>5, <1>6 DEF Queued
<1>8. \A i \in ActionsFor(u, id) : u[i] = t \/ (i \in ActionsFor(s, id) /\ u[i] = s[i])
  BY <1>1, <1>2 DEF ActionsFor
<1>9. Queued(s, id) = {} => QueuedInOrder(u, id) BY <1>5 DEF QueuedInOrder, Queued
<1>. QED BY <1>4, <1>5, <1>7, <1>8, <1>9 DEF ActionAdded

\* A message for the id is queued behind the others.
LEMMA InvokeQueued ==
  ASSUME NEW s \in Seq(DefaultTasks), NEW t \in DefaultTasks, NEW u, u = Append(s, t), NEW id,
         t.kind = "invoke", t.id = id
  PROVE  MessageAdded(s, u, t.message, id)
<1>. DEFINE n == Len(s) + 1
<1>1. /\ n \in DOMAIN u /\ u[n] = t
      /\ \A i \in DOMAIN s : i \in Int /\ i < n /\ i \in DOMAIN u /\ u[i] = s[i]
      /\ \A i \in DOMAIN u : i \in DOMAIN s \/ i = n
      /\ n \in Int
  BY TaskAppended
<1>. HIDE DEF n
<1>2. ActionsFor(u, id) = ActionsFor(s, id) BY <1>1 DEF ActionsFor
<1>3. \A i \in ActionsFor(s, id) : u[i] = s[i] BY <1>1 DEF ActionsFor
<1>4. InvokesFor(u, id) = InvokesFor(s, id) \cup {n} BY <1>1 DEF InvokesFor
<1>5. \A i \in InvokesFor(s, id) : i \in Int /\ i < n /\ u[i] = s[i] BY <1>1 DEF InvokesFor
<1>6. Queued(u, id) = Queued(s, id) \cup {t.message}
  <2>1. ASSUME NEW v \in Queued(u, id) PROVE v \in Queued(s, id) \cup {t.message}
    BY <2>1, <1>4, <1>5, <1>1 DEF Queued
  <2>2. Queued(s, id) \subseteq Queued(u, id) BY <1>4, <1>5 DEF Queued
  <2>3. t.message \in Queued(u, id) BY <1>4, <1>1 DEF Queued
  <2>. QED BY <2>1, <2>2, <2>3
<1>7. ASSUME QueuedInOrder(s, id), Below(Queued(s, id), {t.message}) PROVE QueuedInOrder(u, id)
  <2>1. ASSUME NEW i \in InvokesFor(u, id), NEW j \in InvokesFor(u, id), i < j PROVE u[i].message < u[j].message
    <3>1. i \in InvokesFor(s, id)
      <4>1. i # n
        <5>1. j = n \/ (j \in Int /\ j < n) BY <1>4, <1>5
        <5>. QED BY <5>1, <2>1, <1>1
      <4>. QED BY <4>1, <1>4
    <3>2. CASE j = n
      <4>1. s[i].message \in Queued(s, id) BY <3>1 DEF Queued
      <4>. QED BY <4>1, <3>1, <3>2, <1>1, <1>5, <1>7 DEF Below
    <3>3. CASE j # n
      <4>1. j \in InvokesFor(s, id) BY <3>3, <1>4
      <4>. QED BY <4>1, <3>1, <2>1, <1>5, <1>7 DEF QueuedInOrder
    <3>. QED BY <3>2, <3>3
  <2>2. ASSUME NEW i \in ActionsFor(u, id), NEW j \in InvokesFor(u, id) PROVE i < j
    <3>1. i \in DOMAIN s /\ i < n BY <1>1, <1>2 DEF ActionsFor
    <3>. QED BY <3>1, <1>2, <1>4, <1>7 DEF QueuedInOrder
  <2>. QED BY <2>1, <2>2 DEF QueuedInOrder
<1>. QED BY <1>2, <1>3, <1>6, <1>7 DEF MessageAdded

\* What is queued for another id is nothing to this one.
LEMMA OtherQueued ==
  ASSUME NEW s \in Seq(DefaultTasks), NEW t \in DefaultTasks, NEW u, u = Append(s, t), NEW id, t.id # id
  PROVE  NothingAdded(s, u, id)
<1>. DEFINE n == Len(s) + 1
<1>1. /\ n \in DOMAIN u /\ u[n] = t
      /\ \A i \in DOMAIN s : i \in Int /\ i < n /\ i \in DOMAIN u /\ u[i] = s[i]
      /\ \A i \in DOMAIN u : i \in DOMAIN s \/ i = n
      /\ n \in Int
  BY TaskAppended
<1>. HIDE DEF n
<1>2. ActionsFor(u, id) = ActionsFor(s, id) BY <1>1 DEF ActionsFor
<1>3. \A i \in ActionsFor(s, id) : u[i] = s[i] BY <1>1 DEF ActionsFor
<1>4. InvokesFor(u, id) = InvokesFor(s, id) BY <1>1 DEF InvokesFor
<1>5. \A i \in InvokesFor(s, id) : u[i] = s[i] BY <1>1 DEF InvokesFor
<1>6. Queued(u, id) = Queued(s, id) BY <1>4, <1>5 DEF Queued
<1>7. QueuedInOrder(s, id) => QueuedInOrder(u, id) BY <1>2, <1>4, <1>5 DEF QueuedInOrder
<1>. QED BY <1>2, <1>3, <1>4, <1>6, <1>7 DEF NothingAdded

\* The actions of t are among those of s, and the order of s is that of t.
FromAmong(t, s, id) ==
  /\ \A i \in ActionsFor(t, id) : \E j \in ActionsFor(s, id) : t[i] = s[j]
  /\ QueuedInOrder(s, id) => QueuedInOrder(t, id)

\* The task at the head, whatever it is: the actions that stay are as many as
\* were behind it, and the messages that stay are those that were behind it.
LEMMA HeadRun ==
  ASSUME NEW s \in Seq(DefaultTasks), s # <<>>, NEW id
  PROVE  /\ Cardinality(ActionsFor(Tail(s), id)) = Cardinality(ActionsFor(s, id) \ {1})
         /\ FromAmong(Tail(s), s, id)
         /\ Queued(Tail(s), id) = {s[i].message : i \in InvokesFor(s, id) \ {1}}
<1>. DEFINE t == Tail(s)
<1>1. /\ \A i \in DOMAIN t : i \in Int /\ i + 1 \in DOMAIN s /\ i + 1 > 1 /\ t[i] = s[i + 1]
      /\ \A i \in DOMAIN s : i \in Int /\ i >= 1 /\ (i # 1 => i - 1 \in DOMAIN t /\ t[i - 1] = s[i])
  BY TaskTaken
<1>. HIDE DEF t
<1>2. \A i \in ActionsFor(t, id) : i \in Int /\ i + 1 \in ActionsFor(s, id) /\ i + 1 # 1 /\ t[i] = s[i + 1]
  BY <1>1 DEF ActionsFor
<1>3. \A i \in ActionsFor(s, id) \ {1} : i \in Int /\ i - 1 \in ActionsFor(t, id)
  BY <1>1 DEF ActionsFor
<1>4. \A i \in InvokesFor(t, id) : i \in Int /\ i + 1 \in InvokesFor(s, id) /\ i + 1 # 1 /\ t[i] = s[i + 1]
  BY <1>1 DEF InvokesFor
<1>5. \A i \in InvokesFor(s, id) \ {1} : i \in Int /\ i - 1 \in InvokesFor(t, id) /\ t[i - 1] = s[i]
  BY <1>1 DEF InvokesFor
<1>6. Cardinality(ActionsFor(t, id)) = Cardinality(ActionsFor(s, id) \ {1})
  <2>1. IsFiniteSet(ActionsFor(s, id) \ {1}) BY ActionsCounted, FS_RemoveElement
  <2>2. \A i \in ActionsFor(t, id) : i \in Int /\ i + 1 \in ActionsFor(s, id) \ {1} BY <1>2
  <2>. QED BY <2>1, <2>2, <1>3, ShiftedCount
<1>7. \A i \in ActionsFor(t, id) : \E j \in ActionsFor(s, id) : t[i] = s[j] BY <1>2
<1>8. Queued(t, id) = {s[i].message : i \in InvokesFor(s, id) \ {1}}
  <2>1. ASSUME NEW m \in Queued(t, id) PROVE m \in {s[i].message : i \in InvokesFor(s, id) \ {1}}
    BY <2>1, <1>4 DEF Queued
  <2>2. ASSUME NEW i \in InvokesFor(s, id) \ {1} PROVE s[i].message \in Queued(t, id)
    BY <2>2, <1>5 DEF Queued
  <2>. QED BY <2>1, <2>2
<1>9. ASSUME QueuedInOrder(s, id) PROVE QueuedInOrder(t, id)
  <2>1. ASSUME NEW i \in InvokesFor(t, id), NEW j \in InvokesFor(t, id), i < j PROVE t[i].message < t[j].message
    <3>1. /\ i + 1 \in InvokesFor(s, id) /\ j + 1 \in InvokesFor(s, id) /\ i + 1 < j + 1
          /\ t[i] = s[i + 1] /\ t[j] = s[j + 1]
      BY <2>1, <1>4
    <3>2. s[i + 1].message < s[j + 1].message BY <3>1, <1>9 DEF QueuedInOrder
    <3>. QED BY <3>1, <3>2
  <2>2. ASSUME NEW i \in ActionsFor(t, id), NEW j \in InvokesFor(t, id) PROVE i < j
    <3>1. i + 1 < j + 1 BY <1>2, <1>4, <1>9 DEF QueuedInOrder
    <3>. QED BY <3>1, <1>2, <1>4
  <2>. QED BY <2>1, <2>2 DEF QueuedInOrder
<1>. QED BY <1>6, <1>7, <1>8, <1>9 DEF t, FromAmong

\* The action at the head is run.
LEMMA ActionTaken ==
  ASSUME NEW s \in Seq(DefaultTasks), s # <<>>, NEW id, Head(s).kind = "action", Head(s).id = id
  PROVE  /\ 1 \in ActionsFor(s, id)
         /\ Cardinality(ActionsFor(Tail(s), id)) = Cardinality(ActionsFor(s, id)) - 1
         /\ Cardinality(ActionsFor(s, id)) # 0
         /\ Queued(Tail(s), id) = Queued(s, id)
<1>1. 1 \in DOMAIN s /\ Head(s) = s[1] BY TaskTaken
<1>2. 1 \in ActionsFor(s, id) BY <1>1 DEF ActionsFor
<1>3. 1 \notin InvokesFor(s, id) BY <1>1 DEF InvokesFor
<1>4. InvokesFor(s, id) \ {1} = InvokesFor(s, id) BY <1>3
<1>5. Cardinality(ActionsFor(s, id) \ {1}) = Cardinality(ActionsFor(s, id)) - 1
  BY <1>2, ActionsCounted, FS_RemoveElement
<1>6. Cardinality(ActionsFor(s, id)) # 0 BY <1>2, ActionsCounted, FS_EmptySet
<1>7. Queued(Tail(s), id) = Queued(s, id) BY <1>4, HeadRun DEF Queued
<1>. QED BY <1>2, <1>5, <1>6, <1>7, HeadRun

\* The message at the head is handled: it was the first of the id, and no
\* action of the id is there any more.
LEMMA InvokeTaken ==
  ASSUME NEW s \in Seq(DefaultTasks), s # <<>>, NEW id, Head(s).kind = "invoke", Head(s).id = id
  PROVE  /\ 1 \in InvokesFor(s, id)
         /\ Head(s).message \in Queued(s, id)
         /\ Queued(Tail(s), id) \subseteq Queued(s, id)
         /\ Cardinality(ActionsFor(Tail(s), id)) = Cardinality(ActionsFor(s, id))
         /\ QueuedInOrder(s, id) => /\ Cardinality(ActionsFor(s, id)) = 0
                                    /\ Below({Head(s).message}, Queued(Tail(s), id))
<1>1. 1 \in DOMAIN s /\ Head(s) = s[1] /\ \A i \in DOMAIN s : i \in Int /\ i >= 1 BY TaskTaken
<1>2. 1 \in InvokesFor(s, id) BY <1>1 DEF InvokesFor
<1>3. 1 \notin ActionsFor(s, id) BY <1>1 DEF ActionsFor
<1>4. ActionsFor(s, id) \ {1} = ActionsFor(s, id) BY <1>3
<1>5. Queued(Tail(s), id) = {s[i].message : i \in InvokesFor(s, id) \ {1}} BY HeadRun
<1>6. Queued(Tail(s), id) \subseteq Queued(s, id) BY <1>5 DEF Queued
<1>7. Head(s).message \in Queued(s, id) BY <1>1, <1>2 DEF Queued
<1>8. ASSUME QueuedInOrder(s, id) PROVE Cardinality(ActionsFor(s, id)) = 0 /\ Below({Head(s).message}, Queued(Tail(s), id))
  <2>1. ActionsFor(s, id) = {}
    <3>. SUFFICES ASSUME NEW i \in ActionsFor(s, id) PROVE FALSE OBVIOUS
    <3>1. i < 1 BY <1>2, <1>8 DEF QueuedInOrder
    <3>. QED BY <3>1, <1>1 DEF ActionsFor
  <2>2. \A i \in InvokesFor(s, id) \ {1} : 1 < i BY <1>1 DEF InvokesFor
  <2>3. \A i \in InvokesFor(s, id) \ {1} : s[1].message < s[i].message BY <2>2, <1>2, <1>8 DEF QueuedInOrder
  <2>. QED BY <2>1, <2>3, <1>1, <1>5, FS_EmptySet DEF Below
<1>. QED BY <1>2, <1>4, <1>6, <1>7, <1>8, HeadRun

\* The task of another id is run.
LEMMA OtherTaken ==
  ASSUME NEW s \in Seq(DefaultTasks), s # <<>>, NEW id, Head(s).id # id, NEW u, u = Tail(s)
  PROVE  NothingAdded(s, u, id)
<1>1. 1 \in DOMAIN s /\ Head(s) = s[1] BY TaskTaken
<1>2. ActionsFor(s, id) \ {1} = ActionsFor(s, id) BY <1>1 DEF ActionsFor
<1>3. InvokesFor(s, id) \ {1} = InvokesFor(s, id) BY <1>1 DEF InvokesFor
<1>4. Queued(Tail(s), id) = Queued(s, id) BY <1>3, HeadRun DEF Queued
<1>5. Cardinality(ActionsFor(Tail(s), id)) = Cardinality(ActionsFor(s, id)) BY <1>2, HeadRun
<1>6. FromAmong(Tail(s), s, id) BY HeadRun
<1>. QED BY <1>4, <1>5, <1>6 DEF NothingAdded, FromAmong

\* What a step does not touch of an id stays in good order.
LEMMA Elsewhere ==
  ASSUME NEW id \in Ids, BrokerTypeOK, InGoodOrder(id),
         subscriptions'[id] = "entity" <=> subscriptions[id] = "entity",
         broker'[id] = broker[id], handled'[id] = handled[id],
         id \in ended' <=> id \in ended, id \in racedIds => id \in racedIds',
         dispatched' \in {dispatched, dispatched + 1},
         worker' = worker \/ (~AtWork(id) /\ ~AtWork(id)'),
         NothingAdded(defaultTasks, defaultTasks', id)
  PROVE  InGoodOrder(id)'
<1>1. /\ WorksOn(id, {"handle"})' = WorksOn(id, {"handle"})
      /\ WorksOn(id, {"erase", "flush"})' = WorksOn(id, {"erase", "flush"})
      /\ WorksOn(id, {"take", "erase", "flush"})' = WorksOn(id, {"take", "erase", "flush"})
      /\ WorksOn(id, {"handle", "check", "take", "erase"})' = WorksOn(id, {"handle", "check", "take", "erase"})
  BY DEF WorksOn, AtWork
<1>2. /\ WorksOn(id, {"handle"}) => worker' = worker
      /\ WorksOn(id, {"erase", "flush"}) => worker' = worker
  BY DEF WorksOn, AtWork
<1>0. /\ Cardinality(ActionsFor(defaultTasks', id)) = Cardinality(ActionsFor(defaultTasks, id))
      /\ \A i \in ActionsFor(defaultTasks', id) :
           \E j \in ActionsFor(defaultTasks, id) : defaultTasks'[i] = defaultTasks[j]
      /\ Queued(defaultTasks', id) = Queued(defaultTasks, id)
      /\ QueuedInOrder(defaultTasks, id) => QueuedInOrder(defaultTasks', id)
  BY DEF NothingAdded
<1>3. EntryKept(id)'
  <2>1. \A i \in ActionsFor(defaultTasks, id) :
           id \notin racedIds => broker[id].live /\ broker[id].entry = defaultTasks[i].entry
    BY DEF InGoodOrder, EntryKept
  <2>. QED BY <1>0, <1>1, <2>1 DEF InGoodOrder, EntryKept
<1>4. ASSUME id \notin racedIds', SchedulerOf[id] # "intern" PROVE EntryOrdered(id)'
  <2>1. EntryOrdered(id) BY <1>4 DEF InGoodOrder
  <2>2. CASE id \in ended BY <2>1, <2>2 DEF EntryOrdered
  <2>3. CASE id \notin ended
    <3>1. InOrder(id) /\ WaitsAtHome(id) BY <2>1, <2>3 DEF EntryOrdered
    <3>2. InHand(id)' = InHand(id) BY <1>1, <1>2 DEF InHand
    <3>3. FromBefore(id)' = FromBefore(id) /\ FromThen(id)' = FromThen(id) BY <1>0 DEF FromBefore, FromThen
    <3>4. Chain(Elems(handled[id]), InHand(id), FromBefore(id), FromThen(id), dispatched' + 1)
      BY <3>1 DEF InOrder, Chain, BrokerTypeOK
    <3>5. InOrder(id)' BY <3>1, <3>2, <3>3, <3>4, <1>0, <1>1, <1>2 DEF InOrder
    <3>6. WaitsAtHome(id)' BY <3>1, <3>3, <1>0, <1>1, <1>2 DEF WaitsAtHome
    <3>. QED BY <3>5, <3>6, <2>1 DEF EntryOrdered
  <2>. QED BY <2>2, <2>3
<1>. QED BY <1>3, <1>4 DEF InGoodOrder

\* A step that touches one id only leaves the others as they are: they keep
\* what is queued for them.
LEMMA OthersQueued ==
  ASSUME BrokerTypeOK, NEW id0 \in Ids, NEW id \in Ids, id # id0,
         \/ UNCHANGED defaultTasks
         \/ \E t \in DefaultTasks : t.id = id0 /\ defaultTasks' = Append(defaultTasks, t)
         \/ defaultTasks # <<>> /\ Head(defaultTasks).id = id0 /\ defaultTasks' = Tail(defaultTasks)
  PROVE  NothingAdded(defaultTasks, defaultTasks', id)
<1>. defaultTasks \in Seq(DefaultTasks) BY DEF BrokerTypeOK
<1>1. CASE UNCHANGED defaultTasks BY <1>1 DEF NothingAdded
<1>2. ASSUME NEW t \in DefaultTasks, t.id = id0, defaultTasks' = Append(defaultTasks, t)
      PROVE  NothingAdded(defaultTasks, defaultTasks', id)
  BY <1>2, OtherQueued
<1>3. CASE defaultTasks # <<>> /\ Head(defaultTasks).id = id0 /\ defaultTasks' = Tail(defaultTasks)
  BY <1>3, OtherTaken
<1>. QED BY <1>1, <1>2, <1>3

\* The same for a step of the wire thread or the worker for the other id.
LEMMA Others ==
  ASSUME BrokerInv, NEW id0 \in Ids, NEW id \in Ids, id # id0,
         subscriptions'[id] = subscriptions[id],
         broker'[id] = broker[id], handled'[id] = handled[id],
         id \in ended' <=> id \in ended, id \in racedIds => id \in racedIds',
         dispatched' \in {dispatched, dispatched + 1},
         worker' = worker \/ (~AtWork(id) /\ ~AtWork(id)'),
         \/ UNCHANGED defaultTasks
         \/ \E t \in DefaultTasks : t.id = id0 /\ defaultTasks' = Append(defaultTasks, t)
         \/ defaultTasks # <<>> /\ Head(defaultTasks).id = id0 /\ defaultTasks' = Tail(defaultTasks)
  PROVE  InGoodOrder(id)'
<1>1. BrokerTypeOK /\ InGoodOrder(id) BY DEF BrokerInv
<1>2. NothingAdded(defaultTasks, defaultTasks', id) BY <1>1, OthersQueued
<1>. HIDE DEF BrokerInv, BrokerTypeOK, InGoodOrder, AtWork
<1>. QED BY <1>1, <1>2, Elsewhere

\* An entry of the broker, its queues and the task that is made of it.
LEMMA EntryTypes ==
  ASSUME BrokerTypeOK, NEW id \in Ids
  PROVE  /\ broker[id] \in Entries /\ broker[id].entry \in Nat /\ broker[id].live \in BOOLEAN
         /\ broker[id].default \in Seq(Nat) /\ broker[id].custom \in Seq(Nat)
         /\ handled[id] \in Seq(Nat) /\ defaultTasks \in Seq(DefaultTasks) /\ dispatched \in Nat
         /\ \A n \in Nat : NoEntry(n) \in Entries
BY DEF BrokerTypeOK, Entries, NoEntry

\* The wire thread finds nobody subscribed: the message waits in the entry,
\* and an action is queued for it.
LEMMA UnsubscribedStep ==
  ASSUME BrokerInv, NEW id \in Ids, Dispatch(id), DispatchUnsubscribed(id, dispatched + 1)
  PROVE  BrokerInv'
<1>. DEFINE m == dispatched + 1
            current == IF broker[id].live THEN broker[id]
                       ELSE [NoEntry(broker[id].entry + 1) EXCEPT !.live = TRUE]
            t == [kind |-> "action", id |-> id, entry |-> current.entry]
<1>1. BrokerTypeOK /\ InGoodOrder(id) BY DEF BrokerInv
<1>2. /\ broker[id] \in Entries /\ broker[id].entry \in Nat /\ broker[id].live \in BOOLEAN
      /\ broker[id].default \in Seq(Nat) /\ broker[id].custom \in Seq(Nat)
      /\ handled[id] \in Seq(Nat) /\ defaultTasks \in Seq(DefaultTasks) /\ dispatched \in Nat
  BY <1>1, EntryTypes
<1>3. /\ current.entry \in Nat /\ current.live = TRUE /\ current \in Entries
      /\ current.default = broker[id].default /\ current.custom = broker[id].custom
      /\ broker[id].live => current.entry = broker[id].entry
  <2>1. CASE broker[id].live
    <3>1. current = broker[id] BY <2>1
    <3>2. broker[id].live = TRUE BY <2>1, <1>2
    <3>. QED BY <3>1, <3>2, <1>2
  <2>2. CASE ~broker[id].live
    <3>1. current = [entry |-> broker[id].entry + 1, live |-> TRUE, default |-> <<>>, custom |-> <<>>]
      BY <2>2 DEF NoEntry
    <3>2. broker[id].default = <<>> /\ broker[id].custom = <<>>
      BY <1>1, <2>2 DEF InGoodOrder, EntryKept
    <3>3. <<>> \in Seq(Nat) /\ broker[id].entry + 1 \in Nat BY <1>2
    <3>. HIDE DEF current
    <3>4. current \in Entries BY <3>1, <3>3 DEF Entries
    <3>. QED BY <3>1, <3>2, <3>3, <3>4, <2>2
  <2>. QED BY <2>1, <2>2
<1>4. /\ subscriptions[id] # "entity" /\ UNCHANGED <<handled, dropped, worker, ended, crashed>>
      /\ broker' = [broker EXCEPT ![id] = [current EXCEPT !.default = Append(@, m)]]
      /\ defaultTasks' = Append(defaultTasks, t)
      /\ dispatched' = m /\ subscriptions' = Looked(id)
      /\ racedIds' = IF Removing(id) THEN racedIds \cup {id} ELSE racedIds
  BY DEF Dispatch, DispatchUnsubscribed
<1>5. /\ Append(broker[id].default, m) \in Seq(Nat)
      /\ Len(Append(broker[id].default, m)) = Len(broker[id].default) + 1
      /\ Elems(Append(broker[id].default, m)) = Elems(broker[id].default) \cup {m}
      /\ Increasing(broker[id].default) /\ Below(Elems(broker[id].default), {m})
           => Increasing(Append(broker[id].default, m))
  <2>1. m \in Nat BY <1>2
  <2>. HIDE DEF m
  <2>. QED BY <2>1, <1>2, MessageAppended
<1>6. t \in DefaultTasks /\ t.id = id /\ t.kind = "action" /\ t.entry = current.entry
  BY <1>3 DEF DefaultTasks
<1>. HIDE DEF current, t
<1>7. /\ broker'[id].default = Append(broker[id].default, m) /\ broker'[id].custom = broker[id].custom
      /\ broker'[id].live = TRUE /\ broker'[id].entry = current.entry /\ broker'[id] \in Entries
      /\ \A i \in Ids \ {id} : broker'[i] = broker[i]
      /\ broker' \in [Ids -> Entries]
  BY <1>1, <1>3, <1>4, <1>5 DEF BrokerTypeOK, Entries
<1>8. /\ subscriptions' \in [Ids -> {"absent", "null", "entity"}]
      /\ \A i \in Ids : subscriptions'[i] = "entity" <=> subscriptions[i] = "entity"
      /\ \A i \in Ids \ {id} : subscriptions'[i] = subscriptions[i]
  BY <1>1, <1>4 DEF Looked, BrokerTypeOK
<1>9. defaultTasks' \in Seq(DefaultTasks) BY <1>2, <1>4, <1>6, TaskAppended
<1>10. BrokerTypeOK'
  <2>1. racedIds' \subseteq Ids /\ ended' \subseteq Ids BY <1>1, <1>4 DEF BrokerTypeOK
  <2>2. worker' \in Workers /\ (worker.pc = "flush" => worker.custom # <<>>)'
    BY <1>1, <1>4 DEF BrokerTypeOK
  <2>3. dispatched' \in Nat /\ handled' \in [Ids -> Seq(Nat)] BY <1>1, <1>2, <1>4 DEF BrokerTypeOK
  <2>. QED BY <2>1, <2>2, <2>3, <1>7, <1>8, <1>9 DEF BrokerTypeOK
<1>11. ASSUME NEW i \in Ids, i # id PROVE InGoodOrder(i)'
  <2>1. i \in racedIds => i \in racedIds' BY <1>4
  <2>2. dispatched' \in {dispatched, dispatched + 1} BY <1>4
  <2>3. /\ subscriptions'[i] = subscriptions[i] /\ broker'[i] = broker[i] /\ handled'[i] = handled[i]
        /\ i \in ended' <=> i \in ended
    BY <1>4, <1>7, <1>8, <1>11
  <2>4. worker' = worker /\ \E u \in DefaultTasks : u.id = id /\ defaultTasks' = Append(defaultTasks, u)
    BY <1>4, <1>6
  <2>. QED BY <2>1, <2>2, <2>3, <2>4, <1>11, Others
<1>12. /\ Cardinality(ActionsFor(defaultTasks', id)) = Cardinality(ActionsFor(defaultTasks, id)) + 1
       /\ \A i \in ActionsFor(defaultTasks', id) :
            defaultTasks'[i] = t \/ (i \in ActionsFor(defaultTasks, id) /\ defaultTasks'[i] = defaultTasks[i])
       /\ Queued(defaultTasks', id) = Queued(defaultTasks, id)
       /\ Queued(defaultTasks, id) = {} => QueuedInOrder(defaultTasks', id)
  <2>1. ActionAdded(defaultTasks, defaultTasks', t, id) BY <1>2, <1>4, <1>6, ActionQueued
  <2>. QED BY <2>1 DEF ActionAdded
<1>13. ASSUME id \notin racedIds'
       PROVE  id \notin racedIds /\ ~WorksOn(id, {"take", "erase", "flush"}) /\ ~WorksOn(id, {"erase", "flush"})
  BY <1>4, <1>13 DEF Removing, WorksOn
<1>14. EntryKept(id)'
  <2>1. ASSUME id \notin racedIds'
        PROVE  \A i \in ActionsFor(defaultTasks', id) : broker'[id].entry = defaultTasks'[i].entry
    BY <1>1, <1>3, <1>6, <1>7, <1>12, <1>13, <2>1 DEF InGoodOrder, EntryKept
  <2>2. ASSUME id \notin racedIds'
        PROVE  Cardinality(ActionsFor(defaultTasks', id)) = Len(broker'[id].default)
    BY <1>1, <1>5, <1>7, <1>12, <1>13, <2>2 DEF InGoodOrder, EntryKept
  <2>3. ASSUME id \notin racedIds'
        PROVE  ~WorksOn(id, {"take", "erase", "flush"})' /\ ~WorksOn(id, {"erase", "flush"})'
    BY <1>4, <1>13, <2>3 DEF WorksOn
  <2>. QED BY <1>4, <1>7, <1>8, <2>1, <2>2, <2>3 DEF EntryKept
<1>15. ASSUME id \notin racedIds', SchedulerOf[id] # "intern" PROVE EntryOrdered(id)'
  <2>1. EntryOrdered(id) BY <1>1, <1>13, <1>15 DEF InGoodOrder
  <2>2. CASE id \in ended BY <2>1, <2>2, <1>4 DEF EntryOrdered
  <2>3. CASE id \notin ended
    <3>1. InOrder(id) /\ WaitsAtHome(id) BY <2>1, <2>3 DEF EntryOrdered
    <3>2. FromThen(id) = {} BY <3>1, <1>4 DEF WaitsAtHome
    <3>3. FromThen(id)' = {} /\ Queued(defaultTasks, id) = {} BY <3>2, <1>7, <1>12 DEF FromThen
    <3>4. FromBefore(id)' = FromBefore(id) \cup {m} BY <1>5, <1>7 DEF FromBefore
    <3>5. InHand(id)' = InHand(id) BY <1>4 DEF InHand, WorksOn
    <3>6. Chain(Elems(handled[id]), InHand(id), FromBefore(id), {}, m) BY <3>1, <3>2 DEF InOrder
    <3>7. Chain(Elems(handled[id]), InHand(id), FromBefore(id) \cup {m}, {}, m + 1)
      BY <3>6, <1>2 DEF Chain, Below
    <3>8. Increasing(broker[id].default) BY <3>1 DEF InOrder
    <3>9. Below(Elems(broker[id].default), {m}) BY <3>6 DEF Chain, Below, FromBefore
    <3>10. Increasing(broker'[id].default) BY <3>8, <3>9, <1>5, <1>7
    <3>11. QueuedInOrder(defaultTasks', id) BY <3>3, <1>12
    <3>12. InOrder(id)'
      BY <3>1, <3>3, <3>4, <3>5, <3>7, <3>10, <3>11, <1>4, <1>7, <1>13, <1>15 DEF InOrder, WorksOn
    <3>13. WaitsAtHome(id)'
      BY <3>1, <3>3, <1>4, <1>7, <1>8, <1>12, <1>13, <1>15 DEF WaitsAtHome, WorksOn
    <3>. QED BY <3>12, <3>13, <2>1, <2>3, <1>4 DEF EntryOrdered
  <2>. QED BY <2>2, <2>3
<1>. QED BY <1>10, <1>11, <1>14, <1>15 DEF BrokerInv, InGoodOrder

\* The wire thread queues the message with the default scheduler, behind all
\* that waits for the id.
LEMMA QueuedStep ==
  ASSUME BrokerInv, NEW id \in Ids, Dispatch(id), DispatchQueued(id, dispatched + 1)
  PROVE  BrokerInv'
<1>. DEFINE m == dispatched + 1
            t == [kind |-> "invoke", id |-> id, message |-> m]
<1>1. BrokerTypeOK /\ InGoodOrder(id) BY DEF BrokerInv
<1>2. /\ defaultTasks \in Seq(DefaultTasks) /\ dispatched \in Nat /\ m \in Nat
      /\ \A x \in Elems(handled[id]) : x \in Nat
  BY <1>1, EntryTypes, MessagesAreNumbers
<1>3. /\ subscriptions[id] = "entity" /\ SchedulerOf[id] = "default"
      /\ UNCHANGED <<broker, handled, dropped, worker, ended, crashed>>
      /\ defaultTasks' = Append(defaultTasks, t)
      /\ dispatched' = m /\ subscriptions' = Looked(id)
      /\ racedIds' = IF Removing(id) THEN racedIds \cup {id} ELSE racedIds
  BY DEF Dispatch, DispatchQueued
<1>4. t \in DefaultTasks /\ t.id = id /\ t.kind = "invoke" /\ t.message = m
  BY <1>2 DEF DefaultTasks
<1>. HIDE DEF t
<1>5. subscriptions' = subscriptions BY <1>1, <1>3 DEF Looked, BrokerTypeOK
<1>6. defaultTasks' \in Seq(DefaultTasks) BY <1>2, <1>3, <1>4, TaskAppended
<1>7. BrokerTypeOK' BY <1>1, <1>2, <1>3, <1>5, <1>6 DEF BrokerTypeOK
<1>8. ASSUME NEW i \in Ids, i # id PROVE InGoodOrder(i)'
  BY <1>2, <1>3, <1>4, <1>5, <1>8, Others
<1>9. MessageAdded(defaultTasks, defaultTasks', m, id) BY <1>2, <1>3, <1>4, InvokeQueued
<1>10. /\ ActionsFor(defaultTasks', id) = ActionsFor(defaultTasks, id)
       /\ \A i \in ActionsFor(defaultTasks, id) : defaultTasks'[i] = defaultTasks[i]
       /\ Queued(defaultTasks', id) = Queued(defaultTasks, id) \cup {m}
       /\ QueuedInOrder(defaultTasks, id) /\ Below(Queued(defaultTasks, id), {m})
            => QueuedInOrder(defaultTasks', id)
  BY <1>9 DEF MessageAdded
<1>11. id \notin racedIds' => id \notin racedIds BY <1>3
<1>12. /\ WorksOn(id, {"handle"})' = WorksOn(id, {"handle"})
       /\ WorksOn(id, {"erase", "flush"})' = WorksOn(id, {"erase", "flush"})
       /\ WorksOn(id, {"take", "erase", "flush"})' = WorksOn(id, {"take", "erase", "flush"})
       /\ WorksOn(id, {"handle", "check", "take", "erase"})' = WorksOn(id, {"handle", "check", "take", "erase"})
  BY <1>3 DEF WorksOn
<1>13. EntryKept(id)'
  BY <1>1, <1>3, <1>5, <1>10, <1>11, <1>12 DEF InGoodOrder, EntryKept
<1>14. ASSUME id \notin racedIds', SchedulerOf[id] # "intern" PROVE EntryOrdered(id)'
  <2>1. EntryOrdered(id) /\ id \notin ended BY <1>1, <1>3, <1>11, <1>14 DEF InGoodOrder, EntryKept
  <2>2. InOrder(id) /\ WaitsAtHome(id) BY <2>1 DEF EntryOrdered
  <2>3. FromThen(id)' = FromThen(id) \cup {m} BY <1>3, <1>10 DEF FromThen
  <2>4. FromBefore(id)' = FromBefore(id) BY <1>3 DEF FromBefore
  <2>5. InHand(id)' = InHand(id) BY <1>3, <1>12 DEF InHand
  <2>6. Chain(Elems(handled[id]), InHand(id), FromBefore(id), FromThen(id), m) BY <2>2 DEF InOrder
  <2>7. Chain(Elems(handled[id]), InHand(id), FromBefore(id), FromThen(id) \cup {m}, m + 1)
    BY <2>6, <1>2 DEF Chain, Below
  <2>8. Below(Queued(defaultTasks, id), {m}) BY <2>6 DEF Chain, Below, FromThen
  <2>9. QueuedInOrder(defaultTasks', id) BY <2>2, <2>8, <1>10 DEF InOrder
  <2>10. InOrder(id)' BY <2>2, <2>3, <2>4, <2>5, <2>7, <2>9, <1>3, <1>12 DEF InOrder
  <2>11. WaitsAtHome(id)' BY <2>2, <1>3, <1>5, <1>12 DEF WaitsAtHome
  <2>. QED BY <2>1, <2>10, <2>11, <1>3 DEF EntryOrdered
<1>. QED BY <1>7, <1>8, <1>13, <1>14 DEF BrokerInv, InGoodOrder

\* The wire thread hands the message over at once, or to the queue of the
\* entry: at once only when nothing waits for the id.
LEMMA CustomStep ==
  ASSUME BrokerInv, NEW id \in Ids, Dispatch(id), DispatchCustom(id, dispatched + 1)
  PROVE  BrokerInv'
<1>. DEFINE m == dispatched + 1
<1>1. BrokerTypeOK /\ InGoodOrder(id) BY DEF BrokerInv
<1>2. /\ defaultTasks \in Seq(DefaultTasks) /\ dispatched \in Nat /\ m \in Nat
      /\ broker[id] \in Entries /\ handled[id] \in Seq(Nat) /\ broker[id].custom \in Seq(Nat)
  BY <1>1, EntryTypes
<1>3. /\ subscriptions[id] = "entity" /\ SchedulerOf[id] # "default"
      /\ UNCHANGED <<defaultTasks, worker, ended, crashed>>
      /\ dispatched' = m /\ subscriptions' = Looked(id)
      /\ racedIds' = IF Removing(id) THEN racedIds \cup {id} ELSE racedIds
      /\ IF SchedulerOf[id] = "intern" \/ ~broker[id].live
         THEN handled' = [handled EXCEPT ![id] = Append(@, m)] /\ UNCHANGED broker
         ELSE broker' = [broker EXCEPT ![id].custom = Append(@, m)] /\ UNCHANGED handled
  BY DEF Dispatch, DispatchCustom, Invoke, Handle
<1>4. subscriptions' = subscriptions BY <1>1, <1>3 DEF Looked, BrokerTypeOK
<1>. HIDE DEF m
<1>5. /\ \A s \in Seq(Nat) : Append(s, m) \in Seq(Nat)
      /\ Elems(Append(handled[id], m)) = Elems(handled[id]) \cup {m}
      /\ Elems(Append(broker[id].custom, m)) = Elems(broker[id].custom) \cup {m}
      /\ Increasing(handled[id]) /\ Below(Elems(handled[id]), {m}) => Increasing(Append(handled[id], m))
      /\ Increasing(broker[id].custom) /\ Below(Elems(broker[id].custom), {m})
           => Increasing(Append(broker[id].custom, m))
  BY <1>2, MessageAppended
<1>6. \A i \in Ids \ {id} : broker'[i] = broker[i] /\ handled'[i] = handled[i]
  BY <1>1, <1>3 DEF BrokerTypeOK
<1>7. broker' \in [Ids -> Entries] /\ handled' \in [Ids -> Seq(Nat)]
  <2>1. CASE SchedulerOf[id] = "intern" \/ ~broker[id].live
    <3>1. handled' = [handled EXCEPT ![id] = Append(@, m)] /\ UNCHANGED broker BY <1>3, <2>1
    <3>2. Append(handled[id], m) \in Seq(Nat) BY <1>2, <1>5
    <3>. QED BY <3>1, <3>2, <1>1 DEF BrokerTypeOK
  <2>2. CASE ~(SchedulerOf[id] = "intern" \/ ~broker[id].live)
    <3>1. broker' = [broker EXCEPT ![id].custom = Append(@, m)] /\ UNCHANGED handled BY <1>3, <2>2
    <3>2. Append(broker[id].custom, m) \in Seq(Nat) BY <1>2, <1>5
    <3>3. [broker[id] EXCEPT !.custom = Append(@, m)] \in Entries BY <3>2, <1>2 DEF Entries
    <3>. QED BY <3>1, <3>3, <1>1 DEF BrokerTypeOK
  <2>. QED BY <2>1, <2>2
<1>8. BrokerTypeOK' BY <1>1, <1>2, <1>3, <1>4, <1>7 DEF BrokerTypeOK, m
<1>9. ASSUME NEW i \in Ids, i # id PROVE InGoodOrder(i)'
  <2>1. dispatched' = dispatched + 1 BY <1>3 DEF m
  <2>. QED BY <2>1, <1>3, <1>4, <1>6, <1>9, Others
<1>10. id \notin racedIds' => id \notin racedIds /\ ~WorksOn(id, {"take", "erase", "flush"})
                                /\ ~WorksOn(id, {"erase", "flush"})
  BY <1>3 DEF Removing, WorksOn
<1>11. /\ WorksOn(id, {"handle"})' = WorksOn(id, {"handle"})
       /\ WorksOn(id, {"erase", "flush"})' = WorksOn(id, {"erase", "flush"})
       /\ WorksOn(id, {"take", "erase", "flush"})' = WorksOn(id, {"take", "erase", "flush"})
       /\ WorksOn(id, {"handle", "check", "take", "erase"})' = WorksOn(id, {"handle", "check", "take", "erase"})
  BY <1>3 DEF WorksOn
<1>12. CASE SchedulerOf[id] = "intern" \/ ~broker[id].live
  <2>1. handled' = [handled EXCEPT ![id] = Append(@, m)] /\ UNCHANGED broker BY <1>3, <1>12
  <2>2. EntryKept(id)' BY <2>1, <1>1, <1>3, <1>4, <1>10, <1>11 DEF InGoodOrder, EntryKept
  <2>3. ASSUME id \notin racedIds', SchedulerOf[id] # "intern" PROVE EntryOrdered(id)'
    <3>1. EntryOrdered(id) /\ id \notin ended BY <1>1, <1>3, <1>10, <2>3 DEF InGoodOrder, EntryKept
    <3>2. InOrder(id) /\ WaitsAtHome(id) BY <3>1 DEF EntryOrdered
    <3>3. /\ broker[id].default = <<>> /\ broker[id].custom = <<>>
          /\ ~WorksOn(id, {"handle", "check", "take", "erase"})
      BY <1>1, <1>10, <1>12, <2>3 DEF InGoodOrder, EntryKept
    <3>4. ~WorksOn(id, {"handle"}) BY <3>3 DEF WorksOn
    <3>5. InHand(id) = {} /\ FromBefore(id) = {} /\ FromThen(id) = {}
      BY <3>2, <3>3, <3>4, <1>3, <1>10, <2>3, NoMessage DEF InHand, FromBefore, FromThen, WaitsAtHome
    <3>6. InHand(id)' = {} /\ FromBefore(id)' = {} /\ FromThen(id)' = {}
      BY <3>5, <3>4, <2>1, <1>3, <1>10, <1>11, <2>3 DEF InHand, FromBefore, FromThen
    <3>7. handled'[id] = Append(handled[id], m) BY <2>1, <1>1 DEF BrokerTypeOK
    <3>8. Chain(Elems(handled[id]), {}, {}, {}, m) BY <3>2, <3>5 DEF InOrder, m
    <3>9. Chain(Elems(handled[id]) \cup {m}, {}, {}, {}, m + 1) BY <3>8, <1>2 DEF Chain, Below
    <3>10. Increasing(handled'[id])
      <4>1. Below(Elems(handled[id]), {m}) BY <3>8 DEF Chain, Below
      <4>. QED BY <4>1, <3>1, <3>7, <1>5 DEF EntryOrdered
    <3>11. InOrder(id)' BY <3>2, <3>6, <3>7, <3>9, <1>3, <1>5, <1>10, <1>11, <2>1, <2>3 DEF InOrder
    <3>12. WaitsAtHome(id)' BY <3>2, <1>3, <1>4, <1>11, <2>1 DEF WaitsAtHome
    <3>. QED BY <3>1, <3>10, <3>11, <3>12, <1>3 DEF EntryOrdered
  <2>. QED BY <2>2, <2>3, <1>8, <1>9 DEF BrokerInv, InGoodOrder
<1>13. CASE ~(SchedulerOf[id] = "intern" \/ ~broker[id].live)
  <2>1. broker' = [broker EXCEPT ![id].custom = Append(@, m)] /\ UNCHANGED handled BY <1>3, <1>13
  <2>2. /\ broker'[id].custom = Append(broker[id].custom, m) /\ broker'[id].default = broker[id].default
        /\ broker'[id].entry = broker[id].entry
    BY <2>1, <1>1, <1>2 DEF BrokerTypeOK, Entries
  <2>3. broker'[id].live = broker[id].live BY <2>1, <1>1, <1>2 DEF BrokerTypeOK, Entries
  <2>4. EntryKept(id)'
    BY <2>2, <2>3, <1>1, <1>3, <1>4, <1>10, <1>11, <1>13 DEF InGoodOrder, EntryKept
  <2>5. ASSUME id \notin racedIds', SchedulerOf[id] # "intern" PROVE EntryOrdered(id)'
    <3>1. EntryOrdered(id) /\ id \notin ended BY <1>1, <1>3, <1>10, <2>5 DEF InGoodOrder, EntryKept
    <3>2. InOrder(id) /\ WaitsAtHome(id) BY <3>1 DEF EntryOrdered
    <3>3. FromThen(id)' = FromThen(id) \cup {m} BY <2>2, <1>3, <1>5 DEF FromThen
    <3>4. FromBefore(id)' = FromBefore(id) BY <2>2 DEF FromBefore
    <3>5. InHand(id)' = InHand(id) BY <1>3, <1>11 DEF InHand
    <3>6. Chain(Elems(handled[id]), InHand(id), FromBefore(id), FromThen(id), m) BY <3>2 DEF InOrder, m
    <3>7. Chain(Elems(handled[id]), InHand(id), FromBefore(id), FromThen(id) \cup {m}, m + 1)
      BY <3>6, <1>2 DEF Chain, Below
    <3>8. Below(Elems(broker[id].custom), {m}) BY <3>6 DEF Chain, Below, FromThen
    <3>9. Increasing(broker'[id].custom) BY <3>2, <3>8, <2>2, <1>5 DEF InOrder
    <3>10. InOrder(id)'
      BY <3>2, <3>3, <3>4, <3>5, <3>7, <3>9, <2>1, <2>2, <1>3, <1>11 DEF InOrder
    <3>11. WaitsAtHome(id)' BY <3>2, <1>3, <1>4, <1>10, <1>11, <2>5 DEF WaitsAtHome
    <3>. QED BY <3>1, <3>10, <3>11, <2>1, <1>3 DEF EntryOrdered
  <2>. QED BY <2>4, <2>5, <1>8, <1>9 DEF BrokerInv, InGoodOrder
<1>. QED BY <1>12, <1>13

\* The wire thread dispatches a message.
LEMMA DispatchStep ==
  ASSUME BrokerInv, NEW id \in Ids, Dispatch(id)
  PROVE  BrokerInv'
<1>1. \/ DispatchUnsubscribed(id, dispatched + 1)
      \/ DispatchQueued(id, dispatched + 1)
      \/ DispatchCustom(id, dispatched + 1)
  BY DEF Dispatch
<1>. HIDE DEF BrokerInv
<1>. QED BY <1>1, UnsubscribedStep, QueuedStep, CustomStep

\* What the worker holds.
LEMMA WorkerTypes ==
  ASSUME BrokerTypeOK
  PROVE  /\ worker.pc \in {"idle", "handle", "check", "take", "erase", "flush"}
         /\ worker.pc # "idle" => worker.id \in Ids
         /\ worker.pc \in {"handle", "check", "take"} =>
              /\ worker.message \in Seq(Nat)
              /\ worker = [pc |-> worker.pc, id |-> worker.id, subscribed |-> worker.subscribed,
                           message |-> worker.message]
         /\ worker.pc \in {"erase", "flush"} =>
              /\ worker.custom \in Seq(Nat)
              /\ worker = [pc |-> worker.pc, id |-> worker.id, subscribed |-> worker.subscribed,
                           custom |-> worker.custom]
         /\ worker.pc # "idle" => worker.subscribed \in BOOLEAN
<1>1. worker \in Workers BY DEF BrokerTypeOK
<1>. QED BY <1>1 DEF Workers, IdleWorker

\* An entity is advised; nothing of its id moves.
LEMMA AdviseStep ==
  ASSUME BrokerInv, NEW id \in Ids, AdviseEntity(id)
  PROVE  BrokerInv'
<1>1. BrokerTypeOK /\ InGoodOrder(id) BY DEF BrokerInv
<1>2. /\ subscriptions' = [subscriptions EXCEPT ![id] = "entity"] /\ id \notin ended
      /\ UNCHANGED <<broker, defaultTasks, worker, dispatched, handled, ended, racedIds>>
  BY DEF AdviseEntity
<1>3. BrokerTypeOK' BY <1>1, <1>2 DEF BrokerTypeOK
<1>4. ASSUME NEW i \in Ids, i # id PROVE InGoodOrder(i)'
  <2>1. subscriptions'[i] = subscriptions[i] BY <1>1, <1>2, <1>4 DEF BrokerTypeOK
  <2>2. dispatched' \in {dispatched, dispatched + 1} BY <1>2
  <2>. QED BY <2>1, <2>2, <1>2, <1>4, Others
<1>5. subscriptions'[id] = "entity" BY <1>1, <1>2 DEF BrokerTypeOK
<1>6. EntryKept(id)' BY <1>1, <1>2 DEF InGoodOrder, EntryKept, WorksOn
<1>7. InOrder(id) => InOrder(id)'
  BY <1>2 DEF InOrder, InHand, FromBefore, FromThen, WorksOn
<1>8. WaitsAtHome(id) => WaitsAtHome(id)'
  BY <1>2, <1>5 DEF WaitsAtHome, FromThen, WorksOn
<1>9. EntryOrdered(id) => EntryOrdered(id)' BY <1>2, <1>7, <1>8 DEF EntryOrdered
<1>. QED BY <1>1, <1>2, <1>3, <1>4, <1>6, <1>9 DEF BrokerInv, InGoodOrder

\* An entity is terminated: nothing of its id is handled from then on.
LEMMA TerminateStep ==
  ASSUME BrokerInv, NEW id \in Ids, TerminateEntity(id)
  PROVE  BrokerInv'
<1>1. BrokerTypeOK /\ InGoodOrder(id) BY DEF BrokerInv
<1>2. /\ subscriptions' = [subscriptions EXCEPT ![id] = "absent"] /\ ended' = ended \cup {id}
      /\ UNCHANGED <<broker, defaultTasks, worker, dispatched, handled, racedIds>>
  BY DEF TerminateEntity, UnsubscribeEntity
<1>3. BrokerTypeOK' BY <1>1, <1>2 DEF BrokerTypeOK
<1>4. ASSUME NEW i \in Ids, i # id PROVE InGoodOrder(i)'
  <2>1. subscriptions'[i] = subscriptions[i] BY <1>1, <1>2, <1>4 DEF BrokerTypeOK
  <2>2. dispatched' \in {dispatched, dispatched + 1} BY <1>2
  <2>3. i \in ended' <=> i \in ended BY <1>2, <1>4
  <2>. QED BY <2>1, <2>2, <2>3, <1>2, <1>4, Others
<1>5. subscriptions'[id] = "absent" BY <1>1, <1>2 DEF BrokerTypeOK
<1>6. EntryKept(id)' BY <1>1, <1>2, <1>5 DEF InGoodOrder, EntryKept, WorksOn
<1>7. EntryOrdered(id) => EntryOrdered(id)' BY <1>2 DEF EntryOrdered
<1>. QED BY <1>1, <1>2, <1>3, <1>4, <1>6, <1>7 DEF BrokerInv, InGoodOrder

\* The message is given to the subscription of the id, if there is one, and its
\* handler may end it.
GivenTo(id, message) == Invoke(id, message) /\ HandlerEnds(id)

\* What giving a message to an id changes.
LEMMA GivenMessage ==
  ASSUME BrokerTypeOK, NEW id \in Ids, NEW message \in Nat, GivenTo(id, message),
         subscriptions[id] = "entity" => id \notin ended
  PROVE  /\ subscriptions' \in [Ids -> {"absent", "null", "entity"}]
         /\ handled' \in [Ids -> Seq(Nat)] /\ ended' \subseteq Ids
         /\ \A i \in Ids \ {id} : /\ subscriptions'[i] = subscriptions[i] /\ handled'[i] = handled[i]
                                  /\ i \in ended' <=> i \in ended
         /\ subscriptions'[id] = "entity" => subscriptions[id] = "entity" /\ id \notin ended'
         /\ id \in ended => id \in ended' /\ handled'[id] = handled[id]
         /\ id \notin ended' => (subscriptions'[id] = "entity" <=> subscriptions[id] = "entity")
         /\ \/ handled'[id] = Append(handled[id], message) /\ subscriptions[id] = "entity"
            \/ handled'[id] = handled[id] /\ subscriptions[id] # "entity"
<1>1. Append(handled[id], message) \in Seq(Nat) BY EntryTypes
<1>2. /\ handled' \in [Ids -> Seq(Nat)]
      /\ \A i \in Ids \ {id} : handled'[i] = handled[i]
      /\ \/ handled'[id] = Append(handled[id], message) /\ subscriptions[id] = "entity"
         \/ handled'[id] = handled[id] /\ subscriptions[id] # "entity"
  BY <1>1 DEF GivenTo, Invoke, Handle, GiveUp, BrokerTypeOK
<1>3. \/ UNCHANGED <<subscriptions, ended>>
      \/ /\ subscriptions[id] = "entity"
         /\ subscriptions' = [subscriptions EXCEPT ![id] = "absent"] /\ ended' = ended \cup {id}
  BY DEF GivenTo, HandlerEnds, UnsubscribeEntity
<1>4. CASE UNCHANGED <<subscriptions, ended>> BY <1>2, <1>4 DEF BrokerTypeOK
<1>5. CASE /\ subscriptions[id] = "entity"
           /\ subscriptions' = [subscriptions EXCEPT ![id] = "absent"] /\ ended' = ended \cup {id}
  <2>1. /\ subscriptions' \in [Ids -> {"absent", "null", "entity"}] /\ ended' \subseteq Ids
        /\ subscriptions'[id] = "absent"
        /\ \A i \in Ids \ {id} : subscriptions'[i] = subscriptions[i] /\ (i \in ended' <=> i \in ended)
    BY <1>5 DEF BrokerTypeOK
  <2>. QED BY <2>1, <1>2, <1>5
<1>. QED BY <1>3, <1>4, <1>5

\* The worker runs the invoke at the head of its queue: it is the oldest that
\* waits for the id.
LEMMA RunInvokeStep ==
  ASSUME BrokerInv, RunInvoke
  PROVE  BrokerInv'
<1>0. PICK id, m : id = Head(defaultTasks).id /\ m = Head(defaultTasks).message OBVIOUS
<1>1. /\ worker = IdleWorker /\ defaultTasks # <<>> /\ Head(defaultTasks).kind = "invoke"
      /\ defaultTasks' = Tail(defaultTasks) /\ GivenTo(id, m)
      /\ UNCHANGED <<broker, worker, dispatched, addressee, racedIds, crashed>>
  BY <1>0 DEF RunInvoke, GivenTo
<1>2. BrokerTypeOK /\ defaultTasks \in Seq(DefaultTasks) BY DEF BrokerInv, BrokerTypeOK
<1>3. Head(defaultTasks) \in DefaultTasks /\ defaultTasks' \in Seq(DefaultTasks) BY <1>1, <1>2, TaskTaken
<1>4. id \in Ids /\ m \in Nat BY <1>0, <1>1, <1>3 DEF DefaultTasks
<1>5. Head(defaultTasks).id = id /\ Head(defaultTasks).message = m BY <1>0
<1>6. InGoodOrder(id) BY <1>4 DEF BrokerInv
<1>7. subscriptions[id] = "entity" => id \notin ended BY <1>6 DEF InGoodOrder, EntryKept
<1>8. /\ subscriptions' \in [Ids -> {"absent", "null", "entity"}]
      /\ handled' \in [Ids -> Seq(Nat)] /\ ended' \subseteq Ids
      /\ \A i \in Ids \ {id} : /\ subscriptions'[i] = subscriptions[i] /\ handled'[i] = handled[i]
                               /\ i \in ended' <=> i \in ended
      /\ subscriptions'[id] = "entity" => subscriptions[id] = "entity" /\ id \notin ended'
      /\ id \in ended => id \in ended' /\ handled'[id] = handled[id]
      /\ id \notin ended' => (subscriptions'[id] = "entity" <=> subscriptions[id] = "entity")
      /\ \/ handled'[id] = Append(handled[id], m) /\ subscriptions[id] = "entity"
         \/ handled'[id] = handled[id] /\ subscriptions[id] # "entity"
  BY <1>1, <1>2, <1>4, <1>7, GivenMessage
<1>9. BrokerTypeOK' BY <1>1, <1>2, <1>3, <1>8 DEF BrokerTypeOK
<1>10. ASSUME NEW i \in Ids, i # id PROVE InGoodOrder(i)'
  <2>1. dispatched' \in {dispatched, dispatched + 1} /\ worker' = worker BY <1>1
  <2>. QED BY <2>1, <1>1, <1>4, <1>5, <1>8, <1>10, Others
<1>11. /\ m \in Queued(defaultTasks, id)
       /\ Queued(defaultTasks', id) \subseteq Queued(defaultTasks, id)
       /\ Cardinality(ActionsFor(defaultTasks', id)) = Cardinality(ActionsFor(defaultTasks, id))
       /\ QueuedInOrder(defaultTasks, id) => /\ Cardinality(ActionsFor(defaultTasks, id)) = 0
                                             /\ Below({m}, Queued(defaultTasks', id))
  BY <1>1, <1>2, <1>5, InvokeTaken
<1>12. /\ \A i \in ActionsFor(defaultTasks', id) : \E j \in ActionsFor(defaultTasks, id) : defaultTasks'[i] = defaultTasks[j]
       /\ QueuedInOrder(defaultTasks, id) => QueuedInOrder(defaultTasks', id)
  <2>1. FromAmong(defaultTasks', defaultTasks, id) BY <1>1, <1>2, HeadRun
  <2>. QED BY <2>1 DEF FromAmong
<1>14. /\ ~WorksOn(id, {"handle"})' /\ ~WorksOn(id, {"erase", "flush"})'
       /\ ~WorksOn(id, {"take", "erase", "flush"})' /\ ~WorksOn(id, {"handle", "check", "take", "erase"})'
       /\ ~WorksOn(id, {"handle"}) /\ ~WorksOn(id, {"erase", "flush"})
  BY <1>1 DEF WorksOn, IdleWorker
<1>15. EntryKept(id)'
  <2>1. \A i \in ActionsFor(defaultTasks, id) :
          id \notin racedIds => broker[id].live /\ broker[id].entry = defaultTasks[i].entry
    BY <1>6 DEF InGoodOrder, EntryKept
  <2>2. subscriptions'[id] = "entity" => id \notin ended' BY <1>8
  <2>3. ~broker'[id].live => broker'[id].default = <<>> /\ broker'[id].custom = <<>>
    BY <1>1, <1>6 DEF InGoodOrder, EntryKept
  <2>4. ASSUME id \notin racedIds
        PROVE  /\ Cardinality(ActionsFor(defaultTasks', id)) = Len(broker'[id].default)
               /\ \A i \in ActionsFor(defaultTasks', id) :
                    broker'[id].live /\ broker'[id].entry = defaultTasks'[i].entry
    BY <2>1, <2>4, <1>1, <1>6, <1>11, <1>12 DEF InGoodOrder, EntryKept
  <2>. QED BY <2>2, <2>3, <2>4, <1>1, <1>14 DEF EntryKept
<1>16. ASSUME id \notin racedIds', SchedulerOf[id] # "intern" PROVE EntryOrdered(id)'
  <2>1. EntryOrdered(id) /\ id \notin racedIds BY <1>1, <1>6, <1>16 DEF InGoodOrder
  <2>2. CASE id \in ended BY <2>1, <2>2, <1>8 DEF EntryOrdered
  <2>3. CASE id \notin ended
    <3>1. InOrder(id) /\ WaitsAtHome(id) BY <2>1, <2>3 DEF EntryOrdered
    <3>2. subscriptions[id] = "entity" /\ SchedulerOf[id] = "default" /\ broker[id].custom = <<>>
      BY <3>1, <1>11 DEF WaitsAtHome, FromThen
    <3>3. handled'[id] = Append(handled[id], m) BY <3>2, <1>8
    <3>4. Len(broker[id].default) = 0 /\ Below({m}, Queued(defaultTasks', id))
      BY <3>1, <2>1, <1>6, <1>11 DEF InOrder, InGoodOrder, EntryKept
    <3>5. broker[id].default = <<>> BY <3>4, <1>2, <1>4, EntryTypes, NoMessage
    <3>6. /\ InHand(id) = {} /\ FromBefore(id) = {} /\ FromThen(id) = Queued(defaultTasks, id)
          /\ InHand(id)' = {} /\ FromBefore(id)' = {} /\ FromThen(id)' = Queued(defaultTasks', id)
      BY <3>2, <3>5, <1>1, <1>14, NoMessage DEF InHand, FromBefore, FromThen
    <3>7. /\ Increasing(handled[id]) /\ handled[id] \in Seq(Nat)
          /\ Chain(Elems(handled[id]), {}, {}, Queued(defaultTasks, id), dispatched + 1)
      BY <3>1, <3>6, <2>1, <1>2, <1>4, EntryTypes DEF EntryOrdered, InOrder
    <3>8. Below(Elems(handled[id]), {m}) BY <3>7, <1>11 DEF Chain, Below
    <3>9. Increasing(handled'[id]) /\ Elems(handled'[id]) = Elems(handled[id]) \cup {m}
      BY <3>3, <3>7, <3>8, <1>4, MessageAppended
    <3>10. Chain(Elems(handled[id]) \cup {m}, {}, {}, Queued(defaultTasks', id), dispatched + 1)
      BY <3>4, <3>7, <1>11 DEF Chain, Below
    <3>11. InOrder(id)'
      <4>1. Increasing(broker'[id].default) /\ Increasing(broker'[id].custom) BY <3>2, <3>5, <1>1, NoMessage
      <4>2. QueuedInOrder(defaultTasks', id) BY <3>1, <1>12 DEF InOrder
      <4>3. Chain(Elems(handled'[id]), {}, {}, Queued(defaultTasks', id), dispatched' + 1)
        BY <3>9, <3>10, <1>1
      <4>. QED BY <4>1, <4>2, <4>3, <3>6, <1>14 DEF InOrder
    <3>12. id \notin ended' => WaitsAtHome(id)' BY <3>2, <1>1, <1>8, <1>14 DEF WaitsAtHome
    <3>. QED BY <3>9, <3>11, <3>12 DEF EntryOrdered
  <2>. QED BY <2>2, <2>3
<1>. QED BY <1>4, <1>9, <1>10, <1>15, <1>16 DEF BrokerInv, InGoodOrder

\* The worker runs the action at the head of its queue: the entry it was
\* queued for is there, with its message.
LEMMA RunActionStep ==
  ASSUME BrokerInv, RunAction
  PROVE  BrokerInv'
<1>0. PICK id, n : id = Head(defaultTasks).id /\ n = Head(defaultTasks).entry OBVIOUS
<1>1. /\ worker = IdleWorker /\ defaultTasks # <<>> /\ Head(defaultTasks).kind = "action"
      /\ defaultTasks' = Tail(defaultTasks)
      /\ UNCHANGED <<dispatched, handled, ended, racedIds>>
      /\ IF ~broker[id].live \/ broker[id].entry # n
         THEN UNCHANGED <<subscriptions, broker, worker>>
         ELSE /\ subscriptions' = Looked(id)
              /\ broker' = [broker EXCEPT ![id].default = IF @ = <<>> THEN @ ELSE Tail(@)]
              /\ worker' = [pc |-> "handle", id |-> id, subscribed |-> subscriptions[id] = "entity",
                            message |-> IF broker[id].default = <<>> THEN <<>>
                                        ELSE <<Head(broker[id].default)>>]
  BY <1>0 DEF RunAction
<1>2. BrokerTypeOK /\ defaultTasks \in Seq(DefaultTasks) BY DEF BrokerInv, BrokerTypeOK
<1>3. /\ Head(defaultTasks) \in DefaultTasks /\ defaultTasks' \in Seq(DefaultTasks)
      /\ 1 \in DOMAIN defaultTasks /\ Head(defaultTasks) = defaultTasks[1]
  BY <1>1, <1>2, TaskTaken
<1>4. id \in Ids BY <1>0, <1>1, <1>3 DEF DefaultTasks
<1>5. Head(defaultTasks).id = id /\ Head(defaultTasks).entry = n BY <1>0
<1>6. InGoodOrder(id) BY <1>4 DEF BrokerInv
<1>7. /\ broker[id] \in Entries /\ broker[id].default \in Seq(Nat) /\ broker[id].custom \in Seq(Nat)
  BY <1>2, <1>4, EntryTypes
<1>8. /\ 1 \in ActionsFor(defaultTasks, id)
      /\ Cardinality(ActionsFor(defaultTasks', id)) = Cardinality(ActionsFor(defaultTasks, id)) - 1
      /\ Cardinality(ActionsFor(defaultTasks, id)) # 0
      /\ Queued(defaultTasks', id) = Queued(defaultTasks, id)
  BY <1>1, <1>2, <1>5, ActionTaken
<1>9. /\ \A i \in ActionsFor(defaultTasks', id) : \E j \in ActionsFor(defaultTasks, id) : defaultTasks'[i] = defaultTasks[j]
      /\ QueuedInOrder(defaultTasks, id) => QueuedInOrder(defaultTasks', id)
  <2>1. FromAmong(defaultTasks', defaultTasks, id) BY <1>1, <1>2, HeadRun
  <2>. QED BY <2>1 DEF FromAmong
<1>10. CASE ~broker[id].live \/ broker[id].entry # n
  <2>1. UNCHANGED <<subscriptions, broker, worker>> BY <1>1, <1>10
  <2>2. id \in racedIds
    <3>1. id \notin racedIds => broker[id].live /\ broker[id].entry = defaultTasks[1].entry
      BY <1>6, <1>8 DEF InGoodOrder, EntryKept
    <3>. QED BY <3>1, <1>3, <1>5, <1>10
  <2>3. BrokerTypeOK' BY <2>1, <1>1, <1>2, <1>3 DEF BrokerTypeOK
  <2>4. ASSUME NEW i \in Ids, i # id PROVE InGoodOrder(i)'
    <3>1. dispatched' \in {dispatched, dispatched + 1} /\ worker' = worker BY <1>1, <2>1
    <3>. QED BY <3>1, <2>1, <2>4, <1>1, <1>4, <1>5, Others
  <2>5. InGoodOrder(id)' BY <2>1, <2>2, <1>1, <1>6 DEF InGoodOrder, EntryKept
  <2>. QED BY <2>3, <2>4, <2>5 DEF BrokerInv
<1>11. CASE ~(~broker[id].live \/ broker[id].entry # n)
  <2>1. /\ subscriptions' = Looked(id)
        /\ broker' = [broker EXCEPT ![id].default = IF @ = <<>> THEN @ ELSE Tail(@)]
        /\ worker' = [pc |-> "handle", id |-> id, subscribed |-> subscriptions[id] = "entity",
                      message |-> IF broker[id].default = <<>> THEN <<>>
                                  ELSE <<Head(broker[id].default)>>]
    BY <1>1, <1>11
  <2>2. /\ subscriptions' \in [Ids -> {"absent", "null", "entity"}]
        /\ \A i \in Ids : subscriptions'[i] = "entity" <=> subscriptions[i] = "entity"
        /\ \A i \in Ids \ {id} : subscriptions'[i] = subscriptions[i]
    BY <2>1, <1>2 DEF Looked, BrokerTypeOK
  <2>3. \A s \in Seq(Nat) : s # <<>> => Tail(s) \in Seq(Nat) /\ Head(s) \in Nat /\ <<Head(s)>> \in Seq(Nat)
    OBVIOUS
  <2>4. [broker[id] EXCEPT !.default = IF @ = <<>> THEN @ ELSE Tail(@)] \in Entries
    BY <2>3, <1>7 DEF Entries
  <2>5. /\ broker' \in [Ids -> Entries] /\ \A i \in Ids \ {id} : broker'[i] = broker[i]
        /\ broker'[id].custom = broker[id].custom /\ broker'[id].entry = broker[id].entry
        /\ broker'[id].default = IF broker[id].default = <<>> THEN <<>> ELSE Tail(broker[id].default)
    BY <2>1, <2>4, <1>2, <1>4, <1>7 DEF BrokerTypeOK, Entries
  <2>6. broker'[id].live BY <2>1, <1>2, <1>4, <1>7, <1>11 DEF BrokerTypeOK, Entries
  <2>7. worker' \in Workers
    <3>1. (IF broker[id].default = <<>> THEN <<>> ELSE <<Head(broker[id].default)>>) \in Seq(Nat)
      BY <2>3, <1>7
    <3>2. (subscriptions[id] = "entity") \in BOOLEAN OBVIOUS
    <3>. QED BY <3>1, <3>2, <2>1, <1>4 DEF Workers
  <2>8. BrokerTypeOK'
    <3>1. worker'.pc = "handle" BY <2>1
    <3>. QED BY <3>1, <2>2, <2>5, <2>7, <1>1, <1>2, <1>3 DEF BrokerTypeOK
  <2>9. ASSUME NEW i \in Ids, i # id PROVE InGoodOrder(i)'
    <3>1. ~AtWork(i) /\ ~AtWork(i)' BY <2>1, <2>9, <1>1 DEF AtWork, IdleWorker
    <3>2. dispatched' \in {dispatched, dispatched + 1} BY <1>1
    <3>. QED BY <3>1, <3>2, <2>2, <2>5, <2>9, <1>1, <1>4, <1>5, Others
  <2>10. /\ WorksOn(id, {"handle"})' /\ ~WorksOn(id, {"erase", "flush"})'
         /\ ~WorksOn(id, {"take", "erase", "flush"})'
         /\ ~WorksOn(id, {"handle"}) /\ ~WorksOn(id, {"erase", "flush"})
    BY <2>1, <1>1 DEF WorksOn, IdleWorker
  <2>11. ASSUME id \notin racedIds
         PROVE  /\ broker[id].default # <<>>
                /\ Len(broker'[id].default) = Len(broker[id].default) - 1
                /\ broker'[id].default = Tail(broker[id].default)
                /\ worker'.message = <<Head(broker[id].default)>>
    <3>1. Len(broker[id].default) # 0 BY <2>11, <1>6, <1>8 DEF InGoodOrder, EntryKept
    <3>2. broker[id].default # <<>> BY <3>1
    <3>3. Len(Tail(broker[id].default)) = Len(broker[id].default) - 1 BY <3>2, <1>7, MessageTaken
    <3>. QED BY <3>2, <3>3, <2>1, <2>5
  <2>12. EntryKept(id)'
    <3>1. subscriptions'[id] = "entity" => id \notin ended' BY <2>2, <1>1, <1>4, <1>6 DEF InGoodOrder, EntryKept
    <3>2. ASSUME id \notin racedIds
          PROVE  /\ Cardinality(ActionsFor(defaultTasks', id)) = Len(broker'[id].default)
                 /\ \A i \in ActionsFor(defaultTasks', id) : broker'[id].entry = defaultTasks'[i].entry
      BY <3>2, <2>5, <2>11, <1>6, <1>8, <1>9 DEF InGoodOrder, EntryKept
    <3>. QED BY <3>1, <3>2, <2>6, <2>10, <1>1 DEF EntryKept
  <2>13. ASSUME id \notin racedIds', SchedulerOf[id] # "intern" PROVE EntryOrdered(id)'
    <3>1. EntryOrdered(id) /\ id \notin racedIds BY <1>1, <1>6, <2>13 DEF InGoodOrder
    <3>2. CASE id \in ended BY <3>1, <3>2, <1>1 DEF EntryOrdered
    <3>3. CASE id \notin ended
      <4>1. InOrder(id) /\ WaitsAtHome(id) BY <3>1, <3>3 DEF EntryOrdered
      <4>0. PICK h, r : h = Head(broker[id].default) /\ r = Tail(broker[id].default) OBVIOUS
      <4>2. Increasing(broker[id].default) BY <4>1 DEF InOrder
      <4>3. /\ Elems(broker[id].default) = {h} \cup Elems(r)
            /\ Increasing(r) /\ Below({h}, Elems(r)) /\ h \in Nat
        BY <4>0, <4>2, <3>1, <2>11, <1>7, MessageTaken
      <4>4. broker'[id].default = r /\ worker'.message = <<h>> BY <4>0, <3>1, <2>11
      <4>5. Elems(<<h>>) = {h} BY DEF Elems
      <4>6. /\ InHand(id) = {} /\ FromBefore(id) = {h} \cup Elems(r)
            /\ InHand(id)' = {h} /\ FromBefore(id)' = Elems(r) /\ FromThen(id)' = FromThen(id)
        BY <4>3, <4>4, <4>5, <2>5, <2>10, <1>8 DEF InHand, FromBefore, FromThen
      <4>7. Chain(Elems(handled[id]), {}, {h} \cup Elems(r), FromThen(id), dispatched + 1)
        BY <4>1, <4>6 DEF InOrder
      <4>8. Chain(Elems(handled[id]), {h}, Elems(r), FromThen(id), dispatched + 1)
        BY <4>3, <4>7 DEF Chain, Below
      <4>9. InOrder(id)'
        <5>1. QueuedInOrder(defaultTasks', id) /\ Increasing(broker'[id].custom) BY <4>1, <2>5, <1>9 DEF InOrder
        <5>. QED BY <5>1, <4>3, <4>4, <4>6, <4>8, <2>10, <1>1 DEF InOrder
      <4>10. WaitsAtHome(id)' BY <4>1, <4>6, <2>2, <2>5, <2>10, <1>4, <1>8 DEF WaitsAtHome
      <4>. QED BY <4>9, <4>10, <3>1, <3>3, <1>1 DEF EntryOrdered
    <3>. QED BY <3>2, <3>3
  <2>. QED BY <2>8, <2>9, <2>12, <2>13, <1>4 DEF BrokerInv, InGoodOrder
<1>. QED BY <1>10, <1>11

\* The message is handed over, or given up when nobody was subscribed.
LEMMA RunMessageStep ==
  ASSUME BrokerInv, RunMessage
  PROVE  BrokerInv'
<1>0. PICK id : id = worker.id OBVIOUS
<1>1. /\ worker.pc = "handle" /\ worker' = [worker EXCEPT !.pc = "check"]
      /\ UNCHANGED <<broker, defaultTasks, dispatched, addressee, racedIds, crashed>>
      /\ \/ /\ worker.message # <<>>
            /\ GivenTo(id, Head(worker.message))
         \/ UNCHANGED <<handled, subscriptions, ended>>
  BY <1>0 DEF RunMessage, GivenTo, GiveUp
<1>2. BrokerTypeOK BY DEF BrokerInv
<1>3. /\ id \in Ids /\ worker.message \in Seq(Nat) /\ worker.subscribed \in BOOLEAN
      /\ worker = [pc |-> worker.pc, id |-> worker.id, subscribed |-> worker.subscribed,
                   message |-> worker.message]
  BY <1>0, <1>1, <1>2, WorkerTypes
<1>4. worker' \in Workers /\ worker'.id = id /\ worker'.pc = "check"
  <2>1. worker' = [pc |-> "check", id |-> id, subscribed |-> worker.subscribed, message |-> worker.message]
    BY <1>0, <1>1, <1>3
  <2>. QED BY <2>1, <1>3 DEF Workers
<1>5. InGoodOrder(id) BY <1>3 DEF BrokerInv
<1>6. subscriptions[id] = "entity" => id \notin ended BY <1>5 DEF InGoodOrder, EntryKept
<1>7. ASSUME worker.message # <<>> PROVE Head(worker.message) \in Nat /\ Head(worker.message) \in Elems(worker.message)
  BY <1>3, <1>7, MessageTaken
<1>8. /\ subscriptions' \in [Ids -> {"absent", "null", "entity"}]
      /\ handled' \in [Ids -> Seq(Nat)] /\ ended' \subseteq Ids
      /\ \A i \in Ids \ {id} : /\ subscriptions'[i] = subscriptions[i] /\ handled'[i] = handled[i]
                               /\ i \in ended' <=> i \in ended
      /\ subscriptions'[id] = "entity" => subscriptions[id] = "entity" /\ id \notin ended'
      /\ id \in ended => id \in ended' /\ handled'[id] = handled[id]
      /\ id \notin ended' => (subscriptions'[id] = "entity" <=> subscriptions[id] = "entity")
      /\ \/ handled'[id] = handled[id]
         \/ worker.message # <<>> /\ handled'[id] = Append(handled[id], Head(worker.message))
  <2>1. ASSUME worker.message # <<>>, GivenTo(id, Head(worker.message))
        PROVE  /\ subscriptions' \in [Ids -> {"absent", "null", "entity"}]
               /\ handled' \in [Ids -> Seq(Nat)] /\ ended' \subseteq Ids
               /\ \A i \in Ids \ {id} : /\ subscriptions'[i] = subscriptions[i] /\ handled'[i] = handled[i]
                                        /\ i \in ended' <=> i \in ended
               /\ subscriptions'[id] = "entity" => subscriptions[id] = "entity" /\ id \notin ended'
               /\ id \in ended => id \in ended' /\ handled'[id] = handled[id]
               /\ id \notin ended' => (subscriptions'[id] = "entity" <=> subscriptions[id] = "entity")
               /\ \/ handled'[id] = Append(handled[id], Head(worker.message)) /\ subscriptions[id] = "entity"
                  \/ handled'[id] = handled[id] /\ subscriptions[id] # "entity"
    <3>1. PICK m \in Nat : m = Head(worker.message) BY <2>1, <1>7
    <3>2. GivenTo(id, m) BY <2>1, <3>1
    <3>. QED BY <3>1, <3>2, <1>2, <1>3, <1>6, GivenMessage
  <2>2. CASE UNCHANGED <<handled, subscriptions, ended>> BY <2>2, <1>2, <1>6 DEF BrokerTypeOK
  <2>. QED BY <2>1, <2>2, <1>1
<1>9. BrokerTypeOK' BY <1>1, <1>2, <1>4, <1>8 DEF BrokerTypeOK
<1>10. ASSUME NEW i \in Ids, i # id PROVE InGoodOrder(i)'
  <2>1. ~AtWork(i) /\ ~AtWork(i)' BY <1>0, <1>4, <1>10 DEF AtWork
  <2>2. dispatched' \in {dispatched, dispatched + 1} BY <1>1
  <2>. QED BY <2>1, <2>2, <1>1, <1>3, <1>8, <1>10, Others
<1>11. /\ WorksOn(id, {"handle"}) /\ ~WorksOn(id, {"handle"})'
       /\ ~WorksOn(id, {"erase", "flush"})' /\ ~WorksOn(id, {"take", "erase", "flush"})'
       /\ WorksOn(id, {"handle", "check", "take", "erase"})
  BY <1>0, <1>1, <1>4 DEF WorksOn
<1>12. EntryKept(id)' BY <1>1, <1>5, <1>8, <1>11 DEF InGoodOrder, EntryKept
<1>13. ASSUME id \notin racedIds', SchedulerOf[id] # "intern" PROVE EntryOrdered(id)'
  <2>1. EntryOrdered(id) BY <1>1, <1>5, <1>13 DEF InGoodOrder
  <2>2. CASE id \in ended BY <2>1, <2>2, <1>8 DEF EntryOrdered
  <2>3. CASE id \notin ended
    <3>1. InOrder(id) /\ WaitsAtHome(id) BY <2>1, <2>3 DEF EntryOrdered
    <3>2. /\ InHand(id) = Elems(worker.message) /\ InHand(id)' = {}
          /\ FromBefore(id)' = FromBefore(id) /\ FromThen(id)' = FromThen(id)
      BY <1>1, <1>11 DEF InHand, FromBefore, FromThen
    <3>3. /\ Increasing(handled[id]) /\ handled[id] \in Seq(Nat)
          /\ Chain(Elems(handled[id]), Elems(worker.message), FromBefore(id), FromThen(id), dispatched + 1)
      BY <3>1, <3>2, <2>1, <1>2, <1>3, EntryTypes DEF EntryOrdered, InOrder
    <3>4. Increasing(handled'[id]) /\ Chain(Elems(handled'[id]), {}, FromBefore(id), FromThen(id), dispatched + 1)
      <4>1. CASE handled'[id] = handled[id] BY <4>1, <3>3 DEF Chain, Below
      <4>2. CASE worker.message # <<>> /\ handled'[id] = Append(handled[id], Head(worker.message))
        <5>1. PICK m \in Nat : m = Head(worker.message) BY <4>2, <1>7
        <5>2. m \in Elems(worker.message) BY <5>1, <4>2, <1>7
        <5>3. Below(Elems(handled[id]), {m}) BY <5>2, <3>3 DEF Chain, Below
        <5>4. Increasing(handled'[id]) /\ Elems(handled'[id]) = Elems(handled[id]) \cup {m}
          BY <5>1, <5>3, <4>2, <3>3, MessageAppended
        <5>5. Chain(Elems(handled[id]) \cup {m}, {}, FromBefore(id), FromThen(id), dispatched + 1)
          BY <5>2, <3>3 DEF Chain, Below
        <5>. QED BY <5>4, <5>5
      <4>. QED BY <4>1, <4>2, <1>8
    <3>5. InOrder(id)' BY <3>1, <3>2, <3>4, <1>1, <1>11 DEF InOrder
    <3>6. id \notin ended' => WaitsAtHome(id)' BY <3>1, <3>2, <1>1, <1>8, <1>11 DEF WaitsAtHome
    <3>. QED BY <3>4, <3>5, <3>6 DEF EntryOrdered
  <2>. QED BY <2>2, <2>3
<1>. QED BY <1>3, <1>9, <1>10, <1>12, <1>13 DEF BrokerInv, InGoodOrder

\* The worker looks at the entry: it is empty when no action of it is left.
LEMMA CheckEmptyStep ==
  ASSUME BrokerInv, CheckEmpty
  PROVE  BrokerInv'
<1>0. PICK id : id = worker.id OBVIOUS
<1>1. /\ worker.pc = "check"
      /\ worker' = IF broker[id].default = <<>> THEN [worker EXCEPT !.pc = "take"] ELSE IdleWorker
      /\ UNCHANGED <<subscriptions, broker, defaultTasks, dispatched, handled, ended, racedIds>>
  BY <1>0 DEF CheckEmpty
<1>2. BrokerTypeOK BY DEF BrokerInv
<1>3. /\ id \in Ids
      /\ worker = [pc |-> worker.pc, id |-> worker.id, subscribed |-> worker.subscribed,
                   message |-> worker.message]
      /\ worker.message \in Seq(Nat) /\ worker.subscribed \in BOOLEAN
  BY <1>0, <1>1, <1>2, WorkerTypes
<1>4. /\ worker' \in Workers
      /\ \/ worker'.pc = "idle"
         \/ worker'.pc = "take" /\ worker'.id = id /\ broker[id].default = <<>>
  <2>1. CASE broker[id].default = <<>>
    <3>1. worker' = [pc |-> "take", id |-> id, subscribed |-> worker.subscribed, message |-> worker.message]
      BY <2>1, <1>0, <1>1, <1>3
    <3>. QED BY <3>1, <2>1, <1>3 DEF Workers
  <2>2. CASE broker[id].default # <<>> BY <2>2, <1>1 DEF Workers, IdleWorker
  <2>. QED BY <2>1, <2>2
<1>5. BrokerTypeOK' BY <1>1, <1>2, <1>4 DEF BrokerTypeOK
<1>6. ASSUME NEW i \in Ids, i # id PROVE InGoodOrder(i)'
  <2>1. ~AtWork(i) /\ ~AtWork(i)' BY <1>0, <1>4, <1>6 DEF AtWork
  <2>2. dispatched' \in {dispatched, dispatched + 1} BY <1>1
  <2>. QED BY <2>1, <2>2, <1>1, <1>3, <1>6, Others
<1>7. InGoodOrder(id) BY <1>3 DEF BrokerInv
<1>8. /\ ~WorksOn(id, {"handle"}) /\ ~WorksOn(id, {"handle"})'
      /\ ~WorksOn(id, {"erase", "flush"}) /\ ~WorksOn(id, {"erase", "flush"})'
      /\ WorksOn(id, {"handle", "check", "take", "erase"})
      /\ WorksOn(id, {"take", "erase", "flush"})' => broker[id].default = <<>>
  BY <1>0, <1>1, <1>4 DEF WorksOn
<1>9. EntryKept(id)' BY <1>1, <1>7, <1>8 DEF InGoodOrder, EntryKept
<1>10. InOrder(id) => InOrder(id)' BY <1>1, <1>8 DEF InOrder, InHand, FromBefore, FromThen
<1>11. WaitsAtHome(id) => WaitsAtHome(id)' BY <1>1, <1>8 DEF WaitsAtHome, FromThen
<1>12. EntryOrdered(id) => EntryOrdered(id)' BY <1>1, <1>10, <1>11 DEF EntryOrdered
<1>. QED BY <1>1, <1>3, <1>5, <1>6, <1>7, <1>9, <1>12 DEF BrokerInv, InGoodOrder

\* The worker takes what the entry has for the subscription.
LEMMA TakeEntryStep ==
  ASSUME BrokerInv, TakeEntry
  PROVE  BrokerInv'
<1>0. PICK id : id = worker.id OBVIOUS
<1>1. /\ worker.pc = "take"
      /\ worker' = [pc |-> "erase", id |-> id, subscribed |-> worker.subscribed, custom |-> broker[id].custom]
      /\ broker' = [broker EXCEPT ![id].default = <<>>, ![id].custom = <<>>]
      /\ UNCHANGED <<subscriptions, defaultTasks, dispatched, handled, ended, racedIds>>
  BY <1>0 DEF TakeEntry
<1>2. BrokerTypeOK BY DEF BrokerInv
<1>3. /\ id \in Ids /\ worker.subscribed \in BOOLEAN
      /\ broker[id] \in Entries /\ broker[id].custom \in Seq(Nat)
  BY <1>0, <1>1, <1>2, WorkerTypes, EntryTypes
<1>4. /\ worker' \in Workers /\ worker'.pc = "erase" /\ worker'.id = id /\ worker'.custom = broker[id].custom
  BY <1>1, <1>3 DEF Workers
<1>5. /\ broker' \in [Ids -> Entries] /\ \A i \in Ids \ {id} : broker'[i] = broker[i]
      /\ broker'[id].default = <<>> /\ broker'[id].custom = <<>> /\ broker'[id].entry = broker[id].entry
  <2>1. <<>> \in Seq(Nat) OBVIOUS
  <2>2. [[broker[id] EXCEPT !.default = <<>>] EXCEPT !.custom = <<>>] \in Entries BY <2>1, <1>3 DEF Entries
  <2>. QED BY <2>1, <2>2, <1>1, <1>2, <1>3 DEF BrokerTypeOK, Entries
<1>6. broker'[id].live = broker[id].live BY <1>1, <1>2, <1>3 DEF BrokerTypeOK, Entries
<1>7. BrokerTypeOK' BY <1>1, <1>2, <1>4, <1>5 DEF BrokerTypeOK
<1>8. ASSUME NEW i \in Ids, i # id PROVE InGoodOrder(i)'
  <2>1. ~AtWork(i) /\ ~AtWork(i)' BY <1>0, <1>4, <1>8 DEF AtWork
  <2>2. dispatched' \in {dispatched, dispatched + 1} BY <1>1
  <2>. QED BY <2>1, <2>2, <1>1, <1>3, <1>5, <1>8, Others
<1>9. InGoodOrder(id) BY <1>3 DEF BrokerInv
<1>10. /\ ~WorksOn(id, {"handle"}) /\ ~WorksOn(id, {"handle"})'
       /\ ~WorksOn(id, {"erase", "flush"}) /\ WorksOn(id, {"erase", "flush"})'
       /\ WorksOn(id, {"handle", "check", "take", "erase"}) /\ WorksOn(id, {"take", "erase", "flush"})
  BY <1>0, <1>1, <1>4 DEF WorksOn
<1>11. EntryKept(id)'
  <2>1. id \notin racedIds => broker[id].live /\ broker[id].default = <<>> BY <1>9, <1>10 DEF InGoodOrder, EntryKept
  <2>2. ASSUME id \notin racedIds
        PROVE  /\ Cardinality(ActionsFor(defaultTasks', id)) = Len(broker'[id].default)
               /\ \A i \in ActionsFor(defaultTasks', id) : broker'[id].entry = defaultTasks'[i].entry
    BY <2>1, <2>2, <1>1, <1>5, <1>9 DEF InGoodOrder, EntryKept
  <2>. QED BY <2>1, <2>2, <1>1, <1>5, <1>6, <1>9 DEF InGoodOrder, EntryKept
<1>12. ASSUME id \notin racedIds', SchedulerOf[id] # "intern" PROVE EntryOrdered(id)'
  <2>1. EntryOrdered(id) /\ id \notin racedIds BY <1>1, <1>9, <1>12 DEF InGoodOrder
  <2>2. CASE id \in ended BY <2>1, <2>2, <1>1 DEF EntryOrdered
  <2>3. CASE id \notin ended
    <3>1. InOrder(id) /\ WaitsAtHome(id) BY <2>1, <2>3 DEF EntryOrdered
    <3>2. broker[id].default = <<>> BY <2>1, <1>9, <1>10 DEF InGoodOrder, EntryKept
    <3>3. /\ InHand(id) = {} /\ FromBefore(id) = {}
          /\ FromThen(id) = Elems(broker[id].custom) \cup Queued(defaultTasks, id)
          /\ InHand(id)' = Elems(broker[id].custom) /\ FromBefore(id)' = {}
          /\ FromThen(id)' = Queued(defaultTasks, id)
      BY <3>2, <1>1, <1>4, <1>5, <1>10, NoMessage DEF InHand, FromBefore, FromThen
    <3>4. Elems(broker[id].custom) = {} \/ Queued(defaultTasks, id) = {}
      BY <3>1, <1>12, NoMessage DEF WaitsAtHome
    <3>5. Chain(Elems(handled[id]), {}, {}, Elems(broker[id].custom) \cup Queued(defaultTasks, id), dispatched + 1)
      BY <3>1, <3>3 DEF InOrder
    <3>6. Chain(Elems(handled[id]), Elems(broker[id].custom), {}, Queued(defaultTasks, id), dispatched + 1)
      BY <3>4, <3>5 DEF Chain, Below
    <3>7. InOrder(id)' BY <3>1, <3>3, <3>6, <1>1, <1>4, <1>5, NoMessage DEF InOrder
    <3>8. subscriptions[id] # "entity" => broker[id].custom = <<>> /\ Queued(defaultTasks, id) = {}
      BY <3>1, <3>3, <1>3, NoMessage DEF WaitsAtHome
    <3>9. WaitsAtHome(id)' BY <3>1, <3>3, <3>8, <1>1, <1>4, <1>5 DEF WaitsAtHome
    <3>. QED BY <3>7, <3>9, <2>1, <1>1 DEF EntryOrdered
  <2>. QED BY <2>2, <2>3
<1>. QED BY <1>3, <1>7, <1>8, <1>11, <1>12 DEF BrokerInv, InGoodOrder

\* The worker erases the entry: no action of it is left to look for it.
LEMMA EraseEntryStep ==
  ASSUME BrokerInv, EraseEntry
  PROVE  BrokerInv'
<1>0. PICK id : id = worker.id OBVIOUS
<1>1. /\ worker.pc = "erase"
      /\ worker' = IF worker.custom = <<>> THEN IdleWorker ELSE [worker EXCEPT !.pc = "flush"]
      /\ broker' = [broker EXCEPT ![id] = NoEntry(@.entry)]
      /\ UNCHANGED <<subscriptions, defaultTasks, dispatched, handled, ended, racedIds>>
  BY <1>0 DEF EraseEntry
<1>2. BrokerTypeOK BY DEF BrokerInv
<1>3. /\ id \in Ids /\ worker.subscribed \in BOOLEAN /\ worker.custom \in Seq(Nat)
      /\ worker = [pc |-> worker.pc, id |-> worker.id, subscribed |-> worker.subscribed,
                   custom |-> worker.custom]
      /\ broker[id] \in Entries /\ broker[id].entry \in Nat
  BY <1>0, <1>1, <1>2, WorkerTypes, EntryTypes
<1>4. /\ worker' \in Workers
      /\ \/ worker'.pc = "idle" /\ worker.custom = <<>>
         \/ worker'.pc = "flush" /\ worker'.id = id /\ worker'.custom = worker.custom /\ worker.custom # <<>>
  <2>1. CASE worker.custom # <<>>
    <3>1. worker' = [pc |-> "flush", id |-> id, subscribed |-> worker.subscribed, custom |-> worker.custom]
      BY <2>1, <1>0, <1>1, <1>3
    <3>. QED BY <3>1, <2>1, <1>3 DEF Workers
  <2>2. CASE worker.custom = <<>> BY <2>2, <1>1 DEF Workers, IdleWorker
  <2>. QED BY <2>1, <2>2
<1>5. /\ broker' \in [Ids -> Entries] /\ \A i \in Ids \ {id} : broker'[i] = broker[i]
      /\ broker'[id].default = <<>> /\ broker'[id].custom = <<>> /\ broker'[id] = NoEntry(broker[id].entry)
  <2>1. NoEntry(broker[id].entry) \in Entries BY <1>2, <1>3, EntryTypes
  <2>2. broker'[id] = NoEntry(broker[id].entry) BY <1>1, <1>2, <1>3 DEF BrokerTypeOK
  <2>3. broker'[id].default = <<>> /\ broker'[id].custom = <<>> BY <2>2 DEF NoEntry
  <2>. QED BY <2>1, <2>2, <2>3, <1>1, <1>2, <1>3 DEF BrokerTypeOK
<1>6. ~broker'[id].live BY <1>5 DEF NoEntry
<1>7. BrokerTypeOK'
  <2>1. worker'.pc = "flush" => worker'.custom # <<>> BY <1>4
  <2>. QED BY <2>1, <1>1, <1>2, <1>4, <1>5 DEF BrokerTypeOK
<1>8. ASSUME NEW i \in Ids, i # id PROVE InGoodOrder(i)'
  <2>1. ~AtWork(i) /\ ~AtWork(i)' BY <1>0, <1>4, <1>8 DEF AtWork
  <2>2. dispatched' \in {dispatched, dispatched + 1} BY <1>1
  <2>. QED BY <2>1, <2>2, <1>1, <1>3, <1>5, <1>8, Others
<1>9. InGoodOrder(id) BY <1>3 DEF BrokerInv
<1>10. /\ ~WorksOn(id, {"handle"}) /\ ~WorksOn(id, {"handle"})'
       /\ WorksOn(id, {"erase", "flush"}) /\ WorksOn(id, {"take", "erase", "flush"})
       /\ ~WorksOn(id, {"handle", "check", "take", "erase"})'
       /\ WorksOn(id, {"erase", "flush"})' => worker'.custom = worker.custom
       /\ ~WorksOn(id, {"erase", "flush"})' => worker.custom = <<>>
  BY <1>0, <1>1, <1>4 DEF WorksOn
<1>11. ASSUME id \notin racedIds
       PROVE  /\ Cardinality(ActionsFor(defaultTasks, id)) = 0 /\ ActionsFor(defaultTasks, id) = {}
              /\ broker[id].default = <<>> /\ broker[id].custom = <<>>
  <2>1. broker[id].default = <<>> /\ broker[id].custom = <<>> BY <1>9, <1>10, <1>11 DEF InGoodOrder, EntryKept
  <2>2. Cardinality(ActionsFor(defaultTasks, id)) = 0 BY <2>1, <1>9, <1>11 DEF InGoodOrder, EntryKept
  <2>3. IsFiniteSet(ActionsFor(defaultTasks, id)) BY <1>2, ActionsCounted DEF BrokerTypeOK
  <2>. QED BY <2>1, <2>2, <2>3, FS_EmptySet
<1>12. EntryKept(id)'
  <2>1. ASSUME id \notin racedIds
        PROVE  Cardinality(ActionsFor(defaultTasks', id)) = Len(broker'[id].default) /\ ActionsFor(defaultTasks', id) = {}
    BY <2>1, <1>1, <1>5, <1>11
  <2>2. subscriptions'[id] = "entity" => id \notin ended' BY <1>1, <1>9 DEF InGoodOrder, EntryKept
  <2>. QED BY <2>1, <2>2, <1>1, <1>5, <1>10 DEF EntryKept
<1>13. ASSUME id \notin racedIds', SchedulerOf[id] # "intern" PROVE EntryOrdered(id)'
  <2>1. EntryOrdered(id) /\ id \notin racedIds BY <1>1, <1>9, <1>13 DEF InGoodOrder
  <2>2. CASE id \in ended BY <2>1, <2>2, <1>1 DEF EntryOrdered
  <2>3. CASE id \notin ended
    <3>1. InOrder(id) /\ WaitsAtHome(id) BY <2>1, <2>3 DEF EntryOrdered
    <3>2. broker[id].default = <<>> /\ broker[id].custom = <<>> BY <2>1, <1>11
    <3>3. InHand(id)' = InHand(id) BY <1>10, NoMessage DEF InHand
    <3>4. FromBefore(id)' = FromBefore(id) /\ FromThen(id)' = FromThen(id)
      BY <3>2, <1>1, <1>5 DEF FromBefore, FromThen
    <3>5. InOrder(id)' BY <3>1, <3>3, <3>4, <1>1, <1>5, <1>10, NoMessage DEF InOrder
    <3>6. WaitsAtHome(id)' BY <3>1, <3>4, <1>1, <1>5, <1>10 DEF WaitsAtHome
    <3>. QED BY <3>5, <3>6, <2>1, <1>1 DEF EntryOrdered
  <2>. QED BY <2>2, <2>3
<1>. QED BY <1>3, <1>7, <1>8, <1>12, <1>13 DEF BrokerInv, InGoodOrder

\* The worker flushes a message that came after the subscription.
LEMMA FlushCustomStep ==
  ASSUME BrokerInv, FlushCustom
  PROVE  BrokerInv'
<1>0. PICK id : id = worker.id OBVIOUS
<1>1. /\ worker.pc = "flush"
      /\ UNCHANGED <<broker, defaultTasks, dispatched, racedIds>>
      /\ \/ /\ GivenTo(id, Head(worker.custom))
            /\ worker' = IF Len(worker.custom) = 1 THEN IdleWorker ELSE [worker EXCEPT !.custom = Tail(@)]
         \/ UNCHANGED <<worker, handled, subscriptions, ended>>
  BY <1>0 DEF FlushCustom, GivenTo
<1>2. BrokerTypeOK BY DEF BrokerInv
<1>3. /\ id \in Ids /\ worker.subscribed \in BOOLEAN /\ worker.custom \in Seq(Nat) /\ worker.custom # <<>>
      /\ worker = [pc |-> worker.pc, id |-> worker.id, subscribed |-> worker.subscribed,
                   custom |-> worker.custom]
  <2>1. worker.custom # <<>> BY <1>1, <1>2 DEF BrokerTypeOK
  <2>. QED BY <2>1, <1>0, <1>1, <1>2, WorkerTypes
<1>4. InGoodOrder(id) BY <1>3 DEF BrokerInv
<1>5. subscriptions[id] = "entity" => id \notin ended BY <1>4 DEF InGoodOrder, EntryKept
<1>6. CASE UNCHANGED <<worker, handled, subscriptions, ended>>
  <2>1. BrokerTypeOK' BY <1>1, <1>2, <1>6 DEF BrokerTypeOK
  <2>2. ASSUME NEW i \in Ids PROVE InGoodOrder(i)'
    <3>1. InGoodOrder(i) BY DEF BrokerInv
    <3>2. EntryKept(i)' BY <3>1, <1>1, <1>6 DEF InGoodOrder, EntryKept, WorksOn
    <3>3. InOrder(i) => InOrder(i)'
      BY <1>1, <1>6 DEF InOrder, InHand, FromBefore, FromThen, WorksOn
    <3>4. WaitsAtHome(i) => WaitsAtHome(i)' BY <1>1, <1>6 DEF WaitsAtHome, FromThen, WorksOn
    <3>. QED BY <3>1, <3>2, <3>3, <3>4, <1>1, <1>6 DEF InGoodOrder, EntryOrdered
  <2>. QED BY <2>1, <2>2 DEF BrokerInv
<1>7. ASSUME GivenTo(id, Head(worker.custom)),
             worker' = IF Len(worker.custom) = 1 THEN IdleWorker ELSE [worker EXCEPT !.custom = Tail(@)]
      PROVE  BrokerInv'
  <2>0. PICK h, r : h = Head(worker.custom) /\ r = Tail(worker.custom) OBVIOUS
  <2>1. /\ r \in Seq(Nat) /\ h \in Nat /\ Len(worker.custom) \in Nat \ {0}
        /\ Len(r) = Len(worker.custom) - 1
        /\ Elems(worker.custom) = {h} \cup Elems(r)
        /\ Increasing(worker.custom) => Increasing(r) /\ Below({h}, Elems(r))
    BY <2>0, <1>3, MessageTaken
  <2>2. GivenTo(id, h) BY <2>0, <1>7
  <2>3. /\ worker' \in Workers
        /\ \/ worker'.pc = "idle" /\ r = <<>>
           \/ worker'.pc = "flush" /\ worker'.id = id /\ worker'.custom = r /\ r # <<>>
    <3>1. CASE Len(worker.custom) = 1
      <4>1. r = <<>> BY <3>1, <2>1, NoMessage
      <4>. QED BY <3>1, <4>1, <1>7 DEF Workers, IdleWorker
    <3>2. CASE Len(worker.custom) # 1
      <4>1. worker' = [pc |-> "flush", id |-> id, subscribed |-> worker.subscribed, custom |-> r]
        BY <3>2, <2>0, <1>0, <1>1, <1>3, <1>7
      <4>3. Len(r) # 0 BY <3>2, <2>1
      <4>2. r # <<>> BY <4>3
      <4>. QED BY <4>1, <4>2, <2>1, <1>3 DEF Workers
    <3>. QED BY <3>1, <3>2
  <2>4. /\ subscriptions' \in [Ids -> {"absent", "null", "entity"}]
        /\ handled' \in [Ids -> Seq(Nat)] /\ ended' \subseteq Ids
        /\ \A i \in Ids \ {id} : /\ subscriptions'[i] = subscriptions[i] /\ handled'[i] = handled[i]
                                 /\ i \in ended' <=> i \in ended
        /\ subscriptions'[id] = "entity" => subscriptions[id] = "entity" /\ id \notin ended'
        /\ id \in ended => id \in ended' /\ handled'[id] = handled[id]
        /\ id \notin ended' => (subscriptions'[id] = "entity" <=> subscriptions[id] = "entity")
        /\ \/ handled'[id] = Append(handled[id], h) /\ subscriptions[id] = "entity"
           \/ handled'[id] = handled[id] /\ subscriptions[id] # "entity"
    BY <2>1, <2>2, <1>2, <1>3, <1>5, GivenMessage
  <2>5. BrokerTypeOK'
    <3>1. worker'.pc = "flush" => worker'.custom # <<>> BY <2>3
    <3>. QED BY <3>1, <2>3, <2>4, <1>1, <1>2 DEF BrokerTypeOK
  <2>6. ASSUME NEW i \in Ids, i # id PROVE InGoodOrder(i)'
    <3>1. ~AtWork(i) /\ ~AtWork(i)' BY <2>3, <2>6, <1>0 DEF AtWork
    <3>2. dispatched' \in {dispatched, dispatched + 1} BY <1>1
    <3>. QED BY <3>1, <3>2, <2>4, <2>6, <1>1, <1>3, Others
  <2>7. /\ ~WorksOn(id, {"handle"}) /\ ~WorksOn(id, {"handle"})'
        /\ WorksOn(id, {"erase", "flush"}) /\ WorksOn(id, {"take", "erase", "flush"})
        /\ ~WorksOn(id, {"handle", "check", "take", "erase"})'
        /\ WorksOn(id, {"erase", "flush"})' => worker'.custom = r
        /\ ~WorksOn(id, {"erase", "flush"})' => r = <<>>
    BY <2>3, <1>0, <1>1 DEF WorksOn
  <2>8. EntryKept(id)' BY <2>4, <2>7, <1>1, <1>4 DEF InGoodOrder, EntryKept
  <2>9. ASSUME id \notin racedIds', SchedulerOf[id] # "intern" PROVE EntryOrdered(id)'
    <3>1. EntryOrdered(id) BY <2>9, <1>1, <1>4 DEF InGoodOrder
    <3>2. CASE id \in ended BY <3>1, <3>2, <2>4 DEF EntryOrdered
    <3>3. CASE id \notin ended
      <4>1. InOrder(id) /\ WaitsAtHome(id) BY <3>1, <3>3 DEF EntryOrdered
      <4>2. subscriptions[id] = "entity" /\ SchedulerOf[id] # "default"
        BY <4>1, <2>7, <1>3 DEF WaitsAtHome
      <4>3. handled'[id] = Append(handled[id], h) BY <4>2, <2>4
      <4>4. Increasing(worker.custom) BY <4>1, <2>7 DEF InOrder
      <4>5. /\ InHand(id) = {h} \cup Elems(r) /\ InHand(id)' = Elems(r)
            /\ FromBefore(id)' = FromBefore(id) /\ FromThen(id)' = FromThen(id)
        BY <2>1, <2>7, <1>1, NoMessage DEF InHand, FromBefore, FromThen
      <4>6. /\ Increasing(handled[id]) /\ handled[id] \in Seq(Nat)
            /\ Chain(Elems(handled[id]), {h} \cup Elems(r), FromBefore(id), FromThen(id), dispatched + 1)
        BY <4>1, <4>5, <3>1, <1>2, <1>3, EntryTypes DEF EntryOrdered, InOrder
      <4>7. Below(Elems(handled[id]), {h}) BY <4>6 DEF Chain, Below
      <4>8. Increasing(handled'[id]) /\ Elems(handled'[id]) = Elems(handled[id]) \cup {h}
        BY <4>3, <4>6, <4>7, <2>1, MessageAppended
      <4>9. Chain(Elems(handled[id]) \cup {h}, Elems(r), FromBefore(id), FromThen(id), dispatched + 1)
        BY <4>4, <4>6, <2>1 DEF Chain, Below
      <4>10. InOrder(id)' BY <4>1, <4>4, <4>5, <4>8, <4>9, <2>1, <2>7, <1>1 DEF InOrder
      <4>11. id \notin ended' => WaitsAtHome(id)' BY <4>1, <4>2, <4>5, <2>4, <2>7, <1>1 DEF WaitsAtHome
      <4>. QED BY <4>8, <4>10, <4>11 DEF EntryOrdered
    <3>. QED BY <3>2, <3>3
  <2>. QED BY <1>3, <2>5, <2>6, <2>8, <2>9 DEF BrokerInv, InGoodOrder
<1>. QED BY <1>1, <1>6, <1>7

\* In the beginning nothing waits.
LEMMA BrokerStarts == BrokerInit => BrokerInv
<1>. SUFFICES ASSUME BrokerInit PROVE BrokerInv OBVIOUS
<1>1. /\ subscriptions = [id \in Ids |-> "absent"] /\ broker = [id \in Ids |-> NoEntry(0)]
      /\ defaultTasks = <<>> /\ worker = IdleWorker /\ dispatched = 0
      /\ handled = [id \in Ids |-> <<>>] /\ ended = {} /\ racedIds = {}
  BY DEF BrokerInit
<1>2. NoEntry(0) \in Entries /\ <<>> \in Seq(Nat) /\ <<>> \in Seq(DefaultTasks) BY DEF NoEntry, Entries
<1>3. worker.pc = "idle" BY <1>1 DEF IdleWorker
<1>4. BrokerTypeOK BY <1>1, <1>2, <1>3 DEF BrokerTypeOK, Workers
<1>5. ASSUME NEW id \in Ids PROVE InGoodOrder(id)
  <2>1. /\ subscriptions[id] = "absent" /\ handled[id] = <<>>
        /\ broker[id].default = <<>> /\ broker[id].custom = <<>>
    BY <1>1 DEF NoEntry
  <2>2. \A at \in {{"handle"}, {"erase", "flush"}, {"take", "erase", "flush"}, {"handle", "check", "take", "erase"}} :
          ~WorksOn(id, at)
    BY <1>3 DEF WorksOn
  <2>3. ActionsFor(defaultTasks, id) = {} /\ InvokesFor(defaultTasks, id) = {}
    BY <1>1 DEF ActionsFor, InvokesFor
  <2>4. Queued(defaultTasks, id) = {} BY <2>3 DEF Queued
  <2>5. EntryKept(id)
    <3>1. Cardinality(ActionsFor(defaultTasks, id)) = 0 BY <2>3, FS_EmptySet
    <3>. QED BY <3>1, <2>1, <2>2, <2>3, NoMessage DEF EntryKept
  <2>6. InHand(id) = {} /\ FromBefore(id) = {} /\ FromThen(id) = {}
    BY <2>1, <2>2, <2>4, NoMessage DEF InHand, FromBefore, FromThen
  <2>7. Chain({}, {}, {}, {}, dispatched + 1) BY DEF Chain, Below
  <2>8. InOrder(id)
    BY <2>1, <2>2, <2>3, <2>6, <2>7, NoMessage DEF InOrder, QueuedInOrder
  <2>9. WaitsAtHome(id) BY <2>1, <2>2, <2>4, <2>6 DEF WaitsAtHome
  <2>. QED BY <2>1, <2>5, <2>8, <2>9, NoMessage DEF InGoodOrder, EntryOrdered
<1>. QED BY <1>4, <1>5 DEF BrokerInv

\* Nothing changes.
LEMMA BrokerStutters == ASSUME BrokerInv, UNCHANGED brokerVars PROVE BrokerInv'
<1>1. /\ UNCHANGED <<subscriptions, broker, defaultTasks, worker>>
      /\ UNCHANGED <<dispatched, handled, ended, racedIds>>
  BY DEF brokerVars
<1>2. BrokerTypeOK' BY <1>1 DEF BrokerInv, BrokerTypeOK
<1>3. ASSUME NEW i \in Ids PROVE InGoodOrder(i)'
  <2>1. InGoodOrder(i) BY DEF BrokerInv
  <2>2. EntryKept(i)' BY <2>1, <1>1 DEF InGoodOrder, EntryKept, WorksOn
  <2>3. InOrder(i) => InOrder(i)' BY <1>1 DEF InOrder, InHand, FromBefore, FromThen, WorksOn
  <2>4. WaitsAtHome(i) => WaitsAtHome(i)' BY <1>1 DEF WaitsAtHome, FromThen, WorksOn
  <2>. QED BY <2>1, <2>2, <2>3, <2>4, <1>1 DEF InGoodOrder, EntryOrdered
<1>. QED BY <1>2, <1>3 DEF BrokerInv

\* Every step of the wire thread and of the worker.
LEMMA BrokerSteps == ASSUME BrokerInv, [BrokerNext]_brokerVars PROVE BrokerInv'
<1>1. \/ RunInvoke \/ RunAction \/ RunMessage \/ CheckEmpty \/ TakeEntry \/ EraseEntry \/ FlushCustom
      \/ UNCHANGED brokerVars
      \/ \E id \in Ids : Dispatch(id) \/ AdviseEntity(id) \/ TerminateEntity(id)
  BY DEF BrokerNext, Worker, BrokerQuiet
<1>. HIDE DEF BrokerInv
<1>2. CASE RunInvoke \/ RunAction \/ RunMessage \/ CheckEmpty
  BY <1>2, RunInvokeStep, RunActionStep, RunMessageStep, CheckEmptyStep
<1>3. CASE TakeEntry \/ EraseEntry \/ FlushCustom
  BY <1>3, TakeEntryStep, EraseEntryStep, FlushCustomStep
<1>4. CASE UNCHANGED brokerVars BY <1>4, BrokerStutters
<1>5. CASE \E id \in Ids : Dispatch(id) \/ AdviseEntity(id) \/ TerminateEntity(id)
  BY <1>5, DispatchStep, AdviseStep, TerminateStep
<1>. QED BY <1>1, <1>2, <1>3, <1>4, <1>5

\* Whatever waits for an id waits in the order of the wire, with the actions
\* that will find it.
THEOREM BrokerInvariance == BrokerSpec => []BrokerInv
<1>1. BrokerInit => BrokerInv BY BrokerStarts
<1>2. BrokerInv /\ [BrokerNext]_brokerVars => BrokerInv' BY BrokerSteps
<1>. QED BY <1>1, <1>2, PTL DEF BrokerSpec

\* An entity handles its messages in the order in which the wire read them, also
\* those from before its subscription, and every queued action finds its entry
\* with a message for it, unless a dispatch met the unlocked removal of the
\* entry: for any number of ids, schedulers and messages.
THEOREM BrokerTheorem == BrokerSpec => []BrokerCorrect
<1>1. BrokerInv => BrokerCorrect
  <2>. SUFFICES ASSUME BrokerInv PROVE BrokerCorrect OBVIOUS
  <2>1. InOrderUnlessRaced BY DEF BrokerInv, InGoodOrder, EntryOrdered, Increasing, InOrderUnlessRaced
  <2>2. ASSUME NEW id \in Ids \ racedIds
        PROVE  /\ Cardinality(ActionsFor(defaultTasks, id)) = Len(broker[id].default)
               /\ \A i \in ActionsFor(defaultTasks, id) :
                    broker[id].live /\ broker[id].entry = defaultTasks[i].entry
    BY <2>2 DEF BrokerInv, InGoodOrder, EntryKept
  <2>3. ASSUME NEW id \in Ids \ racedIds, NEW t \in Range(defaultTasks), t.kind = "action", t.id = id
        PROVE  broker[id].live /\ broker[id].entry = t.entry
    <3>1. PICK i \in DOMAIN defaultTasks : t = defaultTasks[i] BY <2>3 DEF Range
    <3>2. i \in ActionsFor(defaultTasks, id) BY <3>1, <2>3 DEF ActionsFor
    <3>. QED BY <3>1, <3>2, <2>2
  <2>. QED BY <2>1, <2>2, <2>3 DEF BrokerCorrect, ActionPerMessageUnlessRaced, ActionsFor
<1>. QED BY <1>1, BrokerInvariance, PTL
===============================================================================
