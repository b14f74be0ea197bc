-------------------------------- MODULE ExtWire --------------------------------
(***************************************************************************)
(* An ext (RdExtBase) bound at both ends of a wire and the ExtWire its     *)
(* members send through.  The ends find each other by Ready and            *)
(* ReceivedCounterpart; until then, and after Disconnected, what the       *)
(* members send waits in sendQ.                                            *)
(*                                                                         *)
(* Three kinds of threads act at an end: the default scheduler, which      *)
(* binds, unbinds and handles the members' messages; the wire's thread,    *)
(* which reads the messages and handles those of the ext itself            *)
(* (SynchronousScheduler); and the threads that send.  The real wire is a  *)
(* queue to each end, and MessageBroker hands a message to the default     *)
(* scheduler when its entity is not subscribed yet.                        *)
(***************************************************************************)
EXTENDS Integers, Sequences, SequencesExt

CONSTANTS
  Peers,     \* the two ends
  Threads,   \* threads that send at an end
  MaxSends,  \* [Peers -> bound: messages each thread of the end sends]
  MaxBinds   \* [Peers -> bound: how often an ext is bound at the end]

ASSUME ExtWireAssumption ==
  /\ \E a, b \in Peers : a # b /\ Peers = {a, b}
  /\ "free" \notin Threads
  /\ MaxSends \in [Peers -> Nat] /\ MaxBinds \in [Peers -> Nat]

Other(p) == CHOOSE q \in Peers : q # p

VARIABLES
  phase,      \* [Peers -> how far the default scheduler is with binding]
  binds,      \* [Peers -> number of times bound]
  connected,  \* [Peers -> ExtWire::connected]
  sendQ,      \* [Peers -> ExtWire::sendQ]
  lock,       \* [Peers -> the thread that holds ExtWire::lock, or "free"]
  firing,     \* [Peers -> does connected fire its listener, which flushes?]
  sender,     \* [Peers -> [Threads -> what a call of send is about to do]]
  sent,       \* [Peers -> [Threads -> number of messages given to send]]
  wire,       \* [Peers -> messages on the way to the end]
  tasks,      \* [Peers -> messages that wait for the default scheduler]
  delivered,  \* history: [Peers -> members' messages in order of handling]
  lost        \* history: [Peers -> members' messages without a handler]

extVars == <<connected, sendQ, lock, firing>>
sendVars == <<sender, sent>>
arrivalVars == <<tasks, delivered, lost>>
vars == <<phase, binds, extVars, sendVars, wire, arrivalVars>>

\* A message of the ext itself, and one of a thread that sends for a member.
Ext(state) == [ext |-> state]
Payload(t, n) == [from |-> t, number |-> n]
ExtState == {"Ready", "ReceivedCounterpart", "Disconnected"}
ExtMessage == [ext : ExtState]
MemberMessage == [from : Threads, number : Nat]
Message == ExtMessage \cup MemberMessage
Phase == {"unbound", "advised", "announced", "bound", "leaving", "left"}

Init ==
  /\ phase = [p \in Peers |-> "unbound"]
  /\ binds = [p \in Peers |-> 0]
  /\ connected = [p \in Peers |-> FALSE]
  /\ sendQ = [p \in Peers |-> <<>>]
  /\ lock = [p \in Peers |-> "free"]
  /\ firing = [p \in Peers |-> FALSE]
  /\ sender = [p \in Peers |-> [t \in Threads |-> "idle"]]
  /\ sent = [p \in Peers |-> [t \in Threads |-> 0]]
  /\ wire = [p \in Peers |-> <<>>]
  /\ tasks = [p \in Peers |-> <<>>]
  /\ delivered = [p \in Peers |-> <<>>]
  /\ lost = [p \in Peers |-> {}]

\* realWire->send at p.
Transmit(p, messages) == wire' = [wire EXCEPT ![Other(p)] = @ \o messages]
-----------------------------------------------------------------------------
\* RdExtBase::init on the default scheduler, with a new ext: its subscription,
\* Ready, and then the subscriptions of its members.
BindAdvise(p) ==
  /\ phase[p] = "unbound" /\ binds[p] < MaxBinds[p]
  /\ lock[p] = "free" /\ \A t \in Threads : sender[p][t] = "idle"
  /\ phase' = [phase EXCEPT ![p] = "advised"]
  /\ binds' = [binds EXCEPT ![p] = @ + 1]
  /\ connected' = [connected EXCEPT ![p] = FALSE]
  /\ sendQ' = [sendQ EXCEPT ![p] = <<>>]
  /\ firing' = [firing EXCEPT ![p] = FALSE]
  /\ UNCHANGED <<lock, sendVars, wire, arrivalVars>>

BindAnnounce(p) ==
  /\ phase[p] = "advised"
  /\ phase' = [phase EXCEPT ![p] = "announced"]
  /\ Transmit(p, <<Ext("Ready")>>)
  /\ UNCHANGED <<binds, extVars, sendVars, arrivalVars>>

BindMembers(p) ==
  /\ phase[p] = "announced"
  /\ phase' = [phase EXCEPT ![p] = "bound"]
  /\ UNCHANGED <<binds, extVars, sendVars, wire, arrivalVars>>

\* The lifetime of the ext ends: the same in reverse order.
UnbindMembers(p) ==
  /\ phase[p] = "bound"
  /\ phase' = [phase EXCEPT ![p] = "leaving"]
  /\ UNCHANGED <<binds, extVars, sendVars, wire, arrivalVars>>

UnbindAnnounce(p) ==
  /\ phase[p] = "leaving"
  /\ phase' = [phase EXCEPT ![p] = "left"]
  /\ Transmit(p, <<Ext("Disconnected")>>)
  /\ UNCHANGED <<binds, extVars, sendVars, arrivalVars>>

Unsubscribe(p) ==
  /\ phase[p] = "left"
  /\ phase' = [phase EXCEPT ![p] = "unbound"]
  /\ UNCHANGED <<binds, extVars, sendVars, wire, arrivalVars>>

Subscribed(p) == phase[p] # "unbound"
-----------------------------------------------------------------------------
\* (Broken: only connected decides whether a message waits.)
SendLockIfConnected(p, t) ==
  /\ phase[p] = "bound" /\ sender[p][t] = "idle" /\ sent[p][t] < MaxSends[p]
  /\ lock[p] = "free"
  /\ sent' = [sent EXCEPT ![p][t] = @ + 1]
  /\ IF ~connected[p]
     THEN /\ sender' = [sender EXCEPT ![p][t] = "enqueue"]
          /\ lock' = [lock EXCEPT ![p] = t]
     ELSE /\ sender' = [sender EXCEPT ![p][t] = "transmit"]
          /\ UNCHANGED lock
  /\ UNCHANGED <<phase, binds, connected, sendQ, firing, wire, arrivalVars>>

\* ExtWire::send of a bound member, under the lock: does the message wait?
SendLock(p, t) ==
  /\ phase[p] = "bound" /\ sender[p][t] = "idle" /\ sent[p][t] < MaxSends[p]
  /\ lock[p] = "free"
  /\ sent' = [sent EXCEPT ![p][t] = @ + 1]
  /\ IF sendQ[p] # <<>> \/ ~connected[p]
     THEN /\ sender' = [sender EXCEPT ![p][t] = "enqueue"]
          /\ lock' = [lock EXCEPT ![p] = t]
     ELSE /\ sender' = [sender EXCEPT ![p][t] = "transmit"]
          /\ UNCHANGED lock
  /\ UNCHANGED <<phase, binds, connected, sendQ, firing, wire, arrivalVars>>

SendEnqueue(p, t) ==
  /\ sender[p][t] = "enqueue"
  /\ sendQ' = [sendQ EXCEPT ![p] = Append(@, Payload(t, sent[p][t]))]
  /\ sender' = [sender EXCEPT ![p][t] = "idle"]
  /\ lock' = [lock EXCEPT ![p] = "free"]
  /\ UNCHANGED <<phase, binds, connected, firing, sent, wire, arrivalVars>>

\* After the lock is released.
SendTransmit(p, t) ==
  /\ sender[p][t] = "transmit"
  /\ Transmit(p, <<Payload(t, sent[p][t])>>)
  /\ sender' = [sender EXCEPT ![p][t] = "idle"]
  /\ UNCHANGED <<phase, binds, extVars, sent, arrivalVars>>

\* (Broken: the listener does not wait for the lock.)
FlushUnlocked(p) ==
  /\ firing[p]
  /\ Transmit(p, sendQ[p])
  /\ sendQ' = [sendQ EXCEPT ![p] = <<>>]
  /\ firing' = [firing EXCEPT ![p] = FALSE]
  /\ UNCHANGED <<phase, binds, connected, lock, sendVars, arrivalVars>>

\* The listener of connected: under the lock all of sendQ is sent.
Flush(p) ==
  /\ firing[p] /\ lock[p] = "free"
  /\ Transmit(p, sendQ[p])
  /\ sendQ' = [sendQ EXCEPT ![p] = <<>>]
  /\ firing' = [firing EXCEPT ![p] = FALSE]
  /\ UNCHANGED <<phase, binds, connected, lock, sendVars, arrivalVars>>
-----------------------------------------------------------------------------
\* connected.set(b): an equal value fires nothing, false flushes nothing.
SetConnected(p, b) ==
  /\ connected' = [connected EXCEPT ![p] = b]
  /\ firing' = [firing EXCEPT ![p] = b /\ ~connected[p]]

\* RdExtBase::on_wire_received.
OnState(p, message) ==
  /\ SetConnected(p, message.ext \in {"Ready", "ReceivedCounterpart"})
  /\ UNCHANGED <<sendQ, lock>>

\* (Broken: Ready is not answered.)
ReplyNever(message) == <<>>

Reply(message) ==
  IF message.ext = "Ready" THEN <<Ext("ReceivedCounterpart")>> ELSE <<>>

\* The wire's thread reads a message.  The ext handles its own at once, except
\* when it is not subscribed or an earlier one waits; a member's message goes
\* to the default scheduler.
Receive(p) ==
  /\ wire[p] # <<>> /\ ~firing[p]
  /\ LET message == Head(wire[p])
         at_once == /\ message \in ExtMessage /\ Subscribed(p)
                    /\ Range(tasks[p]) \cap ExtMessage = {}
     IN IF at_once
        THEN /\ OnState(p, message)
             /\ wire' = [q \in Peers |-> IF q = p THEN Tail(wire[p])
                                        ELSE wire[q] \o Reply(message)]
             /\ UNCHANGED tasks
        ELSE /\ wire' = [wire EXCEPT ![p] = Tail(@)]
             /\ tasks' = [tasks EXCEPT ![p] = Append(@, message)]
             /\ UNCHANGED extVars
  /\ UNCHANGED <<phase, binds, sendVars, delivered, lost>>

\* A task of the default scheduler, which is not in the middle of binding.
RunTask(p) ==
  /\ phase[p] \in {"unbound", "bound"} /\ tasks[p] # <<>> /\ ~firing[p]
  /\ tasks' = [tasks EXCEPT ![p] = Tail(@)]
  /\ LET message == Head(tasks[p]) IN
       IF message \in ExtMessage
       THEN /\ IF Subscribed(p)
               THEN OnState(p, message) /\ Transmit(p, Reply(message))
               ELSE UNCHANGED <<extVars, wire>>
            /\ UNCHANGED <<delivered, lost>>
       ELSE /\ IF phase[p] = "bound"
               THEN /\ delivered' = [delivered EXCEPT ![p] = Append(@, message)]
                    /\ UNCHANGED lost
               ELSE /\ lost' = [lost EXCEPT ![p] = @ \cup {message}]
                    /\ UNCHANGED delivered
            /\ UNCHANGED <<extVars, wire>>
  /\ UNCHANGED <<phase, binds, sendVars>>
-----------------------------------------------------------------------------
Bind(p) == BindAdvise(p) \/ BindAnnounce(p) \/ BindMembers(p)
Unbind(p) == UnbindMembers(p) \/ UnbindAnnounce(p) \/ Unsubscribe(p)
Send(p, t) == SendLock(p, t) \/ SendEnqueue(p, t) \/ SendTransmit(p, t)

Next ==
  \E p \in Peers :
    \/ Bind(p) \/ Unbind(p)
    \/ Receive(p) \/ RunTask(p) \/ Flush(p)
    \/ \E t \in Threads : Send(p, t)

\* Every thread goes on with what it is doing; to bind again, to unbind and to
\* send is up to the program.
SchedulerGoesOn(p) ==
  BindAnnounce(p) \/ BindMembers(p) \/ UnbindAnnounce(p) \/ Unsubscribe(p) \/ RunTask(p)
WireGoesOn(p) == Receive(p) \/ Flush(p)
SenderGoesOn(p) == \E t \in Threads : SendEnqueue(p, t) \/ SendTransmit(p, t)

Fairness ==
  \A p \in Peers :
    WF_vars(SchedulerGoesOn(p)) /\ WF_vars(WireGoesOn(p)) /\ WF_vars(SenderGoesOn(p))

Spec == Init /\ [][Next]_vars /\ Fairness
-----------------------------------------------------------------------------
TypeOK ==
  /\ phase \in [Peers -> Phase] /\ binds \in [Peers -> Nat]
  /\ connected \in [Peers -> BOOLEAN] /\ firing \in [Peers -> BOOLEAN]
  /\ sendQ \in [Peers -> Seq(MemberMessage)]
  /\ lock \in [Peers -> Threads \cup {"free"}]
  /\ sender \in [Peers -> [Threads -> {"idle", "enqueue", "transmit"}]]
  /\ sent \in [Peers -> [Threads -> Nat]]
  /\ wire \in [Peers -> Seq(Message)] /\ tasks \in [Peers -> Seq(Message)]
  /\ delivered \in [Peers -> Seq(MemberMessage)] /\ lost \in [Peers -> SUBSET MemberMessage]

\* No message stays behind in sendQ of a connected ext, although connected is
\* set and fires without the lock that send holds while it reads it.
NothingLeftBehind ==
  \A p \in Peers : connected[p] /\ ~firing[p] =>
    /\ sendQ[p] = <<>>
    /\ \A t \in Threads : sender[p][t] # "enqueue"

\* What one thread sends arrives in the order in which it sent it, by sendQ or
\* directly, over any number of bindings.
InOrderPerThread ==
  \A p \in Peers : \A i, j \in DOMAIN delivered[p] :
    (i < j /\ delivered[p][i].from = delivered[p][j].from) =>
      delivered[p][i].number < delivered[p][j].number

\* Ready is sent before the members are subscribed, and still no message is
\* sent too early: one is lost only at an end that has unbound the ext.
LostOnlyWhenUnbound ==
  \A p \in Peers : lost[p] # {} => binds[p] > 1 \/ phase[p] = "unbound"

\* If the exts stay bound, what was given to send arrives.
EventuallyDelivered ==
  <>[](\A q \in Peers : phase[q] = "bound" /\ binds[q] = 1) =>
    <>[](\A p \in Peers, t \in Threads :
           sent[p][t] > 0 => Payload(t, sent[p][t]) \in Range(delivered[Other(p)]))

\* What arrives at a member is in order, and what does not was sent to an ext
\* that had been unbound.
DeliveryCorrect == InOrderPerThread /\ LostOnlyWhenUnbound
===============================================================================
