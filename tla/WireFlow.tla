------------------------------- MODULE WireFlow --------------------------------
(* Two socket wires that send packages to each other over a connection that  *)
(* holds a bounded number of pieces each way.  The sending and the receiving *)
(* thread of a wire share the lock of its socket: a package is sent under it *)
(* and so is the acknowledgement of one that was received.  They also share  *)
(* queue_lock of the send buffer: process keeps it from its first package to *)
(* its last, and an acknowledgement that arrives needs it.                   *)
EXTENDS Naturals, Sequences

CONSTANTS
  Ends,         \* the two
  Capacity,     \* pieces that the buffers of the connection hold each way
  PackageSize,  \* pieces of a package
  MaxPackages   \* packages each end sends at most
ASSUME WireFlowAssumption ==
  Capacity \in Nat \ {0} /\ PackageSize \in Nat \ {0} /\ MaxPackages \in Nat

VARIABLES
  toSend,   \* packages each end has still to send
  round,    \* those that process has found in the queue; it holds queue_lock while there are any
  left,     \* pieces left of the package that the sending thread is in, 0 when in none
  owner,    \* socket_send_lock: "none", "sender" or "receiver"
  receiver, \* the receiving thread: reading, acking a package, or cleaning pending_queue
  carried   \* the pieces on their way from each end

flowVars == <<toSend, round, left, owner, receiver, carried>>

OtherEnd(e) == CHOOSE f \in Ends : f # e

FlowInit ==
  /\ toSend \in [Ends -> 0 .. MaxPackages]
  /\ round = [e \in Ends |-> 0]
  /\ left = [e \in Ends |-> 0]
  /\ owner = [e \in Ends |-> "none"]
  /\ receiver = [e \in Ends |-> "reading"]
  /\ carried = [e \in Ends |-> <<>>]

\* Send blocks while the buffers are full.
Room(e) == Len(carried[e]) < Capacity

\* ThreadProc, under the lock that an acknowledgement being dealt with holds, moves
\* what was put to the queue, and process takes queue_lock.
StartProcess(e) ==
  /\ round[e] = 0 /\ receiver[e] # "cleaning"
  /\ \E n \in 1 .. toSend[e] : /\ round' = [round EXCEPT ![e] = n]
                               /\ toSend' = [toSend EXCEPT ![e] = @ - n]
  /\ UNCHANGED <<left, owner, receiver, carried>>

\* send0 takes the lock and keeps it until the whole package is sent.
BeginPackage(e) ==
  /\ round[e] > 0 /\ left[e] = 0
  /\ owner[e] = "none"
  /\ owner' = [owner EXCEPT ![e] = "sender"]
  /\ left' = [left EXCEPT ![e] = PackageSize]
  /\ UNCHANGED <<toSend, round, receiver, carried>>

\* With its last package process gives queue_lock back.
SendPiece(e) ==
  /\ owner[e] = "sender" /\ Room(e)
  /\ carried' = [carried EXCEPT ![e] = Append(@, IF left[e] = 1 THEN "last" ELSE "piece")]
  /\ left' = [left EXCEPT ![e] = @ - 1]
  /\ owner' = [owner EXCEPT ![e] = IF left[e] = 1 THEN "none" ELSE @]
  /\ round' = [round EXCEPT ![e] = IF left[e] = 1 THEN @ - 1 ELSE @]
  /\ UNCHANGED <<toSend, receiver>>

\* The receiving thread reads nothing else until it has acknowledged a package, or
\* dealt with an acknowledgement.
ReceivePiece(e) ==
  LET from  == OtherEnd(e)
      piece == Head(carried[from])
  IN /\ receiver[e] = "reading" /\ carried[from] # <<>>
     /\ carried' = [carried EXCEPT ![from] = Tail(@)]
     /\ receiver' = [receiver EXCEPT ![e] = CASE piece = "last" -> "acking"
                                              [] piece = "ack" -> "cleaning"
                                              [] OTHER -> @]
     /\ UNCHANGED <<toSend, round, left, owner>>

\* acknowledge gets queue_lock.
CleanUp(e) ==
  /\ receiver[e] = "cleaning" /\ round[e] = 0
  /\ receiver' = [receiver EXCEPT ![e] = "reading"]
  /\ UNCHANGED <<toSend, round, left, owner, carried>>

TakeLock(e) ==
  /\ receiver[e] = "acking" /\ owner[e] = "none"
  /\ owner' = [owner EXCEPT ![e] = "receiver"]
  /\ UNCHANGED <<toSend, round, left, receiver, carried>>

\* A broken variant: an acknowledgement is acknowledged.
AckAsPackage(e) ==
  /\ owner[e] = "receiver" /\ Room(e)
  /\ carried' = [carried EXCEPT ![e] = Append(@, "last")]
  /\ owner' = [owner EXCEPT ![e] = "none"]
  /\ receiver' = [receiver EXCEPT ![e] = "reading"]
  /\ UNCHANGED <<toSend, round, left>>

SendAck(e) ==
  /\ owner[e] = "receiver" /\ Room(e)
  /\ carried' = [carried EXCEPT ![e] = Append(@, "ack")]
  /\ owner' = [owner EXCEPT ![e] = "none"]
  /\ receiver' = [receiver EXCEPT ![e] = "reading"]
  /\ UNCHANGED <<toSend, round, left>>

\* The sending and the receiving thread of an end.
Sending(e) == StartProcess(e) \/ BeginPackage(e) \/ SendPiece(e)
Receiving(e) == ReceivePiece(e) \/ CleanUp(e) \/ TakeLock(e) \/ SendAck(e)
FlowFairness == \A e \in Ends : WF_flowVars(Sending(e)) /\ WF_flowVars(Receiving(e))

FlowNext == \E e \in Ends : Sending(e) \/ Receiving(e)

-----------------------------------------------------------------------------
\* Both directions are full, and nobody reads: each receiving thread has a package
\* to acknowledge while the lock of the socket is held for a Send, or an
\* acknowledgement to deal with while process holds queue_lock over a Send.
Jammed ==
  \A e \in Ends : /\ ~Room(e)
                  /\ \/ receiver[e] = "acking" /\ owner[e] # "none"
                     \/ receiver[e] = "cleaning" /\ round[e] > 0

Idle ==
  \A e \in Ends : /\ toSend[e] = 0 /\ round[e] = 0 /\ left[e] = 0
                  /\ receiver[e] = "reading" /\ carried[e] = <<>>

\* Everything is sent, received and acknowledged, or both directions jam, which one
\* end that sends and one that only acknowledges are enough for
\* (SocketWire.cpp:72-97, 296-303, 421-437; ByteBufferAsyncProcessor.cpp:117-137, 276-288).
FlowsUnlessJammed == <>[](Idle \/ Jammed)
===============================================================================
