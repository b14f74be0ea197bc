----------------------------- MODULE SocketWireLink ----------------------------
(***************************************************************************)
(* One direction of a socket wire: the sender of ByteBufferAsyncProcessor, *)
(* TCP connections that break and are replaced, and the receiving side of  *)
(* SocketWire::Base (read_header, read_package, send_ack) at the peer.     *)
(*                                                                         *)
(* A connection delivers a prefix of what was written to it.  Writing to a *)
(* connection that is already broken may succeed (the bytes are lost) or   *)
(* fail.  The peer's wire thread serves one connection at a time, so what  *)
(* it still reads from a broken connection it reads before the new one.    *)
(***************************************************************************)
EXTENDS ByteBufferAsyncProcessor, FiniteSets

VARIABLES
  link,               \* the current connection: none yet, up, broken
  toPeer,             \* numbers of packages in flight to the peer
  acks,               \* acknowledged numbers in flight to the sender
  max_received_seqn,  \* at the peer
  received,           \* history: numbers read_package passed on at the peer
  again,              \* history: numbers passed on more than once
  raced               \* history: overtaken was ever true

linkVars == <<link, toPeer, acks, max_received_seqn, received, again, raced>>
peerVars == <<max_received_seqn, received, again>>
vars == <<processorVars, linkVars>>

LinkInit ==
  /\ Init
  /\ link = "none" /\ toPeer = <<>> /\ acks = <<>>
  /\ max_received_seqn = 0 /\ received = {} /\ again = {}
  /\ raced = FALSE

\* send0 succeeds: the bytes reach the peer only if the connection is up.
Transmitted(seqn) ==
  toPeer' = IF link = "up" THEN Append(toPeer, seqn) ELSE toPeer

LinkSend ==
  \/ /\ AsyncSend
     /\ Transmitted(max_sent_seqn + 1)
     /\ raced' = (raced \/ overtaken')
     /\ UNCHANGED <<link, acks, peerVars>>
  \/ /\ Resend
     /\ Transmitted(current_seqn + resent)
     /\ UNCHANGED <<link, acks, peerVars, raced>>

\* send0 fails: only a broken connection refuses bytes.
LinkSendFails ==
  /\ link = "broken"
  /\ AsyncSendFails \/ ReprocessFails
  /\ UNCHANGED linkVars

\* (Broken: acknowledgements of the previous connection are still read.)
LinkConnectKeepsAcks ==
  /\ link # "up"
  /\ Connect
  /\ link' = "up" /\ toPeer' = <<>> /\ acks' = acks
  /\ UNCHANGED <<peerVars, raced>>

\* Open or Accept: nothing of the previous connection is left.
LinkConnect ==
  /\ link # "up"
  /\ Connect
  /\ link' = "up" /\ toPeer' = <<>> /\ acks' = <<>>
  /\ UNCHANGED <<peerVars, raced>>

\* The network, the peer or the Shutdown at the end of set_socket_provider.
Break ==
  /\ link = "up"
  /\ link' = "broken"
  /\ UNCHANGED <<processorVars, toPeer, acks, peerVars, raced>>

\* read_header meets ACK_MESSAGE_LENGTH: acknowledge, which ignores a number
\* that is not larger than the last (it only logs an error).
LinkAcknowledge ==
  /\ wirePc = "online" /\ acks # <<>>
  /\ acks' = Tail(acks)
  /\ \/ AcknowledgeNew(Head(acks))
     \/ /\ Head(acks) <= acknowledged_seqn
        /\ UNCHANGED processorVars
  /\ UNCHANGED <<link, toPeer, peerVars, raced>>

\* (Broken: `<' for `<=', the last number is taken for new.)
DuplicateUnlessLast(seqn) == seqn < max_received_seqn /\ seqn # 1

\* A number seen before is dropped, except 1: the counterpart may have restarted.
Duplicate(seqn) == seqn <= max_received_seqn /\ seqn # 1

\* (Broken: what was seen before is not acknowledged again.)
PeerReceiveSilent ==
  /\ toPeer # <<>>
  /\ toPeer' = Tail(toPeer)
  /\ acks' = IF link = "up" /\ ~Duplicate(Head(toPeer))
               THEN Append(acks, Head(toPeer)) ELSE acks
  /\ LET seqn == Head(toPeer) IN
       IF Duplicate(seqn)
         THEN UNCHANGED peerVars
         ELSE /\ max_received_seqn' = seqn
              /\ received' = received \cup {seqn}
              /\ again' = again \cup (received \cap {seqn})
  /\ UNCHANGED <<processorVars, link, raced>>

\* read_package at the peer: acknowledge first, then look at the number.
PeerReceive ==
  /\ toPeer # <<>>
  /\ toPeer' = Tail(toPeer)
  /\ acks' = IF link = "up" THEN Append(acks, Head(toPeer)) ELSE acks
  /\ LET seqn == Head(toPeer) IN
       IF Duplicate(seqn)
         THEN UNCHANGED peerVars
         ELSE /\ max_received_seqn' = seqn
              /\ received' = received \cup {seqn}
              /\ again' = again \cup (received \cap {seqn})
  /\ UNCHANGED <<processorVars, link, raced>>

\* Steps of the sender that touch no connection.
LinkLocal ==
  /\ \/ \E chunks \in 1 .. MaxChunks : Put(chunks)
     \/ AsyncExit \/ AsyncWait \/ AsyncWake \/ AsyncTake \/ AsyncBegin \/ AsyncDone
     \/ PauseInitial \/ Start \/ ConnectAbandoned \/ ResumeBegin \/ ReprocessBegin
     \/ ReprocessDone
     \/ AcknowledgeCleanup \/ PauseBegin \/ PauseEnd
     \/ Terminator
  /\ UNCHANGED linkVars

LinkNext == LinkSend \/ LinkSendFails \/ LinkConnect \/ Break \/ LinkAcknowledge
            \/ PeerReceive \/ LinkLocal

LinkSpec == LinkInit /\ [][LinkNext]_vars

(***************************************************************************)
(* The sender's own fairness, plus: the wire keeps trying to connect, the  *)
(* peer reads, the sender reads acknowledgements, and a broken connection  *)
(* is noticed.                                                             *)
(***************************************************************************)
LinkFairness ==
  /\ SF_vars((AsyncExit \/ AsyncWait \/ AsyncTake) /\ UNCHANGED linkVars)
  /\ SF_vars(notified /\ AsyncWake /\ UNCHANGED linkVars)
  /\ SF_vars(AsyncBegin /\ UNCHANGED linkVars)
  /\ WF_vars(LinkSend \/ LinkSendFails \/ (AsyncDone /\ UNCHANGED linkVars))
  /\ WF_vars((PauseInitial \/ Start \/ ResumeBegin \/ ReprocessDone)
               /\ UNCHANGED linkVars)
  /\ SF_vars((ReprocessBegin \/ AcknowledgeCleanup \/ PauseEnd) /\ UNCHANGED linkVars)
  /\ WF_vars(link = "broken" /\ PauseBegin /\ UNCHANGED linkVars)
  /\ SF_vars(LinkConnect)
  /\ WF_vars(wirePc = "offline" /\ Break)
  /\ SF_vars(LinkAcknowledge)
  /\ WF_vars(PeerReceive)

LinkFairSpec == LinkSpec /\ LinkFairness

-------------------------------------------------------------------------------
\* The link drives the processor only in ways ByteBufferAsyncProcessor allows: in
\* particular every number acknowledged was transmitted on the same socket.
ImplementsProcessor == Spec

\* A package the sender forgets has been received: acknowledgements, which cover
\* all smaller numbers, arriving over several connections, confirm nothing that
\* was lost with an earlier one.
AcknowledgedReceived == raced \/ 1 .. acknowledged_seqn \subseteq received

\* Retransmitted packages are recognised: none but those after a repeated first
\* package is passed on twice.
AtMostOnceUnlessFirstAgain == raced \/ again = {} \/ 1 \in again

\* If the wire eventually has a connection that lasts and nobody stops it, the
\* peer gets every package and the window empties.
EventuallyReceived ==
  <>[](link = "up" /\ wirePc \in {"online", "acking"} /\ state = AsyncProcessing)
    => <>[](raced \/ (1 .. accepted \subseteq received /\ pending_queue = <<>>))

\* What the sender forgets has arrived, and what it sends again arrives once, up
\* to the two known exceptions.
LinkCorrect == AcknowledgedReceived /\ AtMostOnceUnlessFirstAgain
===============================================================================
