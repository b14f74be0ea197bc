------------------------------- MODULE WireLife --------------------------------
(* The life of a socket wire: the thread that connects (a client) or accepts *)
(* (a server) and then receives, connection after connection, its heartbeat, *)
(* the thread of its send buffer, and the action of the wire's lifetime, on  *)
(* another thread, that stops the buffer, closes the sockets and joins the   *)
(* thread.                                                                   *)
(*                                                                           *)
(* The buffer has a lock, which the wire's thread keeps over the Sends of    *)
(* resume, and in acknowledge and pause while it waits for the Sends of the  *)
(* buffer's thread; the closing action needs it before it closes the socket. *)
EXTENDS Naturals

CONSTANT MaxSockets  \* bounds the connections of a behaviour
ASSUME WireLifeAssumption == MaxSockets \in Nat

VARIABLES
  kind,           \* "client" or "server"
  thread,         \* where the wire's thread is
  closer,         \* where the closing action is
  terminated,     \* whether the lifetime of the client or server has ended
  listening,      \* ss of a server is open
  socket,         \* the newest socket: none, open, or closed at this end
  peer,           \* whether the other end of it is there
  sockets,        \* how many there have been
  wireConnected,  \* the property
  flowing,        \* whether async_send_buffer is resumed
  beat,           \* the heartbeat: none, running, or blocked in Send
  buffer,         \* async_send_buffer's thread; in process it holds queue_lock
  thrown          \* observer: a handler of connected threw

closing    == <<kind, closer, terminated, listening>>
connection == <<socket, peer, sockets>>
lifeVars == <<closing, connection, thread, wireConnected, flowing, beat, buffer, thrown>>

LifeInit ==
  /\ kind \in {"client", "server"}
  /\ thread = "top" /\ closer = "no"
  /\ terminated = FALSE
  /\ listening = (kind = "server")
  /\ socket = "none" /\ peer = FALSE /\ sockets = 0
  /\ wireConnected = FALSE /\ flowing = FALSE
  /\ beat = "none" /\ buffer = "waiting" /\ thrown = FALSE

-----------------------------------------------------------------------------
(* The wire's thread *)

Begin ==
  /\ thread = "top"
  /\ thread' = IF terminated THEN "done" ELSE "opening"
  /\ UNCHANGED <<closing, connection, wireConnected, flowing, beat, buffer, thrown>>

\* Open of a client or Accept of a server gives a socket, which replaces the
\* one before without the lock.
Opened ==
  /\ thread = "opening" /\ sockets < MaxSockets
  /\ kind = "server" => listening
  /\ socket' = "open" /\ peer' = TRUE /\ sockets' = sockets + 1
  /\ thread' = "check"
  /\ UNCHANGED <<closing, wireConnected, flowing, beat, buffer, thrown>>

\* Nobody answers a client, which waits; a server is no longer listening.
NotOpened ==
  /\ thread = "opening"
  /\ kind = "server" => ~listening
  /\ thread' = IF kind = "client" THEN "failed" ELSE "top"
  /\ UNCHANGED <<closing, connection, wireConnected, flowing, beat, buffer, thrown>>

\* cv.wait_for: it ends by the timeout or by the closing action.
Waited ==
  /\ thread = "failed"
  /\ thread' = "top"
  /\ UNCHANGED <<closing, connection, wireConnected, flowing, beat, buffer, thrown>>

\* Under the lock: the socket of a wire that has ended is closed; a client's
\* thread ends there, a server's goes on with the closed socket.
Check ==
  /\ thread = "check"
  /\ socket' = IF terminated THEN "closed" ELSE socket
  /\ thread' = IF terminated /\ kind = "client" THEN "done" ELSE "set"
  /\ UNCHANGED <<closing, peer, sockets, wireConnected, flowing, beat, buffer, thrown>>

\* The wire's thread holds the lock of the send buffer.
LockHeld == thread \in {"resuming", "resending", "acknowledging", "pausing"}

\* set_socket_provider starts the heartbeat and calls resume, which takes the lock.
Resume ==
  /\ thread = "set"
  /\ beat' = "running"
  /\ thread' = "resuming"
  /\ UNCHANGED <<closing, connection, wireConnected, flowing, buffer, thrown>>

\* reprocess has waited for process, takes queue_lock and sends what is pending.
Reprocess ==
  /\ thread = "resuming" /\ buffer # "processing"
  /\ thread' = "resending"
  /\ UNCHANGED <<closing, connection, wireConnected, flowing, beat, buffer, thrown>>

\* Its Sends are over: all done, or one failed.
Resent ==
  /\ thread = "resending"
  /\ flowing' = TRUE
  /\ thread' = "telling"
  /\ UNCHANGED <<closing, connection, wireConnected, beat, buffer, thrown>>

\* connected.set(true).  When a handler throws, nothing of what follows is
\* done: the future of the heartbeat is destroyed, and so waited for, before
\* the lifetime that would end the heartbeat.
TellConnected ==
  /\ thread = "telling"
  /\ wireConnected' = TRUE
  /\ \/ thread' = "receiving" /\ thrown' = thrown
     \/ thread' = "unwinding" /\ thrown' = TRUE
  /\ UNCHANGED <<closing, connection, flowing, beat, buffer>>

\* read_header hands an acknowledgement to the buffer, which takes the lock and
\* then queue_lock.
AckArrives ==
  /\ thread = "receiving" /\ socket = "open"
  /\ thread' = "acknowledging"
  /\ UNCHANGED <<closing, connection, wireConnected, flowing, beat, buffer, thrown>>

Acknowledged ==
  /\ thread = "acknowledging" /\ buffer # "processing"
  /\ thread' = "receiving"
  /\ UNCHANGED <<closing, connection, wireConnected, flowing, beat, buffer, thrown>>

\* receiverProc ends: a socket that is closed or has no peer, a message that
\* cannot be read or whose handler throws.
Received ==
  /\ thread = "receiving"
  /\ thread' = "ended"
  /\ UNCHANGED <<closing, connection, wireConnected, flowing, beat, buffer, thrown>>

\* connected.set(false), whose handlers can throw, and pause, which takes the lock.
TellDisconnected ==
  /\ thread = "ended"
  /\ wireConnected' = FALSE
  /\ \/ flowing' = FALSE /\ thrown' = thrown /\ thread' = "pausing"
     \/ flowing' = flowing /\ thrown' = TRUE /\ thread' = "unwinding"
  /\ UNCHANGED <<closing, connection, beat, buffer>>

\* With the lock held, pause waits for process.
Paused ==
  /\ thread = "pausing" /\ buffer # "processing"
  /\ thread' = "left"
  /\ UNCHANGED <<closing, connection, wireConnected, flowing, beat, buffer, thrown>>

\* heartbeat.wait_for waits no longer than the timeout; then the socket is shut
\* down.
ShutDown ==
  /\ thread = "left"
  /\ socket' = "closed"
  /\ thread' = "joining"
  /\ UNCHANGED <<closing, peer, sockets, wireConnected, flowing, beat, buffer, thrown>>

\* The future of std::async waits in its destructor until the heartbeat has ended.
Joined ==
  /\ thread = "joining" /\ beat = "none"
  /\ thread' = "top"
  /\ UNCHANGED <<closing, connection, wireConnected, flowing, beat, buffer, thrown>>

(* The heartbeat's thread *)

\* Send blocks when the other end does not read.
BeatBlocks ==
  /\ beat = "running" /\ socket = "open" /\ peer
  /\ beat' = "blocked"
  /\ UNCHANGED <<closing, thread, connection, wireConnected, flowing, buffer, thrown>>

BeatGoesOn ==
  /\ beat = "blocked"
  /\ beat' = "running"
  /\ UNCHANGED <<closing, thread, connection, wireConnected, flowing, buffer, thrown>>

\* Its lifetime ends with the body of the connection.
BeatEnds ==
  /\ beat = "running" /\ thread \in {"left", "joining"}
  /\ beat' = "none"
  /\ UNCHANGED <<closing, thread, connection, wireConnected, flowing, buffer, thrown>>

(* The send buffer's thread *)

\* ThreadProc, under the lock: with data and not interrupted it goes to process;
\* it ends when the buffer is terminated, or stopping with nothing to do.
BufferChecks ==
  /\ buffer = "waiting" /\ ~LockHeld
  /\ \/ closer \in {"no", "stopping", "stopped"} /\ flowing /\ buffer' = "checked"
     \/ closer \in {"stopped", "closing", "joining", "done"} /\ buffer' = "done"
  /\ UNCHANGED <<closing, thread, connection, wireConnected, flowing, beat, thrown>>

\* process sends the queue with queue_lock held, which reprocess may have.
ProcessBegins ==
  /\ buffer = "checked" /\ thread # "resending"
  /\ buffer' = "processing"
  /\ UNCHANGED <<closing, thread, connection, wireConnected, flowing, beat, thrown>>

ProcessEnds ==
  /\ buffer = "processing"
  /\ buffer' = "waiting"
  /\ UNCHANGED <<closing, thread, connection, wireConnected, flowing, beat, thrown>>

(* The other end *)

PeerLeaves ==
  /\ socket = "open" /\ peer
  /\ peer' = FALSE
  /\ UNCHANGED <<closing, thread, socket, sockets, wireConnected, flowing, beat, buffer, thrown>>

(* The closing action *)

Terminate ==
  /\ closer = "no"
  /\ terminated' = TRUE
  /\ closer' = "stopping"
  /\ UNCHANGED <<kind, thread, listening, connection, wireConnected, flowing, beat, buffer, thrown>>

\* async_send_buffer.stop tells the buffer's thread under the lock, waits for it no
\* longer than the timeout, and takes the lock again.  A server then no longer listens.
StopBuffer ==
  /\ closer = "stopping" /\ ~LockHeld
  /\ closer' = "stopped"
  /\ UNCHANGED <<kind, thread, terminated, listening, connection, wireConnected, flowing, beat, buffer, thrown>>

BufferStopped ==
  /\ closer = "stopped" /\ ~LockHeld
  /\ closer' = "closing"
  /\ listening' = FALSE
  /\ UNCHANGED <<kind, thread, terminated, connection, wireConnected, flowing, beat, buffer, thrown>>

\* A broken variant: only a socket that is being received from is closed.
CloseReceiving ==
  /\ closer = "closing"
  /\ closer' = "joining"
  /\ socket' = IF thread = "receiving" THEN "closed" ELSE socket
  /\ UNCHANGED <<kind, thread, terminated, listening, peer, sockets, wireConnected, flowing, beat, buffer, thrown>>

\* Under the lock.
CloseSocket ==
  /\ closer = "closing"
  /\ closer' = "joining"
  /\ socket' = IF socket = "none" THEN "none" ELSE "closed"
  /\ UNCHANGED <<kind, thread, terminated, listening, peer, sockets, wireConnected, flowing, beat, buffer, thrown>>

JoinThread ==
  /\ closer = "joining" /\ thread = "done"
  /\ closer' = "done"
  /\ UNCHANGED <<kind, thread, terminated, listening, connection, wireConnected, flowing, beat, buffer, thrown>>

ThreadNext == Begin \/ Opened \/ NotOpened \/ Waited \/ Check \/ Resume \/ Reprocess \/ Resent
  \/ TellConnected \/ AckArrives \/ Acknowledged \/ Received \/ TellDisconnected \/ Paused
  \/ ShutDown \/ Joined

\* A socket that is closed or has no peer: what waits on it finds out.
Cut == socket = "closed" \/ ~peer

\* The wire's thread gets an answer to its opening, what waits on a socket that
\* is cut goes on, the acknowledgements that came on it being finitely many, and
\* so does the closing action, which gets a lock that is free again and again.
ThreadGoesOn == Begin \/ NotOpened \/ Waited \/ Check \/ Resume \/ Reprocess \/ TellConnected
  \/ Acknowledged \/ TellDisconnected \/ Paused \/ ShutDown \/ Joined
CloserGoesOn == StopBuffer \/ BufferStopped \/ CloseSocket \/ JoinThread
LifeFairness ==
  /\ WF_lifeVars(ThreadGoesOn) /\ WF_lifeVars(Resent /\ Cut) /\ SF_lifeVars(Received /\ Cut)
  /\ WF_lifeVars(BeatGoesOn /\ Cut) /\ WF_lifeVars(BeatEnds)
  /\ WF_lifeVars(ProcessEnds /\ Cut)
  /\ SF_lifeVars(CloserGoesOn)

LifeNext == ThreadNext \/ BeatBlocks \/ BeatGoesOn \/ BeatEnds
  \/ BufferChecks \/ ProcessBegins \/ ProcessEnds \/ PeerLeaves
  \/ Terminate \/ StopBuffer \/ BufferStopped \/ CloseSocket \/ JoinThread

-----------------------------------------------------------------------------
\* The lock of the buffer is held for a Send on a socket that is neither closed
\* nor left by the other end, which does not read.
HeldBySend == LockHeld /\ (thread = "resending" \/ buffer = "processing") /\ ~Cut

\* A lifetime that has ended has its thread joined, wherever the thread was:
\* opening, between the check and the first Receive, receiving, or waiting for
\* a heartbeat that is blocked.  Only a handler of connected that threw leaves
\* it waiting for ever, or the lock of the send buffer held over a Send that
\* never returns, as the action would close the socket only after it has got that
\* lock (SocketWire.cpp:141-157, 525-549, 633-661; ByteBufferAsyncProcessor.cpp:36-70).
EventuallyJoinedUnlessThrownOrHeld ==
  []<>(terminated => closer = "done" \/ thrown) \/ <>[]HeldBySend
===============================================================================
