---------------------------- MODULE RiderLinkModule ----------------------------
(* RiderLink in the editor: the wire's connections and the model object of   *)
(* each.  The wire's thread begins and ends connections and queues actions   *)
(* on the module's scheduler, one thread, which makes the model, says that   *)
(* it is alive and later that it is not; any thread may send through the     *)
(* model under the read lock (FireAsyncAction), as logging does.             *)
EXTENDS Integers, Sequences

CONSTANT MaxConnections  \* bounds the connections of a behaviour
ASSUME RiderLinkModuleAssumption == MaxConnections \in Nat

VARIABLES
  up,           \* the wire's connection, 0 when there is none
  connections,  \* how many there have been: they are numbered from 1
  queue,        \* the actions queued on Scheduler
  connecting,   \* how far the scheduler's thread is in the handler of a connection
  model,        \* the connection EditorModel was made for, 0 before the first
  watched,      \* whether that connection's lifetime has the action that ends the model
  alive,        \* RdIsModelAlive
  reading       \* whether a thread holds the read lock of ModelLock

linkVars == <<up, connections, queue, connecting, model, watched, alive, reading>>

Task(kind, conn, what) == [kind |-> kind, conn |-> conn, what |-> what]
LinkTasks == {"connected", "lost"}

LinkInit ==
  /\ up = 0 /\ connections = 0
  /\ queue = <<>>
  /\ connecting = "no"
  /\ model = 0 /\ watched = FALSE
  /\ alive = FALSE
  /\ reading = FALSE

-----------------------------------------------------------------------------
\* The model's entities are bound while the connection it was made for lasts.
Bound == model # 0 /\ model = up

Running(kind) == connecting = "no" /\ queue # <<>> /\ Head(queue).kind = kind

\* The scheduler's thread holds the write lock all the time it handles a connection.
WriteLocked == connecting # "no"

Connect ==
  /\ up = 0 /\ connections < MaxConnections
  /\ connections' = connections + 1
  /\ up' = connections + 1
  /\ queue' = Append(queue, Task("connected", connections + 1, 0))
  /\ UNCHANGED <<connecting, model, watched, alive, reading>>

\* A broken variant: the end of a connection is only told by the next one.
DisconnectQuietly ==
  /\ up # 0
  /\ up' = 0
  /\ UNCHANGED <<connections, queue, connecting, model, watched, alive, reading>>

\* The lifetime of the connection ends, on the wire's thread.
Disconnect ==
  /\ up # 0
  /\ up' = 0
  /\ queue' = IF watched /\ model = up THEN Append(queue, Task("lost", up, 0)) ELSE queue
  /\ UNCHANGED <<connections, connecting, model, watched, alive, reading>>

\* The handler of a connection: a new model, in place of the one before it.
MakeModel ==
  /\ Running("connected") /\ ~reading
  /\ model' = Head(queue).conn
  /\ watched' = FALSE
  /\ connecting' = "made"
  /\ UNCHANGED <<up, connections, queue, alive, reading>>

\* A broken variant: that the lifetime has ended goes unnoticed.
WatchRegardless ==
  /\ connecting = "made"
  /\ watched' = Bound
  /\ connecting' = "watched"
  /\ UNCHANGED <<up, connections, queue, model, alive, reading>>

\* add_action throws when the lifetime has ended, and the handler with it.
WatchLifetime ==
  /\ connecting = "made"
  /\ IF Bound
     THEN /\ watched' = TRUE
          /\ connecting' = "watched"
          /\ queue' = queue
     ELSE /\ connecting' = "no"
          /\ queue' = Tail(queue)
          /\ watched' = watched
  /\ UNCHANGED <<up, connections, model, alive, reading>>

\* Those who view the model are told that it is alive.
SetAlive ==
  /\ connecting = "watched"
  /\ alive' = TRUE
  /\ connecting' = "no"
  /\ queue' = Tail(queue)
  /\ UNCHANGED <<up, connections, model, watched, reading>>

\* What the end of the lifetime queued: the views of the model end.
SetDead ==
  /\ Running("lost") /\ ~reading
  /\ alive' = FALSE
  /\ queue' = Tail(queue)
  /\ UNCHANGED <<up, connections, connecting, model, watched, reading>>

\* FireAsyncAction: nothing is sent, and it says so, unless the model is alive.
ReadLock ==
  /\ ~WriteLocked /\ ~reading /\ alive
  /\ reading' = TRUE
  /\ UNCHANGED <<up, connections, queue, connecting, model, watched, alive>>

ReadUnlock ==
  /\ reading
  /\ reading' = FALSE
  /\ UNCHANGED <<up, connections, queue, connecting, model, watched, alive>>

\* QueueModelAction and QueueAction, from another thread than the scheduler's:
\* other actions are queued, and run in their turn.
Schedule(tasks) ==
  /\ queue' = queue \o tasks
  /\ UNCHANGED <<up, connections, connecting, model, watched, alive, reading>>

Taken(kind) ==
  /\ Running(kind)
  /\ queue' = Tail(queue)
  /\ UNCHANGED <<up, connections, connecting, model, watched, alive, reading>>

-----------------------------------------------------------------------------
\* Once the scheduler has nothing left to do, the model is alive exactly when
\* the wire is connected, and is that connection's: a connection that ends
\* while its handler runs leaves no model behind that is taken for alive, and
\* the end of an old one never hides the new one (RiderLink.cpp:61-87).
AliveIffConnected ==
  queue = <<>> /\ connecting = "no" => (alive <=> up # 0) /\ (alive => model = up)

\* A model is never replaced while it is said to be alive or while a thread
\* sends through it, so nobody who was told that it is alive holds a destroyed
\* one (RiderLink.cpp:67-68, 91-92, 127-135).
ReplacedOnlyWhenDead == [][model' # model => ~alive /\ ~reading]_linkVars
===============================================================================
