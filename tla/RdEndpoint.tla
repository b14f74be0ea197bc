------------------------------- MODULE RdEndpoint ------------------------------
(***************************************************************************)
(* Calls of this end (RdEndpoint, RdTask, RdEndpointTaskCancellation,      *)
(* RdEndpointWiredResult).  The endpoint works on the thread of the        *)
(* default scheduler; a handler answers at once or returns a task that any *)
(* thread completes later.  The bind lifetime is that of the connection,   *)
(* and the wire thread ends it.  A message under the identity of the call asks  *)
(* to cancel it and, once it was answered with something bindable, to end  *)
(* the lifetime of the result.                                             *)
(*                                                                         *)
(* External: the caller, which may send such a message at any time.        *)
(***************************************************************************)
EXTENDS Naturals, Sequences

CONSTANTS
  Calls,
  Bindable,  \* the calls whose result is bindable
  NoCall

ASSUME RdEndpointAssumption == Bindable \subseteq Calls /\ NoCall \notin Calls

VARIABLES
  asked,       \* calls on the way to the endpoint
  withdrawals, \* calls with a message under their identity on the way
  handlerSet,  \* local_handler was set
  endpointAlive,
  attaching,   \* the call the scheduler's thread is at, and where
  task,        \* [Calls -> result of the task of the handler]
  completing,  \* calls a thread has completed, the listeners not yet called
  listening,   \* calls whose task has the listener of the endpoint
  cancellable, \* calls whose cancellation is subscribed
  wired,       \* calls whose result is bound and subscribed
  held,        \* calls whose result lifetime is not terminated
  sent,        \* [Calls -> Seq of the results sent]
  stranded,    \* calls whose result failed once it had its own lifetime
  \* for the properties
  overtaken,   \* calls completed while the endpoint attached to their task
  unanswered   \* calls that found no handler, or the endpoint ended

resultVars == <<wired, held, sent, stranded>>
callingVars == <<listening, cancellable>>
taskVars == <<task, completing, callingVars, resultVars>>
propertyVars == <<overtaken, unanswered>>
endpointVars == <<asked, withdrawals, handlerSet, endpointAlive, attaching, taskVars,
                  propertyVars>>

TaskResults == {"Success", "Fault", "Cancelled"}
Nowhere == [call |-> NoCall, at |-> "nowhere"]

EndpointInit ==
  /\ asked = Calls /\ withdrawals = {}
  /\ handlerSet = FALSE /\ endpointAlive = TRUE /\ attaching = Nowhere
  /\ task = [c \in Calls |-> "none"]
  /\ completing = {} /\ listening = {} /\ cancellable = {} /\ wired = {} /\ held = {}
  /\ sent = [c \in Calls |-> <<>>] /\ stranded = {}
  /\ overtaken = {} /\ unanswered = {}

SetHandler ==
  /\ ~handlerSet /\ attaching = Nowhere
  /\ handlerSet' = TRUE
  /\ UNCHANGED <<asked, withdrawals, endpointAlive, attaching, taskVars,
                 propertyVars>>

\* handle_result: a success that is bindable is given its lifetime, bound and sent;
\* the lifetime of any other result ends, and so does that of a success for which
\* this fails before, which is sent as a fault.  One that fails at binding or
\* sending is sent as a fault too, but it has moved into the lifetime that keeps it.
HandleResult(c, r) ==
  \/ /\ c \in Bindable /\ r = "Success" /\ endpointAlive
     /\ wired' = wired \cup {c} /\ held' = held \cup {c}
     /\ sent' = [sent EXCEPT ![c] = Append(@, r)]
     /\ UNCHANGED stranded
  \/ /\ c \notin Bindable \/ r # "Success"
     /\ sent' = [sent EXCEPT ![c] = Append(@, r)]
     /\ held' = held \ {c} /\ UNCHANGED <<wired, stranded>>
  \/ /\ r = "Success" /\ (c \notin Bindable \/ ~endpointAlive)
     /\ sent' = [sent EXCEPT ![c] = Append(@, "Fault")]
     /\ held' = held \ {c} /\ UNCHANGED <<wired, stranded>>
  \/ /\ c \in Bindable /\ r = "Success" /\ endpointAlive
     /\ wired' \in {wired, wired \cup {c}} /\ held' = held \cup {c}
     /\ sent' = [sent EXCEPT ![c] = Append(@, "Fault")]
     /\ stranded' = stranded \cup {c}

\* (Broken: the lifetime of the call goes on when it is answered.)
AnsweredStays(c, r) == HandleResult(c, r) /\ UNCHANGED callingVars

\* The listener of the task: the lifetime of the call ends, and with it the
\* listener and the cancellation, before the result is handled.
Answered(c, r) ==
  /\ listening' = listening \ {c} /\ cancellable' = cancellable \ {c}
  /\ HandleResult(c, r)

\* on_wire_received.  Without a handler it throws; a handler that throws, or
\* returns a task with a result, is answered at once.
ReceiveCall(c) ==
  /\ attaching = Nowhere /\ c \in asked
  /\ asked' = asked \ {c}
  /\ \/ /\ ~handlerSet \/ ~endpointAlive
        /\ unanswered' = unanswered \cup {c}
        /\ UNCHANGED <<attaching, taskVars>>
     \/ /\ handlerSet /\ endpointAlive
        /\ \E r \in TaskResults :
             task' = [task EXCEPT ![c] = r] /\ HandleResult(c, r)
        /\ UNCHANGED <<attaching, completing, callingVars, unanswered>>
     \/ /\ handlerSet /\ endpointAlive
        /\ attaching' = [call |-> c, at |-> "binding"]
        /\ held' = held \cup {c}
        /\ UNCHANGED <<task, completing, callingVars, wired, sent, stranded, unanswered>>
  /\ UNCHANGED <<withdrawals, handlerSet, endpointAlive, overtaken>>

\* handle_result_async: the cancellation is bound, then the listener added.  An
\* ended bind lifetime throws, and the exception is sent.
Attach ==
  LET c == attaching.call IN
  /\ attaching.at = "binding"
  /\ IF endpointAlive
     THEN /\ attaching' = [attaching EXCEPT !.at = "advised"]
          /\ cancellable' = cancellable \cup {c} /\ listening' = listening \cup {c}
          /\ UNCHANGED sent
     ELSE /\ attaching' = Nowhere
          /\ sent' = [sent EXCEPT ![c] = Append(@, "Fault")]
          /\ UNCHANGED callingVars
  /\ UNCHANGED <<asked, withdrawals, handlerSet, endpointAlive, task, completing,
                 wired, held, stranded, propertyVars>>

\* (Broken: advise leaves a value that is there already to the signal.)
AdviseOnly(c) == UNCHANGED <<callingVars, resultVars>>

\* The end of advise: a value that came meanwhile is handled here.
AdviseValue(c) ==
  IF task[c] = "none" THEN UNCHANGED <<callingVars, resultVars>>
  ELSE Answered(c, task[c])

Attached ==
  /\ attaching.at = "advised"
  /\ AdviseValue(attaching.call)
  /\ attaching' = Nowhere
  /\ UNCHANGED <<asked, withdrawals, handlerSet, endpointAlive, task, completing,
                 propertyVars>>

Unfinished(c) == c \notin asked \cup unanswered /\ c \in held /\ c \notin wired

\* A thread completes the task of a handler, once: set, and then the listeners
\* that are there are called.  A value the task already has is overwritten.
Complete(c, r) ==
  /\ Unfinished(c) \/ (task[c] = "Cancelled" /\ sent[c] = <<"Cancelled">>)
  /\ c \notin completing /\ task[c] # r /\ task[c] \in {"none", "Cancelled"}
  /\ task' = [task EXCEPT ![c] = r]
  /\ completing' = completing \cup {c}
  /\ overtaken' = IF attaching.call = c THEN overtaken \cup {c} ELSE overtaken
  /\ UNCHANGED <<asked, withdrawals, handlerSet, endpointAlive, attaching,
                 callingVars, resultVars, unanswered>>

Completed(c) ==
  /\ c \in completing
  /\ completing' = completing \ {c}
  /\ IF c \in listening THEN Answered(c, task[c])
     ELSE UNCHANGED <<callingVars, resultVars>>
  /\ UNCHANGED <<asked, withdrawals, handlerSet, endpointAlive, attaching, task,
                 propertyVars>>

\* External: the caller sends a message under the identity of the call.
Withdraw(c) ==
  /\ c \notin asked \cup withdrawals
  /\ withdrawals' = withdrawals \cup {c}
  /\ UNCHANGED <<asked, handlerSet, endpointAlive, attaching, taskVars,
                 propertyVars>>

\* The message arrives: at the cancellation, at the bound result, or nowhere.
ReceiveWithdrawal(c) ==
  /\ attaching = Nowhere /\ c \in withdrawals
  /\ withdrawals' = withdrawals \ {c}
  /\ \/ /\ c \in cancellable /\ task[c] = "none"
        /\ task' = [task EXCEPT ![c] = "Cancelled"]
        /\ Answered(c, "Cancelled")
     \/ /\ c \in wired
        /\ wired' = wired \ {c} /\ held' = held \ {c}
        /\ UNCHANGED <<task, callingVars, sent, stranded>>
     \/ /\ ~(c \in cancellable /\ task[c] = "none") /\ c \notin wired
        /\ UNCHANGED <<task, callingVars, resultVars>>
  /\ UNCHANGED <<asked, handlerSet, endpointAlive, attaching, completing,
                 propertyVars>>

\* The bind lifetime ends, and with it every nested one.
EndEndpoint ==
  /\ endpointAlive
  /\ endpointAlive' = FALSE
  /\ listening' = {} /\ cancellable' = {} /\ wired' = {} /\ held' = {}
  /\ unanswered' = unanswered \cup {c \in held : sent[c] = <<>>}
  /\ UNCHANGED <<asked, withdrawals, handlerSet, attaching, task, completing,
                 sent, stranded, overtaken>>

EndpointNext ==
  \/ SetHandler \/ Attach \/ Attached \/ EndEndpoint
  \/ \E c \in Calls : \/ ReceiveCall(c) \/ Completed(c)
                      \/ Withdraw(c) \/ ReceiveWithdrawal(c)
                      \/ \E r \in {"Success", "Fault"} : Complete(c, r)

EndpointSpec == EndpointInit /\ [][EndpointNext]_endpointVars
-----------------------------------------------------------------------------
\* A call is answered once, although it may be cancelled and completed, and what
\* its result lives on then either ended or can be released by the caller: no
\* bound result is out of reach, except one whose binding or sending failed: the
\* caller has a fault, and the value lives until the endpoint ends.  Another thread
\* that completes the task while the endpoint attaches itself to it can have it
\* answered twice.
AnsweredOnceUnlessOvertaken ==
  \A c \in Calls \ overtaken :
    /\ Len(sent[c]) <= 1
    /\ (sent[c] # <<>> /\ c \in held) =>
         \/ c \in wired /\ sent[c] = <<"Success">>
         \/ c \in stranded /\ sent[c] = <<"Fault">>

\* Every task that is completed is answered, whichever thread completed it and
\* however far the endpoint had come.
EventuallyAnsweredUnlessEnded ==
  \A c \in Calls : []<>(task[c] = "none" \/ sent[c] # <<>> \/ c \in unanswered)
===============================================================================
