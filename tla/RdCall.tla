-------------------------------- MODULE RdCall ---------------------------------
(***************************************************************************)
(* Calls of the other end (RdCall, WiredRdTask, WiredRdTaskImpl).  They    *)
(* are made on the thread of the default scheduler.  sync spins there      *)
(* until the wire thread has set the result, the bind lifetime has ended,  *)
(* or 200 ms have passed; start returns a task whose result is set by the  *)
(* wire thread or later by the scheduler, as its scheduler has it.  The    *)
(* bind lifetime is that of the connection, and the wire thread ends it.   *)
(*                                                                         *)
(* A task is destroyed when its last copy is: after sync has thrown, or    *)
(* when the caller drops it.  Its subscription at the broker stays until   *)
(* the bind lifetime ends, and a lifetime that is ending has its actions   *)
(* already, so that both threads may still reach the task.  What they do   *)
(* to it then is undefined; it is only recorded.                           *)
(***************************************************************************)
EXTENDS FiniteSets

CONSTANTS
  Tasks,   \* calls, each with the identity of its task
  NoTask

ASSUME RdCallAssumption == NoTask \notin Tasks

VARIABLES
  phase,         \* [Tasks -> what became of the task]
  result,        \* [Tasks -> the value of its result property]
  immediate,     \* tasks whose scheduler runs what it is given at once
  sync_task_id,  \* the task of the sync call in progress, so the code has it
  subscribed,    \* tasks among the subscriptions of the broker
  cancels,       \* tasks the end of the bind lifetime cancels
  bindAlive,     \* the bind lifetime is not terminated
  ending,        \* tasks the ending lifetime has yet to cancel
  requests,      \* calls the other end has not answered yet
  answers,       \* results on the way
  delivering,    \* [Threads -> the result it is setting, and how far it is]
  responses,     \* answers queued at the default scheduler
  \* for the properties
  touched,       \* tasks that were used after they were destroyed
  givenUp,       \* tasks that were destroyed before their result was set
  hurried,       \* tasks destroyed while a thread or an action was about to use them
  thrown,        \* sync calls that threw
  raced          \* tasks both threads found without a result at the same time

callLifetimes == <<subscribed, cancels, bindAlive, ending>>
wireVars == <<immediate, requests, answers, delivering, responses>>
historyVars == <<touched, givenUp, hurried, thrown, raced>>
callVars == <<phase, result, sync_task_id, callLifetimes, wireVars, historyVars>>

Results == {"Success", "Fault", "Cancelled"}
Threads == {"wire", "scheduler"}
Idle == [task |-> NoTask, result |-> "none", at |-> "idle"]

CallInit ==
  /\ phase = [t \in Tasks |-> "new"]
  /\ result = [t \in Tasks |-> "none"]
  /\ sync_task_id = NoTask
  /\ subscribed = {} /\ cancels = {} /\ bindAlive = TRUE /\ ending = {}
  /\ immediate = {} /\ requests = {} /\ answers = {} /\ delivering = [w \in Threads |-> Idle] /\ responses = {}
  /\ touched = {} /\ givenUp = {} /\ hurried = {} /\ thrown = {} /\ raced = {}

\* The thread of the default scheduler is in no call, nor setting a result.
CallerFree ==
  /\ delivering["scheduler"] = Idle
  /\ \A t \in Tasks : phase[t] \notin {"waiting", "expired"}

\* Something is about to use the task.
InUse(t) ==
  t \in ending \/ (\E w \in Threads : delivering[w].task = t) \/ \E r \in responses : r.task = t

\* (Broken: the destructor leaves the action of the lifetime.)
DestroyKeeps(t) ==
  /\ givenUp' = IF result[t] = "none" THEN givenUp \cup {t} ELSE givenUp
  /\ hurried' = IF InUse(t) THEN hurried \cup {t} ELSE hurried
  /\ UNCHANGED cancels

\* ~WiredRdTaskImpl: removes the action of the lifetime, not the subscription.
Destroy(t) ==
  /\ givenUp' = IF result[t] = "none" THEN givenUp \cup {t} ELSE givenUp
  /\ hurried' = IF InUse(t) THEN hurried \cup {t} ELSE hurried
  /\ cancels' = cancels \ {t}

\* start, with a scheduler that sets the result at once or the default one.
Start(t, atOnce) ==
  /\ CallerFree /\ bindAlive /\ phase[t] = "new"
  /\ phase' = [phase EXCEPT ![t] = "started"]
  /\ immediate' = IF atOnce THEN immediate \cup {t} ELSE immediate
  /\ requests' = requests \cup {t}
  /\ subscribed' = subscribed \cup {t} /\ cancels' = cancels \cup {t}
  /\ UNCHANGED <<result, sync_task_id, bindAlive, ending, answers, delivering,
                 responses, historyVars>>

\* sync up to the loop.
Sync(t) ==
  /\ CallerFree /\ bindAlive /\ phase[t] = "new" /\ sync_task_id = NoTask
  /\ phase' = [phase EXCEPT ![t] = "waiting"]
  /\ sync_task_id' = t
  /\ immediate' = immediate \cup {t}
  /\ requests' = requests \cup {t}
  /\ subscribed' = subscribed \cup {t} /\ cancels' = cancels \cup {t}
  /\ UNCHANGED <<result, bindAlive, ending, answers, delivering, responses,
                 historyVars>>

\* sync that throws because there is a sync task: the task was already
\* subscribed, and is destroyed; nothing was sent.
Refuse(t) ==
  /\ CallerFree /\ bindAlive /\ phase[t] = "new" /\ sync_task_id # NoTask
  /\ phase' = [phase EXCEPT ![t] = "refused"]
  /\ subscribed' = subscribed \cup {t}
  /\ UNCHANGED <<wireVars, result, sync_task_id, cancels, bindAlive, ending,
                 historyVars>>

\* The loop of sync ends after its time, or because the lifetime has ended; a
\* result may still come before the task is asked for it.
Expire(t) ==
  /\ phase[t] = "waiting"
  /\ phase' = [phase EXCEPT ![t] = "expired"]
  /\ UNCHANGED <<wireVars, result, sync_task_id, callLifetimes, historyVars>>

Return(t) ==
  /\ phase[t] \in {"waiting", "expired"} /\ result[t] = "Success"
  /\ phase' = [phase EXCEPT ![t] = "returned"]
  /\ sync_task_id' = NoTask
  /\ UNCHANGED <<wireVars, result, callLifetimes, historyVars>>

\* sync without a result when the time is over or the lifetime has ended, or
\* with one that unwrap throws for: sync_task_id keeps its value.
Throw(t) ==
  /\ phase[t] = "expired" \/ (phase[t] = "waiting" /\ result[t] # "none")
  /\ result[t] # "Success"
  /\ phase' = [phase EXCEPT ![t] = "gone"]
  /\ thrown' = thrown \cup {t}
  /\ Destroy(t)
  /\ UNCHANGED <<wireVars, result, sync_task_id, subscribed, bindAlive, ending,
                 touched, raced>>

\* The caller lets go of a task.
Drop(t) ==
  /\ CallerFree /\ phase[t] \in {"started", "returned"}
  /\ phase' = [phase EXCEPT ![t] = "gone"]
  /\ Destroy(t)
  /\ UNCHANGED <<wireVars, result, sync_task_id, subscribed, bindAlive, ending,
                 touched, thrown, raced>>

\* The other end answers a call it was sent, once.
Answer(t, r) ==
  /\ t \in requests
  /\ requests' = requests \ {t}
  /\ answers' = answers \cup {[task |-> t, result |-> r]}
  /\ UNCHANGED <<immediate, phase, result, sync_task_id, callLifetimes, delivering,
                 responses, historyVars>>

Destroyed(t) == phase[t] \in {"gone", "refused"}
Touch(t) == IF Destroyed(t) THEN touched \cup {t} ELSE touched

\* The wire thread finds the subscription, or drops the answer.  What is to be
\* done with it goes to the scheduler of the task.
Deliver(a) ==
  /\ a \in answers /\ delivering["wire"] = Idle /\ bindAlive
  /\ answers' = answers \ {a}
  /\ touched' = Touch(a.task)
  /\ IF Destroyed(a.task) THEN UNCHANGED <<delivering, responses>>
     ELSE IF a.task \in immediate
     THEN delivering' = [delivering EXCEPT !["wire"] =
                           [task |-> a.task, result |-> a.result, at |-> "checking"]]
          /\ UNCHANGED responses
     ELSE responses' = responses \cup {a} /\ UNCHANGED delivering
  /\ UNCHANGED <<immediate, requests, phase, result, sync_task_id, callLifetimes, givenUp,
                 hurried, thrown, raced>>

\* The default scheduler takes what was queued.
Respond(a) ==
  /\ CallerFree /\ a \in responses
  /\ responses' = responses \ {a}
  /\ delivering' = [delivering EXCEPT !["scheduler"] =
                      [task |-> a.task, result |-> a.result, at |-> "checking"]]
  /\ UNCHANGED <<immediate, requests, answers, phase, result, sync_task_id, callLifetimes,
                 historyVars>>

\* The bind lifetime ends on the wire thread: it takes its actions, erases the
\* subscriptions, and cancels the tasks one after the other.
End ==
  /\ bindAlive /\ delivering["wire"] = Idle
  /\ bindAlive' = FALSE /\ subscribed' = {} /\ cancels' = {}
  /\ ending' = cancels
  /\ UNCHANGED <<wireVars, phase, result, sync_task_id, historyVars>>

Cancel(t) ==
  /\ t \in ending /\ delivering["wire"] = Idle
  /\ ending' = ending \ {t}
  /\ delivering' = [delivering EXCEPT !["wire"] =
                      [task |-> t, result |-> "Cancelled", at |-> "checking"]]
  /\ UNCHANGED <<immediate, requests, answers, responses, phase, result, sync_task_id,
                 subscribed, cancels, bindAlive, historyVars>>

\* (Broken: the result is set whatever the property holds.)
EmptyAlways(t) == TRUE

\* What has_value says of the property.
Empty(t) == result[t] = "none"

\* on_wire_received, or the action of the lifetime: the check of has_value, the
\* value set, and the listeners of the property called.  In between another
\* thread may set the value, or see it and destroy the task.
Check(w) ==
  LET t == delivering[w].task IN
  /\ delivering[w].at = "checking"
  /\ touched' = Touch(t)
  /\ delivering' = [delivering EXCEPT ![w] =
                      IF Destroyed(t) \/ ~Empty(t) THEN Idle ELSE [@ EXCEPT !.at = "setting"]]
  /\ raced' = IF \A v \in Threads : delivering'[v].task = t /\ delivering'[v].at = "setting"
              THEN raced \cup {t} ELSE raced
  /\ UNCHANGED <<immediate, requests, answers, responses, phase, result, sync_task_id,
                 callLifetimes, givenUp, hurried, thrown>>

SetResult(w) ==
  LET t == delivering[w].task IN
  /\ delivering[w].at = "setting"
  /\ touched' = Touch(t)
  /\ IF Destroyed(t)
     THEN delivering' = [delivering EXCEPT ![w] = Idle] /\ UNCHANGED result
     ELSE /\ delivering' = [delivering EXCEPT ![w].at = "firing"]
          /\ result' = [result EXCEPT ![t] = delivering[w].result]
  /\ UNCHANGED <<immediate, requests, answers, responses, phase, sync_task_id, callLifetimes,
                 givenUp, hurried, thrown, raced>>

FireChange(w) ==
  /\ delivering[w].at = "firing"
  /\ touched' = Touch(delivering[w].task)
  /\ delivering' = [delivering EXCEPT ![w] = Idle]
  /\ UNCHANGED <<immediate, requests, answers, responses, phase, result, sync_task_id,
                 callLifetimes, givenUp, hurried, thrown, raced>>

CallNext ==
  \/ \E t \in Tasks : \/ \E atOnce \in BOOLEAN : Start(t, atOnce)
                      \/ Sync(t) \/ Refuse(t) \/ Expire(t) \/ Return(t) \/ Throw(t)
                      \/ Drop(t) \/ Cancel(t)
                      \/ \E r \in Results : Answer(t, r)
  \/ \E a \in answers : Deliver(a)
  \/ \E a \in responses : Respond(a)
  \/ \E w \in Threads : Check(w) \/ SetResult(w) \/ FireChange(w)
  \/ End

CallSpec == CallInit /\ [][CallNext]_callVars
-----------------------------------------------------------------------------
\* A task is used after its end only when the caller did not wait for it: it
\* was destroyed without a result, or while a thread was about to use it.  (A
\* sync call that returns is enough for that: the loop sees the value before
\* the wire thread has called the listeners.)
TouchedOnlyInFlight == touched \subseteq givenUp \cup hurried

\* A result that was set stays, unless both threads had found the property
\* empty before either set it.
ResultStaysUnlessRaced ==
  [][\A t \in Tasks :
       (result[t] # "none" /\ result'[t] # result[t]) => t \in raced]_callVars

\* A sync call is refused only after another one threw; one that returned
\* leaves the way to the next.
RefusedOnlyAfterThrow == (\E t \in Tasks : phase[t] = "refused") => thrown # {}

\* One call does not disturb another: neither the end of its lifetime nor the
\* place it took in sync_task_id.
CallsKeptApart == TouchedOnlyInFlight /\ RefusedOnlyAfterThrow
===============================================================================
