----------------------------- MODULE MessageBroker -----------------------------
(***************************************************************************)
(* MessageBroker: messages that the wire thread reads are handed to the    *)
(* reactive entity subscribed to their id.  The wire thread dispatches     *)
(* under the broker's lock, so a dispatch is one action.  The default      *)
(* scheduler is one thread with a queue of tasks; what it runs for a       *)
(* message without a subscriber takes the lock only for one of its steps,  *)
(* so each of its steps is an action here.                                 *)
(*                                                                         *)
(* An entity's wire scheduler is one of                                    *)
(*   "default": the default scheduler (bound properties, signals, calls)   *)
(*   "sync":    SynchronousScheduler (exts, tasks), run where it is queued *)
(*   "intern":  InternScheduler, the same but out_of_order_execution       *)
(***************************************************************************)
EXTENDS Naturals, Sequences, SequencesExt, FiniteSets

CONSTANTS
  Ids,          \* ids of entities
  SchedulerOf,  \* [Ids -> {"default", "sync", "intern"}]
  MaxMessages   \* bound: messages the wire thread dispatches

ASSUME MessageBrokerAssumption ==
  /\ SchedulerOf \in [Ids -> {"default", "sync", "intern"}]
  /\ MaxMessages \in Nat

VARIABLES
  subscriptions,  \* [Ids -> "absent" | "null" (operator[] inserted it) | "entity"]
  broker,         \* [Ids -> the entry of the id: its two queues; entry counts
                  \*  the entries the id has had, which tells old iterators]
  defaultTasks,   \* the default scheduler's queue
  worker,         \* what the default scheduler's thread is in the middle of
  dispatched,     \* number of messages dispatched; a message is its number
  addressee,      \* history: [1..dispatched -> Ids]
  handled,        \* history: [Ids -> messages in the order they were handled]
  dropped,        \* history: messages given up because nobody is subscribed
  ended,          \* history: ids whose subscription has ended
  racedIds,       \* history: ids dispatched to while their entry is removed
  crashed         \* "no", "null subscription", "erased entry"

brokerVars == <<subscriptions, broker, defaultTasks, worker, dispatched, addressee,
          handled, dropped, ended, racedIds, crashed>>

NoEntry(n) == [entry |-> n, live |-> FALSE, default |-> <<>>, custom |-> <<>>]
IdleWorker == [pc |-> "idle"]

BrokerInit ==
  /\ subscriptions = [id \in Ids |-> "absent"]
  /\ broker = [id \in Ids |-> NoEntry(0)]
  /\ defaultTasks = <<>> /\ worker = IdleWorker
  /\ dispatched = 0 /\ addressee = <<>>
  /\ handled = [id \in Ids |-> <<>>] /\ dropped = {}
  /\ ended = {} /\ racedIds = {} /\ crashed = "no"

Running == crashed = "no"

\* subscriptions[id] of a std::unordered_map inserts nullptr when absent.
Looked(id) == [subscriptions EXCEPT ![id] = IF @ = "absent" THEN "null" ELSE @]

Handle(id, message) ==
  /\ handled' = [handled EXCEPT ![id] = Append(@, message)]
  /\ UNCHANGED dropped

GiveUp(message) == dropped' = dropped \cup {message} /\ UNCHANGED handled

\* invoke on a scheduler that runs it at once: the lookup of the id again,
\* then on_wire_received.  (An entity that was unbound has lost its id.)
Invoke(id, message) ==
  IF subscriptions[id] = "entity" THEN Handle(id, message) ELSE GiveUp(message)
-----------------------------------------------------------------------------
\* dispatch: the wire thread, under the lock.
DispatchUnsubscribed(id, message) ==
  /\ subscriptions[id] # "entity"
  /\ LET current == IF broker[id].live THEN broker[id]
                    ELSE [NoEntry(broker[id].entry + 1) EXCEPT !.live = TRUE]
     IN /\ broker' = [broker EXCEPT
              ![id] = [current EXCEPT !.default = Append(@, message)]]
        /\ defaultTasks' = Append(defaultTasks, [kind |-> "action", id |-> id,
                                   entry |-> current.entry])
  /\ UNCHANGED <<handled, dropped>>

\* invoke on the default scheduler: to the back of its queue.
DispatchQueued(id, message) ==
  /\ subscriptions[id] = "entity" /\ SchedulerOf[id] = "default"
  /\ defaultTasks' = Append(defaultTasks, [kind |-> "invoke", id |-> id, message |-> message])
  /\ UNCHANGED <<broker, handled, dropped>>

\* (Broken: a custom scheduler does not wait for the default scheduler.)
DispatchCustomAtOnce(id, message) ==
  /\ subscriptions[id] = "entity" /\ SchedulerOf[id] # "default"
  /\ Invoke(id, message)
  /\ UNCHANGED <<broker, defaultTasks>>

\* A custom scheduler waits for what the default scheduler still has to do.
DispatchCustom(id, message) ==
  /\ subscriptions[id] = "entity" /\ SchedulerOf[id] # "default"
  /\ IF SchedulerOf[id] = "intern" \/ ~broker[id].live
     THEN Invoke(id, message) /\ UNCHANGED broker
     ELSE /\ broker' = [broker EXCEPT ![id].custom = Append(@, message)]
          /\ UNCHANGED <<handled, dropped>>
  /\ UNCHANGED defaultTasks

\* Is the worker between its unlocked test that the entry's queue is empty and
\* the end of the flush of the entry?
Removing(id) == worker.pc \in {"take", "erase", "flush"} /\ worker.id = id

Dispatch(id) ==
  /\ Running /\ dispatched < MaxMessages
  /\ dispatched' = dispatched + 1
  /\ addressee' = Append(addressee, id)
  /\ subscriptions' = Looked(id)
  /\ \/ DispatchUnsubscribed(id, dispatched + 1)
     \/ DispatchQueued(id, dispatched + 1)
     \/ DispatchCustom(id, dispatched + 1)
  /\ racedIds' = IF Removing(id) THEN racedIds \cup {id} ELSE racedIds
  /\ UNCHANGED <<worker, ended, crashed>>
-----------------------------------------------------------------------------
\* advise_on, on the default scheduler ("advise MUST happen under default
\* scheduler"): an id is advised once, ids are never used again.
AdviseEntity(id) ==
  /\ Running /\ worker = IdleWorker
  /\ subscriptions[id] # "entity" /\ id \notin ended
  /\ subscriptions' = [subscriptions EXCEPT ![id] = "entity"]
  /\ UNCHANGED <<broker, defaultTasks, worker, dispatched, addressee, handled,
                 dropped, ended, racedIds, crashed>>

\* The action advise_on adds to the lifetime; the entity is unbound with it.
UnsubscribeEntity(id) ==
  /\ subscriptions' = [subscriptions EXCEPT ![id] = "absent"]
  /\ ended' = ended \cup {id}

TerminateEntity(id) ==
  /\ Running /\ worker = IdleWorker
  /\ subscriptions[id] = "entity"
  /\ UnsubscribeEntity(id)
  /\ UNCHANGED <<broker, defaultTasks, worker, dispatched, addressee, handled,
                 dropped, racedIds, crashed>>

\* A handler may end the lifetime of its own entity (a task with its result).
HandlerEnds(id) ==
  \/ UNCHANGED <<subscriptions, ended>>
  \/ subscriptions[id] = "entity" /\ UnsubscribeEntity(id)
-----------------------------------------------------------------------------
\* The task that invoke queued.
RunInvoke ==
  /\ Running /\ worker = IdleWorker /\ defaultTasks # <<>> /\ Head(defaultTasks).kind = "invoke"
  /\ defaultTasks' = Tail(defaultTasks)
  /\ LET queued == Head(defaultTasks) IN
       Invoke(queued.id, queued.message) /\ HandlerEnds(queued.id)
  /\ UNCHANGED <<broker, worker, dispatched, addressee, racedIds, crashed>>

\* The action that dispatch queued, from its start to the end of its lock: the
\* subscription is looked up, and the first message taken.
RunAction ==
  /\ Running /\ worker = IdleWorker /\ defaultTasks # <<>> /\ Head(defaultTasks).kind = "action"
  /\ defaultTasks' = Tail(defaultTasks)
  /\ LET queued == Head(defaultTasks)  current == broker[queued.id] IN
       IF ~current.live \/ current.entry # queued.entry
       THEN /\ crashed' = "erased entry"
            /\ UNCHANGED <<subscriptions, broker, worker>>
       ELSE /\ subscriptions' = Looked(queued.id)
            /\ broker' = [broker EXCEPT ![queued.id].default =
                            IF @ = <<>> THEN @ ELSE Tail(@)]
            /\ worker' = [pc |-> "handle", id |-> queued.id,
                          subscribed |-> subscriptions[queued.id] = "entity",
                          message |-> IF current.default = <<>> THEN <<>>
                                      ELSE <<Head(current.default)>>]
            /\ UNCHANGED crashed
  /\ UNCHANGED <<dispatched, addressee, handled, dropped, ended, racedIds>>

\* Outside the lock: the message is given to the subscription, if there is one.
RunMessage ==
  /\ Running /\ worker.pc = "handle"
  /\ LET id == worker.id IN
       \/ /\ worker.message # <<>> /\ worker.subscribed
          /\ Invoke(id, Head(worker.message))
          /\ HandlerEnds(id)
       \/ /\ worker.message # <<>> /\ ~worker.subscribed
          /\ GiveUp(Head(worker.message))
          /\ UNCHANGED <<subscriptions, ended>>
       \/ /\ worker.message = <<>>
          /\ UNCHANGED <<handled, dropped, subscriptions, ended>>
  /\ worker' = [worker EXCEPT !.pc = "check"]
  /\ UNCHANGED <<broker, defaultTasks, dispatched, addressee, racedIds, crashed>>

\* (Broken: an emptied entry is left in the broker.)
CheckEmptyKeeps ==
  /\ Running /\ worker.pc = "check"
  /\ worker' = IdleWorker
  /\ UNCHANGED <<subscriptions, broker, defaultTasks, dispatched, addressee, handled,
                 dropped, ended, racedIds, crashed>>

\* default_scheduler_messages.empty(), outside the lock.
CheckEmpty ==
  /\ Running /\ worker.pc = "check"
  /\ worker' = IF broker[worker.id].default = <<>>
               THEN [worker EXCEPT !.pc = "take"] ELSE IdleWorker
  /\ UNCHANGED <<subscriptions, broker, defaultTasks, dispatched, addressee, handled,
                 dropped, ended, racedIds, crashed>>

\* auto t = std::move(broker[id]): both queues of the entry are empty after it.
TakeEntry ==
  /\ Running /\ worker.pc = "take"
  /\ worker' = [pc |-> "erase", id |-> worker.id,
                subscribed |-> worker.subscribed,
                custom |-> broker[worker.id].custom]
  /\ broker' = [broker EXCEPT ![worker.id].default = <<>>,
                              ![worker.id].custom = <<>>]
  /\ UNCHANGED <<subscriptions, defaultTasks, dispatched, addressee, handled, dropped,
                 ended, racedIds, crashed>>

\* broker.erase(id), with whatever is in the entry by now.
EraseEntry ==
  /\ Running /\ worker.pc = "erase"
  /\ broker' = [broker EXCEPT ![worker.id] = NoEntry(@.entry)]
  /\ worker' = IF worker.custom = <<>> THEN IdleWorker
               ELSE [worker EXCEPT !.pc = "flush"]
  /\ UNCHANGED <<subscriptions, defaultTasks, dispatched, addressee, handled, dropped,
                 ended, racedIds, crashed>>

\* One custom message to the subscription that was looked up in the beginning.
FlushCustom ==
  /\ Running /\ worker.pc = "flush"
  /\ IF worker.subscribed
     THEN /\ Invoke(worker.id, Head(worker.custom))
          /\ HandlerEnds(worker.id)
          /\ worker' = IF Len(worker.custom) = 1 THEN IdleWorker
                       ELSE [worker EXCEPT !.custom = Tail(@)]
          /\ UNCHANGED crashed
     ELSE /\ crashed' = "null subscription"
          /\ UNCHANGED <<worker, handled, dropped, subscriptions, ended>>
  /\ UNCHANGED <<broker, defaultTasks, dispatched, addressee, racedIds>>
-----------------------------------------------------------------------------
Worker == \/ RunInvoke \/ RunAction \/ RunMessage \/ CheckEmpty
          \/ TakeEntry \/ EraseEntry \/ FlushCustom

\* The wire has nothing more to read, or the process is gone.
BrokerQuiet ==
  /\ ~Running \/ (dispatched = MaxMessages /\ defaultTasks = <<>> /\ worker = IdleWorker)
  /\ UNCHANGED brokerVars

BrokerNext ==
  \/ Worker
  \/ BrokerQuiet
  \/ \E id \in Ids : Dispatch(id) \/ AdviseEntity(id) \/ TerminateEntity(id)

\* The scheduler's thread runs its queue.
BrokerSpec == BrokerInit /\ [][BrokerNext]_brokerVars /\ WF_brokerVars(Worker)
-----------------------------------------------------------------------------
\* An entity handles its messages in the order in which the wire read them,
\* also those that came before it was subscribed, unless its scheduler waives
\* the order or a dispatch met the unlocked removal of its entry.
InOrderUnlessRaced ==
  \A id \in Ids \ racedIds : SchedulerOf[id] # "intern" =>
    \A i, j \in DOMAIN handled[id] : i < j => handled[id][i] < handled[id][j]

\* Every queued action finds the entry it was queued for, with a message for
\* it: an entry is erased only when no action for it is left, unless a
\* dispatch met the unlocked removal.
ActionPerMessageUnlessRaced ==
  \A id \in Ids \ racedIds :
    /\ Cardinality({i \in DOMAIN defaultTasks : defaultTasks[i].kind = "action"
                                        /\ defaultTasks[i].id = id})
         = Len(broker[id].default)
    /\ \A t \in Range(defaultTasks) : (t.kind = "action" /\ t.id = id) =>
         broker[id].live /\ broker[id].entry = t.entry

\* What was dispatched is handled or given up in the end: no custom message
\* stays behind in an entry that no action will flush.
EventuallySettled ==
  []<>(Running => \A m \in 1 .. dispatched :
         \/ m \in dropped
         \/ m \in Range(handled[addressee[m]])
         \/ addressee[m] \in racedIds)

\* The assertion in the flush ("require equals of wire and default
\* schedulers") asks the subscription for its scheduler: there is one.
FlushHasSubscription == crashed # "null subscription"

\* Messages keep their order because every one that waits has an action that
\* will find it: dispatch and the queued actions agree about the entries.
BrokerCorrect == InOrderUnlessRaced /\ ActionPerMessageUnlessRaced
===============================================================================
