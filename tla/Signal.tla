-------------------------------- MODULE Signal --------------------------------
(***************************************************************************)
(* Signal<T>: one thread fires and subscribes, the lifetimes of the        *)
(* listeners end on any thread.  fire walks the priority listeners and     *)
(* then the others, calls each, moves those that stay together and erases  *)
(* the rest.  A listener's handler may fire the signal again, subscribe    *)
(* another listener, or throw, as far as Effects allows.                   *)
(*                                                                         *)
(* An iterator is an index.  What the standard library leaves undefined,   *)
(* the null of a slot moved from, a slot erased meanwhile, a vector that   *)
(* is reallocated under an iterator or an Event that is destroyed while it *)
(* runs, is a fault, after which nothing is said.                          *)
(***************************************************************************)
EXTENDS Integers, Sequences, SequencesExt

CONSTANTS
  Listeners,   \* the Events, each subscribed once at most
  ListenerLifetimes,
  Eternal,     \* Lifetime::Eternal()
  LifetimeOf,  \* [Listeners -> ListenerLifetimes]
  Null,        \* an empty shared_ptr, no listener
  Effects,     \* what handlers do apart from returning
  MaxFires,    \* bound: calls of fire
  MaxDepth     \* bound: calls of fire inside each other

ASSUME SignalAssumption ==
  /\ Null \notin Listeners /\ LifetimeOf \in [Listeners -> ListenerLifetimes]
  /\ Effects \subseteq {"fire", "advise", "throw"}
  /\ MaxFires \in Nat /\ MaxDepth \in Nat \ {0}

VARIABLES
  queue,            \* priority_listeners and listeners
  state,            \* [Listeners -> Event::state, "none" before advise]
  action,           \* [Listeners -> is Event::action set?]
  lifetimeEnding,   \* [ListenerLifetimes -> how far LifetimeImpl::terminate is]
  lifetimeActions,  \* [ListenerLifetimes -> listeners whose terminate it has to run]
  released,         \* lifetimes whose actions, and references to Events, are gone
  advising,         \* the listener in advise0 and its queue, or Null
  fireCalls,        \* the calls of fire, the innermost last
  fires,            \* number of calls of fire so far
  order,            \* history: listeners in the order of advise
  effects,          \* history: what handlers have done apart from returning
  missed,           \* history: live listeners that a completed fire did not call
  signalFault       \* history: has something undefined happened?

lifeVars == <<lifetimeEnding, lifetimeActions, released>>
signalHist == <<order, missed, effects>>
signalVars == <<queue, state, action, lifeVars, advising, fireCalls, fires, signalHist, signalFault>>

Queues == {"priority", "normal"}

SignalInit ==
  /\ queue = [q \in Queues |-> <<>>]
  /\ state = [e \in Listeners |-> "none"]
  /\ action = [e \in Listeners |-> FALSE]
  /\ lifetimeEnding = [l \in ListenerLifetimes |-> "alive"]
  /\ lifetimeActions = [l \in ListenerLifetimes |-> <<>>]
  /\ released = {}
  /\ advising = Null
  /\ fireCalls = <<>> /\ fires = 0
  /\ order = <<>> /\ missed = {} /\ effects = {} /\ signalFault = FALSE

Alive(e) == lifetimeEnding[LifetimeOf[e]] = "alive"

\* Somebody holds the listener's event_ptr: a queue or its lifetime.
Referenced(e) ==
  \/ \E q \in Queues : Contains(queue[q], e)
  \/ LifetimeOf[e] # Eternal /\ LifetimeOf[e] \notin released /\ Contains(order, e)

TopFire == Last(fireCalls)
SetTop(call) == fireCalls' = Append(Front(fireCalls), call)
Pop == fireCalls' = Front(fireCalls)

\* The thread may do this of its own accord, or a handler does it.
MayDo(effect) ==
  /\ ~signalFault /\ advising = Null
  /\ fireCalls # <<>> => (TopFire.at = "running" /\ effect \in Effects)

Effect(effect) == effects' = IF fireCalls = <<>> THEN effects ELSE effects \cup {effect}

Undefined == signalFault' = TRUE /\ UNCHANGED <<queue, state, action, fireCalls>>
-----------------------------------------------------------------------------
\* advise0: a listener of an ended lifetime is dropped silently.  Which queue
\* it joins depends on a counter that all threads share.
Advise(e, q) ==
  /\ MayDo("advise") /\ state[e] = "none" /\ ~Contains(order, e)
  /\ Alive(e)
  /\ advising' = [listener |-> e, queue |-> q]
  /\ Effect("advise")
  /\ UNCHANGED <<queue, state, action, lifeVars, fireCalls, fires, order, missed, signalFault>>

Push(listeners, e) == Append(listeners, e)

\* add_action and push_back, which may reallocate a vector in use.
AdviseAdd ==
  /\ ~signalFault /\ advising # Null
  /\ LET e == advising.listener
         q == advising.queue
     IN  /\ Alive(e)
         /\ state' = [state EXCEPT ![e] = "ACTIVE"]
         /\ action' = [action EXCEPT ![e] = TRUE]
         /\ lifetimeActions' = IF LifetimeOf[e] = Eternal THEN lifetimeActions
                       ELSE [lifetimeActions EXCEPT ![LifetimeOf[e]] = Append(@, e)]
         /\ queue' = [queue EXCEPT ![q] = Push(@, e)]
         /\ order' = Append(order, e)
         /\ signalFault' \in {FALSE} \cup {\E i \in DOMAIN fireCalls : fireCalls[i].queue = q}
  /\ advising' = Null
  /\ UNCHANGED <<lifetimeEnding, released, fireCalls, fires, missed, effects>>

\* The handler throws: the action of a listener that ended meanwhile is
\* released, and the exception leaves fire without the erasure.
HandlerThrows ==
  LET e == TopFire.current
  IN  IF ~Referenced(e) THEN Undefined
      ELSE /\ state' = [state EXCEPT ![e] = IF @ = "FIRING" THEN "ACTIVE" ELSE @]
           /\ action' = [action EXCEPT ![e] = @ /\ state[e] = "FIRING"]
           /\ Pop /\ UNCHANGED <<queue, signalFault>>

\* add_action throws when the lifetime has ended since, and so does a handler
\* that subscribes.
AdviseThrows ==
  /\ ~signalFault /\ advising # Null /\ ~Alive(advising.listener)
  /\ advising' = Null
  /\ IF fireCalls = <<>> THEN UNCHANGED <<queue, state, action, fireCalls, signalFault>>
     ELSE HandlerThrows
  /\ Effect("throw")
  /\ UNCHANGED <<lifeVars, fires, order, missed>>
-----------------------------------------------------------------------------
Walk(q, heard, due) ==
  [queue |-> q, it |-> 1, alive |-> 1, end |-> Len(queue[q]), at |-> "next",
   current |-> Null, heard |-> heard, due |-> due]

SubscribedTo == {e \in Listeners : Contains(order, e) /\ Alive(e)}

\* A call of fire begins with the priority listeners.
Fire ==
  /\ MayDo("fire") /\ fires < MaxFires /\ Len(fireCalls) < MaxDepth
  /\ fireCalls' = Append(fireCalls, Walk("priority", <<>>, SubscribedTo))
  /\ fires' = fires + 1
  /\ Effect("fire")
  /\ UNCHANGED <<queue, state, action, lifeVars, advising, order, missed, signalFault>>

Walking(at) == ~signalFault /\ advising = Null /\ fireCalls # <<>> /\ TopFire.at = at

Skip(call) == [call EXCEPT !.it = @ + 1, !.at = "next", !.current = Null]

\* Event::operator() asks the lifetime.
CheckLifetime ==
  /\ Walking("next") /\ TopFire.it <= TopFire.end
  /\ LET listeners == queue[TopFire.queue]
     IN  IF TopFire.it > Len(listeners) \/ listeners[TopFire.it] = Null THEN Undefined
         ELSE /\ SetTop(IF Alive(listeners[TopFire.it])
                        THEN [TopFire EXCEPT !.at = "checked", !.current = listeners[TopFire.it]]
                        ELSE Skip(TopFire))
              /\ UNCHANGED <<queue, state, action, signalFault>>
  /\ UNCHANGED <<lifeVars, advising, fires, signalHist>>

CallCurrent ==
  /\ state' = [state EXCEPT ![TopFire.current] = "FIRING"]
  /\ SetTop([TopFire EXCEPT !.at = "running", !.heard = Append(@, TopFire.current)])

\* It calls the action if state was ACTIVE, and else the listener is erased.
TryFire ==
  /\ Walking("checked")
  /\ IF state[TopFire.current] = "ACTIVE" THEN CallCurrent
     ELSE SetTop(Skip(TopFire)) /\ UNCHANGED state
  /\ UNCHANGED <<queue, action, lifeVars, advising, fires, signalHist, signalFault>>

\* (Broken: a listener that stays is not moved to its new place.)
MovedTogetherNot(call, listeners) == listeners

\* *alive_it = std::move(*it)
MovedTogether(call, listeners) ==
  IF call.alive = call.it THEN listeners
  ELSE [listeners EXCEPT ![call.alive] = listeners[call.it], ![call.it] = Null]

\* state.compare_exchange_strong(FIRING, ACTIVE) succeeds.
Stays(e) == state[e] = "FIRING"

\* The handler returns, and the listener is moved up or left for the erasure.
ReturnHandler ==
  /\ Walking("running")
  /\ LET e == TopFire.current
     IN  IF \/ ~Referenced(e)
            \/ Stays(e) /\ TopFire.alive # TopFire.it /\ TopFire.it > Len(queue[TopFire.queue])
         THEN Undefined
         ELSE /\ IF Stays(e)
                 THEN /\ state' = [state EXCEPT ![e] = "ACTIVE"]
                      /\ queue' = [queue EXCEPT ![TopFire.queue] = MovedTogether(TopFire, @)]
                      /\ SetTop([Skip(TopFire) EXCEPT !.alive = @ + 1])
                 ELSE SetTop(Skip(TopFire)) /\ UNCHANGED <<state, queue>>
              /\ UNCHANGED <<action, signalFault>>
  /\ UNCHANGED <<lifeVars, advising, fires, signalHist>>

ThrowHandler ==
  /\ Walking("running") /\ "throw" \in Effects
  /\ HandlerThrows
  /\ Effect("throw")
  /\ UNCHANGED <<lifeVars, advising, fires, order, missed>>

Uncalled(call) == {e \in call.due : Alive(e) /\ ~Contains(call.heard, e)}

\* queue.erase(alive_it, end); then the other queue, or fire returns.
EndWalk ==
  /\ Walking("next") /\ TopFire.it > TopFire.end
  /\ LET listeners == queue[TopFire.queue]
         erased == SubSeq(listeners, 1, TopFire.alive - 1)
                   \o SubSeq(listeners, TopFire.end + 1, Len(listeners))
     IN  IF TopFire.alive <= TopFire.end /\ TopFire.end > Len(listeners)
         THEN Undefined /\ UNCHANGED missed
         ELSE /\ queue' = IF TopFire.alive > TopFire.end THEN queue
                          ELSE [queue EXCEPT ![TopFire.queue] = erased]
              /\ IF TopFire.queue = "priority"
                 THEN SetTop(Walk("normal", TopFire.heard, TopFire.due)) /\ UNCHANGED missed
                 ELSE /\ Pop
                      /\ missed' = missed \cup Uncalled(TopFire)
              /\ UNCHANGED <<state, action, signalFault>>
  /\ UNCHANGED <<lifeVars, advising, fires, order, effects>>
-----------------------------------------------------------------------------
\* LifetimeImpl::terminate sets its flag, runs Event::terminate of each
\* listener in reverse order, and lets its actions go.
EndLifetime(l) ==
  /\ ~signalFault /\ l # Eternal /\ lifetimeEnding[l] = "alive"
  /\ lifetimeEnding' = [lifetimeEnding EXCEPT ![l] = "running"]
  /\ UNCHANGED <<queue, state, action, lifetimeActions, released, advising, fireCalls, fires,
                 signalHist, signalFault>>

IsTerminated(e) == action' = [action EXCEPT ![e] = @ /\ state[e] # "ACTIVE"]

TerminateLast(l) ==
  /\ ~signalFault /\ lifetimeEnding[l] = "running" /\ lifetimeActions[l] # <<>>
  /\ IsTerminated(Last(lifetimeActions[l]))
  /\ state' = [state EXCEPT ![Last(lifetimeActions[l])] = "TERMINATED"]
  /\ lifetimeActions' = [lifetimeActions EXCEPT ![l] = Front(@)]
  /\ UNCHANGED <<queue, lifetimeEnding, released, advising, fireCalls, fires, signalHist, signalFault>>

EndedLifetime(l) ==
  /\ ~signalFault /\ lifetimeEnding[l] = "running" /\ lifetimeActions[l] = <<>>
  /\ lifetimeEnding' = [lifetimeEnding EXCEPT ![l] = "ended"]
  /\ released' = released \cup {l}
  /\ UNCHANGED <<queue, state, action, lifetimeActions, advising, fireCalls, fires, signalHist, signalFault>>

SignalNext ==
  \/ \E e \in Listeners, q \in Queues : Advise(e, q)
  \/ AdviseAdd \/ AdviseThrows
  \/ Fire \/ CheckLifetime \/ TryFire \/ ReturnHandler \/ ThrowHandler \/ EndWalk
  \/ \E l \in ListenerLifetimes : EndLifetime(l) \/ TerminateLast(l) \/ EndedLifetime(l)

SignalSpec == SignalInit /\ [][SignalNext]_signalVars
-----------------------------------------------------------------------------
\* The handler is called every time an event occurs (interfaces.h): a fire that
\* comes to its end, or to a fault, called every listener subscribed before it,
\* unless the listener's lifetime has ended.
CalledEveryTime ==
  missed = {} /\ (signalFault => \A i \in DOMAIN fireCalls : Uncalled(fireCalls[i]) = {})

\* As long as no handler fires the signal, subscribes to it or throws, this is so.
CalledUnlessDisturbed == effects = {} => CalledEveryTime

\* The FIRING flag keeps a running action from being destroyed, whoever ends
\* its lifetime meanwhile (Event::operator(), Event::terminate).
KeptWhileRunning ==
  \A i \in DOMAIN fireCalls :
    fireCalls[i].at = "running" =>
      action[fireCalls[i].current] /\ Referenced(fireCalls[i].current)

\* As long as no handler fires the signal, that is so.
KeptUnlessReentered == "fire" \notin effects => KeptWhileRunning

\* When nobody fires, and no handler has thrown, an ended lifetime leaves no
\* action of its listeners behind, whether it ended before, during or after the
\* call of the handler (Event::terminate, the erasure of fire_impl).
ReleasedUnlessThrown ==
  (fireCalls = <<>> /\ ~signalFault /\ "throw" \notin effects) =>
    \A e \in Listeners :
      LifetimeOf[e] \in released => ~(action[e] /\ Referenced(e))

\* A listener that is FIRING is running: however its handler left, by returning
\* or by throwing, itself or through a fire it made, it can be called again.
NeverStuckFiring ==
  ~signalFault => \A e \in Listeners :
    state[e] = "FIRING" =>
      \E i \in DOMAIN fireCalls : fireCalls[i].at = "running" /\ fireCalls[i].current = e

Place(e) == CHOOSE i \in DOMAIN order : order[i] = e

\* A fire calls nobody twice, and of two listeners of one queue the one that
\* was subscribed first comes first: moving listeners together keeps order.
InAdviseOrder ==
  \A i \in DOMAIN fireCalls, q \in Queues :
    LET heard == fireCalls[i].heard
    IN  \A a, b \in DOMAIN heard :
          a < b /\ Contains(queue[q], heard[a]) /\ Contains(queue[q], heard[b])
            => Place(heard[a]) < Place(heard[b])

\* As long as no handler fires the signal, that is so: a fire inside another
\* shifts the listeners under the places the outer one has taken.
OrderUnlessReentered == "fire" \notin effects => InAdviseOrder

\* What fire owes its listeners, each part until the effect that is known to
\* break it: called while they live, in order, with an action
\* that lasts for the call and not beyond the lifetime.
SignalCorrect ==
  CalledUnlessDisturbed /\ KeptUnlessReentered /\ ReleasedUnlessThrown
    /\ NeverStuckFiring /\ OrderUnlessReentered
===============================================================================
