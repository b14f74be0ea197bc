------------------------------- MODULE Lifetime -------------------------------
(***************************************************************************)
(* LifetimeImpl: lifetimes nested in each other, used by several threads.  *)
(* terminate sets the flag, takes the actions under the lock and runs them *)
(* in reverse order without it; the nested lifetimes end by an action of   *)
(* their parent, and each takes that action off its parent, without the    *)
(* parent's lock, when it ends itself.                                     *)
(*                                                                         *)
(* A thread has a stack of calls; the innermost is `inside' while it works *)
(* on the map `actions' of a lifetime.  Two threads in one map at once are *)
(* a fault, after which nothing is said.                                   *)
(***************************************************************************)
EXTENDS Integers, Sequences, SequencesExt, FiniteSets

CONSTANTS
  LifetimeThreads,
  Lifetimes,
  Root,     \* the lifetime that is there from the start
  Parent,   \* [Lifetimes \ {Root} -> Lifetimes]: where it will be nested
  Actions,  \* what users add
  Owner     \* [Actions -> Lifetimes]: to which lifetime

ASSUME LifetimeAssumption ==
  /\ Root \in Lifetimes
  /\ Parent \in [Lifetimes \ {Root} -> Lifetimes]
  /\ Owner \in [Actions -> Lifetimes]

VARIABLES
  terminated,   \* [Lifetimes -> LifetimeImpl::terminated]
  actions,      \* [Lifetimes -> LifetimeImpl::actions, by increasing id]
  calls,        \* [LifetimeThreads -> the thread's calls, the innermost last]
  nested,       \* lifetimes given to create_nested so far
  given,        \* history: actions given to add_action or bracket
  terminating,  \* bound: each thread terminates a lifetime once at most
  opened,       \* history: actions whose opening part has run
  accepted,     \* history: what add_action accepted, in order
  ran,          \* history: actions that have run, in order
  fault         \* history: have two threads been in one map?

histVars == <<nested, given, terminating, opened>>
lifetimeVars == <<terminated, actions, calls, histVars, accepted, ran, fault>>

\* What a map holds: an action of a user, the end of a nested lifetime, and
\* how a nested lifetime takes that off its parent.
User(a) == [kind |-> "user", of |-> a]
EndOf(l) == [kind |-> "end", of |-> l]
Detach(l) == [kind |-> "detach", of |-> l]
AddCall(l, item) == [do |-> "add", on |-> l, item |-> item, inside |-> FALSE]
EraseCall(l, item) == [do |-> "erase", on |-> l, item |-> item, inside |-> FALSE]
TakeCall(l) == [do |-> "take", on |-> l, inside |-> FALSE]
RunCall(l, left) == [do |-> "run", on |-> l, left |-> left, inside |-> FALSE]

LifetimeInit ==
  /\ terminated = [l \in Lifetimes |-> FALSE]
  /\ actions = [l \in Lifetimes |-> <<>>]
  /\ calls = [t \in LifetimeThreads |-> <<>>]
  /\ nested = {} /\ given = {} /\ terminating = {} /\ opened = {}
  /\ accepted = <<>> /\ ran = <<>> /\ fault = FALSE

Free(t) == ~fault /\ calls[t] = <<>>
Doing(t, what) == ~fault /\ calls[t] # <<>> /\ Last(calls[t]).do = what
Top(t) == Last(calls[t])
Call(t, call) == calls' = [calls EXCEPT ![t] = Append(@, call)]
Become(t, call) == calls' = [calls EXCEPT ![t] = Append(Front(@), call)]
Leave(t) == calls' = [calls EXCEPT ![t] = Front(@)]

Exists(l) == l = Root \/ \E i \in DOMAIN accepted : accepted[i] = Detach(l)
-----------------------------------------------------------------------------
\* add_action, and bracket, which runs its opening part first unless the
\* lifetime is terminated.
AddAction(t, a) ==
  /\ Free(t) /\ a \notin given /\ Exists(Owner[a])
  /\ given' = given \cup {a}
  /\ Call(t, AddCall(Owner[a], User(a)))
  /\ UNCHANGED <<terminated, actions, nested, terminating, opened, accepted, ran, fault>>

Bracket(t, a) ==
  /\ Free(t) /\ a \notin given /\ Exists(Owner[a])
  /\ ~terminated[Owner[a]]
  /\ given' = given \cup {a} /\ opened' = opened \cup {a}
  /\ Call(t, AddCall(Owner[a], User(a)))
  /\ UNCHANGED <<terminated, actions, nested, terminating, accepted, ran, fault>>

\* create_nested: attach_nested of a new lifetime.
CreateNested(t, l) ==
  /\ Free(t) /\ l # Root /\ l \notin nested /\ Exists(Parent[l])
  /\ nested' = nested \cup {l}
  /\ Call(t, AddCall(Parent[l], EndOf(l)))
  /\ UNCHANGED <<terminated, actions, given, terminating, opened, accepted, ran, fault>>

\* terminate by its owner.
Terminate(t, l) ==
  /\ Free(t) /\ Exists(l) /\ <<t, l>> \notin terminating
  /\ terminating' = terminating \cup {<<t, l>>}
  /\ terminated' = [terminated EXCEPT ![l] = TRUE]
  /\ Call(t, TakeCall(l))
  /\ UNCHANGED <<actions, nested, given, opened, accepted, ran, fault>>
-----------------------------------------------------------------------------
Inside(t, l) == calls[t] # <<>> /\ Top(t).inside /\ Top(t).on = l

\* add_action and terminate lock the map, the erasure does not.
Locked(call) == call.do # "erase"

\* The thread gets at the map, with its lock unless it erases.
Enter(t) ==
  /\ ~fault /\ calls[t] # <<>> /\ Top(t).do # "run" /\ ~Top(t).inside
  /\ Locked(Top(t)) => \A u \in LifetimeThreads : Inside(u, Top(t).on) => ~Locked(Top(u))
  /\ Become(t, [Top(t) EXCEPT !.inside = TRUE])
  /\ fault' = \E u \in LifetimeThreads : Inside(u, Top(t).on)
  /\ UNCHANGED <<terminated, actions, histVars, accepted, ran>>

\* (Broken: whether the lifetime is terminated is not asked under the lock.)
RefusesNothing(t) == FALSE

\* add_action throws for a terminated lifetime.
Refuses(t) == terminated[Top(t).on]

AddRefused(t) ==
  /\ Doing(t, "add") /\ Top(t).inside /\ Refuses(t)
  /\ Leave(t)
  /\ UNCHANGED <<terminated, actions, histVars, accepted, ran, fault>>

\* actions[action_id_in_map] = action; attach_nested goes on with the nested
\* lifetime.
Add(t) ==
  /\ Doing(t, "add") /\ Top(t).inside /\ ~Refuses(t)
  /\ LET item == Top(t).item
     IN  /\ actions' = [actions EXCEPT ![Top(t).on] = Append(@, item)]
         /\ accepted' = Append(accepted, item)
         /\ IF item.kind = "end" THEN Become(t, AddCall(item.of, Detach(item.of)))
            ELSE Leave(t)
  /\ UNCHANGED <<terminated, histVars, ran, fault>>

\* actions_copy = std::move(actions)
Take(t) ==
  /\ Doing(t, "take") /\ Top(t).inside
  /\ Become(t, RunCall(Top(t).on, actions[Top(t).on]))
  /\ actions' = [actions EXCEPT ![Top(t).on] = <<>>]
  /\ UNCHANGED <<terminated, histVars, accepted, ran, fault>>

\* The items of a map but one.
Without(left, item) ==
  IF Contains(left, item)
    THEN RemoveAt(left, CHOOSE k \in 1 .. Len(left) : left[k] = item)
    ELSE left

Erase(t) ==
  /\ Doing(t, "erase") /\ Top(t).inside
  /\ actions' = [actions EXCEPT ![Top(t).on] = Without(@, Top(t).item)]
  /\ Leave(t)
  /\ UNCHANGED <<terminated, histVars, accepted, ran, fault>>

\* (Broken: the actions run in the order they were added.)
FirstLeft(left) == Head(left)

\* rbegin
NextLeft(left) == Last(left)

\* it->second(): the next action of a lifetime that ends.
RunNext(t) ==
  /\ Doing(t, "run") /\ Top(t).left # <<>>
  /\ LET item == NextLeft(Top(t).left)
         rest == RunCall(Top(t).on, Without(Top(t).left, item))
         CallThen(call) == calls' = [calls EXCEPT ![t] = Front(@) \o <<rest, call>>]
     IN  \/ /\ item.kind = "user"
            /\ ran' = Append(ran, item.of) /\ Become(t, rest)
            /\ UNCHANGED terminated
         \/ /\ item.kind = "end"
            /\ terminated' = [terminated EXCEPT ![item.of] = TRUE]
            /\ CallThen(TakeCall(item.of)) /\ UNCHANGED ran
         \/ /\ item.kind = "detach"
            /\ CallThen(EraseCall(Parent[item.of], EndOf(item.of)))
            /\ UNCHANGED <<terminated, ran>>
  /\ UNCHANGED <<actions, histVars, accepted, fault>>

Finish(t) ==
  /\ Doing(t, "run") /\ Top(t).left = <<>>
  /\ Leave(t)
  /\ UNCHANGED <<terminated, actions, histVars, accepted, ran, fault>>

Step(t) ==
  Enter(t) \/ AddRefused(t) \/ Add(t) \/ Take(t) \/ Erase(t) \/ RunNext(t) \/ Finish(t)

LifetimeNext ==
  \E t \in LifetimeThreads :
    \/ Step(t)
    \/ \E a \in Actions : AddAction(t, a) \/ Bracket(t, a)
    \/ \E l \in Lifetimes : CreateNested(t, l) \/ Terminate(t, l)

LifetimeSpec == LifetimeInit /\ [][LifetimeNext]_lifetimeVars

\* The threads go on with what they have begun.
LifetimeFairSpec == LifetimeSpec /\ \A t \in LifetimeThreads : WF_lifetimeVars(Step(t))
-----------------------------------------------------------------------------
\* However many threads terminate a lifetime, directly or by its parent, an
\* action runs once at most, and only if its lifetime is terminated.
RunsOnce ==
  /\ IsInjective(ran)
  /\ \A i \in DOMAIN ran : terminated[Owner[ran[i]]]

\* The thread is about to run the item.
WillRun(t, item) ==
  \E i \in DOMAIN calls[t] :
    calls[t][i].do = "run" /\ Contains(calls[t][i].left, item)

\* Some thread has still to take the actions of l.
WillTake(l) ==
  \E t \in LifetimeThreads : \E i \in DOMAIN calls[t] :
    calls[t][i].do = "take" /\ calls[t][i].on = l

\* What add_action has accepted is not forgotten: it is in the map, with somebody
\* who will take it if the lifetime is terminated, or about to run, or it ran.
NothingForgotten ==
  \A i \in DOMAIN accepted : accepted[i].kind = "user" =>
    LET a == accepted[i].of
        l == Owner[a]
    IN  \/ Contains(ran, a)
        \/ \E t \in LifetimeThreads : WillRun(t, accepted[i])
        \/ Contains(actions[l], accepted[i]) /\ (terminated[l] => WillTake(l))

\* Actions run in reverse order: when one has run, so have all that were added
\* to its lifetime later, and all of a lifetime nested later, whoever else uses
\* or terminates the outer one; unless the nested one is terminated on its own,
\* when terminate of the outer one may find it taken and not yet done.
NestedBeforeOuter ==
  \A i, j \in DOMAIN accepted :
    (i < j /\ accepted[i].kind = "user" /\ Contains(ran, accepted[i].of)) =>
      LET l == Owner[accepted[i].of]
      IN  /\ (accepted[j].kind = "user" /\ Owner[accepted[j].of] = l)
               => Contains(ran, accepted[j].of)
          /\ (accepted[j].kind = "end" /\ Parent[accepted[j].of] = l
                /\ \A t \in LifetimeThreads : <<t, accepted[j].of>> \notin terminating)
               => \A a \in Actions :
                    (Owner[a] = accepted[j].of /\ Contains(accepted, User(a))) => Contains(ran, a)

\* What a terminated lifetime had accepted runs, unless a fault comes first.
EventuallyRuns ==
  []<>(fault \/ \A a \in Actions :
         Contains(accepted, User(a)) /\ terminated[Owner[a]] => Contains(ran, a))

\* What was handed to a lifetime happens, once and in its order.
LifetimeCorrect == RunsOnce /\ NothingForgotten /\ NestedBeforeOuter
===============================================================================
