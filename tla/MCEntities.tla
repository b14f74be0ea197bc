------------------------------ MODULE MCEntities -------------------------------
(* The reactive entities and what they rest on, a behaviour being about one   *)
(* of these: a property, a map, a list and a set that both ends change, calls *)
(* of the other end and calls of this one; a broker that hands messages to a  *)
(* property, a call and an intern root; a signal of which two listeners share *)
(* a lifetime and the third is eternal; a lifetime and one nested in it, with *)
(* an action each, and two threads.                                           *)
EXTENDS RdProperty, RdMap, RdList, RdSet, RdCall, RdEndpoint, MessageBroker, Signal, Lifetime

CONSTANTS idProp, idCall, idRoot, x1, x2, x3, eternal, short, outer, middle, act1, act2

MCIds == {idProp, idCall, idRoot}
MCSchedulerOf == (idProp :> "default") @@ (idCall :> "sync") @@ (idRoot :> "intern")
MCListeners == {x1, x2, x3}
MCListenerLifetimes == {eternal, short}
MCLifetimeOf == [e \in MCListeners |-> IF e = x3 THEN eternal ELSE short]
MCEffects == {"fire", "advise", "throw"}
MCLifetimes == {outer, middle}
MCParent == [l \in {middle} |-> outer]
MCActions == {act1, act2}
MCOwner == [u \in MCActions |-> IF u = act1 THEN outer ELSE middle]

VARIABLE entity  \* what this behaviour is about

entityVars == <<vars, mapVars, listVars, setVars, callVars, endpointVars>>
allVars == <<entityVars, brokerVars, signalVars, lifetimeVars, entity>>

MCInit ==
  /\ Init /\ MapInit /\ ListInit /\ SetInit /\ CallInit /\ EndpointInit
  /\ BrokerInit /\ SignalInit /\ LifetimeInit
  /\ entity \in {"property", "map", "list", "set", "call", "endpoint",
                 "broker", "signal", "lifetime"}

\* The entities share nothing but the two ends; so much for all the others.
CoreIdle == UNCHANGED <<brokerVars, signalVars, lifetimeVars, entity>>

AboutProperty == entity = "property" /\ CoreIdle
  /\ UNCHANGED <<mapVars, listVars, setVars, callVars, endpointVars>>
AboutMap == entity = "map" /\ CoreIdle
  /\ UNCHANGED <<vars, listVars, setVars, callVars, endpointVars>>
AboutList == entity = "list" /\ CoreIdle
  /\ UNCHANGED <<vars, mapVars, setVars, callVars, endpointVars>>
AboutSet == entity = "set" /\ CoreIdle
  /\ UNCHANGED <<vars, mapVars, listVars, callVars, endpointVars>>
AboutCall == entity = "call" /\ CoreIdle
  /\ UNCHANGED <<vars, mapVars, listVars, setVars, endpointVars>>
AboutEndpoint == entity = "endpoint" /\ CoreIdle
  /\ UNCHANGED <<vars, mapVars, listVars, setVars, callVars>>
AboutBroker == entity = "broker" /\ UNCHANGED <<entityVars, signalVars, lifetimeVars, entity>>
AboutSignal == entity = "signal" /\ UNCHANGED <<entityVars, brokerVars, lifetimeVars, entity>>
AboutLifetime == entity = "lifetime" /\ UNCHANGED <<entityVars, brokerVars, signalVars, entity>>

MCNext ==
  \/ AboutProperty /\ Next
  \/ AboutMap /\ MapNext
  \/ AboutList /\ ListNext
  \/ AboutSet /\ SetNext
  \/ AboutCall /\ CallNext
  \/ AboutEndpoint /\ EndpointNext
  \/ AboutBroker /\ BrokerNext
  \/ AboutSignal /\ SignalNext
  \/ AboutLifetime /\ LifetimeNext

\* The default scheduler goes on, the thread that completed a task calls its
\* listeners, and a thread goes on with what it does to a lifetime.
MCFairness ==
  /\ WF_allVars(AboutEndpoint /\ (Attach \/ Attached))
  /\ \A c \in Calls : WF_allVars(AboutEndpoint /\ Completed(c))
  /\ WF_allVars(AboutBroker /\ Worker)
  /\ \A t \in LifetimeThreads : WF_allVars(AboutLifetime /\ Step(t))

MCSpec == MCInit /\ [][MCNext]_allVars /\ MCFairness
===============================================================================
