------------------------------- MODULE MCRequests -------------------------------
(* What Rider asks of an editor, a behaviour being about scripts or builds:   *)
(* one single script, with a budget, and one batch, of none or two scripts,   *)
(* with or without one; all those with a budget may also never return.  Builds *)
(* by live coding, with uses of the button beside them.                       *)
EXTENDS PythonExecutor, LiveCoding

VARIABLE asking  \* "scripts" or "builds"
requestVars == <<vars, codingVars, asking>>

Single == CHOOSE q \in Requests : TRUE
MCInit ==
  /\ Init /\ CodingInit
  /\ asking \in {"scripts", "builds"}
  /\ \A q \in Requests :
       /\ asked[q].isolated <=> q = Single
       /\ asked[q].scripts < 2 => (asked[q].budget <=> asked[q].isolated /\ asking = "scripts")
       /\ asking = "builds" => asked[q].scripts < 2
       /\ asked[q].scripts > 0 /\ asked[q].budget => asked[q].endless = asked[Single].endless

AboutScripts == asking = "scripts" /\ UNCHANGED <<codingVars, asking>>
AboutBuilds == asking = "builds" /\ UNCHANGED <<vars, asking>>

MCNext ==
  \/ AboutScripts /\ Next
  \/ AboutBuilds /\ CodingNext

\* See Fairness and CodingFairness.
MCFairness ==
  /\ WF_requestVars(AboutScripts /\ Game) /\ WF_requestVars(AboutScripts /\ Watchdog)
  /\ SF_requestVars(AboutScripts /\ AbortDelivered)
  /\ \A q \in Requests : WF_requestVars(AboutScripts /\ Expire(q))
  /\ WF_requestVars(AboutBuilds /\ TriggerHotReload)
  /\ WF_requestVars(AboutBuilds /\ CompileEnds)
  /\ WF_requestVars(AboutBuilds /\ Tick)
  /\ WF_requestVars(AboutBuilds /\ (ReceiveChange \/ Complete))

MCSpec == MCInit /\ [][MCNext]_requestVars /\ MCFairness
=================================================================================
