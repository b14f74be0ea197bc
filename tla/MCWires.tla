-------------------------------- MODULE MCWires --------------------------------
(* What goes on over socket wires, a behaviour being about one thing: the     *)
(* life of a wire, the flow of packages and their acknowledgements between    *)
(* two, the heartbeat of two, or three messages of which the second and the   *)
(* third do not fit into one package.                                         *)
EXTENDS WireLife, Heartbeat, WireFlow, MessageStream

MCBodyUnits == <<1, 4, 2>>

VARIABLE about
wireVars == <<lifeVars, beatVars, flowVars, streamVars, about>>

MCInit ==
  /\ about \in {"life", "heartbeat", "flow", "stream"}
  /\ LifeInit /\ BeatInit /\ FlowInit /\ StreamInit
  /\ about # "life" => kind = "client"
  /\ about # "heartbeat" => last = CHOOSE w \in Wires : TRUE
  /\ about # "flow" => Idle

AboutLife == about = "life" /\ UNCHANGED <<beatVars, flowVars, streamVars, about>>
AboutHeartbeat == about = "heartbeat" /\ UNCHANGED <<lifeVars, flowVars, streamVars, about>>
AboutFlow == about = "flow" /\ UNCHANGED <<lifeVars, beatVars, streamVars, about>>
AboutStream == about = "stream" /\ UNCHANGED <<lifeVars, beatVars, flowVars, about>>

MCNext ==
  \/ AboutLife /\ LifeNext
  \/ AboutHeartbeat /\ BeatNext
  \/ AboutFlow /\ FlowNext
  \/ AboutStream /\ StreamNext

\* See LifeFairness and FlowFairness.
MCFairness ==
  /\ WF_wireVars(AboutLife /\ ThreadGoesOn) /\ WF_wireVars(AboutLife /\ Resent /\ Cut)
  /\ SF_wireVars(AboutLife /\ Received /\ Cut)
  /\ WF_wireVars(AboutLife /\ BeatGoesOn /\ Cut) /\ WF_wireVars(AboutLife /\ BeatEnds)
  /\ WF_wireVars(AboutLife /\ ProcessEnds /\ Cut) /\ SF_wireVars(AboutLife /\ CloserGoesOn)
  /\ \A e \in Ends : WF_wireVars(AboutFlow /\ Sending(e)) /\ WF_wireVars(AboutFlow /\ Receiving(e))

MCSpec == MCInit /\ [][MCNext]_wireVars /\ MCFairness
===============================================================================
