-------------------------------- MODULE MCPlay ---------------------------------
(* Play control with two connections, a behaviour being about one thing: the  *)
(* game and its buttons, or the settings, which both ends change.  One of the *)
(* settings has more clients than the packing has bits for.                   *)
EXTENDS PlayControl

VARIABLE about
playingVars == <<playVars, about>>

MCSettings == {[clients |-> 1, spawn |-> 0, dedicated |-> 0],
               [clients |-> 5, spawn |-> 0, dedicated |-> 1]}

MCInit ==
  /\ about \in {"game", "settings"} /\ PlayInit
  /\ IF about = "game" THEN settings.clients = 1 ELSE playing = "Idle"

EditsSettings ==
  \E field \in DOMAIN NextWrite, chosen \in Settings : EditSettings(field, chosen[field])
ChoosesMode == \E m \in MenuModes(rider.mode) : ChooseMode(m)

\* The game's state, the requests and the connections.
GameStep == PlayNext /\ ~EditsSettings /\ ~ChoosesMode
\* The settings and the connections: two changes in the first, or one with two.
SettingsStep ==
  /\ PlayNext /\ playing' = playing /\ rider'.id = rider.id /\ ~LogBegins
  /\ connections' + user' <= 3

MCNext ==
  \/ about = "game" /\ GameStep /\ UNCHANGED about
  \/ about = "settings" /\ SettingsStep /\ UNCHANGED about

MCSpec == MCInit /\ [][MCNext]_playingVars /\ PlayFairness
===============================================================================
