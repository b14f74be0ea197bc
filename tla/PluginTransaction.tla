-------------------------- MODULE PluginTransaction --------------------------
(***************************************************************************)
(* What an installation of RiderLink promises: the folders of the plugin   *)
(* change all at once and as it was asked, or those that held a plugin do  *)
(* not change at all.  Between two installations the user may delete the   *)
(* plugin.  Nothing is promised once a step has thrown, or while somebody  *)
(* else works on the same folders.                                         *)
(***************************************************************************)
CONSTANTS Folders, Contents, None, New, Partial

VARIABLES
  content,   \* [Folders -> Contents]: what the user's projects see
  asked,     \* {the folders chosen}, while an installation is running
  broken     \* has something happened that the installer does not undo?

txVars == <<content, asked, broken>>

Init == content \in [Folders -> Contents] /\ asked = {} /\ broken = FALSE

\* An installation is asked for; no folder is chosen if there is no project.
Begin ==
  /\ asked = {} /\ \E chosen \in SUBSET Folders : asked' = {chosen}
  /\ UNCHANGED <<content, broken>>

\* The chosen folders get the new plugin, all others lose theirs.
Commit ==
  /\ \E chosen \in asked :
       content' = [f \in Folders |-> IF f \in chosen THEN New ELSE None]
  /\ asked' = {} /\ UNCHANGED broken

\* A failed installation gives every folder its plugin back.
Abort ==
  /\ asked # {} /\ asked' = {}
  /\ content' \in [Folders -> Contents]
  /\ \A f \in Folders : content[f] # None => content'[f] = content[f]
  /\ UNCHANGED broken

\* DeletePlugin between two installations, as far as it gets.
Uninstall ==
  /\ asked = {}
  /\ content' \in [Folders -> Contents]
  /\ \A f \in Folders : content'[f] \in {content[f], None} \/ (content[f] # None /\ content'[f] = Partial)
  /\ UNCHANGED <<asked, broken>>

Break ==
  /\ broken' /\ content' \in [Folders -> Contents]
  /\ asked' \in SUBSET SUBSET Folders

Next == (~broken /\ (Begin \/ Commit \/ Abort \/ Uninstall)) \/ Break

Spec == Init /\ [][Next]_txVars
=============================================================================
