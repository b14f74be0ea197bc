-------------------------- MODULE ProjectsRefresher --------------------------
(***************************************************************************)
(* UnrealProjectsRefresher: a refresh of the project files tries one tool  *)
(* after another, each under the lock of UbtLock, until one succeeds.  It  *)
(* begins when the user asks for it and after every installation.          *)
(***************************************************************************)
EXTENDS UbtLock, Naturals

CONSTANT Refreshes

VARIABLES
  tool,            \* [Refreshes -> 0 idle, 1..4 at which tool, or an outcome]
  installedTools,  \* the tools of this engine that exist
  waiting,         \* refreshes that wait for the lock with a tool they chose
  hung,            \* refreshes whose UnrealVersionSelector does not exit
  stopped,         \* refreshes the user has cancelled
  uvsTimedOut,     \* ourProjectsWhereUvsTimedOut: one project
  refreshInProgress

refresherVars == <<tool, installedTools, waiting, hung, stopped, uvsTimedOut, refreshInProgress>>

\* GenerateProjectFiles, the bundled and the system's UnrealVersionSelector, UBT.
Tools == 1..4
Uvs == {2, 3}
Refreshing == {t \in Refreshes : tool[t] \in Tools}

RefresherInit ==
  /\ tool \in [Refreshes -> {0, 5}]   \* bound: the second takes no part
  /\ installedTools \in {{1, 4}, {2, 3}}
  /\ waiting = {} /\ hung = {} /\ stopped = {} /\ uvsTimedOut = FALSE /\ refreshInProgress = FALSE

\* RefreshProjects; a user's wish gives UnrealVersionSelector a new chance.
RefreshProjects(t) ==
  /\ tool[t] = 0
  /\ tool' = [tool EXCEPT ![t] = 1]
  /\ \E isUserInitiated \in BOOLEAN : uvsTimedOut' = (uvsTimedOut /\ ~isUserInitiated)
  /\ refreshInProgress' = TRUE
  /\ UNCHANGED <<installedTools, waiting, hung, stopped, ubtHolder>>

\* The bracket of RefreshInProgress closes with the refresh or its lifetime.
EndRefresh(t) ==
  /\ tool' = [tool EXCEPT ![t] = 5]
  /\ refreshInProgress' = (t \in stopped /\ refreshInProgress)

\* This tool did not do it: on to the next, or out of tools.
TryNext(t) ==
  IF tool[t] = 4 THEN EndRefresh(t)
  ELSE tool' = [tool EXCEPT ![t] = @ + 1] /\ UNCHANGED refreshInProgress

Skipped(t) == tool[t] \notin installedTools \/ (tool[t] \in Uvs /\ uvsTimedOut)

\* The check comes before the wait for the lock: another refresh may time out
\* in between.
CheckTool(t) ==
  /\ t \in Refreshing \ waiting /\ ubtHolder # t
  /\ IF Skipped(t) THEN TryNext(t) /\ UNCHANGED waiting
     ELSE waiting' = waiting \cup {t} /\ UNCHANGED <<tool, refreshInProgress>>
  /\ UNCHANGED <<installedTools, hung, stopped, uvsTimedOut, ubtHolder>>

StartTool(t) ==
  /\ t \in waiting /\ RunWithLock(t)
  /\ waiting' = waiting \ {t}
  /\ \E hangs \in IF tool[t] \in Uvs THEN {{t}, {}} ELSE {{}} : hung' = hung \cup hangs
  /\ UNCHANGED <<tool, installedTools, stopped, uvsTimedOut, refreshInProgress>>

ToolExited(t) ==
  /\ ubtHolder = t /\ t \notin hung /\ Exited(t)
  /\ EndRefresh(t) \/ TryNext(t)
  /\ UNCHANGED <<installedTools, waiting, hung, stopped, uvsTimedOut>>

\* TryRunCommandWithLock kills it and the project is remembered.
UvsTimedOut(t) ==
  /\ ubtHolder = t /\ tool[t] \in Uvs /\ t \notin stopped /\ TimedOut(t)
  /\ uvsTimedOut' = TRUE
  /\ hung' = hung \ {t}
  /\ TryNext(t)
  /\ UNCHANGED <<installedTools, waiting, stopped>>

\* The end of the lifetime kills the process; whether the next tool is tried
\* depends on how InvokeCore reports it.
KilledByCancel(t) ==
  /\ ubtHolder = t /\ t \in stopped /\ Exited(t)
  /\ hung' = hung \ {t}
  /\ EndRefresh(t) \/ TryNext(t)
  /\ UNCHANGED <<installedTools, waiting, stopped, uvsTimedOut>>

CancelRefresh(t) ==
  /\ t \in Refreshing /\ t \notin stopped
  /\ stopped' = stopped \cup {t}
  /\ refreshInProgress' = FALSE
  /\ UNCHANGED <<tool, installedTools, waiting, hung, uvsTimedOut, ubtHolder>>

RefreshWork(t) ==
  CheckTool(t) \/ StartTool(t) \/ ToolExited(t) \/ UvsTimedOut(t) \/ KilledByCancel(t)
RefresherNext == \E t \in Refreshes : RefreshProjects(t) \/ RefreshWork(t) \/ CancelRefresh(t)
RefresherFairness == \A t \in Refreshes : WF_<<refresherVars, ubtHolder>>(RefreshWork(t))
=============================================================================
