------------------------------- MODULE MCRider -------------------------------
(***************************************************************************)
(* The two users of the build tools in the back end, installations and     *)
(* refreshes, together: they share the lock.                               *)
(***************************************************************************)
EXTENDS PluginInstaller, ProjectsRefresher

\* The users of the lock are told apart.
ASSUME RiderAssumption == Runs \cap Refreshes = {} /\ Nobody \notin Runs \cup Refreshes

\* Bounds: one installation that finds anything, among two projects or with
\* none; and around one project, whose plugin may be old, two installations at
\* once, or one and a refresh.
OneRun ==
  /\ pc[CHOOSE r \in Runs : TRUE] = "idle"
  /\ \A r \in Runs \ {CHOOSE r \in Runs : TRUE} : pc[r] = "committed"
NoRefresh == \A t \in Refreshes : tool[t] = 5 /\ 1 \in installedTools
OneProject == detected = {CHOOSE p \in Projects : TRUE} /\ disk[Engine] = "none" /\ deleted

Alone == OneRun /\ NoRefresh /\ detected \in {Projects, {}} /\ ~deleted
Together == (\A r \in Runs : pc[r] = "idle") /\ NoRefresh /\ OneProject
Beside ==
  /\ OneRun /\ OneProject
  /\ \A t \in Refreshes : tool[t] = 0 /\ installedTools = Uvs

RiderInit == InstallerInit /\ RefresherInit /\ UbtInit
Init == RiderInit /\ (Alone \/ Together \/ Beside)
Next ==
  \/ InstallerNext /\ UNCHANGED refresherVars
  \/ RefresherNext /\ UNCHANGED installerVars
RiderSpec == RiderInit /\ [][Next]_<<installerVars, refresherVars, ubtHolder>>
Spec == Init /\ [][Next]_<<installerVars, refresherVars, ubtHolder>>
        /\ InstallerFairness /\ RefresherFairness

\* When no run and no refresh is left, nothing of them is: the lock is free, no
\* progress is shown and no backup fills the disk, wherever they ended and
\* whether the user had cancelled them by then.  Only what the last of them could
\* not delete stays, until the next can.
NothingLeftWhenIdle ==
  Working = {} /\ Refreshing = {} =>
    /\ ubtHolder = Nobody
    /\ ~inProgress /\ ~refreshInProgress
    /\ undeleted \/ \A r \in Runs : DOMAIN backups[r] = {}

\* Every installation and every refresh ends, also if UnrealVersionSelector
\* hangs with the lock: "A UVS that does not exit would hold the UBT lock and
\* block every next UBT, UAT and refresh run" (UnrealProjectsRefresher.cs).
EventuallyEnded == []<>(Working = {} /\ Refreshing = {})

\* The same, and the descriptions of the folders name none without a plugin, and
\* are true unless a run failed.
TidyWhenIdle == NothingLeftWhenIdle /\ DescribedUnlessFailed
=============================================================================
