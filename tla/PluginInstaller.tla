--------------------------- MODULE PluginInstaller ---------------------------
(***************************************************************************)
(* UnrealPluginInstaller: one run moves every installed RiderLink to a     *)
(* backup, deletes the plugin of the projects that were not chosen,        *)
(* installs it into those that were, one after the other, and puts the     *)
(* backups back if one of them fails or the user cancels.  Runs are        *)
(* background tasks; nothing keeps two of them apart, and all of them put  *)
(* their temporary folders under one prefix, which each deletes at its end.*)
(***************************************************************************)
EXTENDS UbtLock

CONSTANTS Runs, Projects, Engine
ASSUME PluginInstallerAssumption == Engine \notin Projects

VARIABLES
  disk,        \* [Folders -> what the plugin's folder holds]
  desc,        \* [Folders -> InstallDescription]
  detected,    \* UnrealPluginInstallInfo.ProjectPlugins
  location,    \* UnrealPluginInstallInfo.Location
  pc,          \* [Runs -> how far the run is]
  plan,        \* [Runs -> what it was asked for]
  left,        \* [Runs -> folders left to install, or to restore]
  backups,     \* [Runs -> what BackupAllPlugins has moved away, and, once the
               \* run has ended, what is left of it on the disk]
  undeleted,   \* the last run to end could not delete the temporary folders
  cancelled,   \* runs whose lifetime the user has terminated
  inProgress,  \* RiderLinkInstallationInProgress
  deleted,     \* bound: DeletePlugin once at most
  before,      \* history: [Runs -> disk when the run began]
  disturbed    \* history: runs that met another run or DeletePlugin, or that
               \* went by descriptions which an earlier failure left wrong

\* What only the end of a run changes, and what its work never does.
locals == <<plan, backups, undeleted, inProgress, before>>
bystanders == <<detected, location, cancelled, deleted, disturbed>>

runVars == <<pc, plan, left, backups, undeleted, cancelled, inProgress, before>>
installerVars == <<disk, desc, detected, location, runVars, deleted, disturbed>>

Folders == Projects \cup {Engine}
Content == {"none", "old", "new", "partial"}
Ended == {"committed", "failed", "thrown"}
Working == {r \in Runs : pc[r] \notin Ended \cup {"idle"}}
Accurate == \A f \in Folders : desc[f].available <=> disk[f] # "none"

NoPlan == [install |-> {}, delete |-> {}, build |-> FALSE]
NoBackups == [f \in {} |-> "none"]

\* What the detector found: no plugin, or one that may be out of date; and maybe
\* no project at all.
InstallerInit ==
  /\ detected \in SUBSET Projects
  /\ disk \in [Folders -> {"none", "old"}]
  /\ \A p \in Projects \ detected : disk[p] = "none"
  /\ desc = [f \in Folders |-> [available |-> disk[f] # "none", checksum |-> disk[f]]]
  /\ location = IF disk[Engine] # "none" THEN "engine"
                ELSE IF \E p \in detected : disk[p] # "none" THEN "game" ELSE "none"
  /\ pc \in [Runs -> {"idle", "committed"}]   \* bound: the second takes no part
  /\ plan = [r \in Runs |-> NoPlan]
  /\ left = [r \in Runs |-> {}] /\ backups = [r \in Runs |-> NoBackups]
  /\ undeleted = FALSE
  /\ cancelled = {} /\ inProgress = FALSE /\ deleted \in BOOLEAN
  /\ before = [r \in Runs |-> <<>>] /\ disturbed = {}

\* foreach goes by one list: the engine, then the projects as they were detected.
Foreach(S) == IF S = {} THEN {} ELSE IF Engine \in S THEN {Engine} ELSE {CHOOSE f \in S : TRUE}

Goto(r, where) == pc' = [pc EXCEPT ![r] = where]
-----------------------------------------------------------------------------
\* HandleManualInstallPlugin: a nested lifetime, and a background task.
Begin(r, install, delete, build) ==
  /\ pc[r] = "idle"
  /\ plan' = [plan EXCEPT ![r] = [install |-> install, delete |-> delete, build |-> build]]
  /\ Goto(r, "backup")
  /\ inProgress' = TRUE
  /\ before' = [before EXCEPT ![r] = disk]
  /\ disturbed' = IF Working = {} /\ Accurate THEN disturbed
                  ELSE disturbed \cup Working \cup {r}
  /\ UNCHANGED <<disk, desc, detected, location, left, backups, undeleted, cancelled, deleted,
                 ubtHolder>>

\* No project selected means all of them.
InstallInGame(r) == \E selected \in SUBSET detected, build \in BOOLEAN :
  LET install == IF selected = {} THEN detected ELSE selected
  IN  Begin(r, install, detected \ install, build)

InstallInEngine(r) == \E build \in BOOLEAN : Begin(r, {Engine}, {}, build)

\* HandleAutoUpdatePlugin goes by the descriptions and the detected location.
Synced(f) == desc[f].checksum = "new"
OutOfSync ==
  CASE location = "engine" -> ~Synced(Engine)
    [] location = "game"   -> \A p \in detected : ~(desc[p].available /\ Synced(p))
    [] OTHER               -> TRUE

AutoUpdate(r) ==
  /\ OutOfSync
  /\ \/ location # "game" /\ InstallInEngine(r)
     \/ location # "engine" /\ \E build \in BOOLEAN : Begin(r, detected, {}, build)
-----------------------------------------------------------------------------
\* `using var deleteTempFolders': the prefix that all runs share is deleted, with
\* the backups below it, whosever they are.  Delete may throw, and leave any part
\* of them: of a folder all of it, some, or nothing; of those nobody will restore
\* it only matters whether there is something left.
Rest(b, rest) == [f \in DOMAIN b |-> IF rest[f] = "whole" THEN b[f] ELSE rest[f]]
Dispose(r) ==
  LET others == Working \ {r}
      used == UNION {DOMAIN backups[s] : s \in others}
  IN  \E rest \in [used -> {"whole", "partial", "none"}] :
        /\ undeleted' \in BOOLEAN
        /\ ~undeleted' => \A f \in used : rest[f] = "none"
        /\ backups' = [s \in Runs |->
             IF s \in others THEN Rest(backups[s], rest)
             ELSE IF undeleted' THEN [f \in DOMAIN backups[s] |-> "partial"]
             ELSE NoBackups]

\* (Broken: nobody deletes the temporary folders.)
EndOnly(r, how) ==
  /\ Goto(r, how)
  /\ inProgress' = (r \in cancelled /\ inProgress)
  /\ plan' = [plan EXCEPT ![r] = NoPlan] /\ left' = [left EXCEPT ![r] = {}]
  /\ before' = [before EXCEPT ![r] = <<>>]
  /\ UNCHANGED <<backups, undeleted>>

\* The end of a run: so does its lifetime, and a failing Delete changes nothing else.
End(r, how) ==
  /\ Goto(r, how) /\ Dispose(r)
  /\ inProgress' = (r \in cancelled /\ inProgress)
  /\ plan' = [plan EXCEPT ![r] = NoPlan] /\ left' = [left EXCEPT ![r] = {}]
  /\ before' = [before EXCEPT ![r] = <<>>]

\* Only a cancellation is caught: a copy or deletion that fails ends the
\* run where it is.
Throws(r, f) ==
  /\ \E rest \in {disk[f], "partial"} : disk' = [disk EXCEPT ![f] = rest]
  /\ End(r, "thrown") /\ UNCHANGED desc

\* (Broken: a cancelled or failed installation leaves its backups alone.)
FailWithoutRestore(r) ==
  Goto(r, "restore") /\ left' = [left EXCEPT ![r] = {}]
Fail(r) ==
  Goto(r, "restore") /\ left' = [left EXCEPT ![r] = DOMAIN backups[r]]

\* BackupAllPlugins, one folder: new BackupDir copies it and deletes it.
WithBackup(moved, f) ==
  [g \in DOMAIN moved \cup {f} |-> IF g = f THEN disk[f] ELSE moved[g]]
ToBackup(r) == {f \in Folders \ DOMAIN backups[r] : desc[f].available}

Backup(r) ==
  /\ pc[r] = "backup"
  /\ \E f \in Foreach(ToBackup(r)) :
       \/ /\ backups' = [backups EXCEPT ![r] = WithBackup(@, f)]
          /\ disk' = [disk EXCEPT ![f] = "none"]
          /\ UNCHANGED <<desc, pc, plan, left, undeleted, inProgress, before>>
       \/ Throws(r, f)   \* the editor keeps files open
  /\ UNCHANGED ubtHolder

BackedUp(r) ==
  /\ pc[r] = "backup" /\ ToBackup(r) = {}
  /\ Goto(r, "delete")
  /\ UNCHANGED <<disk, desc, left, ubtHolder, locals>>

\* DeletePluginUsingDescription; `success' stops everything else.
ToDelete(r) == {f \in plan[r].delete : desc[f].available}

DeleteFolder(f) ==
  /\ disk' = [disk EXCEPT ![f] = "none"]
  /\ desc' = [desc EXCEPT ![f].available = FALSE]

DeleteUnselected(r) ==
  /\ pc[r] = "delete"
  /\ \E f \in Foreach(ToDelete(r)) :
       \/ DeleteFolder(f) /\ UNCHANGED <<pc, left>>
       \/ disk' = [disk EXCEPT ![f] = "partial"] /\ Fail(r) /\ UNCHANGED desc
  /\ UNCHANGED <<ubtHolder, locals>>

Deleted(r) ==
  /\ pc[r] = "delete" /\ ToDelete(r) = {}
  /\ Goto(r, "install")
  /\ left' = [left EXCEPT ![r] = plan[r].install]
  /\ UNCHANGED <<disk, desc, ubtHolder, locals>>
-----------------------------------------------------------------------------
\* InstallPlugin: the build happens in temporary folders.  Either of them may
\* be refused or the archive unreadable, and a cancelled run gets no further.
Prepare(r) ==
  /\ pc[r] = "install" /\ left[r] # {} /\ plan[r].build
  /\ \/ Fail(r)
     \/ r \notin cancelled /\ Goto(r, "wait") /\ UNCHANGED left
  /\ UNCHANGED <<disk, desc, ubtHolder, locals>>

\* BuildPlugin: one build tool at a time, whoever started it.
StartUat(r) ==
  /\ pc[r] = "wait" /\ RunWithLock(r)
  /\ Goto(r, "build")
  /\ UNCHANGED <<disk, desc, left, locals>>

Built(r) ==
  /\ pc[r] = "build" /\ Exited(r)
  /\ \/ Fail(r)
     \/ r \notin cancelled /\ Goto(r, "copy") /\ UNCHANGED left
  /\ UNCHANGED <<disk, desc, locals>>

Describe(f) == desc' = [desc EXCEPT ![f] = [available |-> TRUE, checksum |-> "new"]]
Installed(r, f) ==
  /\ disk' = [disk EXCEPT ![f] = "new"] /\ Describe(f)
  /\ Goto(r, "install") /\ left' = [left EXCEPT ![r] = @ \ {f}]

CopyToPlugin(r) ==
  /\ pc[r] = "copy"
  /\ \/ r \in cancelled /\ Fail(r) /\ UNCHANGED <<disk, desc, locals>>
     \/ /\ r \notin cancelled
        /\ \E f \in Foreach(left[r]) :
             \/ Installed(r, f) /\ UNCHANGED locals
             \/ Throws(r, f)
  /\ UNCHANGED ubtHolder

\* ExtractPlugin: straight into the plugin's folder; asked only at the end
\* whether it was cancelled.
Extract(r) ==
  /\ pc[r] = "install" /\ ~plan[r].build
  /\ \E f \in Foreach(left[r]) :
       \/ r \notin cancelled /\ Installed(r, f) /\ UNCHANGED locals
       \/ /\ \/ disk' = [disk EXCEPT ![f] = "partial"]
             \/ r \in cancelled /\ disk' = [disk EXCEPT ![f] = "new"]
          /\ Fail(r) /\ UNCHANGED <<desc, locals>>
       \/ Throws(r, f)
  /\ UNCHANGED ubtHolder
-----------------------------------------------------------------------------
\* The end of InstallPluginInGame and InstallPluginInEngine.
InEngine(r) == plan[r].install = {Engine}
Superseded(r) == IF InEngine(r) THEN detected ELSE {Engine}

Commit(r) ==
  /\ pc[r] = "install" /\ left[r] = {}
  /\ desc' = [f \in Folders |->
       IF f \in Superseded(r) THEN [desc[f] EXCEPT !.available = FALSE] ELSE desc[f]]
  /\ End(r, "committed")
  /\ UNCHANGED <<disk, ubtHolder>>

Restore(r) ==
  /\ pc[r] = "restore"
  /\ \E f \in Foreach(left[r]) :
       \/ /\ disk' = [disk EXCEPT ![f] = backups[r][f]]
          /\ left' = [left EXCEPT ![r] = @ \ {f}]
          /\ UNCHANGED <<desc, pc, locals>>
       \/ Throws(r, f)
  /\ UNCHANGED ubtHolder

Restored(r) ==
  /\ pc[r] = "restore" /\ left[r] = {}
  /\ End(r, "failed")
  /\ UNCHANGED <<disk, desc, ubtHolder>>

\* From the progress bar one run, with CancelRiderLinkInstall all of them: the
\* lifetime ends at once, its work when it next looks.
Cancel == \E runs \in {{r} : r \in Working} \cup {Working} :
  /\ runs \ cancelled # {}
  /\ cancelled' = cancelled \cup runs
  /\ inProgress' = FALSE
  /\ UNCHANGED <<disk, desc, detected, location, pc, plan, left, backups, undeleted, deleted, before,
                 disturbed, ubtHolder>>

\* DeletePlugin, on the main thread, whatever else is going on.
DeletePlugin ==
  /\ ~deleted /\ deleted' = TRUE
  /\ disturbed' = disturbed \cup Working
  /\ \E kept \in SUBSET {f \in Folders : desc[f].available} :
       /\ disk' = [f \in Folders |-> IF ~desc[f].available THEN disk[f]
                                     ELSE IF f \in kept THEN "partial" ELSE "none"]
       /\ desc' = [f \in Folders |->
            [desc[f] EXCEPT !.available = @ /\ f \in kept]]
  /\ UNCHANGED <<detected, location, runVars, ubtHolder>>

Start(r) == InstallInGame(r) \/ InstallInEngine(r) \/ AutoUpdate(r)
Work(r) ==
  /\ \/ Backup(r) \/ BackedUp(r) \/ DeleteUnselected(r) \/ Deleted(r)
     \/ Prepare(r) \/ StartUat(r) \/ Built(r) \/ CopyToPlugin(r) \/ Extract(r)
     \/ Commit(r) \/ Restore(r) \/ Restored(r)
  /\ UNCHANGED bystanders
InstallerNext == (\E r \in Runs : Start(r) \/ Work(r)) \/ Cancel \/ DeletePlugin

\* The thread pool runs background tasks, a build tool ends or is killed, and
\* the lock is given to each of finitely many that wait for it.
InstallerFairness == \A r \in Runs : WF_<<installerVars, ubtHolder>>(Work(r))
-----------------------------------------------------------------------------
\* What the projects see: the folders, or, while one run works on them, the
\* folders it found.
Trans == INSTANCE PluginTransaction WITH
  Contents <- Content, None <- "none", New <- "new", Partial <- "partial",
  content <- IF Working = {} THEN disk ELSE before[CHOOSE r \in Working : TRUE],
  asked <- {plan[r].install : r \in Working},
  broken <- disturbed # {} \/ \E r \in Runs : pc[r] = "thrown"

\* An installation is all or nothing: all chosen folders get the plugin and
\* all others lose theirs, or every folder that had one has it back
\* (BackupAllPlugins, Restore), until a step throws something else than a
\* cancellation or two runs meet.
ImplementsTransaction == Trans!Spec

\* The descriptions, by which the next run decides what to back up, delete and
\* update, name no folder without a plugin, also after a run that failed; and
\* until one has, they tell what is in the folders: Restore puts the folders back
\* and not the descriptions.
DescribedUnlessFailed ==
  (Working = {} /\ disturbed = {} /\ \A r \in Runs : pc[r] # "thrown") =>
    /\ \A f \in Folders : desc[f].available => disk[f] # "none"
    /\ (\A r \in Runs : pc[r] # "failed") =>
         /\ Accurate
         /\ \A f \in Folders : desc[f].available /\ disk[f] # "partial" =>
              (desc[f].checksum = "new" <=> disk[f] = "new")
=============================================================================
