-------------------------- MODULE Installer_proofs --------------------------
(***************************************************************************)
(* Installations and refreshes, for any number of runs, projects and       *)
(* refreshes.  The invariant follows one run through its steps: what it    *)
(* found is in its backups before anything is deleted, what it installed   *)
(* is what is not left to install, and what it restores is what it found;  *)
(* it says nothing once two runs have met or one has thrown.  With it an   *)
(* installation is a transaction (PluginTransaction), and nothing is left  *)
(* of it when it is over.                                                  *)
(***************************************************************************)
EXTENDS MCRider, TLAPS

(***************************************************************************)
(* What a run has done so far, as long as nothing is broken that it does   *)
(* not undo.                                                               *)
(***************************************************************************)
Broken == disturbed # {} \/ \E r \in Runs : pc[r] = "thrown"

Idle == Ended \cup {"idle"}
Installing == {"install", "wait", "build", "copy"}
Steps == {"backup", "delete", "restore"} \cup Installing
Descriptions == [available : BOOLEAN, checksum : Content]
Plans == [install : SUBSET Folders, delete : SUBSET Folders, build : BOOLEAN]

Backups == UNION {[S -> Content] : S \in SUBSET Folders}

InstallerTypeOK ==
  /\ disk \in [Folders -> Content] /\ desc \in [Folders -> Descriptions]
  /\ detected \in SUBSET Projects /\ undeleted \in BOOLEAN
  /\ pc \in [Runs -> Idle \cup Steps] /\ plan \in [Runs -> Plans]
  /\ left \in [Runs -> SUBSET Folders]
  /\ backups \in [Runs -> Backups]
  /\ inProgress \in BOOLEAN /\ cancelled \subseteq Runs /\ disturbed \subseteq Runs
  /\ DOMAIN before = Runs /\ \A r \in Working : before[r] \in [Folders -> Content]

RefresherTypeOK == tool \in [Refreshes -> 0..5] /\ refreshInProgress \in BOOLEAN

\* A run is asked to install into the engine, or into some of the projects and to
\* clear the rest of them.
PlanMade(r) ==
  \/ plan[r].install = {Engine} /\ plan[r].delete = {}
  \/ plan[r].install \subseteq detected /\ plan[r].delete = detected \ plan[r].install

\* Whatever the run found has its backup.
Saved(r) ==
  /\ \A f \in Folders : before[r][f] # "none" <=> f \in DOMAIN backups[r]
  /\ \A f \in DOMAIN backups[r] : backups[r][f] = before[r][f]

BackingUp(r) ==
  /\ \A f \in Folders : desc[f].available <=> before[r][f] # "none"
  /\ \A f \in DOMAIN backups[r] :
       backups[r][f] = before[r][f] /\ before[r][f] # "none" /\ disk[f] = "none"
  /\ \A f \in Folders \ DOMAIN backups[r] : disk[f] = before[r][f]

Deleting(r) ==
  /\ Saved(r)
  /\ \A f \in Folders : disk[f] = "none" /\ (desc[f].available => f \in DOMAIN backups[r])

InstallingAll(r) ==
  /\ Saved(r) /\ left[r] \subseteq plan[r].install
  /\ \A f \in Folders : disk[f] = IF f \in plan[r].install \ left[r] THEN "new" ELSE "none"
  /\ \A f \in plan[r].install \ left[r] : desc[f].available /\ desc[f].checksum = "new"
  /\ \A f \in Folders : desc[f].available =>
       /\ f \in plan[r].install \cup Superseded(r)
       /\ f \in DOMAIN backups[r] \/ f \in plan[r].install \ left[r]

Restoring(r) ==
  /\ Saved(r) /\ left[r] \subseteq DOMAIN backups[r]
  /\ \A f \in DOMAIN backups[r] \ left[r] : disk[f] = before[r][f]
  /\ \A f \in Folders : desc[f].available => f \in DOMAIN backups[r] \/ disk[f] # "none"

AllOrNothing(r) ==
  /\ PlanMade(r)
  /\ pc[r] = "backup" => BackingUp(r)
  /\ pc[r] = "delete" => Deleting(r)
  /\ pc[r] \in Installing => InstallingAll(r)
  /\ pc[r] = "restore" => Restoring(r)

TransactionInv ==
  ~Broken =>
    /\ \A r \in Working : AllOrNothing(r) /\ \A s \in Working : s = r
    /\ \A f \in Folders : desc[f].available => f \in detected \cup {Engine}
    /\ Working = {} => \A f \in Folders : desc[f].available => disk[f] # "none"

\* Progress is shown for somebody, the lock is held by somebody, and backups are
\* somebody's, or could not be deleted.
BusyInv ==
  /\ inProgress => Working \ cancelled # {}
  /\ \A r \in cancelled : pc[r] # "idle"
  /\ undeleted \/ \A r \in Runs \ Working : DOMAIN backups[r] = {}
  /\ \A r \in Runs : pc[r] = "idle" => DOMAIN backups[r] = {}
  /\ \A r \in Runs : pc[r] = "restore" => left[r] \subseteq DOMAIN backups[r]
  /\ refreshInProgress => Refreshing \ stopped # {}
  /\ waiting \subseteq Refreshing /\ stopped \subseteq Refreshes /\ \A t \in stopped : tool[t] # 0
  /\ \/ ubtHolder = Nobody
     \/ ubtHolder \in Runs /\ pc[ubtHolder] = "build"
     \/ ubtHolder \in Refreshing \ waiting

InstallerInv ==
  InstallerTypeOK /\ RefresherTypeOK /\ TransactionInv /\ BusyInv /\ DescribedUnlessFailed

-----------------------------------------------------------------------------
\* Backups, and what is put to them.
LEMMA BackupsAre ==
  /\ NoBackups \in Backups /\ DOMAIN NoBackups = {}
  /\ \A b \in Backups : /\ DOMAIN b \subseteq Folders /\ \A f \in DOMAIN b : b[f] \in Content
                        /\ [f \in DOMAIN b |-> "partial"] \in Backups
<1>1. NoBackups \in [{} -> Content] /\ DOMAIN NoBackups = {} BY DEF NoBackups
<1>2. ASSUME NEW b \in Backups
      PROVE  /\ DOMAIN b \subseteq Folders /\ \A f \in DOMAIN b : b[f] \in Content
             /\ [f \in DOMAIN b |-> "partial"] \in Backups
  <2>1. PICK S \in SUBSET Folders : b \in [S -> Content] BY DEF Backups
  <2>2. DOMAIN b = S BY <2>1
  <2>3. [f \in DOMAIN b |-> "partial"] \in [S -> Content] BY <2>2 DEF Content
  <2>. QED BY <2>1, <2>2, <2>3 DEF Backups
<1>. QED BY <1>1, <1>2 DEF Backups

\* What Delete leaves of a backup that somebody may restore.
LEMMA RestTyped ==
  ASSUME NEW b \in Backups, NEW used, DOMAIN b \subseteq used,
         NEW rest \in [used -> {"whole", "partial", "none"}]
  PROVE  Rest(b, rest) \in Backups /\ DOMAIN Rest(b, rest) = DOMAIN b
<1>1. PICK S \in SUBSET Folders : b \in [S -> Content] BY DEF Backups
<1>2. DOMAIN b = S BY <1>1
<1>3. \A f \in S : rest[f] # "whole" => rest[f] \in Content BY <1>2 DEF Content
<1>4. Rest(b, rest) \in [S -> Content] BY <1>1, <1>2, <1>3 DEF Rest
<1>. QED BY <1>1, <1>2, <1>4 DEF Backups, Rest

\* One more folder is moved away.
LEMMA MovedAway ==
  ASSUME NEW b \in Backups, NEW f \in Folders, disk \in [Folders -> Content]
  PROVE  /\ WithBackup(b, f) \in Backups /\ DOMAIN WithBackup(b, f) = DOMAIN b \cup {f}
         /\ WithBackup(b, f)[f] = disk[f]
         /\ \A g \in DOMAIN b : g # f => WithBackup(b, f)[g] = b[g]
<1>1. DOMAIN b \subseteq Folders /\ \A g \in DOMAIN b : b[g] \in Content BY BackupsAre
<1>2. WithBackup(b, f) \in [DOMAIN b \cup {f} -> Content] BY <1>1 DEF WithBackup
<1>3. DOMAIN b \cup {f} \in SUBSET Folders BY <1>1
<1>. QED BY <1>2, <1>3 DEF Backups, WithBackup

\* What a run that ends leaves of the backups.
LEMMA DisposeTyped ==
  ASSUME backups \in [Runs -> Backups], NEW r \in Runs, Dispose(r)
  PROVE  /\ backups' \in [Runs -> Backups] /\ undeleted' \in BOOLEAN
         /\ \A s \in Working \ {r} : DOMAIN backups'[s] = DOMAIN backups[s]
         /\ undeleted' \/ \A s \in Runs \ (Working \ {r}) : DOMAIN backups'[s] = {}
         /\ \A s \in Runs : DOMAIN backups[s] = {} => DOMAIN backups'[s] = {}
<1>. DEFINE others == Working \ {r}
            used == UNION {DOMAIN backups[s] : s \in others}
<1>1. PICK rest \in [used -> {"whole", "partial", "none"}] :
        /\ undeleted' \in BOOLEAN
        /\ backups' = [s \in Runs |->
             IF s \in others THEN Rest(backups[s], rest)
             ELSE IF undeleted' THEN [f \in DOMAIN backups[s] |-> "partial"]
             ELSE NoBackups]
  BY DEF Dispose
<1>2. ASSUME NEW s \in others
      PROVE  s \in Runs /\ Rest(backups[s], rest) \in Backups
             /\ DOMAIN Rest(backups[s], rest) = DOMAIN backups[s]
  <2>1. s \in Runs /\ backups[s] \in Backups /\ DOMAIN backups[s] \subseteq used
    BY DEF Working
  <2>. HIDE DEF used
  <2>. QED BY <2>1, RestTyped
<1>. HIDE DEF others, used
<1>3. ASSUME NEW s \in Runs, s \notin others
      PROVE  /\ backups'[s] = IF undeleted' THEN [f \in DOMAIN backups[s] |-> "partial"] ELSE NoBackups
             /\ backups'[s] \in Backups
             /\ DOMAIN backups'[s] = {} \/ (undeleted' /\ DOMAIN backups'[s] = DOMAIN backups[s])
  <2>1. backups'[s] = IF undeleted' THEN [f \in DOMAIN backups[s] |-> "partial"] ELSE NoBackups
    BY <1>1, <1>3
  <2>2. [f \in DOMAIN backups[s] |-> "partial"] \in Backups BY BackupsAre
  <2>. QED BY <2>1, <2>2, BackupsAre
<1>4. \A s \in others : backups'[s] = Rest(backups[s], rest) BY <1>1, <1>2
<1>5. backups' = [s \in Runs |-> backups'[s]] BY <1>1
<1>6. backups' \in [Runs -> Backups] BY <1>2, <1>3, <1>4, <1>5
<1>. QED BY <1>1, <1>2, <1>3, <1>4, <1>6 DEF others

\* The end of a run keeps the types.
LEMMA EndKeepsTypes ==
  ASSUME InstallerTypeOK, NEW r \in Runs, NEW how \in Ended, End(r, how),
         disk' \in [Folders -> Content], desc' \in [Folders -> Descriptions],
         UNCHANGED bystanders, pc[r] \in Steps
  PROVE  InstallerTypeOK' /\ Working' = Working \ {r}
<1>. USE DEF InstallerTypeOK, End, Goto, bystanders
<1>1. pc' \in [Runs -> Idle \cup Steps] /\ Working' = Working \ {r}
  BY DEF Working, Idle, Steps, Installing, Ended
<1>2. backups' \in [Runs -> Backups] /\ undeleted' \in BOOLEAN BY DisposeTyped
<1>3. plan' \in [Runs -> Plans] /\ left' \in [Runs -> SUBSET Folders]
  BY DEF Plans, NoPlan
<1>4. inProgress' \in BOOLEAN BY Zenon
<1>5. DOMAIN before' = Runs /\ \A s \in Working' : before'[s] \in [Folders -> Content]
  BY <1>1
<1>. QED BY <1>1, <1>2, <1>3, <1>4, <1>5

\* The run goes on, and changes neither plan nor backups.
LEMMA WorkKeepsTypes ==
  ASSUME InstallerTypeOK, NEW r \in Runs, pc[r] \in Steps,
         \E where \in Steps : pc' = [pc EXCEPT ![r] = where],
         left' \in [Runs -> SUBSET Folders],
         disk' \in [Folders -> Content], desc' \in [Folders -> Descriptions],
         UNCHANGED locals, UNCHANGED bystanders
  PROVE  InstallerTypeOK' /\ Working' = Working
<1>. USE DEF InstallerTypeOK, locals, bystanders
<1>1. pc' \in [Runs -> Idle \cup Steps] /\ Working' = Working
  BY DEF Working, Idle, Steps, Installing, Ended
<1>. QED BY <1>1

\* A run begins.
LEMMA BeginKeepsTypes ==
  ASSUME InstallerTypeOK, NEW r \in Runs, NEW install \in SUBSET Folders, NEW delete \in SUBSET Folders,
         NEW build \in BOOLEAN, Begin(r, install, delete, build)
  PROVE  InstallerTypeOK' /\ Working' = Working \cup {r}
<1>. USE DEF InstallerTypeOK, Begin, Goto
<1>1. pc' \in [Runs -> Idle \cup Steps] /\ Working' = Working \cup {r}
  BY DEF Working, Idle, Steps, Installing, Ended
<1>2. plan' \in [Runs -> Plans] BY DEF Plans
<1>3. DOMAIN before' = Runs /\ \A s \in Working' : before'[s] \in [Folders -> Content]
  BY <1>1
<1>4. disturbed' \subseteq Runs BY DEF Working
<1>. QED BY <1>1, <1>2, <1>3, <1>4

\* Folders written to, and described, are still folders.
LEMMA FoldersTyped ==
  ASSUME InstallerTypeOK, NEW f \in Folders
  PROVE  /\ \A c \in Content : [disk EXCEPT ![f] = c] \in [Folders -> Content]
         /\ [desc EXCEPT ![f] = [available |-> TRUE, checksum |-> "new"]] \in [Folders -> Descriptions]
         /\ [desc EXCEPT ![f].available = FALSE] \in [Folders -> Descriptions]
         /\ disk[f] \in Content /\ {"none", "old", "new", "partial"} \subseteq Content
BY DEF InstallerTypeOK, Descriptions, Content

\* Where a run looks for the next folder.
LEMMA NextFolder == \A S : Foreach(S) \subseteq S
BY DEF Foreach

\* A run that throws.
LEMMA ThrowsTyped ==
  ASSUME InstallerTypeOK, NEW r \in Runs, NEW f \in Folders, Throws(r, f), pc[r] \in Steps,
         UNCHANGED bystanders
  PROVE  /\ InstallerTypeOK' /\ Working' = Working \ {r}
         /\ pc' = [pc EXCEPT ![r] = "thrown"]
<1>1. End(r, "thrown") /\ "thrown" \in Ended /\ desc' = desc BY DEF Throws, Ended
<1>2. disk' \in [Folders -> Content] BY FoldersTyped DEF Throws
<1>. QED BY <1>1, <1>2, EndKeepsTypes DEF InstallerTypeOK, End, Goto

-----------------------------------------------------------------------------
\* What is known of the only run, when nothing is broken.
OnlyRun(r) ==
  /\ ~Broken /\ AllOrNothing(r) /\ Working = {r}
  /\ \A f \in Folders : desc[f].available => f \in detected \cup {Engine}

\* A working run goes on, and keeps to all or nothing.
LEMMA GoesOn ==
  ASSUME InstallerTypeOK, TransactionInv, NEW r \in Runs, pc[r] \in Steps, NEW where \in Steps,
         pc' = [pc EXCEPT ![r] = where], UNCHANGED bystanders,
         OnlyRun(r) => /\ AllOrNothing(r)'
                       /\ \A f \in Folders : desc'[f].available => f \in detected \cup {Engine}
  PROVE  TransactionInv'
<1>. USE DEF InstallerTypeOK, bystanders
<1>1. Working' = Working /\ r \in Working BY DEF Working, Idle, Steps, Installing, Ended
<1>2. ~Broken' => ~Broken BY DEF Broken, Steps, Installing
<1>3. ~Broken => OnlyRun(r)
  <2>1. \A s \in Working : s \in Runs BY DEF Working
  <2>. QED BY <1>1, <2>1 DEF TransactionInv, OnlyRun
<1>. QED BY <1>1, <1>2, <1>3 DEF TransactionInv, OnlyRun

\* The only run ends, with a plugin in every folder that is said to have one.
LEMMA EndsWell ==
  ASSUME InstallerTypeOK, TransactionInv, NEW r \in Runs, pc[r] \in Steps,
         NEW how \in {"committed", "failed"}, pc' = [pc EXCEPT ![r] = how], UNCHANGED bystanders,
         OnlyRun(r) => \A f \in Folders : desc'[f].available =>
                         f \in detected \cup {Engine} /\ disk'[f] # "none"
  PROVE  TransactionInv'
<1>. USE DEF InstallerTypeOK, bystanders
<1>1. Working' = Working \ {r} /\ r \in Working BY DEF Working, Idle, Steps, Installing, Ended
<1>2. ~Broken' => ~Broken BY DEF Broken, Steps, Installing
<1>3. ~Broken => OnlyRun(r)
  <2>1. \A s \in Working : s \in Runs BY DEF Working
  <2>. QED BY <1>1, <2>1 DEF TransactionInv, OnlyRun
<1>4. ~Broken => Working' = {} BY <1>1, <1>3 DEF OnlyRun
<1>. QED BY <1>2, <1>3, <1>4 DEF TransactionInv, OnlyRun

\* After a run has thrown nothing is promised.
LEMMA ThrownIsBroken ==
  ASSUME InstallerTypeOK, NEW r \in Runs, pc' = [pc EXCEPT ![r] = "thrown"]
  PROVE  Broken' /\ TransactionInv'
BY DEF InstallerTypeOK, Broken, TransactionInv

\* A run that fails puts back what it saved.
LEMMA FailKeeps ==
  ASSUME InstallerTypeOK, NEW r \in Runs, pc[r] \in Steps, Fail(r), UNCHANGED locals,
         UNCHANGED bystanders, UNCHANGED desc, PlanMade(r), Saved(r),
         disk' \in [Folders -> Content],
         \A f \in Folders : desc[f].available => f \in DOMAIN backups[r] \/ disk'[f] # "none"
  PROVE  AllOrNothing(r)'
<1>. USE DEF InstallerTypeOK, Fail, Goto, locals, bystanders
<1>1. pc'[r] = "restore" /\ left'[r] = DOMAIN backups[r] OBVIOUS
<1>2. PlanMade(r)' /\ Saved(r)' BY DEF PlanMade, Saved
<1>3. Restoring(r)' BY <1>1, <1>2 DEF Restoring
<1>. QED BY <1>1, <1>2, <1>3 DEF AllOrNothing, Installing

\* The steps of a failing run's types.
LEMMA FailTyped ==
  ASSUME InstallerTypeOK, NEW r \in Runs, Fail(r)
  PROVE  left' \in [Runs -> SUBSET Folders] /\ pc' = [pc EXCEPT ![r] = "restore"] /\ "restore" \in Steps
BY BackupsAre DEF InstallerTypeOK, Fail, Goto, Steps

\* Moving the plugins away, one by one.
LEMMA BackupKeeps ==
  ASSUME InstallerTypeOK, TransactionInv, NEW r \in Runs, Backup(r), UNCHANGED bystanders
  PROVE  InstallerTypeOK' /\ TransactionInv'
<1>. USE DEF InstallerTypeOK
<1>0. pc[r] \in Steps /\ pc[r] = "backup" BY DEF Backup, Steps
<1>1. PICK f \in Foreach(ToBackup(r)) :
        \/ /\ backups' = [backups EXCEPT ![r] = WithBackup(@, f)]
           /\ disk' = [disk EXCEPT ![f] = "none"]
           /\ UNCHANGED <<desc, pc, plan, left, undeleted, inProgress, before>>
        \/ Throws(r, f)
  BY DEF Backup
<1>2. f \in Folders /\ f \notin DOMAIN backups[r] /\ desc[f].available BY NextFolder DEF ToBackup
<1>3. CASE Throws(r, f) BY <1>0, <1>2, <1>3, ThrowsTyped, ThrownIsBroken
<1>4. CASE /\ backups' = [backups EXCEPT ![r] = WithBackup(@, f)]
           /\ disk' = [disk EXCEPT ![f] = "none"]
           /\ UNCHANGED <<desc, pc, plan, left, undeleted, inProgress, before>>
  <2>. DEFINE b == backups[r]
  <2>1. /\ WithBackup(b, f) \in Backups /\ DOMAIN WithBackup(b, f) = DOMAIN b \cup {f}
        /\ WithBackup(b, f)[f] = disk[f]
        /\ \A g \in DOMAIN b : g # f => WithBackup(b, f)[g] = b[g]
    BY <1>2, MovedAway
  <2>2. backups' \in [Runs -> Backups] /\ backups'[r] = WithBackup(b, f) BY <1>4, <2>1
  <2>3. disk' \in [Folders -> Content] BY <1>2, <1>4, FoldersTyped
  <2>4. InstallerTypeOK' BY <1>4, <2>2, <2>3 DEF Working, bystanders
  <2>5. OnlyRun(r) => BackingUp(r)'
    <3>. SUFFICES ASSUME OnlyRun(r) PROVE BackingUp(r)' OBVIOUS
    <3>1. BackingUp(r) BY <1>0 DEF OnlyRun, AllOrNothing
    <3>. HIDE DEF b
    <3>2. DOMAIN backups'[r] = DOMAIN b \cup {f} /\ backups[r] = b BY <2>1, <2>2 DEF b
    <3>3. \A g \in DOMAIN backups'[r] :
            backups'[r][g] = before'[r][g] /\ before'[r][g] # "none" /\ disk'[g] = "none"
      <4>. SUFFICES ASSUME NEW g \in DOMAIN backups'[r]
                    PROVE  backups'[r][g] = before'[r][g] /\ before'[r][g] # "none" /\ disk'[g] = "none"
        OBVIOUS
      <4>1. CASE g = f BY <1>2, <1>4, <2>1, <2>2, <3>1, <4>1 DEF BackingUp
      <4>2. CASE g # f
        <5>1. g \in DOMAIN b /\ g \in Folders BY <3>2, <4>2, BackupsAre
        <5>. QED BY <1>2, <1>4, <2>1, <2>2, <3>1, <3>2, <4>2, <5>1 DEF BackingUp
      <4>. QED BY <4>1, <4>2
    <3>4. \A g \in Folders \ DOMAIN backups'[r] : disk'[g] = before'[r][g]
      BY <1>2, <1>4, <3>1, <3>2 DEF BackingUp
    <3>. QED BY <1>4, <3>1, <3>3, <3>4 DEF BackingUp
  <2>6. pc' = [pc EXCEPT ![r] = "backup"] /\ "backup" \in Steps BY <1>0, <1>4 DEF Steps
  <2>7. OnlyRun(r) => AllOrNothing(r)'
    <3>1. OnlyRun(r) => PlanMade(r)' BY <1>4 DEF OnlyRun, AllOrNothing, PlanMade, bystanders
    <3>. QED BY <1>0, <1>4, <2>5, <3>1 DEF AllOrNothing, Installing
  <2>. QED BY <1>0, <1>4, <2>4, <2>6, <2>7, GoesOn DEF OnlyRun
<1>. QED BY <1>1, <1>3, <1>4

\* Every plugin is moved away.
LEMMA BackedUpKeeps ==
  ASSUME InstallerTypeOK, TransactionInv, NEW r \in Runs, BackedUp(r), UNCHANGED bystanders
  PROVE  InstallerTypeOK' /\ TransactionInv'
<1>. USE DEF InstallerTypeOK, BackedUp, Goto, locals, bystanders
<1>0. pc[r] \in Steps /\ pc[r] = "backup" /\ "delete" \in Steps /\ pc' = [pc EXCEPT ![r] = "delete"]
  BY DEF Steps
<1>1. InstallerTypeOK' BY <1>0, WorkKeepsTypes
<1>2. OnlyRun(r) => AllOrNothing(r)'
  <2>. SUFFICES ASSUME OnlyRun(r) PROVE AllOrNothing(r)' OBVIOUS
  <2>1. BackingUp(r) /\ PlanMade(r) BY <1>0 DEF OnlyRun, AllOrNothing
  <2>2. PlanMade(r)' BY <2>1 DEF PlanMade
  <2>3. \A f \in Folders : desc[f].available => f \in DOMAIN backups[r] BY DEF ToBackup
  <2>4. DOMAIN backups[r] \subseteq Folders BY BackupsAre
  <2>5. Saved(r)' BY <2>1, <2>3, <2>4 DEF BackingUp, Saved
  <2>6. \A f \in Folders : disk[f] = "none" BY <2>1, <2>3 DEF BackingUp
  <2>7. Deleting(r)' BY <2>3, <2>5, <2>6 DEF Deleting
  <2>. QED BY <1>0, <2>2, <2>7 DEF AllOrNothing, Installing
<1>. QED BY <1>0, <1>1, <1>2, GoesOn DEF OnlyRun

\* The plugins that were not chosen are deleted.
LEMMA DeleteKeeps ==
  ASSUME InstallerTypeOK, TransactionInv, NEW r \in Runs, DeleteUnselected(r), UNCHANGED bystanders
  PROVE  InstallerTypeOK' /\ TransactionInv'
<1>. USE DEF InstallerTypeOK
<1>0. /\ pc[r] \in Steps /\ pc[r] = "delete" /\ UNCHANGED locals
  BY DEF DeleteUnselected, Steps
<1>1. PICK f \in Foreach(ToDelete(r)) :
        \/ DeleteFolder(f) /\ UNCHANGED <<pc, left>>
        \/ disk' = [disk EXCEPT ![f] = "partial"] /\ Fail(r) /\ UNCHANGED desc
  BY DEF DeleteUnselected
<1>2. f \in Folders BY NextFolder DEF ToDelete, Plans
<1>3. OnlyRun(r) => Deleting(r) /\ PlanMade(r) BY <1>0 DEF OnlyRun, AllOrNothing
<1>4. CASE DeleteFolder(f) /\ UNCHANGED <<pc, left>>
  <2>1. /\ disk' \in [Folders -> Content] /\ desc' \in [Folders -> Descriptions]
        /\ pc' = [pc EXCEPT ![r] = "delete"] /\ "delete" \in Steps
    BY <1>0, <1>2, <1>4, FoldersTyped DEF DeleteFolder, Steps
  <2>2. InstallerTypeOK' BY <1>0, <1>4, <2>1, WorkKeepsTypes
  <2>3. \A g \in Folders : desc'[g].available => desc[g].available
    BY <1>2, <1>4 DEF DeleteFolder, Descriptions
  <2>4. OnlyRun(r) => AllOrNothing(r)'
    <3>. SUFFICES ASSUME OnlyRun(r) PROVE AllOrNothing(r)' OBVIOUS
    <3>1. PlanMade(r)' /\ Saved(r)' BY <1>0, <1>3 DEF PlanMade, Saved, Deleting, locals, bystanders
    <3>2. \A g \in Folders : disk'[g] = "none" BY <1>2, <1>3, <1>4 DEF DeleteFolder, Deleting
    <3>3. Deleting(r)' BY <1>0, <1>3, <2>3, <3>1, <3>2 DEF Deleting, locals
    <3>. QED BY <1>0, <1>4, <3>1, <3>3 DEF AllOrNothing, Installing
  <2>. QED BY <1>0, <2>1, <2>2, <2>3, <2>4, GoesOn DEF OnlyRun
<1>5. CASE disk' = [disk EXCEPT ![f] = "partial"] /\ Fail(r) /\ UNCHANGED desc
  <2>1. disk' \in [Folders -> Content] BY <1>2, <1>5, FoldersTyped
  <2>2. InstallerTypeOK' BY <1>0, <1>5, <2>1, FailTyped, WorkKeepsTypes
  <2>3. OnlyRun(r) => AllOrNothing(r)' BY <1>0, <1>3, <1>5, <2>1, FailKeeps DEF Deleting
  <2>. QED BY <1>0, <1>5, <2>2, <2>3, FailTyped, GoesOn DEF OnlyRun
<1>. QED BY <1>1, <1>4, <1>5

\* They are all gone, and nothing is installed yet.
LEMMA DeletedKeeps ==
  ASSUME InstallerTypeOK, TransactionInv, NEW r \in Runs, Deleted(r), UNCHANGED bystanders
  PROVE  InstallerTypeOK' /\ TransactionInv'
<1>. USE DEF InstallerTypeOK, Deleted, Goto, locals, bystanders
<1>0. /\ pc[r] \in Steps /\ pc[r] = "delete" /\ "install" \in Steps /\ pc' = [pc EXCEPT ![r] = "install"]
      /\ left' \in [Runs -> SUBSET Folders] /\ left'[r] = plan[r].install
  BY DEF Steps, Installing, Plans
<1>1. InstallerTypeOK' BY <1>0, WorkKeepsTypes
<1>2. OnlyRun(r) => AllOrNothing(r)'
  <2>. SUFFICES ASSUME OnlyRun(r) PROVE AllOrNothing(r)' OBVIOUS
  <2>1. Deleting(r) /\ PlanMade(r) BY <1>0 DEF OnlyRun, AllOrNothing
  <2>2. PlanMade(r)' /\ Saved(r)' BY <2>1 DEF PlanMade, Saved, Deleting
  <2>3. \A f \in plan[r].delete : ~desc[f].available BY DEF ToDelete
  <2>4. ASSUME NEW f \in Folders, desc[f].available
        PROVE  f \in plan[r].install \cup Superseded(r)
    <3>1. f \in detected \cup {Engine} BY <2>4 DEF OnlyRun
    <3>. QED BY <2>1, <2>3, <2>4, <3>1 DEF PlanMade, Superseded, InEngine
  <2>5. InstallingAll(r)'
    <3>1. plan'[r].install \ left'[r] = {} /\ left'[r] \subseteq plan'[r].install BY <1>0
    <3>2. Superseded(r)' = Superseded(r) BY DEF Superseded, InEngine
    <3>. QED BY <2>1, <2>2, <2>4, <3>1, <3>2 DEF InstallingAll, Deleting
  <2>. QED BY <1>0, <2>2, <2>5 DEF AllOrNothing, Installing
<1>. QED BY <1>0, <1>1, <1>2, GoesOn DEF OnlyRun

\* Preparing and building change no folder: the run goes on installing, or fails.
LEMMA BuildKeeps ==
  ASSUME InstallerTypeOK, TransactionInv, NEW r \in Runs, pc[r] \in Installing,
         Fail(r) \/ \E where \in Installing : Goto(r, where) /\ UNCHANGED left,
         UNCHANGED <<disk, desc>>, UNCHANGED locals, UNCHANGED bystanders
  PROVE  InstallerTypeOK' /\ TransactionInv'
<1>. USE DEF InstallerTypeOK
<1>0. pc[r] \in Steps /\ Installing \subseteq Steps BY DEF Steps
<1>1. OnlyRun(r) => InstallingAll(r) /\ PlanMade(r) BY DEF OnlyRun, AllOrNothing
<1>2. CASE Fail(r)
  <2>1. InstallerTypeOK' BY <1>0, <1>2, FailTyped, WorkKeepsTypes
  <2>2. OnlyRun(r) => AllOrNothing(r)'
    <3>. SUFFICES ASSUME OnlyRun(r) PROVE AllOrNothing(r)' OBVIOUS
    <3>1. \A f \in Folders : desc[f].available => f \in DOMAIN backups[r] \/ disk'[f] # "none"
      BY <1>1 DEF InstallingAll
    <3>. QED BY <1>0, <1>1, <1>2, <3>1, FailKeeps DEF InstallingAll
  <2>. QED BY <1>0, <1>2, <2>1, <2>2, FailTyped, GoesOn DEF OnlyRun
<1>3. ASSUME NEW where \in Installing, Goto(r, where), UNCHANGED left
      PROVE  InstallerTypeOK' /\ TransactionInv'
  <2>0. pc' = [pc EXCEPT ![r] = where] /\ where \in Steps BY <1>0, <1>3 DEF Goto
  <2>1. InstallerTypeOK' BY <1>0, <1>3, <2>0, WorkKeepsTypes
  <2>2. OnlyRun(r) => AllOrNothing(r)'
    <3>. SUFFICES ASSUME OnlyRun(r) PROVE AllOrNothing(r)' OBVIOUS
    <3>1. PlanMade(r)' BY <1>1 DEF PlanMade, locals, bystanders
    <3>2. InstallingAll(r)'
      BY <1>1, <1>3 DEF InstallingAll, Saved, Superseded, InEngine, locals, bystanders
    <3>. QED BY <2>0, <3>1, <3>2 DEF AllOrNothing, Installing
  <2>. QED BY <1>0, <2>0, <2>1, <2>2, GoesOn DEF OnlyRun
<1>. QED BY <1>2, <1>3

\* Preparing, starting the build tool, and its end.
LEMMA PrepareKeeps ==
  ASSUME InstallerTypeOK, TransactionInv, NEW r \in Runs,
         Prepare(r) \/ StartUat(r) \/ Built(r), UNCHANGED bystanders
  PROVE  InstallerTypeOK' /\ TransactionInv'
<1>1. /\ pc[r] \in Installing /\ UNCHANGED <<disk, desc>> /\ UNCHANGED locals
      /\ Fail(r) \/ \E where \in Installing : Goto(r, where) /\ UNCHANGED left
  BY DEF Prepare, StartUat, Built, Installing
<1>. QED BY <1>1, BuildKeeps

\* The next folder has the plugin.
LEMMA InstalledKeeps ==
  ASSUME InstallerTypeOK, TransactionInv, NEW r \in Runs, pc[r] \in Installing,
         NEW f \in left[r], Installed(r, f), UNCHANGED locals, UNCHANGED bystanders
  PROVE  InstallerTypeOK' /\ TransactionInv'
<1>. USE DEF InstallerTypeOK, Installed, Describe, Goto
<1>0. /\ pc[r] \in Steps /\ "install" \in Steps /\ "install" \in Installing
      /\ pc' = [pc EXCEPT ![r] = "install"]
  BY DEF Steps, Installing
<1>1. f \in Folders /\ left' \in [Runs -> SUBSET Folders] /\ left'[r] = left[r] \ {f} OBVIOUS
<1>2. disk' \in [Folders -> Content] /\ desc' \in [Folders -> Descriptions]
  BY <1>1, FoldersTyped
<1>3. InstallerTypeOK' BY <1>0, <1>1, <1>2, WorkKeepsTypes
<1>4. OnlyRun(r) => AllOrNothing(r)' /\ \A g \in Folders : desc'[g].available => g \in detected \cup {Engine}
  <2>. SUFFICES ASSUME OnlyRun(r)
                PROVE  AllOrNothing(r)' /\ \A g \in Folders : desc'[g].available => g \in detected \cup {Engine}
    OBVIOUS
  <2>1. InstallingAll(r) /\ PlanMade(r) BY DEF OnlyRun, AllOrNothing
  <2>2. PlanMade(r)' /\ Saved(r)' BY <2>1 DEF PlanMade, Saved, InstallingAll, locals, bystanders
  <2>3. f \in plan[r].install /\ f \in detected \cup {Engine} BY <2>1 DEF InstallingAll, PlanMade
  <2>4. plan'[r].install \ left'[r] = (plan[r].install \ left[r]) \cup {f}
    BY <1>1, <2>3 DEF locals
  <2>5. \A g \in Folders : g # f => disk'[g] = disk[g] /\ desc'[g] = desc[g] BY <1>1
  <2>6. disk'[f] = "new" /\ desc'[f].available /\ desc'[f].checksum = "new" BY <1>1
  <2>7. InstallingAll(r)'
    <3>1. Superseded(r)' = Superseded(r) BY DEF Superseded, InEngine, locals, bystanders
    <3>2. left'[r] \subseteq plan'[r].install BY <1>1, <2>1 DEF InstallingAll, locals
    <3>3. \A g \in Folders : disk'[g] = IF g \in plan'[r].install \ left'[r] THEN "new" ELSE "none"
      BY <2>1, <2>4, <2>5, <2>6 DEF InstallingAll
    <3>4. \A g \in plan'[r].install \ left'[r] : desc'[g].available /\ desc'[g].checksum = "new"
      <4>1. plan[r].install \subseteq Folders BY DEF Plans
      <4>. QED BY <2>1, <2>4, <2>5, <2>6, <4>1 DEF InstallingAll
    <3>5. \A g \in Folders : desc'[g].available =>
            /\ g \in plan'[r].install \cup Superseded(r)'
            /\ g \in DOMAIN backups'[r] \/ g \in plan'[r].install \ left'[r]
      <4>1. plan' = plan /\ backups' = backups BY DEF locals
      <4>. QED BY <2>1, <2>3, <2>4, <2>5, <3>1, <4>1 DEF InstallingAll
    <3>. QED BY <2>2, <3>2, <3>3, <3>4, <3>5 DEF InstallingAll
  <2>8. AllOrNothing(r)' BY <1>0, <2>2, <2>7 DEF AllOrNothing, Installing
  <2>9. \A g \in Folders : desc'[g].available => g \in detected \cup {Engine}
    BY <2>3, <2>5 DEF OnlyRun
  <2>. QED BY <2>8, <2>9
<1>. HIDE DEF InstallerTypeOK, Installed, Describe, Goto
<1>. QED BY <1>0, <1>3, <1>4, GoesOn

\* What was built is copied to the next folder, or the run was cancelled.
LEMMA CopyToPluginKeeps ==
  ASSUME InstallerTypeOK, TransactionInv, NEW r \in Runs, CopyToPlugin(r), UNCHANGED bystanders
  PROVE  InstallerTypeOK' /\ TransactionInv'
<1>0. pc[r] \in Steps /\ pc[r] \in Installing BY DEF CopyToPlugin, Steps, Installing
<1>1. CASE Fail(r) /\ UNCHANGED <<disk, desc, locals>>
  BY <1>0, <1>1, BuildKeeps
<1>2. ASSUME NEW f \in Foreach(left[r]), (Installed(r, f) /\ UNCHANGED locals) \/ Throws(r, f)
      PROVE  InstallerTypeOK' /\ TransactionInv'
  <2>1. f \in left[r] /\ f \in Folders BY <1>2, NextFolder DEF InstallerTypeOK
  <2>2. CASE Installed(r, f) /\ UNCHANGED locals BY <1>0, <2>1, <2>2, InstalledKeeps
  <2>3. CASE Throws(r, f) BY <1>0, <2>1, <2>3, ThrowsTyped, ThrownIsBroken
  <2>. QED BY <1>2, <2>2, <2>3
<1>. QED BY <1>1, <1>2 DEF CopyToPlugin

\* The archive is extracted into the next folder, and may leave part of it there.
LEMMA ExtractKeeps ==
  ASSUME InstallerTypeOK, TransactionInv, NEW r \in Runs, Extract(r), UNCHANGED bystanders
  PROVE  InstallerTypeOK' /\ TransactionInv'
<1>0. pc[r] \in Steps /\ pc[r] \in Installing /\ pc[r] = "install" BY DEF Extract, Steps, Installing
<1>1. PICK f \in Foreach(left[r]) :
       \/ r \notin cancelled /\ Installed(r, f) /\ UNCHANGED locals
       \/ /\ \/ disk' = [disk EXCEPT ![f] = "partial"]
             \/ r \in cancelled /\ disk' = [disk EXCEPT ![f] = "new"]
          /\ Fail(r) /\ UNCHANGED <<desc, locals>>
       \/ Throws(r, f)
  BY DEF Extract
<1>2. f \in left[r] /\ f \in Folders BY NextFolder DEF InstallerTypeOK
<1>3. CASE Installed(r, f) /\ UNCHANGED locals BY <1>0, <1>2, <1>3, InstalledKeeps
<1>4. CASE Throws(r, f) BY <1>0, <1>2, <1>4, ThrowsTyped, ThrownIsBroken
<1>5. ASSUME NEW c \in {"partial", "new"}, disk' = [disk EXCEPT ![f] = c], Fail(r), UNCHANGED <<desc, locals>>
      PROVE  InstallerTypeOK' /\ TransactionInv'
  <2>1. disk' \in [Folders -> Content] BY <1>2, <1>5, FoldersTyped
  <2>2. InstallerTypeOK' BY <1>0, <1>5, <2>1, FailTyped, WorkKeepsTypes DEF InstallerTypeOK
  <2>3. OnlyRun(r) => AllOrNothing(r)'
    <3>. SUFFICES ASSUME OnlyRun(r) PROVE AllOrNothing(r)' OBVIOUS
    <3>1. InstallingAll(r) /\ PlanMade(r) BY <1>0 DEF OnlyRun, AllOrNothing
    <3>2. \A g \in Folders : desc[g].available => g \in DOMAIN backups[r] \/ disk'[g] # "none"
      BY <1>2, <1>5, <3>1 DEF InstallingAll, InstallerTypeOK
    <3>. QED BY <1>0, <1>5, <2>1, <3>1, <3>2, FailKeeps DEF InstallingAll
  <2>. QED BY <1>0, <1>5, <2>2, <2>3, FailTyped, GoesOn DEF OnlyRun
<1>. QED BY <1>1, <1>3, <1>4, <1>5

\* All chosen folders have the plugin, and no other is said to have one.
LEMMA CommitKeeps ==
  ASSUME InstallerTypeOK, TransactionInv, NEW r \in Runs, Commit(r), UNCHANGED bystanders
  PROVE  InstallerTypeOK' /\ TransactionInv' /\ DescribedUnlessFailed'
<1>. USE DEF InstallerTypeOK
<1>0. /\ pc[r] \in Steps /\ pc[r] \in Installing /\ left[r] = {} /\ disk' = disk
      /\ pc' = [pc EXCEPT ![r] = "committed"] /\ "committed" \in Ended
  BY DEF Commit, End, Goto, Steps, Installing, Ended
<1>1. /\ \A f \in Folders : desc'[f] \in Descriptions /\ desc'[f].checksum = desc[f].checksum
      /\ \A f \in Folders : desc'[f].available <=> desc[f].available /\ f \notin Superseded(r)
      /\ desc' \in [Folders -> Descriptions]
  <2>1. \A f \in Folders : desc'[f] =
          IF f \in Superseded(r) THEN [desc[f] EXCEPT !.available = FALSE] ELSE desc[f]
    BY DEF Commit
  <2>2. \A f \in Folders : desc'[f] \in Descriptions BY <2>1 DEF Descriptions
  <2>3. desc' = [f \in Folders |-> desc'[f]] BY DEF Commit
  <2>. HIDE DEF InstallerTypeOK
  <2>4. desc \in [Folders -> Descriptions] BY DEF InstallerTypeOK
  <2>5. desc' \in [Folders -> Descriptions] BY <2>2, <2>3
  <2>6. ASSUME NEW f \in Folders
        PROVE  /\ desc'[f].checksum = desc[f].checksum
               /\ desc'[f].available <=> desc[f].available /\ f \notin Superseded(r)
    <3>1. desc[f] \in Descriptions BY <2>4
    <3>. QED BY <2>1, <3>1 DEF Descriptions
  <2>. QED BY <2>2, <2>5, <2>6
<1>2. InstallerTypeOK' BY <1>0, <1>1, EndKeepsTypes DEF Commit
<1>3. OnlyRun(r) => \A f \in Folders :
        /\ desc'[f].available <=> f \in plan[r].install
        /\ disk'[f] = IF f \in plan[r].install THEN "new" ELSE "none"
        /\ desc'[f].available => desc'[f].checksum = "new" /\ f \in detected \cup {Engine}
  <2>. SUFFICES ASSUME OnlyRun(r), NEW f \in Folders
                PROVE  /\ desc'[f].available <=> f \in plan[r].install
                       /\ disk'[f] = IF f \in plan[r].install THEN "new" ELSE "none"
                       /\ desc'[f].available => desc'[f].checksum = "new" /\ f \in detected \cup {Engine}
    OBVIOUS
  <2>1. InstallingAll(r) /\ PlanMade(r) BY <1>0 DEF OnlyRun, AllOrNothing
  <2>2. plan[r].install \ left[r] = plan[r].install BY <1>0
  <2>3. f \in plan[r].install => f \notin Superseded(r)
    BY <2>1, PluginInstallerAssumption DEF PlanMade, Superseded, InEngine
  <2>. QED BY <1>0, <1>1, <2>1, <2>2, <2>3 DEF InstallingAll, OnlyRun
<1>4. TransactionInv'
  <2>1. OnlyRun(r) => \A f \in Folders : desc'[f].available =>
                         f \in detected \cup {Engine} /\ disk'[f] # "none"
    BY <1>3
  <2>. QED BY <1>0, <2>1, EndsWell
<1>5. DescribedUnlessFailed'
  <2>. SUFFICES ASSUME disturbed' = {}, \A s \in Runs : pc'[s] # "thrown"
                PROVE  Accurate' /\ \A f \in Folders :
                         desc'[f].available => (desc'[f].checksum = "new" <=> disk'[f] = "new")
    BY DEF DescribedUnlessFailed, Accurate
  <2>1. ~Broken BY <1>0 DEF Broken, bystanders, Steps, Installing
  <2>2. r \in Working BY <1>0 DEF Working, Steps, Installing, Ended
  <2>3. OnlyRun(r)
    <3>1. \A s \in Working : s \in Runs BY DEF Working
    <3>. QED BY <2>1, <2>2, <3>1 DEF TransactionInv, OnlyRun
  <2>. QED BY <1>3, <2>3 DEF Accurate
<1>. QED BY <1>2, <1>4, <1>5

\* A backup is put back.
LEMMA RestoreKeeps ==
  ASSUME InstallerTypeOK, TransactionInv, NEW r \in Runs, Restore(r), UNCHANGED bystanders,
         left[r] \subseteq DOMAIN backups[r]
  PROVE  InstallerTypeOK' /\ TransactionInv'
<1>. USE DEF InstallerTypeOK
<1>0. pc[r] \in Steps /\ pc[r] = "restore" BY DEF Restore, Steps
<1>1. PICK f \in Foreach(left[r]) :
        \/ /\ disk' = [disk EXCEPT ![f] = backups[r][f]]
           /\ left' = [left EXCEPT ![r] = @ \ {f}]
           /\ UNCHANGED <<desc, pc, locals>>
        \/ Throws(r, f)
  BY DEF Restore
<1>2. f \in left[r] /\ f \in Folders BY NextFolder
<1>3. CASE Throws(r, f) BY <1>0, <1>2, <1>3, ThrowsTyped, ThrownIsBroken
<1>4. CASE /\ disk' = [disk EXCEPT ![f] = backups[r][f]]
           /\ left' = [left EXCEPT ![r] = @ \ {f}]
           /\ UNCHANGED <<desc, pc, locals>>
  <2>1. left' \in [Runs -> SUBSET Folders] /\ left'[r] = left[r] \ {f} BY <1>4
  <2>2. pc' = [pc EXCEPT ![r] = "restore"] /\ "restore" \in Steps BY <1>0, <1>4 DEF Steps
  <2>3. backups[r][f] \in Content /\ f \in DOMAIN backups[r] BY <1>2, BackupsAre
  <2>4. disk' \in [Folders -> Content] BY <1>2, <1>4, <2>3, FoldersTyped
  <2>5. InstallerTypeOK' BY <1>0, <1>4, <2>1, <2>2, <2>4, WorkKeepsTypes
  <2>6. OnlyRun(r) => AllOrNothing(r)'
    <3>. SUFFICES ASSUME OnlyRun(r) PROVE AllOrNothing(r)' OBVIOUS
    <3>1. Restoring(r) /\ PlanMade(r) BY <1>0 DEF OnlyRun, AllOrNothing
    <3>2. PlanMade(r)' /\ Saved(r)'
      BY <1>4, <3>1 DEF PlanMade, Saved, Restoring, locals, bystanders
    <3>3. backups' = backups /\ before' = before BY <1>4 DEF locals
    <3>4. \A g \in DOMAIN backups[r] \ left'[r] : disk'[g] = before[r][g]
      <4>1. DOMAIN backups[r] \subseteq Folders BY BackupsAre
      <4>2. backups[r][f] = before[r][f] BY <2>3, <3>1 DEF Restoring, Saved
      <4>. QED BY <1>2, <1>4, <2>1, <3>1, <4>1, <4>2 DEF Restoring
    <3>5. \A g \in Folders : desc[g].available => g \in DOMAIN backups[r] \/ disk'[g] # "none"
      BY <1>2, <1>4, <2>3, <3>1 DEF Restoring
    <3>6. Restoring(r)' BY <1>4, <2>1, <3>1, <3>2, <3>3, <3>4, <3>5 DEF Restoring
    <3>. QED BY <2>2, <3>2, <3>6 DEF AllOrNothing, Installing
  <2>. HIDE DEF InstallerTypeOK
  <2>. QED BY <1>0, <1>4, <2>2, <2>5, <2>6, GoesOn DEF OnlyRun
<1>. QED BY <1>1, <1>3, <1>4

\* All backups are back.
LEMMA RestoredKeeps ==
  ASSUME InstallerTypeOK, TransactionInv, NEW r \in Runs, Restored(r), UNCHANGED bystanders
  PROVE  InstallerTypeOK' /\ TransactionInv'
<1>. USE DEF InstallerTypeOK
<1>0. /\ pc[r] \in Steps /\ pc[r] = "restore" /\ left[r] = {} /\ disk' = disk /\ desc' = desc
      /\ pc' = [pc EXCEPT ![r] = "failed"] /\ "failed" \in Ended
  BY DEF Restored, End, Goto, Steps, Ended
<1>1. InstallerTypeOK' BY <1>0, EndKeepsTypes DEF Restored
<1>2. OnlyRun(r) => \A f \in Folders : desc'[f].available =>
                         f \in detected \cup {Engine} /\ disk'[f] # "none"
  <2>. SUFFICES ASSUME OnlyRun(r), NEW f \in Folders, desc[f].available
                PROVE  f \in detected \cup {Engine} /\ disk[f] # "none"
    BY <1>0
  <2>1. Restoring(r) BY <1>0 DEF OnlyRun, AllOrNothing
  <2>2. f \in DOMAIN backups[r] => disk[f] = before[r][f] BY <1>0, <2>1 DEF Restoring
  <2>3. f \in DOMAIN backups[r] => before[r][f] # "none" BY <2>1 DEF Restoring, Saved
  <2>4. f \in DOMAIN backups[r] \/ disk[f] # "none" BY <2>1 DEF Restoring
  <2>. QED BY <2>2, <2>3, <2>4 DEF OnlyRun
<1>. QED BY <1>0, <1>1, <1>2, EndsWell

\* A run that begins alone, by true descriptions, has everything before it.
LEMMA BeginKeeps ==
  ASSUME InstallerTypeOK, TransactionInv, BusyInv, NEW r \in Runs, Start(r)
  PROVE  /\ InstallerTypeOK' /\ TransactionInv'
         /\ pc[r] = "idle" /\ pc' = [pc EXCEPT ![r] = "backup"] /\ inProgress'
         /\ UNCHANGED <<left, backups, undeleted, cancelled, ubtHolder>>
         /\ \E install, delete \in SUBSET Folders, build \in BOOLEAN : Begin(r, install, delete, build)
<1>. USE DEF InstallerTypeOK
<1>1. \E install, delete \in SUBSET Folders, build \in BOOLEAN :
        /\ Begin(r, install, delete, build)
        /\ (install = {Engine} /\ delete = {}) \/ (install \subseteq detected /\ delete = detected \ install)
  <2>0. detected \in SUBSET Folders /\ {} \in SUBSET Folders /\ {Engine} \in SUBSET Folders
    BY DEF Folders
  <2>1. CASE InstallInGame(r)
    <3>1. PICK selected \in SUBSET detected, build \in BOOLEAN :
            Begin(r, IF selected = {} THEN detected ELSE selected,
                  detected \ (IF selected = {} THEN detected ELSE selected), build)
      BY <2>1 DEF InstallInGame
    <3>. DEFINE install == IF selected = {} THEN detected ELSE selected
    <3>2. /\ install \subseteq detected
          /\ install \in SUBSET Folders /\ detected \ install \in SUBSET Folders
      BY <2>0
    <3>3. Begin(r, install, detected \ install, build) BY <3>1
    <3>. HIDE DEF install
    <3>. QED BY <3>2, <3>3
  <2>2. CASE InstallInEngine(r) BY <2>0, <2>2 DEF InstallInEngine
  <2>3. CASE \E build \in BOOLEAN : Begin(r, detected, {}, build)
    <3>1. {} = detected \ detected OBVIOUS
    <3>. QED BY <2>0, <2>3, <3>1
  <2>. QED BY <2>1, <2>2, <2>3 DEF Start, AutoUpdate
<1>2. PICK install \in SUBSET Folders, delete \in SUBSET Folders, build \in BOOLEAN :
        /\ Begin(r, install, delete, build)
        /\ (install = {Engine} /\ delete = {}) \/ (install \subseteq detected /\ delete = detected \ install)
  BY <1>1
<1>0. Begin(r, install, delete, build) /\ InstallerTypeOK BY <1>2
<1>3. InstallerTypeOK' /\ Working' = Working \cup {r}
  <2>. HIDE DEF InstallerTypeOK
  <2>. QED BY <1>0, BeginKeepsTypes
<1>4. /\ pc[r] = "idle" /\ pc' = [pc EXCEPT ![r] = "backup"] /\ inProgress'
      /\ UNCHANGED <<left, backups, undeleted, cancelled, ubtHolder>>
  BY <1>2 DEF Begin, Goto
<1>5. /\ UNCHANGED <<disk, desc, detected>>
      /\ plan' = [plan EXCEPT ![r] = [install |-> install, delete |-> delete, build |-> build]]
      /\ before' = [before EXCEPT ![r] = disk]
      /\ disturbed' = IF Working = {} /\ Accurate THEN disturbed ELSE disturbed \cup Working \cup {r}
  BY <1>2 DEF Begin
<1>6. TransactionInv'
  <2>. SUFFICES ASSUME ~Broken' PROVE TransactionInv' BY DEF TransactionInv
  <2>1. Working = {} /\ Accurate BY <1>5 DEF Broken
  <2>2. ~Broken BY <1>4, <1>5, <2>1 DEF Broken
  <2>3. Working' = {r} BY <1>3, <2>1
  <2>5. DOMAIN backups[r] = {} BY <1>4 DEF BusyInv
  <2>6. PlanMade(r)' BY <1>2, <1>5 DEF PlanMade
  <2>7. before'[r] = disk /\ backups' = backups BY <1>4, <1>5
  <2>8. BackingUp(r)' BY <1>5, <2>1, <2>5, <2>7 DEF BackingUp, Accurate
  <2>9. AllOrNothing(r)' BY <1>4, <2>6, <2>8 DEF AllOrNothing, Installing
  <2>10. \A f \in Folders : desc'[f].available => f \in detected' \cup {Engine}
    BY <1>5, <2>2 DEF TransactionInv
  <2>. QED BY <2>3, <2>9, <2>10 DEF TransactionInv
<1>. QED BY <1>2, <1>3, <1>4, <1>6

\* A cancellation changes nothing at once.
LEMMA CancelKeeps ==
  ASSUME InstallerTypeOK, TransactionInv, Cancel
  PROVE  InstallerTypeOK' /\ TransactionInv'
<1>1. PICK runs \in {{r} : r \in Working} \cup {Working} :
        /\ cancelled' = cancelled \cup runs
        /\ UNCHANGED <<disk, desc, detected, location, pc, plan, left, backups, undeleted, deleted, before, disturbed>>
        /\ inProgress' = FALSE
  BY DEF Cancel
<1>2. runs \subseteq Runs BY DEF Working
<1>3. InstallerTypeOK' BY <1>1, <1>2 DEF InstallerTypeOK, Working
<1>4. TransactionInv'
  BY <1>1 DEF TransactionInv, Broken, Working, AllOrNothing, PlanMade, BackingUp, Deleting,
              InstallingAll, Restoring, Saved, Superseded, InEngine
<1>. QED BY <1>3, <1>4

\* DeletePlugin is somebody else's work; without a run it leaves true descriptions.
LEMMA DeletePluginKeeps ==
  ASSUME InstallerTypeOK, TransactionInv, DeletePlugin
  PROVE  InstallerTypeOK' /\ TransactionInv'
<1>. USE DEF InstallerTypeOK
<1>1. PICK kept \in SUBSET {f \in Folders : desc[f].available} :
       /\ disk' = [f \in Folders |-> IF ~desc[f].available THEN disk[f]
                                     ELSE IF f \in kept THEN "partial" ELSE "none"]
       /\ desc' = [f \in Folders |-> [desc[f] EXCEPT !.available = @ /\ f \in kept]]
  BY DEF DeletePlugin
<1>2. UNCHANGED <<detected, location, runVars>> /\ disturbed' = disturbed \cup Working
  BY DEF DeletePlugin
<1>3. disk' \in [Folders -> Content] BY <1>1 DEF Content
<1>4. ASSUME NEW f \in Folders
      PROVE  desc'[f] \in Descriptions /\ (desc'[f].available <=> desc[f].available /\ f \in kept)
  <2>1. desc[f] \in Descriptions /\ desc'[f] = [desc[f] EXCEPT !.available = @ /\ f \in kept] BY <1>1
  <2>. QED BY <2>1 DEF Descriptions
<1>5. desc' \in [Folders -> Descriptions]
  <2>1. desc' = [f \in Folders |-> desc'[f]] BY <1>1
  <2>. QED BY <1>4, <2>1
<1>6. InstallerTypeOK' BY <1>2, <1>3, <1>5 DEF runVars, Working
<1>7. TransactionInv'
  <2>. SUFFICES ASSUME ~Broken' PROVE TransactionInv' BY DEF TransactionInv
  <2>1. Working = {} /\ ~Broken BY <1>2 DEF Broken, runVars
  <2>2. Working' = {} BY <1>2, <2>1 DEF Working, runVars
  <2>3. \A f \in Folders : desc'[f].available => f \in detected' \cup {Engine} /\ disk'[f] # "none"
    BY <1>1, <1>2, <1>4, <2>1 DEF TransactionInv
  <2>. QED BY <2>2, <2>3 DEF TransactionInv
<1>. QED BY <1>6, <1>7

-----------------------------------------------------------------------------
\* A working run goes on: it leaves the build with the lock, and what it fails
\* to do it has backups of.
LEMMA GoesOnBusy ==
  ASSUME InstallerTypeOK, BusyInv, NEW r \in Runs, pc[r] \in Steps, NEW where \in Steps,
         pc' = [pc EXCEPT ![r] = where], UNCHANGED <<inProgress, undeleted>>, UNCHANGED bystanders,
         UNCHANGED refresherVars,
         \A s \in Runs : s # r => backups'[s] = backups[s] /\ left'[s] = left[s],
         where = "restore" => left'[r] \subseteq DOMAIN backups'[r],
         \/ ubtHolder' = ubtHolder /\ (pc[r] = "build" => where = "build")
         \/ ubtHolder' = r /\ where = "build"
         \/ ubtHolder' = Nobody
  PROVE  BusyInv'
<1>. USE DEF InstallerTypeOK, BusyInv, bystanders
<1>1. Working' = Working /\ r \in Working BY DEF Working, Idle, Steps, Installing, Ended
<1>2. inProgress' => Working' \ cancelled' # {} BY <1>1
<1>3. \A s \in cancelled' : pc'[s] # "idle" BY DEF Steps, Installing
<1>4. /\ undeleted' \/ \A s \in Runs \ Working' : DOMAIN backups'[s] = {}
      /\ \A s \in Runs : pc'[s] = "idle" => DOMAIN backups'[s] = {}
  BY <1>1 DEF Steps, Installing
<1>5. \A s \in Runs : pc'[s] = "restore" => left'[s] \subseteq DOMAIN backups'[s] OBVIOUS
<1>6. /\ refreshInProgress' => Refreshing' \ stopped' # {}
      /\ waiting' \subseteq Refreshing' /\ stopped' \subseteq Refreshes
      /\ \A t \in stopped' : tool'[t] # 0
      /\ Refreshing' \ waiting' = Refreshing \ waiting
  BY DEF refresherVars, Refreshing
<1>7. \/ ubtHolder' = Nobody
      \/ ubtHolder' \in Runs /\ pc'[ubtHolder'] = "build"
      \/ ubtHolder' \in Refreshing' \ waiting'
  BY <1>6
<1>. QED BY <1>2, <1>3, <1>4, <1>5, <1>6, <1>7

\* A run ends: no progress is shown for it, and no backup is left of it, unless
\* that could not be deleted.
LEMMA EndsBusy ==
  ASSUME InstallerTypeOK, BusyInv, NEW r \in Runs, pc[r] \in Steps \ {"build"}, NEW how \in Ended,
         End(r, how), UNCHANGED bystanders, UNCHANGED refresherVars, UNCHANGED ubtHolder
  PROVE  BusyInv'
<1>. USE DEF InstallerTypeOK, BusyInv, bystanders, End, Goto
<1>1. Working' = Working \ {r} /\ r \in Working BY DEF Working, Idle, Steps, Installing, Ended
<1>2. inProgress' => Working' \ cancelled' # {} BY <1>1
<1>3. \A s \in cancelled' : pc'[s] # "idle" BY DEF Ended
<1>4. /\ \A s \in Working \ {r} : DOMAIN backups'[s] = DOMAIN backups[s]
      /\ undeleted' \/ \A s \in Runs \ (Working \ {r}) : DOMAIN backups'[s] = {}
      /\ \A s \in Runs : DOMAIN backups[s] = {} => DOMAIN backups'[s] = {}
  BY DisposeTyped
<1>5. undeleted' \/ \A s \in Runs \ Working' : DOMAIN backups'[s] = {} BY <1>1, <1>4
<1>50. \A s \in Runs : pc'[s] = "idle" => DOMAIN backups'[s] = {} BY <1>4 DEF Ended
<1>6. \A s \in Runs : pc'[s] = "restore" => left'[s] \subseteq DOMAIN backups'[s]
  <2>. SUFFICES ASSUME NEW s \in Runs, pc'[s] = "restore"
                PROVE  left'[s] \subseteq DOMAIN backups'[s]
    OBVIOUS
  <2>1. s # r /\ pc[s] = "restore" /\ left'[s] = left[s] BY DEF Ended
  <2>2. s \in Working \ {r} BY <2>1 DEF Working, Ended
  <2>. QED BY <1>4, <2>1, <2>2
<1>7. /\ refreshInProgress' => Refreshing' \ stopped' # {}
      /\ waiting' \subseteq Refreshing' /\ stopped' \subseteq Refreshes
      /\ \A t \in stopped' : tool'[t] # 0
      /\ Refreshing' \ waiting' = Refreshing \ waiting
  BY DEF refresherVars, Refreshing
<1>8. \/ ubtHolder' = Nobody
      \/ ubtHolder' \in Runs /\ pc'[ubtHolder'] = "build"
      \/ ubtHolder' \in Refreshing' \ waiting'
  BY <1>7
<1>. QED BY <1>2, <1>3, <1>5, <1>50, <1>6, <1>7, <1>8

\* A run that throws ends.
LEMMA ThrowsBusy ==
  ASSUME InstallerTypeOK, BusyInv, NEW r \in Runs, pc[r] \in Steps \ {"build"}, NEW f, Throws(r, f),
         UNCHANGED bystanders, UNCHANGED refresherVars, UNCHANGED ubtHolder
  PROVE  BusyInv'
<1>1. End(r, "thrown") /\ "thrown" \in Ended BY DEF Throws, Ended
<1>. QED BY <1>1, EndsBusy

\* A run that fails has what it restores, and not the lock.
LEMMA FailBusy ==
  ASSUME InstallerTypeOK, BusyInv, NEW r \in Runs, pc[r] \in Steps, Fail(r), UNCHANGED locals,
         UNCHANGED bystanders, UNCHANGED refresherVars,
         (ubtHolder' = ubtHolder /\ pc[r] # "build") \/ ubtHolder' = Nobody
  PROVE  BusyInv'
<1>1. /\ pc' = [pc EXCEPT ![r] = "restore"] /\ "restore" \in Steps
      /\ left'[r] = DOMAIN backups'[r]
      /\ \A s \in Runs : s # r => backups'[s] = backups[s] /\ left'[s] = left[s]
  BY DEF InstallerTypeOK, Fail, Goto, locals, Steps
<1>2. UNCHANGED <<inProgress, undeleted>> BY DEF locals
<1>. QED BY <1>1, <1>2, GoesOnBusy

\* No step of a run leaves anything behind.
LEMMA WorkBusy ==
  ASSUME InstallerTypeOK, BusyInv, NEW r \in Runs, Work(r), UNCHANGED refresherVars
  PROVE  BusyInv'
<1>0. UNCHANGED bystanders BY DEF Work
<1>. DEFINE OthersKept == \A s \in Runs : s # r => backups'[s] = backups[s] /\ left'[s] = left[s]
<1>1. CASE Backup(r)
  <2>1. PICK f \in Foreach(ToBackup(r)) :
          \/ /\ backups' = [backups EXCEPT ![r] = WithBackup(@, f)]
             /\ UNCHANGED <<desc, pc, plan, left, undeleted, inProgress, before>>
          \/ Throws(r, f)
    BY <1>1 DEF Backup
  <2>2. pc[r] \in Steps \ {"build"} /\ pc[r] = "backup" /\ ubtHolder' = ubtHolder
    BY <1>1 DEF Backup, Steps
  <2>3. CASE Throws(r, f) BY <1>0, <2>2, <2>3, ThrowsBusy
  <2>4. CASE /\ backups' = [backups EXCEPT ![r] = WithBackup(@, f)]
             /\ UNCHANGED <<desc, pc, plan, left, undeleted, inProgress, before>>
    <3>1. pc' = [pc EXCEPT ![r] = "backup"] /\ OthersKept /\ "backup" \in Steps
      BY <2>2, <2>4 DEF InstallerTypeOK, Steps
    <3>. QED BY <1>0, <2>2, <2>4, <3>1, GoesOnBusy
  <2>. QED BY <2>1, <2>3, <2>4
<1>2. CASE BackedUp(r) \/ Deleted(r)
  <2>1. PICK where \in Steps \ {"restore"} :
          /\ pc' = [pc EXCEPT ![r] = where] /\ pc[r] \in Steps \ {"build"}
          /\ ubtHolder' = ubtHolder /\ UNCHANGED locals
    BY <1>2 DEF BackedUp, Deleted, Goto, Steps, Installing
  <2>2. OthersKept BY <1>2, <2>1 DEF BackedUp, Deleted, InstallerTypeOK, locals
  <2>3. UNCHANGED <<inProgress, undeleted>> BY <2>1 DEF locals
  <2>. QED BY <1>0, <2>1, <2>2, <2>3, GoesOnBusy
<1>3. CASE DeleteUnselected(r)
  <2>1. PICK f : (DeleteFolder(f) /\ UNCHANGED <<pc, left>>) \/ Fail(r)
    BY <1>3 DEF DeleteUnselected
  <2>2. /\ pc[r] \in Steps \ {"build"} /\ pc[r] = "delete" /\ ubtHolder' = ubtHolder
        /\ UNCHANGED locals
    BY <1>3 DEF DeleteUnselected, Steps
  <2>3. CASE Fail(r) BY <1>0, <2>2, <2>3, FailBusy
  <2>4. CASE UNCHANGED <<pc, left>>
    <3>1. pc' = [pc EXCEPT ![r] = "delete"] /\ OthersKept /\ "delete" \in Steps /\ UNCHANGED <<inProgress, undeleted>>
      BY <2>2, <2>4 DEF InstallerTypeOK, Steps, locals
    <3>. QED BY <1>0, <2>2, <3>1, GoesOnBusy
  <2>. QED BY <2>1, <2>3, <2>4
<1>4. CASE Prepare(r) \/ StartUat(r) \/ Built(r)
  <2>1. /\ pc[r] \in Steps /\ UNCHANGED locals
        /\ \/ /\ Fail(r)
              /\ (ubtHolder' = ubtHolder /\ pc[r] # "build") \/ ubtHolder' = Nobody
           \/ \E where \in Steps \ {"restore"} :
                /\ pc' = [pc EXCEPT ![r] = where] /\ UNCHANGED left
                /\ \/ ubtHolder' = ubtHolder /\ pc[r] # "build"
                   \/ ubtHolder' = r /\ where = "build"
                   \/ ubtHolder' = Nobody
    BY <1>4 DEF Prepare, StartUat, Built, RunWithLock, Exited, Goto, Steps, Installing
  <2>2. CASE Fail(r) /\ ((ubtHolder' = ubtHolder /\ pc[r] # "build") \/ ubtHolder' = Nobody)
    BY <1>0, <2>1, <2>2, FailBusy
  <2>3. ASSUME NEW where \in Steps \ {"restore"}, pc' = [pc EXCEPT ![r] = where], UNCHANGED left,
               \/ ubtHolder' = ubtHolder /\ pc[r] # "build"
               \/ ubtHolder' = r /\ where = "build"
               \/ ubtHolder' = Nobody
        PROVE  BusyInv'
    <3>1. OthersKept /\ UNCHANGED <<inProgress, undeleted>> BY <2>1, <2>3 DEF locals
    <3>. QED BY <1>0, <2>1, <2>3, <3>1, GoesOnBusy
  <2>. QED BY <2>1, <2>2, <2>3
<1>5. CASE CopyToPlugin(r) \/ Extract(r)
  <2>0. pc[r] \in Steps \ {"build"} /\ ubtHolder' = ubtHolder
    BY <1>5 DEF CopyToPlugin, Extract, Steps, Installing
  <2>1. (Fail(r) /\ UNCHANGED locals) \/ \E f : (Installed(r, f) /\ UNCHANGED locals) \/ Throws(r, f)
    BY <1>5 DEF CopyToPlugin, Extract
  <2>2. CASE Fail(r) /\ UNCHANGED locals BY <1>0, <2>0, <2>2, FailBusy
  <2>3. ASSUME NEW f, Throws(r, f) PROVE BusyInv' BY <1>0, <2>0, <2>3, ThrowsBusy
  <2>4. ASSUME NEW f, Installed(r, f), UNCHANGED locals PROVE BusyInv'
    <3>1. pc' = [pc EXCEPT ![r] = "install"] /\ OthersKept /\ "install" \in Steps /\ UNCHANGED <<inProgress, undeleted>>
      BY <2>4 DEF Installed, Goto, InstallerTypeOK, Steps, Installing, locals
    <3>. QED BY <1>0, <2>0, <3>1, GoesOnBusy
  <2>. QED BY <2>1, <2>2, <2>3, <2>4
<1>6. CASE Commit(r) \/ Restored(r)
  <2>1. PICK how \in Ended : End(r, how) BY <1>6 DEF Commit, Restored, Ended
  <2>2. pc[r] \in Steps \ {"build"} /\ ubtHolder' = ubtHolder
    BY <1>6 DEF Commit, Restored, Steps, Installing
  <2>. QED BY <1>0, <2>1, <2>2, EndsBusy
<1>7. CASE Restore(r)
  <2>1. PICK f \in Foreach(left[r]) :
          \/ left' = [left EXCEPT ![r] = @ \ {f}] /\ UNCHANGED <<desc, pc, locals>>
          \/ Throws(r, f)
    BY <1>7 DEF Restore
  <2>2. pc[r] \in Steps \ {"build"} /\ pc[r] = "restore" /\ ubtHolder' = ubtHolder
    BY <1>7 DEF Restore, Steps
  <2>3. CASE Throws(r, f) BY <1>0, <2>2, <2>3, ThrowsBusy
  <2>4. CASE left' = [left EXCEPT ![r] = @ \ {f}] /\ UNCHANGED <<desc, pc, locals>>
    <3>1. /\ pc' = [pc EXCEPT ![r] = "restore"] /\ OthersKept /\ "restore" \in Steps
          /\ UNCHANGED <<inProgress, undeleted>> /\ left'[r] \subseteq DOMAIN backups'[r]
      BY <2>2, <2>4 DEF InstallerTypeOK, BusyInv, Steps, locals
    <3>. QED BY <1>0, <2>2, <3>1, GoesOnBusy
  <2>. QED BY <2>1, <2>3, <2>4
<1>. QED BY <1>1, <1>2, <1>3, <1>4, <1>5, <1>6, <1>7 DEF Work

\* A run begins with nothing, a cancellation hides the progress, and DeletePlugin
\* leaves the runs alone.
LEMMA UsersBusy ==
  ASSUME InstallerTypeOK, TransactionInv, BusyInv, UNCHANGED refresherVars,
         (\E r \in Runs : Start(r)) \/ Cancel \/ DeletePlugin
  PROVE  BusyInv'
<1>0. /\ refreshInProgress' => Refreshing' \ stopped' # {}
      /\ waiting' \subseteq Refreshing' /\ stopped' \subseteq Refreshes
      /\ \A t \in stopped' : tool'[t] # 0
      /\ Refreshing' \ waiting' = Refreshing \ waiting
  BY DEF refresherVars, Refreshing, BusyInv
<1>1. ASSUME NEW r \in Runs, Start(r) PROVE BusyInv'
  <2>1. /\ pc[r] = "idle" /\ pc' = [pc EXCEPT ![r] = "backup"]
        /\ UNCHANGED <<left, backups, undeleted, cancelled, ubtHolder>>
    BY <1>1, BeginKeeps
  <2>2. Working' = Working \cup {r} /\ r \notin cancelled
    BY <2>1 DEF Working, Ended, BusyInv, InstallerTypeOK
  <2>3. Working' \ cancelled' # {} BY <2>1, <2>2
  <2>4. /\ \A s \in cancelled' : pc'[s] # "idle"
        /\ undeleted' \/ \A s \in Runs \ Working' : DOMAIN backups'[s] = {}
        /\ \A s \in Runs : pc'[s] = "idle" => DOMAIN backups'[s] = {}
        /\ \A s \in Runs : pc'[s] = "restore" => left'[s] \subseteq DOMAIN backups'[s]
    BY <2>1, <2>2 DEF InstallerTypeOK, BusyInv
  <2>5. \/ ubtHolder' = Nobody
        \/ ubtHolder' \in Runs /\ pc'[ubtHolder'] = "build"
        \/ ubtHolder' \in Refreshing' \ waiting'
    BY <1>0, <2>1 DEF InstallerTypeOK, BusyInv
  <2>. QED BY <1>0, <2>3, <2>4, <2>5 DEF BusyInv
<1>2. CASE Cancel
  <2>1. PICK runs \in {{r} : r \in Working} \cup {Working} : cancelled' = cancelled \cup runs
    BY <1>2 DEF Cancel
  <2>2. runs \subseteq Working /\ Working' = Working /\ \A r \in Working : pc[r] # "idle"
    BY <1>2, <2>1 DEF Cancel, Working
  <2>3. /\ inProgress' = FALSE /\ UNCHANGED <<pc, left, backups, undeleted, ubtHolder>> BY <1>2 DEF Cancel
  <2>. QED BY <1>0, <2>1, <2>2, <2>3 DEF BusyInv
<1>3. CASE DeletePlugin
  <2>1. UNCHANGED <<pc, left, backups, undeleted, cancelled, inProgress, ubtHolder>>
    BY <1>3 DEF DeletePlugin, runVars
  <2>2. Working' = Working BY <2>1 DEF Working
  <2>. QED BY <1>0, <2>1, <2>2 DEF BusyInv
<1>. QED BY <1>1, <1>2, <1>3

-----------------------------------------------------------------------------
\* Where a refresh goes from a tool that did or did not do it.
LEMMA NextTool ==
  ASSUME RefresherTypeOK, NEW t \in Refreshing, TryNext(t) \/ EndRefresh(t)
  PROVE  \E n \in 1..5 : /\ tool' = [tool EXCEPT ![t] = n]
                         /\ n \in Tools => refreshInProgress' = refreshInProgress
                         /\ n \notin Tools => refreshInProgress' = (t \in stopped /\ refreshInProgress)
<1>1. CASE EndRefresh(t)
  <2>1. 5 \in 1..5 /\ 5 \notin Tools BY DEF Tools
  <2>. QED BY <1>1, <2>1 DEF EndRefresh
<1>2. CASE TryNext(t) /\ tool[t] # 4
  <2>1. tool[t] \in 1..3 BY <1>2 DEF Refreshing, Tools
  <2>2. tool[t] + 1 \in 1..5 /\ tool[t] + 1 \in Tools BY <2>1 DEF Tools
  <2>3. tool' = [tool EXCEPT ![t] = tool[t] + 1] /\ refreshInProgress' = refreshInProgress
    BY <1>2 DEF TryNext
  <2>. QED BY <2>2, <2>3
<1>. QED BY <1>1, <1>2 DEF TryNext

\* A refresh that has no tool running or just ended it goes on, or is over.
LEMMA NextToolBusy ==
  ASSUME InstallerTypeOK, RefresherTypeOK, BusyInv, UNCHANGED installerVars,
         NEW t \in Refreshing \ waiting, TryNext(t) \/ EndRefresh(t),
         UNCHANGED <<waiting, stopped>>,
         (ubtHolder' = ubtHolder /\ ubtHolder # t) \/ ubtHolder' = Nobody
  PROVE  RefresherTypeOK' /\ BusyInv'
<1>. USE DEF RefresherTypeOK
<1>1. t \in Refreshes /\ tool[t] \in Tools /\ tool[t] # 0 BY DEF Refreshing, Tools
<1>2. PICK n \in 1..5 : /\ tool' = [tool EXCEPT ![t] = n]
                        /\ n \in Tools => refreshInProgress' = refreshInProgress
                        /\ n \notin Tools => refreshInProgress' = (t \in stopped /\ refreshInProgress)
  BY NextTool
<1>3. refreshInProgress' \in BOOLEAN BY <1>2, Zenon
<1>4. RefresherTypeOK' BY <1>1, <1>2, <1>3
<1>5. Refreshing' = IF n \in Tools THEN Refreshing ELSE Refreshing \ {t}
  BY <1>1, <1>2 DEF Refreshing
<1>6. refreshInProgress' => Refreshing' \ stopped' # {}
  <2>1. CASE n \in Tools BY <1>2, <1>5, <2>1 DEF BusyInv
  <2>2. CASE n \notin Tools
    <3>1. refreshInProgress' => t \in stopped /\ refreshInProgress BY <1>2, <2>2
    <3>2. Refreshing' = Refreshing \ {t} /\ stopped' = stopped BY <1>5, <2>2
    <3>. QED BY <3>1, <3>2 DEF BusyInv
  <2>. QED BY <2>1, <2>2
<1>7. /\ waiting' \subseteq Refreshing' /\ stopped' \subseteq Refreshes
      /\ \A u \in stopped' : tool'[u] # 0
  BY <1>1, <1>2, <1>5 DEF BusyInv
<1>8. UNCHANGED <<pc, left, backups, undeleted, cancelled, inProgress>> BY DEF installerVars, runVars
<1>9. Working' = Working BY <1>8 DEF Working
<1>10. \/ ubtHolder' = Nobody
       \/ ubtHolder' \in Runs /\ pc'[ubtHolder'] = "build"
       \/ ubtHolder' \in Refreshing' \ waiting'
  BY <1>5, <1>8 DEF BusyInv
<1>. QED BY <1>4, <1>6, <1>7, <1>8, <1>9, <1>10 DEF BusyInv

\* A refresh holds the lock as itself only.
LEMMA HoldsAsRefresh ==
  ASSUME BusyInv, NEW t \in Refreshes, ubtHolder = t
  PROVE  t \in Refreshing \ waiting
BY RiderAssumption DEF BusyInv

\* No step of a refresh leaves anything behind.
LEMMA RefreshBusy ==
  ASSUME InstallerTypeOK, RefresherTypeOK, BusyInv, UNCHANGED installerVars,
         NEW t \in Refreshes, RefreshProjects(t) \/ RefreshWork(t) \/ CancelRefresh(t)
  PROVE  RefresherTypeOK' /\ BusyInv'
<1>. USE DEF RefresherTypeOK
<1>0. UNCHANGED <<pc, left, backups, undeleted, cancelled, inProgress>> BY DEF installerVars, runVars
<1>00. Working' = Working BY <1>0 DEF Working
<1>1. CASE RefreshProjects(t)
  <2>1. /\ tool[t] = 0 /\ tool' = [tool EXCEPT ![t] = 1] /\ refreshInProgress' = TRUE
        /\ UNCHANGED <<waiting, stopped, ubtHolder>>
    BY <1>1 DEF RefreshProjects
  <2>2. RefresherTypeOK' BY <2>1
  <2>3. Refreshing' = Refreshing \cup {t} /\ t \notin stopped
    BY <2>1 DEF Refreshing, Tools, BusyInv
  <2>4. \A u \in stopped' : tool'[u] # 0 BY <2>1 DEF BusyInv
  <2>. QED BY <1>0, <1>00, <2>1, <2>2, <2>3, <2>4 DEF BusyInv
<1>2. CASE CheckTool(t)
  <2>1. t \in Refreshing \ waiting /\ ubtHolder # t /\ UNCHANGED <<stopped, ubtHolder>>
    BY <1>2 DEF CheckTool
  <2>2. CASE TryNext(t) /\ UNCHANGED waiting BY <2>1, <2>2, NextToolBusy
  <2>3. CASE waiting' = waiting \cup {t} /\ UNCHANGED <<tool, refreshInProgress>>
    <3>1. Refreshing' = Refreshing BY <2>3 DEF Refreshing
    <3>. QED BY <1>0, <1>00, <2>1, <2>3, <3>1 DEF BusyInv
  <2>. QED BY <1>2, <2>2, <2>3 DEF CheckTool
<1>3. CASE StartTool(t)
  <2>1. /\ t \in waiting /\ waiting' = waiting \ {t} /\ ubtHolder' = t
        /\ UNCHANGED <<tool, stopped, refreshInProgress>>
    BY <1>3 DEF StartTool, RunWithLock
  <2>2. Refreshing' = Refreshing BY <2>1 DEF Refreshing
  <2>. QED BY <1>0, <1>00, <2>1, <2>2 DEF BusyInv
<1>4. CASE ToolExited(t) \/ UvsTimedOut(t) \/ KilledByCancel(t)
  <2>1. /\ ubtHolder = t /\ ubtHolder' = Nobody /\ UNCHANGED <<waiting, stopped>>
        /\ TryNext(t) \/ EndRefresh(t)
    BY <1>4 DEF ToolExited, UvsTimedOut, KilledByCancel, TimedOut, Exited
  <2>2. t \in Refreshing \ waiting BY <2>1, HoldsAsRefresh
  <2>. QED BY <2>1, <2>2, NextToolBusy
<1>5. CASE CancelRefresh(t)
  <2>1. /\ t \in Refreshing /\ stopped' = stopped \cup {t} /\ refreshInProgress' = FALSE
        /\ UNCHANGED <<tool, waiting, ubtHolder>>
    BY <1>5 DEF CancelRefresh
  <2>2. Refreshing' = Refreshing /\ tool[t] # 0 BY <2>1 DEF Refreshing, Tools
  <2>. QED BY <1>0, <1>00, <2>1, <2>2 DEF BusyInv
<1>. QED BY <1>1, <1>2, <1>3, <1>4, <1>5 DEF RefreshWork

-----------------------------------------------------------------------------
\* A run's steps keep all of it.
LEMMA WorkKeeps ==
  ASSUME InstallerInv, NEW r \in Runs, Work(r), UNCHANGED refresherVars
  PROVE  InstallerInv'
<1>. USE DEF InstallerInv
<1>0. UNCHANGED bystanders BY DEF Work
<1>1. BusyInv' BY WorkBusy
<1>2. RefresherTypeOK' BY DEF RefresherTypeOK, refresherVars
<1>3. CASE Commit(r) BY <1>0, <1>1, <1>2, <1>3, CommitKeeps
<1>4. CASE ~Commit(r)
  <2>1. pc[r] = "restore" => left[r] \subseteq DOMAIN backups[r] BY DEF BusyInv
  <2>2. InstallerTypeOK' /\ TransactionInv'
    BY <1>0, <1>4, <2>1, BackupKeeps, BackedUpKeeps, DeleteKeeps, DeletedKeeps, PrepareKeeps,
       CopyToPluginKeeps, ExtractKeeps, RestoreKeeps, RestoredKeeps DEF Work, Restore
  <2>3. pc'[r] \in Steps \cup {"failed", "thrown"}
    BY <1>4 DEF InstallerTypeOK, Work, Backup, BackedUp, DeleteUnselected, Deleted, Prepare, StartUat,
                Built, CopyToPlugin, Extract, Restore, Restored, Throws, End, Fail, Installed, Goto,
                Steps, Installing
  <2>4. DescribedUnlessFailed'
    <3>1. pc'[r] # "idle" /\ pc'[r] # "committed" BY <2>3 DEF Steps, Installing
    <3>2. Working' = {} => pc'[r] \in {"failed", "thrown"}
      BY <2>3 DEF Working, Steps, Installing, Ended
    <3>3. (Working' = {} /\ disturbed' = {} /\ \A s \in Runs : pc'[s] # "thrown")
            => \A f \in Folders : desc'[f].available => disk'[f] # "none"
      BY <2>2 DEF TransactionInv, Broken
    <3>. QED BY <3>2, <3>3 DEF DescribedUnlessFailed
  <2>. QED BY <1>1, <1>2, <2>2, <2>4
<1>. QED BY <1>3, <1>4

\* So do those of the user.
LEMMA UsersKeep ==
  ASSUME InstallerInv, UNCHANGED refresherVars, (\E r \in Runs : Start(r)) \/ Cancel \/ DeletePlugin
  PROVE  InstallerInv'
<1>. USE DEF InstallerInv
<1>1. BusyInv' BY UsersBusy
<1>2. RefresherTypeOK' BY DEF RefresherTypeOK, refresherVars
<1>3. InstallerTypeOK' /\ TransactionInv' BY BeginKeeps, CancelKeeps, DeletePluginKeeps
<1>4. DescribedUnlessFailed'
  <2>1. ASSUME NEW r \in Runs, Start(r) PROVE DescribedUnlessFailed'
    <3>1. pc'[r] = "backup" BY <2>1, BeginKeeps DEF InstallerTypeOK
    <3>. QED BY <3>1 DEF DescribedUnlessFailed, Working, Ended
  <2>2. CASE Cancel BY <2>2 DEF Cancel, DescribedUnlessFailed, Working, Accurate
  <2>3. CASE DeletePlugin
    <3>1. PICK kept \in SUBSET {f \in Folders : desc[f].available} :
           /\ disk' = [f \in Folders |-> IF ~desc[f].available THEN disk[f]
                                         ELSE IF f \in kept THEN "partial" ELSE "none"]
           /\ desc' = [f \in Folders |-> [desc[f] EXCEPT !.available = @ /\ f \in kept]]
      BY <2>3 DEF DeletePlugin
    <3>2. UNCHANGED pc /\ disturbed' = disturbed \cup Working /\ Working' = Working
      BY <2>3 DEF DeletePlugin, runVars, Working
    <3>3. ASSUME NEW f \in Folders
          PROVE  /\ desc'[f].available <=> desc[f].available /\ f \in kept
                 /\ desc'[f].available => disk'[f] = "partial"
                 /\ desc[f].available /\ ~desc'[f].available => disk'[f] = "none"
                 /\ ~desc[f].available => disk'[f] = disk[f]
      <4>1. desc[f] \in Descriptions /\ desc'[f] = [desc[f] EXCEPT !.available = @ /\ f \in kept]
        BY <3>1 DEF InstallerTypeOK
      <4>2. desc'[f].available <=> desc[f].available /\ f \in kept BY <4>1 DEF Descriptions
      <4>. QED BY <3>1, <4>2
    <3>. QED BY <3>2, <3>3 DEF DescribedUnlessFailed, Accurate
  <2>. QED BY <2>1, <2>2, <2>3
<1>. QED BY <1>1, <1>2, <1>3, <1>4

\* A refresh changes nothing of an installation.
LEMMA RefreshKeeps ==
  ASSUME InstallerInv, UNCHANGED installerVars, RefresherNext
  PROVE  InstallerInv'
<1>. USE DEF InstallerInv
<1>1. RefresherTypeOK' /\ BusyInv' BY RefreshBusy DEF RefresherNext
<1>2. UNCHANGED <<disk, desc, detected, pc, plan, left, backups, undeleted, cancelled, inProgress, before,
                  deleted, disturbed>>
  BY DEF installerVars, runVars
<1>3. InstallerTypeOK' BY <1>2 DEF InstallerTypeOK, Working
<1>4. TransactionInv'
  BY <1>2 DEF TransactionInv, Broken, Working, AllOrNothing, PlanMade, BackingUp, Deleting,
              InstallingAll, Restoring, Saved, Superseded, InEngine
<1>5. DescribedUnlessFailed' BY <1>2 DEF DescribedUnlessFailed, Working, Accurate
<1>. QED BY <1>1, <1>3, <1>4, <1>5

\* Nothing runs at first, and the descriptions are those of the detector.
LEMMA InstallerStarts ==
  ASSUME RiderInit
  PROVE  InstallerInv /\ Working = {} /\ ~Broken
<1>. USE DEF RiderInit, InstallerInit, RefresherInit, UbtInit
<1>1. \A r \in Runs : pc[r] \in {"idle", "committed"} OBVIOUS
<1>2. Working = {} /\ ~Broken BY <1>1 DEF Working, Ended, Broken
<1>3. \A f \in Folders : /\ desc[f] = [available |-> disk[f] # "none", checksum |-> disk[f]]
                         /\ disk[f] \in {"none", "old"}
  OBVIOUS
<1>4. \A f \in Folders : /\ desc[f] \in Descriptions /\ (desc[f].available <=> disk[f] # "none")
                         /\ desc[f].checksum # "new"
  BY <1>3 DEF Descriptions, Content
<1>5. desc \in [Folders -> Descriptions]
  <2>1. desc = [f \in Folders |-> desc[f]] OBVIOUS
  <2>. QED BY <1>4, <2>1
<1>6. disk \in [Folders -> Content] BY DEF Content
<1>7. plan \in [Runs -> Plans] BY DEF NoPlan, Plans
<1>8. backups \in [Runs -> Backups] /\ \A r \in Runs : DOMAIN backups[r] = {} BY BackupsAre
<1>9. InstallerTypeOK
  <2>1. pc \in [Runs -> Idle \cup Steps] BY DEF Idle, Ended
  <2>2. left \in [Runs -> SUBSET Folders] /\ DOMAIN before = Runs OBVIOUS
  <2>3. backups \in [Runs -> Backups] BY <1>8
  <2>4. \A r \in Working : before[r] \in [Folders -> Content] BY <1>2
  <2>. QED BY <1>5, <1>6, <1>7, <2>1, <2>2, <2>3, <2>4 DEF InstallerTypeOK
<1>10. TransactionInv
  <2>1. \A f \in Folders : desc[f].available => f \in detected \cup {Engine}
    BY <1>4 DEF Folders
  <2>. QED BY <1>2, <1>4, <2>1 DEF TransactionInv
<1>11. BusyInv BY <1>1, <1>8 DEF BusyInv
<1>12. RefresherTypeOK
  <2>1. tool \in [Refreshes -> {0, 5}] /\ refreshInProgress \in BOOLEAN OBVIOUS
  <2>. HIDE DEF RiderInit
  <2>. QED BY <2>1 DEF RefresherTypeOK
<1>13. DescribedUnlessFailed
  <2>1. \A f \in Folders : desc[f].checksum = "new" <=> disk[f] = "new" BY <1>3, <1>4
  <2>. QED BY <1>4, <2>1 DEF DescribedUnlessFailed, Accurate
<1>. QED BY <1>2, <1>9, <1>10, <1>11, <1>12, <1>13 DEF InstallerInv

\* Nothing happens.
LEMMA InstallerStutters ==
  ASSUME InstallerInv, UNCHANGED <<installerVars, refresherVars, ubtHolder>>
  PROVE  InstallerInv'
BY DEF installerVars, runVars, refresherVars, InstallerInv, InstallerTypeOK, RefresherTypeOK,
       TransactionInv, Broken, Working, AllOrNothing, PlanMade, BackingUp, Deleting, InstallingAll,
       Restoring, Saved, Superseded, InEngine, BusyInv, Refreshing, DescribedUnlessFailed, Accurate

\* Every step of the installer and of the refresher.
LEMMA InstallerStep ==
  ASSUME InstallerInv, [Next]_<<installerVars, refresherVars, ubtHolder>>
  PROVE  InstallerInv'
<1>1. CASE InstallerNext /\ UNCHANGED refresherVars
  BY <1>1, WorkKeeps, UsersKeep DEF InstallerNext
<1>2. CASE RefresherNext /\ UNCHANGED installerVars BY <1>2, RefreshKeeps
<1>. QED BY <1>1, <1>2, InstallerStutters DEF Next

\* The inductive invariant of installations and refreshes, for any number of runs,
\* refreshes and projects.
THEOREM InstallerInvariance == RiderSpec => []InstallerInv
<1>1. RiderInit => InstallerInv BY InstallerStarts
<1>2. InstallerInv /\ [Next]_<<installerVars, refresherVars, ubtHolder>> => InstallerInv'
  BY InstallerStep
<1>. QED BY <1>1, <1>2, PTL DEF RiderSpec

\* When no run and no refresh is left, the lock is free, no progress is shown, no
\* backup is left unless it could not be deleted, and the descriptions name no folder
\* without a plugin, and are true unless a run failed.
THEOREM TidyTheorem == RiderSpec => []TidyWhenIdle
<1>1. InstallerInv => TidyWhenIdle
  <2>. SUFFICES ASSUME InstallerInv, Working = {}, Refreshing = {}
                PROVE  /\ ubtHolder = Nobody /\ ~inProgress /\ ~refreshInProgress
                       /\ undeleted \/ \A r \in Runs : DOMAIN backups[r] = {}
    BY DEF TidyWhenIdle, NothingLeftWhenIdle, InstallerInv
  <2>1. BusyInv BY DEF InstallerInv
  <2>2. \A r \in Runs : pc[r] # "build" BY DEF Working, Ended
  <2>. QED BY <2>1, <2>2 DEF BusyInv
<1>. QED BY <1>1, InstallerInvariance, PTL

-----------------------------------------------------------------------------
\* What the projects see, as in PluginTransaction.
Seen == IF Working = {} THEN disk ELSE before[CHOOSE r \in Working : TRUE]
Asked == {plan[r].install : r \in Working}

\* It is always a state of the folders.
LEMMA SeenTyped ==
  InstallerTypeOK => /\ Seen \in [Folders -> Content] /\ Asked \in SUBSET SUBSET Folders
                     /\ \A r : Working = {r} => Seen = before[r] /\ Asked = {plan[r].install}
<1>1. Working # {} => (CHOOSE r \in Working : TRUE) \in Working OBVIOUS
<1>2. ASSUME NEW r, Working = {r} PROVE (CHOOSE s \in Working : TRUE) = r
  BY <1>1, <1>2
<1>3. InstallerTypeOK => Asked \in SUBSET SUBSET Folders
  BY DEF Asked, InstallerTypeOK, Plans, Working
<1>4. ASSUME NEW r, Working = {r} PROVE Asked = {plan[r].install} BY <1>4 DEF Asked
<1>. QED BY <1>1, <1>2, <1>3, <1>4 DEF Seen, InstallerTypeOK

\* A run's step, unless it breaks something, is a step of the transaction when it
\* ends the run, and nothing that the projects see before.
LEMMA WorkImplements ==
  ASSUME InstallerInv, InstallerInv', NEW r \in Runs, Work(r), ~Broken'
  PROVE  ~Broken /\ (Trans!Commit \/ Trans!Abort \/ UNCHANGED <<Seen, Asked, Broken>>)
<1>. USE DEF InstallerInv
<1>0. UNCHANGED bystanders BY DEF Work
<1>1. pc[r] \in Steps
  BY DEF Work, Backup, BackedUp, DeleteUnselected, Deleted, Prepare, StartUat, Built, CopyToPlugin,
         Extract, Commit, Restore, Restored, Steps, Installing
<1>2. ~Broken
  <2>1. \A s \in Runs : s # r => pc'[s] = pc[s]
    BY DEF InstallerTypeOK, Work, Backup, BackedUp, DeleteUnselected, Deleted, Prepare, StartUat, Built,
           CopyToPlugin, Extract, Commit, Restore, Restored, Throws, End, Fail, Installed, Goto
  <2>. QED BY <1>0, <1>1, <2>1 DEF Broken, bystanders, Steps, Installing
<1>3. OnlyRun(r) /\ Working = {r} /\ Seen = before[r] /\ Asked = {plan[r].install}
  <2>1. r \in Working /\ \A s \in Working : s \in Runs BY <1>1 DEF Working, Steps, Installing, Ended
  <2>2. Working = {r} BY <1>2, <2>1 DEF TransactionInv
  <2>. QED BY <1>2, <2>1, <2>2, SeenTyped DEF TransactionInv, OnlyRun
<1>4. Broken' = Broken BY <1>2 DEF Broken
<1>5. ASSUME pc'[r] \in Steps, before' = before, plan' = plan, \A s \in Runs : s # r => pc'[s] = pc[s]
      PROVE  UNCHANGED <<Seen, Asked, Broken>>
  <2>1. Working' = Working BY <1>3, <1>5 DEF Working, Steps, Installing, Ended
  <2>. QED BY <1>3, <1>4, <1>5, <2>1 DEF Seen, Asked
<1>6. ASSUME NEW how \in Ended, End(r, how), disk' = disk PROVE Seen' = disk /\ Asked' = {}
  <2>1. Working' = {} BY <1>1, <1>3, <1>6 DEF End, Goto, Working, InstallerTypeOK
  <2>. QED BY <1>6, <2>1 DEF Seen, Asked
<1>7. CASE Commit(r)
  <2>1. Seen' = disk /\ Asked' = {} BY <1>6, <1>7 DEF Commit, Ended
  <2>2. InstallingAll(r) /\ PlanMade(r) /\ left[r] = {}
    BY <1>3, <1>7 DEF OnlyRun, AllOrNothing, Commit, Installing
  <2>3. plan[r].install \in Asked BY <1>3
  <2>4. disk = [f \in Folders |-> IF f \in plan[r].install THEN "new" ELSE "none"]
    <3>1. \A f \in Folders : disk[f] = IF f \in plan[r].install THEN "new" ELSE "none"
      BY <2>2 DEF InstallingAll
    <3>. QED BY <3>1 DEF InstallerTypeOK
  <2>5. Trans!Commit BY <1>4, <2>1, <2>3, <2>4 DEF Trans!Commit, Seen, Asked, Broken
  <2>. QED BY <1>2, <2>5
<1>8. CASE Restored(r)
  <2>1. Seen' = disk /\ Asked' = {} /\ Asked # {} BY <1>3, <1>6, <1>8 DEF Restored, Ended
  <2>2. Restoring(r) /\ left[r] = {}
    BY <1>3, <1>8 DEF OnlyRun, AllOrNothing, Restored
  <2>3. \A f \in Folders : Seen[f] # "none" => Seen'[f] = Seen[f]
    BY <1>3, <2>1, <2>2 DEF Restoring, Saved
  <2>4. Seen' \in [Folders -> Content] BY <2>1 DEF InstallerTypeOK
  <2>5. Trans!Abort BY <1>4, <2>1, <2>3, <2>4 DEF Trans!Abort, Seen, Asked, Broken
  <2>. QED BY <1>2, <2>5
<1>9. CASE ~Commit(r) /\ ~Restored(r)
  <2>1. pc'[r] # "thrown" BY DEF Broken
  <2>2. pc'[r] \in Steps /\ before' = before /\ plan' = plan /\ \A s \in Runs : s # r => pc'[s] = pc[s]
    BY <1>9, <2>1 DEF InstallerTypeOK, Work, Backup, BackedUp, DeleteUnselected, Deleted, Prepare,
       StartUat, Built, CopyToPlugin, Extract, Restore, Throws, End, Fail, Installed, Goto,
       locals, Steps, Installing
  <2>. QED BY <1>2, <1>5, <2>2
<1>. QED BY <1>7, <1>8, <1>9

\* The other steps of the users: a run begins with what it sees and was asked for,
\* DeletePlugin between two runs is an Uninstall, and meeting each other breaks the
\* promise.
LEMMA UsersImplement ==
  ASSUME InstallerInv, InstallerInv', (\E r \in Runs : Start(r)) \/ Cancel \/ DeletePlugin, ~Broken'
  PROVE  ~Broken /\ (Trans!Begin \/ Trans!Uninstall \/ UNCHANGED <<Seen, Asked, Broken>>)
<1>. USE DEF InstallerInv
<1>1. ASSUME NEW r \in Runs, Start(r) PROVE ~Broken /\ Trans!Begin
  <2>0. pc[r] = "idle" /\ pc' = [pc EXCEPT ![r] = "backup"] BY <1>1, BeginKeeps
  <2>1. PICK install \in SUBSET Folders, delete \in SUBSET Folders, build \in BOOLEAN :
          Begin(r, install, delete, build)
    BY <1>1, BeginKeeps
  <2>2. /\ before' = [before EXCEPT ![r] = disk]
        /\ plan' = [plan EXCEPT ![r] = [install |-> install, delete |-> delete, build |-> build]]
        /\ disturbed' = IF Working = {} /\ Accurate THEN disturbed ELSE disturbed \cup Working \cup {r}
    BY <2>1 DEF Begin
  <2>3. Working = {} /\ ~Broken BY <2>0, <2>2 DEF Broken
  <2>4. Working' = {r} BY <2>0, <2>3 DEF Working, Ended, InstallerTypeOK
  <2>5. Seen' = before'[r] /\ before'[r] = disk BY <2>2, <2>4, SeenTyped DEF InstallerTypeOK, Seen
  <2>6. Seen = disk /\ Asked = {} BY <2>3 DEF Seen, Asked
  <2>7. Asked' = {install} BY <2>2, <2>4 DEF Asked, InstallerTypeOK
  <2>8. Broken' = FALSE /\ Broken = FALSE BY <2>3 DEF Broken
  <2>9. Trans!Begin BY <2>5, <2>6, <2>7, <2>8 DEF Trans!Begin, Seen, Asked, Broken
  <2>. QED BY <2>3, <2>9
<1>2. CASE Cancel
  <2>1. UNCHANGED <<disk, pc, plan, before, disturbed>> BY <1>2 DEF Cancel
  <2>. QED BY <2>1 DEF Seen, Asked, Broken, Working
<1>3. CASE DeletePlugin
  <2>1. UNCHANGED <<pc, before>> /\ disturbed' = disturbed \cup Working
    BY <1>3 DEF DeletePlugin, runVars
  <2>2. Working = {} /\ Working' = {} /\ ~Broken /\ Broken' = Broken
    BY <2>1 DEF Broken, Working
  <2>3. Seen = disk /\ Seen' = disk' /\ Asked = {} /\ Asked' = {} BY <2>2 DEF Seen, Asked
  <2>4. \A f \in Folders : disk'[f] \in {disk[f], "none"} \/ (disk[f] # "none" /\ disk'[f] = "partial")
    BY <1>3, <2>2 DEF DeletePlugin, TransactionInv
  <2>5. disk' \in [Folders -> Content] BY DEF InstallerTypeOK
  <2>6. Trans!Uninstall BY <2>2, <2>3, <2>4, <2>5 DEF Trans!Uninstall, Seen, Asked, Broken
  <2>. QED BY <2>2, <2>6
<1>. QED BY <1>1, <1>2, <1>3

\* Every step of the installer is one of the transaction, or none.
LEMMA StepImplements ==
  ASSUME InstallerInv, InstallerInv', [Next]_<<installerVars, refresherVars, ubtHolder>>
  PROVE  [Trans!Next]_(Trans!txVars)
<1>. USE DEF InstallerInv
<1>1. CASE Broken'
  <2>0. Working' # {} => (CHOOSE r \in Working' : TRUE) \in Working' OBVIOUS
  <2>1. Seen' \in [Folders -> Content] BY <2>0 DEF Seen, InstallerTypeOK
  <2>3. Asked' \in SUBSET SUBSET Folders BY DEF Asked, InstallerTypeOK, Plans, Working
  <2>2. Trans!Break BY <1>1, <2>1, <2>3 DEF Trans!Break, Seen, Asked, Broken
  <2>. QED BY <2>2 DEF Trans!Next
<1>2. CASE ~Broken'
  <2>1. CASE \E r \in Runs : Work(r)
    <3>1. ~Broken /\ (Trans!Commit \/ Trans!Abort \/ UNCHANGED <<Seen, Asked, Broken>>)
      BY <1>2, <2>1, WorkImplements
    <3>. QED BY <3>1 DEF Trans!Next, Trans!txVars, Seen, Asked, Broken
  <2>2. CASE (\E r \in Runs : Start(r)) \/ Cancel \/ DeletePlugin
    <3>1. ~Broken /\ (Trans!Begin \/ Trans!Uninstall \/ UNCHANGED <<Seen, Asked, Broken>>)
      BY <1>2, <2>2, UsersImplement
    <3>. QED BY <3>1 DEF Trans!Next, Trans!txVars, Seen, Asked, Broken
  <2>3. CASE UNCHANGED installerVars
    <3>1. UNCHANGED <<disk, pc, plan, before, disturbed>> BY <2>3 DEF installerVars, runVars
    <3>2. UNCHANGED <<Seen, Asked, Broken>> BY <3>1 DEF Seen, Asked, Broken, Working
    <3>. QED BY <3>2 DEF Trans!txVars, Seen, Asked, Broken
  <2>. QED BY <2>1, <2>2, <2>3 DEF Next, InstallerNext
<1>. QED BY <1>1, <1>2

\* An installation is all or nothing for what the projects see: when it is over all
\* folders that were chosen have the plugin and all others have lost theirs, or each
\* folder has its plugin back, until a step throws something else than a cancellation
\* or two runs meet; only between two installations may the user delete plugins.
THEOREM TransactionTheorem == RiderSpec => ImplementsTransaction
<1>1. RiderInit => Trans!Init
  <2>. SUFFICES ASSUME RiderInit PROVE Trans!Init OBVIOUS
  <2>1. InstallerInv /\ Working = {} /\ ~Broken BY InstallerStarts
  <2>2. Seen = disk /\ Asked = {} /\ disk \in [Folders -> Content]
    BY <2>1 DEF Seen, Asked, InstallerInv, InstallerTypeOK
  <2>. QED BY <2>1, <2>2 DEF Trans!Init, Seen, Asked, Broken
<1>2. InstallerInv /\ InstallerInv' /\ [Next]_<<installerVars, refresherVars, ubtHolder>>
        => [Trans!Next]_(Trans!txVars)
  BY StepImplements
<1>. QED BY <1>1, <1>2, InstallerInvariance, PTL DEF RiderSpec, ImplementsTransaction, Trans!Spec
=============================================================================
