------------------------------ MODULE LiveCoding -------------------------------
(* Builds by live coding: the back end asks the editor to compile and takes  *)
(* the build for completed when the editor's model says that it no longer    *)
(* compiles.  The editor's model is set by a tick, which samples; a button   *)
(* asks for the same.  The connection is lost, or given up for another one   *)
(* when a port file is written.  Live coding is enabled in the editor; when  *)
(* and whether a compile starts and ends is the engine's.                    *)
EXTENDS Integers, Sequences

CONSTANTS MaxLinks, MaxBuilds, MaxButtons  \* bounds: connections, builds, uses of the button
ASSUME LiveCodingAssumption == {MaxLinks, MaxBuilds, MaxButtons} \subseteq Nat

VARIABLES
  links, linked,  \* connections so far; whether the wire is connected
  triggers,       \* triggerHotReload on its way to the game thread, and by whom
  compiling,      \* the number of the compile the editor is in, or 0
  compiles,       \* how many there were
  noticed,        \* history: those a tick has met
  offered, told,  \* the editor's isHotReloadAvailable and isHotReloadCompiling
  changes,        \* their changes on the way
  available, shown,  \* the same in Rider
  build,          \* the build: "none", "waiting", "ending" or "completed"
  builds, buttons,
  compile,        \* history: the compile that runs for it, 0 when there is none yet
  refused,        \* history: the editor did not compile for it
  crossed,        \* history: it was asked for while something else was going on
  orphan          \* history: its connection is gone

linkVars == <<links, linked>>
engineVars == <<compiling, compiles, noticed>>
buildVars == <<build, builds, compile, refused, crossed, orphan>>
codingVars == <<linkVars, triggers, engineVars, offered, told, changes, available, shown,
                buttons, buildVars>>

CodingInit ==
  /\ links = 0 /\ linked = FALSE
  /\ triggers = <<>> /\ changes = <<>>
  /\ compiling = 0 /\ compiles = 0 /\ noticed = {}
  /\ offered = FALSE /\ told = FALSE /\ available = FALSE /\ shown = FALSE
  /\ build = "none" /\ builds = 0 /\ buttons = 0
  /\ compile = 0 /\ refused = FALSE /\ crossed = FALSE /\ orphan = FALSE

\* A connection has a model of its own at both ends, with the initial values,
\* which the back end passes on.
ResetModel ==
  /\ ~linked /\ links < MaxLinks
  /\ linked' = TRUE /\ links' = links + 1
  /\ offered' = FALSE /\ told' = FALSE /\ available' = FALSE /\ shown' = FALSE
  /\ UNCHANGED <<triggers, engineVars, changes, buttons, buildVars>>

\* What was on its way, and the listener of a build, go with the connection.
LoseModel ==
  /\ linked /\ linked' = FALSE
  /\ triggers' = <<>> /\ changes' = <<>>
  /\ orphan' = (orphan \/ build = "waiting")
  /\ UNCHANGED <<links, engineVars, offered, told, buttons, build, builds, compile, refused, crossed>>

\* IsConnectedToUnrealEditor.WhenFalse.
Drop ==
  /\ LoseModel
  /\ available' = FALSE /\ shown' = FALSE

\* CreateProtocols again: the lifetime of WhenFalse ends before the new wire
\* says that it is not connected.
CreateProtocols ==
  /\ LoseModel
  /\ UNCHANGED <<available, shown>>

\* ExecuteBuildRequest of the whole solution.
ExecuteBuildRequest ==
  /\ build \in {"none", "completed"} /\ builds < MaxBuilds
  /\ linked /\ available
  /\ build' = "waiting" /\ builds' = builds + 1
  /\ triggers' = Append(triggers, "build")
  /\ compile' = 0 /\ refused' = FALSE /\ orphan' = FALSE
  /\ crossed' = (shown \/ compiling # 0 \/ triggers # <<>> \/ changes # <<>>)
  /\ UNCHANGED <<linkVars, engineVars, offered, told, changes, available, shown, buttons>>

\* HotReloadBuildAction; without a connection nobody hears it.
PressButton ==
  /\ available /\ ~shown /\ buttons < MaxButtons
  /\ buttons' = buttons + 1
  /\ triggers' = IF linked THEN Append(triggers, "button") ELSE triggers
  /\ UNCHANGED <<linkVars, engineVars, offered, told, changes, available, shown, buildVars>>

\* On the game thread: live coding may be refused for the session, and an
\* editor that compiles already does not begin anew.
TriggerHotReload ==
  /\ triggers # <<>> /\ triggers' = Tail(triggers)
  /\ \/ /\ compiling' = IF compiling = 0 THEN compiles + 1 ELSE compiling
        /\ compiles' = IF compiling = 0 THEN compiles + 1 ELSE compiles
        /\ compile' = IF Head(triggers) = "build" THEN compiling' ELSE compile
        /\ UNCHANGED refused
     \/ /\ compiling = 0
        /\ refused' = (refused \/ Head(triggers) = "build")
        /\ UNCHANGED <<compiling, compiles, compile>>
  /\ UNCHANGED <<linkVars, noticed, offered, told, changes, available, shown, buttons,
                 build, builds, crossed, orphan>>

CompileEnds ==
  /\ compiling # 0 /\ compiling' = 0
  /\ UNCHANGED <<linkVars, triggers, compiles, noticed, offered, told, changes, available, shown,
                 buttons, buildVars>>

\* Setting a property to the value it has sends nothing.
Changed(now) ==
  (IF offered THEN <<>> ELSE <<"available">>)
    \o (IF told = now THEN <<>> ELSE IF now THEN <<"begun">> ELSE <<"over">>)

\* A broken variant: a tick that meets no compile says nothing.
TickIfCompiling ==
  /\ linked /\ (compiling # 0 \/ ~offered)
  /\ offered' = TRUE /\ told' = (compiling # 0)
  /\ changes' = changes \o Changed(compiling # 0)
  /\ noticed' = IF compiling = 0 THEN noticed ELSE noticed \cup {compiling}
  /\ UNCHANGED <<linkVars, triggers, compiling, compiles, available, shown, buttons, buildVars>>

Tick ==
  /\ linked
  /\ offered' = TRUE /\ told' = (compiling # 0)
  /\ changes' = changes \o Changed(compiling # 0)
  /\ noticed' = IF compiling = 0 THEN noticed ELSE noticed \cup {compiling}
  /\ UNCHANGED <<linkVars, triggers, compiling, compiles, available, shown, buttons, buildVars>>

\* A broken variant: any change of isHotReloadCompiling completes the build.
EndsAnyhow(change) == change # "available"

Ends(change) == change = "over"

\* The back end passes a change on, and the first end of a compile ends the build.
ReceiveChange ==
  /\ changes # <<>> /\ changes' = Tail(changes)
  /\ available' = (available \/ Head(changes) = "available")
  /\ shown' = IF Head(changes) = "available" THEN shown ELSE Head(changes) = "begun"
  /\ build' = IF build = "waiting" /\ ~orphan /\ Ends(Head(changes)) THEN "ending" ELSE build
  /\ UNCHANGED <<linkVars, triggers, engineVars, offered, told, buttons,
                 builds, compile, refused, crossed, orphan>>

\* After the delay for the last messages.
Complete ==
  /\ build = "ending" /\ build' = "completed"
  /\ UNCHANGED <<linkVars, triggers, engineVars, offered, told, changes, available, shown,
                 buttons, builds, compile, refused, crossed, orphan>>

EngineGoesOn == TriggerHotReload \/ CompileEnds
CodingNext ==
  \/ ResetModel \/ Drop \/ CreateProtocols
  \/ ExecuteBuildRequest \/ PressButton
  \/ EngineGoesOn \/ Tick \/ ReceiveChange \/ Complete

CodingSpec == CodingInit /\ [][CodingNext]_codingVars

\* Frames, messages and compiles go on.
CodingFairness ==
  /\ WF_codingVars(TriggerHotReload) /\ WF_codingVars(CompileEnds) /\ WF_codingVars(Tick)
  /\ WF_codingVars(ReceiveChange \/ Complete)

-----------------------------------------------------------------------------
\* A build that is completed has been compiled, though all that the back end
\* hears is that a compile is over: unless another was under way or on its way
\* when it was asked for, or the editor refused
\* (UnrealLiveCodingBuildRunner.cs:55-72).
CompletedOnceCompiledUnlessCrossed ==
  build \in {"ending", "completed"} => crossed \/ refused \/ (compile # 0 /\ compile # compiling)

\* A build is completed in the end, unless the editor refused, its connection
\* is gone, or no tick has met its compile, three times when the back end
\* waits for a change that does not come (UnrealLiveCodingBuildRunner.cs:55-107).
Unseen == compile # 0 /\ compile # compiling /\ compile \notin noticed
EventuallyCompletedUnlessMissed ==
  []<>(build \in {"waiting", "ending"} => orphan \/ refused \/ Unseen)

===============================================================================
