------------------------------ MODULE PlayControl ------------------------------
(* Control of the game between Rider and the editor: the buttons that ask    *)
(* the editor to play, pause or stop, the replies, the state of the game and *)
(* the settings of play, packed into an integer, which both ends change.     *)
(* In the editor three threads work on them: the wire's, the scheduler's and *)
(* the game's.  Rider is its front end with the back end that passes on.     *)
EXTENDS RiderLinkModule

CONSTANTS
  Settings,  \* the settings a user of the editor chooses from
  MaxUser    \* bounds what users and the game do, in both programs
ASSUME PlayControlAssumption ==
  /\ Settings \subseteq [clients : Nat \ {0}, spawn : 0 .. 1, dedicated : 0 .. 1]
  /\ MaxUser \in Nat

VARIABLES
  control,    \* the connection the FRiderGameControl was made for, 0 when there is none
  playMode,   \* its member
  game,       \* AsyncTasks for the game's thread: requests with their control
  playing,    \* the state of the editor's game
  settings,   \* ULevelEditorPlaySettings
  change,     \* how far a thread is with a change of them and what OnObjectPropertyChanged
              \* does about it, or the scheduler's with the first look at them
  toRider, toEditor,  \* what the wire carries
  rider,      \* what Rider keeps
  user,       \* how much users and the game have done
  \* observers
  missed,     \* Rider may not have heard of the game's last change of state
  crossed,    \* a mode of Rider's was applied while an older one of the editor's
              \* waited, an older one was left to a destroyed control, or both
              \* threads were busy with the settings at once
  unanswered  \* a request was dropped although its connection went on

controlVars == <<control, playMode, game>>
editorVars == <<playing, settings, change>>
observers == <<missed, crossed, unanswered>>
playVars == <<linkVars, controlVars, editorVars, toRider, toEditor, rider, user, observers>>

-----------------------------------------------------------------------------
\* FPlaySettings: the packing has two bits for clients - 1 and does not check
\* that they are enough; it is a sum.
PackToMode(s) == (s.clients - 1) + 4 * s.spawn + 8 * s.dedicated
UnpackFromMode(m) ==
  [clients |-> (m % 4) + 1, spawn |-> (m \div 4) % 2, dedicated |-> (m \div 8) % 2]

\* The actions of Rider's menu: number of players, dedicated server, compile
\* before run.  The one that chooses where to spawn returns before it does anything.
SetNumPlayers(m, n) == m - (m % 4) + (n - 1)
SetDedicatedServer(m, b) == m - 8 * ((m \div 8) % 2) + 8 * b
SetCompileBeforeRun(m, b) == m - 128 * ((m \div 128) % 2) + 128 * b
MenuModes(m) ==
  ({SetNumPlayers(m, n) : n \in 1 .. 2} \union {SetDedicatedServer(m, b) : b \in 0 .. 1}
     \union {SetCompileBeforeRun(m, b) : b \in 0 .. 1}) \ {m}

\* The threads that read and write the settings and playMode, without a lock.
Threads == {"scheduler", "game"}
Unchanged == [at |-> "none", mode |-> 0, conn |-> 0]
At(t, step) == change[t].at = step
Changing(t) == ~At(t, "none")

PlayInit ==
  /\ LinkInit
  /\ control = 0 /\ playMode = 0 /\ game = <<>>
  /\ playing \in {"Idle", "Play", "Pause"}
  /\ settings \in Settings
  /\ change = [t \in Threads |-> Unchanged]
  /\ toRider = <<>> /\ toEditor = <<>>
  /\ rider = [conn |-> 0, last |-> 0, state |-> "Idle", ready |-> FALSE, mode |-> 0,
              disabled |-> FALSE, id |-> 0]
  /\ user = 0
  /\ missed = (playing # "Idle") /\ crossed = FALSE /\ unanswered = FALSE

-----------------------------------------------------------------------------
(* The editor's wire and scheduler *)

Message(kind, what) == [kind |-> kind, what |-> what]
Waits(q, kind) == \E i \in DOMAIN q : q[i].kind = kind

WireConnects == Connect /\ rider.conn = 0
  /\ UNCHANGED <<controlVars, editorVars, toRider, toEditor, rider, user, observers>>

WireDisconnects == Disconnect
  /\ UNCHANGED <<controlVars, editorVars, toRider, toEditor, rider, user, observers>>

HandlesConnection == (MakeModel \/ WatchLifetime)
  /\ UNCHANGED <<controlVars, editorVars, toRider, toEditor, rider, user, observers>>

LogBegins == ReadLock
  /\ user < MaxUser /\ user' = user + 1
  /\ UNCHANGED <<controlVars, editorVars, toRider, toEditor, rider, observers>>

LogEnds == ReadUnlock
  /\ UNCHANGED <<controlVars, editorVars, toRider, toEditor, rider, user, observers>>

\* What is sent by an entity that is not bound is not sent.
Sent(messages) == IF Bound THEN toRider \o messages ELSE toRider

\* FRiderGameControl for the model: it hears of changes of the settings before
\* it reads them itself.
ControlIsMade ==
  /\ connecting = "watched" /\ ~Changing("scheduler")
  /\ control' = model
  /\ change' = [change EXCEPT !["scheduler"].at = "retrieve"]
  /\ crossed' = (crossed \/ Changing("game"))
  /\ UNCHANGED <<linkVars, playMode, game, playing, settings, toRider, toEditor, rider, user,
                 missed, unanswered>>

\* Its initial sync: it tells Rider the mode, and that it is there.
ModelIsAlive ==
  /\ SetAlive /\ At("scheduler", "assign")
  /\ playMode' = change["scheduler"].mode
  /\ toRider' = Sent(<<Message("mode", change["scheduler"].mode), Message("ready", TRUE)>>)
  /\ change' = [change EXCEPT !["scheduler"] = Unchanged]
  /\ UNCHANGED <<control, game, playing, settings, toEditor, rider, user, observers>>

ModelIsDead ==
  /\ SetDead
  /\ control' = 0
  /\ UNCHANGED <<playMode, game, editorVars, toRider, toEditor, rider, user, observers>>

\* The action uses the control it was made by: when that is destroyed, what it
\* reads is undefined, and it sends nothing or sends by the model there is.
SendScheduled(kind, messages) ==
  /\ \/ toRider' = Sent(messages)
     \/ Head(queue).conn # control /\ toRider' = toRider
  /\ missed' = (missed \/ (kind = "state" /\ toRider' = toRider))

SendState ==
  /\ Taken("state")
  /\ SendScheduled("state", Head(queue).what)
  /\ UNCHANGED <<controlVars, editorVars, toEditor, rider, user, crossed, unanswered>>

SendMode ==
  /\ Taken("mode")
  /\ SendScheduled("mode", <<Message("mode", Head(queue).what)>>)
  /\ crossed' = (crossed \/ Head(queue).conn # control)
  /\ UNCHANGED <<controlVars, editorVars, toEditor, rider, user, unanswered>>

SendReply ==
  /\ Taken("reply")
  /\ SendScheduled("reply", <<Message("reply", Head(queue).what)>>)
  /\ UNCHANGED <<controlVars, editorVars, toEditor, rider, user, crossed, unanswered>>

\* The wire's thread hands what it receives to the scheduler.
EditorReceives ==
  /\ up # 0 /\ rider.conn = up /\ toEditor # <<>>
  /\ toEditor' = Tail(toEditor)
  /\ Schedule(<<Task(Head(toEditor).kind, 0, Head(toEditor).what)>>)
  /\ UNCHANGED <<controlVars, editorVars, toRider, rider, user, observers>>

Subscribed == Bound /\ control = model

\* RequestPlayWorldCommand: a command that is not registered is refused at
\* once, the others go to the game's thread.
HandleRequest ==
  /\ Taken("request")
  /\ IF Subscribed
     THEN /\ \/ /\ game' = Append(game, [id |-> Head(queue).what, conn |-> control])
                /\ toRider' = toRider
             \/ /\ game' = game
                /\ toRider' = Sent(<<Message("reply", Head(queue).what)>>)
          /\ unanswered' = unanswered
     ELSE /\ UNCHANGED <<game, toRider>>
          /\ unanswered' = TRUE
  /\ UNCHANGED <<control, playMode, editorVars, toEditor, rider, user, missed, crossed>>

\* A broken variant: the control does not hear of the change it made itself.
ApplySilently ==
  /\ Taken("setMode")
  /\ settings' = IF Subscribed THEN UnpackFromMode(Head(queue).what) ELSE settings
  /\ UNCHANGED <<controlVars, playing, change, toRider, toEditor, rider, user, observers>>

\* UpdateSettings begins; the thread is busy with the message until it is done.
ApplyMode ==
  /\ Running("setMode") /\ ~Changing("scheduler")
  /\ IF Subscribed
     THEN /\ change' = [change EXCEPT !["scheduler"] =
                           [at |-> "clients", mode |-> Head(queue).what, conn |-> control]]
          /\ crossed' = (crossed \/ Waits(queue, "mode") \/ Changing("game"))
          /\ UNCHANGED linkVars
     ELSE Taken("setMode") /\ UNCHANGED <<change, crossed>>
  /\ UNCHANGED <<controlVars, playing, settings, toRider, toEditor, rider, user, missed, unanswered>>

\* It writes one field after the other; then comes PostEditChange.
NextWrite == [clients |-> "dedicated", dedicated |-> "spawn", spawn |-> "retrieve"]
WriteField(field) ==
  /\ At("scheduler", field)
  /\ settings' = [settings EXCEPT ![field] = UnpackFromMode(change["scheduler"].mode)[field]]
  /\ change' = [change EXCEPT !["scheduler"].at = NextWrite[field]]
  /\ UNCHANGED <<linkVars, controlVars, playing, toRider, toEditor, rider, user, observers>>

-----------------------------------------------------------------------------
(* OnObjectPropertyChanged, on the thread that changed the settings: the     *)
(* control's member is read, written and told of with no lock.  What it does *)
(* with a destroyed control, or before the first sync, is undefined.         *)

\* The scheduler's thread is done with the message it took.
Done(t) ==
  /\ change' = [change EXCEPT ![t] = Unchanged]
  /\ IF t = "scheduler" THEN Taken("setMode") ELSE UNCHANGED linkVars

\* RetrieveSettings; there is nobody to do so without a control, and the first
\* sync compares with nothing.
Retrieve(t) ==
  /\ At(t, "retrieve")
  /\ IF control = 0 THEN Done(t)
     ELSE /\ change' = [change EXCEPT ![t] =
                         [at |-> IF t = "scheduler" /\ WriteLocked THEN "assign" ELSE "compare",
                          mode |-> PackToMode(settings), conn |-> control]]
          /\ UNCHANGED linkVars
  /\ UNCHANGED <<controlVars, playing, settings, toRider, toEditor, rider, user, observers>>

Undefined(t) == change[t].conn # control \/ WriteLocked

Compare(t) ==
  /\ At(t, "compare")
  /\ \/ /\ change[t].mode # playMode \/ Undefined(t)
        /\ change' = [change EXCEPT ![t].at = "assign"]
        /\ UNCHANGED linkVars
     \/ /\ change[t].mode = playMode \/ Undefined(t)
        /\ Done(t)
  /\ UNCHANGED <<controlVars, playing, settings, toRider, toEditor, rider, user, observers>>

\* On the scheduler's thread Rider is told at once, before anything that is queued.
AssignAndTell ==
  /\ At("scheduler", "assign") /\ Done("scheduler")
  /\ playMode' = change["scheduler"].mode
  /\ toRider' = Sent(<<Message("mode", change["scheduler"].mode)>>)
  /\ UNCHANGED <<control, game, playing, settings, toEditor, rider, user, observers>>

Assign ==
  /\ At("game", "assign")
  /\ \/ playMode' = change["game"].mode
     \/ change["game"].conn # control /\ playMode' = playMode
  /\ change' = [change EXCEPT !["game"].at = "report"]
  /\ UNCHANGED <<linkVars, control, game, playing, settings, toRider, toEditor, rider, user, observers>>

ReportMode ==
  /\ At("game", "report")
  /\ Schedule(<<Task("mode", change["game"].conn, change["game"].mode)>>)
  /\ change' = [change EXCEPT !["game"] = Unchanged]
  /\ UNCHANGED <<controlVars, playing, settings, toRider, toEditor, rider, user, observers>>

-----------------------------------------------------------------------------
(* The game's thread *)

\* A broken variant: a command the engine rejects gets no reply.
ExecuteOrIgnore ==
  /\ game # <<>> /\ ~Changing("game")
  /\ game' = Tail(game)
  /\ \/ Schedule(<<Task("reply", Head(game).conn, Head(game).id)>>)
     \/ UNCHANGED linkVars
  /\ UNCHANGED <<control, playMode, editorVars, toRider, toEditor, rider, user, observers>>

\* TryExecuteAction: executed or rejected, Rider gets a reply.
ExecuteRequest ==
  /\ game # <<>> /\ ~Changing("game")
  /\ game' = Tail(game)
  /\ Schedule(<<Task("reply", Head(game).conn, Head(game).id)>>)
  /\ UNCHANGED <<control, playMode, editorVars, toRider, toEditor, rider, user, observers>>

\* The engine: play in editor begins, ends, pauses, goes on, does one step.
Happens(event) ==
  CASE event = "begin" -> playing = "Idle" /\ playing' = "Play"
    [] event = "end" -> playing # "Idle" /\ playing' = "Idle"
    [] event = "pause" -> playing = "Play" /\ playing' = "Pause"
    [] event = "resume" -> playing = "Pause" /\ playing' = "Play"
    [] event = "step" -> playing = "Pause" /\ playing' = "Pause"

\* What the delegate of each reports.
\* A broken variant: after a step Rider is left with Play.
ReportedPlay(event) ==
  IF event = "end" THEN <<"Idle">> ELSE IF event = "pause" THEN <<"Pause">> ELSE <<"Play">>
Reported(event) ==
  CASE event \in {"begin", "resume"} -> <<"Play">>
    [] event = "end" -> <<"Idle">>
    [] event = "pause" -> <<"Pause">>
    [] event = "step" -> <<"Play", "Pause">>

GameChanges(event) ==
  /\ user < MaxUser /\ user' = user + 1
  /\ Happens(event) /\ ~Changing("game")
  /\ IF control # 0
     THEN /\ Schedule(<<Task("state", control,
                             [i \in DOMAIN Reported(event) |-> Message("state", Reported(event)[i])])>>)
          /\ missed' = FALSE
     ELSE /\ UNCHANGED linkVars
          /\ missed' = TRUE
  /\ UNCHANGED <<controlVars, settings, change, toRider, toEditor, rider, crossed, unanswered>>

\* A user of the editor changes one of the settings.
EditSettings(field, value) ==
  /\ user < MaxUser /\ user' = user + 1
  /\ value # settings[field] /\ ~Changing("game")
  /\ settings' = [settings EXCEPT ![field] = value]
  /\ change' = [change EXCEPT !["game"].at = "retrieve"]
  /\ crossed' = (crossed \/ Changing("scheduler"))
  /\ UNCHANGED <<linkVars, controlVars, playing, toRider, toEditor, rider, missed, unanswered>>

-----------------------------------------------------------------------------
(* Rider *)

\* What connected changes: the buttons are enabled again; a new model of the
\* editor says that its control is not there yet.
RiderConnects ==
  /\ rider.conn = 0 /\ up > rider.last
  /\ rider' = [rider EXCEPT !.conn = up, !.last = up, !.disabled = FALSE, !.ready = FALSE]
  /\ UNCHANGED <<linkVars, controlVars, editorVars, toRider, toEditor, user, observers>>

\* What was on its way may have reached the other end and been dropped there,
\* or is sent again with the next connection.
RiderDisconnects ==
  /\ rider.conn # 0
  /\ rider' = [rider EXCEPT !.conn = 0, !.disabled = FALSE, !.state = "Idle"]
  /\ \E n \in 0 .. Len(toRider), k \in 0 .. Len(toEditor) :
       /\ toRider' = SubSeq(toRider, n + 1, Len(toRider))
       /\ toEditor' = SubSeq(toEditor, k + 1, Len(toEditor))
       /\ missed' = (missed \/ playing # "Idle" \/ Waits(SubSeq(toRider, 1, n), "state"))
  /\ UNCHANGED <<linkVars, controlVars, editorVars, user, crossed, unanswered>>

\* A new state enables the buttons, as does the reply to the current request.
RiderReceives ==
  /\ rider.conn # 0 /\ rider.conn = up /\ toRider # <<>>
  /\ toRider' = Tail(toRider)
  /\ LET what == Head(toRider).what
     IN rider' =
          CASE Head(toRider).kind = "state" ->
                 [rider EXCEPT !.state = what, !.disabled = @ /\ rider.state = what]
            [] Head(toRider).kind = "reply" ->
                 [rider EXCEPT !.disabled = @ /\ rider.id # what]
            [] Head(toRider).kind = "mode" -> [rider EXCEPT !.mode = what]
            [] Head(toRider).kind = "ready" -> [rider EXCEPT !.ready = what]
  /\ UNCHANGED <<linkVars, controlVars, editorVars, toEditor, user, observers>>

\* A button: the presentation may be older than the connection's end, and then
\* the back end has nobody to pass the request to.
PressButton ==
  /\ user < MaxUser /\ user' = user + 1
  /\ rider.ready /\ ~rider.disabled
  /\ rider' = [rider EXCEPT !.disabled = TRUE, !.id = @ + 1]
  /\ toEditor' = IF rider.conn = 0 THEN toEditor
                 ELSE Append(toEditor, Message("request", rider.id + 1))
  /\ UNCHANGED <<linkVars, controlVars, editorVars, toRider, observers>>

ChooseMode(m) ==
  /\ user < MaxUser /\ user' = user + 1
  /\ rider.conn # 0
  /\ rider' = [rider EXCEPT !.mode = m]
  /\ toEditor' = Append(toEditor, Message("setMode", m))
  /\ UNCHANGED <<linkVars, controlVars, editorVars, toRider, observers>>

-----------------------------------------------------------------------------
PlayNext ==
  \/ WireConnects \/ WireDisconnects \/ HandlesConnection \/ LogBegins \/ LogEnds
  \/ ControlIsMade \/ ModelIsAlive \/ ModelIsDead
  \/ SendState \/ SendMode \/ SendReply
  \/ EditorReceives \/ HandleRequest \/ ApplyMode
  \/ \E field \in DOMAIN NextWrite : WriteField(field)
  \/ \E t \in Threads : Retrieve(t) \/ Compare(t)
  \/ AssignAndTell \/ Assign \/ ReportMode
  \/ ExecuteRequest
  \/ \E event \in {"begin", "end", "pause", "resume", "step"} : GameChanges(event)
  \/ \E field \in DOMAIN NextWrite, chosen \in Settings : EditSettings(field, chosen[field])
  \/ RiderConnects \/ RiderDisconnects \/ RiderReceives
  \/ PressButton
  \/ \E m \in MenuModes(rider.mode) : ChooseMode(m)

\* The threads of both programs go on, and Rider finds out that a connection
\* has ended; nobody has to press anything.
PlayFairness ==
  /\ WF_playVars(HandlesConnection) /\ WF_playVars(LogEnds)
  /\ WF_playVars(ControlIsMade \/ ModelIsAlive) /\ WF_playVars(ModelIsDead)
  /\ WF_playVars(SendState \/ SendMode \/ SendReply \/ HandleRequest \/ ApplyMode)
  /\ WF_playVars(\/ \E field \in DOMAIN NextWrite : WriteField(field)
                 \/ Retrieve("scheduler") \/ Compare("scheduler") \/ AssignAndTell)
  /\ WF_playVars(Retrieve("game") \/ Compare("game") \/ Assign \/ ReportMode)
  /\ WF_playVars(EditorReceives) /\ WF_playVars(ExecuteRequest)
  /\ WF_playVars(RiderReceives)
  /\ WF_playVars(rider.conn # up /\ RiderDisconnects) /\ WF_playVars(RiderConnects)

PlaySpec == PlayInit /\ [][PlayNext]_playVars /\ PlayFairness

-----------------------------------------------------------------------------
GameStates == {"Idle", "Play", "Pause"}
StateMessage == [kind : {"state"}, what : GameStates]
Tasks ==
  [kind : LinkTasks \cup {"request", "setMode", "reply", "mode"}, conn : Nat, what : Int]
    \cup [kind : {"state"}, conn : Nat, what : Seq(StateMessage)]

RiderMessage ==
  [kind : {"mode", "reply"}, what : Int] \cup [kind : {"ready"}, what : BOOLEAN] \cup StateMessage
GameRequest == [id : Int, conn : Nat]
EditorMessage == [kind : {"request", "setMode"}, what : Int]

Steps == {"none", "clients", "dedicated", "spawn", "retrieve", "compare", "assign", "report"}

LinkTypeOK ==
  /\ up \in Nat /\ connections \in Nat /\ queue \in Seq(Tasks)
  /\ connecting \in {"no", "made", "watched"} /\ model \in Nat
  /\ watched \in BOOLEAN /\ alive \in BOOLEAN /\ reading \in BOOLEAN
  /\ connecting # "no" => queue # <<>>
EditorTypeOK ==
  /\ control \in Nat /\ playMode \in Int /\ game \in Seq(GameRequest)
  /\ change \in [Threads -> [at : Steps, mode : Int, conn : Nat]]
  /\ playing \in GameStates /\ settings \in [clients : Int, spawn : Int, dedicated : Int]
RiderTypeOK ==
  /\ toRider \in Seq(RiderMessage) /\ toEditor \in Seq(EditorMessage)
  /\ rider \in [conn : Nat, last : Nat, state : GameStates, ready : BOOLEAN, mode : Int,
                disabled : BOOLEAN, id : Int]
ObserversTypeOK ==
  user \in Nat /\ missed \in BOOLEAN /\ crossed \in BOOLEAN /\ unanswered \in BOOLEAN
PlayTypeOK == LinkTypeOK /\ EditorTypeOK /\ RiderTypeOK /\ ObserversTypeOK

\* Nothing is on its way between the two, which are connected.
Quiet ==
  /\ queue = <<>> /\ connecting = "no" /\ game = <<>> /\ ~Changing("game")
  /\ toRider = <<>> /\ toEditor = <<>>
  /\ up # 0 /\ rider.conn = up

\* Rider shows the state the editor's game is in, whatever the order the game,
\* the scheduler and the connections worked in (CHANGELOG.md:285), unless a
\* change was missed: it came before this connection or was lost with the last.
StateReflectedUnlessMissed == Quiet /\ ~missed => rider.state = playing

\* CHANGELOG.md:285, as it is said: Rider should reflect the state of the editor.
RiderReflectsEditor == Quiet => rider.state = playing

\* Both ends come to the same mode, the bit the editor does not have apart,
\* although both change it, unless a mode of Rider's was applied ahead of an
\* older one the game's thread had queued (RiderGameControl.cpp:432, 495-496),
\* or the two threads were at the settings and playMode at once, which nothing
\* keeps them from (RiderGameControl.cpp:182-204, 427-431, 513-516).
\* (The bit is left out on both sides: a sum of clients may reach it.)
ModeAgreedUnlessCrossed ==
  Quiet /\ ~crossed => SetCompileBeforeRun(rider.mode, 0) = SetCompileBeforeRun(PackToMode(settings), 0)

\* The buttons do not stay disabled while Rider is connected (CHANGELOG.md:273,
\* PlayActions.kt:45-68), unless the editor dropped a request of this connection.
EventuallyEnabledUnlessDropped == []<>(rider.disabled => rider.conn = 0 \/ unanswered)
===============================================================================
