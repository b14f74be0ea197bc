-------------------------- MODULE PlayControl_proofs ---------------------------
(* Types of PlayControl, what RiderLinkModule promises about the model while *)
(* the rest of the editor uses its scheduler, and what Rider knows of the    *)
(* game's state and of its settings: proved for any number of connections,   *)
(* any settings and whatever the users and the game do.                      *)
EXTENDS PlayControl, SequenceTheorems, TLAPS

\* What a step of PlayControl is to RiderLinkModule.
Others == {"request", "setMode", "reply", "mode", "state"}
LinkStep ==
  \/ Connect \/ Disconnect \/ MakeModel \/ WatchLifetime \/ SetAlive \/ SetDead
  \/ ReadLock \/ ReadUnlock
  \/ \E kind \in Others : Taken(kind)
  \/ \E task \in Tasks : task.kind \in Others /\ Schedule(<<task>>)
  \/ UNCHANGED linkVars

\* Connections wait in their order, and all of them are newer than the model's,
\* but for the one that is being handled.
ConnectedInOrder ==
  /\ up \in {0, connections} /\ model <= connections
  /\ \A i \in DOMAIN queue : queue[i].kind = "connected" =>
       /\ 1 <= queue[i].conn /\ queue[i].conn <= connections /\ model <= queue[i].conn
       /\ queue[i].conn = model => connecting # "no" /\ i = 1
       /\ \A j \in DOMAIN queue :
            j < i /\ queue[j].kind = "connected" => queue[j].conn < queue[i].conn
  /\ connecting # "no" => queue # <<>> /\ queue[1].kind = "connected" /\ queue[1].conn = model

\* The connection there is has a model, or its turn will come.
UpWaits ==
  up # 0 /\ up # model =>
    \E i \in DOMAIN queue : queue[i].kind = "connected" /\ queue[i].conn = up

\* The end of a connection is told about the model there is, and before the
\* next connection.
LostFirst ==
  \A i \in DOMAIN queue : queue[i].kind = "lost" =>
    /\ watched /\ model # up /\ model # 0
    /\ \A j \in DOMAIN queue : j < i /\ queue[j].kind = "connected" => j = 1 /\ connecting # "no"

\* A model that is, or is about to be, alive has its connection, or its end is
\* on its way.
Told == model = up \/ \E i \in DOMAIN queue : queue[i].kind = "lost"
AliveTold ==
  /\ alive => connecting = "no" /\ watched /\ model # 0 /\ Told
  /\ connecting = "watched" => watched /\ Told
  /\ up # 0 /\ model = up /\ connecting = "no" => alive

LinkInv == ConnectedInOrder /\ UpWaits /\ LostFirst /\ AliveTold

\* A packed mode is a number.
LEMMA ModesAreInt == \A s \in [clients : Int, spawn : Int, dedicated : Int] : PackToMode(s) \in Int
<1> TAKE s \in [clients : Int, spawn : Int, dedicated : Int]
<1> QED BY DEF PackToMode

\* An unpacked mode is settings.
LEMMA UnpackedAreSettings ==
  \A mode \in Int : UnpackFromMode(mode) \in [clients : Int, spawn : Int, dedicated : Int]
<1> TAKE mode \in Int
<1>1. (mode % 4) + 1 \in Int /\ (mode \div 4) % 2 \in Int /\ (mode \div 8) % 2 \in Int
  OBVIOUS
<1> QED BY <1>1 DEF UnpackFromMode

\* What the menu can set is a mode.
LEMMA MenuModesAreInt == \A mode \in Int : MenuModes(mode) \subseteq Int
<1> TAKE mode \in Int
<1>1. mode % 4 \in Int /\ (mode \div 8) % 2 \in Int /\ (mode \div 128) % 2 \in Int
  OBVIOUS
<1>2. \A n \in 1 .. 2 : SetNumPlayers(mode, n) \in Int
  BY <1>1 DEF SetNumPlayers
<1>3. \A b \in 0 .. 1 : SetDedicatedServer(mode, b) \in Int /\ SetCompileBeforeRun(mode, b) \in Int
  BY <1>1 DEF SetDedicatedServer, SetCompileBeforeRun
<1> QED BY <1>2, <1>3 DEF MenuModes

\* Editor and Rider start with their types in order.
LEMMA InitTyped == PlayInit => PlayTypeOK
<1> SUFFICES ASSUME PlayInit PROVE PlayTypeOK OBVIOUS
<1> USE PlayControlAssumption DEF PlayInit, LinkInit
<1>1. settings \in [clients : Int, spawn : Int, dedicated : Int]
  OBVIOUS
<1>2. rider \in [conn : Nat, last : Nat, state : GameStates, ready : BOOLEAN, mode : Int,
                  disabled : BOOLEAN, id : Int]
  BY DEF GameStates
<1>3. LinkTypeOK
  <2>1. queue \in Seq(Tasks) /\ up \in Nat /\ connections \in Nat /\ model \in Nat
    OBVIOUS
  <2>2. watched \in BOOLEAN /\ alive \in BOOLEAN /\ reading \in BOOLEAN
    BY Zenon
  <2> QED BY <2>1, <2>2 DEF LinkTypeOK
<1>0. (playing # "Idle") \in BOOLEAN
  OBVIOUS
<1>5. missed \in BOOLEAN
  BY <1>0, Zenon
<1>6. ObserversTypeOK
  BY <1>5 DEF ObserversTypeOK
<1>7. change \in [Threads -> [at : Steps, mode : Int, conn : Nat]]
  BY DEF Unchanged, Steps
<1>4. EditorTypeOK /\ RiderTypeOK
  BY <1>1, <1>2, <1>7 DEF EditorTypeOK, RiderTypeOK, GameStates
<1> QED BY <1>3, <1>4, <1>6 DEF PlayTypeOK

\* The steps of connecting and disconnecting keep the types.
LEMMA LinkActionsTyped ==
  ASSUME LinkTypeOK,
         Connect \/ Disconnect \/ MakeModel \/ WatchLifetime \/ SetAlive \/ SetDead
           \/ ReadLock \/ ReadUnlock \/ (\E kind \in Others : Taken(kind)) \/ UNCHANGED linkVars
  PROVE  LinkTypeOK'
<1> USE DEF LinkTypeOK
<1>0. queue # <<>> => Head(queue) \in Tasks /\ Tail(queue) \in Seq(Tasks)
  OBVIOUS
<1>1. CASE Connect
  <2>1. Task("connected", connections + 1, 0) \in Tasks
    BY DEF Task, Tasks, LinkTasks
  <2> QED BY <1>1, <2>1 DEF Connect
<1>2. CASE Disconnect
  <2>1. Task("lost", up, 0) \in Tasks
    BY DEF Task, Tasks, LinkTasks
  <2> QED BY <1>2, <2>1 DEF Disconnect
<1>3. CASE MakeModel
  <2>1. Head(queue).conn \in Nat
    BY <1>0, <1>3 DEF MakeModel, Running, Tasks
  <2> QED BY <1>3, <2>1 DEF MakeModel, Running
<1>4. CASE WatchLifetime
  <2>1. Tail(queue) \in Seq(Tasks) \/ Bound
    BY <1>0, <1>4 DEF WatchLifetime
  <2> QED BY <1>4, <2>1 DEF WatchLifetime
<1>5. CASE SetAlive
  BY <1>0, <1>5 DEF SetAlive
<1>8. CASE SetDead
  BY <1>0, <1>8 DEF SetDead, Running
<1>6. CASE ReadLock \/ ReadUnlock \/ UNCHANGED linkVars
  BY <1>6 DEF ReadLock, ReadUnlock, linkVars
<1>7. CASE \E kind \in Others : Taken(kind)
  BY <1>0, <1>7 DEF Taken, Running
<1> QED BY <1>1, <1>2, <1>3, <1>4, <1>5, <1>6, <1>7, <1>8

\* Queueing a task keeps the types.
LEMMA ScheduleTyped ==
  ASSUME LinkTypeOK, NEW task \in Tasks, Schedule(<<task>>)
  PROVE  LinkTypeOK'
<1>1. <<task>> \in Seq(Tasks)
  OBVIOUS
<1>2. queue \o <<task>> \in Seq(Tasks) /\ queue \o <<task>> # <<>>
  BY <1>1 DEF LinkTypeOK
<1> QED BY <1>2 DEF Schedule, LinkTypeOK

\* The actions that only the module's own state, and an observer, know of.
LEMMA WireTyped ==
  ASSUME PlayTypeOK,
         WireConnects \/ WireDisconnects \/ HandlesConnection \/ LogBegins \/ LogEnds
           \/ UNCHANGED playVars
  PROVE  PlayTypeOK'
<1>1. LinkTypeOK'
  BY LinkActionsTyped
  DEF PlayTypeOK, WireConnects, WireDisconnects, HandlesConnection, LogBegins, LogEnds, playVars
<1>2. user' \in Nat
  BY DEF PlayTypeOK, ObserversTypeOK, WireConnects, WireDisconnects, HandlesConnection, LogBegins,
         LogEnds, playVars
<1>3. /\ UNCHANGED controlVars /\ UNCHANGED editorVars /\ UNCHANGED observers
      /\ UNCHANGED <<toRider, toEditor, rider>>
  BY DEF WireConnects, WireDisconnects, HandlesConnection, LogBegins, LogEnds, playVars
<1>4. EditorTypeOK' /\ RiderTypeOK' /\ ObserversTypeOK'
  BY <1>2, <1>3 DEF PlayTypeOK, EditorTypeOK, RiderTypeOK, ObserversTypeOK, controlVars, editorVars,
                    observers
<1> QED BY <1>1, <1>4 DEF PlayTypeOK

\* What is sent to Rider stays a sequence of messages.
LEMMA SentTyped ==
  ASSUME RiderTypeOK, NEW messages \in Seq(RiderMessage)
  PROVE  Sent(messages) \in Seq(RiderMessage)
BY DEF RiderTypeOK, Sent

\* The observers of the model's life keep the types.
LEMMA AliveTyped ==
  ASSUME PlayTypeOK, ModelIsAlive \/ ModelIsDead
  PROVE  PlayTypeOK'
<1>1. LinkTypeOK'
  BY LinkActionsTyped DEF PlayTypeOK, ModelIsAlive, ModelIsDead
<1>2. /\ change["scheduler"].mode \in Int
      /\ [change EXCEPT !["scheduler"] = Unchanged] \in [Threads -> [at : Steps, mode : Int, conn : Nat]]
  BY DEF PlayTypeOK, EditorTypeOK, Threads, Steps, Unchanged
<1>3. <<Message("mode", change["scheduler"].mode), Message("ready", TRUE)>> \in Seq(RiderMessage)
  BY <1>2 DEF Message, RiderMessage
<1>4. toRider' \in Seq(RiderMessage)
  BY <1>3, SentTyped DEF PlayTypeOK, RiderTypeOK, ModelIsAlive, ModelIsDead
<1>5. EditorTypeOK'
  <2>1. CASE ModelIsAlive
    <3>1. change' = [change EXCEPT !["scheduler"] = Unchanged] /\ playMode' = change["scheduler"].mode
          /\ UNCHANGED <<control, game, playing, settings>>
      BY <2>1 DEF ModelIsAlive
    <3> QED BY <1>2, <3>1 DEF PlayTypeOK, EditorTypeOK
  <2>2. CASE ModelIsDead
    BY <2>2 DEF PlayTypeOK, EditorTypeOK, ModelIsDead, editorVars
  <2> QED BY <2>1, <2>2
<1>6. RiderTypeOK' /\ ObserversTypeOK'
  BY <1>4 DEF PlayTypeOK, RiderTypeOK, ObserversTypeOK, ModelIsAlive, ModelIsDead, observers
<1> QED BY <1>1, <1>5, <1>6 DEF PlayTypeOK

\* A task taken off the queue leaves the types as they are.
LEMMA TakenTyped ==
  ASSUME LinkTypeOK, NEW kind \in Others, Taken(kind)
  PROVE  LinkTypeOK' /\ Head(queue) \in Tasks /\ Head(queue).kind = kind
<1>1. LinkTypeOK'
  BY LinkActionsTyped
<1> QED BY <1>1 DEF LinkTypeOK, Taken, Running

\* What the editor sends through the model keeps the types.
LEMMA SendsTyped ==
  ASSUME PlayTypeOK, SendState \/ SendMode \/ SendReply
  PROVE  PlayTypeOK'
<1>1. CASE SendState
  <2>1. Taken("state") /\ "state" \in Others
    BY <1>1 DEF SendState, Others
  <2>2. LinkTypeOK' /\ Head(queue).what \in Seq(StateMessage)
    BY <2>1, TakenTyped DEF PlayTypeOK, Tasks, LinkTasks
  <2>3. Head(queue).what \in Seq(RiderMessage)
    BY <2>2 DEF RiderMessage
  <2>4. toRider' \in Seq(RiderMessage)
    BY <1>1, <2>3, SentTyped DEF SendState, SendScheduled, PlayTypeOK, RiderTypeOK
  <2>5. missed' \in BOOLEAN
    BY <1>1, Zenon DEF SendState, SendScheduled, PlayTypeOK, ObserversTypeOK
  <2> QED BY <1>1, <2>2, <2>4, <2>5
          DEF SendState, PlayTypeOK, EditorTypeOK, RiderTypeOK, ObserversTypeOK, controlVars, editorVars
<1>2. CASE SendMode
  <2>1. Taken("mode") /\ "mode" \in Others
    BY <1>2 DEF SendMode, Others
  <2>2. LinkTypeOK' /\ Head(queue).what \in Int
    BY <2>1, TakenTyped DEF PlayTypeOK, Tasks, LinkTasks
  <2>3. <<Message("mode", Head(queue).what)>> \in Seq(RiderMessage)
    BY <2>2 DEF RiderMessage, Message
  <2>4. toRider' \in Seq(RiderMessage)
    BY <1>2, <2>3, SentTyped DEF SendMode, SendScheduled, PlayTypeOK, RiderTypeOK
  <2>5. missed' \in BOOLEAN /\ crossed' \in BOOLEAN
    BY <1>2, Zenon DEF SendMode, SendScheduled, PlayTypeOK, ObserversTypeOK
  <2> QED BY <1>2, <2>2, <2>4, <2>5
          DEF SendMode, PlayTypeOK, EditorTypeOK, RiderTypeOK, ObserversTypeOK, controlVars, editorVars
<1>3. CASE SendReply
  <2>1. Taken("reply") /\ "reply" \in Others
    BY <1>3 DEF SendReply, Others
  <2>2. LinkTypeOK' /\ Head(queue).what \in Int
    BY <2>1, TakenTyped DEF PlayTypeOK, Tasks, LinkTasks
  <2>3. <<Message("reply", Head(queue).what)>> \in Seq(RiderMessage)
    BY <2>2 DEF RiderMessage, Message
  <2>4. toRider' \in Seq(RiderMessage)
    BY <1>3, <2>3, SentTyped DEF SendReply, SendScheduled, PlayTypeOK, RiderTypeOK
  <2>5. missed' \in BOOLEAN
    BY <1>3, Zenon DEF SendReply, SendScheduled, PlayTypeOK, ObserversTypeOK
  <2> QED BY <1>3, <2>2, <2>4, <2>5
          DEF SendReply, PlayTypeOK, EditorTypeOK, RiderTypeOK, ObserversTypeOK, controlVars, editorVars
<1> QED BY <1>1, <1>2, <1>3

\* The editor's handling of messages keeps the types.
LEMMA EditorTyped ==
  ASSUME PlayTypeOK, EditorReceives \/ HandleRequest \/ ExecuteRequest
  PROVE  PlayTypeOK'
<1>1. CASE EditorReceives
  <2>1. Head(toEditor) \in EditorMessage /\ Tail(toEditor) \in Seq(EditorMessage)
    BY <1>1 DEF EditorReceives, PlayTypeOK, RiderTypeOK
  <2>2. Task(Head(toEditor).kind, 0, Head(toEditor).what) \in Tasks
    BY <2>1 DEF Task, Tasks, EditorMessage
  <2>3. LinkTypeOK'
    BY <1>1, <2>2, ScheduleTyped DEF EditorReceives, PlayTypeOK
  <2> QED BY <1>1, <2>1, <2>3
          DEF EditorReceives, PlayTypeOK, EditorTypeOK, RiderTypeOK, ObserversTypeOK, controlVars,
              editorVars, observers
<1>2. CASE HandleRequest
  <2>1. Taken("request") /\ "request" \in Others
    BY <1>2 DEF HandleRequest, Others
  <2>2. LinkTypeOK' /\ Head(queue).what \in Int
    BY <2>1, TakenTyped DEF PlayTypeOK, Tasks, LinkTasks
  <2>3. <<Message("reply", Head(queue).what)>> \in Seq(RiderMessage)
    BY <2>2 DEF RiderMessage, Message
  <2>4. toRider' \in Seq(RiderMessage)
    BY <1>2, <2>3, SentTyped DEF HandleRequest, PlayTypeOK, RiderTypeOK
  <2>5. [id |-> Head(queue).what, conn |-> control] \in GameRequest
    BY <2>2 DEF PlayTypeOK, EditorTypeOK, GameRequest
  <2>8. game' \in {game, Append(game, [id |-> Head(queue).what, conn |-> control])}
    BY <1>2 DEF HandleRequest
  <2>6. game' \in Seq(GameRequest)
    BY <2>5, <2>8 DEF PlayTypeOK, EditorTypeOK
  <2>7. unanswered' \in BOOLEAN
    BY <1>2, Zenon DEF HandleRequest, PlayTypeOK, ObserversTypeOK
  <2> QED BY <1>2, <2>2, <2>4, <2>6, <2>7
          DEF HandleRequest, PlayTypeOK, EditorTypeOK, RiderTypeOK, ObserversTypeOK, editorVars
<1>3. CASE ExecuteRequest
  <2>1. Head(game) \in GameRequest /\ Tail(game) \in Seq(GameRequest)
    BY <1>3 DEF ExecuteRequest, PlayTypeOK, EditorTypeOK
  <2>2. Task("reply", Head(game).conn, Head(game).id) \in Tasks
    BY <2>1 DEF Task, Tasks, GameRequest
  <2>3. LinkTypeOK'
    BY <1>3, <2>2, ScheduleTyped DEF ExecuteRequest, PlayTypeOK
  <2> QED BY <1>3, <2>1, <2>3
          DEF ExecuteRequest, PlayTypeOK, EditorTypeOK, RiderTypeOK, ObserversTypeOK, editorVars,
              observers
<1> QED BY <1>1, <1>2, <1>3

\* The tasks that report a change of the game are tasks.
LEMMA ReportTyped ==
  ASSUME NEW event \in {"begin", "end", "pause", "resume", "step"}, control \in Nat
  PROVE  Task("state", control,
              [i \in DOMAIN Reported(event) |-> Message("state", Reported(event)[i])]) \in Tasks
<1> DEFINE messages == [i \in DOMAIN Reported(event) |-> Message("state", Reported(event)[i])]
<1>1. Reported(event) \in Seq(GameStates)
  <2>1. \A s \in GameStates : <<s>> \in Seq(GameStates) /\ <<"Play", "Pause">> \in Seq(GameStates)
    BY DEF GameStates
  <2>2. \/ \E s \in GameStates : Reported(event) = <<s>>
        \/ Reported(event) = <<"Play", "Pause">>
    BY DEF Reported, GameStates
  <2> QED BY <2>1, <2>2 DEF GameStates
<1>2. messages \in Seq(StateMessage)
  <2>1. DOMAIN Reported(event) = 1 .. Len(Reported(event)) /\ Len(Reported(event)) \in Nat
    BY <1>1
  <2>2. \A i \in 1 .. Len(Reported(event)) : Message("state", Reported(event)[i]) \in StateMessage
    BY <1>1 DEF Message, StateMessage
  <2>3. messages \in [1 .. Len(Reported(event)) -> StateMessage]
    BY <2>1, <2>2
  <2> QED BY <2>1, <2>3, SeqDef
<1> HIDE DEF messages
<1>3. Task("state", control, messages) \in Tasks
  BY <1>2 DEF Task, Tasks
<1> QED BY <1>3 DEF messages

\* Changes of the game keep the types.
LEMMA GameTyped ==
  ASSUME PlayTypeOK, \E event \in {"begin", "end", "pause", "resume", "step"} : GameChanges(event)
  PROVE  PlayTypeOK'
<1>0. PICK event \in {"begin", "end", "pause", "resume", "step"} : GameChanges(event)
  OBVIOUS
<1> DEFINE messages == [i \in DOMAIN Reported(event) |-> Message("state", Reported(event)[i])]
<1>4. Task("state", control, messages) \in Tasks
  BY ReportTyped DEF PlayTypeOK, EditorTypeOK
<1> HIDE DEF messages
<1>5. Schedule(<<Task("state", control, messages)>>) \/ UNCHANGED linkVars
  BY <1>0, Zenon DEF GameChanges, messages
<1>6. LinkTypeOK'
  BY <1>4, <1>5, ScheduleTyped, LinkActionsTyped DEF PlayTypeOK
<1>7. playing' \in GameStates
  BY <1>0 DEF GameChanges, Happens, GameStates
<1>8. missed' \in BOOLEAN /\ user' \in Nat
  <2>1. missed' \in BOOLEAN
    BY <1>0, Zenon DEF GameChanges
  <2>2. user' \in Nat
    BY <1>0 DEF GameChanges, PlayTypeOK, ObserversTypeOK
  <2> QED BY <2>1, <2>2
<1>9. /\ UNCHANGED <<control, playMode, game, settings, change, toRider, toEditor, rider, crossed, unanswered>>
  BY <1>0 DEF GameChanges, controlVars
<1> QED BY <1>6, <1>7, <1>8, <1>9
        DEF PlayTypeOK, EditorTypeOK, RiderTypeOK, ObserversTypeOK

\* What a thread is at stays within the types.
LEMMA ChangeTyped ==
  ASSUME EditorTypeOK, NEW t \in Threads, NEW step \in Steps,
         NEW x \in [at : Steps, mode : Int, conn : Nat]
  PROVE  /\ [change EXCEPT ![t] = x] \in [Threads -> [at : Steps, mode : Int, conn : Nat]]
         /\ [change EXCEPT ![t].at = step] \in [Threads -> [at : Steps, mode : Int, conn : Nat]]
         /\ change[t].mode \in Int /\ change[t].conn \in Nat
         /\ Unchanged \in [at : Steps, mode : Int, conn : Nat]
BY DEF EditorTypeOK, Steps, Unchanged

\* The steps of a thread that changes the settings, or reads them first.
ChangeStep ==
  \/ ControlIsMade \/ ApplyMode \/ (\E field \in DOMAIN NextWrite : WriteField(field))
  \/ (\E t \in Threads : Retrieve(t) \/ Compare(t))
  \/ AssignAndTell \/ Assign \/ ReportMode
  \/ \E field \in DOMAIN NextWrite, chosen \in Settings : EditSettings(field, chosen[field])

\* A number is what a chosen field has.
LEMMA ChosenAreInt ==
  \A field \in DOMAIN NextWrite, chosen \in Settings :
    chosen[field] \in Int /\ field \in {"clients", "spawn", "dedicated"}
BY PlayControlAssumption DEF NextWrite

\* To the scheduler's queue such a step does nothing, or it is done with a mode
\* of Rider's, or it tells of one of the editor's.
LEMMA ChangeQueue ==
  ASSUME ChangeStep
  PROVE  \/ UNCHANGED linkVars
         \/ Taken("setMode")
         \/ ReportMode /\ Schedule(<<Task("mode", change["game"].conn, change["game"].mode)>>)
<1>1. \A t \in Threads : Done(t) => UNCHANGED linkVars \/ Taken("setMode")
  BY Zenon DEF Done
<1>2. CASE ControlIsMade \/ Assign \/ \E field \in DOMAIN NextWrite : WriteField(field)
  BY <1>2 DEF ControlIsMade, Assign, WriteField
<1>3. CASE ApplyMode
  BY <1>3, Zenon DEF ApplyMode
<1>4. CASE \E t \in Threads : Retrieve(t) \/ Compare(t)
  BY <1>1, <1>4, Zenon DEF Retrieve, Compare
<1>5. CASE AssignAndTell
  BY <1>1, <1>5 DEF AssignAndTell, Threads
<1>6. CASE ReportMode
  BY <1>6 DEF ReportMode
<1>7. CASE \E field \in DOMAIN NextWrite, chosen \in Settings : EditSettings(field, chosen[field])
  BY <1>7 DEF EditSettings
<1> QED BY <1>2, <1>3, <1>4, <1>5, <1>6, <1>7 DEF ChangeStep

\* What it leaves alone.
LEMMA ChangeElsewhere ==
  ASSUME ChangeStep
  PROVE  UNCHANGED <<game, playing, toEditor, rider, missed, unanswered>>
<1>1. CASE ControlIsMade \/ ApplyMode \/ AssignAndTell \/ Assign \/ ReportMode
  BY <1>1 DEF ControlIsMade, ApplyMode, AssignAndTell, Assign, ReportMode, controlVars, observers
<1>2. CASE \E field \in DOMAIN NextWrite : WriteField(field)
  BY <1>2 DEF WriteField, controlVars, observers
<1>3. CASE \E t \in Threads : Retrieve(t) \/ Compare(t)
  BY <1>3, Zenon DEF Retrieve, Compare, controlVars, observers
<1>4. CASE \E field \in DOMAIN NextWrite, chosen \in Settings : EditSettings(field, chosen[field])
  BY <1>4 DEF EditSettings, controlVars
<1> QED BY <1>1, <1>2, <1>3, <1>4 DEF ChangeStep

\* Changes of the settings keep the types.
LEMMA ChangesTyped ==
  ASSUME PlayTypeOK, ChangeStep
  PROVE  PlayTypeOK'
<1> USE DEF PlayTypeOK
<1> DEFINE Changes == [Threads -> [at : Steps, mode : Int, conn : Nat]]
           Fields == [clients : Int, spawn : Int, dedicated : Int]
<1>0. "scheduler" \in Threads /\ "game" \in Threads /\ Unchanged \in [at : Steps, mode : Int, conn : Nat]
  BY DEF Threads, Unchanged, Steps
<1>1. LinkTypeOK'
  <2>1. change["game"].conn \in Nat /\ change["game"].mode \in Int
    BY <1>0 DEF EditorTypeOK
  <2>2. Task("mode", change["game"].conn, change["game"].mode) \in Tasks
    BY <2>1 DEF Task, Tasks
  <2> QED BY <2>2, ChangeQueue, LinkActionsTyped, ScheduleTyped DEF Others
<1>2. \A mode \in Int : Sent(<<Message("mode", mode)>>) \in Seq(RiderMessage)
  <2> TAKE mode \in Int
  <2>1. <<Message("mode", mode)>> \in Seq(RiderMessage)
    BY DEF Message, RiderMessage
  <2> QED BY <2>1, SentTyped
<1>3. \A t \in Threads : Done(t) => change' \in Changes
  <2> TAKE t \in Threads
  <2>1. [change EXCEPT ![t] = Unchanged] \in Changes
    BY <1>0, ChangeTyped
  <2> QED BY <2>1, Zenon DEF Done
<1>u. ASSUME change' \in Changes, playMode' \in Int, settings' \in Fields, control' \in Nat,
             toRider' \in Seq(RiderMessage), user' \in Nat, crossed' \in BOOLEAN
      PROVE  PlayTypeOK'
  BY <1>1, <1>u, ChangeElsewhere DEF EditorTypeOK, RiderTypeOK, ObserversTypeOK
<1>t. /\ change \in Changes /\ playMode \in Int /\ settings \in Fields /\ control \in Nat /\ model \in Nat
      /\ toRider \in Seq(RiderMessage) /\ user \in Nat /\ crossed \in BOOLEAN
  BY DEF EditorTypeOK, RiderTypeOK, ObserversTypeOK, LinkTypeOK
<1>c. (\A t \in Threads : Changing(t) \in BOOLEAN) /\ Waits(queue, "mode") \in BOOLEAN
  BY Zenon DEF Changing, At, Waits
<1>4. CASE ControlIsMade
  <2>1. change' \in Changes
    BY <1>4, <1>0, ChangeTyped DEF ControlIsMade, Steps
  <2>2. crossed' \in BOOLEAN
    BY <1>4, <1>0, <1>c, <1>t, Zenon DEF ControlIsMade
  <2> QED BY <1>4, <1>t, <1>u, <2>1, <2>2 DEF ControlIsMade
<1>5. CASE ApplyMode
  <2> DEFINE next == [at |-> "clients", mode |-> Head(queue).what, conn |-> control]
  <2>1. Head(queue).what \in Int
    BY <1>5 DEF ApplyMode, Running, LinkTypeOK, Tasks, LinkTasks
  <2>2. next \in [at : Steps, mode : Int, conn : Nat]
    BY <1>t, <2>1 DEF Steps
  <2>3. [change EXCEPT !["scheduler"] = next] \in Changes
    BY <1>0, <2>2, ChangeTyped
  <2>4. change' = change \/ change' = [change EXCEPT !["scheduler"] = next]
    BY <1>5, Zenon DEF ApplyMode
  <2>5. change' \in Changes
    BY <1>t, <2>3, <2>4
  <2>6. crossed' \in BOOLEAN
    BY <1>5, <1>0, <1>c, <1>t, Zenon DEF ApplyMode
  <2> QED BY <1>5, <1>t, <1>u, <2>5, <2>6 DEF ApplyMode, controlVars
<1>6. CASE \E field \in DOMAIN NextWrite : WriteField(field)
  <2>1. PICK field \in DOMAIN NextWrite : WriteField(field)
    BY <1>6
  <2>2. field \in {"clients", "dedicated", "spawn"} /\ NextWrite[field] \in Steps
    BY DEF NextWrite, Steps
  <2>3. change' \in Changes
    BY <1>0, <2>1, <2>2, ChangeTyped DEF WriteField
  <2>4. settings' \in Fields
    <3>1. UnpackFromMode(change["scheduler"].mode) \in Fields
      BY <1>0, ChangeTyped, UnpackedAreSettings
    <3>2. UnpackFromMode(change["scheduler"].mode)[field] \in Int
      BY <2>2, <3>1
    <3> HIDE DEF Changes
    <3> QED BY <1>t, <2>1, <2>2, <3>2 DEF WriteField
  <2> QED BY <1>t, <1>u, <2>1, <2>3, <2>4 DEF WriteField, controlVars, observers
<1>7. CASE \E t \in Threads : Retrieve(t)
  <2>1. PICK t \in Threads : Retrieve(t)
    BY <1>7
  <2> DEFINE next == [at |-> IF t = "scheduler" /\ WriteLocked THEN "assign" ELSE "compare",
                      mode |-> PackToMode(settings), conn |-> control]
  <2>2. next \in [at : Steps, mode : Int, conn : Nat]
    BY <1>t, ModesAreInt DEF Steps
  <2>3. [change EXCEPT ![t] = next] \in Changes
    BY <2>2, ChangeTyped
  <2>4. Done(t) \/ change' = [change EXCEPT ![t] = next]
    BY <2>1, Zenon DEF Retrieve
  <2>5. change' \in Changes
    BY <1>3, <2>3, <2>4
  <2> QED BY <1>t, <1>u, <2>1, <2>5 DEF Retrieve, controlVars, observers
<1>8. CASE \E t \in Threads : Compare(t)
  <2>1. PICK t \in Threads : Compare(t)
    BY <1>8
  <2>2. Done(t) \/ change' = [change EXCEPT ![t].at = "assign"]
    BY <2>1, Zenon DEF Compare
  <2>3. "assign" \in Steps
    BY DEF Steps
  <2>4. [change EXCEPT ![t].at = "assign"] \in Changes
    BY <1>0, <2>3, ChangeTyped
  <2>5. change' \in Changes
    BY <1>3, <2>2, <2>4
  <2> QED BY <1>t, <1>u, <2>1, <2>5 DEF Compare, controlVars, observers
<1>9. CASE AssignAndTell
  <2>1. change' \in Changes
    BY <1>0, <1>3, <1>9 DEF AssignAndTell
  <2> QED BY <1>0, <1>2, <1>9, <1>t, <1>u, <2>1, ChangeTyped DEF AssignAndTell, observers
<1>10. CASE Assign
  <2>1. change' \in Changes
    BY <1>0, <1>10, ChangeTyped DEF Assign, Steps
  <2>2. playMode' \in Int
    BY <1>0, <1>10, <1>t, ChangeTyped DEF Assign
  <2> QED BY <1>10, <1>t, <1>u, <2>1, <2>2 DEF Assign, observers
<1>11. CASE ReportMode
  <2>1. change' \in Changes
    BY <1>0, <1>11, ChangeTyped DEF ReportMode
  <2> QED BY <1>11, <1>t, <1>u, <2>1 DEF ReportMode, controlVars, observers
<1>12. CASE \E field \in DOMAIN NextWrite, chosen \in Settings : EditSettings(field, chosen[field])
  <2>1. PICK field \in DOMAIN NextWrite, chosen \in Settings : EditSettings(field, chosen[field])
    BY <1>12
  <2>2. change' \in Changes
    BY <1>0, <2>1, ChangeTyped DEF EditSettings, Steps
  <2>3. settings' \in Fields
    BY <1>t, <2>1, ChosenAreInt DEF EditSettings
  <2>4. crossed' \in BOOLEAN
    BY <2>1, <1>0, <1>c, <1>t, Zenon DEF EditSettings
  <2>5. user' \in Nat
    BY <1>t, <2>1 DEF EditSettings
  <2> QED BY <1>t, <1>u, <2>1, <2>2, <2>3, <2>4, <2>5 DEF EditSettings, controlVars
<1> QED BY <1>4, <1>5, <1>6, <1>7, <1>8, <1>9, <1>10, <1>11, <1>12, Zenon DEF ChangeStep

\* Rider's steps keep the types.
LEMMA RiderTyped ==
  ASSUME PlayTypeOK,
         RiderConnects \/ RiderDisconnects \/ RiderReceives \/ PressButton
           \/ (\E mode \in MenuModes(rider.mode) : ChooseMode(mode))
  PROVE  PlayTypeOK'
<1> USE DEF PlayTypeOK
<1>1. LinkTypeOK' /\ EditorTypeOK'
  BY DEF RiderConnects, RiderDisconnects, RiderReceives, PressButton, ChooseMode, linkVars, controlVars,
         editorVars, LinkTypeOK, EditorTypeOK
<1>2. CASE RiderConnects
  BY <1>1, <1>2 DEF RiderConnects, LinkTypeOK, RiderTypeOK, ObserversTypeOK, observers
<1>3. CASE RiderDisconnects
  <2>1. PICK n \in 0 .. Len(toRider), k \in 0 .. Len(toEditor) :
          /\ toRider' = SubSeq(toRider, n + 1, Len(toRider))
          /\ toEditor' = SubSeq(toEditor, k + 1, Len(toEditor))
          /\ missed' = (missed \/ playing # "Idle" \/ Waits(SubSeq(toRider, 1, n), "state"))
    BY <1>3 DEF RiderDisconnects
  <2>6. \A S, s, i : s \in Seq(S) /\ i \in 0 .. Len(s) => SubSeq(s, i + 1, Len(s)) \in Seq(S)
    OBVIOUS
  <2>2. toRider' \in Seq(RiderMessage) /\ toEditor' \in Seq(EditorMessage)
    BY <2>1, <2>6 DEF RiderTypeOK
  <2>3. missed' \in BOOLEAN
    BY <2>1, Zenon
  <2>4. rider' = [rider EXCEPT !.conn = 0, !.disabled = FALSE, !.state = "Idle"]
    BY <1>3 DEF RiderDisconnects
  <2>5. RiderTypeOK'
    BY <2>2, <2>4 DEF RiderTypeOK, GameStates
  <2> QED BY <1>1, <1>3, <2>3, <2>5 DEF RiderDisconnects, ObserversTypeOK
<1>4. CASE RiderReceives
  <2>1. Head(toRider) \in RiderMessage /\ Tail(toRider) \in Seq(RiderMessage)
    BY <1>4 DEF RiderReceives, RiderTypeOK
  <2> DEFINE what == Head(toRider).what
             kind == Head(toRider).kind
  <2>2. /\ kind = "state" =>
             rider' = [rider EXCEPT !.state = what, !.disabled = rider.disabled /\ rider.state = what]
        /\ kind = "reply" => rider' = [rider EXCEPT !.disabled = rider.disabled /\ rider.id # what]
        /\ kind = "mode" => rider' = [rider EXCEPT !.mode = what]
        /\ kind = "ready" => rider' = [rider EXCEPT !.ready = what]
    <3>1. rider' =
            CASE kind = "state" ->
                   [rider EXCEPT !.state = what, !.disabled = rider.disabled /\ rider.state = what]
              [] kind = "reply" -> [rider EXCEPT !.disabled = rider.disabled /\ rider.id # what]
              [] kind = "mode" -> [rider EXCEPT !.mode = what]
              [] kind = "ready" -> [rider EXCEPT !.ready = what]
      BY <1>4 DEF RiderReceives
    <3> HIDE DEF kind, what
    <3> QED BY <3>1
  <2>7. /\ UNCHANGED <<toEditor, user, missed, crossed, unanswered>>
        /\ toRider' = Tail(toRider)
    BY <1>4 DEF RiderReceives, observers
  <2>3. kind \in {"state", "reply", "mode", "ready"}
    BY <2>1 DEF RiderMessage, StateMessage
  <2>4. /\ kind = "state" => what \in GameStates
        /\ kind \in {"mode", "reply"} => what \in Int
        /\ kind = "ready" => what \in BOOLEAN
    BY <2>1 DEF RiderMessage, StateMessage
  <2>5. (rider.disabled /\ rider.state = what) \in BOOLEAN /\ (rider.disabled /\ rider.id # what) \in BOOLEAN
    BY Zenon
  <2> HIDE DEF what, kind
  <2>6. rider' \in [conn : Nat, last : Nat, state : GameStates, ready : BOOLEAN, mode : Int,
                    disabled : BOOLEAN, id : Int]
    BY <2>2, <2>3, <2>4, <2>5 DEF RiderTypeOK
  <2> QED BY <1>1, <1>4, <2>1, <2>6, <2>7 DEF RiderTypeOK, ObserversTypeOK
<1>5. CASE PressButton
  <2>1. rider' = [rider EXCEPT !.disabled = TRUE, !.id = rider.id + 1]
    BY <1>5 DEF PressButton
  <2>2. Message("request", rider.id + 1) \in EditorMessage
    BY DEF Message, EditorMessage, RiderTypeOK
  <2>3. toEditor' \in {toEditor, Append(toEditor, Message("request", rider.id + 1))}
    BY <1>5 DEF PressButton
  <2>8. toEditor \in Seq(EditorMessage) /\ rider.id + 1 \in Int
    BY DEF RiderTypeOK
  <2>9. Append(toEditor, Message("request", rider.id + 1)) \in Seq(EditorMessage)
    BY <2>2, <2>8
  <2>5. toEditor' \in Seq(EditorMessage)
    BY <2>3, <2>8, <2>9, Zenon
  <2>10. \A id \in Int : [rider EXCEPT !.disabled = TRUE, !.id = id]
           \in [conn : Nat, last : Nat, state : GameStates, ready : BOOLEAN, mode : Int,
               disabled : BOOLEAN, id : Int]
    BY DEF RiderTypeOK
  <2>6. rider' \in [conn : Nat, last : Nat, state : GameStates, ready : BOOLEAN, mode : Int,
                    disabled : BOOLEAN, id : Int]
    BY <2>1, <2>8, <2>10, Zenon
  <2>7. toRider' = toRider
    BY <1>5 DEF PressButton
  <2>4. RiderTypeOK'
    BY <2>5, <2>6, <2>7 DEF RiderTypeOK
  <2> QED BY <1>1, <1>5, <2>4 DEF PressButton, ObserversTypeOK, observers
<1>6. CASE \E mode \in MenuModes(rider.mode) : ChooseMode(mode)
  <2>1. PICK mode \in MenuModes(rider.mode) : ChooseMode(mode)
    BY <1>6
  <2>2. mode \in Int
    BY MenuModesAreInt DEF RiderTypeOK
  <2>3. Message("setMode", mode) \in EditorMessage
    BY <2>2 DEF Message, EditorMessage
  <2>5. /\ toEditor' = Append(toEditor, Message("setMode", mode))
        /\ rider' = [rider EXCEPT !.mode = mode] /\ toRider' = toRider
    BY <2>1 DEF ChooseMode
  <2>6. toEditor' \in Seq(EditorMessage)
    BY <2>3, <2>5 DEF RiderTypeOK
  <2>7. rider' \in [conn : Nat, last : Nat, state : GameStates, ready : BOOLEAN, mode : Int,
                    disabled : BOOLEAN, id : Int]
    BY <2>2, <2>5 DEF RiderTypeOK
  <2>4. RiderTypeOK'
    BY <2>5, <2>6, <2>7 DEF RiderTypeOK
  <2> QED BY <1>1, <2>1, <2>4 DEF ChooseMode, ObserversTypeOK, observers
<1> QED BY <1>2, <1>3, <1>4, <1>5, <1>6

\* Every step keeps the types.
LEMMA StepTyped == PlayTypeOK /\ [PlayNext]_playVars => PlayTypeOK'
<1> SUFFICES ASSUME PlayTypeOK, [PlayNext]_playVars PROVE PlayTypeOK' OBVIOUS
<1>1. CASE \/ WireConnects \/ WireDisconnects \/ HandlesConnection \/ LogBegins \/ LogEnds
           \/ UNCHANGED playVars
  BY <1>1, WireTyped
<1>2. CASE ModelIsAlive \/ ModelIsDead
  BY <1>2, AliveTyped
<1>3. CASE SendState \/ SendMode \/ SendReply
  BY <1>3, SendsTyped
<1>4. CASE EditorReceives \/ HandleRequest \/ ExecuteRequest
  BY <1>4, EditorTyped
<1>5. CASE \E event \in {"begin", "end", "pause", "resume", "step"} : GameChanges(event)
  BY <1>5, GameTyped
<1>6. CASE ChangeStep
  BY <1>6, ChangesTyped
<1>7. CASE \/ RiderConnects \/ RiderDisconnects \/ RiderReceives \/ PressButton
           \/ \E mode \in MenuModes(rider.mode) : ChooseMode(mode)
  BY <1>7, RiderTyped
<1> QED BY <1>1, <1>2, <1>3, <1>4, <1>5, <1>6, <1>7 DEF PlayNext, ChangeStep

\* Types, for any number of connections, settings and users.
THEOREM TypeCorrect == PlaySpec => []PlayTypeOK
BY InitTyped, StepTyped, PTL DEF PlaySpec

-------------------------------------------------------------------------------

\* What a queue holds after a task was added.
LEMMA Appended ==
  ASSUME queue \in Seq(Tasks), NEW task \in Tasks,
         queue' = Append(queue, task) \/ queue' = queue \o <<task>>
  PROVE  /\ DOMAIN queue = 1 .. Len(queue) /\ DOMAIN queue' = 1 .. (Len(queue) + 1)
         /\ Len(queue) \in Nat
         /\ \A i \in 1 .. Len(queue) : queue'[i] = queue[i]
         /\ queue'[Len(queue) + 1] = task
         /\ queue' # <<>>
<1>1. CASE queue' = Append(queue, task)
  BY <1>1
<1>2. CASE queue' = queue \o <<task>>
  <2>1. <<task>> \in Seq(Tasks) /\ Len(<<task>>) = 1 /\ <<task>>[1] = task
    OBVIOUS
  <2>2. queue' \in Seq(Tasks) /\ Len(queue') = Len(queue) + 1
    BY <1>2, <2>1
  <2>3. \A i \in 1 .. Len(queue) : queue'[i] = queue[i]
    BY <1>2, <2>1
  <2>4. queue'[Len(queue) + 1] = task
    BY <1>2, <2>1
  <2> QED BY <2>2, <2>3, <2>4
<1> QED BY <1>1, <1>2

\* What a queue holds after its first task was taken.
LEMMA Removed ==
  ASSUME queue \in Seq(Tasks), queue # <<>>, queue' = Tail(queue)
  PROVE  /\ DOMAIN queue = 1 .. Len(queue) /\ DOMAIN queue' = 1 .. (Len(queue) - 1)
         /\ Len(queue) \in Nat /\ 1 \in DOMAIN queue
         /\ \A i \in DOMAIN queue' : i + 1 \in DOMAIN queue /\ queue'[i] = queue[i + 1]
         /\ Head(queue) = queue[1]
OBVIOUS

\* The tasks of the queue and their connections are numbered.
LEMMA QueueTyped ==
  ASSUME queue \in Seq(Tasks)
  PROVE  \A i \in DOMAIN queue : i \in Nat /\ i >= 1 /\ queue[i].conn \in Nat
BY DEF Tasks

\* To connections, scheduler and model every step is one of LinkStep.
LEMMA StepIsLinkStep ==
  ASSUME PlayTypeOK, [PlayNext]_playVars
  PROVE  LinkStep
<1>1. CASE \/ WireConnects \/ WireDisconnects \/ HandlesConnection \/ LogBegins \/ LogEnds
           \/ ModelIsAlive \/ ModelIsDead
  BY <1>1 DEF WireConnects, WireDisconnects, HandlesConnection, LogBegins, LogEnds, ModelIsAlive,
              ModelIsDead, LinkStep
<1>2. CASE SendState \/ SendMode \/ SendReply \/ HandleRequest
  <2>1. \E kind \in {"state", "mode", "reply", "request"} : Taken(kind)
    BY <1>2 DEF SendState, SendMode, SendReply, HandleRequest
  <2> QED BY <2>1 DEF Others, LinkStep
<1>3. CASE EditorReceives
  <2>1. Head(toEditor) \in EditorMessage
    BY <1>3 DEF EditorReceives, PlayTypeOK, RiderTypeOK
  <2> DEFINE task == Task(Head(toEditor).kind, 0, Head(toEditor).what)
  <2>2. task \in Tasks /\ task.kind \in Others
    BY <2>1 DEF Task, Tasks, EditorMessage, Others
  <2>3. Schedule(<<task>>)
    BY <1>3 DEF EditorReceives
  <2> QED BY <2>2, <2>3 DEF LinkStep
<1>4. CASE ExecuteRequest
  <2>1. Head(game) \in GameRequest
    BY <1>4 DEF ExecuteRequest, PlayTypeOK, EditorTypeOK
  <2> DEFINE task == Task("reply", Head(game).conn, Head(game).id)
  <2>2. task \in Tasks /\ task.kind \in Others
    BY <2>1 DEF Task, Tasks, GameRequest, Others
  <2>3. Schedule(<<task>>)
    BY <1>4 DEF ExecuteRequest
  <2> QED BY <2>2, <2>3 DEF LinkStep
<1>5. CASE \E event \in {"begin", "end", "pause", "resume", "step"} : GameChanges(event)
  <2>1. PICK event \in {"begin", "end", "pause", "resume", "step"} : GameChanges(event)
    BY <1>5
  <2> DEFINE messages == [i \in DOMAIN Reported(event) |-> Message("state", Reported(event)[i])]
             task == Task("state", control, messages)
  <2>2. Schedule(<<task>>) \/ UNCHANGED linkVars
    BY <2>1, Zenon DEF GameChanges
  <2>3. task \in Tasks /\ task.kind \in Others
    BY ReportTyped DEF PlayTypeOK, EditorTypeOK, Task, Others
  <2> QED BY <2>2, <2>3 DEF LinkStep
<1>6. CASE ChangeStep
  <2> DEFINE task == Task("mode", change["game"].conn, change["game"].mode)
  <2>1. change["game"].conn \in Nat /\ change["game"].mode \in Int
    BY DEF PlayTypeOK, EditorTypeOK, Threads
  <2>2. task \in Tasks /\ task.kind \in Others
    BY <2>1 DEF Task, Tasks, Others
  <2> QED BY <1>6, <2>2, ChangeQueue DEF Others, LinkStep
<1>7. CASE \/ RiderConnects \/ RiderDisconnects \/ RiderReceives \/ PressButton
           \/ UNCHANGED playVars \/ \E mode \in MenuModes(rider.mode) : ChooseMode(mode)
  <2>1. UNCHANGED linkVars
    BY <1>7 DEF RiderConnects, RiderDisconnects, RiderReceives, PressButton, ChooseMode, playVars
  <2> QED BY <2>1 DEF LinkStep
<1> QED BY <1>1, <1>2, <1>3, <1>4, <1>5, <1>6, <1>7 DEF PlayNext, ChangeStep

\* LinkInv holds before the first connection.
LEMMA InitLink == PlayInit => LinkInv
<1> SUFFICES ASSUME PlayInit PROVE LinkInv OBVIOUS
<1>1. DOMAIN queue = {} /\ up = 0 /\ connections = 0 /\ connecting = "no" /\ model = 0 /\ ~alive
  BY DEF PlayInit, LinkInit
<1> QED BY <1>1 DEF LinkInv, ConnectedInOrder, UpWaits, LostFirst, AliveTold

\* One lemma per action of RiderLinkModule.
LEMMA ConnectKeeps ==
  ASSUME LinkTypeOK, LinkInv, Connect
  PROVE  LinkInv'
<1> DEFINE n == Len(queue)
           task == Task("connected", connections + 1, 0)
<1>1. task \in Tasks /\ task.kind = "connected" /\ task.conn = connections + 1
  BY DEF Task, Tasks, LinkTasks, LinkTypeOK
<1> HIDE DEF task
<1>2. /\ queue' = Append(queue, task)
      /\ up = 0 /\ up' = connections + 1 /\ connections' = connections + 1
      /\ connecting' = connecting /\ model' = model /\ watched' = watched /\ alive' = alive
  BY DEF Connect, task
<1>3. /\ DOMAIN queue = 1 .. n /\ DOMAIN queue' = 1 .. (n + 1) /\ n \in Nat
      /\ \A i \in 1 .. n : queue'[i] = queue[i]
      /\ queue'[n + 1] = task /\ queue' # <<>>
  BY <1>1, <1>2, Appended DEF LinkTypeOK
<1>4. /\ connections \in Nat /\ model \in Nat
      /\ \A i \in 1 .. n : queue[i].conn \in Nat
  BY <1>3, QueueTyped DEF LinkTypeOK
<1> HIDE DEF n
<1>5. ConnectedInOrder'
  <2>1. up' \in {0, connections'} /\ model' <= connections'
    BY <1>2, <1>4 DEF LinkInv, ConnectedInOrder
  <2>2. \A i \in 1 .. n : queue[i].kind = "connected" => queue[i].conn <= connections
    BY <1>3 DEF LinkInv, ConnectedInOrder
  <2>3. ASSUME NEW i \in DOMAIN queue', queue'[i].kind = "connected"
        PROVE  /\ 1 <= queue'[i].conn /\ queue'[i].conn <= connections' /\ model' <= queue'[i].conn
               /\ queue'[i].conn = model' => connecting' # "no" /\ i = 1
               /\ \A j \in DOMAIN queue' :
                    j < i /\ queue'[j].kind = "connected" => queue'[j].conn < queue'[i].conn
    <3>1. CASE i = n + 1
      BY <1>1, <1>2, <1>3, <1>4, <2>2, <3>1 DEF LinkInv, ConnectedInOrder
    <3>2. CASE i \in 1 .. n
      BY <1>2, <1>3, <1>4, <2>3, <3>2 DEF LinkInv, ConnectedInOrder
    <3> QED BY <1>3, <3>1, <3>2
  <2>4. connecting' # "no" => queue' # <<>> /\ queue'[1].kind = "connected" /\ queue'[1].conn = model'
    BY <1>2, <1>3 DEF LinkInv, ConnectedInOrder, LinkTypeOK
  <2> QED BY <2>1, <2>3, <2>4 DEF ConnectedInOrder
<1>6. UpWaits'
  <2>1. n + 1 \in DOMAIN queue' /\ queue'[n + 1].kind = "connected" /\ queue'[n + 1].conn = up'
    BY <1>1, <1>2, <1>3
  <2> QED BY <2>1 DEF UpWaits
<1>7. up' # model'
  BY <1>2, <1>4 DEF LinkInv, ConnectedInOrder
<1>8. LostFirst'
  BY <1>1, <1>2, <1>3, <1>7 DEF LinkInv, LostFirst
<1>9. AliveTold'
  <2>1. Told => (model = 0 \/ Told')
    BY <1>2, <1>3 DEF Told
  <2>2. connecting # "no" => model # 0
    BY <1>3 DEF LinkInv, ConnectedInOrder, LinkTypeOK
  <2> QED BY <1>2, <1>7, <2>1, <2>2 DEF LinkInv, AliveTold
<1> QED BY <1>5, <1>6, <1>8, <1>9 DEF LinkInv

\* The end of a connection keeps LinkInv: it is told after the connection was.
LEMMA DisconnectKeeps ==
  ASSUME LinkTypeOK, LinkInv, Disconnect
  PROVE  LinkInv'
<1> DEFINE n == Len(queue)
           task == Task("lost", up, 0)
<1>1. task \in Tasks /\ task.kind = "lost"
  BY DEF Task, Tasks, LinkTasks, LinkTypeOK
<1> HIDE DEF task
<1>2. /\ up # 0 /\ up' = 0 /\ connections' = connections
      /\ connecting' = connecting /\ model' = model /\ watched' = watched /\ alive' = alive
      /\ up = connections
  BY DEF Disconnect, LinkInv, ConnectedInOrder
<1>3. CASE watched /\ model = up
  <2>1. /\ DOMAIN queue = 1 .. n /\ DOMAIN queue' = 1 .. (n + 1) /\ n \in Nat
        /\ \A i \in 1 .. n : queue'[i] = queue[i]
        /\ queue'[n + 1] = task /\ queue' # <<>>
    <3>1. queue' = Append(queue, task)
      BY <1>3 DEF Disconnect, task
    <3> QED BY <3>1, <1>1, Appended DEF LinkTypeOK
  <2>2. \A i \in 1 .. n : queue[i].kind = "connected" => i = 1 /\ connecting # "no"
    <3> SUFFICES ASSUME NEW i \in 1 .. n, queue[i].kind = "connected"
                 PROVE  i = 1 /\ connecting # "no"
      OBVIOUS
    <3>1. model <= queue[i].conn /\ queue[i].conn <= connections /\ queue[i].conn \in Nat
      BY <2>1, QueueTyped DEF LinkInv, ConnectedInOrder, LinkTypeOK
    <3>2. queue[i].conn = model
      BY <3>1, <1>2, <1>3 DEF LinkTypeOK
    <3> QED BY <3>2, <2>1 DEF LinkInv, ConnectedInOrder
  <2>3. \A i \in 1 .. n : queue[i].kind # "lost"
    BY <1>3, <2>1 DEF LinkInv, LostFirst
  <2> HIDE DEF n
  <2>4. ConnectedInOrder'
    BY <1>1, <1>2, <2>1 DEF LinkInv, ConnectedInOrder, LinkTypeOK
  <2>5. UpWaits'
    BY <1>2 DEF UpWaits
  <2>6. LostFirst'
    BY <1>2, <1>3, <2>1, <2>2, <2>3 DEF LostFirst
  <2>7. Told'
    <3>1. n + 1 \in DOMAIN queue' /\ queue'[n + 1].kind = "lost"
      BY <1>1, <2>1
    <3> QED BY <3>1 DEF Told
  <2>8. AliveTold'
    BY <1>2, <2>7 DEF LinkInv, AliveTold
  <2> QED BY <2>4, <2>5, <2>6, <2>8 DEF LinkInv
<1>4. CASE ~(watched /\ model = up)
  <2>1. queue' = queue
    BY <1>4 DEF Disconnect
  <2>2. watched /\ Told => Told'
    BY <1>2, <1>4, <2>1 DEF Told
  <2>3. AliveTold'
    BY <1>2, <2>2 DEF LinkInv, AliveTold
  <2>4. ConnectedInOrder' /\ UpWaits' /\ LostFirst'
    BY <1>2, <2>1 DEF LinkInv, ConnectedInOrder, UpWaits, LostFirst
  <2> QED BY <2>3, <2>4 DEF LinkInv
<1> QED BY <1>3, <1>4

\* A new model replaces one that is dead and that no thread reads.
LEMMA MakeModelKeeps ==
  ASSUME LinkTypeOK, LinkInv, MakeModel
  PROVE  LinkInv' /\ ~alive /\ ~reading
<1>1. /\ connecting = "no" /\ queue # <<>> /\ 1 \in DOMAIN queue /\ queue[1] = Head(queue)
      /\ queue[1].kind = "connected" /\ queue[1].conn \in Nat
      /\ up' = up /\ connections' = connections /\ queue' = queue /\ alive' = alive
      /\ model' = queue[1].conn /\ connecting' = "made" /\ ~reading
  BY QueueTyped DEF MakeModel, Running, LinkTypeOK
<1>2. model < queue[1].conn /\ queue[1].conn <= connections
  BY <1>1 DEF LinkInv, ConnectedInOrder, LinkTypeOK
<1>3. up = model => model = 0
  BY <1>1, <1>2 DEF LinkInv, ConnectedInOrder, LinkTypeOK
<1>4. \A i \in DOMAIN queue : queue[i].kind # "lost"
  <2> SUFFICES ASSUME NEW i \in DOMAIN queue, queue[i].kind = "lost" PROVE FALSE
    OBVIOUS
  <2>1. i # 1 /\ i \in Nat /\ i >= 1
    BY <1>1, QueueTyped DEF LinkTypeOK
  <2> QED BY <1>1, <2>1 DEF LinkInv, LostFirst
<1>5. ~alive
  BY <1>3, <1>4 DEF LinkInv, AliveTold, Told
<1>6. ConnectedInOrder'
  <2>1. \A i \in DOMAIN queue : queue[i].kind = "connected" => i = 1 \/ queue[1].conn < queue[i].conn
    BY <1>1, QueueTyped DEF LinkInv, ConnectedInOrder, LinkTypeOK
  <2>2. up' \in {0, connections'} /\ model' <= connections'
    BY <1>1, <1>2 DEF LinkInv, ConnectedInOrder
  <2>3. \A i \in DOMAIN queue : queue[i].kind = "connected" =>
          /\ 1 <= queue[i].conn /\ queue[i].conn <= connections
          /\ \A j \in DOMAIN queue : j < i /\ queue[j].kind = "connected" => queue[j].conn < queue[i].conn
    BY DEF LinkInv, ConnectedInOrder
  <2>4. \A i \in DOMAIN queue : queue[i].conn \in Nat
    BY QueueTyped DEF LinkTypeOK
  <2> QED BY <1>1, <2>1, <2>2, <2>3, <2>4 DEF ConnectedInOrder
<1>7. UpWaits'
  BY <1>1, <1>3 DEF LinkInv, UpWaits
<1>8. LostFirst'
  BY <1>1, <1>4 DEF LostFirst
<1>9. AliveTold'
  BY <1>1, <1>5 DEF AliveTold
<1> QED BY <1>1, <1>5, <1>6, <1>7, <1>8, <1>9 DEF LinkInv

\* The first of the queue is done, which was a connection only if it was handled.
LEMMA RemovalKeeps ==
  ASSUME LinkTypeOK, LinkInv, queue # <<>>, queue' = Tail(queue),
         up' = up, connections' = connections, model' = model, watched' = watched,
         connecting' = "no",
         queue[1].kind = "connected" <=> connecting # "no"
  PROVE  /\ ConnectedInOrder' /\ UpWaits' /\ LostFirst'
         /\ Told /\ queue[1].kind # "lost" => Told'
<1>1. /\ DOMAIN queue = 1 .. Len(queue) /\ DOMAIN queue' = 1 .. (Len(queue) - 1)
      /\ Len(queue) \in Nat /\ 1 \in DOMAIN queue
      /\ \A i \in DOMAIN queue' : i + 1 \in DOMAIN queue /\ queue'[i] = queue[i + 1]
  BY Removed DEF LinkTypeOK
<1>2. \A i \in DOMAIN queue : i # 1 => i - 1 \in DOMAIN queue' /\ queue'[i - 1] = queue[i]
  BY <1>1
<1>3. \A i \in DOMAIN queue : i \in Nat /\ i >= 1 /\ queue[i].conn \in Nat
  BY QueueTyped DEF LinkTypeOK
<1>4. ConnectedInOrder'
  <2>1. ASSUME NEW i \in DOMAIN queue', queue'[i].kind = "connected"
        PROVE  /\ 1 <= queue'[i].conn /\ queue'[i].conn <= connections /\ model <= queue'[i].conn
               /\ queue'[i].conn # model
               /\ \A j \in DOMAIN queue' :
                    j < i /\ queue'[j].kind = "connected" => queue'[j].conn < queue'[i].conn
    <3>1. /\ i + 1 \in DOMAIN queue /\ queue[i + 1].kind = "connected" /\ queue'[i] = queue[i + 1]
          /\ i \in Nat /\ i >= 1
      BY <1>1, <2>1
    <3>2. /\ 1 <= queue[i + 1].conn /\ queue[i + 1].conn <= connections /\ model <= queue[i + 1].conn
          /\ queue[i + 1].conn # model
      BY <3>1 DEF LinkInv, ConnectedInOrder
    <3>3. ASSUME NEW j \in DOMAIN queue', j < i, queue'[j].kind = "connected"
          PROVE  queue'[j].conn < queue'[i].conn
      <4>1. j + 1 \in DOMAIN queue /\ queue'[j] = queue[j + 1] /\ j + 1 < i + 1
        BY <1>1, <3>1, <3>3
      <4> QED BY <3>1, <3>3, <4>1 DEF LinkInv, ConnectedInOrder
    <3> QED BY <3>1, <3>2, <3>3
  <2> QED BY <2>1 DEF LinkInv, ConnectedInOrder
<1>5. UpWaits'
  <2> SUFFICES ASSUME up # 0, up # model
               PROVE  \E i \in DOMAIN queue' : queue'[i].kind = "connected" /\ queue'[i].conn = up
    BY DEF UpWaits
  <2>1. PICK i \in DOMAIN queue : queue[i].kind = "connected" /\ queue[i].conn = up
    BY DEF LinkInv, UpWaits
  <2>2. i # 1
    BY <2>1 DEF LinkInv, ConnectedInOrder
  <2> QED BY <1>2, <2>1, <2>2
<1>6. LostFirst'
  <2> SUFFICES ASSUME NEW i \in DOMAIN queue', queue'[i].kind = "lost"
               PROVE  /\ watched /\ model # up /\ model # 0
                      /\ \A j \in DOMAIN queue' : j < i => queue'[j].kind # "connected"
    BY DEF LostFirst
  <2>1. i + 1 \in DOMAIN queue /\ queue[i + 1].kind = "lost" /\ i \in Nat
    BY <1>1
  <2>2. ASSUME NEW j \in DOMAIN queue', j < i, queue'[j].kind = "connected" PROVE FALSE
    <3>1. j + 1 \in DOMAIN queue /\ queue'[j] = queue[j + 1] /\ j + 1 < i + 1 /\ j + 1 # 1
      BY <1>1, <2>1, <2>2
    <3> QED BY <2>1, <2>2, <3>1 DEF LinkInv, LostFirst
  <2> QED BY <2>1, <2>2 DEF LinkInv, LostFirst
<1>7. ASSUME Told, queue[1].kind # "lost" PROVE Told'
  <2>1. CASE model = up
    BY <2>1 DEF Told
  <2>2. CASE \E i \in DOMAIN queue : queue[i].kind = "lost"
    BY <1>2, <1>7, <2>2 DEF Told
  <2> QED BY <1>7, <2>1, <2>2 DEF Told
<1> QED BY <1>4, <1>5, <1>6, <1>7

\* Advising the end of the connection keeps LinkInv.
LEMMA WatchLifetimeKeeps ==
  ASSUME LinkTypeOK, LinkInv, WatchLifetime
  PROVE  LinkInv' /\ model' = model
<1>1. /\ connecting = "made" /\ queue # <<>> /\ queue[1].kind = "connected" /\ ~alive
      /\ up' = up /\ connections' = connections /\ model' = model /\ alive' = alive
  BY DEF WatchLifetime, LinkInv, ConnectedInOrder, AliveTold
<1>2. CASE Bound
  <2>1. /\ model = up /\ model # 0
        /\ watched' = TRUE /\ connecting' = "watched" /\ queue' = queue
    BY <1>2 DEF WatchLifetime, Bound
  <2>2. ConnectedInOrder'
    BY <1>1, <2>1 DEF LinkInv, ConnectedInOrder
  <2>3. UpWaits' /\ LostFirst'
    BY <1>1, <2>1 DEF LinkInv, UpWaits, LostFirst
  <2>4. AliveTold'
    BY <1>1, <2>1 DEF AliveTold, Told
  <2> QED BY <1>1, <2>2, <2>3, <2>4 DEF LinkInv
<1>3. CASE ~Bound
  <2>1. watched' = watched /\ connecting' = "no" /\ queue' = Tail(queue)
    BY <1>3 DEF WatchLifetime
  <2>2. ConnectedInOrder' /\ UpWaits' /\ LostFirst'
    BY <1>1, <2>1, RemovalKeeps
  <2>3. AliveTold'
    BY <1>1, <1>3, <2>1 DEF AliveTold, Bound
  <2> QED BY <1>1, <2>2, <2>3 DEF LinkInv
<1> QED BY <1>2, <1>3

\* The model becomes alive when its connection was watched.
LEMMA SetAliveKeeps ==
  ASSUME LinkTypeOK, LinkInv, SetAlive
  PROVE  LinkInv' /\ model' = model
<1>1. /\ connecting = "watched" /\ connecting' = "no" /\ alive' = TRUE /\ queue' = Tail(queue)
      /\ up' = up /\ connections' = connections /\ model' = model /\ watched' = watched
  BY DEF SetAlive
<1>2. queue # <<>> /\ queue[1].kind = "connected" /\ queue[1].conn = model /\ watched /\ Told
  BY <1>1 DEF LinkInv, ConnectedInOrder, AliveTold
<1>3. model # 0
  <2>1. 1 \in DOMAIN queue /\ queue[1].conn \in Nat
    BY <1>2, QueueTyped DEF LinkTypeOK
  <2> QED BY <1>2, <2>1 DEF LinkInv, ConnectedInOrder
<1>4. ConnectedInOrder' /\ UpWaits' /\ LostFirst' /\ Told'
  BY <1>1, <1>2, RemovalKeeps
<1>5. AliveTold'
  BY <1>1, <1>2, <1>3, <1>4 DEF AliveTold
<1> QED BY <1>1, <1>4, <1>5 DEF LinkInv

\* The news of a connection's end is about the model there is.
LEMMA SetDeadKeeps ==
  ASSUME LinkTypeOK, LinkInv, SetDead
  PROVE  LinkInv' /\ model' = model
<1>1. /\ connecting = "no" /\ queue # <<>> /\ 1 \in DOMAIN queue /\ queue[1].kind = "lost"
      /\ alive' = FALSE /\ queue' = Tail(queue) /\ connecting' = "no"
      /\ up' = up /\ connections' = connections /\ model' = model /\ watched' = watched
  BY DEF SetDead, Running, LinkTypeOK
<1>2. model # up
  BY <1>1 DEF LinkInv, LostFirst
<1>3. ConnectedInOrder' /\ UpWaits' /\ LostFirst'
  BY <1>1, RemovalKeeps
<1>4. AliveTold'
  BY <1>1, <1>2 DEF AliveTold
<1> QED BY <1>1, <1>3, <1>4 DEF LinkInv

\* What the rest of the editor queued is done.
LEMMA TakenKeeps ==
  ASSUME LinkTypeOK, LinkInv, NEW kind \in Others, Taken(kind)
  PROVE  LinkInv' /\ model' = model
<1>1. /\ connecting = "no" /\ queue # <<>> /\ queue[1].kind = kind /\ queue' = Tail(queue)
      /\ connecting' = connecting /\ alive' = alive
      /\ up' = up /\ connections' = connections /\ model' = model /\ watched' = watched
  BY DEF Taken, Running, LinkTypeOK
<1>2. kind # "connected" /\ kind # "lost"
  BY DEF Others
<1>3. ConnectedInOrder' /\ UpWaits' /\ LostFirst' /\ (Told => Told')
  BY <1>1, <1>2, RemovalKeeps
<1>4. AliveTold'
  BY <1>1, <1>3 DEF LinkInv, AliveTold
<1> QED BY <1>1, <1>3, <1>4 DEF LinkInv

\* The rest of the editor queues a task behind all others.
LEMMA ScheduleKeeps ==
  ASSUME LinkTypeOK, LinkInv, NEW task \in Tasks, task.kind \in Others, Schedule(<<task>>)
  PROVE  LinkInv' /\ model' = model
<1> DEFINE n == Len(queue)
<1>1. /\ queue' = queue \o <<task>>
      /\ connecting' = connecting /\ alive' = alive
      /\ up' = up /\ connections' = connections /\ model' = model /\ watched' = watched
  BY DEF Schedule
<1>2. /\ DOMAIN queue = 1 .. n /\ DOMAIN queue' = 1 .. (n + 1) /\ n \in Nat
      /\ \A i \in 1 .. n : queue'[i] = queue[i]
      /\ queue'[n + 1] = task /\ queue' # <<>>
  BY <1>1, Appended DEF LinkTypeOK
<1>3. task.kind # "connected" /\ task.kind # "lost"
  BY DEF Others
<1> HIDE DEF n
<1>4. ConnectedInOrder'
  BY <1>1, <1>2, <1>3 DEF LinkInv, ConnectedInOrder, LinkTypeOK
<1>5. UpWaits'
  BY <1>1, <1>2 DEF LinkInv, UpWaits
<1>6. LostFirst'
  BY <1>1, <1>2, <1>3 DEF LinkInv, LostFirst
<1>7. Told => Told'
  BY <1>1, <1>2 DEF Told
<1>8. AliveTold'
  BY <1>1, <1>7 DEF LinkInv, AliveTold
<1> QED BY <1>1, <1>4, <1>5, <1>6, <1>8 DEF LinkInv

\* Every step keeps LinkInv, and replaces a model only when nobody needs it.
LEMMA LinkStepKeeps ==
  ASSUME LinkTypeOK, LinkInv, LinkStep
  PROVE  LinkInv' /\ (model' # model => ~alive /\ ~reading)
<1>1. CASE Connect
  BY <1>1, ConnectKeeps DEF Connect
<1>2. CASE Disconnect
  BY <1>2, DisconnectKeeps DEF Disconnect
<1>3. CASE MakeModel
  BY <1>3, MakeModelKeeps
<1>4. CASE WatchLifetime
  BY <1>4, WatchLifetimeKeeps
<1>5. CASE SetAlive
  BY <1>5, SetAliveKeeps
<1>6. CASE SetDead
  BY <1>6, SetDeadKeeps
<1>7. CASE \E kind \in Others : Taken(kind)
  BY <1>7, TakenKeeps
<1>8. CASE \E task \in Tasks : task.kind \in Others /\ Schedule(<<task>>)
  BY <1>8, ScheduleKeeps
<1>9. CASE ReadLock \/ ReadUnlock \/ UNCHANGED linkVars
  <2>1. /\ queue' = queue /\ connecting' = connecting /\ alive' = alive
        /\ up' = up /\ connections' = connections /\ model' = model /\ watched' = watched
    BY <1>9 DEF ReadLock, ReadUnlock, linkVars
  <2> QED BY <2>1 DEF LinkInv, ConnectedInOrder, UpWaits, LostFirst, AliveTold, Told
<1> QED BY <1>1, <1>2, <1>3, <1>4, <1>5, <1>6, <1>7, <1>8, <1>9 DEF LinkStep

\* The model of a connection, its end and the wire, at every moment.
THEOREM Invariance == PlaySpec => [](PlayTypeOK /\ LinkInv)
<1>1. PlayInit => PlayTypeOK /\ LinkInv
  BY InitTyped, InitLink
<1>2. PlayTypeOK /\ LinkInv /\ [PlayNext]_playVars => (PlayTypeOK /\ LinkInv)'
  <2> SUFFICES ASSUME PlayTypeOK, LinkInv, [PlayNext]_playVars
               PROVE  PlayTypeOK' /\ LinkInv'
    OBVIOUS
  <2>1. LinkStep
    BY StepIsLinkStep
  <2> QED BY <2>1, StepTyped, LinkStepKeeps DEF PlayTypeOK
<1> QED BY <1>1, <1>2, PTL DEF PlaySpec

\* Once the scheduler has nothing left to do, the model is alive exactly when
\* the wire is connected, and is that connection's.
THEOREM AliveTheorem == PlaySpec => []AliveIffConnected
<1>1. PlayTypeOK /\ LinkInv => AliveIffConnected
  <2> SUFFICES ASSUME PlayTypeOK, LinkInv, queue = <<>>, connecting = "no"
               PROVE  (alive <=> up # 0) /\ (alive => model = up)
    BY DEF AliveIffConnected
  <2>1. DOMAIN queue = {}
    OBVIOUS
  <2> QED BY <2>1 DEF LinkInv, UpWaits, AliveTold, Told
<1> QED BY <1>1, Invariance, PTL

\* No model is replaced while it is said to be alive or a thread sends through it.
THEOREM ReplacedTheorem == PlaySpec => ReplacedOnlyWhenDead
<1>1. PlayTypeOK /\ LinkInv /\ [PlayNext]_playVars =>
        [model' # model => ~alive /\ ~reading]_linkVars
  <2> SUFFICES ASSUME PlayTypeOK, LinkInv, [PlayNext]_playVars
               PROVE  model' # model => ~alive /\ ~reading
    OBVIOUS
  <2> QED BY StepIsLinkStep, LinkStepKeeps DEF PlayTypeOK
<1> QED BY <1>1, Invariance, PTL DEF PlaySpec, ReplacedOnlyWhenDead
-----------------------------------------------------------------------------
(***************************************************************************)
(* What is under way: of each kind the last one that waits counts.  The    *)
(* definitions speak of the scheduler's queue q, of the wire w to Rider    *)
(* and the wire v to the editor.                                           *)
(***************************************************************************)
NoneIn(w, kind) == \A i \in DOMAIN w : w[i].kind # kind
LastIn(w, kind, X) ==
  \A i \in DOMAIN w :
    w[i].kind = kind /\ (\A j \in DOMAIN w : w[j].kind = kind => j <= i) => w[i].what \in X

\* Reports of the game whose last one is of state x.
Ending(x) == {v \in Seq(StateMessage) : v # <<>> /\ v[Len(v)].what = x}

\* The last report of the game's state is of the state x that it is in; without
\* one under way Rider shows it as s.
Reflects(q, w, s, x) ==
  /\ LastIn(q, "state", Ending(x))
  /\ NoneIn(q, "state") => LastIn(w, "state", {x})
  /\ NoneIn(q, "state") /\ NoneIn(w, "state") => s = x
ReportsFull == \A i \in DOMAIN queue : queue[i].kind = "state" => queue[i].what # <<>>
StateInv == ReportsFull /\ (~missed => Reflects(queue, toRider, rider.state, playing))

\* Rider's end of a connection follows the editor's.
RiderFollows ==
  /\ rider.conn # 0 => rider.last = rider.conn /\ up \in {0, rider.conn}
  /\ rider.last <= connections

\* The scheduler's thread is busy with the settings in the handler of a
\* connection, or with a mode of Rider's, which stays the first in the queue.
Late == {"compare", "assign", "report"}
SchedulerInv ==
  LET mine == change["scheduler"]
  IN /\ mine.at # "none" =>
          \/ connecting = "watched" /\ mine.at \in {"retrieve", "assign"}
          \/ /\ connecting = "no" /\ mine.at # "report"
             /\ queue # <<>> /\ queue[1].kind = "setMode" /\ control # 0
     /\ mine.at \in Late => mine.conn = control

\* The game's thread tells of a mode by the control it has retrieved it for, and
\* that is the one there is unless the threads were busy at once.
GameInv ==
  LET mine == change["game"]
  IN /\ mine.at \notin DOMAIN NextWrite
     /\ mine.at \in Late =>
          /\ mine.conn # 0 /\ mine.conn <= model
          /\ ~crossed => /\ control # 0 => mine.conn = control
                         /\ connecting # "no" => mine.conn # model
     /\ ~crossed => ~Changing("scheduler") \/ ~Changing("game")

\* There is a control while the model is alive, and just before.
ControlOfModel ==
  control = IF alive \/ (connecting = "watched" /\ Changing("scheduler")) THEN model ELSE 0

\* A mode that waits to be told is of the control there is, or of an older one.
ModesOfControls ==
  \A i \in DOMAIN queue : queue[i].kind = "mode" =>
    /\ queue[i].conn # 0 /\ queue[i].conn <= model
    /\ ~crossed /\ connecting # "no" => queue[i].conn # model

\* What a thread has retrieved is the mode of the settings, which are as far
\* changed as the scheduler's thread is; a control that nobody is busy for knows
\* their mode.
Written ==
  LET new == UnpackFromMode(queue[1].what)
      at == change["scheduler"].at
  IN /\ at \notin Late => change["scheduler"].mode = queue[1].what
     /\ at # "clients" => settings.clients = new.clients
     /\ at \notin {"clients", "dedicated"} => settings.dedicated = new.dedicated
     /\ at \notin {"clients", "dedicated", "spawn"} => settings.spawn = new.spawn
Applying == Changing("scheduler") /\ connecting = "no"
Synced == control # 0 /\ connecting = "no"
SettingsInv ==
  ~crossed =>
    /\ \A t \in Threads : change[t].at \in Late => change[t].mode = PackToMode(settings)
    /\ Applying => NoneIn(queue, "mode") /\ Written
    /\ Synced /\ ~Changing("scheduler") /\ ~Changing("game") => playMode = PackToMode(settings)
    /\ Synced /\ At("game", "report") => playMode = change["game"].mode

\* The control is there, and Rider is or will be connected to it; no mode waits
\* that an older control was to tell.
InTouch ==
  /\ Bound /\ connecting = "no" /\ control = model /\ (rider.conn = up \/ rider.last < up)
  /\ \A i \in DOMAIN queue : queue[i].kind = "mode" => queue[i].conn = control

\* The bits of a mode that Rider's menu does not change.
OtherBits(m) == m - (m % 16) - 128 * ((m \div 128) % 2)

\* The last the editor says of the mode is the mode p it has.  When Rider has
\* heard all, its mode m differs by what it has asked for since.
Heard(q, w) == NoneIn(q, "mode") /\ NoneIn(w, "mode")
Agree(q, w, v, m, p) ==
  /\ LastIn(q, "mode", {p})
  /\ NoneIn(q, "mode") => LastIn(w, "mode", {p})
  /\ Heard(q, w) =>
       /\ OtherBits(m) = OtherBits(p)
       /\ NoneIn(q, "setMode") /\ NoneIn(v, "setMode") => SetCompileBeforeRun(m, 0) = SetCompileBeforeRun(p, 0)
       /\ \/ m = p
          \/ /\ LastIn(v, "setMode", {m})
             /\ NoneIn(v, "setMode") => LastIn(q, "setMode", {m})
ModeInv ==
  InTouch /\ ~crossed =>
    At("game", "report") \/ Agree(queue, toRider, toEditor, rider.mode, playMode)

PlayInv ==
  /\ PlayTypeOK /\ LinkInv /\ StateInv /\ RiderFollows
  /\ SchedulerInv /\ GameInv /\ ControlOfModel /\ ModesOfControls /\ SettingsInv /\ ModeInv

\* A message was put on.
LEMMA LastLonger ==
  ASSUME NEW S, NEW w \in Seq(S), NEW m \in S, NEW kind, NEW X
  PROVE  /\ w \o <<m>> = Append(w, m) /\ Append(w, m) \in Seq(S)
         /\ m.kind # kind => /\ LastIn(w, kind, X) => LastIn(Append(w, m), kind, X)
                             /\ NoneIn(w, kind) <=> NoneIn(Append(w, m), kind)
         /\ m.kind = kind => ~NoneIn(Append(w, m), kind)
         /\ m.kind = kind /\ m.what \in X => LastIn(Append(w, m), kind, X)
<1>. DEFINE W == Append(w, m)
<1>1. PICK n \in Nat : n = Len(w) OBVIOUS
<1>2. /\ DOMAIN w = 1 .. n /\ DOMAIN W = 1 .. (n + 1)
      /\ \A i \in DOMAIN w : W[i] = w[i]
      /\ W[n + 1] = m
  BY <1>1
<1>3. w \o <<m>> = W /\ W \in Seq(S) OBVIOUS
<1>. HIDE DEF W
<1>4. ASSUME m.kind # kind
      PROVE  /\ LastIn(w, kind, X) => LastIn(W, kind, X)
             /\ NoneIn(w, kind) <=> NoneIn(W, kind)
  BY <1>2, <1>4 DEF LastIn, NoneIn
<1>5. m.kind = kind => ~NoneIn(W, kind) BY <1>2 DEF NoneIn
<1>6. m.kind = kind /\ m.what \in X => LastIn(W, kind, X) BY <1>2 DEF LastIn
<1>. QED BY <1>3, <1>4, <1>5, <1>6 DEF W

\* The first message was taken.
LEMMA LastShorter ==
  ASSUME NEW S, NEW w \in Seq(S), w # <<>>, NEW kind, NEW X
  PROVE  /\ Tail(w) \in Seq(S) /\ Head(w) \in S
         /\ LastIn(w, kind, X) => LastIn(Tail(w), kind, X)
         /\ NoneIn(w, kind) => NoneIn(Tail(w), kind) /\ Head(w).kind # kind
         /\ Head(w).kind # kind /\ NoneIn(Tail(w), kind) => NoneIn(w, kind)
         /\ Head(w).kind = kind /\ NoneIn(Tail(w), kind) /\ LastIn(w, kind, X) => Head(w).what \in X
<1>. DEFINE W == Tail(w)  h == Head(w)
<1>1. PICK n \in Nat \ {0} : n = Len(w) OBVIOUS
<1>2. /\ DOMAIN w = 1 .. n /\ DOMAIN W = 1 .. (n - 1) /\ h = w[1]
      /\ \A i \in DOMAIN W : W[i] = w[i + 1]
  BY <1>1
<1>3. W \in Seq(S) /\ h \in S OBVIOUS
<1>. HIDE DEF W, h
<1>4. \A i \in DOMAIN w : i # 1 => i - 1 \in DOMAIN W /\ W[i - 1] = w[i] BY <1>2
<1>5. LastIn(w, kind, X) => LastIn(W, kind, X)
  <2>. SUFFICES ASSUME LastIn(w, kind, X), NEW i \in DOMAIN W, W[i].kind = kind,
                       \A j \in DOMAIN W : W[j].kind = kind => j <= i
                PROVE  W[i].what \in X
    BY DEF LastIn
  <2>1. i + 1 \in DOMAIN w /\ w[i + 1] = W[i] BY <1>2
  <2>2. \A j \in DOMAIN w : w[j].kind = kind => j <= i + 1 BY <1>2, <1>4
  <2>. QED BY <2>1, <2>2 DEF LastIn
<1>6. NoneIn(w, kind) => NoneIn(W, kind) /\ h.kind # kind BY <1>2 DEF NoneIn
<1>7. h.kind # kind /\ NoneIn(W, kind) => NoneIn(w, kind) BY <1>2, <1>4 DEF NoneIn
<1>8. h.kind = kind /\ NoneIn(W, kind) /\ LastIn(w, kind, X) => h.what \in X
  <2>. SUFFICES ASSUME h.kind = kind, NoneIn(W, kind), LastIn(w, kind, X) PROVE h.what \in X OBVIOUS
  <2>1. \A j \in DOMAIN w : w[j].kind = kind => j <= 1 BY <1>2, <1>4 DEF NoneIn
  <2>. QED BY <1>2, <2>1 DEF LastIn
<1>. QED BY <1>3, <1>5, <1>6, <1>7, <1>8 DEF W, h

\* Several were put on, of one kind.
LEMMA LastJoined ==
  ASSUME NEW S, NEW w \in Seq(S), NEW v \in Seq(S), NEW one,
         \A i \in DOMAIN v : v[i].kind = one
  PROVE  /\ \A kind, X : kind # one => /\ LastIn(w, kind, X) => LastIn(w \o v, kind, X)
                                       /\ NoneIn(w, kind) <=> NoneIn(w \o v, kind)
         /\ \A X : v # <<>> /\ v[Len(v)].what \in X => LastIn(w \o v, one, X)
         /\ v # <<>> => ~NoneIn(w \o v, one)
<1>. DEFINE W == w \o v
<1>1. PICK n \in Nat, k \in Nat : n = Len(w) /\ k = Len(v) OBVIOUS
<1>2. /\ DOMAIN w = 1 .. n /\ DOMAIN v = 1 .. k /\ DOMAIN W = 1 .. (n + k) /\ (v # <<>> => k # 0)
      /\ \A i \in DOMAIN w : W[i] = w[i]
      /\ \A i \in DOMAIN v : W[n + i] = v[i]
      /\ \A i \in DOMAIN W : i \notin DOMAIN w => i - n \in DOMAIN v /\ W[i] = v[i - n]
  BY <1>1
<1>. HIDE DEF W
<1>3. ASSUME NEW kind, NEW X, kind # one
      PROVE  /\ LastIn(w, kind, X) => LastIn(W, kind, X)
             /\ NoneIn(w, kind) <=> NoneIn(W, kind)
  <2>1. \A i \in DOMAIN W : W[i].kind = kind => i \in DOMAIN w /\ W[i] = w[i] BY <1>2, <1>3
  <2>2. DOMAIN w \subseteq DOMAIN W BY <1>2
  <2>. QED BY <1>2, <2>1, <2>2 DEF LastIn, NoneIn
<1>4. ASSUME v # <<>> PROVE n + k \in DOMAIN W /\ W[n + k] = v[k] /\ W[n + k].kind = one
  BY <1>2, <1>4
<1>5. ASSUME NEW X, v # <<>>, v[k].what \in X PROVE LastIn(W, one, X)
  <2>. SUFFICES ASSUME NEW i \in DOMAIN W, \A j \in DOMAIN W : W[j].kind = one => j <= i
                PROVE  W[i].what \in X
    BY DEF LastIn
  <2>1. i = n + k BY <1>2, <1>4, <1>5
  <2>. QED BY <2>1, <1>4, <1>5
<1>6. v # <<>> => ~NoneIn(W, one) BY <1>4 DEF NoneIn
<1>. QED BY <1>1, <1>3, <1>5, <1>6 DEF W

\* Some of the first were dropped.
LEMMA LastOfRest ==
  ASSUME NEW S, NEW w \in Seq(S), NEW n \in 0 .. Len(w), NEW kind, NEW X
  PROVE  /\ SubSeq(w, n + 1, Len(w)) \in Seq(S)
         /\ LastIn(w, kind, X) => LastIn(SubSeq(w, n + 1, Len(w)), kind, X)
         /\ NoneIn(SubSeq(w, 1, n), kind) /\ NoneIn(SubSeq(w, n + 1, Len(w)), kind) => NoneIn(w, kind)
<1>. DEFINE W == SubSeq(w, n + 1, Len(w))  V == SubSeq(w, 1, n)
<1>1. PICK l \in Nat : l = Len(w) OBVIOUS
<1>2. /\ DOMAIN w = 1 .. l /\ DOMAIN W = 1 .. (l - n) /\ DOMAIN V = 1 .. n /\ n \in 0 .. l
      /\ \A i \in DOMAIN W : W[i] = w[n + i]
      /\ \A i \in DOMAIN V : V[i] = w[i]
  BY <1>1
<1>3. W \in Seq(S) OBVIOUS
<1>. HIDE DEF W, V
<1>4. \A i \in DOMAIN w : \/ i \in DOMAIN V /\ V[i] = w[i]
                          \/ i > n /\ i - n \in DOMAIN W /\ W[i - n] = w[i]
  BY <1>2
<1>5. LastIn(w, kind, X) => LastIn(W, kind, X)
  <2>. SUFFICES ASSUME LastIn(w, kind, X), NEW i \in DOMAIN W, W[i].kind = kind,
                       \A j \in DOMAIN W : W[j].kind = kind => j <= i
                PROVE  W[i].what \in X
    BY DEF LastIn
  <2>1. n + i \in DOMAIN w /\ w[n + i] = W[i] BY <1>2
  <2>2. \A j \in DOMAIN w : w[j].kind = kind => j <= n + i BY <1>2, <1>4
  <2>. QED BY <2>1, <2>2 DEF LastIn
<1>6. NoneIn(V, kind) /\ NoneIn(W, kind) => NoneIn(w, kind) BY <1>4 DEF NoneIn
<1>. QED BY <1>3, <1>5, <1>6 DEF W, V

\* Taken apart, a mode is what it was but for the bits that the editor does not
\* have.
LEMMA ModeBits ==
  ASSUME NEW m \in Int
  PROVE  /\ PackToMode(UnpackFromMode(m)) = m % 16
         /\ \A r \in MenuModes(m) : r \in Int /\ OtherBits(r) = OtherBits(m)
         /\ \A p \in Int : OtherBits(m) = OtherBits(p) /\ p = m % 16 =>
              SetCompileBeforeRun(m, 0) = SetCompileBeforeRun(p, 0)
<1>1. PackToMode(UnpackFromMode(m)) = m % 16 BY DEF PackToMode, UnpackFromMode
<1>2. ASSUME NEW n \in 1 .. 2 PROVE OtherBits(SetNumPlayers(m, n)) = OtherBits(m)
  BY DEF OtherBits, SetNumPlayers
<1>3. ASSUME NEW b \in 0 .. 1 PROVE OtherBits(SetDedicatedServer(m, b)) = OtherBits(m)
  BY DEF OtherBits, SetDedicatedServer
<1>4. ASSUME NEW b \in 0 .. 1 PROVE OtherBits(SetCompileBeforeRun(m, b)) = OtherBits(m)
  BY DEF OtherBits, SetCompileBeforeRun
<1>5. ASSUME NEW p \in Int, OtherBits(m) = OtherBits(p), p = m % 16
      PROVE  SetCompileBeforeRun(m, 0) = SetCompileBeforeRun(p, 0)
  BY <1>5 DEF OtherBits, SetCompileBeforeRun
<1>. QED BY <1>1, <1>2, <1>3, <1>4, <1>5, MenuModesAreInt DEF MenuModes

-----------------------------------------------------------------------------
\* Of a kind, W holds what w holds, and no other is its last.
Kept(w, W, kind) ==
  /\ \A i \in DOMAIN w : w[i].kind = kind => \E j \in DOMAIN W : W[j] = w[i]
  /\ \A j \in DOMAIN W : W[j].kind = kind => \E i \in DOMAIN w : w[i] = W[j]
  /\ \A X : LastIn(w, kind, X) => LastIn(W, kind, X)

\* Then there is something of the kind in both or in none.
LEMMA KeptNone ==
  ASSUME NEW w, NEW W, NEW kind, Kept(w, W, kind)
  PROVE  NoneIn(w, kind) <=> NoneIn(W, kind)
BY DEF Kept, NoneIn

\* Messages of other kinds that are put on or taken keep those of a kind.
LEMMA KeptByOthers ==
  ASSUME NEW S, NEW w \in Seq(S), NEW kind
  PROVE  /\ Kept(w, w, kind)
         /\ \A m \in S : m.kind # kind =>
              Kept(w, Append(w, m), kind) /\ Kept(w, w \o <<m>>, kind)
         /\ w # <<>> /\ Head(w).kind # kind => Kept(w, Tail(w), kind)
<1>1. Kept(w, w, kind) BY DEF Kept
<1>2. ASSUME NEW m \in S, m.kind # kind PROVE Kept(w, Append(w, m), kind) /\ w \o <<m>> = Append(w, m)
  <2>. DEFINE W == Append(w, m)
  <2>1. /\ \A i \in DOMAIN w : i \in DOMAIN W /\ W[i] = w[i]
        /\ \A j \in DOMAIN W : W[j] = m \/ (j \in DOMAIN w /\ W[j] = w[j])
    OBVIOUS
  <2>2. \A X : LastIn(w, kind, X) => LastIn(W, kind, X) BY <1>2, LastLonger
  <2>3. w \o <<m>> = W OBVIOUS
  <2>. HIDE DEF W
  <2>4. Kept(w, W, kind) BY <1>2, <2>1, <2>2 DEF Kept
  <2>. QED BY <2>3, <2>4 DEF W
<1>3. ASSUME w # <<>>, Head(w).kind # kind PROVE Kept(w, Tail(w), kind)
  <2>. DEFINE W == Tail(w)
  <2>1. PICK n \in Nat \ {0} : n = Len(w) BY <1>3
  <2>2. /\ DOMAIN w = 1 .. n /\ DOMAIN W = 1 .. (n - 1) /\ Head(w) = w[1]
        /\ \A i \in DOMAIN W : W[i] = w[i + 1]
    BY <1>3, <2>1
  <2>3. \A X : LastIn(w, kind, X) => LastIn(W, kind, X) BY <1>3, LastShorter
  <2>. HIDE DEF W
  <2>4. \A i \in DOMAIN w : i # 1 => i - 1 \in DOMAIN W /\ W[i - 1] = w[i] BY <2>2
  <2>5. \A i \in DOMAIN W : i + 1 \in DOMAIN w /\ w[i + 1] = W[i] BY <2>2
  <2>6. \A i \in DOMAIN w : w[i].kind = kind => \E j \in DOMAIN W : W[j] = w[i]
    BY <1>3, <2>2, <2>4
  <2>7. \A j \in DOMAIN W : W[j].kind = kind => \E i \in DOMAIN w : w[i] = W[j] BY <2>5
  <2>8. Kept(w, W, kind) BY <2>3, <2>6, <2>7 DEF Kept
  <2>. QED BY <2>8 DEF W
<1>. QED BY <1>1, <1>2, <1>3

\* What is left of a queue, and what is in a longer one.
LEMMA EachOf ==
  ASSUME NEW S, NEW w \in Seq(S)
  PROVE  /\ w # <<>> => /\ \A j \in DOMAIN Tail(w) : \E i \in DOMAIN w : w[i] = Tail(w)[j]
                        /\ \A i \in DOMAIN w : w[i] = Head(w) \/ \E j \in DOMAIN Tail(w) : Tail(w)[j] = w[i]
                        /\ \E i \in DOMAIN w : w[i] = Head(w)
         /\ \A m \in S : /\ \A j \in DOMAIN (w \o <<m>>) :
                              (w \o <<m>>)[j] = m \/ \E i \in DOMAIN w : w[i] = (w \o <<m>>)[j]
                         /\ \A i \in DOMAIN w : \E j \in DOMAIN (w \o <<m>>) : (w \o <<m>>)[j] = w[i]
<1>1. ASSUME w # <<>>
      PROVE  /\ \A j \in DOMAIN Tail(w) : \E i \in DOMAIN w : w[i] = Tail(w)[j]
             /\ \A i \in DOMAIN w : w[i] = Head(w) \/ \E j \in DOMAIN Tail(w) : Tail(w)[j] = w[i]
             /\ \E i \in DOMAIN w : w[i] = Head(w)
  <2>. DEFINE W == Tail(w)
  <2>1. PICK n \in Nat \ {0} : n = Len(w) BY <1>1
  <2>2. /\ DOMAIN w = 1 .. n /\ DOMAIN W = 1 .. (n - 1) /\ Head(w) = w[1]
        /\ \A i \in DOMAIN W : W[i] = w[i + 1]
    BY <1>1, <2>1
  <2>. HIDE DEF W
  <2>3. \A i \in DOMAIN w : i # 1 => i - 1 \in DOMAIN W /\ W[i - 1] = w[i] BY <2>2
  <2>4. \A i \in DOMAIN W : i + 1 \in DOMAIN w /\ w[i + 1] = W[i] BY <2>2
  <2>5. 1 \in DOMAIN w /\ w[1] = Head(w) BY <2>2
  <2>. QED BY <2>3, <2>4, <2>5 DEF W
<1>2. ASSUME NEW m \in S
      PROVE  /\ \A j \in DOMAIN (w \o <<m>>) :
                  (w \o <<m>>)[j] = m \/ \E i \in DOMAIN w : w[i] = (w \o <<m>>)[j]
             /\ \A i \in DOMAIN w : \E j \in DOMAIN (w \o <<m>>) : (w \o <<m>>)[j] = w[i]
  <2>. DEFINE W == w \o <<m>>
  <2>1. /\ \A i \in DOMAIN w : i \in DOMAIN W /\ W[i] = w[i]
        /\ \A j \in DOMAIN W : W[j] = m \/ (j \in DOMAIN w /\ W[j] = w[j])
    OBVIOUS
  <2>. HIDE DEF W
  <2>. QED BY <2>1 DEF W
<1>. QED BY <1>1, <1>2

\* Steps of what Reflects speaks of.
LEMMA ReflectsSteps ==
  ASSUME NEW q \in Seq(Tasks), NEW w \in Seq(RiderMessage), NEW s, NEW x
  PROVE  /\ \A Q, W : Kept(q, Q, "state") /\ Kept(w, W, "state") /\ Reflects(q, w, s, x) =>
              Reflects(Q, W, s, x)
         /\ \A t \in Tasks : t.kind = "state" /\ t.what \in Ending(x) =>
              Reflects(q \o <<t>>, w, s, x)
         /\ q # <<>> /\ Head(q).kind = "state" /\ Head(q).what \in Seq(StateMessage)
              /\ Head(q).what # <<>> /\ Reflects(q, w, s, x) =>
                Reflects(Tail(q), w \o Head(q).what, s, x)
         /\ w # <<>> /\ Head(w).kind = "state" /\ Reflects(q, w, s, x) =>
              Reflects(q, Tail(w), Head(w).what, x)
         /\ \A n \in 0 .. Len(w) :
              x = "Idle" /\ NoneIn(SubSeq(w, 1, n), "state") /\ Reflects(q, w, s, x) =>
                Reflects(q, SubSeq(w, n + 1, Len(w)), "Idle", x)
<1>1. ASSUME NEW Q, NEW W, Kept(q, Q, "state"), Kept(w, W, "state"), Reflects(q, w, s, x)
      PROVE  Reflects(Q, W, s, x)
  BY <1>1, KeptNone DEF Reflects, Kept
<1>2. ASSUME NEW t \in Tasks, t.kind = "state", t.what \in Ending(x) PROVE Reflects(q \o <<t>>, w, s, x)
  <2>1. LastIn(Append(q, t), "state", Ending(x)) /\ ~NoneIn(Append(q, t), "state") BY <1>2, LastLonger
  <2>2. q \o <<t>> = Append(q, t) OBVIOUS
  <2>. QED BY <2>1, <2>2 DEF Reflects
<1>3. ASSUME q # <<>>, Head(q).kind = "state", Head(q).what \in Seq(StateMessage), Head(q).what # <<>>,
             Reflects(q, w, s, x)
      PROVE  Reflects(Tail(q), w \o Head(q).what, s, x)
  <2>. DEFINE v == Head(q).what
  <2>1. /\ LastIn(Tail(q), "state", Ending(x))
        /\ NoneIn(Tail(q), "state") => v \in Ending(x)
    BY <1>3, LastShorter DEF Reflects
  <2>2. \A i \in DOMAIN v : v[i].kind = "state"
    <3>1. v \in Seq(StateMessage) BY <1>3
    <3>. HIDE DEF v
    <3>2. \A i \in DOMAIN v : v[i] \in StateMessage BY <3>1
    <3>. QED BY <3>2 DEF StateMessage
  <2>3. v \in Seq(RiderMessage)
    <3>1. v \in Seq(StateMessage) /\ StateMessage \subseteq RiderMessage BY <1>3 DEF RiderMessage
    <3>. QED BY <3>1
  <2>. HIDE DEF v
  <2>4. v # <<>> BY <1>3 DEF v
  <2>5. /\ \A X : v[Len(v)].what \in X => LastIn(w \o v, "state", X)
        /\ ~NoneIn(w \o v, "state")
    BY <2>2, <2>3, <2>4, LastJoined
  <2>6. v \in Ending(x) => LastIn(w \o v, "state", {x})
    <3>1. v \in Ending(x) => v[Len(v)].what \in {x} BY DEF Ending
    <3>. QED BY <2>5, <3>1
  <2>7. Reflects(Tail(q), w \o v, s, x) BY <2>1, <2>5, <2>6 DEF Reflects
  <2>. QED BY <2>7 DEF v
<1>4. ASSUME w # <<>>, Head(w).kind = "state", Reflects(q, w, s, x)
      PROVE  Reflects(q, Tail(w), Head(w).what, x)
  <2>1. /\ LastIn(w, "state", {x}) => LastIn(Tail(w), "state", {x})
        /\ NoneIn(Tail(w), "state") /\ LastIn(w, "state", {x}) => Head(w).what = x
    BY <1>4, LastShorter
  <2>. QED BY <1>4, <2>1 DEF Reflects
<1>5. ASSUME NEW n \in 0 .. Len(w), x = "Idle", NoneIn(SubSeq(w, 1, n), "state"), Reflects(q, w, s, x)
      PROVE  Reflects(q, SubSeq(w, n + 1, Len(w)), "Idle", x)
  <2>1. LastIn(w, "state", {x}) => LastIn(SubSeq(w, n + 1, Len(w)), "state", {x}) BY LastOfRest
  <2>. QED BY <1>5, <2>1 DEF Reflects
<1>6. \A Q, W : Kept(q, Q, "state") /\ Kept(w, W, "state") /\ Reflects(q, w, s, x) => Reflects(Q, W, s, x)
  BY <1>1
<1>7. \A t \in Tasks : t.kind = "state" /\ t.what \in Ending(x) => Reflects(q \o <<t>>, w, s, x) BY <1>2
<1>8. \A n \in 0 .. Len(w) :
        x = "Idle" /\ NoneIn(SubSeq(w, 1, n), "state") /\ Reflects(q, w, s, x) =>
          Reflects(q, SubSeq(w, n + 1, Len(w)), "Idle", x)
  BY <1>5
<1>. QED BY <1>3, <1>4, <1>6, <1>7, <1>8, Zenon

\* Steps of what Agree speaks of.
LEMMA AgreeSteps ==
  ASSUME NEW q \in Seq(Tasks), NEW w \in Seq(RiderMessage), NEW v \in Seq(EditorMessage),
         NEW m \in Int, NEW p \in Int
  PROVE  /\ \A Q, W, V : /\ Kept(q, Q, "mode") /\ Kept(q, Q, "setMode") /\ Kept(w, W, "mode")
                         /\ Kept(v, V, "setMode") /\ Agree(q, w, v, m, p)
                         => Agree(Q, W, V, m, p)
         /\ q # <<>> /\ Head(q).kind = "mode" /\ Head(q).what \in Int /\ Agree(q, w, v, m, p) =>
              Agree(Tail(q), w \o <<Message("mode", Head(q).what)>>, v, m, p)
         /\ w # <<>> /\ Head(w).kind = "mode" /\ Agree(q, w, v, m, p) =>
              Agree(q, Tail(w), v, Head(w).what, p)
         /\ \A r \in MenuModes(m) : Agree(q, w, v, m, p) =>
              Agree(q, w, Append(v, Message("setMode", r)), r, p)
         /\ v # <<>> /\ Head(v).kind = "setMode" /\ Agree(q, w, v, m, p) =>
              Agree(q \o <<Task("setMode", 0, Head(v).what)>>, w, Tail(v), m, p)
         /\ \A c \in Nat, P \in Int : Agree(q \o <<Task("mode", c, P)>>, w, v, m, P)
<1>1. ASSUME NEW Q, NEW W, NEW V, Kept(q, Q, "mode"), Kept(q, Q, "setMode"), Kept(w, W, "mode"),
             Kept(v, V, "setMode"), Agree(q, w, v, m, p)
      PROVE  Agree(Q, W, V, m, p)
  <2>1. /\ NoneIn(q, "mode") <=> NoneIn(Q, "mode")
        /\ NoneIn(q, "setMode") <=> NoneIn(Q, "setMode")
        /\ NoneIn(w, "mode") <=> NoneIn(W, "mode")
        /\ NoneIn(v, "setMode") <=> NoneIn(V, "setMode")
    BY <1>1, KeptNone
  <2>2. \A X : /\ LastIn(q, "mode", X) => LastIn(Q, "mode", X)
               /\ LastIn(q, "setMode", X) => LastIn(Q, "setMode", X)
               /\ LastIn(w, "mode", X) => LastIn(W, "mode", X)
               /\ LastIn(v, "setMode", X) => LastIn(V, "setMode", X)
    BY <1>1 DEF Kept
  <2>. QED BY <1>1, <2>1, <2>2 DEF Agree, Heard
<1>2. ASSUME q # <<>>, Head(q).kind = "mode", Head(q).what \in Int, Agree(q, w, v, m, p)
      PROVE  Agree(Tail(q), w \o <<Message("mode", Head(q).what)>>, v, m, p)
  <2>. DEFINE g == Message("mode", Head(q).what)
  <2>1. g \in RiderMessage /\ g.kind = "mode" /\ g.what = Head(q).what BY <1>2 DEF Message, RiderMessage
  <2>2. /\ LastIn(Tail(q), "mode", {p})
        /\ NoneIn(Tail(q), "mode") => Head(q).what \in {p}
    BY <1>2, LastShorter DEF Agree
  <2>. HIDE DEF g
  <2>3. ~NoneIn(Append(w, g), "mode") /\ (g.what \in {p} => LastIn(Append(w, g), "mode", {p}))
    BY <2>1, LastLonger
  <2>5. w \o <<g>> = Append(w, g) OBVIOUS
  <2>4. Agree(Tail(q), Append(w, g), v, m, p) BY <2>1, <2>2, <2>3 DEF Agree, Heard
  <2>. QED BY <2>4, <2>5 DEF g
<1>3. ASSUME w # <<>>, Head(w).kind = "mode", Agree(q, w, v, m, p)
      PROVE  Agree(q, Tail(w), v, Head(w).what, p)
  <2>1. /\ LastIn(w, "mode", {p}) => LastIn(Tail(w), "mode", {p})
        /\ NoneIn(Tail(w), "mode") /\ LastIn(w, "mode", {p}) => Head(w).what \in {p}
    BY <1>3, LastShorter
  <2>. QED BY <1>3, <2>1 DEF Agree, Heard
<1>4. ASSUME NEW r \in MenuModes(m), Agree(q, w, v, m, p)
      PROVE  Agree(q, w, Append(v, Message("setMode", r)), r, p)
  <2>1. r \in Int /\ OtherBits(r) = OtherBits(m) BY ModeBits
  <2>. DEFINE g == Message("setMode", r)
  <2>2. g \in EditorMessage /\ g.kind = "setMode" /\ g.what \in {r} BY <2>1 DEF Message, EditorMessage
  <2>. HIDE DEF g
  <2>3. ~NoneIn(Append(v, g), "setMode") /\ LastIn(Append(v, g), "setMode", {r}) BY <2>2, LastLonger
  <2>4. Agree(q, w, Append(v, g), r, p) BY <1>4, <2>1, <2>3 DEF Agree
  <2>. QED BY <2>4 DEF g
<1>5. ASSUME v # <<>>, Head(v).kind = "setMode", Agree(q, w, v, m, p)
      PROVE  Agree(q \o <<Task("setMode", 0, Head(v).what)>>, w, Tail(v), m, p)
  <2>. DEFINE t == Task("setMode", 0, Head(v).what)
  <2>1. t \in Tasks /\ t.kind = "setMode" /\ t.what = Head(v).what
    <3>0. Head(v) \in EditorMessage BY <1>5
    <3>1. Head(v).what \in Int BY <3>0 DEF EditorMessage
    <3>. QED BY <3>1 DEF Task, Tasks
  <2>2. /\ LastIn(v, "setMode", {m}) => LastIn(Tail(v), "setMode", {m})
        /\ NoneIn(Tail(v), "setMode") /\ LastIn(v, "setMode", {m}) => Head(v).what \in {m}
    BY <1>5, LastShorter
  <2>. HIDE DEF t
  <2>3. /\ ~NoneIn(Append(q, t), "setMode")
        /\ t.what \in {m} => LastIn(Append(q, t), "setMode", {m})
        /\ LastIn(q, "mode", {p}) => LastIn(Append(q, t), "mode", {p})
        /\ NoneIn(q, "mode") <=> NoneIn(Append(q, t), "mode")
    BY <2>1, LastLonger
  <2>5. q \o <<t>> = Append(q, t) OBVIOUS
  <2>4. Agree(Append(q, t), w, Tail(v), m, p) BY <1>5, <2>1, <2>2, <2>3 DEF Agree, Heard
  <2>. QED BY <2>4, <2>5 DEF t
<1>6. ASSUME NEW c \in Nat, NEW P \in Int PROVE Agree(q \o <<Task("mode", c, P)>>, w, v, m, P)
  <2>. DEFINE t == Task("mode", c, P)
  <2>1. t \in Tasks /\ t.kind = "mode" /\ t.what \in {P} BY DEF Task, Tasks
  <2>. HIDE DEF t
  <2>2. ~NoneIn(Append(q, t), "mode") /\ LastIn(Append(q, t), "mode", {P}) BY <2>1, LastLonger
  <2>4. q \o <<t>> = Append(q, t) OBVIOUS
  <2>3. Agree(Append(q, t), w, v, m, P) BY <2>2 DEF Agree, Heard
  <2>. QED BY <2>3, <2>4 DEF t
<1>. QED BY <1>1, <1>2, <1>3, <1>4, <1>5, <1>6

\* A mode of Rider's is applied, and told when it changes the editor's; a mode
\* is told to Rider when a model becomes alive.
LEMMA AgreeApplied ==
  ASSUME NEW q \in Seq(Tasks), NEW w \in Seq(RiderMessage), NEW v \in Seq(EditorMessage),
         NEW m \in Int, NEW p \in Int
  PROVE  /\ q # <<>> /\ Head(q).kind = "setMode" /\ Head(q).what \in Int
              /\ p = Head(q).what % 16 /\ Agree(q, w, v, m, p) =>
                Agree(Tail(q), w, v, m, p)
         /\ NoneIn(q, "mode") => Agree(q, w \o <<Message("mode", p)>>, v, m, p)
         /\ NoneIn(q, "mode") => Agree(q, w \o <<Message("mode", p), Message("ready", TRUE)>>, v, m, p)
<1>1. ASSUME q # <<>>, Head(q).kind = "setMode", Head(q).what \in Int, p = Head(q).what % 16,
             Agree(q, w, v, m, p)
      PROVE  Agree(Tail(q), w, v, m, p)
  <2>1. Kept(q, Tail(q), "mode") BY <1>1, KeptByOthers
  <2>2. (NoneIn(q, "mode") <=> NoneIn(Tail(q), "mode")) /\ LastIn(Tail(q), "mode", {p})
    <3>1. LastIn(q, "mode", {p}) => LastIn(Tail(q), "mode", {p}) BY <2>1 DEF Kept
    <3>. QED BY <1>1, <2>1, <3>1, KeptNone DEF Agree
  <2>3. /\ LastIn(q, "setMode", {m}) => LastIn(Tail(q), "setMode", {m})
        /\ NoneIn(Tail(q), "setMode") /\ LastIn(q, "setMode", {m}) => Head(q).what \in {m}
    BY <1>1, LastShorter
  <2>4. OtherBits(m) = OtherBits(p) /\ Head(q).what = m => SetCompileBeforeRun(m, 0) = SetCompileBeforeRun(p, 0)
    BY <1>1, ModeBits
  <2>. QED BY <1>1, <2>2, <2>3, <2>4 DEF Agree, Heard
<1>. DEFINE g == Message("mode", p)  h == Message("ready", TRUE)
<1>2. /\ g \in RiderMessage /\ g.kind = "mode" /\ g.what \in {p}
      /\ h \in RiderMessage /\ h.kind # "mode"
  BY DEF Message, RiderMessage
<1>. HIDE DEF g, h
<1>3. /\ w \o <<g>> = Append(w, g) /\ Append(w, g) \in Seq(RiderMessage)
      /\ w \o <<g, h>> = Append(Append(w, g), h)
  BY <1>2
<1>4. ~NoneIn(Append(w, g), "mode") /\ LastIn(Append(w, g), "mode", {p}) BY <1>2, LastLonger
<1>5. ~NoneIn(Append(Append(w, g), h), "mode") /\ LastIn(Append(Append(w, g), h), "mode", {p})
  BY <1>2, <1>3, <1>4, LastLonger
<1>6. NoneIn(q, "mode") => LastIn(q, "mode", {p}) BY DEF NoneIn, LastIn
<1>7. NoneIn(q, "mode") => Agree(q, Append(w, g), v, m, p) BY <1>4, <1>6 DEF Agree, Heard
<1>8. NoneIn(q, "mode") => Agree(q, Append(Append(w, g), h), v, m, p) BY <1>5, <1>6 DEF Agree, Heard
<1>9. /\ NoneIn(q, "mode") => Agree(q, w \o <<g>>, v, m, p)
      /\ NoneIn(q, "mode") => Agree(q, w \o <<g, h>>, v, m, p)
  BY <1>3, <1>7, <1>8
<1>. QED BY <1>1, <1>9, Zenon DEF g, h

-----------------------------------------------------------------------------
\* Steps that change nothing that Reflects and Agree speak of.
Elsewhere ==
  \/ WireConnects \/ WireDisconnects \/ HandlesConnection \/ LogBegins \/ LogEnds
  \/ ModelIsDead \/ SendReply \/ HandleRequest \/ ExecuteRequest \/ RiderConnects \/ PressButton
  \/ UNCHANGED playVars

\* The queue, after such a step, is as it was for the state, the mode and
\* Rider's modes.
LEMMA QueueElsewhere ==
  ASSUME PlayTypeOK, LinkInv, Elsewhere, NEW kind \in {"state", "mode", "setMode"}
  PROVE  Kept(queue, queue', kind)
<1>. USE DEF PlayTypeOK, LinkTypeOK
<1>1. Kept(queue, queue, kind) BY KeptByOthers
<1>2. queue # <<>> => Head(queue) = queue[1] OBVIOUS
<1>3. CASE WireConnects
  <2>1. Task("connected", connections + 1, 0) \in Tasks /\ Task("connected", connections + 1, 0).kind # kind
    BY DEF Task, Tasks, LinkTasks
  <2>. QED BY <1>3, <2>1, KeptByOthers DEF WireConnects, Connect
<1>4. CASE WireDisconnects
  <2>1. Task("lost", up, 0) \in Tasks /\ Task("lost", up, 0).kind # kind
    BY DEF Task, Tasks, LinkTasks
  <2>2. Kept(queue, Append(queue, Task("lost", up, 0)), kind) BY <2>1, KeptByOthers
  <2>. QED BY <1>1, <1>4, <2>2 DEF WireDisconnects, Disconnect
<1>5. CASE HandlesConnection
  <2>1. CASE MakeModel BY <1>1, <2>1 DEF MakeModel
  <2>2. CASE WatchLifetime
    <3>1. queue # <<>> /\ Head(queue).kind # kind
      BY <1>2, <2>2 DEF WatchLifetime, LinkInv, ConnectedInOrder
    <3>2. Kept(queue, Tail(queue), kind) BY <3>1, KeptByOthers
    <3>. QED BY <1>1, <2>2, <3>2 DEF WatchLifetime
  <2>. QED BY <1>5, <2>1, <2>2 DEF HandlesConnection
<1>6. CASE LogBegins \/ LogEnds \/ RiderConnects \/ PressButton \/ UNCHANGED playVars
  <2>1. queue' = queue
    BY <1>6 DEF LogBegins, LogEnds, ReadLock, ReadUnlock, RiderConnects, PressButton, playVars, linkVars
  <2>. QED BY <1>1, <2>1
<1>7. CASE ModelIsDead \/ SendReply \/ HandleRequest
  <2>1. queue # <<>> /\ Head(queue).kind # kind /\ queue' = Tail(queue)
    BY <1>7 DEF ModelIsDead, SetDead, SendReply, HandleRequest, Taken, Running
  <2>. QED BY <2>1, KeptByOthers
<1>8. CASE ExecuteRequest
  <2>. DEFINE t == Task("reply", Head(game).conn, Head(game).id)
  <2>1. Head(game) \in GameRequest BY <1>8 DEF ExecuteRequest, EditorTypeOK
  <2>2. t \in Tasks /\ t.kind # kind BY <2>1 DEF Task, Tasks, GameRequest
  <2>3. queue' = queue \o <<t>> BY <1>8 DEF ExecuteRequest, Schedule
  <2>. HIDE DEF t
  <2>. QED BY <2>2, <2>3, KeptByOthers
<1>. QED BY <1>3, <1>4, <1>5, <1>6, <1>7, <1>8 DEF Elsewhere

\* Nor do such steps change the wires, but for requests and replies.
LEMMA WiresElsewhere ==
  ASSUME PlayTypeOK, LinkInv, Elsewhere, NEW kind \in {"state", "mode", "setMode"}
  PROVE  /\ Kept(toRider, toRider', kind) /\ Kept(toEditor, toEditor', kind)
         /\ rider'.state = rider.state /\ rider'.mode = rider.mode
         /\ settings' = settings /\ playing' = playing
         /\ missed' = missed /\ crossed' = crossed
<1>. USE DEF PlayTypeOK, RiderTypeOK
<1>1. Kept(toRider, toRider, kind) /\ Kept(toEditor, toEditor, kind) BY KeptByOthers
<1>2. CASE \/ WireConnects \/ WireDisconnects \/ HandlesConnection \/ LogBegins \/ LogEnds
           \/ ModelIsDead \/ ExecuteRequest \/ UNCHANGED playVars
  <2>1. /\ toRider' = toRider /\ toEditor' = toEditor /\ rider' = rider
        /\ settings' = settings /\ playing' = playing /\ missed' = missed /\ crossed' = crossed
    BY <1>2 DEF WireConnects, WireDisconnects, HandlesConnection, LogBegins, LogEnds, ModelIsDead,
                ExecuteRequest, playVars, editorVars, observers
  <2>. QED BY <1>1, <2>1
<1>3. CASE SendReply \/ HandleRequest
  <2>. DEFINE g == Message("reply", Head(queue).what)
  <2>1. Taken("reply") \/ Taken("request") BY <1>3 DEF SendReply, HandleRequest
  <2>2. Head(queue).what \in Int BY <2>1, TakenTyped DEF Others, Tasks, LinkTasks
  <2>3. g \in RiderMessage /\ g.kind # kind BY <2>2 DEF Message, RiderMessage
  <2>4. toRider' \in {toRider, toRider \o <<g>>}
    BY <1>3 DEF SendReply, SendScheduled, HandleRequest, Sent
  <2>. HIDE DEF g
  <2>5. Kept(toRider, toRider', kind) BY <2>3, <2>4, KeptByOthers
  <2>6. missed' = missed
    <3>1. CASE SendReply BY <3>1 DEF SendReply, SendScheduled, ObserversTypeOK
    <3>2. CASE HandleRequest BY <3>2 DEF HandleRequest
    <3>. QED BY <1>3, <3>1, <3>2
  <2>7. /\ toEditor' = toEditor /\ rider' = rider
        /\ settings' = settings /\ playing' = playing /\ crossed' = crossed
    BY <1>3 DEF SendReply, HandleRequest, editorVars
  <2>. QED BY <1>1, <2>5, <2>6, <2>7
<1>4. CASE RiderConnects
  BY <1>1, <1>4 DEF RiderConnects, editorVars, observers
<1>5. CASE PressButton
  <2>1. Message("request", rider.id + 1) \in EditorMessage /\ Message("request", rider.id + 1).kind # kind
    BY DEF Message, EditorMessage
  <2>2. Kept(toEditor, Append(toEditor, Message("request", rider.id + 1)), kind)
    BY <2>1, KeptByOthers
  <2>. QED BY <1>1, <1>5, <2>2 DEF PressButton, editorVars, observers
<1>. QED BY <1>2, <1>3, <1>4, <1>5 DEF Elsewhere

\* Every step is one of those, or one of these.
LEMMA EveryStep ==
  ASSUME [PlayNext]_playVars
  PROVE  \/ Elsewhere \/ ModelIsAlive \/ SendState \/ SendMode \/ EditorReceives \/ ChangeStep
         \/ \E event \in {"begin", "end", "pause", "resume", "step"} : GameChanges(event)
         \/ RiderDisconnects \/ RiderReceives
         \/ \E m \in MenuModes(rider.mode) : ChooseMode(m)
BY DEF PlayNext, Elsewhere, ChangeStep

\* A change of the settings does nothing else to the connections.
LEMMA ChangeLink ==
  ASSUME ChangeStep
  PROVE  UNCHANGED <<up, connections, connecting, model, watched, alive, reading>>
BY ChangeQueue DEF linkVars, Taken, Schedule

\* What it does to the scheduler's queue and to the wire.
LEMMA ChangeMessages ==
  ASSUME PlayTypeOK, ChangeStep
  PROVE  /\ \/ queue' = queue
            \/ queue # <<>> /\ Head(queue).kind = "setMode" /\ queue' = Tail(queue)
            \/ /\ ReportMode
               /\ queue' = queue \o <<Task("mode", change["game"].conn, change["game"].mode)>>
               /\ Task("mode", change["game"].conn, change["game"].mode) \in Tasks
         /\ \/ toRider' = toRider
            \/ AssignAndTell /\ \E P \in Int : toRider' = toRider \o <<Message("mode", P)>>
<1>1. change["game"].conn \in Nat /\ \A t \in Threads : change[t].mode \in Int
  BY DEF PlayTypeOK, EditorTypeOK, Threads
<1>2. Task("mode", change["game"].conn, change["game"].mode) \in Tasks
  BY <1>1 DEF Task, Tasks, Threads
<1>3. CASE AssignAndTell
  BY <1>1, <1>2, <1>3, ChangeQueue DEF AssignAndTell, Sent, linkVars, Taken, Running, Schedule, Threads
<1>4. CASE ~AssignAndTell
  <2>1. toRider' = toRider
    <3>1. CASE ControlIsMade \/ ApplyMode \/ Assign \/ ReportMode
      BY <3>1 DEF ControlIsMade, ApplyMode, Assign, ReportMode
    <3>2. CASE \E field \in DOMAIN NextWrite : WriteField(field)
      BY <3>2 DEF WriteField
    <3>3. CASE \E t \in Threads : Retrieve(t) \/ Compare(t)
      BY <3>3, Zenon DEF Retrieve, Compare
    <3>4. CASE \E field \in DOMAIN NextWrite, chosen \in Settings : EditSettings(field, chosen[field])
      BY <3>4 DEF EditSettings
    <3>. QED BY <1>4, <3>1, <3>2, <3>3, <3>4 DEF ChangeStep
  <2>. QED BY <1>2, <2>1, ChangeQueue DEF linkVars, Taken, Running, Schedule
<1>. QED BY <1>3, <1>4

\* The reports of the game end with the state it is in.
LEMMA ReportEnds ==
  ASSUME NEW event \in {"begin", "end", "pause", "resume", "step"}, playing \in GameStates,
         Happens(event)
  PROVE  [i \in DOMAIN Reported(event) |-> Message("state", Reported(event)[i])] \in Ending(playing')
<1>. DEFINE r == [i \in DOMAIN Reported(event) |-> Message("state", Reported(event)[i])]
<1>1. \/ Reported(event) = <<playing'>> /\ playing' \in GameStates
      \/ Reported(event) = <<"Play", "Pause">> /\ playing' = "Pause"
  BY DEF Reported, Happens, GameStates
<1>2. CASE Reported(event) = <<playing'>> /\ playing' \in GameStates
  <2>1. r = <<Message("state", playing')>> BY <1>2
  <2>2. Message("state", playing') \in StateMessage BY <1>2 DEF Message, StateMessage
  <2>3. Message("state", playing').what = playing' BY DEF Message
  <2>. HIDE DEF r
  <2>4. r \in Seq(StateMessage) /\ r # <<>> /\ r[Len(r)] = Message("state", playing') BY <2>1, <2>2
  <2>. QED BY <2>3, <2>4 DEF Ending, r
<1>3. CASE Reported(event) = <<"Play", "Pause">> /\ playing' = "Pause"
  <2>1. r = <<Message("state", "Play"), Message("state", "Pause")>> BY <1>3
  <2>2. Message("state", "Play") \in StateMessage /\ Message("state", "Pause") \in StateMessage
    BY DEF Message, StateMessage, GameStates
  <2>3. Message("state", "Pause").what = playing' BY <1>3 DEF Message
  <2>. HIDE DEF r
  <2>4. r \in Seq(StateMessage) /\ r # <<>> /\ r[Len(r)] = Message("state", "Pause") BY <2>1, <2>2
  <2>. QED BY <2>3, <2>4 DEF Ending, r
<1>. QED BY <1>1, <1>2, <1>3

\* Where a step takes the first task, or puts one on, the reports of the rest
\* are as full as they were.
LEMMA FullStays ==
  ASSUME PlayTypeOK, ReportsFull
  PROVE  /\ queue # <<>> /\ queue' = Tail(queue) => ReportsFull'
         /\ queue' = queue => ReportsFull'
         /\ \A t \in Tasks : queue' = queue \o <<t>> /\ (t.kind = "state" => t.what # <<>>) => ReportsFull'
<1>. USE DEF PlayTypeOK, LinkTypeOK
<1>1. ASSUME queue # <<>>, queue' = Tail(queue) PROVE ReportsFull'
  <2>1. \A j \in DOMAIN Tail(queue) : \E i \in DOMAIN queue : queue[i] = Tail(queue)[j] BY <1>1, EachOf
  <2>. QED BY <1>1, <2>1 DEF ReportsFull
<1>2. queue' = queue => ReportsFull' BY DEF ReportsFull
<1>3. ASSUME NEW t \in Tasks, queue' = queue \o <<t>>, t.kind = "state" => t.what # <<>> PROVE ReportsFull'
  <2>1. \A j \in DOMAIN (queue \o <<t>>) :
          (queue \o <<t>>)[j] = t \/ \E i \in DOMAIN queue : queue[i] = (queue \o <<t>>)[j]
    BY EachOf
  <2>2. \A j \in DOMAIN queue' : queue'[j] = t \/ \E i \in DOMAIN queue : queue[i] = queue'[j]
    BY <1>3, <2>1
  <2>. QED BY <1>3, <2>2 DEF ReportsFull
<1>. QED BY <1>1, <1>2, <1>3

\* The state that Rider shows, or is about to show, is the game's.
LEMMA StateKeeps ==
  ASSUME PlayTypeOK, LinkInv, StateInv, [PlayNext]_playVars
  PROVE  StateInv'
<1>. USE DEF PlayTypeOK
<1>t. queue \in Seq(Tasks) /\ toRider \in Seq(RiderMessage) /\ toEditor \in Seq(EditorMessage)
  BY DEF LinkTypeOK, RiderTypeOK
<1>q. queue # <<>> => Head(queue) = queue[1] /\ 1 \in DOMAIN queue BY <1>t
<1>0. Kept(queue, queue, "state") /\ Kept(toRider, toRider, "state") BY <1>t, KeptByOthers
<1>1. CASE Elsewhere
  <2>1. Kept(queue, queue', "state") BY <1>1, QueueElsewhere
  <2>2. /\ Kept(toRider, toRider', "state") /\ rider'.state = rider.state
        /\ playing' = playing /\ missed' = missed
    BY <1>1, WiresElsewhere
  <2>3. ReportsFull' BY <2>1 DEF StateInv, ReportsFull, Kept
  <2>4. Reflects(queue, toRider, rider.state, playing) => Reflects(queue', toRider', rider.state, playing)
    BY <1>t, <2>1, <2>2, ReflectsSteps
  <2>. QED BY <2>2, <2>3, <2>4 DEF StateInv
<1>2. CASE ModelIsAlive
  <2>. DEFINE v == <<Message("mode", change["scheduler"].mode), Message("ready", TRUE)>>
  <2>1. queue # <<>> /\ queue' = Tail(queue) /\ Head(queue).kind # "state"
    BY <1>2, <1>q DEF ModelIsAlive, SetAlive, LinkInv, ConnectedInOrder
  <2>2. change["scheduler"].mode \in Int BY DEF EditorTypeOK, Threads
  <2>3. v \in Seq(RiderMessage) /\ \A i \in DOMAIN v : v[i].kind \in {"mode", "ready"}
    BY <2>2 DEF Message, RiderMessage
  <2>4. /\ Message("mode", change["scheduler"].mode) \in RiderMessage
        /\ Message("ready", TRUE) \in RiderMessage
        /\ Message("mode", change["scheduler"].mode).kind # "state" /\ Message("ready", TRUE).kind # "state"
    BY <2>2 DEF Message, RiderMessage
  <2>5. Kept(toRider, toRider \o v, "state")
    <3>. DEFINE g == Message("mode", change["scheduler"].mode)  h == Message("ready", TRUE)
    <3>1. g \in RiderMessage /\ h \in RiderMessage /\ g.kind # "state" /\ h.kind # "state" BY <2>4
    <3>. HIDE DEF g, h
    <3>2. Kept(toRider, Append(toRider, g), "state") BY <1>t, <3>1, KeptByOthers
    <3>3. Append(toRider, g) \in Seq(RiderMessage) BY <1>t, <3>1
    <3>4. Kept(Append(toRider, g), Append(Append(toRider, g), h), "state") BY <3>1, <3>3, KeptByOthers
    <3>5. toRider \o <<g, h>> = Append(Append(toRider, g), h) BY <1>t, <3>1
    <3>6. Kept(toRider, Append(Append(toRider, g), h), "state")
      <4>. DEFINE w1 == Append(toRider, g)  w2 == Append(w1, h)
      <4>1. Kept(toRider, w1, "state") /\ Kept(w1, w2, "state") BY <3>2, <3>4
      <4>. HIDE DEF w1, w2
      <4>2. Kept(toRider, w2, "state") BY <4>1 DEF Kept
      <4>. QED BY <4>2 DEF w1, w2
    <3>. QED BY <3>5, <3>6 DEF g, h
  <2>6. toRider' \in {toRider, toRider \o v} BY <1>2 DEF ModelIsAlive, Sent
  <2>. HIDE DEF v
  <2>7. Kept(toRider, toRider', "state") BY <1>0, <2>5, <2>6
  <2>8. Kept(queue, queue', "state") BY <1>t, <2>1, KeptByOthers
  <2>9. missed' = missed /\ rider' = rider /\ playing' = playing
    BY <1>2 DEF ModelIsAlive, observers
  <2>10. Reflects(queue, toRider, rider.state, playing) => Reflects(queue', toRider', rider.state, playing)
    BY <1>t, <2>7, <2>8, ReflectsSteps
  <2>. QED BY <2>1, <2>9, <2>10, FullStays DEF StateInv
<1>3. CASE SendState
  <2>1. /\ Taken("state") /\ queue # <<>> /\ queue' = Tail(queue) /\ Head(queue).kind = "state"
        /\ rider' = rider /\ playing' = playing
        /\ missed' = (missed \/ toRider' = toRider)
        /\ toRider' \in {toRider, toRider \o Head(queue).what}
    BY <1>3 DEF SendState, SendScheduled, Taken, Running, editorVars, Sent
  <2>2. Head(queue).what \in Seq(StateMessage) BY <2>1, TakenTyped DEF Others, Tasks, LinkTasks
  <2>3. Head(queue).what # <<>> BY <1>q, <2>1 DEF StateInv, ReportsFull
  <2>4. ReportsFull' BY <2>1, FullStays DEF StateInv
  <2>5. ASSUME ~missed' PROVE Reflects(queue', toRider', rider'.state, playing')
    <3>1. ~missed /\ toRider' = toRider \o Head(queue).what BY <2>1, <2>5
    <3>2. Reflects(queue, toRider, rider.state, playing) BY <3>1 DEF StateInv
    <3>. QED BY <1>t, <2>1, <2>2, <2>3, <3>1, <3>2, ReflectsSteps
  <2>. QED BY <2>4, <2>5 DEF StateInv
<1>4. CASE SendMode
  <2>1. /\ Taken("mode")
        /\ queue # <<>> /\ queue' = Tail(queue) /\ Head(queue).kind # "state"
        /\ rider' = rider /\ playing' = playing
    BY <1>4 DEF SendMode, Taken, Running, editorVars
  <2>2. Head(queue).what \in Int BY <2>1, TakenTyped DEF Others, Tasks, LinkTasks
  <2>3. PICK p \in Int : toRider' \in {toRider, toRider \o <<Message("mode", p)>>}
    BY <1>4, <2>2 DEF SendMode, SendScheduled, Sent
  <2>4. Message("mode", p) \in RiderMessage /\ Message("mode", p).kind # "state"
    BY DEF Message, RiderMessage
  <2>5. Kept(toRider, toRider \o <<Message("mode", p)>>, "state") BY <1>t, <2>4, KeptByOthers
  <2>6. Kept(toRider, toRider', "state") BY <1>0, <2>3, <2>5
  <2>7. Kept(queue, queue', "state") BY <1>t, <2>1, KeptByOthers
  <2>8. missed' = missed BY <1>4 DEF SendMode, SendScheduled, ObserversTypeOK
  <2>9. Reflects(queue, toRider, rider.state, playing) => Reflects(queue', toRider', rider.state, playing)
    BY <1>t, <2>6, <2>7, ReflectsSteps
  <2>. QED BY <2>1, <2>8, <2>9, FullStays DEF StateInv
<1>5. CASE EditorReceives
  <2>. DEFINE t == Task(Head(toEditor).kind, 0, Head(toEditor).what)
  <2>1. Head(toEditor) \in EditorMessage BY <1>t, <1>5 DEF EditorReceives
  <2>2. t \in Tasks /\ t.kind # "state" BY <2>1 DEF Task, Tasks, EditorMessage
  <2>3. /\ queue' = queue \o <<t>> /\ toRider' = toRider /\ rider' = rider
        /\ playing' = playing /\ missed' = missed
    BY <1>5 DEF EditorReceives, Schedule, editorVars, observers
  <2>. HIDE DEF t
  <2>4. Kept(queue, queue', "state") BY <1>t, <2>2, <2>3, KeptByOthers
  <2>5. Reflects(queue, toRider, rider.state, playing) => Reflects(queue', toRider, rider.state, playing)
    BY <1>0, <1>t, <2>4, ReflectsSteps
  <2>6. ReportsFull' BY <2>2, <2>3, FullStays DEF StateInv
  <2>. QED BY <2>3, <2>5, <2>6 DEF StateInv
<1>6. CASE \E event \in {"begin", "end", "pause", "resume", "step"} : GameChanges(event)
  <2>0. PICK event \in {"begin", "end", "pause", "resume", "step"} : GameChanges(event) BY <1>6
  <2>. DEFINE r == [i \in DOMAIN Reported(event) |-> Message("state", Reported(event)[i])]
              t == Task("state", control, r)
  <2>1. Happens(event) /\ rider' = rider /\ toRider' = toRider BY <2>0 DEF GameChanges
  <2>2. t \in Tasks BY ReportTyped DEF EditorTypeOK
  <2>3. r \in Ending(playing') BY <2>1, ReportEnds DEF EditorTypeOK
  <2>4. \/ queue' = queue /\ missed' = TRUE
        \/ queue' = queue \o <<t>>
    BY <2>0, Zenon DEF GameChanges, linkVars, Schedule
  <2>5. t.kind = "state" /\ t.what = r BY DEF Task
  <2>. HIDE DEF r, t
  <2>6. r # <<>> BY <2>3 DEF Ending
  <2>7. ReportsFull' BY <2>2, <2>4, <2>5, <2>6, FullStays DEF StateInv
  <2>8. queue' = queue \o <<t>> => Reflects(queue', toRider, rider.state, playing')
    <3>1. ASSUME NEW x, r \in Ending(x) PROVE Reflects(queue \o <<t>>, toRider, rider.state, x)
      BY <1>t, <2>2, <2>5, <3>1, ReflectsSteps
    <3>. QED BY <2>3, <3>1
  <2>. QED BY <2>1, <2>4, <2>7, <2>8 DEF StateInv
<1>7. CASE ChangeStep
  <2>. DEFINE t == Task("mode", change["game"].conn, change["game"].mode)
  <2>1. t.kind # "state" BY DEF Task
  <2>2. /\ \/ queue' = queue
           \/ queue # <<>> /\ Head(queue).kind = "setMode" /\ queue' = Tail(queue)
           \/ queue' = queue \o <<t>> /\ t \in Tasks
        /\ \/ toRider' = toRider
           \/ \E P \in Int : toRider' = toRider \o <<Message("mode", P)>>
    BY <1>7, ChangeMessages
  <2>3. rider' = rider /\ playing' = playing /\ missed' = missed BY <1>7, ChangeElsewhere
  <2>. HIDE DEF t
  <2>4. Kept(queue, queue', "state") BY <1>0, <1>t, <2>1, <2>2, KeptByOthers
  <2>5. \A P \in Int : Kept(toRider, toRider \o <<Message("mode", P)>>, "state")
    <3>. TAKE P \in Int
    <3>1. Message("mode", P) \in RiderMessage /\ Message("mode", P).kind # "state"
      BY DEF Message, RiderMessage
    <3>. QED BY <1>t, <3>1, KeptByOthers
  <2>6. Kept(toRider, toRider', "state") BY <1>0, <2>2, <2>5
  <2>7. Reflects(queue, toRider, rider.state, playing) => Reflects(queue', toRider', rider.state, playing)
    BY <1>t, <2>4, <2>6, ReflectsSteps
  <2>8. ReportsFull' BY <2>1, <2>2, FullStays DEF StateInv
  <2>. QED BY <2>3, <2>7, <2>8 DEF StateInv
<1>8. CASE RiderDisconnects
  <2>1. PICK n \in 0 .. Len(toRider) :
          /\ toRider' = SubSeq(toRider, n + 1, Len(toRider))
          /\ missed' = (missed \/ playing # "Idle" \/ Waits(SubSeq(toRider, 1, n), "state"))
    BY <1>8 DEF RiderDisconnects
  <2>2. /\ rider' = [rider EXCEPT !.conn = 0, !.disabled = FALSE, !.state = "Idle"]
        /\ queue' = queue /\ playing' = playing
    BY <1>8 DEF RiderDisconnects, linkVars, editorVars
  <2>3. rider'.state = "Idle" BY <2>2 DEF RiderTypeOK
  <2>4. ASSUME ~missed' PROVE Reflects(queue', toRider', rider'.state, playing')
    <3>1. ~missed /\ playing = "Idle" /\ NoneIn(SubSeq(toRider, 1, n), "state")
      BY <2>1, <2>4 DEF Waits, NoneIn
    <3>2. Reflects(queue, toRider, rider.state, playing) BY <3>1 DEF StateInv
    <3>3. Reflects(queue, SubSeq(toRider, n + 1, Len(toRider)), "Idle", playing)
      BY <1>t, <3>1, <3>2, ReflectsSteps
    <3>. QED BY <2>1, <2>2, <2>3, <3>3
  <2>. QED BY <2>2, <2>4, FullStays DEF StateInv
<1>9. CASE RiderReceives
  <2>1. /\ toRider # <<>> /\ toRider' = Tail(toRider) /\ queue' = queue
        /\ playing' = playing /\ missed' = missed
    BY <1>9 DEF RiderReceives, linkVars, editorVars, observers
  <2>2. Head(toRider).kind = "state" => rider'.state = Head(toRider).what
    BY <1>9 DEF RiderReceives, RiderTypeOK
  <2>3. Head(toRider).kind # "state" => rider'.state = rider.state
    <3>1. Head(toRider) \in RiderMessage BY <1>t, <2>1
    <3>. QED BY <1>9, <3>1 DEF RiderReceives, RiderTypeOK, RiderMessage, StateMessage
  <2>4. ASSUME Reflects(queue, toRider, rider.state, playing)
        PROVE  Reflects(queue, Tail(toRider), rider'.state, playing)
    <3>1. CASE Head(toRider).kind = "state" BY <1>t, <2>1, <2>2, <2>4, <3>1, ReflectsSteps
    <3>2. CASE Head(toRider).kind # "state"
      <4>1. Kept(toRider, Tail(toRider), "state") BY <1>t, <2>1, <3>2, KeptByOthers
      <4>2. Reflects(queue, Tail(toRider), rider.state, playing) BY <1>0, <1>t, <2>4, <4>1, ReflectsSteps
      <4>. QED BY <2>3, <3>2, <4>2
    <3>. QED BY <3>1, <3>2
  <2>. QED BY <2>1, <2>4, FullStays DEF StateInv
<1>10. CASE \E m \in MenuModes(rider.mode) : ChooseMode(m)
  <2>1. PICK m \in MenuModes(rider.mode) : ChooseMode(m) BY <1>10
  <2>2. /\ queue' = queue /\ toRider' = toRider /\ playing' = playing /\ missed' = missed
        /\ rider'.state = rider.state
    BY <2>1 DEF ChooseMode, linkVars, editorVars, observers, RiderTypeOK
  <2>. QED BY <2>2, FullStays DEF StateInv
<1>. QED BY <1>1, <1>2, <1>3, <1>4, <1>5, <1>6, <1>7, <1>8, <1>9, <1>10, EveryStep

-----------------------------------------------------------------------------
\* Rider's end follows the editor's, and a control is there with its model.
LEMMA RiderFollowsKept ==
  ASSUME PlayTypeOK, LinkInv, RiderFollows, [PlayNext]_playVars
  PROVE  RiderFollows'
<1>. USE DEF PlayTypeOK, LinkTypeOK, RiderTypeOK, RiderFollows
<1>1. CASE WireConnects BY <1>1 DEF WireConnects, Connect
<1>2. CASE WireDisconnects BY <1>2 DEF WireDisconnects, Disconnect
<1>3. CASE RiderConnects BY <1>3 DEF RiderConnects, linkVars, LinkInv, ConnectedInOrder
<1>4. CASE RiderDisconnects
  BY <1>4 DEF RiderDisconnects, linkVars
<1>5. CASE \/ HandlesConnection \/ LogBegins \/ LogEnds \/ ModelIsAlive \/ ModelIsDead
           \/ SendState \/ SendMode \/ SendReply \/ EditorReceives \/ HandleRequest
           \/ ExecuteRequest \/ UNCHANGED playVars
           \/ (\E event \in {"begin", "end", "pause", "resume", "step"} : GameChanges(event))
  <2>1. rider' = rider
    BY <1>5 DEF HandlesConnection, LogBegins, LogEnds, ModelIsAlive, ModelIsDead, SendState, SendMode,
                SendReply, EditorReceives, HandleRequest, ExecuteRequest, GameChanges, playVars
  <2>2. up' = up /\ connections' = connections
    BY <1>5 DEF HandlesConnection, LogBegins, LogEnds, ModelIsAlive, ModelIsDead, SendState, SendMode,
                SendReply, EditorReceives, HandleRequest, ExecuteRequest, GameChanges,
                playVars, MakeModel, WatchLifetime, ReadLock, ReadUnlock, SetAlive,
                SetDead, Taken, Schedule, linkVars
  <2>. QED BY <2>1, <2>2
<1>7. CASE ChangeStep BY <1>7, ChangeElsewhere, ChangeLink
<1>6. CASE RiderReceives \/ PressButton \/ (\E m \in MenuModes(rider.mode) : ChooseMode(m))
  <2>1. up' = up /\ connections' = connections
    BY <1>6 DEF RiderReceives, PressButton, ChooseMode, linkVars
  <2>2. rider'.conn = rider.conn /\ rider'.last = rider.last
    <3>1. CASE RiderReceives
      <4>1. Head(toRider) \in RiderMessage BY <3>1 DEF RiderReceives
      <4>2. Head(toRider).kind \in {"state", "reply", "mode", "ready"}
        BY <4>1 DEF RiderMessage, StateMessage
      <4>. QED BY <3>1, <4>2 DEF RiderReceives
    <3>2. CASE PressButton \/ (\E m \in MenuModes(rider.mode) : ChooseMode(m))
      BY <3>2 DEF PressButton, ChooseMode
    <3>. QED BY <1>6, <3>1, <3>2
  <2>. QED BY <2>1, <2>2
<1>. QED BY <1>1, <1>2, <1>3, <1>4, <1>5, <1>6, <1>7 DEF PlayNext, ChangeStep

\* Making a model changes it, and only a model that is not alive.
LEMMA NewModel ==
  ASSUME LinkTypeOK, LinkInv, MakeModel
  PROVE  model < model' /\ ~alive /\ connecting' = "made" /\ queue' = queue /\ alive' = alive
<1>1. /\ connecting = "no" /\ queue # <<>> /\ 1 \in DOMAIN queue /\ queue[1].kind = "connected"
      /\ model' = queue[1].conn
      /\ connecting' = "made" /\ queue' = queue /\ alive' = alive
  BY DEF MakeModel, Running, LinkTypeOK
<1>2. model < model'
  <2>1. model <= queue[1].conn /\ queue[1].conn # model BY <1>1 DEF LinkInv, ConnectedInOrder
  <2>2. queue[1].conn \in Nat BY <1>1, QueueTyped DEF LinkTypeOK
  <2>. QED BY <1>1, <2>1, <2>2 DEF LinkTypeOK
<1>3. ~alive
  BY <1>2, LinkStepKeeps DEF LinkStep, LinkTypeOK
<1>. QED BY <1>1, <1>2, <1>3

\* Other steps than those of ChangeStep, and the first sync, leave the settings
\* and what the threads do to them alone, and a control that there is afterwards.
LEMMA OtherSteps ==
  ASSUME PlayTypeOK, [PlayNext]_playVars, ~ChangeStep
  PROVE  /\ crossed => crossed'
         /\ control' = control \/ (ModelIsDead /\ control' = 0 /\ connecting = "no")
         /\ ~ModelIsAlive => change' = change /\ settings' = settings /\ playMode' = playMode
<1>. USE DEF PlayTypeOK, ObserversTypeOK
<1>1. CASE \/ WireConnects \/ WireDisconnects \/ HandlesConnection \/ LogBegins \/ LogEnds
           \/ SendState \/ SendReply \/ EditorReceives \/ ExecuteRequest \/ UNCHANGED playVars
           \/ RiderConnects \/ RiderDisconnects \/ RiderReceives \/ PressButton
           \/ (\E m \in MenuModes(rider.mode) : ChooseMode(m))
  BY <1>1 DEF WireConnects, WireDisconnects, HandlesConnection, LogBegins, LogEnds, SendState, SendReply,
              EditorReceives, ExecuteRequest, playVars, RiderConnects, RiderDisconnects, RiderReceives,
              PressButton, ChooseMode, controlVars, editorVars, observers
<1>2. CASE HandleRequest BY <1>2 DEF HandleRequest, editorVars
<1>3. CASE SendMode BY <1>3 DEF SendMode, controlVars, editorVars
<1>4. CASE ModelIsDead BY <1>4 DEF ModelIsDead, SetDead, Running, editorVars, observers
<1>5. CASE ModelIsAlive BY <1>5 DEF ModelIsAlive, observers
<1>6. CASE \E event \in {"begin", "end", "pause", "resume", "step"} : GameChanges(event)
  BY <1>6 DEF GameChanges, controlVars
<1>. QED BY <1>1, <1>2, <1>3, <1>4, <1>5, <1>6 DEF PlayNext, ChangeStep

\* What they do to the handling of a connection.
LEMMA OtherLinks ==
  ASSUME PlayTypeOK, LinkInv, [PlayNext]_playVars
  PROVE  \/ UNCHANGED <<connecting, model, alive>>
         \/ /\ HandlesConnection /\ MakeModel /\ ~alive /\ alive' = alive /\ connecting = "no"
            /\ connecting' = "made" /\ model < model' /\ queue' = queue
            /\ queue # <<>> /\ queue[1].kind = "connected"
         \/ /\ HandlesConnection /\ WatchLifetime /\ alive' = alive /\ model' = model /\ up' = up
            /\ connecting = "made"
            /\ connecting' = "watched" \/ (connecting' = "no" /\ ~Bound)
         \/ ModelIsAlive /\ connecting = "watched" /\ connecting' = "no" /\ alive' /\ model' = model
         \/ /\ ModelIsDead /\ connecting = "no" /\ connecting' = "no" /\ ~alive' /\ model' = model
            /\ queue # <<>> /\ queue[1].kind = "lost"
<1>. USE DEF PlayTypeOK, LinkTypeOK
<1>q. queue # <<>> => Head(queue) = queue[1] OBVIOUS
<1>1. CASE HandlesConnection
  <2>1. CASE MakeModel BY <1>1, <1>q, <2>1, NewModel DEF MakeModel, Running
  <2>2. CASE WatchLifetime BY <1>1, <2>2 DEF WatchLifetime
  <2>. QED BY <1>1, <2>1, <2>2 DEF HandlesConnection
<1>2. CASE ModelIsAlive BY <1>2 DEF ModelIsAlive, SetAlive
<1>3. CASE ModelIsDead BY <1>3, <1>q DEF ModelIsDead, SetDead, Running
<1>4. CASE ChangeStep BY <1>4, ChangeLink
<1>5. CASE \/ WireConnects \/ WireDisconnects \/ LogBegins \/ LogEnds \/ SendState \/ SendMode
           \/ SendReply \/ EditorReceives \/ HandleRequest \/ ExecuteRequest \/ UNCHANGED playVars
           \/ (\E event \in {"begin", "end", "pause", "resume", "step"} : GameChanges(event))
           \/ RiderConnects \/ RiderDisconnects \/ RiderReceives \/ PressButton
           \/ (\E m \in MenuModes(rider.mode) : ChooseMode(m))
  BY <1>5 DEF WireConnects, WireDisconnects, LogBegins, LogEnds, SendState, SendMode, SendReply,
              EditorReceives, HandleRequest, ExecuteRequest, GameChanges, RiderConnects,
              RiderDisconnects, RiderReceives, PressButton, ChooseMode, playVars, linkVars,
              Connect, Disconnect, ReadLock, ReadUnlock, Taken, Schedule
<1>. QED BY <1>1, <1>2, <1>3, <1>4, <1>5 DEF PlayNext, ChangeStep

\* While the scheduler's thread applies a mode of Rider's, that stays the first
\* in the queue, and no mode of the editor's is queued but by a change.
LEMMA FirstStays ==
  ASSUME PlayTypeOK, LinkInv, [PlayNext]_playVars, ~ChangeStep,
         connecting = "no", queue # <<>>, queue[1].kind = "setMode"
  PROVE  /\ connecting' = "no" /\ queue' # <<>> /\ queue'[1] = queue[1]
         /\ control' = control /\ ~ModelIsAlive
         /\ NoneIn(queue, "mode") => NoneIn(queue', "mode")
<1>. USE DEF PlayTypeOK, LinkTypeOK
<1>q. Head(queue) = queue[1] OBVIOUS
<1>1. ~ModelIsAlive /\ ~ModelIsDead /\ ~HandlesConnection
      /\ ~SendState /\ ~SendMode /\ ~SendReply /\ ~HandleRequest
  BY <1>q DEF ModelIsAlive, ModelIsDead, SetAlive, SetDead, HandlesConnection, MakeModel, WatchLifetime,
              SendState, SendMode, SendReply, HandleRequest, Taken, Running
<1>2. \A task \in Tasks : /\ queue \o <<task>> # <<>> /\ (queue \o <<task>>)[1] = queue[1]
                          /\ Append(queue, task) = queue \o <<task>>
  OBVIOUS
<1>3. \A task \in Tasks : task.kind # "mode" /\ NoneIn(queue, "mode") => NoneIn(queue \o <<task>>, "mode")
  <2>. SUFFICES ASSUME NEW task \in Tasks, task.kind # "mode", NoneIn(queue, "mode")
                PROVE  NoneIn(queue \o <<task>>, "mode") OBVIOUS
  <2>1. \A j \in DOMAIN (queue \o <<task>>) :
          (queue \o <<task>>)[j] = task \/ \E i \in DOMAIN queue : queue[i] = (queue \o <<task>>)[j]
    BY EachOf
  <2>. QED BY <2>1 DEF NoneIn
<1>4. \/ queue' = queue
      \/ \E task \in Tasks : task.kind # "mode" /\ queue' = queue \o <<task>>
  <2>1. CASE WireConnects
    <3>1. Task("connected", connections + 1, 0) \in Tasks /\ Task("connected", connections + 1, 0).kind # "mode"
      BY DEF Task, Tasks, LinkTasks
    <3>. QED BY <1>2, <2>1, <3>1 DEF WireConnects, Connect
  <2>2. CASE WireDisconnects
    <3>1. Task("lost", up, 0) \in Tasks /\ Task("lost", up, 0).kind # "mode" BY DEF Task, Tasks, LinkTasks
    <3>. QED BY <1>2, <2>2, <3>1 DEF WireDisconnects, Disconnect
  <2>3. CASE EditorReceives
    <3>1. Head(toEditor) \in EditorMessage BY <2>3 DEF EditorReceives, RiderTypeOK
    <3>. DEFINE task == Task(Head(toEditor).kind, 0, Head(toEditor).what)
    <3>2. task \in Tasks /\ task.kind # "mode" BY <3>1 DEF Task, Tasks, EditorMessage
    <3>. QED BY <2>3, <3>2 DEF EditorReceives, Schedule
  <2>4. CASE ExecuteRequest
    <3>1. Head(game) \in GameRequest BY <2>4 DEF ExecuteRequest, EditorTypeOK
    <3>. DEFINE task == Task("reply", Head(game).conn, Head(game).id)
    <3>2. task \in Tasks /\ task.kind # "mode" BY <3>1 DEF Task, Tasks, GameRequest
    <3>. QED BY <2>4, <3>2 DEF ExecuteRequest, Schedule
  <2>5. CASE \E event \in {"begin", "end", "pause", "resume", "step"} : GameChanges(event)
    <3>0. PICK event \in {"begin", "end", "pause", "resume", "step"} : GameChanges(event) BY <2>5
    <3>. DEFINE task == Task("state", control,
                            [i \in DOMAIN Reported(event) |-> Message("state", Reported(event)[i])])
    <3>1. task \in Tasks BY ReportTyped DEF EditorTypeOK
    <3>2. task.kind # "mode" BY DEF Task
    <3>3. queue' = queue \/ queue' = queue \o <<task>>
      BY <3>0, Zenon DEF GameChanges, linkVars, Schedule
    <3>. HIDE DEF task
    <3>. QED BY <3>1, <3>2, <3>3
  <2>6. CASE \/ LogBegins \/ LogEnds \/ UNCHANGED playVars \/ RiderConnects \/ RiderDisconnects
             \/ RiderReceives \/ PressButton \/ (\E m \in MenuModes(rider.mode) : ChooseMode(m))
    BY <2>6 DEF LogBegins, LogEnds, ReadLock, ReadUnlock, playVars, linkVars, RiderConnects,
                RiderDisconnects, RiderReceives, PressButton, ChooseMode
  <2>. QED BY <1>1, <2>1, <2>2, <2>3, <2>4, <2>5, <2>6 DEF PlayNext, ChangeStep
<1>5. control' = control BY <1>1, OtherSteps
<1>6. connecting' = "no" BY <1>1, OtherLinks
<1>. QED BY <1>1, <1>2, <1>3, <1>4, <1>5, <1>6

\* What the steps of ChangeStep do to either thread, and to what it works on.
SameMode(t) == change'[t].mode = change[t].mode /\ change'[t].conn = change[t].conn
OnlyThread(t) == \A u \in Threads : u # t => change'[u] = change[u]
SettingsStay == UNCHANGED <<queue, settings, playMode, control>>
ThreadDone(t) ==
  /\ change'[t] = Unchanged /\ OnlyThread(t)
  /\ IF t = "scheduler"
     THEN /\ connecting = "no" /\ queue # <<>> /\ queue[1].kind = "setMode" /\ queue' = Tail(queue)
     ELSE queue' = queue
  /\ UNCHANGED <<settings, control, crossed>>
ControlEffect ==
  /\ connecting = "watched" /\ change["scheduler"].at = "none"
  /\ change'["scheduler"].at = "retrieve" /\ change'["game"] = change["game"]
  /\ control' = model /\ (crossed' <=> crossed \/ change["game"].at # "none")
  /\ UNCHANGED <<queue, settings, playMode>>
ModeFirst ==
  /\ connecting = "no" /\ queue # <<>> /\ queue[1].kind = "setMode"
  /\ change["scheduler"].at = "none"
ApplyEffect ==
  /\ ModeFirst /\ control # 0 /\ control = model /\ model = up
  /\ change'["scheduler"] = [at |-> "clients", mode |-> queue[1].what, conn |-> control]
  /\ change'["game"] = change["game"]
  /\ (crossed' <=> crossed \/ Waits(queue, "mode") \/ change["game"].at # "none")
  /\ SettingsStay
RefuseEffect ==
  /\ ModeFirst /\ ~Subscribed /\ change' = change /\ crossed' = crossed
  /\ queue' = Tail(queue) /\ UNCHANGED <<settings, playMode, control>>
FieldEffect(field) ==
  /\ change["scheduler"].at = field
  /\ settings' = [settings EXCEPT ![field] = UnpackFromMode(change["scheduler"].mode)[field]]
  /\ change'["scheduler"].at = NextWrite[field] /\ SameMode("scheduler")
  /\ change'["game"] = change["game"]
  /\ UNCHANGED <<queue, playMode, control, crossed>>
AloneEffect(t) ==
  change[t].at = "retrieve" /\ control = 0 /\ playMode' = playMode /\ ThreadDone(t)
RetrieveEffect(t) ==
  /\ change[t].at = "retrieve" /\ control # 0
  /\ change'[t] = [at |-> IF t = "scheduler" /\ connecting # "no" THEN "assign" ELSE "compare",
                   mode |-> PackToMode(settings), conn |-> control]
  /\ OnlyThread(t) /\ SettingsStay /\ crossed' = crossed
DiffersEffect(t) ==
  /\ change[t].at = "compare"
  /\ change'[t].at = "assign" /\ SameMode(t) /\ OnlyThread(t) /\ SettingsStay /\ crossed' = crossed
EqualEffect(t) ==
  /\ change[t].at = "compare"
  /\ change[t].mode = playMode \/ change[t].conn # control \/ connecting # "no"
  /\ playMode' = playMode /\ ThreadDone(t)
TellEffect ==
  /\ AssignAndTell /\ change["scheduler"].at = "assign"
  /\ playMode' = change["scheduler"].mode /\ ThreadDone("scheduler")
AssignEffect ==
  /\ change["game"].at = "assign"
  /\ playMode' = change["game"].mode \/ change["game"].conn # control
  /\ change'["game"].at = "report" /\ SameMode("game")
  /\ change'["scheduler"] = change["scheduler"]
  /\ UNCHANGED <<queue, settings, control, crossed>>
ReportEffect ==
  /\ ReportMode /\ change["game"].at = "report"
  /\ change'["game"] = Unchanged /\ change'["scheduler"] = change["scheduler"]
  /\ queue' = queue \o <<Task("mode", change["game"].conn, change["game"].mode)>>
  /\ UNCHANGED <<settings, playMode, control, crossed>>
EditEffect ==
  /\ change["game"].at = "none"
  /\ change'["game"].at = "retrieve" /\ change'["scheduler"] = change["scheduler"]
  /\ (crossed' <=> crossed \/ change["scheduler"].at # "none")
  /\ UNCHANGED <<queue, playMode, control>>
Effects ==
  \/ ControlEffect \/ ApplyEffect \/ RefuseEffect
  \/ \E field \in {"clients", "dedicated", "spawn"} : FieldEffect(field)
  \/ \E t \in Threads : AloneEffect(t) \/ RetrieveEffect(t) \/ DiffersEffect(t) \/ EqualEffect(t)
  \/ TellEffect \/ AssignEffect \/ ReportEffect \/ EditEffect

\* Each of them has one of these effects.
LEMMA ChangeEffects ==
  ASSUME PlayTypeOK, ChangeStep
  PROVE  Effects /\ (crossed => crossed')
<1>. USE DEF PlayTypeOK
<1>t. /\ change \in [Threads -> [at : Steps, mode : Int, conn : Nat]] /\ queue \in Seq(Tasks)
      /\ crossed \in BOOLEAN
  BY DEF EditorTypeOK, LinkTypeOK, ObserversTypeOK
<1>q. queue # <<>> => Head(queue) = queue[1] BY <1>t
<1>u. Threads = {"scheduler", "game"} BY DEF Threads
<1>d. ASSUME NEW t \in Threads, Done(t), UNCHANGED <<settings, control, crossed>>
      PROVE  ThreadDone(t)
  BY <1>d, <1>q, <1>t, <1>u DEF Done, ThreadDone, OnlyThread, Taken, Running, linkVars
<1>1. CASE ControlIsMade
  <2>1. /\ connecting = "watched" /\ ~Changing("scheduler")
        /\ control' = model /\ crossed' = (crossed \/ Changing("game"))
        /\ UNCHANGED <<queue, settings, playMode>>
        /\ change' = [change EXCEPT !["scheduler"].at = "retrieve"]
    BY <1>1 DEF ControlIsMade, linkVars
  <2>2. change'["scheduler"].at = "retrieve" /\ change'["game"] = change["game"]
    BY <1>t, <1>u, <2>1
  <2>3. crossed => crossed' BY <2>1
  <2>. QED BY <2>1, <2>2, <2>3 DEF Effects, ControlEffect, Changing, At
<1>2. CASE ApplyMode
  <2>1. connecting = "no" /\ queue # <<>> /\ queue[1].kind = "setMode" /\ ~Changing("scheduler")
    BY <1>2, <1>q DEF ApplyMode, Running
  <2>2. CASE Subscribed
    <3>1. /\ change' = [change EXCEPT !["scheduler"] =
                          [at |-> "clients", mode |-> Head(queue).what, conn |-> control]]
          /\ crossed' = (crossed \/ Waits(queue, "mode") \/ Changing("game"))
          /\ SettingsStay
      BY <1>2, <2>2 DEF ApplyMode, linkVars, controlVars, SettingsStay
    <3>2. /\ change'["scheduler"] = [at |-> "clients", mode |-> queue[1].what, conn |-> control]
          /\ change'["game"] = change["game"]
      BY <1>t, <1>u, <1>q, <2>1, <3>1
    <3>3. control # 0 /\ control = model /\ model = up BY <2>2 DEF Subscribed, Bound
    <3>4. crossed => crossed' BY <3>1
    <3>. QED BY <2>1, <3>1, <3>2, <3>3, <3>4 DEF Effects, ApplyEffect, ModeFirst, Changing, At
  <2>3. CASE ~Subscribed
    <3>1. /\ change' = change /\ crossed' = crossed /\ queue' = Tail(queue)
          /\ UNCHANGED <<settings, playMode, control>>
      BY <1>2, <2>3 DEF ApplyMode, Taken, controlVars
    <3>. QED BY <2>1, <2>3, <3>1 DEF Effects, RefuseEffect, ModeFirst, Changing, At
  <2>. QED BY <2>2, <2>3
<1>3. CASE \E field \in DOMAIN NextWrite : WriteField(field)
  <2>0. PICK field \in {"clients", "dedicated", "spawn"} : WriteField(field) BY <1>3 DEF NextWrite
  <2>1. /\ change["scheduler"].at = field
        /\ settings' = [settings EXCEPT ![field] = UnpackFromMode(change["scheduler"].mode)[field]]
        /\ change' = [change EXCEPT !["scheduler"].at = NextWrite[field]]
        /\ UNCHANGED <<queue, playMode, control, crossed>>
    BY <2>0 DEF WriteField, At, linkVars, controlVars, observers
  <2>2. /\ change'["scheduler"].at = NextWrite[field] /\ SameMode("scheduler")
        /\ change'["game"] = change["game"]
    BY <1>t, <1>u, <2>1 DEF SameMode
  <2>3. FieldEffect(field) BY <2>1, <2>2 DEF FieldEffect
  <2>. QED BY <2>1, <2>3 DEF Effects
<1>4. CASE \E t \in Threads : Retrieve(t)
  <2>0. PICK t \in Threads : Retrieve(t) BY <1>4
  <2>1. change[t].at = "retrieve" /\ UNCHANGED <<settings, playMode, control, crossed>>
    BY <2>0 DEF Retrieve, At, controlVars, observers
  <2>2. CASE control = 0
    <3>1. ThreadDone(t) BY <1>d, <2>0, <2>1, <2>2 DEF Retrieve
    <3>2. AloneEffect(t) BY <2>1, <2>2, <3>1 DEF AloneEffect
    <3>. QED BY <2>1, <3>1, <3>2 DEF Effects, ThreadDone
  <2>3. CASE control # 0
    <3>1. /\ change' = [change EXCEPT ![t] =
                         [at |-> IF t = "scheduler" /\ WriteLocked THEN "assign" ELSE "compare",
                          mode |-> PackToMode(settings), conn |-> control]]
          /\ queue' = queue
      BY <2>0, <2>3 DEF Retrieve, linkVars
    <3>2. /\ change'[t] = [at |-> IF t = "scheduler" /\ connecting # "no" THEN "assign" ELSE "compare",
                           mode |-> PackToMode(settings), conn |-> control]
          /\ OnlyThread(t)
      BY <1>t, <3>1 DEF WriteLocked, OnlyThread
    <3>3. SettingsStay BY <2>1, <3>1 DEF SettingsStay
    <3>4. RetrieveEffect(t) BY <2>1, <2>3, <3>2, <3>3 DEF RetrieveEffect
    <3>. QED BY <2>1, <3>4 DEF Effects
  <2>. QED BY <2>2, <2>3
<1>5. CASE \E t \in Threads : Compare(t)
  <2>0. PICK t \in Threads : Compare(t) BY <1>5
  <2>1. change[t].at = "compare" /\ UNCHANGED <<settings, playMode, control, crossed>>
    BY <2>0 DEF Compare, At, controlVars, observers
  <2>2. CASE change' = [change EXCEPT ![t].at = "assign"] /\ UNCHANGED linkVars
    <3>1. /\ change'[t].at = "assign" /\ SameMode(t) /\ OnlyThread(t)
      BY <1>t, <2>2 DEF SameMode, OnlyThread
    <3>2. SettingsStay BY <2>1, <2>2 DEF SettingsStay, linkVars
    <3>3. DiffersEffect(t) BY <2>1, <3>1, <3>2 DEF DiffersEffect
    <3>. QED BY <2>1, <3>3 DEF Effects
  <2>3. CASE (change[t].mode = playMode \/ Undefined(t)) /\ Done(t)
    <3>1. ThreadDone(t) BY <1>d, <2>1, <2>3
    <3>2. change[t].mode = playMode \/ change[t].conn # control \/ connecting # "no"
      BY <2>3 DEF Undefined, WriteLocked
    <3>3. EqualEffect(t) BY <2>1, <3>1, <3>2 DEF EqualEffect
    <3>. QED BY <2>1, <3>3 DEF Effects
  <2>. QED BY <2>0, <2>2, <2>3 DEF Compare
<1>6. CASE AssignAndTell
  <2>1. /\ change["scheduler"].at = "assign" /\ Done("scheduler")
        /\ playMode' = change["scheduler"].mode /\ UNCHANGED <<settings, control, crossed>>
    BY <1>6 DEF AssignAndTell, At, observers
  <2>2. ThreadDone("scheduler") BY <1>d, <1>u, <2>1
  <2>. QED BY <1>6, <2>1, <2>2 DEF Effects, TellEffect
<1>7. CASE Assign
  <2>1. /\ change["game"].at = "assign" /\ change' = [change EXCEPT !["game"].at = "report"]
        /\ playMode' = change["game"].mode \/ change["game"].conn # control
        /\ UNCHANGED <<queue, settings, control, crossed>>
    BY <1>7 DEF Assign, At, linkVars, observers
  <2>2. /\ change'["game"].at = "report" /\ SameMode("game")
        /\ change'["scheduler"] = change["scheduler"]
    BY <1>t, <1>u, <2>1 DEF SameMode
  <2>. QED BY <1>7, <2>1, <2>2 DEF Effects, AssignEffect
<1>8. CASE ReportMode
  <2>1. /\ change["game"].at = "report" /\ change' = [change EXCEPT !["game"] = Unchanged]
        /\ queue' = queue \o <<Task("mode", change["game"].conn, change["game"].mode)>>
        /\ UNCHANGED <<settings, playMode, control, crossed>>
    BY <1>8 DEF ReportMode, At, Schedule, controlVars, observers
  <2>2. change'["game"] = Unchanged /\ change'["scheduler"] = change["scheduler"]
    BY <1>t, <1>u, <2>1
  <2>. QED BY <1>8, <2>1, <2>2 DEF Effects, ReportEffect
<1>9. CASE \E field \in DOMAIN NextWrite, chosen \in Settings : EditSettings(field, chosen[field])
  <2>1. /\ ~Changing("game") /\ change' = [change EXCEPT !["game"].at = "retrieve"]
        /\ crossed' = (crossed \/ Changing("scheduler"))
        /\ UNCHANGED <<queue, playMode, control>>
    BY <1>9 DEF EditSettings, linkVars, controlVars
  <2>2. change'["game"].at = "retrieve" /\ change'["scheduler"] = change["scheduler"]
    BY <1>t, <1>u, <2>1
  <2>3. crossed => crossed' BY <2>1
  <2>. QED BY <2>1, <2>2, <2>3 DEF Effects, EditEffect, Changing, At
<1>. QED BY <1>1, <1>2, <1>3, <1>4, <1>5, <1>6, <1>7, <1>8, <1>9 DEF ChangeStep

\* Only one of them tells Rider.
LEMMA OneTells ==
  ASSUME PlayTypeOK, ChangeStep
  PROVE  TellEffect \/ toRider' = toRider
<1>. USE DEF PlayTypeOK
<1>t. change \in [Threads -> [at : Steps, mode : Int, conn : Nat]] /\ queue \in Seq(Tasks)
  BY DEF EditorTypeOK, LinkTypeOK
<1>q. queue # <<>> => Head(queue) = queue[1] BY <1>t
<1>1. CASE AssignAndTell
  <2>1. /\ change["scheduler"].at = "assign" /\ Done("scheduler")
        /\ playMode' = change["scheduler"].mode /\ UNCHANGED <<settings, control, crossed>>
    BY <1>1 DEF AssignAndTell, At, observers
  <2>2. ThreadDone("scheduler")
    BY <1>q, <1>t, <2>1 DEF Done, ThreadDone, OnlyThread, Taken, Running, Threads
  <2>. QED BY <1>1, <2>1, <2>2 DEF TellEffect
<1>. QED BY <1>1, ChangeMessages

\* Which thread is where with the settings is as SchedulerInv says.
LEMMA SchedulerKept ==
  ASSUME PlayTypeOK, LinkInv, ControlOfModel, SchedulerInv, [PlayNext]_playVars
  PROVE  SchedulerInv'
<1>. USE DEF PlayTypeOK, SchedulerInv, Late
<1>t. queue \in Seq(Tasks) /\ change \in [Threads -> [at : Steps, mode : Int, conn : Nat]]
  BY DEF LinkTypeOK, EditorTypeOK
<1>u. Threads = {"scheduler", "game"} BY DEF Threads
<1>1. CASE ChangeStep
  <2>1. Effects /\ connecting' = connecting BY <1>1, ChangeEffects, ChangeLink
  <2>2. \A t \in Threads : ThreadDone(t) => SchedulerInv'
    BY <1>u, <2>1 DEF ThreadDone, OnlyThread, Unchanged
  <2>3. ASSUME NEW task \in Tasks, queue # <<>>
        PROVE  queue \o <<task>> # <<>> /\ (queue \o <<task>>)[1] = queue[1]
    BY <1>t, <2>3
  <2>4. ReportMode => Task("mode", change["game"].conn, change["game"].mode) \in Tasks
    BY <1>t, <1>u DEF Task, Tasks
  <2>. QED BY <1>t, <1>u, <2>1, <2>2, <2>3, <2>4
           DEF Effects, ControlEffect, ModeFirst, ApplyEffect, RefuseEffect, FieldEffect, AloneEffect,
           RetrieveEffect, DiffersEffect, EqualEffect, TellEffect, AssignEffect, ReportEffect, EditEffect,
           ThreadDone, OnlyThread, SettingsStay, Unchanged, SameMode, NextWrite, Changing, At
<1>2. CASE ModelIsAlive
  <2>1. change'["scheduler"] = Unchanged BY <1>2, <1>t, <1>u DEF ModelIsAlive
  <2>. QED BY <2>1 DEF Unchanged
<1>3. CASE ~ChangeStep /\ ~ModelIsAlive
  <2>1. change' = change BY <1>3, OtherSteps
  <2>2. CASE connecting = "watched" /\ change["scheduler"].at # "none"
    <3>1. connecting' = "watched" BY <1>3, <2>2, OtherLinks
    <3>2. control' = control BY <1>3, <2>2, OtherSteps
    <3>. QED BY <2>1, <2>2, <3>1, <3>2
  <2>3. CASE connecting = "no" /\ change["scheduler"].at # "none"
    <3>. QED BY <1>3, <2>1, <2>3, FirstStays
  <2>. QED BY <2>1, <2>2, <2>3
<1>. QED BY <1>1, <1>2, <1>3

\* What the game's thread is to tell, it tells by the control there is, unless
\* the threads were busy at once.
LEMMA GameKept ==
  ASSUME PlayTypeOK, LinkInv, ControlOfModel, SchedulerInv, GameInv, [PlayNext]_playVars
  PROVE  GameInv'
<1>. USE DEF PlayTypeOK, GameInv, Late, Changing, At
<1>t. /\ change \in [Threads -> [at : Steps, mode : Int, conn : Nat]]
      /\ model \in Nat /\ control \in Nat /\ crossed \in BOOLEAN /\ crossed' \in BOOLEAN
  BY StepTyped DEF LinkTypeOK, EditorTypeOK, ObserversTypeOK
<1>u. Threads = {"scheduler", "game"} /\ DOMAIN NextWrite = {"clients", "dedicated", "spawn"}
  BY DEF Threads, NextWrite
<1>1. CASE ChangeStep
  <2>1. Effects /\ connecting' = connecting /\ model' = model /\ (crossed => crossed')
    BY <1>1, ChangeEffects, ChangeLink
  <2>3. control # 0 /\ connecting # "no" => control = model /\ change["scheduler"].at # "none"
    BY DEF ControlOfModel, LinkInv, AliveTold
  <2>4. control # 0 => control = model BY DEF ControlOfModel
  <2>5. change["game"].conn \in Nat BY <1>t, <1>u
  <2>6. change'["game"].at \notin DOMAIN NextWrite
    BY <1>u, <2>1
       DEF Effects, ControlEffect, ModeFirst, ApplyEffect, RefuseEffect, FieldEffect, AloneEffect,
           RetrieveEffect, DiffersEffect, EqualEffect, TellEffect, AssignEffect, ReportEffect, EditEffect,
           ThreadDone, OnlyThread, SettingsStay, Unchanged, SameMode, NextWrite
  <2>7. change'["game"].at \in Late =>
          \/ /\ change["game"].at \in Late /\ change'["game"].conn = change["game"].conn
             /\ control' = control \/ crossed'
          \/ /\ change'["game"].conn = control /\ control # 0 /\ control' = control
             /\ change["game"].at # "none"
    BY <1>t, <1>u, <2>1
       DEF Effects, ControlEffect, ModeFirst, ApplyEffect, RefuseEffect, FieldEffect, AloneEffect,
           RetrieveEffect, DiffersEffect, EqualEffect, TellEffect, AssignEffect, ReportEffect, EditEffect,
           ThreadDone, OnlyThread, SettingsStay, Unchanged, SameMode, NextWrite
  <2>8. crossed' \/ change'["scheduler"].at = "none" \/ change'["game"].at = "none"
    BY <1>t, <1>u, <2>1
       DEF Effects, ControlEffect, ModeFirst, ApplyEffect, RefuseEffect, FieldEffect, AloneEffect,
           RetrieveEffect, DiffersEffect, EqualEffect, TellEffect, AssignEffect, ReportEffect, EditEffect,
           ThreadDone, OnlyThread, SettingsStay, Unchanged, SameMode, NextWrite
  <2>. QED BY <1>t, <2>1, <2>3, <2>4, <2>5, <2>6, <2>7, <2>8
<1>2. CASE ~ChangeStep
  <2>1. crossed => crossed' BY <1>2, OtherSteps
  <2>5. change["game"].conn \in Nat BY <1>t, <1>u
  <2>2. change'["game"] = change["game"]
        /\ (change'["scheduler"] = change["scheduler"] \/ change'["scheduler"].at = "none")
    <3>1. CASE ModelIsAlive BY <1>t, <1>u, <3>1 DEF ModelIsAlive, Unchanged
    <3>. QED BY <1>2, <3>1, OtherSteps
  <2>3. control' = control \/ control' = 0 BY <1>2, OtherSteps
  <2>4. \/ model' = model /\ (connecting' # "no" => connecting # "no")
        \/ model < model' /\ model' \in Nat
    <3>1. model' \in Nat BY StepTyped DEF LinkTypeOK
    <3>. QED BY <3>1, OtherLinks
  <2>6. change'["game"].at \in Late =>
          /\ change'["game"].conn # 0 /\ change'["game"].conn <= model'
          /\ ~crossed' /\ connecting' # "no" => change'["game"].conn # model'
    BY <1>t, <2>1, <2>2, <2>4, <2>5
  <2>7. change'["game"].at \in Late /\ ~crossed' => (control' # 0 => change'["game"].conn = control')
    BY <1>t, <2>1, <2>2, <2>3
  <2>8. ~crossed' => change'["scheduler"].at = "none" \/ change'["game"].at = "none"
    BY <1>t, <2>1, <2>2
  <2>9. change'["game"].at \notin DOMAIN NextWrite BY <2>2
  <2>. QED BY <1>t, <2>6, <2>7, <2>8, <2>9
<1>. QED BY <1>1, <1>2

\* A control comes and goes with the model's life.
LEMMA ControlKept ==
  ASSUME PlayTypeOK, LinkInv, ControlOfModel, SchedulerInv, [PlayNext]_playVars
  PROVE  ControlOfModel'
<1>. USE DEF PlayTypeOK, ControlOfModel, Changing, At
<1>t. /\ change \in [Threads -> [at : Steps, mode : Int, conn : Nat]]
      /\ model \in Nat /\ control \in Nat /\ alive \in BOOLEAN
  BY DEF LinkTypeOK, EditorTypeOK
<1>u. Threads = {"scheduler", "game"} /\ DOMAIN NextWrite = {"clients", "dedicated", "spawn"}
  BY DEF Threads, NextWrite
<1>a. alive => connecting = "no" BY DEF LinkInv, AliveTold
<1>1. CASE ChangeStep
  <2>1. Effects /\ connecting' = connecting /\ model' = model /\ alive' = alive
    BY <1>1, ChangeEffects, ChangeLink
  <2>2. \A t \in Threads : ThreadDone(t) => ControlOfModel'
    BY <1>u, <2>1 DEF ThreadDone, OnlyThread, Unchanged
  <2>. QED BY <1>a, <1>t, <1>u, <2>1, <2>2
           DEF Effects, ControlEffect, ModeFirst, ApplyEffect, RefuseEffect, FieldEffect, AloneEffect,
           RetrieveEffect, DiffersEffect, EqualEffect, TellEffect, AssignEffect, ReportEffect, EditEffect,
           ThreadDone, OnlyThread, SettingsStay, Unchanged, SameMode, NextWrite
<1>2. CASE ModelIsAlive
  <2>1. connecting = "watched" /\ change["scheduler"].at = "assign" /\ alive' /\ model' = model
        /\ control' = control
    BY <1>2 DEF ModelIsAlive, SetAlive
  <2>. QED BY <2>1
<1>3. CASE ModelIsDead
  BY <1>3 DEF ModelIsDead, SetDead, Running
<1>4. CASE ~ChangeStep /\ ~ModelIsAlive /\ ~ModelIsDead
  <2>1. change' = change /\ control' = control BY <1>4, OtherSteps
  <2>2. connecting = "made" => ~Changing("scheduler") BY DEF SchedulerInv
  <2>. QED BY <1>4, <1>a, <1>t, <2>1, <2>2, OtherLinks
<1>. QED BY <1>1, <1>2, <1>3, <1>4

\* A step that tells nothing of the mode leaves the queued modes, the model and
\* the handling of a connection as they are, or goes on with the handling.
LEMMA ModesKept ==
  ASSUME PlayTypeOK, LinkInv, GameInv, ModesOfControls, [PlayNext]_playVars
  PROVE  ModesOfControls'
<1>. USE DEF PlayTypeOK
<1>t. queue \in Seq(Tasks) /\ model \in Nat /\ control \in Nat BY DEF LinkTypeOK, EditorTypeOK
<1>q. queue # <<>> => Head(queue) = queue[1] BY <1>t
<1>0. \A i \in DOMAIN queue : queue[i].conn \in Nat BY <1>t, QueueTyped
<1>c. crossed => crossed' BY ChangeEffects, OtherSteps
<1>1. ASSUME \A j \in DOMAIN queue' : queue'[j].kind = "mode" => \E i \in DOMAIN queue : queue[i] = queue'[j],
             model' = model, connecting' # "no" => connecting # "no"
      PROVE  ModesOfControls'
  BY <1>1, <1>c DEF ModesOfControls
<1>2. ASSUME queue' = Tail(queue), queue # <<>>, model' = model, connecting' # "no" => connecting # "no"
      PROVE  ModesOfControls'
  <2>1. \A j \in DOMAIN Tail(queue) : \E i \in DOMAIN queue : queue[i] = Tail(queue)[j] BY <1>2, <1>t, EachOf
  <2>. QED BY <1>1, <1>2, <2>1
<1>3. ASSUME NEW t \in Tasks, queue' = queue \o <<t>>, model' = model, connecting' = connecting,
             t.kind = "mode" => /\ t.conn # 0 /\ t.conn <= model
                                /\ ~crossed /\ connecting # "no" => t.conn # model
      PROVE  ModesOfControls'
  <2>1. \A j \in DOMAIN (queue \o <<t>>) :
          (queue \o <<t>>)[j] = t \/ \E i \in DOMAIN queue : queue[i] = (queue \o <<t>>)[j]
    BY <1>t, EachOf
  <2>2. \A j \in DOMAIN queue' : queue'[j] = t \/ \E i \in DOMAIN queue : queue[i] = queue'[j]
    BY <1>3, <2>1
  <2>. QED BY <1>3, <1>c, <2>2 DEF ModesOfControls
<1>4. CASE Elsewhere
  <2>1. \A j \in DOMAIN queue' : queue'[j].kind = "mode" => \E i \in DOMAIN queue : queue[i] = queue'[j]
    <3>1. Kept(queue, queue', "mode") BY <1>4, QueueElsewhere
    <3>. QED BY <3>1 DEF Kept
  <2>2. CASE HandlesConnection /\ MakeModel
    <3>1. model < model' /\ queue' = queue BY <2>2, NewModel
    <3>2. model' \in Nat
      <4>1. LinkTypeOK' BY <2>2, LinkActionsTyped
      <4>. QED BY <4>1 DEF LinkTypeOK
    <3>3. \A i \in DOMAIN queue : queue[i].kind = "mode" => queue[i].conn # 0 /\ queue[i].conn < model'
      BY <1>0, <1>t, <3>1, <3>2 DEF ModesOfControls
    <3>4. \A i \in DOMAIN queue : queue[i].kind = "mode" =>
            queue[i].conn # 0 /\ queue[i].conn <= model' /\ queue[i].conn # model'
      BY <1>0, <3>2, <3>3
    <3>. QED BY <3>1, <3>4 DEF ModesOfControls
  <2>3. CASE ~(HandlesConnection /\ MakeModel)
    <3>1. model' = model /\ (connecting' # "no" => connecting # "no")
      BY <1>4, <2>3 DEF Elsewhere, WireConnects, WireDisconnects, LogBegins, LogEnds, SendReply,
                HandlesConnection, ModelIsDead,
                HandleRequest, ExecuteRequest, RiderConnects, PressButton, playVars, linkVars,
                Connect, Disconnect, ReadLock, ReadUnlock, Taken, Schedule, WatchLifetime, SetDead
    <3>. QED BY <1>1, <2>1, <3>1
  <2>. QED BY <2>2, <2>3
<1>5. CASE ModelIsAlive
  <2>1. queue # <<>> BY <1>5 DEF ModelIsAlive, SetAlive, LinkInv, ConnectedInOrder
  <2>. QED BY <1>2, <1>5, <2>1 DEF ModelIsAlive, SetAlive
<1>6. CASE SendState \/ SendMode
  BY <1>2, <1>6 DEF SendState, SendMode, Taken, Running
<1>7. CASE EditorReceives
  <2>. DEFINE t == Task(Head(toEditor).kind, 0, Head(toEditor).what)
  <2>1. Head(toEditor) \in EditorMessage BY <1>7 DEF EditorReceives, RiderTypeOK
  <2>2. t \in Tasks /\ t.kind # "mode" BY <2>1 DEF Task, Tasks, EditorMessage
  <2>3. queue' = queue \o <<t>> /\ model' = model /\ connecting' = connecting
    BY <1>7 DEF EditorReceives, Schedule
  <2>. HIDE DEF t
  <2>. QED BY <1>3, <2>2, <2>3
<1>8. CASE \E event \in {"begin", "end", "pause", "resume", "step"} : GameChanges(event)
  <2>0. PICK event \in {"begin", "end", "pause", "resume", "step"} : GameChanges(event) BY <1>8
  <2>. DEFINE t == Task("state", control,
                       [i \in DOMAIN Reported(event) |-> Message("state", Reported(event)[i])])
  <2>1. t \in Tasks BY <1>t, ReportTyped
  <2>2. t.kind # "mode" BY DEF Task
  <2>3. queue' = queue \/ queue' = queue \o <<t>>
    BY <2>0, Zenon DEF GameChanges, linkVars, Schedule
  <2>4. model' = model /\ connecting' = connecting
    BY <2>0 DEF GameChanges, linkVars, Schedule
  <2>. HIDE DEF t
  <2>. QED BY <1>1, <1>3, <2>1, <2>2, <2>3, <2>4
<1>9. CASE ChangeStep
  <2>1. model' = model /\ connecting' = connecting BY <1>9, ChangeLink
  <2>2. CASE queue' = queue BY <1>1, <2>1, <2>2
  <2>3. CASE queue # <<>> /\ queue' = Tail(queue) BY <1>2, <2>1, <2>3
  <2>4. CASE ReportMode /\ queue' = queue \o <<Task("mode", change["game"].conn, change["game"].mode)>>
             /\ Task("mode", change["game"].conn, change["game"].mode) \in Tasks
    <3>. DEFINE t == Task("mode", change["game"].conn, change["game"].mode)
    <3>1. t.conn = change["game"].conn BY DEF Task
    <3>2. t.conn # 0 /\ t.conn <= model /\ (~crossed /\ connecting # "no" => t.conn # model)
      BY <2>4, <3>1 DEF ReportMode, At, GameInv, Late
    <3>3. t \in Tasks /\ queue' = queue \o <<t>> BY <2>4
    <3>. HIDE DEF t
    <3>. QED BY <1>3, <2>1, <3>2, <3>3
  <2>. QED BY <1>9, <2>2, <2>3, <2>4, ChangeMessages
<1>10. CASE RiderDisconnects \/ RiderReceives \/ (\E m \in MenuModes(rider.mode) : ChooseMode(m))
  <2>1. queue' = queue /\ model' = model /\ connecting' = connecting
    BY <1>10 DEF RiderDisconnects, RiderReceives, ChooseMode, linkVars
  <2>. QED BY <1>1, <2>1
<1>. QED BY <1>4, <1>5, <1>6, <1>7, <1>8, <1>9, <1>10, EveryStep

\* Settings, playMode and what the threads have retrieved go together, unless
\* the threads were busy with them at once.
LEMMA SettingsKept ==
  ASSUME PlayTypeOK, LinkInv, ControlOfModel, SchedulerInv, GameInv, SettingsInv, [PlayNext]_playVars
  PROVE  SettingsInv'
<1>. SUFFICES ASSUME ~crossed' PROVE SettingsInv' BY DEF SettingsInv
<1>. USE DEF PlayTypeOK, Changing, At, Late
<1>t. /\ change \in [Threads -> [at : Steps, mode : Int, conn : Nat]] /\ queue \in Seq(Tasks)
      /\ settings \in [clients : Int, spawn : Int, dedicated : Int] /\ control \in Nat
  BY DEF LinkTypeOK, EditorTypeOK
<1>u. Threads = {"scheduler", "game"} /\ DOMAIN NextWrite = {"clients", "dedicated", "spawn"}
  BY DEF Threads, NextWrite
<1>c. ~crossed BY ChangeEffects, OtherSteps
<1>g. change["scheduler"].at = "none" \/ change["game"].at = "none" BY <1>c DEF GameInv
<1>s. /\ \A t \in Threads : change[t].at \in Late => change[t].mode = PackToMode(settings)
      /\ Applying => NoneIn(queue, "mode") /\ Written
      /\ Synced /\ change["scheduler"].at = "none" /\ change["game"].at = "none" =>
           playMode = PackToMode(settings)
      /\ Synced /\ change["game"].at = "report" => playMode = change["game"].mode
  BY <1>c DEF SettingsInv
<1>w. change["scheduler"].at # "none" /\ connecting = "no" => control # 0 BY DEF SchedulerInv
<1>1. CASE ChangeStep
  <2>1. Effects /\ connecting' = connecting BY <1>1, ChangeEffects, ChangeLink
  <2>2. CASE ControlEffect \/ ApplyEffect \/ RefuseEffect
    <3>1. CASE ControlEffect
      BY <1>s, <1>u, <2>1, <3>1 DEF ControlEffect, SettingsInv, Applying, Synced
    <3>2. CASE ApplyEffect
      <4>1. change["game"].at = "none" /\ NoneIn(queue, "mode") BY <3>2 DEF ApplyEffect, Waits, NoneIn
      <4>. QED BY <1>s, <1>u, <2>1, <3>2, <4>1
               DEF ApplyEffect, SettingsStay, SettingsInv, Applying, Synced, Written
    <3>3. CASE RefuseEffect
      BY <1>s, <1>u, <2>1, <3>3 DEF RefuseEffect, ModeFirst, SettingsInv, Applying, Synced
    <3>. QED BY <2>2, <3>1, <3>2, <3>3
  <2>3. CASE \E field \in {"clients", "dedicated", "spawn"} : FieldEffect(field)
    <3>0. PICK field \in {"clients", "dedicated", "spawn"} : FieldEffect(field) BY <2>3
    <3>1. /\ change["scheduler"].at = field /\ change["game"].at = "none" /\ change'["game"] = change["game"]
          /\ change'["scheduler"].at = NextWrite[field] /\ SameMode("scheduler") /\ queue' = queue
          /\ settings' = [settings EXCEPT ![field] = UnpackFromMode(change["scheduler"].mode)[field]]
      BY <1>g, <3>0 DEF FieldEffect
    <3>2. connecting = "no" BY <3>1 DEF SchedulerInv
    <3>3. NoneIn(queue, "mode") /\ Written BY <1>s, <3>1, <3>2 DEF Applying
    <3>4. change["scheduler"].mode = queue[1].what BY <3>1, <3>3 DEF Written
    <3>5. /\ settings'[field] = UnpackFromMode(queue[1].what)[field]
          /\ \A f \in {"clients", "dedicated", "spawn"} : f # field => settings'[f] = settings[f]
      BY <1>t, <3>1, <3>4
    <3>6. Written'
      BY <3>1, <3>3, <3>4, <3>5 DEF Written, NextWrite, SameMode
    <3>. QED BY <1>u, <2>1, <3>1, <3>3, <3>6 DEF SettingsInv, Applying, Synced, NextWrite
  <2>4. CASE \E t \in Threads : AloneEffect(t) \/ RetrieveEffect(t) \/ DiffersEffect(t) \/ EqualEffect(t)
    <3>0. PICK t \in Threads : AloneEffect(t) \/ RetrieveEffect(t) \/ DiffersEffect(t) \/ EqualEffect(t)
      BY <2>4
    <3>1. CASE AloneEffect(t)
      BY <1>g, <1>s, <1>u, <1>w, <2>1, <3>1
         DEF AloneEffect, ThreadDone, OnlyThread, Unchanged, SettingsInv, Applying, Synced
    <3>2. CASE RetrieveEffect(t)
      BY <1>g, <1>s, <1>u, <2>1, <3>2
         DEF RetrieveEffect, OnlyThread, SettingsStay, SettingsInv, Applying, Synced, Written
    <3>3. CASE DiffersEffect(t)
      BY <1>g, <1>s, <1>u, <2>1, <3>3
         DEF DiffersEffect, SameMode, OnlyThread, SettingsStay, SettingsInv, Applying, Synced, Written
    <3>4. CASE EqualEffect(t)
      <4>1. Synced => change[t].conn = control /\ connecting = "no"
        BY <1>c, <1>u, <3>4 DEF EqualEffect, GameInv, SchedulerInv, Synced
      <4>2. Synced => playMode = PackToMode(settings) BY <1>s, <3>4, <4>1 DEF EqualEffect
      <4>. QED BY <1>g, <1>s, <1>u, <2>1, <3>4, <4>2
               DEF EqualEffect, ThreadDone, OnlyThread, Unchanged, SettingsInv, Applying, Synced
    <3>. QED BY <3>0, <3>1, <3>2, <3>3, <3>4
  <2>5. CASE TellEffect
    BY <1>g, <1>s, <1>u, <2>1, <2>5
       DEF TellEffect, ThreadDone, OnlyThread, Unchanged, SettingsInv, Applying, Synced
  <2>6. CASE AssignEffect
    <3>1. control # 0 => playMode' = change["game"].mode BY <1>c, <2>6 DEF AssignEffect, GameInv
    <3>. QED BY <1>g, <1>s, <1>u, <2>1, <2>6, <3>1
             DEF AssignEffect, SameMode, SettingsInv, Applying, Synced
  <2>7. CASE ReportEffect
    BY <1>g, <1>s, <1>u, <2>1, <2>7 DEF ReportEffect, Unchanged, SettingsInv, Applying, Synced
  <2>8. CASE EditEffect
    BY <1>s, <1>u, <2>1, <2>8 DEF EditEffect, SettingsInv, Applying, Synced
  <2>. QED BY <2>1, <2>2, <2>3, <2>4, <2>5, <2>6, <2>7, <2>8 DEF Effects
<1>2. CASE ModelIsAlive
  <2>1. /\ change["scheduler"].at = "assign" /\ change' = [change EXCEPT !["scheduler"] = Unchanged]
        /\ playMode' = change["scheduler"].mode /\ settings' = settings
    BY <1>2 DEF ModelIsAlive
  <2>2. change'["scheduler"] = Unchanged /\ change'["game"] = change["game"] BY <1>t, <1>u, <2>1
  <2>. QED BY <1>g, <1>s, <1>u, <2>1, <2>2 DEF SettingsInv, Applying, Synced, Unchanged
<1>3. CASE ~ChangeStep /\ ~ModelIsAlive
  <2>1. change' = change /\ settings' = settings /\ playMode' = playMode BY <1>3, OtherSteps
  <2>2. Applying' => NoneIn(queue', "mode") /\ Written'
    <3>. SUFFICES ASSUME Applying' PROVE NoneIn(queue', "mode") /\ Written' OBVIOUS
    <3>1. change["scheduler"].at # "none" /\ connecting' = "no" BY <2>1 DEF Applying
    <3>2. connecting = "no" BY <1>3, <3>1, OtherLinks DEF SchedulerInv
    <3>3. queue # <<>> /\ queue[1].kind = "setMode" BY <3>1, <3>2 DEF SchedulerInv
    <3>4. queue'[1] = queue[1] /\ NoneIn(queue', "mode")
      BY <1>3, <1>s, <3>1, <3>2, <3>3, FirstStays DEF Applying
    <3>. QED BY <1>s, <2>1, <3>1, <3>2, <3>4 DEF Applying, Written
  <2>3. Synced' => Synced
    <3>. SUFFICES ASSUME Synced' PROVE Synced OBVIOUS
    <3>1. control # 0 BY <1>3, OtherSteps DEF Synced
    <3>2. connecting # "made" BY <3>1 DEF ControlOfModel, LinkInv, AliveTold
    <3>3. connecting = "no" BY <1>3, <3>2, OtherLinks DEF Synced, LinkInv, AliveTold
    <3>. QED BY <3>1, <3>3 DEF Synced
  <2>. QED BY <1>s, <2>1, <2>2, <2>3 DEF SettingsInv
<1>. QED BY <1>1, <1>2, <1>3

-----------------------------------------------------------------------------
\* Who is in touch was so before a step that neither makes the model alive nor
\* tells a mode.
LEMMA TouchedBefore ==
  ASSUME PlayTypeOK, LinkInv, RiderFollows, ControlOfModel, [PlayNext]_playVars, InTouch',
         \A i \in DOMAIN queue : queue[i].kind = "mode" =>
           queue[i].conn = control' \/ \E j \in DOMAIN queue' : queue'[j] = queue[i],
         ~ModelIsAlive
  PROVE  InTouch /\ Bound' /\ connecting' = "no" /\ control' = control /\ model' = model
<1>. USE DEF PlayTypeOK, LinkTypeOK, RiderTypeOK
<1>1. ~WireConnects /\ ~WireDisconnects
  BY DEF InTouch, Bound, WireConnects, WireDisconnects, Connect, Disconnect, LinkInv, ConnectedInOrder
<1>2. ~ModelIsDead BY DEF InTouch, Bound, ModelIsDead
<1>3. ~(HandlesConnection /\ MakeModel)
  <2>. SUFFICES ASSUME HandlesConnection, MakeModel PROVE FALSE OBVIOUS
  <2>1. ~alive BY NewModel
  <2>2. control' = 0 BY <2>1 DEF HandlesConnection, MakeModel, Running, controlVars, ControlOfModel
  <2>. QED BY <2>2 DEF InTouch, Bound
<1>4. up' = up /\ model' = model /\ control' = control
  <2>3. CASE ChangeStep
    <3>1. connecting = "no" BY <2>3, ChangeLink DEF InTouch
    <3>2. control' = control
      BY <2>3, <3>1, ChangeEffects
         DEF Effects, ControlEffect, ApplyEffect, RefuseEffect, FieldEffect, AloneEffect, RetrieveEffect,
             DiffersEffect, EqualEffect, TellEffect, AssignEffect, ReportEffect, EditEffect, ThreadDone,
             SettingsStay
    <3>. QED BY <2>3, <3>2, ChangeLink
  <2>1. CASE \/ HandlesConnection \/ LogBegins \/ LogEnds
             \/ SendState \/ SendMode \/ SendReply \/ EditorReceives \/ HandleRequest
             \/ ExecuteRequest \/ UNCHANGED playVars
    BY <1>3, <2>1
       DEF HandlesConnection, LogBegins, LogEnds, SendState, SendMode, SendReply, EditorReceives,
           HandleRequest, ExecuteRequest, playVars, WatchLifetime, ReadLock, ReadUnlock,
           Taken, Schedule, linkVars, controlVars
  <2>2. CASE \/ (\E event \in {"begin", "end", "pause", "resume", "step"} : GameChanges(event))
             \/ RiderConnects \/ RiderDisconnects \/ RiderReceives \/ PressButton
             \/ (\E m \in MenuModes(rider.mode) : ChooseMode(m))
    BY <2>2 DEF GameChanges, RiderConnects, RiderDisconnects, RiderReceives, PressButton,
                ChooseMode, Schedule, linkVars, controlVars
  <2>. QED BY <1>1, <1>2, <2>1, <2>2, <2>3 DEF PlayNext, ChangeStep
<1>8. connecting = "no" BY <1>2, <1>4, OtherLinks DEF InTouch, Bound
<1>5. Bound /\ control = model /\ up # 0 BY <1>4 DEF InTouch, Bound
<1>6. rider.conn = up \/ rider.last < up
  <2>1. CASE RiderDisconnects
    <3>1. rider'.conn = 0 /\ rider'.last = rider.last /\ rider.conn # 0 BY <2>1 DEF RiderDisconnects
    <3>. QED BY <1>4, <1>5, <3>1 DEF InTouch, RiderFollows
  <2>2. CASE RiderConnects BY <2>2 DEF RiderConnects
  <2>3. CASE ~RiderDisconnects /\ ~RiderConnects
    <3>1. rider'.conn = rider.conn /\ rider'.last = rider.last
      <4>1. CASE RiderReceives
        <5>1. Head(toRider) \in RiderMessage BY <4>1 DEF RiderReceives
        <5>2. Head(toRider).kind \in {"state", "reply", "mode", "ready"}
          BY <5>1 DEF RiderMessage, StateMessage
        <5>. QED BY <4>1, <5>2 DEF RiderReceives
      <4>2. CASE PressButton \/ (\E m \in MenuModes(rider.mode) : ChooseMode(m))
        BY <4>2 DEF PressButton, ChooseMode
      <4>3. CASE \/ HandlesConnection \/ LogBegins \/ LogEnds
                 \/ SendState \/ SendMode \/ SendReply \/ EditorReceives \/ HandleRequest
                 \/ ExecuteRequest \/ UNCHANGED playVars \/ ChangeStep
                 \/ (\E event \in {"begin", "end", "pause", "resume", "step"} : GameChanges(event))
        BY <4>3, ChangeElsewhere DEF HandlesConnection, LogBegins, LogEnds, SendState, SendMode, SendReply, EditorReceives,
                    HandleRequest, ExecuteRequest, playVars, GameChanges
      <4>. QED BY <1>1, <1>2, <2>3, <4>1, <4>2, <4>3 DEF PlayNext, ChangeStep
    <3>. QED BY <1>4, <3>1 DEF InTouch
  <2>. QED BY <2>1, <2>2, <2>3
<1>7. \A i \in DOMAIN queue : queue[i].kind = "mode" => queue[i].conn = control
  BY <1>4 DEF InTouch
<1>. QED BY <1>4, <1>5, <1>6, <1>7, <1>8 DEF InTouch, Bound

\* Both ends' modes agree, or are about to.
LEMMA ModeKeeps ==
  ASSUME PlayTypeOK, LinkInv, RiderFollows, SchedulerInv, GameInv, ControlOfModel,
         ModesOfControls, SettingsInv, ModeInv, [PlayNext]_playVars
  PROVE  ModeInv'
<1>. SUFFICES ASSUME InTouch', ~crossed', change'["game"].at # "report"
              PROVE  Agree(queue', toRider', toEditor', rider'.mode, playMode')
  BY DEF ModeInv, At
<1>. USE DEF PlayTypeOK
<1>t. /\ queue \in Seq(Tasks) /\ toRider \in Seq(RiderMessage) /\ toEditor \in Seq(EditorMessage)
      /\ rider.mode \in Int /\ playMode \in Int /\ control \in Nat
      /\ change \in [Threads -> [at : Steps, mode : Int, conn : Nat]]
      /\ settings \in [clients : Int, spawn : Int, dedicated : Int]
  BY DEF LinkTypeOK, RiderTypeOK, EditorTypeOK
<1>q. queue # <<>> => Head(queue) = queue[1] BY <1>t
<1>0. \A kind : Kept(queue, queue, kind) /\ Kept(toRider, toRider, kind) /\ Kept(toEditor, toEditor, kind)
  BY <1>t, KeptByOthers
<1>u. Threads = {"scheduler", "game"} BY DEF Threads
<1>c. ~crossed BY ChangeEffects, OtherSteps
<1>. DEFINE p == playMode  m == rider.mode
            Before == Agree(queue, toRider, toEditor, m, p)
            Other == ~ModelIsAlive /\ ~ChangeStep
<1>o. ASSUME Other PROVE playMode' = p /\ change["game"].at # "report"
  BY <1>o, OtherSteps
<1>b. ASSUME Kept(queue, queue', "mode"), ~ModelIsAlive
      PROVE  InTouch /\ Bound' /\ connecting' = "no" /\ control' = control /\ model' = model
  BY <1>b, TouchedBefore DEF Kept
<1>k. ASSUME Kept(queue, queue', "mode"), Kept(queue, queue', "setMode"), Kept(toRider, toRider', "mode"),
             Kept(toEditor, toEditor', "setMode"), rider'.mode = m, Other
      PROVE  Agree(queue', toRider', toEditor', rider'.mode, playMode')
  <2>1. Before BY <1>b, <1>c, <1>k, <1>o DEF ModeInv, At
  <2>2. Agree(queue', toRider', toEditor', m, p) BY <1>k, <1>t, <2>1, AgreeSteps
  <2>. QED BY <1>k, <1>o, <2>2
<1>1. CASE Elsewhere /\ Other
  <2>1. Kept(queue, queue', "mode") /\ Kept(queue, queue', "setMode") BY <1>1, QueueElsewhere
  <2>2. Kept(toRider, toRider', "mode") /\ rider'.mode = m
    BY <1>1, WiresElsewhere
  <2>3. Kept(toEditor, toEditor', "setMode") BY <1>1, WiresElsewhere
  <2>. QED BY <1>1, <1>k, <2>1, <2>2, <2>3
<1>2. CASE ModelIsAlive
  <2>1. /\ connecting = "watched" /\ queue' = Tail(queue) /\ control' = control /\ model' = model
        /\ up' = up /\ toEditor' = toEditor /\ rider' = rider /\ playMode' = change["scheduler"].mode
    BY <1>2 DEF ModelIsAlive, SetAlive
  <2>0. change["scheduler"].mode \in Int BY <1>t, <1>u
  <2>2. toRider' = toRider \o <<Message("mode", change["scheduler"].mode), Message("ready", TRUE)>>
    <3>1. Bound BY <2>1 DEF InTouch, Bound
    <3>. QED BY <1>2, <3>1 DEF ModelIsAlive, Sent
  <2>3. queue # <<>> BY <2>1 DEF LinkInv, ConnectedInOrder
  <2>4. NoneIn(queue', "mode")
    <3>1. \A j \in DOMAIN Tail(queue) : \E i \in DOMAIN queue : queue[i] = Tail(queue)[j] BY <1>t, <2>3, EachOf
    <3>2. \A i \in DOMAIN queue : queue[i].kind = "mode" => queue[i].conn # model
      BY <1>c, <2>1 DEF ModesOfControls
    <3>3. \A j \in DOMAIN queue' : queue'[j].kind = "mode" => queue'[j].conn = model
      BY <2>1 DEF InTouch
    <3>. QED BY <2>1, <3>1, <3>2, <3>3 DEF NoneIn
  <2>5. queue' \in Seq(Tasks) BY <1>t, <2>1, <2>3
  <2>6. Agree(queue', toRider', toEditor, m, change["scheduler"].mode)
    BY <1>t, <2>0, <2>2, <2>4, <2>5, AgreeApplied
  <2>. QED BY <2>1, <2>6
<1>3. CASE SendState /\ Other
  <2>1. /\ Taken("state") /\ queue # <<>> /\ queue' = Tail(queue) /\ Head(queue).kind = "state"
        /\ rider' = rider /\ toEditor' = toEditor
        /\ toRider' \in {toRider, toRider \o Head(queue).what}
    BY <1>3 DEF SendState, SendScheduled, Taken, Running, editorVars, Sent
  <2>. DEFINE r == Head(queue).what
  <2>2. r \in Seq(StateMessage) BY <2>1, TakenTyped DEF Others, Tasks, LinkTasks
  <2>. HIDE DEF r
  <2>3. \A i \in DOMAIN r : r[i] \in StateMessage BY <2>2
  <2>4. \A i \in DOMAIN r : r[i].kind = "state" BY <2>3 DEF StateMessage
  <2>5. r \in Seq(RiderMessage)
    <3>1. StateMessage \subseteq RiderMessage BY DEF RiderMessage
    <3>. QED BY <2>2, <3>1
  <2>6. Kept(toRider, toRider \o r, "mode")
    <3>. DEFINE w == toRider \o r
    <3>1. \A X : LastIn(toRider, "mode", X) => LastIn(w, "mode", X) BY <1>t, <2>4, <2>5, LastJoined
    <3>2. /\ \A i \in DOMAIN toRider : i \in DOMAIN w /\ w[i] = toRider[i]
          /\ \A i \in DOMAIN w : i \notin DOMAIN toRider => \E j \in DOMAIN r : w[i] = r[j]
      <4>1. PICK k \in Nat, l \in Nat : k = Len(toRider) /\ l = Len(r) BY <1>t, <2>5
      <4>2. /\ DOMAIN toRider = 1 .. k /\ DOMAIN r = 1 .. l /\ DOMAIN w = 1 .. (k + l)
            /\ \A i \in DOMAIN toRider : w[i] = toRider[i]
            /\ \A i \in DOMAIN w : i \notin DOMAIN toRider => i - k \in DOMAIN r /\ w[i] = r[i - k]
        BY <1>t, <2>5, <4>1
      <4>. HIDE DEF w
      <4>. QED BY <4>2
    <3>. HIDE DEF w
    <3>3. Kept(toRider, w, "mode") BY <2>4, <3>1, <3>2 DEF Kept
    <3>. QED BY <3>3 DEF w
  <2>7. Kept(toRider, toRider', "mode")
    <3>1. toRider' = toRider \/ toRider' = toRider \o r BY <2>1 DEF r
    <3>. QED BY <1>0, <2>6, <3>1
  <2>8. Kept(queue, queue', "mode") /\ Kept(queue, queue', "setMode") BY <1>t, <2>1, KeptByOthers
  <2>. QED BY <1>0, <1>3, <1>k, <2>1, <2>7, <2>8
<1>4. CASE SendMode /\ Other
  <2>1. /\ Taken("mode") /\ queue # <<>> /\ queue' = Tail(queue) /\ Head(queue).kind = "mode"
        /\ rider' = rider /\ toEditor' = toEditor
        /\ crossed = FALSE /\ Head(queue).conn = control /\ control' = control
        /\ toRider' = Sent(<<Message("mode", Head(queue).what)>>)
    BY <1>4 DEF SendMode, SendScheduled, Taken, Running, editorVars, controlVars, ObserversTypeOK
  <2>2. Head(queue).what \in Int BY <2>1, TakenTyped DEF Others, Tasks, LinkTasks
  <2>3. \A i \in DOMAIN queue : queue[i] = Head(queue) \/ \E j \in DOMAIN queue' : queue'[j] = queue[i]
    BY <1>t, <2>1, EachOf
  <2>4. InTouch BY <1>4, <2>1, <2>3, TouchedBefore
  <2>5. Before BY <1>4, <1>c, <1>o, <2>4 DEF ModeInv, At
  <2>6. toRider' = toRider \o <<Message("mode", Head(queue).what)>> BY <2>1, <2>4 DEF InTouch, Sent
  <2>7. Agree(Tail(queue), toRider \o <<Message("mode", Head(queue).what)>>, toEditor, m, p)
    <3>. HIDE DEF m, p
    <3>1. m \in Int /\ p \in Int BY <1>t DEF m, p
    <3>2. queue # <<>> /\ Head(queue).kind = "mode" /\ Agree(queue, toRider, toEditor, m, p)
      BY <2>1, <2>5
    <3>. QED BY <1>t, <2>2, <3>1, <3>2, AgreeSteps, Zenon
  <2>. QED BY <1>4, <1>o, <2>1, <2>6, <2>7
<1>5. CASE EditorReceives /\ Other
  <2>. DEFINE h == Head(toEditor)  t == Task(h.kind, 0, h.what)
  <2>1. /\ toEditor # <<>> /\ toEditor' = Tail(toEditor) /\ queue' = queue \o <<t>>
        /\ toRider' = toRider /\ rider' = rider
    BY <1>5 DEF EditorReceives, Schedule, editorVars, observers
  <2>2. h \in EditorMessage BY <1>t, <2>1
  <2>3. t \in Tasks /\ t.kind # "mode" /\ t.kind = h.kind BY <2>2 DEF Task, Tasks, EditorMessage
  <2>4. Kept(queue, queue \o <<t>>, "mode")
    <3>. HIDE DEF t
    <3>. QED BY <1>t, <2>3, KeptByOthers
  <2>5. CASE h.kind = "setMode"
    <3>1. Before BY <1>5, <1>b, <1>c, <1>o, <2>1, <2>4 DEF ModeInv, At
    <3>2. Agree(queue \o <<Task("setMode", 0, h.what)>>, toRider, Tail(toEditor), m, p)
      BY <1>t, <2>1, <2>5, <3>1, AgreeSteps
    <3>. QED BY <1>5, <1>o, <2>1, <2>5, <3>2
  <2>6. CASE h.kind # "setMode"
    <3>1. Kept(queue, queue \o <<t>>, "setMode")
      <4>. HIDE DEF t
      <4>. QED BY <1>t, <2>3, <2>6, KeptByOthers
    <3>2. Kept(toEditor, Tail(toEditor), "setMode") BY <1>t, <2>1, <2>6, KeptByOthers
    <3>. QED BY <1>0, <1>5, <1>k, <2>1, <2>4, <3>1, <3>2
  <2>. QED BY <2>5, <2>6
<1>6. CASE ChangeStep
  <2>1. /\ Effects /\ connecting' = connecting /\ model' = model /\ up' = up
        /\ toEditor' = toEditor /\ rider' = rider /\ ~ModelIsAlive
    <3>1. ~ModelIsAlive
      <4>1. connecting' = connecting BY <1>6, ChangeLink
      <4>. QED BY <4>1 DEF ModelIsAlive, SetAlive
    <3>. QED BY <1>6, <3>1, ChangeEffects, ChangeElsewhere, ChangeLink
  <2>2. connecting = "no" BY <2>1 DEF InTouch
  <2>3. ASSUME queue' = queue \/ (queue # <<>> /\ queue[1].kind = "setMode" /\ queue' = Tail(queue))
        PROVE  InTouch /\ control # 0 /\ control = model /\ (change["game"].at # "report" => Before)
    <3>1. Kept(queue, queue', "mode") BY <1>0, <1>q, <1>t, <2>3, KeptByOthers
    <3>2. InTouch BY <1>b, <2>1, <3>1
    <3>. QED BY <1>c, <3>2 DEF ModeInv, At, InTouch, Bound
  <2>4. CASE TellEffect
    <3>1. /\ change["scheduler"].at = "assign" /\ playMode' = change["scheduler"].mode
          /\ queue # <<>> /\ queue[1].kind = "setMode" /\ queue' = Tail(queue)
      BY <2>4 DEF TellEffect, ThreadDone
    <3>2. InTouch BY <2>3, <3>1
    <3>3. toRider' = toRider \o <<Message("mode", change["scheduler"].mode)>>
      BY <2>4, <3>2 DEF TellEffect, AssignAndTell, Sent, InTouch
    <3>4. NoneIn(queue, "mode") BY <1>c, <2>2, <3>1 DEF SettingsInv, Applying, Changing, At
    <3>5. NoneIn(queue', "mode") /\ queue' \in Seq(Tasks) BY <1>t, <3>1, <3>4, LastShorter
    <3>6. change["scheduler"].mode \in Int BY <1>t, <1>u
    <3>7. Agree(queue', toRider', toEditor, m, change["scheduler"].mode)
      BY <1>t, <3>3, <3>5, <3>6, AgreeApplied
    <3>. QED BY <2>1, <3>1, <3>7
  <2>5. CASE ~TellEffect
    <3>1. toRider' = toRider BY <1>6, <2>5, OneTells
    <3>2. ~ControlEffect /\ ~AssignEffect BY <2>2 DEF ControlEffect, AssignEffect
    <3>3. ~RefuseEffect
      <4>. SUFFICES ASSUME RefuseEffect PROVE FALSE OBVIOUS
      <4>1. InTouch /\ ~Subscribed BY <2>3 DEF RefuseEffect, ModeFirst
      <4>. QED BY <4>1 DEF InTouch, Subscribed
    <3>4. \A t \in Threads : ~AloneEffect(t)
      <4>. SUFFICES ASSUME NEW t \in Threads, AloneEffect(t) PROVE FALSE OBVIOUS
      <4>1. queue' = queue \/ (queue # <<>> /\ queue[1].kind = "setMode" /\ queue' = Tail(queue))
        BY DEF AloneEffect, ThreadDone
      <4>. QED BY <2>3, <4>1 DEF AloneEffect
    <3>5. CASE \/ ApplyEffect \/ EditEffect \/ EqualEffect("game")
               \/ \E field \in {"clients", "dedicated", "spawn"} : FieldEffect(field)
               \/ \E t \in Threads : RetrieveEffect(t) \/ DiffersEffect(t)
      <4>1. queue' = queue /\ playMode' = p /\ change["game"].at # "report"
        BY <1>u, <3>5 DEF ApplyEffect, EditEffect, EqualEffect, ThreadDone, FieldEffect, RetrieveEffect,
                          DiffersEffect, OnlyThread, SettingsStay
      <4>. QED BY <2>1, <2>3, <3>1, <4>1
    <3>6. CASE EqualEffect("scheduler")
      <4>. DEFINE r == queue[1].what
      <4>1. /\ change["scheduler"].at = "compare" /\ playMode' = p
            /\ queue # <<>> /\ queue[1].kind = "setMode" /\ queue' = Tail(queue)
            /\ change["scheduler"].mode = p
        BY <2>2, <3>6 DEF EqualEffect, ThreadDone, SchedulerInv, Late
      <4>2. change["game"].at # "report" BY <1>c, <4>1 DEF GameInv, Changing, At
      <4>3. Before BY <2>3, <4>1, <4>2
      <4>4. Written /\ p = PackToMode(settings)
        BY <1>c, <1>u, <2>2, <4>1 DEF SettingsInv, Applying, Changing, At, Late
      <4>5. r \in Int
        <5>1. queue[1] \in Tasks BY <1>t, <4>1
        <5>. QED BY <4>1, <5>1 DEF Tasks, LinkTasks
      <4>6. /\ settings.clients = UnpackFromMode(r).clients /\ settings.spawn = UnpackFromMode(r).spawn
            /\ settings.dedicated = UnpackFromMode(r).dedicated
        BY <4>1, <4>4 DEF Written
      <4>7. p = r % 16
        <5>1. PackToMode(settings) = PackToMode(UnpackFromMode(r)) BY <4>6 DEF PackToMode
        <5>. QED BY <4>4, <4>5, <5>1, ModeBits
      <4>8. Agree(Tail(queue), toRider, toEditor, m, p)
        BY <1>q, <1>t, <4>1, <4>3, <4>5, <4>7, AgreeApplied
      <4>. QED BY <2>1, <3>1, <4>1, <4>8
    <3>7. CASE ReportEffect
      <4>1. /\ change["game"].at = "report" /\ playMode' = p /\ control' = control
            /\ queue' = queue \o <<Task("mode", change["game"].conn, change["game"].mode)>>
        BY <3>7 DEF ReportEffect
      <4>2. Synced BY <2>1, <2>2, <4>1 DEF Synced, InTouch, Bound
      <4>3. p = change["game"].mode BY <1>c, <4>1, <4>2 DEF SettingsInv, At
      <4>4. change["game"].conn \in Nat BY <1>t, <1>u
      <4>5. Agree(queue \o <<Task("mode", change["game"].conn, p)>>, toRider, toEditor, m, p)
        <5>. HIDE DEF p, m
        <5>1. p \in Int /\ m \in Int BY <1>t DEF p, m
        <5>. QED BY <1>t, <4>4, <5>1, AgreeSteps
      <4>. QED BY <2>1, <3>1, <4>1, <4>3, <4>5
    <3>. QED BY <1>u, <2>1, <2>5, <3>2, <3>3, <3>4, <3>5, <3>6, <3>7 DEF Effects
  <2>. QED BY <2>4, <2>5
<1>7. CASE (\E event \in {"begin", "end", "pause", "resume", "step"} : GameChanges(event)) /\ Other
  <2>0. PICK event \in {"begin", "end", "pause", "resume", "step"} : GameChanges(event) BY <1>7
  <2>. DEFINE t == Task("state", control,
                       [i \in DOMAIN Reported(event) |-> Message("state", Reported(event)[i])])
  <2>1. t \in Tasks BY <1>t, ReportTyped
  <2>2. t.kind = "state" BY DEF Task
  <2>3. queue' = queue \/ queue' = queue \o <<t>>
    BY <2>0, Zenon DEF GameChanges, linkVars, Schedule
  <2>4. toRider' = toRider /\ rider' = rider /\ toEditor' = toEditor BY <2>0 DEF GameChanges
  <2>. HIDE DEF t
  <2>5. Kept(queue, queue', "mode") /\ Kept(queue, queue', "setMode")
    <3>1. Kept(queue, queue \o <<t>>, "mode") /\ Kept(queue, queue \o <<t>>, "setMode")
      BY <1>t, <2>1, <2>2, KeptByOthers
    <3>. QED BY <1>0, <2>3, <3>1
  <2>. QED BY <1>0, <1>7, <1>k, <2>4, <2>5
<1>9. CASE RiderDisconnects /\ Other
  <2>1. queue' = queue /\ rider' = [rider EXCEPT !.conn = 0, !.disabled = FALSE, !.state = "Idle"]
    BY <1>9 DEF RiderDisconnects, linkVars
  <2>2. InTouch /\ up' = up
    <3>1. Kept(queue, queue', "mode") BY <1>0, <2>1
    <3>. QED BY <1>9, <1>b, <3>1 DEF RiderDisconnects, linkVars
  <2>3. FALSE
    <3>1. rider'.conn = 0 /\ rider'.last = rider.last BY <2>1 DEF RiderTypeOK
    <3>2. rider.conn # 0 /\ up # 0 /\ up \in Nat BY <1>9, <2>2 DEF RiderDisconnects, InTouch, Bound, LinkTypeOK
    <3>. QED BY <2>2, <3>1, <3>2 DEF InTouch, RiderFollows
  <2>. QED BY <2>3
<1>10. CASE RiderReceives /\ Other
  <2>1. /\ toRider # <<>> /\ toRider' = Tail(toRider) /\ queue' = queue /\ toEditor' = toEditor
       
    BY <1>10 DEF RiderReceives, linkVars, editorVars, observers
  <2>2. Head(toRider) \in RiderMessage BY <1>t, <2>1
  <2>3. /\ Head(toRider).kind = "mode" => rider'.mode = Head(toRider).what
        /\ Head(toRider).kind # "mode" => rider'.mode = m
    <3>1. Head(toRider).kind \in {"state", "reply", "mode", "ready"} BY <2>2 DEF RiderMessage, StateMessage
    <3>. QED BY <1>10, <3>1 DEF RiderReceives, RiderTypeOK
  <2>4. CASE Head(toRider).kind = "mode"
    <3>1. InTouch
      <4>1. Kept(queue, queue', "mode") BY <1>0, <2>1
      <4>. QED BY <1>10, <1>b, <4>1
    <3>2. Before BY <1>10, <1>c, <1>o, <3>1 DEF ModeInv, At
    <3>3. Agree(queue, Tail(toRider), toEditor, Head(toRider).what, p)
      BY <1>t, <2>1, <2>4, <3>2, AgreeSteps
    <3>. QED BY <1>10, <1>o, <2>1, <2>3, <2>4, <3>3
  <2>5. CASE Head(toRider).kind # "mode"
    <3>1. Kept(toRider, toRider', "mode") BY <1>t, <2>1, <2>5, KeptByOthers
    <3>. QED BY <1>0, <1>10, <1>k, <2>1, <2>3, <2>5, <3>1
  <2>. QED BY <2>4, <2>5
<1>11. CASE (\E r \in MenuModes(rider.mode) : ChooseMode(r)) /\ Other
  <2>1. PICK r \in MenuModes(m) : ChooseMode(r) BY <1>11
  <2>2. /\ queue' = queue /\ toRider' = toRider
        /\ rider'.mode = r /\ toEditor' = Append(toEditor, Message("setMode", r))
    BY <2>1 DEF ChooseMode, linkVars, editorVars, observers, RiderTypeOK
  <2>3. InTouch
    <3>1. Kept(queue, queue', "mode") BY <1>0, <2>2
    <3>. QED BY <1>11, <1>b, <3>1
  <2>4. Before BY <1>11, <1>c, <1>o, <2>3 DEF ModeInv, At
  <2>5. Agree(queue, toRider, Append(toEditor, Message("setMode", r)), r, p) BY <1>t, <2>4, AgreeSteps
  <2>. QED BY <1>11, <1>o, <2>2, <2>5
<1>. QED BY <1>1, <1>2, <1>3, <1>4, <1>5, <1>6, <1>7, <1>9, <1>10, <1>11, EveryStep

\* Editor and Rider start out of touch, and a game that does not is not known.
LEMMA InitPlay == PlayInit => PlayInv
<1>. SUFFICES ASSUME PlayInit PROVE PlayInv OBVIOUS
<1>1. PlayTypeOK /\ LinkInv BY InitTyped, InitLink
<1>2. /\ up = 0 /\ connections = 0 /\ queue = <<>> /\ model = 0 /\ alive = FALSE /\ control = 0
      /\ toRider = <<>> /\ rider.conn = 0 /\ rider.last = 0 /\ rider.state = "Idle"
      /\ connecting = "no" /\ change = [t \in Threads |-> Unchanged]
      /\ missed = (playing # "Idle")
  BY DEF PlayInit, LinkInit
<1>3. DOMAIN queue = {} /\ DOMAIN toRider = {} BY <1>2
<1>4. StateInv BY <1>2, <1>3 DEF StateInv, ReportsFull, Reflects, LastIn
<1>5. RiderFollows /\ ControlOfModel /\ ModesOfControls /\ ModeInv
  BY <1>2, <1>3 DEF RiderFollows, ControlOfModel, ModesOfControls, ModeInv, InTouch, Bound
<1>6. change["scheduler"].at = "none" /\ change["game"].at = "none"
  BY <1>2 DEF Threads, Unchanged
<1>7. SchedulerInv /\ GameInv /\ SettingsInv
  BY <1>2, <1>6 DEF SchedulerInv, GameInv, SettingsInv, Late, Changing, At, Threads, NextWrite,
                    Applying, Synced
<1>. QED BY <1>1, <1>4, <1>5, <1>7 DEF PlayInv

\* What Rider knows of the game and of its settings, at every moment.
THEOREM PlayInvariance == PlaySpec => []PlayInv
<1>1. PlayInv /\ [PlayNext]_playVars => PlayInv'
  <2>. SUFFICES ASSUME PlayInv, [PlayNext]_playVars PROVE PlayInv' OBVIOUS
  <2>. USE DEF PlayInv
  <2>1. PlayTypeOK' BY StepTyped
  <2>2. LinkInv' BY StepIsLinkStep, LinkStepKeeps DEF PlayTypeOK
  <2>3. SchedulerInv' /\ GameInv' /\ ControlOfModel' /\ ModesOfControls' /\ SettingsInv'
    BY SchedulerKept, GameKept, ControlKept, ModesKept, SettingsKept
  <2>. QED BY <2>1, <2>2, <2>3, StateKeeps, RiderFollowsKept, ModeKeeps
<1>. QED BY <1>1, InitPlay, PTL DEF PlaySpec

\* Rider shows the state the editor's game is in once nothing is on its way,
\* however game, scheduler and connections took turns.
THEOREM StateTheorem == PlaySpec => []StateReflectedUnlessMissed
<1>1. PlayInv => StateReflectedUnlessMissed
  <2>. SUFFICES ASSUME PlayInv, Quiet, ~missed PROVE rider.state = playing
    BY DEF StateReflectedUnlessMissed
  <2>1. DOMAIN queue = {} /\ DOMAIN toRider = {} BY DEF Quiet
  <2>. QED BY <2>1 DEF PlayInv, StateInv, Reflects, NoneIn
<1>. QED BY <1>1, PlayInvariance, PTL

\* Both ends come to the same mode, but for the bit the editor does not have,
\* for any settings and any number of clients, unless modes crossed.
THEOREM ModeTheorem == PlaySpec => []ModeAgreedUnlessCrossed
<1>1. PlayInv => ModeAgreedUnlessCrossed
  <2>. SUFFICES ASSUME PlayInv, Quiet, ~crossed
                PROVE  SetCompileBeforeRun(rider.mode, 0) = SetCompileBeforeRun(PackToMode(settings), 0)
    BY DEF ModeAgreedUnlessCrossed
  <2>1. /\ DOMAIN queue = {} /\ DOMAIN toRider = {} /\ DOMAIN toEditor = {}
        /\ up # 0 /\ rider.conn = up /\ connecting = "no" /\ queue = <<>>
        /\ change["game"].at = "none"
    BY DEF Quiet, Changing, At
  <2>2. alive /\ model = up BY <2>1 DEF PlayInv, LinkInv, UpWaits, AliveTold
  <2>3. InTouch BY <2>1, <2>2 DEF InTouch, Bound, PlayInv, ControlOfModel
  <2>4. change["scheduler"].at = "none" BY <2>1 DEF PlayInv, SchedulerInv
  <2>5. playMode = PackToMode(settings)
    <3>1. Synced BY <2>1, <2>3 DEF Synced, InTouch, Bound
    <3>. QED BY <2>1, <2>4, <3>1 DEF PlayInv, SettingsInv, Changing, At
  <2>6. Agree(queue, toRider, toEditor, rider.mode, playMode) BY <2>1, <2>3 DEF PlayInv, ModeInv, At
  <2>. QED BY <2>1, <2>5, <2>6 DEF Agree, Heard, NoneIn
<1>. QED BY <1>1, PlayInvariance, PTL
===============================================================================
