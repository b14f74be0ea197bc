--------------------------- MODULE PythonExecutor ---------------------------
(***************************************************************************)
(* PythonExecutor and rider_progress: Rider's scripts run one at a time on *)
(* the game thread.  A watchdog thread in Python aborts a script whose     *)
(* time is up, or whose request the client cancels on the wire's thread,   *)
(* by raising an exception in the game thread, which CPython delivers at   *)
(* the next bytecode there, whatever that belongs to.                      *)
(***************************************************************************)
EXTENDS Naturals, FiniteSets

CONSTANTS Requests, NoRequest

ASSUME PythonExecutorAssumption == NoRequest \notin Requests

VARIABLES
  asked,      \* [Requests -> [scripts, isolated, budget, endless]]
  life,       \* the request's lifetime: "none", "alive", "ended"
  task,       \* its RdTask: "none", "pending", "set", "cancelled"
  tickers,    \* requests that the core ticker has to run
  cancelling, \* [Requests -> how far the client's cancellation is]
  game,       \* the game thread: where in RunScript
  running,    \* GScriptRunning, and for whom
  step,       \* the script of the batch
  result,     \* of the last script
  armedId,    \* GArmedRequestId
  flags,      \* GCancelRequested, GScriptInPython
  armed,      \* rider_progress: whose deadline is armed
  watching,   \* is the watchdog of this _generation alive?  Older ones only end
  lock,       \* _lock: FALSE, or held by a watchdog that has decided to raise
  pending,    \* an exception waits for the game thread's next bytecode
  expired,    \* requests whose time is up
  names,      \* what scripts left in the interpreter: <<request, step>>
  snapshot,   \* __rider_scope_keys__ of the shared scope
  history     \* aborted: requests that were, and why; late: requests that
              \* another one's cancellation hit; missed: _snapshot was killed

pyVars == <<armed, watching, lock, pending, snapshot>>
clientVars == <<asked, life, task, tickers, cancelling, expired>>
runVars == <<game, running, step, result, names>>
vars == <<clientVars, runVars, pyVars, armedId, flags, history>>

Shapes ==
  {s \in [scripts : 0..2, isolated : BOOLEAN, budget : BOOLEAN, endless : BOOLEAN] :
     (s.isolated <=> s.scripts = 1) /\ (s.endless => s.budget /\ s.scripts > 0)}

NoSnapshot == [taken |-> FALSE, keys |-> {}]

Init ==
  /\ asked \in [Requests -> Shapes]
  /\ life = [q \in Requests |-> "none"] /\ task = [q \in Requests |-> "none"]
  /\ tickers = {} /\ cancelling = [q \in Requests |-> "no"] /\ expired = {}
  /\ game = "idle" /\ running = NoRequest /\ step = 0 /\ result = "ok" /\ names = {}
  /\ armed = NoRequest /\ watching = FALSE /\ lock = FALSE /\ pending = FALSE /\ snapshot = NoSnapshot
  /\ armedId = NoRequest /\ flags = [cancel |-> FALSE, inPython |-> FALSE]
  /\ history = [aborted |-> {}, late |-> {}, missed |-> FALSE]

Budget == asked[running].budget
Note(field, set) == history' = [history EXCEPT ![field] = @ \cup set]
-----------------------------------------------------------------------------
\* The client, on the wire's thread.  A batch without scripts is answered at
\* once; otherwise the rest is left to the game thread.
Receive(q) ==
  /\ life[q] = "none"
  /\ IF asked[q].scripts = 0
     THEN /\ life' = [life EXCEPT ![q] = "ended"] /\ task' = [task EXCEPT ![q] = "set"]
          /\ UNCHANGED tickers
     ELSE /\ life' = [life EXCEPT ![q] = "alive"] /\ task' = [task EXCEPT ![q] = "pending"]
          /\ tickers' = tickers \cup {q}
  /\ UNCHANGED <<asked, cancelling, expired, runVars, pyVars, armedId, flags, history>>

\* RdEndpoint cancels the task and answers; then the request's lifetime ends ...
CancelTask(q) ==
  /\ task[q] = "pending" /\ cancelling[q] = "no"
  /\ task' = [task EXCEPT ![q] = "cancelled"]
  /\ cancelling' = [cancelling EXCEPT ![q] = "task"]
  /\ UNCHANGED <<asked, life, tickers, expired, runVars, pyVars, armedId, flags, history>>

\* ... and runs the action of CancelOnLifetimeEnd, which looks whether the
\* request is still the armed one, and then asks the script to stop.
CancelChecks(q) ==
  /\ cancelling[q] = "task"
  /\ life' = [life EXCEPT ![q] = "ended"]
  /\ cancelling' = [cancelling EXCEPT ![q] = IF armedId = q THEN "matched" ELSE "done"]
  /\ UNCHANGED <<asked, task, tickers, expired, runVars, pyVars, armedId, flags, history>>

CancelStores(q) ==
  /\ cancelling[q] = "matched"
  /\ cancelling' = [cancelling EXCEPT ![q] = "done"]
  /\ flags' = [flags EXCEPT !.cancel = TRUE]
  /\ Note("late", {running} \ {q, NoRequest})
  /\ UNCHANGED <<asked, life, task, tickers, expired, runVars, pyVars, armedId>>

Expire(q) ==
  /\ running = q /\ asked[q].budget /\ q \notin expired
  /\ expired' = expired \cup {q}
  /\ UNCHANGED <<asked, life, task, tickers, cancelling, runVars, pyVars, armedId, flags, history>>
-----------------------------------------------------------------------------
\* The game thread.  An abort that waits kills the command that is next there.
Goto(where) == game' = where
Killed == pending /\ pending' = FALSE

\* Callback: the result is set unless the lifetime has ended; setting it ends
\* the lifetime, here, and so runs the action of CancelOnLifetimeEnd.
SetTask(q) ==
  IF life[q] = "ended" THEN UNCHANGED <<life, task, flags>>
  ELSE /\ life' = [life EXCEPT ![q] = IF task[q] = "pending" THEN "ended" ELSE @]
       /\ task' = [task EXCEPT ![q] = "set"]
       /\ flags' = [flags EXCEPT !.cancel = @ \/ (task[q] = "pending" /\ armedId = q)]

\* FRunGate: GCancelRequested is cleared, GArmedRequestId set.
Enter(q) ==
  /\ game = "idle" /\ q \in tickers
  /\ tickers' = tickers \ {q}
  /\ IF life[q] = "ended" THEN UNCHANGED <<game, running, step, armedId, flags>>
     ELSE /\ Goto("next") /\ running' = q /\ step' = 1
          /\ armedId' = q /\ flags' = [flags EXCEPT !.cancel = FALSE]
  /\ UNCHANGED <<asked, life, task, cancelling, expired, result, names, pyVars, history>>

\* A script that calls tick() pumps the editor, and with it the ticker.
Busy(q) ==
  /\ game = "script" /\ q \in tickers
  /\ tickers' = tickers \ {q}
  /\ SetTask(q)
  /\ UNCHANGED <<asked, cancelling, expired, runVars, pyVars, armedId, history>>

\* The loop of the batch, and the head of RunScript.  The flag for the watchdog
\* is raised before it is armed.
\* (Broken: it is not up yet when the watchdog first looks.)
NotYetRaised == flags
Raised == [flags EXCEPT !.inPython = Budget]

NextScript ==
  /\ game = "next"
  /\ IF ~asked[running].isolated /\ life[running] = "ended" THEN Goto("leave") /\ UNCHANGED flags
     ELSE IF ~asked[running].isolated /\ running \in expired THEN Goto("answer") /\ UNCHANGED flags
     ELSE Goto(IF Budget THEN "arm" ELSE "script") /\ flags' = Raised
  /\ UNCHANGED <<clientVars, running, step, result, names, pyVars, armedId, history>>

\* ArmDeadline: _arm and _snapshot are one command.
Arm ==
  /\ game = "arm" /\ ~lock
  /\ armed' = running /\ watching' = TRUE
  /\ Goto("snapshot")
  /\ UNCHANGED <<clientVars, running, step, result, names, lock, pending, snapshot, armedId, flags, history>>

Shared(q) == ~asked[q].isolated
SharedNames == {n \in names : Shared(n[1])}

Snapshot ==
  /\ game = "snapshot" /\ Goto("script")
  /\ \/ Killed /\ history' = [history EXCEPT !.missed = TRUE] /\ UNCHANGED snapshot
     \/ /\ ~pending
        /\ snapshot' = IF Shared(running) THEN [taken |-> TRUE, keys |-> SharedNames] ELSE snapshot
        /\ UNCHANGED <<pending, history>>
  /\ UNCHANGED <<clientVars, running, step, result, names, armed, watching, lock, armedId, flags>>

\* ExecPythonCommandEx: the script binds names and comes to an end,
Returns(how) ==
  /\ result' = how /\ Goto("returned")
  /\ \E bound \in {{}, {<<running, step>>}} : names' = names \cup bound
  /\ UNCHANGED <<clientVars, running, step, armed, watching, lock, snapshot, armedId, flags>>

ScriptReturns ==
  /\ game = "script" /\ ~asked[running].endless
  /\ \E how \in {"ok", "failed"} : Returns(how)
  /\ UNCHANGED <<pending, history>>

\* is aborted by the watchdog's exception, unless it swallows that,
AbortDelivered ==
  /\ game = "script" /\ Killed
  /\ Returns("aborted") /\ Note("aborted", {running})

AbortSwallowed ==
  /\ game = "script" /\ Killed
  /\ UNCHANGED <<clientVars, runVars, armed, watching, lock, snapshot, armedId, flags, history>>

\* or by tick(), which knows only what is armed in rider_progress, or by the
\* user, who gets the dialog only then.
TickAborts ==
  /\ game = "script" /\ armed # NoRequest
  /\ Returns("aborted")
  /\ IF armed \in expired \/ flags.cancel THEN Note("aborted", {running}) ELSE UNCHANGED history
  /\ UNCHANGED pending

\* The flag is lowered first, then comes DisarmDeadline.
Lower ==
  /\ game = "returned" /\ Goto(IF Budget THEN "disarm" ELSE "clean")
  /\ flags' = [flags EXCEPT !.inPython = FALSE]
  /\ UNCHANGED <<clientVars, running, step, result, names, pyVars, armedId, history>>

Disarmed == armed' = NoRequest /\ watching' = FALSE
\* One attempt; an abort kills it before or after it has done its work.
\* (Broken: it is not tried again.)
RetryNot == "clean"
Retry == IF game = "disarm" THEN "again" ELSE "clean"

Disarm ==
  /\ game \in {"disarm", "again"} /\ ~lock
  /\ \/ Killed /\ Goto(Retry) /\ (Disarmed \/ UNCHANGED <<armed, watching>>)
     \/ ~pending /\ Goto("clean") /\ Disarmed /\ UNCHANGED pending
  /\ UNCHANGED <<clientVars, running, step, result, names, lock, snapshot, armedId, flags, history>>

\* RestoreScope after an abort, in the shared scope; ClearPrivateScope in the
\* other.  Then the next script of the batch, or the answer.
\* (Broken: everything in the scope is dropped.)
RestoresNothing == {n \in names : ~Shared(n[1])}
Restored == {n \in names : ~Shared(n[1]) \/ n \in snapshot.keys}

CleanUp ==
  /\ game = "clean"
  /\ LET restores == Shared(running) /\ result = "aborted" /\ snapshot.taken
     IN  \/ Killed /\ UNCHANGED <<names, snapshot>>
         \/ /\ ~pending
            /\ names' = IF restores THEN Restored ELSE IF Shared(running) THEN names ELSE SharedNames
            /\ snapshot' = IF restores THEN NoSnapshot ELSE snapshot
            /\ UNCHANGED pending
  /\ IF result = "ok" /\ step < asked[running].scripts
     THEN Goto("next") /\ step' = step + 1 ELSE Goto("answer") /\ UNCHANGED step
  /\ UNCHANGED <<clientVars, running, result, armed, watching, lock, armedId, flags, history>>

Answer ==
  /\ game = "answer" /\ Goto("leave")
  /\ SetTask(running)
  /\ UNCHANGED <<asked, tickers, cancelling, expired, running, step, result, names, pyVars, armedId, history>>

\* ~FRunGate clears both flags.
Leave ==
  /\ game = "leave" /\ Goto("idle")
  /\ running' = NoRequest /\ step' = 0 /\ result' = "ok"
  /\ armedId' = NoRequest /\ flags' = [flags EXCEPT !.cancel = FALSE]
  /\ UNCHANGED <<clientVars, names, pyVars, history>>
-----------------------------------------------------------------------------
\* _watch: it retires if the script is over, and otherwise decides and raises
\* under _lock.  The editor's flag is not under that lock.
Due == armed \in expired \/ flags.cancel

WatchdogRetires ==
  /\ watching /\ ~lock /\ ~flags.inPython
  /\ watching' = FALSE
  /\ UNCHANGED <<clientVars, runVars, armed, lock, pending, snapshot, armedId, flags, history>>

WatchdogDecides ==
  /\ watching /\ ~lock /\ flags.inPython /\ Due /\ ~pending
  /\ lock' = TRUE
  /\ UNCHANGED <<clientVars, runVars, armed, watching, pending, snapshot, armedId, flags, history>>

WatchdogRaises ==
  /\ lock /\ lock' = FALSE /\ pending' = TRUE
  /\ UNCHANGED <<clientVars, runVars, armed, watching, snapshot, armedId, flags, history>>

Game ==
  \/ \E q \in Requests : Enter(q)
  \/ NextScript \/ Arm \/ Snapshot \/ ScriptReturns \/ Lower \/ Disarm \/ CleanUp \/ Answer \/ Leave
Script == AbortDelivered \/ AbortSwallowed \/ TickAborts \/ \E q \in Requests : Busy(q)
Watchdog == WatchdogRaises \/ WatchdogRetires \/ WatchdogDecides
Client == \E q \in Requests : Receive(q) \/ CancelTask(q) \/ CancelChecks(q) \/ CancelStores(q) \/ Expire(q)
Next == Game \/ Script \/ Watchdog \/ Client

\* The game thread and the watchdog run, time passes, and a script does not
\* swallow every one of the aborts that are raised again and again.
Fairness ==
  /\ WF_vars(Game) /\ WF_vars(Watchdog) /\ SF_vars(AbortDelivered)
  /\ \A q \in Requests : WF_vars(Expire(q))
Spec == Init /\ [][Next]_vars /\ Fairness
-----------------------------------------------------------------------------
\* A script is aborted because its time is up or its own client has cancelled:
\* the id check of CancelOnLifetimeEnd, the flags of FRunGate and the second
\* attempt of DisarmDeadline keep the end of one run out of the next, except
\* where the cancellation of a run that is just ending stores its flag late.
AbortedForAReason ==
  history.aborted \subseteq
    expired \cup history.late \cup {q \in Requests : cancelling[q] # "no"}

\* Once DisarmDeadline is through, no abort waits and none is being raised,
\* so that neither the cleanup nor the editor's own Python is killed.
QuietAfterScript == game \in {"clean", "answer", "leave", "idle"} => ~pending /\ ~lock

\* _restore drops "the names an aborted script left behind, keeping everything
\* that predates it" - unless an abort had killed the _snapshot it goes by.
RestoreKeepsOlderNames ==
  [][\A n \in names \ names' :
       Shared(n[1]) => n = <<running, step>> \/ history.missed]_vars

\* A request is answered or cancelled in the end, also when its script never
\* returns by itself, if it has a time budget.
EventuallyAnswered == []<>(\A q \in Requests : task[q] # "pending")

\* The id check is there because "without it a finished request would cancel
\* whichever one started next" (PythonExecutor.cpp:440-442).
NeverCancelsAnother == history.late = {}

\* An abort hits the script it is meant for.
AbortsHitTheirScript == AbortedForAReason /\ QuietAfterScript
=============================================================================
