----------------------------- MODULE Requests_proofs -----------------------------
(***************************************************************************)
(* What TLAPS proves about what Rider asks of an editor, for any number of *)
(* requests, connections and builds: an abort hits the script it is meant  *)
(* for and nothing else, the cleanup after it drops nothing older, and a   *)
(* build is taken for completed only when its compile has ended.           *)
(***************************************************************************)
EXTENDS PythonExecutor, LiveCoding, SequenceTheorems, TLAPS

\* A run was asked to stop for a reason: its time was up, its own client
\* cancelled it, or another's cancellation came late.
Justified(q) == q \in expired \/ q \in history.late \/ cancelling[q] # "no"

Before == {"next", "arm", "snapshot", "script", "returned", "disarm", "again", "clean", "answer"}

PyTypeOK ==
  /\ asked \in [Requests -> Shapes]
  /\ life \in [Requests -> {"none", "alive", "ended"}]
  /\ task \in [Requests -> {"none", "pending", "set", "cancelled"}]
  /\ tickers \subseteq Requests /\ expired \subseteq Requests
  /\ cancelling \in [Requests -> {"no", "task", "matched", "done"}]
  /\ game \in Before \cup {"idle", "leave"}
  /\ running \in Requests \cup {NoRequest} /\ (running = NoRequest <=> game = "idle")
  /\ step \in Nat /\ result \in {"ok", "failed", "aborted"}
  /\ names \subseteq Requests \X Nat
  /\ armed \in Requests \cup {NoRequest}
  /\ watching \in BOOLEAN /\ lock \in BOOLEAN /\ pending \in BOOLEAN
  /\ snapshot \in [taken : BOOLEAN, keys : SUBSET (Requests \X Nat)]
  /\ armedId = running
  /\ flags \in [cancel : BOOLEAN, inPython : BOOLEAN]
  /\ history \in [aborted : SUBSET Requests, late : SUBSET Requests, missed : BOOLEAN]

\* The one that runs was received and is no longer left to the ticker.
Received == /\ \A q \in tickers : life[q] # "none" /\ q # running
            /\ running # NoRequest => life[running] # "none"

\* Where the game thread is while the watchdog may decide, raise, or be armed.
FlagUp == flags.inPython => game \in {"arm", "snapshot", "script", "returned"} /\ Budget
ArmsForBudget == game = "arm" => Budget
Watched == watching => game \in {"snapshot", "script", "returned", "disarm", "again"} /\ Budget
Aborting == (pending \/ lock) => game \in {"snapshot", "script", "returned", "disarm"} /\ Budget
ArmedOwn == armed # NoRequest =>
              armed = running /\ game \in {"snapshot", "script", "returned", "disarm", "again"} /\ Budget

\* Who asks for an abort has a reason.
CancelJustified == flags.cancel /\ game \in Before => Justified(running)
AbortJustified == pending \/ lock => Justified(running)

\* What the shared scope holds beyond the snapshot, the script has bound.
Scope == game \in {"script", "returned", "disarm", "again", "clean"} /\ Budget /\ Shared(running) =>
           \/ history.missed
           \/ \A n \in names : Shared(n[1]) => n \in snapshot.keys \/ n = <<running, step>>
AbortedInTime == game \in {"returned", "disarm", "again", "clean"} /\ result = "aborted" => Budget

PyInv ==
  /\ PyTypeOK /\ Received /\ FlagUp /\ ArmsForBudget /\ Watched /\ Aborting /\ ArmedOwn
  /\ CancelJustified /\ AbortJustified /\ Scope /\ AbortedInTime /\ AbortedForAReason

\* The invariant holds at the start, before any request.
LEMMA PyInitInv == Init => PyInv
<1>. SUFFICES ASSUME Init PROVE PyInv OBVIOUS
<1>1. PyTypeOK BY PythonExecutorAssumption DEF Init, PyTypeOK, NoSnapshot
<1>2. Received /\ FlagUp /\ ArmsForBudget /\ Watched /\ Aborting /\ ArmedOwn /\ CancelJustified
  BY DEF Init, Received, FlagUp, ArmsForBudget, Watched, Aborting, ArmedOwn, CancelJustified, Before
<1>3. AbortJustified /\ Scope /\ AbortedInTime /\ AbortedForAReason
  BY DEF Init, AbortJustified, Scope, AbortedInTime, AbortedForAReason
<1>. QED BY <1>1, <1>2, <1>3 DEF PyInv

\* A request that comes is not the one that runs.
LEMMA ReceiveKeeps ==
  ASSUME PyInv, NEW q \in Requests, Receive(q)
  PROVE  PyInv'
<1>1. PyTypeOK'
  <2>. USE DEF PyInv, PyTypeOK, Receive, pyVars, runVars
  <2>1. CASE asked[q].scripts = 0 BY <2>1
  <2>2. CASE asked[q].scripts # 0 BY <2>2
  <2>. QED BY <2>1, <2>2
<1>2. Received' BY PythonExecutorAssumption DEF PyInv, Received, Receive, runVars, PyTypeOK
<1>3. FlagUp' BY DEF PyInv, FlagUp, Budget, Receive, runVars
<1>4. ArmsForBudget' BY DEF PyInv, ArmsForBudget, Budget, Receive, runVars
<1>5. Watched' BY DEF PyInv, Watched, Budget, Receive, runVars, pyVars
<1>6. Aborting' BY DEF PyInv, Aborting, Budget, Receive, runVars, pyVars
<1>7. ArmedOwn' BY DEF PyInv, ArmedOwn, Budget, Receive, runVars, pyVars
<1>8. CancelJustified' BY DEF PyInv, CancelJustified, Justified, Receive, runVars
<1>9. AbortJustified' BY DEF PyInv, AbortJustified, Justified, Receive, runVars, pyVars
<1>10. Scope' BY DEF PyInv, Scope, Budget, Shared, Receive, runVars, pyVars
<1>11. AbortedInTime' BY DEF PyInv, AbortedInTime, Budget, Receive, runVars
<1>12. AbortedForAReason' BY DEF PyInv, AbortedForAReason, Receive
<1>. QED BY <1>1, <1>2, <1>3, <1>4, <1>5, <1>6, <1>7, <1>8, <1>9, <1>10, <1>11, <1>12 DEF PyInv

\* The client cancels.
LEMMA CancelTaskKeeps ==
  ASSUME PyInv, NEW q \in Requests, CancelTask(q)
  PROVE  PyInv'
<1>1. PyTypeOK' BY DEF PyInv, PyTypeOK, CancelTask, runVars, pyVars
<1>2. Received' BY DEF PyInv, Received, CancelTask, runVars
<1>3. FlagUp' BY DEF PyInv, FlagUp, Budget, CancelTask, runVars
<1>4. ArmsForBudget' BY DEF PyInv, ArmsForBudget, Budget, CancelTask, runVars
<1>5. Watched' BY DEF PyInv, Watched, Budget, CancelTask, runVars, pyVars
<1>6. Aborting' BY DEF PyInv, Aborting, Budget, CancelTask, runVars, pyVars
<1>7. ArmedOwn' BY DEF PyInv, ArmedOwn, Budget, CancelTask, runVars, pyVars
<1>8. CancelJustified' BY DEF PyInv, CancelJustified, Justified, CancelTask, runVars
<1>9. AbortJustified' BY DEF PyInv, AbortJustified, Justified, CancelTask, runVars, pyVars
<1>10. Scope' BY DEF PyInv, Scope, Budget, Shared, CancelTask, runVars, pyVars
<1>11. AbortedInTime' BY DEF PyInv, AbortedInTime, Budget, CancelTask, runVars
<1>12. AbortedForAReason' BY DEF PyInv, AbortedForAReason, CancelTask
<1>. QED BY <1>1, <1>2, <1>3, <1>4, <1>5, <1>6, <1>7, <1>8, <1>9, <1>10, <1>11, <1>12 DEF PyInv

\* It compares the armed id.
LEMMA CancelChecksKeeps ==
  ASSUME PyInv, NEW q \in Requests, CancelChecks(q)
  PROVE  PyInv'
<1>1. PyTypeOK' BY DEF PyInv, PyTypeOK, CancelChecks, runVars, pyVars
<1>2. Received' BY DEF PyInv, Received, CancelChecks, runVars
<1>3. FlagUp' BY DEF PyInv, FlagUp, Budget, CancelChecks, runVars
<1>4. ArmsForBudget' BY DEF PyInv, ArmsForBudget, Budget, CancelChecks, runVars
<1>5. Watched' BY DEF PyInv, Watched, Budget, CancelChecks, runVars, pyVars
<1>6. Aborting' BY DEF PyInv, Aborting, Budget, CancelChecks, runVars, pyVars
<1>7. ArmedOwn' BY DEF PyInv, ArmedOwn, Budget, CancelChecks, runVars, pyVars
<1>8. CancelJustified' BY DEF PyInv, CancelJustified, Justified, CancelChecks, runVars
<1>9. AbortJustified' BY DEF PyInv, AbortJustified, Justified, CancelChecks, runVars, pyVars
<1>10. Scope' BY DEF PyInv, Scope, Budget, Shared, CancelChecks, runVars, pyVars
<1>11. AbortedInTime' BY DEF PyInv, AbortedInTime, Budget, CancelChecks, runVars
<1>12. AbortedForAReason' BY DEF PyInv, AbortedForAReason, CancelChecks
<1>. QED BY <1>1, <1>2, <1>3, <1>4, <1>5, <1>6, <1>7, <1>8, <1>9, <1>10, <1>11, <1>12 DEF PyInv

\* Its flag is for the run, or late for another.
LEMMA CancelStoresKeeps ==
  ASSUME PyInv, NEW q \in Requests, CancelStores(q)
  PROVE  PyInv'
<1>1. PyTypeOK' BY DEF PyInv, PyTypeOK, CancelStores, Note, runVars, pyVars
<1>2. Received' BY DEF PyInv, Received, CancelStores, runVars
<1>3. FlagUp' BY DEF PyInv, FlagUp, Budget, CancelStores, runVars
<1>4. ArmsForBudget' BY DEF PyInv, ArmsForBudget, Budget, CancelStores, runVars
<1>5. Watched' BY DEF PyInv, Watched, Budget, CancelStores, runVars, pyVars
<1>6. Aborting' BY DEF PyInv, Aborting, Budget, CancelStores, runVars, pyVars
<1>7. ArmedOwn' BY DEF PyInv, ArmedOwn, Budget, CancelStores, runVars, pyVars
<1>8. CancelJustified'
  BY DEF PyInv, CancelJustified, Before, Justified, CancelStores, Note, runVars, PyTypeOK
<1>9. AbortJustified'
  BY DEF PyInv, AbortJustified, Justified, CancelStores, Note, runVars, pyVars
<1>10. Scope' BY DEF PyInv, Scope, Budget, Shared, CancelStores, Note, runVars, pyVars
<1>11. AbortedInTime' BY DEF PyInv, AbortedInTime, Budget, CancelStores, runVars
<1>12. AbortedForAReason' BY DEF PyInv, AbortedForAReason, CancelStores, Note
<1>. QED BY <1>1, <1>2, <1>3, <1>4, <1>5, <1>6, <1>7, <1>8, <1>9, <1>10, <1>11, <1>12 DEF PyInv

\* The time of the one that runs is up.
LEMMA ExpireKeeps ==
  ASSUME PyInv, NEW q \in Requests, Expire(q)
  PROVE  PyInv'
<1>1. PyTypeOK' BY DEF PyInv, PyTypeOK, Expire, runVars, pyVars
<1>2. Received' BY DEF PyInv, Received, Expire, runVars
<1>3. FlagUp' BY DEF PyInv, FlagUp, Budget, Expire, runVars
<1>4. ArmsForBudget' BY DEF ArmsForBudget, Budget, Expire, runVars
<1>5. Watched' BY DEF PyInv, Watched, Budget, Expire, runVars, pyVars
<1>6. Aborting' BY DEF PyInv, Aborting, Budget, Expire, runVars, pyVars
<1>7. ArmedOwn' BY DEF PyInv, ArmedOwn, Budget, Expire, runVars, pyVars
<1>8. CancelJustified' BY DEF CancelJustified, Justified, Expire, runVars
<1>9. AbortJustified' BY DEF AbortJustified, Justified, Expire, runVars
<1>10. Scope' BY DEF PyInv, Scope, Budget, Shared, Expire, runVars, pyVars
<1>11. AbortedInTime' BY DEF AbortedInTime, Budget, Expire, runVars
<1>12. AbortedForAReason' BY DEF PyInv, AbortedForAReason, Expire
<1>. QED BY <1>1, <1>2, <1>3, <1>4, <1>5, <1>6, <1>7, <1>8, <1>9, <1>10, <1>11, <1>12 DEF PyInv

\* A run begins with no flag up and nothing armed.
LEMMA EnterKeeps ==
  ASSUME PyInv, NEW q \in Requests, Enter(q)
  PROVE  PyInv'
<1>1. PyTypeOK'
  <2>. USE DEF PyInv, PyTypeOK, Enter, Goto, pyVars, Before
  <2>1. CASE life[q] = "ended" BY <2>1
  <2>2. CASE life[q] # "ended"
    <3>1. running' = q /\ game' = "next" /\ step' = 1 /\ armedId' = q /\ q # NoRequest
      BY <2>2, PythonExecutorAssumption
    <3>2. flags' \in [cancel : BOOLEAN, inPython : BOOLEAN] BY <2>2
    <3>. QED BY <3>1, <3>2
  <2>. QED BY <2>1, <2>2
<1>2. Received' BY DEF PyInv, Received, Enter
<1>3. FlagUp' BY DEF PyInv, FlagUp, Enter, PyTypeOK
<1>4. ArmsForBudget' BY DEF ArmsForBudget, Enter, Goto
<1>5. Watched' BY DEF PyInv, Watched, Enter, pyVars
<1>6. Aborting' BY DEF PyInv, Aborting, Enter, pyVars
<1>7. ArmedOwn' BY DEF PyInv, ArmedOwn, Enter, pyVars
<1>8. CancelJustified' BY DEF PyInv, CancelJustified, Before, Enter, PyTypeOK
<1>9. AbortJustified' BY DEF PyInv, Aborting, AbortJustified, Enter, pyVars
<1>10. Scope' BY DEF Scope, Enter, Goto
<1>11. AbortedInTime' BY DEF AbortedInTime, Enter, Goto
<1>12. AbortedForAReason' BY DEF PyInv, AbortedForAReason, Enter
<1>. QED BY <1>1, <1>2, <1>3, <1>4, <1>5, <1>6, <1>7, <1>8, <1>9, <1>10, <1>11, <1>12 DEF PyInv

\* A request that is refused while a script runs is not that script's.
LEMMA BusyKeeps ==
  ASSUME PyInv, NEW q \in Requests, Busy(q)
  PROVE  PyInv'
<1>1. PyTypeOK'
  BY PythonExecutorAssumption DEF PyInv, PyTypeOK, Shapes, Before, Busy, SetTask, runVars,
       pyVars
<1>2. Received' BY DEF PyInv, Received, Busy, SetTask, runVars, PyTypeOK
<1>3. FlagUp' BY DEF PyInv, FlagUp, Budget, Busy, SetTask, runVars, PyTypeOK
<1>4. ArmsForBudget' BY DEF ArmsForBudget, Busy, runVars
<1>5. Watched' BY DEF PyInv, Watched, Budget, Busy, runVars, pyVars
<1>6. Aborting' BY DEF PyInv, Aborting, Budget, Busy, runVars, pyVars
<1>7. ArmedOwn' BY DEF PyInv, ArmedOwn, Budget, Busy, runVars, pyVars
<1>8. CancelJustified'
  BY DEF PyInv, PyTypeOK, Received, CancelJustified, Justified, Busy, SetTask, runVars
<1>9. AbortJustified' BY DEF PyInv, AbortJustified, Justified, Busy, runVars, pyVars
<1>10. Scope' BY DEF PyInv, Scope, Budget, Shared, Busy, runVars, pyVars
<1>11. AbortedInTime' BY DEF AbortedInTime, Busy, runVars
<1>12. AbortedForAReason' BY DEF PyInv, AbortedForAReason, Busy
<1>. QED BY <1>1, <1>2, <1>3, <1>4, <1>5, <1>6, <1>7, <1>8, <1>9, <1>10, <1>11, <1>12 DEF PyInv

\* The flag is raised for a script that has a budget.
LEMMA NextScriptKeeps ==
  ASSUME PyInv, NextScript
  PROVE  PyInv'
<1>1. PyTypeOK'
  BY DEF PyInv, PyTypeOK, Shapes, Before, NextScript, Goto, Budget, Raised, clientVars, pyVars
<1>2. Received' BY DEF PyInv, Received, NextScript, clientVars
<1>3. FlagUp' BY DEF PyInv, FlagUp, Budget, NextScript, Goto, Raised, clientVars, PyTypeOK
<1>4. ArmsForBudget' BY DEF ArmsForBudget, Budget, NextScript, Goto, clientVars
<1>5. Watched' BY DEF PyInv, Watched, NextScript, pyVars
<1>6. Aborting' BY DEF PyInv, Aborting, NextScript, pyVars
<1>7. ArmedOwn' BY DEF PyInv, ArmedOwn, NextScript, pyVars
<1>8. CancelJustified'
  BY DEF PyInv, CancelJustified, Justified, NextScript, Raised, clientVars, PyTypeOK
<1>9. AbortJustified' BY DEF PyInv, AbortJustified, Justified, NextScript, clientVars, pyVars
<1>10. Scope' BY DEF Scope, Budget, NextScript, Goto, clientVars
<1>11. AbortedInTime' BY DEF AbortedInTime, NextScript, Goto
<1>12. AbortedForAReason' BY DEF PyInv, AbortedForAReason, NextScript, clientVars
<1>. QED BY <1>1, <1>2, <1>3, <1>4, <1>5, <1>6, <1>7, <1>8, <1>9, <1>10, <1>11, <1>12 DEF PyInv

\* What is armed is the run.
LEMMA ArmKeeps ==
  ASSUME PyInv, Arm
  PROVE  PyInv'
<1>1. PyTypeOK' BY DEF PyInv, PyTypeOK, Before, Arm, Goto, clientVars
<1>2. Received' BY DEF PyInv, Received, Arm, clientVars
<1>3. FlagUp' BY DEF PyInv, FlagUp, Budget, Arm, Goto, clientVars
<1>4. ArmsForBudget' BY DEF ArmsForBudget, Arm, Goto
<1>5. Watched' BY DEF PyInv, Budget, ArmsForBudget, Watched, Arm, Goto, clientVars
<1>6. Aborting' BY DEF PyInv, Aborting, Arm
<1>7. ArmedOwn' BY DEF PyInv, Budget, ArmsForBudget, ArmedOwn, Arm, Goto, clientVars
<1>8. CancelJustified' BY DEF PyInv, CancelJustified, Before, Justified, Arm, clientVars
<1>9. AbortJustified' BY DEF PyInv, AbortJustified, Justified, Arm, clientVars
<1>10. Scope' BY DEF Scope, Arm, Goto
<1>11. AbortedInTime' BY DEF AbortedInTime, Arm, Goto
<1>12. AbortedForAReason' BY DEF PyInv, AbortedForAReason, Arm, clientVars
<1>. QED BY <1>1, <1>2, <1>3, <1>4, <1>5, <1>6, <1>7, <1>8, <1>9, <1>10, <1>11, <1>12 DEF PyInv

\* The snapshot holds the shared scope, or an abort killed it.
LEMMA SnapshotKeeps ==
  ASSUME PyInv, Snapshot
  PROVE  PyInv'
<1>1. PyTypeOK'
  <2>1. SharedNames \in SUBSET (Requests \X Nat) BY DEF PyInv, PyTypeOK, SharedNames
  <2>2. snapshot' \in [taken : BOOLEAN, keys : SUBSET (Requests \X Nat)]
    <3>1. snapshot' = snapshot \/ snapshot' = [taken |-> TRUE, keys |-> SharedNames] BY DEF Snapshot
    <3>2. [taken |-> TRUE, keys |-> SharedNames] \in [taken : BOOLEAN, keys : SUBSET (Requests \X Nat)]
      BY <2>1
    <3>3. snapshot \in [taken : BOOLEAN, keys : SUBSET (Requests \X Nat)] BY DEF PyInv, PyTypeOK
    <3>. QED BY <3>1, <3>2, <3>3
  <2>3. history' \in [aborted : SUBSET Requests, late : SUBSET Requests, missed : BOOLEAN]
    BY DEF PyInv, PyTypeOK, Snapshot
  <2>. QED BY <2>2, <2>3 DEF PyInv, PyTypeOK, Snapshot, Killed, Goto, Before, clientVars
<1>2. Received' BY DEF PyInv, Received, Snapshot, clientVars
<1>3. FlagUp' BY DEF PyInv, FlagUp, Budget, Snapshot, Goto, clientVars
<1>4. ArmsForBudget' BY DEF ArmsForBudget, Snapshot, Goto
<1>5. Watched' BY DEF PyInv, Watched, Budget, Snapshot, Goto, clientVars
<1>6. Aborting' BY DEF PyInv, Aborting, Budget, Snapshot, Goto, Killed, clientVars
<1>7. ArmedOwn' BY DEF PyInv, ArmedOwn, Budget, Snapshot, Goto, clientVars
<1>8. CancelJustified' BY DEF PyInv, CancelJustified, Justified, Snapshot, clientVars, PyTypeOK
<1>9. AbortJustified'
  BY DEF PyInv, AbortJustified, Justified, Snapshot, Killed, clientVars, PyTypeOK
<1>10. Scope' BY DEF PyInv, Scope, Shared, Snapshot, SharedNames, clientVars, PyTypeOK
<1>11. AbortedInTime' BY DEF AbortedInTime, Snapshot, Goto
<1>12. AbortedForAReason' BY DEF PyInv, AbortedForAReason, Snapshot, clientVars, PyTypeOK
<1>. QED BY <1>1, <1>2, <1>3, <1>4, <1>5, <1>6, <1>7, <1>8, <1>9, <1>10, <1>11, <1>12 DEF PyInv

\* A script may end with an abort on its way.
LEMMA ScriptReturnsKeeps ==
  ASSUME PyInv, ScriptReturns
  PROVE  PyInv'
<1>1. PyTypeOK' BY DEF PyInv, PyTypeOK, Before, ScriptReturns, Returns, Goto, clientVars
<1>2. Received' BY DEF PyInv, Received, ScriptReturns, Returns, clientVars
<1>3. FlagUp' BY DEF PyInv, FlagUp, Budget, ScriptReturns, Returns, Goto, clientVars
<1>4. ArmsForBudget' BY DEF ArmsForBudget, ScriptReturns, Returns, Goto
<1>5. Watched' BY DEF PyInv, Watched, Budget, ScriptReturns, Returns, Goto, clientVars
<1>6. Aborting' BY DEF PyInv, Aborting, Budget, ScriptReturns, Returns, Goto, clientVars
<1>7. ArmedOwn' BY DEF PyInv, ArmedOwn, Budget, ScriptReturns, Returns, Goto, clientVars
<1>8. CancelJustified'
  BY DEF PyInv, CancelJustified, Before, Justified, ScriptReturns, Returns, clientVars
<1>9. AbortJustified'
  BY DEF PyInv, AbortJustified, Justified, ScriptReturns, Returns, clientVars
<1>10. Scope' BY DEF PyInv, Scope, Budget, Shared, ScriptReturns, Returns, clientVars
<1>11. AbortedInTime' BY DEF AbortedInTime, ScriptReturns, Returns
<1>12. AbortedForAReason' BY DEF PyInv, AbortedForAReason, ScriptReturns, Returns, clientVars
<1>. QED BY <1>1, <1>2, <1>3, <1>4, <1>5, <1>6, <1>7, <1>8, <1>9, <1>10, <1>11, <1>12 DEF PyInv

\* An abort that is delivered was for this run.
LEMMA AbortDeliveredKeeps ==
  ASSUME PyInv, AbortDelivered
  PROVE  PyInv'
<1>1. PyTypeOK'
  <2>1. running \in Requests BY DEF PyInv, PyTypeOK, AbortDelivered
  <2>2. names' \subseteq Requests \X Nat BY <2>1 DEF PyInv, PyTypeOK, AbortDelivered, Returns
  <2>3. history' \in [aborted : SUBSET Requests, late : SUBSET Requests, missed : BOOLEAN]
    BY <2>1 DEF PyInv, PyTypeOK, AbortDelivered, Note
  <2>. QED BY <2>2, <2>3 DEF PyInv, PyTypeOK, AbortDelivered, Returns, Killed, Goto, Before, clientVars
<1>2. Received' BY DEF PyInv, Received, AbortDelivered, Returns, clientVars
<1>3. FlagUp' BY DEF PyInv, FlagUp, Budget, AbortDelivered, Returns, Goto, clientVars
<1>4. ArmsForBudget' BY DEF ArmsForBudget, AbortDelivered, Returns, Goto
<1>5. Watched' BY DEF PyInv, Watched, Budget, AbortDelivered, Returns, Goto, clientVars
<1>6. Aborting'
  BY DEF PyInv, Aborting, Budget, AbortDelivered, Killed, Returns, Goto, clientVars
<1>7. ArmedOwn' BY DEF PyInv, ArmedOwn, Budget, AbortDelivered, Returns, Goto, clientVars
<1>8. CancelJustified'
  BY DEF PyInv, CancelJustified, Before, Justified, AbortDelivered, Returns, Note, clientVars
<1>9. AbortJustified'
  BY DEF PyInv, AbortJustified, Justified, AbortDelivered, Killed, Returns, Note, clientVars
<1>10. Scope' BY DEF PyInv, Scope, Budget, Shared, AbortDelivered, Returns, Note, clientVars
<1>11. AbortedInTime'
  BY DEF PyInv, Budget, Aborting, AbortedInTime, AbortDelivered, Killed, Returns, clientVars
<1>12. AbortedForAReason'
  BY DEF PyInv, PyTypeOK, Justified, AbortJustified, AbortedForAReason, AbortDelivered, Killed,
       Returns, Note, clientVars
<1>. QED BY <1>1, <1>2, <1>3, <1>4, <1>5, <1>6, <1>7, <1>8, <1>9, <1>10, <1>11, <1>12 DEF PyInv

\* A script may catch it.
LEMMA AbortSwallowedKeeps ==
  ASSUME PyInv, AbortSwallowed
  PROVE  PyInv'
<1>1. PyTypeOK' BY DEF PyInv, PyTypeOK, AbortSwallowed, Killed, clientVars, runVars
<1>2. Received' BY DEF PyInv, Received, AbortSwallowed, clientVars, runVars
<1>3. FlagUp' BY DEF PyInv, FlagUp, Budget, AbortSwallowed, clientVars, runVars
<1>4. ArmsForBudget' BY DEF ArmsForBudget, AbortSwallowed, runVars
<1>5. Watched' BY DEF PyInv, Watched, Budget, AbortSwallowed, clientVars, runVars
<1>6. Aborting' BY DEF PyInv, Aborting, Budget, AbortSwallowed, Killed, clientVars, runVars
<1>7. ArmedOwn' BY DEF PyInv, ArmedOwn, Budget, AbortSwallowed, clientVars, runVars
<1>8. CancelJustified'
  BY DEF PyInv, CancelJustified, Justified, AbortSwallowed, clientVars, runVars
<1>9. AbortJustified'
  BY DEF PyInv, AbortJustified, Justified, AbortSwallowed, Killed, clientVars, runVars
<1>10. Scope' BY DEF PyInv, Scope, Budget, Shared, AbortSwallowed, clientVars, runVars
<1>11. AbortedInTime' BY DEF AbortedInTime, AbortSwallowed, runVars
<1>12. AbortedForAReason' BY DEF PyInv, AbortedForAReason, AbortSwallowed, clientVars
<1>. QED BY <1>1, <1>2, <1>3, <1>4, <1>5, <1>6, <1>7, <1>8, <1>9, <1>10, <1>11, <1>12 DEF PyInv

\* tick asks what is armed, the run's.
LEMMA TickAbortsKeeps ==
  ASSUME PyInv, TickAborts
  PROVE  PyInv'
<1>1. PyTypeOK' BY DEF PyInv, PyTypeOK, Before, TickAborts, Returns, Note, Goto, clientVars
<1>2. Received' BY DEF PyInv, Received, TickAborts, Returns, clientVars
<1>3. FlagUp' BY DEF PyInv, FlagUp, Budget, TickAborts, Returns, Goto, clientVars
<1>4. ArmsForBudget' BY DEF ArmsForBudget, TickAborts, Returns, Goto
<1>5. Watched' BY DEF PyInv, Watched, Budget, TickAborts, Returns, Goto, clientVars
<1>6. Aborting' BY DEF PyInv, Aborting, Budget, TickAborts, Returns, Goto, clientVars
<1>7. ArmedOwn' BY DEF PyInv, ArmedOwn, Budget, TickAborts, Returns, Goto, clientVars
<1>8. CancelJustified'
  BY DEF PyInv, CancelJustified, Justified, TickAborts, Returns, Note, clientVars, PyTypeOK
<1>9. AbortJustified'
  BY DEF PyInv, AbortJustified, Justified, TickAborts, Returns, Note, clientVars, PyTypeOK
<1>10. Scope'
  BY DEF PyInv, Scope, Budget, Shared, TickAborts, Returns, Note, clientVars, PyTypeOK
<1>11. AbortedInTime'
  BY DEF PyInv, Budget, ArmedOwn, AbortedInTime, TickAborts, Returns, clientVars
<1>12. AbortedForAReason'
  BY DEF PyInv, PyTypeOK, ArmedOwn, CancelJustified, Justified, Shared, AbortedForAReason,
       TickAborts, Returns, Note, clientVars
<1>. QED BY <1>1, <1>2, <1>3, <1>4, <1>5, <1>6, <1>7, <1>8, <1>9, <1>10, <1>11, <1>12 DEF PyInv

\* No new abort is decided from here on.
LEMMA LowerKeeps ==
  ASSUME PyInv, Lower
  PROVE  PyInv'
<1>1. PyTypeOK' BY DEF PyInv, PyTypeOK, Before, Lower, Goto, clientVars, pyVars
<1>2. Received' BY DEF PyInv, Received, Lower, clientVars
<1>3. FlagUp' BY DEF FlagUp, Lower
<1>4. ArmsForBudget' BY DEF ArmsForBudget, Lower, Goto
<1>5. Watched' BY DEF PyInv, Watched, Budget, Lower, Goto, clientVars, pyVars
<1>6. Aborting' BY DEF PyInv, Aborting, Budget, Lower, Goto, clientVars, pyVars
<1>7. ArmedOwn' BY DEF PyInv, ArmedOwn, Budget, Lower, Goto, clientVars, pyVars
<1>8. CancelJustified' BY DEF PyInv, CancelJustified, Before, Justified, Lower, clientVars
<1>9. AbortJustified' BY DEF PyInv, AbortJustified, Justified, Lower, clientVars, pyVars
<1>10. Scope' BY DEF PyInv, Scope, Budget, Shared, Lower, clientVars, pyVars
<1>11. AbortedInTime' BY DEF PyInv, AbortedInTime, Budget, Lower, clientVars
<1>12. AbortedForAReason' BY DEF PyInv, AbortedForAReason, Lower, clientVars
<1>. QED BY <1>1, <1>2, <1>3, <1>4, <1>5, <1>6, <1>7, <1>8, <1>9, <1>10, <1>11, <1>12 DEF PyInv

\* After one attempt none is left.
LEMMA DisarmKeeps ==
  ASSUME PyInv, Disarm
  PROVE  PyInv'
<1>1. PyTypeOK'
  BY DEF PyInv, PyTypeOK, Before, Disarm, Killed, Goto, Retry, Disarmed, clientVars
<1>2. Received' BY DEF PyInv, Received, Disarm, clientVars
<1>3. FlagUp' BY DEF PyInv, FlagUp, Disarm
<1>4. ArmsForBudget' BY DEF ArmsForBudget, Disarm, Goto, Retry
<1>5. Watched'
  BY DEF PyInv, Budget, Watched, Aborting, Disarm, Killed, Goto, Retry, Disarmed, clientVars
<1>6. Aborting' BY DEF Aborting, Disarm, Killed
<1>7. ArmedOwn'
  BY DEF PyInv, Budget, Aborting, ArmedOwn, Disarm, Killed, Goto, Retry, Disarmed, clientVars
<1>8. CancelJustified' BY DEF PyInv, CancelJustified, Before, Justified, Disarm, clientVars
<1>9. AbortJustified' BY DEF AbortJustified, Disarm, Killed
<1>10. Scope' BY DEF PyInv, Scope, Budget, Shared, Disarm, clientVars
<1>11. AbortedInTime' BY DEF PyInv, AbortedInTime, Budget, Disarm, clientVars
<1>12. AbortedForAReason' BY DEF PyInv, AbortedForAReason, Disarm, clientVars
<1>. QED BY <1>1, <1>2, <1>3, <1>4, <1>5, <1>6, <1>7, <1>8, <1>9, <1>10, <1>11, <1>12 DEF PyInv

\* The scope is cleaned, the run goes on or is over.
LEMMA CleanUpKeeps ==
  ASSUME PyInv, CleanUp
  PROVE  PyInv'
<1>1. PyTypeOK'
  <2>1. names' = names \/ names' = Restored \/ names' = SharedNames BY DEF CleanUp
  <2>2. names' \subseteq Requests \X Nat BY <2>1 DEF PyInv, PyTypeOK, Restored, SharedNames
  <2>3. snapshot' = snapshot \/ snapshot' = NoSnapshot BY DEF CleanUp
  <2>4. snapshot' \in [taken : BOOLEAN, keys : SUBSET (Requests \X Nat)]
    <3>1. NoSnapshot \in [taken : BOOLEAN, keys : SUBSET (Requests \X Nat)] BY DEF NoSnapshot
    <3>2. snapshot \in [taken : BOOLEAN, keys : SUBSET (Requests \X Nat)] BY DEF PyInv, PyTypeOK
    <3>. QED BY <2>3, <3>1, <3>2
  <2>5. pending' = FALSE \/ pending' = pending BY DEF CleanUp, Killed
  <2>6. game' \in {"next", "answer"} /\ step' \in Nat BY DEF PyInv, PyTypeOK, CleanUp, Goto
  <2>. QED BY <2>2, <2>4, <2>5, <2>6 DEF PyInv, PyTypeOK, CleanUp, Before, clientVars
<1>2. Received' BY DEF PyInv, Received, CleanUp, clientVars
<1>3. FlagUp' BY DEF PyInv, FlagUp, CleanUp
<1>4. ArmsForBudget' BY DEF ArmsForBudget, CleanUp, Goto
<1>5. Watched' BY DEF PyInv, Watched, CleanUp
<1>6. Aborting' BY DEF PyInv, Aborting, CleanUp, Killed
<1>7. ArmedOwn' BY DEF PyInv, ArmedOwn, CleanUp
<1>8. CancelJustified' BY DEF PyInv, CancelJustified, Before, Justified, CleanUp, clientVars
<1>9. AbortJustified' BY DEF PyInv, AbortJustified, Justified, CleanUp, Killed, clientVars
<1>10. Scope' BY DEF Scope, CleanUp, Goto
<1>11. AbortedInTime' BY DEF AbortedInTime, CleanUp, Goto
<1>12. AbortedForAReason' BY DEF PyInv, AbortedForAReason, CleanUp, clientVars
<1>. QED BY <1>1, <1>2, <1>3, <1>4, <1>5, <1>6, <1>7, <1>8, <1>9, <1>10, <1>11, <1>12 DEF PyInv

\* The answer may raise the flag once more.
LEMMA AnswerKeeps ==
  ASSUME PyInv, Answer
  PROVE  PyInv'
<1>1. PyTypeOK'
  <2>1. running \in Requests BY DEF PyInv, PyTypeOK, Answer
  <2>2. /\ life' \in [Requests -> {"none", "alive", "ended"}]
        /\ task' \in [Requests -> {"none", "pending", "set", "cancelled"}]
        /\ flags' \in [cancel : BOOLEAN, inPython : BOOLEAN]
    <3>1. CASE life[running] = "ended" BY <3>1 DEF PyInv, PyTypeOK, Answer, SetTask
    <3>2. CASE life[running] # "ended" BY <2>1, <3>2 DEF PyInv, PyTypeOK, Answer, SetTask
    <3>. QED BY <3>1, <3>2
  <2>. QED BY <2>2 DEF PyInv, PyTypeOK, Answer, Goto, Before, pyVars
<1>2. Received' BY DEF PyInv, Received, Answer, SetTask, PyTypeOK
<1>3. FlagUp' BY DEF PyInv, FlagUp, Answer, SetTask, PyTypeOK
<1>4. ArmsForBudget' BY DEF ArmsForBudget, Answer, Goto
<1>5. Watched' BY DEF PyInv, Watched, Answer, pyVars
<1>6. Aborting' BY DEF PyInv, Aborting, Answer, pyVars
<1>7. ArmedOwn' BY DEF PyInv, ArmedOwn, Answer, pyVars
<1>8. CancelJustified' BY DEF CancelJustified, Before, Answer, Goto
<1>9. AbortJustified' BY DEF PyInv, AbortJustified, Justified, Answer, pyVars
<1>10. Scope' BY DEF Scope, Answer, Goto
<1>11. AbortedInTime' BY DEF AbortedInTime, Answer, Goto
<1>12. AbortedForAReason' BY DEF PyInv, AbortedForAReason, Answer
<1>. QED BY <1>1, <1>2, <1>3, <1>4, <1>5, <1>6, <1>7, <1>8, <1>9, <1>10, <1>11, <1>12 DEF PyInv

\* The gate takes it down.
LEMMA LeaveKeeps ==
  ASSUME PyInv, Leave
  PROVE  PyInv'
<1>1. PyTypeOK' BY DEF PyInv, PyTypeOK, Leave, Goto, clientVars, pyVars
<1>2. Received' BY PythonExecutorAssumption DEF PyInv, Received, Leave, clientVars, PyTypeOK
<1>3. FlagUp' BY DEF PyInv, FlagUp, Leave
<1>4. ArmsForBudget' BY DEF ArmsForBudget, Leave, Goto
<1>5. Watched' BY DEF PyInv, Watched, Leave, pyVars
<1>6. Aborting' BY DEF PyInv, Aborting, Leave, pyVars
<1>7. ArmedOwn' BY DEF PyInv, ArmedOwn, Leave, pyVars
<1>8. CancelJustified' BY DEF CancelJustified, Leave
<1>9. AbortJustified' BY DEF PyInv, Aborting, AbortJustified, Leave, pyVars
<1>10. Scope' BY DEF Scope, Leave, Goto
<1>11. AbortedInTime' BY DEF AbortedInTime, Leave
<1>12. AbortedForAReason' BY DEF PyInv, AbortedForAReason, Leave, clientVars
<1>. QED BY <1>1, <1>2, <1>3, <1>4, <1>5, <1>6, <1>7, <1>8, <1>9, <1>10, <1>11, <1>12 DEF PyInv

\* The watchdog ends.
LEMMA WatchdogRetiresKeeps ==
  ASSUME PyInv, WatchdogRetires
  PROVE  PyInv'
<1>1. PyTypeOK' BY DEF PyInv, PyTypeOK, WatchdogRetires, clientVars, runVars
<1>2. Received' BY DEF PyInv, Received, WatchdogRetires, clientVars, runVars
<1>3. FlagUp' BY DEF FlagUp, WatchdogRetires
<1>4. ArmsForBudget' BY DEF PyInv, ArmsForBudget, Budget, WatchdogRetires, clientVars, runVars
<1>5. Watched' BY DEF Watched, WatchdogRetires
<1>6. Aborting' BY DEF PyInv, Aborting, Budget, WatchdogRetires, clientVars, runVars
<1>7. ArmedOwn' BY DEF PyInv, ArmedOwn, Budget, WatchdogRetires, clientVars, runVars
<1>8. CancelJustified'
  BY DEF PyInv, CancelJustified, Justified, WatchdogRetires, clientVars, runVars
<1>9. AbortJustified'
  BY DEF PyInv, AbortJustified, Justified, WatchdogRetires, clientVars, runVars
<1>10. Scope' BY DEF PyInv, Scope, Budget, Shared, WatchdogRetires, clientVars, runVars
<1>11. AbortedInTime' BY DEF PyInv, AbortedInTime, Budget, WatchdogRetires, clientVars, runVars
<1>12. AbortedForAReason' BY DEF PyInv, AbortedForAReason, WatchdogRetires, clientVars
<1>. QED BY <1>1, <1>2, <1>3, <1>4, <1>5, <1>6, <1>7, <1>8, <1>9, <1>10, <1>11, <1>12 DEF PyInv

\* It decides about the run.
LEMMA WatchdogDecidesKeeps ==
  ASSUME PyInv, WatchdogDecides
  PROVE  PyInv'
<1>1. PyTypeOK' BY DEF PyInv, PyTypeOK, WatchdogDecides, clientVars, runVars
<1>2. Received' BY DEF PyInv, Received, WatchdogDecides, clientVars, runVars
<1>3. FlagUp' BY DEF PyInv, FlagUp, Budget, WatchdogDecides, clientVars, runVars
<1>4. ArmsForBudget' BY DEF PyInv, ArmsForBudget, Budget, WatchdogDecides, clientVars, runVars
<1>5. Watched' BY DEF PyInv, Watched, Budget, WatchdogDecides, clientVars, runVars
<1>6. Aborting'
  BY DEF PyInv, FlagUp, Budget, Watched, Aborting, WatchdogDecides, clientVars, runVars
<1>7. ArmedOwn' BY DEF PyInv, ArmedOwn, Budget, WatchdogDecides, clientVars, runVars
<1>8. CancelJustified'
  BY DEF PyInv, CancelJustified, Justified, WatchdogDecides, clientVars, runVars
<1>9. AbortJustified'
  BY PythonExecutorAssumption DEF PyInv, PyTypeOK, FlagUp, ArmedOwn, CancelJustified,
       Justified, AbortJustified, WatchdogDecides, Due, clientVars, runVars
<1>10. Scope' BY DEF PyInv, Scope, Budget, Shared, WatchdogDecides, clientVars, runVars
<1>11. AbortedInTime' BY DEF PyInv, AbortedInTime, Budget, WatchdogDecides, clientVars, runVars
<1>12. AbortedForAReason' BY DEF PyInv, AbortedForAReason, WatchdogDecides, clientVars
<1>. QED BY <1>1, <1>2, <1>3, <1>4, <1>5, <1>6, <1>7, <1>8, <1>9, <1>10, <1>11, <1>12 DEF PyInv

\* It raises what it decided.
LEMMA WatchdogRaisesKeeps ==
  ASSUME PyInv, WatchdogRaises
  PROVE  PyInv'
<1>1. PyTypeOK'
  BY DEF PyInv, PyTypeOK, FlagUp, Aborting, ArmedOwn, CancelJustified, Justified,
       AbortJustified, WatchdogRaises, clientVars, runVars
<1>2. Received' BY DEF PyInv, Received, WatchdogRaises, clientVars, runVars
<1>3. FlagUp' BY DEF PyInv, FlagUp, Budget, WatchdogRaises, clientVars, runVars
<1>4. ArmsForBudget' BY DEF PyInv, ArmsForBudget, Budget, WatchdogRaises, clientVars, runVars
<1>5. Watched' BY DEF PyInv, Watched, Budget, WatchdogRaises, clientVars, runVars
<1>6. Aborting' BY DEF PyInv, Aborting, Budget, WatchdogRaises, clientVars, runVars
<1>7. ArmedOwn' BY DEF PyInv, ArmedOwn, Budget, WatchdogRaises, clientVars, runVars
<1>8. CancelJustified'
  BY DEF PyInv, CancelJustified, Justified, WatchdogRaises, clientVars, runVars
<1>9. AbortJustified'
  BY DEF PyInv, AbortJustified, Justified, WatchdogRaises, clientVars, runVars
<1>10. Scope' BY DEF PyInv, Scope, Budget, Shared, WatchdogRaises, clientVars, runVars
<1>11. AbortedInTime' BY DEF PyInv, AbortedInTime, Budget, WatchdogRaises, clientVars, runVars
<1>12. AbortedForAReason' BY DEF PyInv, AbortedForAReason, WatchdogRaises, clientVars
<1>. QED BY <1>1, <1>2, <1>3, <1>4, <1>5, <1>6, <1>7, <1>8, <1>9, <1>10, <1>11, <1>12 DEF PyInv

\* Every step keeps the invariant.
LEMMA PyNextInv == PyInv /\ [Next]_vars => PyInv'
<1>. SUFFICES ASSUME PyInv, [Next]_vars PROVE PyInv' OBVIOUS
<1>1. CASE Game
  BY <1>1, EnterKeeps, NextScriptKeeps, ArmKeeps, SnapshotKeeps, ScriptReturnsKeeps, LowerKeeps,
     DisarmKeeps, CleanUpKeeps, AnswerKeeps, LeaveKeeps DEF Game
<1>2. CASE Script
  BY <1>2, AbortDeliveredKeeps, AbortSwallowedKeeps, TickAbortsKeeps, BusyKeeps DEF Script
<1>3. CASE Watchdog
  BY <1>3, WatchdogRaisesKeeps, WatchdogRetiresKeeps, WatchdogDecidesKeeps DEF Watchdog
<1>4. CASE Client
  BY <1>4, ReceiveKeeps, CancelTaskKeeps, CancelChecksKeeps, CancelStoresKeeps, ExpireKeeps DEF Client
<1>5. CASE UNCHANGED vars
  <2>. USE <1>5 DEF vars, clientVars, runVars, pyVars
  <2>1. PyTypeOK' BY DEF PyInv, PyTypeOK
  <2>2. Received' /\ FlagUp' /\ ArmsForBudget' BY DEF PyInv, Received, FlagUp, ArmsForBudget, Budget
  <2>3. Watched' /\ Aborting' /\ ArmedOwn' BY DEF PyInv, Watched, Aborting, ArmedOwn, Budget
  <2>4. CancelJustified' /\ AbortJustified' BY DEF PyInv, CancelJustified, AbortJustified, Justified
  <2>5. Scope' BY DEF PyInv, Scope, Budget, Shared
  <2>6. AbortedInTime' /\ AbortedForAReason' BY DEF PyInv, AbortedInTime, AbortedForAReason, Budget
  <2>. QED BY <2>1, <2>2, <2>3, <2>4, <2>5, <2>6 DEF PyInv
<1>. QED BY <1>1, <1>2, <1>3, <1>4, <1>5 DEF Next

\* The inductive invariant, for any number of requests.
THEOREM PyInvariance == Spec => []PyInv
<1>. QED BY PyInitInv, PyNextInv, PTL DEF Spec

\* Types, for any number of requests, and with them that the gate is held for
\* the request that runs and for no other (FRunGate, PythonExecutor.cpp).
THEOREM PyTypeCorrect == Spec => []PyTypeOK
<1>1. PyInv => PyTypeOK BY DEF PyInv
<1>. QED BY <1>1, PyInvariance, PTL

\* An abort hits the script it is meant for, and none waits or is raised once
\* DisarmDeadline is through, so that what comes after a script is not killed:
\* where the game thread, the watchdog and the wire interleave in any way.
THEOREM AbortsTheorem == Spec => []AbortsHitTheirScript
<1>1. PyInv => AbortsHitTheirScript
  <2>. SUFFICES ASSUME PyInv PROVE AbortsHitTheirScript OBVIOUS
  <2>1. pending \in BOOLEAN /\ lock \in BOOLEAN BY DEF PyInv, PyTypeOK
  <2>2. QuietAfterScript BY <2>1 DEF PyInv, Aborting, QuietAfterScript
  <2>. QED BY <2>2 DEF PyInv, AbortsHitTheirScript
<1>. QED BY <1>1, PyInvariance, PTL

\* _restore of rider_progress drops from the shared scope nothing that was there
\* before the script, unless an abort had killed the _snapshot.
THEOREM RestoreTheorem == Spec => RestoreKeepsOlderNames
<1> DEFINE Keeps == \A n \in names \ names' : Shared(n[1]) => n = <<running, step>> \/ history.missed
<1>1. ASSUME PyInv, CleanUp PROVE Keeps
  <2>. SUFFICES ASSUME NEW n \in names, n \notin names', Shared(n[1])
                PROVE  n = <<running, step>> \/ history.missed
    OBVIOUS
  <2>1. names' \in {names, Restored, SharedNames} BY <1>1 DEF CleanUp
  <2>2. n \in SharedNames BY DEF SharedNames
  <2>3. names' = Restored /\ Shared(running) /\ result = "aborted" /\ game = "clean"
    BY <1>1, <2>2 DEF CleanUp
  <2>4. n \notin snapshot.keys BY <2>3 DEF Restored
  <2>5. Budget BY <1>1, <2>3 DEF PyInv, AbortedInTime
  <2>. QED BY <1>1, <2>3, <2>4, <2>5 DEF PyInv, Scope
<1>2. ASSUME [Next]_vars, ~CleanUp PROVE names \subseteq names'
  <2>1. Game => names \subseteq names'
    BY <1>2 DEF Game, Enter, NextScript, Arm, Snapshot, ScriptReturns, Returns, Lower, Disarm, Answer, Leave,
                Goto, runVars, pyVars
  <2>2. Script => names \subseteq names'
    BY DEF Script, AbortDelivered, AbortSwallowed, TickAborts, Busy, Returns, runVars
  <2>3. Watchdog \/ Client \/ UNCHANGED vars => names \subseteq names'
    BY DEF Watchdog, WatchdogRaises, WatchdogRetires, WatchdogDecides, Client, Receive, CancelTask,
           CancelChecks, CancelStores, Expire, vars, runVars
  <2>. QED BY <1>2, <2>1, <2>2, <2>3 DEF Next
<1>3. PyInv /\ [Next]_vars => [Keeps]_vars BY <1>1, <1>2
<1>. QED BY <1>3, PyInvariance, PTL DEF Spec, RestoreKeepsOlderNames
-----------------------------------------------------------------------------
\* What the back end will be told: the last change of isHotReloadCompiling on
\* its way w says whether the editor has told of a compile, and without one the
\* back end shows that.
Tells(w, seen, said) ==
  /\ \A i \in DOMAIN w :
       w[i] # "available" /\ (\A j \in DOMAIN w : w[j] # "available" => j <= i) => (w[i] = "begun" <=> said)
  /\ (\A i \in DOMAIN w : w[i] = "available") => (seen <=> said)

CodingTypeOK ==
  /\ links \in Nat /\ linked \in BOOLEAN
  /\ triggers \in Seq({"build", "button"}) /\ changes \in Seq({"available", "begun", "over"})
  /\ compiling \in Nat /\ compiles \in Nat /\ compile \in Nat
  /\ noticed \subseteq Nat /\ builds \in Nat /\ buttons \in Nat
  /\ offered \in BOOLEAN /\ told \in BOOLEAN /\ available \in BOOLEAN /\ shown \in BOOLEAN
  /\ build \in {"none", "waiting", "ending", "completed"}
  /\ refused \in BOOLEAN /\ crossed \in BOOLEAN /\ orphan \in BOOLEAN

\* Compiles are numbered one after the other.
CompilesInOrder == compiling <= compiles /\ compile <= compiles

\* Without a connection nothing is on its way.
OverTheWire == IF linked THEN Tells(changes, shown, told) ELSE changes = <<>>

NoEnd(w) == \A i \in DOMAIN w : w[i] = "available"
NotOver(w) == \A i \in DOMAIN w : w[i] # "over"
NoBuild(w) == \A i \in DOMAIN w : w[i] # "build"

\* The build has asked, and is the first to be heard; nothing compiles.
BuildAsked ==
  /\ compile = 0 /\ compiling = 0 /\ ~told /\ NoEnd(changes)
  /\ triggers # <<>> /\ triggers[1] = "build"
  /\ \A i \in DOMAIN triggers : i # 1 => triggers[i] # "build"

\* It was heard; while its compile lasts no end of one is on its way.
BuildCompiles ==
  /\ compile # 0 /\ NoBuild(triggers)
  /\ compile = compiling => NotOver(changes)

BuildCompiled == compile # 0 /\ compile # compiling /\ NoBuild(triggers)

BuildAlone ==
  /\ (build = "waiting" /\ ~orphan /\ ~crossed /\ ~refused) => BuildAsked \/ BuildCompiles
  /\ (build \in {"ending", "completed"} /\ ~crossed /\ ~refused) => BuildCompiled

CodingInv == CodingTypeOK /\ CompilesInOrder /\ OverTheWire /\ BuildAlone

\* The invariant holds at the start, where there is neither wire nor build.
LEMMA CodingInitInv == CodingInit => CodingInv
<1>. SUFFICES ASSUME CodingInit PROVE CodingInv OBVIOUS
<1>1. <<>> \in Seq({"build", "button"}) /\ <<>> \in Seq({"available", "begun", "over"}) OBVIOUS
<1>2. CodingTypeOK BY <1>1 DEF CodingInit, CodingTypeOK
<1>3. CompilesInOrder /\ OverTheWire /\ BuildAlone BY DEF CodingInit, CompilesInOrder, OverTheWire, BuildAlone
<1>. QED BY <1>2, <1>3 DEF CodingInv

Words == {"available", "begun", "over"}

\* A queue that a message was put on.
LEMMA Longer ==
  ASSUME NEW S, NEW w \in Seq(S), NEW m \in S
  PROVE  /\ Append(w, m) \in Seq(S) /\ Len(w) \in Nat /\ DOMAIN w = 1 .. Len(w)
         /\ DOMAIN Append(w, m) = 1 .. (Len(w) + 1)
         /\ \A i \in DOMAIN w : Append(w, m)[i] = w[i]
         /\ Append(w, m)[Len(w) + 1] = m
  OBVIOUS

\* A queue whose first message was taken.
LEMMA Shorter ==
  ASSUME NEW S, NEW w \in Seq(S), w # <<>>
  PROVE  /\ Head(w) \in S /\ Head(w) = w[1] /\ Tail(w) \in Seq(S)
         /\ Len(w) \in Nat \ {0} /\ DOMAIN w = 1 .. Len(w)
         /\ DOMAIN Tail(w) = 1 .. (Len(w) - 1)
         /\ \A i \in DOMAIN Tail(w) : Tail(w)[i] = w[i + 1]
  OBVIOUS

\* A further message is the last of its queue.
LEMMA AllOfLonger ==
  ASSUME NEW S, NEW w \in Seq(S), NEW m \in S, NEW x
  PROVE  /\ x # m /\ (\A i \in DOMAIN w : w[i] # x) => \A i \in DOMAIN Append(w, m) : Append(w, m)[i] # x
         /\ x = m /\ (\A i \in DOMAIN w : w[i] = x) => \A i \in DOMAIN Append(w, m) : Append(w, m)[i] = x
         /\ \A i \in DOMAIN Append(w, m) : i = Len(w) + 1 \/ (i \in DOMAIN w /\ Append(w, m)[i] = w[i])
<1>. DEFINE W == Append(w, m)
<1>1. /\ Len(w) \in Nat /\ DOMAIN w = 1 .. Len(w) /\ DOMAIN W = 1 .. (Len(w) + 1)
      /\ \A i \in DOMAIN w : W[i] = w[i]
      /\ W[Len(w) + 1] = m
  BY Longer
<1>. HIDE DEF W
<1>2. \A i \in DOMAIN W : i = Len(w) + 1 \/ (i \in DOMAIN w /\ W[i] = w[i]) BY <1>1
<1>. QED BY <1>1, <1>2 DEF W

\* What the rest of a queue holds, the queue held.
LEMMA AllOfShorter ==
  ASSUME NEW S, NEW w \in Seq(S), w # <<>>
  PROVE  /\ \A i \in DOMAIN Tail(w) : i \in Int /\ i + 1 \in DOMAIN w /\ i + 1 # 1 /\ Tail(w)[i] = w[i + 1]
         /\ \A i \in DOMAIN w : i \in Int /\ (i # 1 => i - 1 \in DOMAIN Tail(w) /\ Tail(w)[i - 1] = w[i])
         /\ 1 \in DOMAIN w /\ Head(w) = w[1] /\ Head(w) \in S /\ Tail(w) \in Seq(S)
<1>. DEFINE W == Tail(w)
<1>1. /\ Len(w) \in Nat \ {0} /\ DOMAIN w = 1 .. Len(w) /\ DOMAIN W = 1 .. (Len(w) - 1)
      /\ \A i \in DOMAIN W : W[i] = w[i + 1]
      /\ Head(w) = w[1] /\ Head(w) \in S /\ W \in Seq(S)
  BY Shorter
<1>. HIDE DEF W
<1>2. \A i \in DOMAIN W : i \in Int /\ i + 1 \in DOMAIN w /\ i + 1 # 1 /\ W[i] = w[i + 1] BY <1>1
<1>3. \A i \in DOMAIN w : i \in Int /\ (i # 1 => i - 1 \in DOMAIN W /\ W[i - 1] = w[i]) BY <1>1
<1>. QED BY <1>1, <1>2, <1>3 DEF W

\* The last word of what is on its way, after one more ...
LEMMA TellsLonger ==
  ASSUME NEW w \in Seq(Words), NEW m \in Words, NEW seen \in BOOLEAN, NEW said \in BOOLEAN, Tells(w, seen, said)
  PROVE  Tells(Append(w, m), seen, IF m = "available" THEN said ELSE m = "begun")
<1>. DEFINE W == Append(w, m)  n == Len(w) + 1
<1>1. /\ Len(w) \in Nat /\ DOMAIN w = 1 .. Len(w) /\ DOMAIN W = 1 .. (Len(w) + 1)
      /\ \A i \in DOMAIN w : W[i] = w[i]
      /\ W[Len(w) + 1] = m
  BY Longer
<1>. HIDE DEF W
<1>2. /\ n \in DOMAIN W /\ W[n] = m /\ \A i \in DOMAIN w : i \in DOMAIN W /\ W[i] = w[i] /\ i < n
      /\ \A i \in DOMAIN W : i = n \/ (i \in DOMAIN w /\ W[i] = w[i])
  BY <1>1
<1>3. CASE m = "available"
  <2>1. \A i \in DOMAIN W : W[i] # "available" => i \in DOMAIN w /\ W[i] = w[i] BY <1>2, <1>3
  <2>2. Tells(W, seen, said) BY <1>2, <2>1 DEF Tells
  <2>. QED BY <2>2, <1>3 DEF W
<1>4. CASE m # "available"
  <2>1. \A i \in DOMAIN W : (\A j \in DOMAIN W : W[j] # "available" => j <= i) => i = n
    BY <1>2, <1>4, <1>1
  <2>2. Tells(W, seen, m = "begun") BY <1>2, <1>4, <2>1 DEF Tells
  <2>. QED BY <2>2, <1>4 DEF W
<1>. QED BY <1>3, <1>4

\* ... and when the first has come.
LEMMA TellsShorter ==
  ASSUME NEW w \in Seq(Words), w # <<>>, NEW seen \in BOOLEAN, NEW said \in BOOLEAN, Tells(w, seen, said)
  PROVE  Tells(Tail(w), IF Head(w) = "available" THEN seen ELSE Head(w) = "begun", said)
<1>. DEFINE W == Tail(w)  s == IF Head(w) = "available" THEN seen ELSE Head(w) = "begun"
<1>1. /\ \A i \in DOMAIN W : i \in Int /\ i + 1 \in DOMAIN w /\ i + 1 # 1 /\ W[i] = w[i + 1]
      /\ \A i \in DOMAIN w : i \in Int /\ (i # 1 => i - 1 \in DOMAIN W /\ W[i - 1] = w[i])
      /\ 1 \in DOMAIN w /\ Head(w) = w[1]
      /\ \A i \in DOMAIN W : i >= 1
  BY AllOfShorter, Shorter
<1>. HIDE DEF W
<1>2. ASSUME NEW i \in DOMAIN W, W[i] # "available", \A j \in DOMAIN W : W[j] # "available" => j <= i
      PROVE  W[i] = "begun" <=> said
  <2>1. i + 1 \in DOMAIN w /\ w[i + 1] = W[i] BY <1>1
  <2>2. ASSUME NEW j \in DOMAIN w, w[j] # "available" PROVE j <= i + 1
    <3>1. CASE j = 1 BY <3>1, <1>1
    <3>2. CASE j # 1
      <4>1. j - 1 \in DOMAIN W /\ W[j - 1] # "available" BY <3>2, <2>2, <1>1
      <4>2. j - 1 <= i BY <4>1, <1>2
      <4>. QED BY <4>2, <1>1
    <3>. QED BY <3>1, <3>2
  <2>. QED BY <2>1, <2>2, <1>2 DEF Tells
<1>3. ASSUME \A i \in DOMAIN W : W[i] = "available" PROVE s <=> said
  <2>1. \A j \in DOMAIN w : w[j] # "available" => j = 1 BY <1>1, <1>3
  <2>2. CASE w[1] = "available"
    <3>1. \A j \in DOMAIN w : w[j] = "available" BY <2>1, <2>2
    <3>. QED BY <3>1, <2>2, <1>1 DEF Tells
  <2>3. CASE w[1] # "available"
    <3>1. \A j \in DOMAIN w : w[j] # "available" => j <= 1 BY <2>1
    <3>2. w[1] = "begun" <=> said BY <3>1, <2>3, <1>1 DEF Tells
    <3>. QED BY <3>2, <2>3, <1>1
  <2>. QED BY <2>2, <2>3
<1>. HIDE DEF s
<1>4. Tells(W, s, said) BY <1>2, <1>3 DEF Tells
<1>. QED BY <1>4 DEF W, s

\* A tick puts at most two changes on their way, the second about compiling.
LEMMA TickSends ==
  ASSUME CodingTypeOK, Tick
  PROVE  \E mid \in Seq(Words) :
           /\ mid = changes \/ mid = Append(changes, "available")
           /\ changes' = IF told = (compiling # 0) THEN mid
                         ELSE Append(mid, IF compiling # 0 THEN "begun" ELSE "over")
<1>1. changes \in Seq(Words) BY DEF CodingTypeOK, Words
<1>. DEFINE first == IF offered THEN <<>> ELSE <<"available">>
            second == IF told = (compiling # 0) THEN <<>>
                      ELSE IF compiling # 0 THEN <<"begun">> ELSE <<"over">>
            mid == IF offered THEN changes ELSE Append(changes, "available")
<1>2. changes' = changes \o (first \o second) BY DEF Tick, Changed
<1>3. first \in Seq(Words) /\ second \in Seq(Words)
  <2>1. \A x \in Words : <<x>> \in Seq(Words) OBVIOUS
  <2>2. <<>> \in Seq(Words) OBVIOUS
  <2>. QED BY <2>1, <2>2 DEF Words
<1>4. changes \o (first \o second) = (changes \o first) \o second
  <2>. HIDE DEF first, second
  <2>. QED BY <1>1, <1>3, ConcatAssociative
<1>5. changes \o first = mid BY <1>1, AppendIsConcat, ConcatEmptySeq DEF Words
<1>6. mid \in Seq(Words) BY <1>1 DEF Words
<1>7. mid \o second = IF told = (compiling # 0) THEN mid
                      ELSE Append(mid, IF compiling # 0 THEN "begun" ELSE "over")
  <2>. HIDE DEF mid
  <2>1. mid \o <<>> = mid BY <1>6
  <2>2. mid \o <<"begun">> = Append(mid, "begun") /\ mid \o <<"over">> = Append(mid, "over")
    BY <1>6, AppendIsConcat DEF Words
  <2>. QED BY <2>1, <2>2
<1>. QED BY <1>2, <1>4, <1>5, <1>6, <1>7


\* Every step keeps the types.
LEMMA CodingTyped == ASSUME CodingTypeOK, CodingNext PROVE CodingTypeOK'
<1>1. ResetModel \/ Drop \/ CreateProtocols => CodingTypeOK'
  <2>1. <<>> \in Seq({"build", "button"}) /\ <<>> \in Seq({"available", "begun", "over"}) OBVIOUS
  <2>2. ASSUME ResetModel PROVE CodingTypeOK'
    <3>1. links' \in Nat /\ linked' \in BOOLEAN BY <2>2 DEF CodingTypeOK, ResetModel
    <3>2. /\ offered' \in BOOLEAN /\ told' \in BOOLEAN /\ available' \in BOOLEAN /\ shown' \in BOOLEAN
      BY <2>2 DEF ResetModel
    <3>3. triggers' = triggers /\ changes' = changes /\ builds' = builds
      BY <2>2 DEF ResetModel, engineVars, buildVars
    <3>4. /\ noticed' = noticed /\ compiling' = compiling /\ compiles' = compiles /\ compile' = compile
          /\ buttons' = buttons /\ build' = build /\ refused' = refused /\ crossed' = crossed /\ orphan' = orphan
      BY <2>2 DEF ResetModel, engineVars, buildVars
    <3>. QED BY <3>1, <3>2, <3>3, <3>4 DEF CodingTypeOK
  <2>3. ASSUME LoseModel PROVE linked' \in BOOLEAN /\ orphan' \in BOOLEAN BY <2>3 DEF CodingTypeOK, LoseModel
  <2>4. Drop => CodingTypeOK' BY <2>1, <2>3 DEF CodingTypeOK, Drop, LoseModel, engineVars
  <2>5. CreateProtocols => CodingTypeOK' BY <2>1, <2>3 DEF CodingTypeOK, CreateProtocols, LoseModel, engineVars
  <2>. QED BY <2>2, <2>4, <2>5
<1>2. ExecuteBuildRequest \/ PressButton => CodingTypeOK'
  <2>1. \A x \in {"build", "button"} : Append(triggers, x) \in Seq({"build", "button"})
    BY Longer DEF CodingTypeOK
  <2>2. ASSUME ExecuteBuildRequest PROVE CodingTypeOK'
    <3>1. crossed' \in BOOLEAN BY <2>2 DEF ExecuteBuildRequest
    <3>2. triggers' \in Seq({"build", "button"}) BY <2>1, <2>2 DEF ExecuteBuildRequest
    <3>3. builds' \in Nat /\ compile' \in Nat BY <2>2 DEF CodingTypeOK, ExecuteBuildRequest
    <3>. QED BY <2>2, <3>1, <3>2, <3>3 DEF CodingTypeOK, ExecuteBuildRequest, linkVars, engineVars
  <2>3. ASSUME PressButton PROVE CodingTypeOK'
    <3>1. triggers' \in Seq({"build", "button"}) BY <2>1, <2>3 DEF CodingTypeOK, PressButton
    <3>. QED BY <2>3, <3>1 DEF CodingTypeOK, PressButton, linkVars, engineVars, buildVars
  <2>. QED BY <2>2, <2>3
<1>3. ASSUME TriggerHotReload PROVE CodingTypeOK'
  <2>1. Tail(triggers) \in Seq({"build", "button"}) BY <1>3, Shorter DEF CodingTypeOK, TriggerHotReload
  <2>2. compiling' \in Nat /\ compiles' \in Nat /\ compile' \in Nat
    BY <1>3 DEF CodingTypeOK, TriggerHotReload
  <2>3. refused' \in BOOLEAN BY <1>3 DEF CodingTypeOK, TriggerHotReload
  <2>. QED BY <1>3, <2>1, <2>2, <2>3 DEF CodingTypeOK, TriggerHotReload, linkVars
<1>4. CompileEnds \/ Complete => CodingTypeOK'
  <2>1. CompileEnds => CodingTypeOK' BY DEF CodingTypeOK, CompileEnds, linkVars, buildVars
  <2>2. Complete => CodingTypeOK' BY DEF CodingTypeOK, Complete, linkVars, engineVars
  <2>. QED BY <2>1, <2>2
<1>5. ASSUME Tick PROVE CodingTypeOK'
  <2>1. changes' \in Seq(Words)
    <3>1. PICK mid \in Seq(Words) :
            changes' = IF told = (compiling # 0) THEN mid
                       ELSE Append(mid, IF compiling # 0 THEN "begun" ELSE "over")
      BY <1>5, TickSends
    <3>2. Append(mid, "begun") \in Seq(Words) /\ Append(mid, "over") \in Seq(Words) BY Longer DEF Words
    <3>. QED BY <3>1, <3>2
  <2>. QED BY <1>5, <2>1 DEF CodingTypeOK, Tick, Words, linkVars, buildVars
<1>6. ASSUME ReceiveChange PROVE CodingTypeOK'
  <2>1. Tail(changes) \in Seq({"available", "begun", "over"}) BY <1>6, Shorter DEF CodingTypeOK, ReceiveChange
  <2>2. available' \in BOOLEAN /\ shown' \in BOOLEAN /\ build' \in {"none", "waiting", "ending", "completed"}
    BY <1>6 DEF CodingTypeOK, ReceiveChange
  <2>. QED BY <1>6, <2>1, <2>2 DEF CodingTypeOK, ReceiveChange, linkVars, engineVars
<1>. QED BY <1>1, <1>2, <1>3, <1>4, <1>5, <1>6 DEF CodingNext, EngineGoesOn

\* A connection begins and ends with nothing on its way; a build that waits
\* loses its listener with it.
LEMMA ConnectionKeeps ==
  ASSUME CodingInv, ResetModel \/ Drop \/ CreateProtocols
  PROVE  CompilesInOrder' /\ OverTheWire' /\ BuildAlone'
<1>1. CASE ResetModel
  <2>1. changes' = <<>> /\ changes = <<>> BY <1>1 DEF ResetModel, CodingInv, OverTheWire
  <2>2. OverTheWire' BY <1>1, <2>1 DEF ResetModel, OverTheWire, Tells
  <2>3. BuildAlone'
    BY <1>1, <2>1 DEF ResetModel, CodingInv, BuildAlone, BuildAsked, BuildCompiles, BuildCompiled,
                      engineVars, buildVars
  <2>. QED BY <1>1, <2>2, <2>3 DEF ResetModel, CodingInv, CompilesInOrder, engineVars, buildVars
<1>2. CASE Drop \/ CreateProtocols
  <2>1. LoseModel BY <1>2 DEF Drop, CreateProtocols
  <2>2. OverTheWire' BY <2>1 DEF LoseModel, OverTheWire
  <2>3. BuildAlone'
    <3>1. build' = build /\ (build = "waiting" => orphan') BY <2>1 DEF LoseModel
    <3>2. BuildCompiled => BuildCompiled' BY <2>1 DEF LoseModel, BuildCompiled, NoBuild, engineVars
    <3>3. crossed' = crossed /\ refused' = refused BY <2>1 DEF LoseModel
    <3>. QED BY <3>1, <3>2, <3>3 DEF CodingInv, BuildAlone
  <2>. QED BY <2>1, <2>2, <2>3 DEF LoseModel, CodingInv, CompilesInOrder, engineVars
<1>. QED BY <1>1, <1>2

\* A build that crosses nothing is the only trigger, and is told of no compile.
LEMMA RequestKeeps ==
  ASSUME CodingInv, ExecuteBuildRequest
  PROVE  CompilesInOrder' /\ OverTheWire' /\ BuildAlone'
<1>1. ASSUME ~crossed' PROVE BuildAsked'
  <2>1. ~shown /\ compiling = 0 /\ triggers = <<>> /\ changes = <<>>
    BY <1>1 DEF ExecuteBuildRequest, CodingInv, CodingTypeOK
  <2>2. ~told BY <2>1 DEF ExecuteBuildRequest, CodingInv, OverTheWire, Tells
  <2>3. triggers' = <<"build">> BY <2>1 DEF ExecuteBuildRequest
  <2>. QED BY <2>1, <2>2, <2>3 DEF ExecuteBuildRequest, BuildAsked, NoEnd, engineVars
<1>2. BuildAlone' BY <1>1 DEF ExecuteBuildRequest, BuildAlone
<1>. QED BY <1>2 DEF ExecuteBuildRequest, CodingInv, CodingTypeOK, CompilesInOrder, OverTheWire, linkVars, engineVars

\* The button comes behind a build that has asked.
LEMMA ButtonKeeps ==
  ASSUME CodingInv, PressButton
  PROVE  CompilesInOrder' /\ OverTheWire' /\ BuildAlone'
<1>1. triggers' = triggers \/ triggers' = Append(triggers, "button") BY DEF PressButton
<1>2. triggers \in Seq({"build", "button"}) BY DEF CodingInv, CodingTypeOK
<1>3. NoBuild(triggers) => NoBuild(triggers') BY <1>1, <1>2, AllOfLonger DEF NoBuild
<1>4. ASSUME BuildAsked PROVE BuildAsked'
  <2>. SUFFICES ASSUME triggers' = Append(triggers, "button") PROVE BuildAsked'
    BY <1>1, <1>4 DEF BuildAsked, PressButton, engineVars, buildVars
  <2>1. triggers' # <<>> /\ triggers'[1] = "build"
    BY <1>2, <1>4 DEF BuildAsked
  <2>2. /\ \A i \in DOMAIN triggers' : i = Len(triggers) + 1 \/ (i \in DOMAIN triggers /\ triggers'[i] = triggers[i])
        /\ triggers'[Len(triggers) + 1] = "button"
    BY <1>2, AllOfLonger, Longer
  <2>3. \A i \in DOMAIN triggers' : i # 1 => triggers'[i] # "build" BY <2>2, <1>4 DEF BuildAsked
  <2>. QED BY <2>1, <2>3, <1>4 DEF BuildAsked, PressButton, engineVars, buildVars
<1>5. BuildAlone'
  BY <1>3, <1>4 DEF PressButton, CodingInv, BuildAlone, BuildCompiles, BuildCompiled, engineVars, buildVars
<1>. QED BY <1>5 DEF PressButton, CodingInv, CompilesInOrder, OverTheWire, linkVars, engineVars, buildVars

\* The editor hears the build first; a compile for it has a number of its own.
LEMMA TriggerKeeps ==
  ASSUME CodingInv, TriggerHotReload
  PROVE  CompilesInOrder' /\ OverTheWire' /\ BuildAlone'
<1>1. /\ triggers \in Seq({"build", "button"}) /\ triggers # <<>> /\ triggers' = Tail(triggers)
      /\ compiling \in Nat /\ compiles \in Nat /\ compile \in Nat /\ compiling <= compiles /\ compile <= compiles
  BY DEF CodingInv, CodingTypeOK, TriggerHotReload, CompilesInOrder
<1>2. /\ \A i \in DOMAIN triggers' : i + 1 \in DOMAIN triggers /\ i + 1 # 1 /\ triggers'[i] = triggers[i + 1]
      /\ Head(triggers) = triggers[1] /\ 1 \in DOMAIN triggers
  BY <1>1, AllOfShorter
<1>3. CompilesInOrder' BY <1>1 DEF TriggerHotReload, CompilesInOrder
<1>4. OverTheWire' BY DEF TriggerHotReload, CodingInv, OverTheWire, linkVars
<1>5. NoBuild(triggers) => NoBuild(triggers') /\ Head(triggers) # "build" BY <1>2 DEF NoBuild
<1>6. ASSUME BuildAsked, ~refused' PROVE BuildCompiles'
  <2>1. Head(triggers) = "build" /\ compiling = 0 BY <1>2, <1>6 DEF BuildAsked
  <2>2. compile' = compiles + 1 BY <1>6, <2>1 DEF TriggerHotReload
  <2>3. NoBuild(triggers') BY <1>2, <1>6 DEF BuildAsked, NoBuild
  <2>4. NotOver(changes') BY <1>6 DEF BuildAsked, NoEnd, NotOver, TriggerHotReload
  <2>. QED BY <1>1, <2>2, <2>3, <2>4 DEF BuildCompiles
<1>7. ASSUME BuildCompiles PROVE BuildCompiles'
  <2>1. NoBuild(triggers') /\ compile' = compile /\ changes' = changes
    BY <1>5, <1>7 DEF BuildCompiles, TriggerHotReload
  <2>2. compile' = compiling' => compile = compiling BY <1>1, <1>7, <2>1 DEF BuildCompiles, TriggerHotReload
  <2>. QED BY <1>7, <2>1, <2>2 DEF BuildCompiles
<1>8. ASSUME BuildCompiled PROVE BuildCompiled'
  <2>1. NoBuild(triggers') /\ compile' = compile BY <1>5, <1>8 DEF BuildCompiled, TriggerHotReload
  <2>2. compile' # compiling' BY <1>1, <1>8, <2>1 DEF BuildCompiled, TriggerHotReload
  <2>. QED BY <1>8, <2>1, <2>2 DEF BuildCompiled
<1>9. (refused => refused') /\ build' = build /\ orphan' = orphan /\ crossed' = crossed
  <2>1. refused' = refused \/ refused' = (refused \/ Head(triggers) = "build") BY Zenon DEF TriggerHotReload
  <2>2. build' = build /\ orphan' = orphan /\ crossed' = crossed BY DEF TriggerHotReload
  <2>3. refused \in BOOLEAN BY DEF CodingInv, CodingTypeOK
  <2>. QED BY <2>1, <2>2, <2>3
<1>10. BuildAlone' BY <1>6, <1>7, <1>8, <1>9 DEF CodingInv, BuildAlone
<1>. QED BY <1>3, <1>4, <1>10

\* A compile ends before the back end hears of it.
LEMMA CompileEndsKeeps ==
  ASSUME CodingInv, CompileEnds
  PROVE  CompilesInOrder' /\ OverTheWire' /\ BuildAlone'
<1>1. CompilesInOrder' BY DEF CompileEnds, CodingInv, CodingTypeOK, CompilesInOrder, buildVars
<1>2. OverTheWire' BY DEF CompileEnds, CodingInv, OverTheWire, linkVars
<1>3. BuildAlone'
  BY DEF CompileEnds, CodingInv, BuildAlone, BuildAsked, BuildCompiles, BuildCompiled, buildVars
<1>. QED BY <1>1, <1>2, <1>3

\* A tick tells of no end before the build's compile has ended.
LEMMA TickKeeps ==
  ASSUME CodingInv, Tick
  PROVE  CompilesInOrder' /\ OverTheWire' /\ BuildAlone'
<1>1. /\ changes \in Seq(Words) /\ told \in BOOLEAN /\ shown \in BOOLEAN /\ compiling \in Nat
      /\ Tells(changes, shown, told)
  BY DEF CodingInv, CodingTypeOK, OverTheWire, Tick, Words
<1>. DEFINE said == (compiling # 0)  word == IF compiling # 0 THEN "begun" ELSE "over"
<1>2. CodingTypeOK BY DEF CodingInv
<1>3. PICK mid \in Seq(Words) :
        /\ mid = changes \/ mid = Append(changes, "available")
        /\ changes' = IF told = said THEN mid ELSE Append(mid, word)
  BY <1>2, TickSends
<1>4. "available" \in Words /\ word \in Words /\ word # "available" /\ (word = "begun" <=> said) /\ said \in BOOLEAN
  BY DEF Words
<1>5. Tells(mid, shown, told) BY <1>1, <1>3, <1>4, TellsLonger
<1>6. told' = said /\ shown' = shown /\ linked' = linked BY DEF Tick, linkVars
<1>7. (word = "over" <=> ~said) /\ (said <=> compiling # 0) OBVIOUS
<1>. HIDE DEF said, word
<1>8. Tells(Append(mid, word), shown, said)
  <2>1. Tells(Append(mid, word), shown, IF word = "available" THEN told ELSE word = "begun")
    BY <1>1, <1>3, <1>4, <1>5, TellsLonger
  <2>2. (word = "begun") = said BY <1>4
  <2>. QED BY <2>1, <2>2, <1>4
<1>9. OverTheWire' BY <1>3, <1>5, <1>6, <1>8 DEF OverTheWire, Tick
<1>10. /\ NoEnd(changes) => NoEnd(mid)
       /\ NotOver(changes) => NotOver(mid)
       /\ NotOver(mid) /\ word # "over" => NotOver(Append(mid, word))
  <2>1. NoEnd(changes) => NoEnd(Append(changes, "available")) BY <1>1, <1>4, AllOfLonger DEF NoEnd
  <2>2. NotOver(changes) => NotOver(Append(changes, "available")) BY <1>1, <1>4, AllOfLonger DEF NotOver
  <2>3. NotOver(mid) /\ word # "over" => NotOver(Append(mid, word)) BY <1>4, AllOfLonger DEF NotOver
  <2>. QED BY <1>3, <2>1, <2>2, <2>3
<1>11. UNCHANGED <<triggers, compiling, compiles, buildVars>> BY DEF Tick
<1>12. BuildAsked => BuildAsked'
  <2>. SUFFICES ASSUME BuildAsked PROVE BuildAsked' OBVIOUS
  <2>1. ~said /\ ~told BY <1>7 DEF BuildAsked
  <2>2. changes' = mid BY <2>1, <1>1, <1>3, <1>4
  <2>. QED BY <2>1, <2>2, <1>6, <1>10, <1>11 DEF BuildAsked, buildVars
<1>13. BuildCompiles => BuildCompiles'
  <2>. SUFFICES ASSUME BuildCompiles PROVE BuildCompiles' OBVIOUS
  <2>1. ASSUME compile = compiling PROVE NotOver(changes')
    <3>1. said /\ word # "over" BY <2>1, <1>7 DEF BuildCompiles
    <3>. QED BY <3>1, <2>1, <1>3, <1>10 DEF BuildCompiles
  <2>. QED BY <2>1, <1>11 DEF BuildCompiles, buildVars
<1>14. BuildAlone' BY <1>11, <1>12, <1>13 DEF CodingInv, BuildAlone, BuildCompiled, buildVars
<1>15. CompilesInOrder' BY <1>11 DEF CodingInv, CompilesInOrder, buildVars
<1>. QED BY <1>9, <1>14, <1>15

\* The end that ends a build is that of its own compile.
LEMMA ReceiveChangeKeeps ==
  ASSUME CodingInv, ReceiveChange
  PROVE  CompilesInOrder' /\ OverTheWire' /\ BuildAlone'
<1>1. /\ changes \in Seq(Words) /\ changes # <<>> /\ changes' = Tail(changes) /\ told \in BOOLEAN /\ shown \in BOOLEAN
  BY DEF CodingInv, CodingTypeOK, ReceiveChange, Words
<1>2. linked /\ Tells(changes, shown, told) BY <1>1 DEF CodingInv, OverTheWire
<1>3. /\ \A i \in DOMAIN changes' : i + 1 \in DOMAIN changes /\ changes'[i] = changes[i + 1]
      /\ Head(changes) = changes[1] /\ 1 \in DOMAIN changes
  BY <1>1, AllOfShorter
<1>4. shown' = (IF Head(changes) = "available" THEN shown ELSE Head(changes) = "begun")
  BY DEF ReceiveChange
<1>5. OverTheWire' BY <1>1, <1>2, <1>4, TellsShorter DEF OverTheWire, ReceiveChange, linkVars
<1>6. /\ NoEnd(changes) => NoEnd(changes') /\ Head(changes) # "over"
      /\ NotOver(changes) => NotOver(changes') /\ Head(changes) # "over"
  BY <1>3 DEF NoEnd, NotOver
<1>7. UNCHANGED <<triggers, engineVars, told, compile, refused, crossed, orphan>> BY DEF ReceiveChange
<1>8. BuildAsked => BuildAsked' BY <1>6, <1>7 DEF BuildAsked, engineVars
<1>9. BuildCompiles => BuildCompiles' BY <1>6, <1>7 DEF BuildCompiles, engineVars
<1>10. BuildCompiled => BuildCompiled' BY <1>7 DEF BuildCompiled, engineVars
<1>11. BuildAlone'
  <2>1. CASE build' = build BY <2>1, <1>7, <1>8, <1>9, <1>10 DEF CodingInv, BuildAlone
  <2>2. CASE build' # build
    <3>1. build = "waiting" /\ build' = "ending" /\ ~orphan /\ Head(changes) = "over"
      BY <2>2 DEF ReceiveChange, Ends
    <3>2. BuildAsked \/ BuildCompiles => BuildCompiled
      BY <3>1, <1>6 DEF BuildAsked, BuildCompiles, BuildCompiled
    <3>. QED BY <3>1, <3>2, <1>7, <1>10 DEF CodingInv, BuildAlone
  <2>. QED BY <2>1, <2>2
<1>12. CompilesInOrder' BY <1>7 DEF CodingInv, CompilesInOrder, engineVars
<1>. QED BY <1>5, <1>11, <1>12

\* Every step keeps the invariant.
LEMMA CodingNextInv == CodingInv /\ [CodingNext]_codingVars => CodingInv'
<1>. SUFFICES ASSUME CodingInv, [CodingNext]_codingVars PROVE CodingInv' OBVIOUS
<1>1. CASE CodingNext
  <2>1. CodingTypeOK' BY <1>1, CodingTyped DEF CodingInv
  <2>2. Complete => CompilesInOrder' /\ OverTheWire' /\ BuildAlone'
    BY DEF Complete, CodingInv, CompilesInOrder, OverTheWire, BuildAlone, BuildCompiled, linkVars, engineVars
  <2>3. CompilesInOrder' /\ OverTheWire' /\ BuildAlone'
    BY <1>1, <2>2, ConnectionKeeps, RequestKeeps, ButtonKeeps, TriggerKeeps, CompileEndsKeeps, TickKeeps,
       ReceiveChangeKeeps DEF CodingNext, EngineGoesOn
  <2>. QED BY <2>1, <2>3 DEF CodingInv
<1>2. CASE UNCHANGED codingVars
  BY <1>2 DEF codingVars, linkVars, engineVars, buildVars, CodingInv, CodingTypeOK, CompilesInOrder,
              OverTheWire, BuildAlone, BuildAsked, BuildCompiles, BuildCompiled
<1>. QED BY <1>1, <1>2

\* The inductive invariant, for any number of connections, builds and uses of
\* the button.
THEOREM CodingInvariance == CodingSpec => []CodingInv
<1>. QED BY CodingInitInv, CodingNextInv, PTL DEF CodingSpec

\* Types, for any number of them.
THEOREM CodingTypeCorrect == CodingSpec => []CodingTypeOK
<1>1. CodingInv => CodingTypeOK BY DEF CodingInv
<1>. QED BY <1>1, CodingInvariance, PTL

\* A build that crossed nothing and was not refused is taken for completed only
\* when its own compile has ended (UnrealLiveCodingBuildRunner.cs:55-72).
THEOREM CompletedTheorem == CodingSpec => []CompletedOnceCompiledUnlessCrossed
<1>1. CodingInv => CompletedOnceCompiledUnlessCrossed
  BY DEF CodingInv, CodingTypeOK, BuildAlone, BuildCompiled, CompletedOnceCompiledUnlessCrossed
<1>. QED BY <1>1, CodingInvariance, PTL
=================================================================================
