----------------------- MODULE ByteBufferAsyncProcessor -----------------------
(***************************************************************************)
(* The sending half of a socket wire: rd_framework_cpp's                   *)
(* ByteBufferAsyncProcessor, driven by the wire thread of SocketWire::Base *)
(* (constructor, set_socket_provider, acknowledgements) on one side, by    *)
(* the callers of put on another and by the lifetime that stops it.        *)
(*                                                                         *)
(* A package is identified by its position in the order of put: the n-th   *)
(* package ever accepted is n.  The bytes of a package are left out.       *)
(*                                                                         *)
(* Locks.  The code has three mutexes.  A section that takes `lock' and    *)
(* releases it without waiting for anything is one action.  The wire       *)
(* thread is the only one that waits for something while it holds `lock'   *)
(* (in resume, acknowledge and pause), so `lock' is free exactly when the  *)
(* wire thread is outside those sections: LockFree.  queue_lock and        *)
(* processing_lock are held together, by process on the async thread and   *)
(* by reprocess on the wire thread: ProcessingFree, ReprocessingFree.      *)
(***************************************************************************)
EXTENDS Naturals, Sequences

CONSTANTS
  MaxPut,      \* bound: how many packages are ever put
  MaxChunks    \* bound: into how many packages one put may be split

ASSUME BoundsAssumption == MaxPut \in Nat /\ MaxChunks \in Nat \ {0}

VARIABLES
  state,              \* StateKind
  data,               \* packages put, not yet taken by the async thread
  queue,              \* packages taken, not yet transmitted
  pending_queue,      \* packages transmitted, not yet acknowledged
  max_sent_seqn,      \* number given to the last package moved to pending
  current_seqn,       \* number of the first package of pending_queue
  acknowledged_seqn,
  interrupt_balance,
  asyncPc,            \* where ThreadProc is
  notified,           \* cv was notified since ThreadProc began to wait on it
  wirePc,             \* where the wire thread is
  resent,             \* the index i of the loop of reprocess
  joining,            \* targets of the stop/terminate calls waiting for the thread
  usable,             \* writes to the current socket succeed so far
  sent,               \* history: numbers transmitted on the current socket
  overtaken,          \* history: a package overtook the retransmission on it
  accepted            \* history: how many packages put has accepted

senderVars == <<data, queue, pending_queue, max_sent_seqn, current_seqn,
                acknowledged_seqn>>
threadVars == <<asyncPc, notified, wirePc, resent, joining>>
socketVars == <<usable, sent, overtaken>>
processorVars == <<state, senderVars, interrupt_balance, threadVars, socketVars,
                   accepted>>

\* StateKind, in declaration order: the code compares these with >=.
Initialized     == 0
AsyncProcessing == 1
Stopping        == 2
Terminating     == 3
Terminated      == 4

\* ThreadProc: before the `if' under lock, inside cv.wait, between releasing
\* lock and process(), inside process() holding queue_lock, returned.
AsyncPcs == {"none", "check", "waiting", "process", "sending", "exited"}

\* The wire thread: constructor, disconnected, socket replaced but resume not
\* begun, the three sections that hold `lock', and receiverProc ("online").
WirePcs == {"ctor", "starting", "offline", "connecting", "resuming", "resending",
            "online", "acking", "pausing"}

LockFree == wirePc \notin {"resuming", "resending", "acking", "pausing"}
ProcessingFree   == asyncPc # "sending"      \* process() is not running
ReprocessingFree == wirePc # "resending"     \* reprocess() is not running

\* cv.notify_all: only ThreadProc waits on cv.
Notify == notified' = (notified \/ asyncPc = "waiting")

\* What makes ThreadProc wait: no work, or the processor is paused.
Blocked == (data = <<>> /\ queue = <<>>) \/ interrupt_balance # 0

Init ==
  /\ state = Initialized
  /\ data = <<>> /\ queue = <<>> /\ pending_queue = <<>>
  /\ max_sent_seqn = 0 /\ current_seqn = 1 /\ acknowledged_seqn = 0
  /\ interrupt_balance = 0
  /\ asyncPc = "none" /\ notified = FALSE
  /\ wirePc = "ctor" /\ resent = 0
  /\ joining = {}
  /\ usable = FALSE /\ sent = <<>> /\ overtaken = FALSE
  /\ accepted = 0

-------------------------------------------------------------------------------
(* Callers of send: any thread.                                            *)

\* put: ignored from Stopping on, otherwise a message becomes `chunks' packages.
Put(chunks) ==
  /\ wirePc \notin {"ctor", "starting"}
  /\ LockFree
  /\ state < Stopping
  /\ accepted + chunks <= MaxPut
  /\ data' = data \o [i \in 1 .. chunks |-> accepted + i]
  /\ accepted' = accepted + chunks
  /\ Notify
  /\ UNCHANGED <<state, queue, pending_queue, max_sent_seqn, current_seqn,
                 acknowledged_seqn, interrupt_balance, asyncPc, wirePc, resent,
                 joining, socketVars>>

-------------------------------------------------------------------------------
(* The async thread.                                                       *)

\* `return' under lock: terminated, or nothing can be done and a stop was asked.
AsyncExit ==
  /\ asyncPc = "check" /\ LockFree
  /\ state >= Terminated \/ (Blocked /\ state >= Stopping)
  /\ asyncPc' = "exited"
  /\ UNCHANGED <<state, senderVars, interrupt_balance, notified, wirePc, resent,
                 joining, socketVars, accepted>>

AsyncWait ==
  /\ asyncPc = "check" /\ LockFree
  /\ Blocked /\ state < Stopping
  /\ asyncPc' = "waiting" /\ notified' = FALSE
  /\ UNCHANGED <<state, senderVars, interrupt_balance, wirePc, resent, joining,
                 socketVars, accepted>>

\* cv.wait returns: after a notification, or spuriously.  (The loop's condition is
\* looked at again in the next step, under the same hold of `lock' in the code.)
AsyncWake ==
  /\ asyncPc = "waiting" /\ LockFree
  /\ asyncPc' = IF state >= Terminating THEN "exited" ELSE "check"
  /\ UNCHANGED <<state, senderVars, interrupt_balance, notified, wirePc, resent,
                 joining, socketVars, accepted>>

\* (Broken: add_data copies the queue instead of moving it out.)
AsyncTakeCopies ==
  /\ asyncPc = "check" /\ LockFree
  /\ ~Blocked /\ state < Terminated
  /\ queue' = queue \o data
  /\ asyncPc' = "process"
  /\ UNCHANGED <<state, data, pending_queue, max_sent_seqn, current_seqn,
                 acknowledged_seqn, interrupt_balance, notified, wirePc, resent,
                 joining, socketVars, accepted>>

\* add_data, and `lock' is released: interrupt_balance is not looked at again.
AsyncTake ==
  /\ asyncPc = "check" /\ LockFree
  /\ ~Blocked /\ state < Terminated
  /\ queue' = queue \o data /\ data' = <<>>
  /\ asyncPc' = "process"
  /\ UNCHANGED <<state, pending_queue, max_sent_seqn, current_seqn,
                 acknowledged_seqn, interrupt_balance, notified, wirePc, resent,
                 joining, socketVars, accepted>>

\* process takes queue_lock and processing_lock.
AsyncBegin ==
  /\ asyncPc = "process" /\ ReprocessingFree
  /\ asyncPc' = "sending"
  /\ UNCHANGED <<state, senderVars, interrupt_balance, notified, wirePc, resent,
                 joining, socketVars, accepted>>

\* processor(queue.front(), max_sent_seqn + 1) succeeds.
AsyncSend ==
  /\ asyncPc = "sending" /\ queue # <<>>
  /\ usable
  /\ sent' = Append(sent, max_sent_seqn + 1)
  /\ overtaken' = (overtaken \/ wirePc \in {"connecting", "resuming"})
  /\ max_sent_seqn' = max_sent_seqn + 1
  /\ pending_queue' = Append(pending_queue, Head(queue))
  /\ queue' = Tail(queue)
  /\ UNCHANGED <<state, data, current_seqn, acknowledged_seqn, interrupt_balance,
                 threadVars, usable, accepted>>

\* (Broken: the package is popped before it is known to be sent.)
AsyncSendFailsPops ==
  /\ asyncPc = "sending" /\ queue # <<>>
  /\ usable' = FALSE
  /\ asyncPc' = "check"
  /\ queue' = Tail(queue)
  /\ UNCHANGED <<state, data, pending_queue, max_sent_seqn, current_seqn,
                 acknowledged_seqn, interrupt_balance, notified, wirePc, resent,
                 joining, sent, overtaken, accepted>>

\* processor fails: a failed socket stays failed until it is replaced.
AsyncSendFails ==
  /\ asyncPc = "sending" /\ queue # <<>>
  /\ usable' = FALSE
  /\ asyncPc' = "check"
  /\ UNCHANGED <<state, senderVars, interrupt_balance, notified, wirePc, resent,
                 joining, sent, overtaken, accepted>>

AsyncDone ==
  /\ asyncPc = "sending" /\ queue = <<>>
  /\ asyncPc' = "check"
  /\ UNCHANGED <<state, senderVars, interrupt_balance, notified, wirePc, resent,
                 joining, socketVars, accepted>>

-------------------------------------------------------------------------------
(* The wire thread.                                                        *)

\* SocketWire::Base's constructor: pause("initial") ...
PauseInitial ==
  /\ wirePc = "ctor"
  /\ interrupt_balance' = interrupt_balance + 1
  /\ wirePc' = "starting"
  /\ UNCHANGED <<state, senderVars, asyncPc, notified, resent, joining, socketVars,
                 accepted>>

\* ... and start(), which does nothing when the processor was terminated before.
Start ==
  /\ wirePc = "starting"
  /\ IF state = Initialized
       THEN state' = AsyncProcessing /\ asyncPc' = "check"
       ELSE UNCHANGED <<state, asyncPc>>
  /\ wirePc' = "offline"
  /\ UNCHANGED <<senderVars, interrupt_balance, notified, resent, joining,
                 socketVars, accepted>>

\* set_socket_provider replaces the socket; the processor is still paused.
Connect ==
  /\ wirePc = "offline"
  /\ usable' = TRUE /\ sent' = <<>> /\ overtaken' = FALSE
  /\ wirePc' = "connecting"
  /\ UNCHANGED <<state, senderVars, interrupt_balance, asyncPc, notified, resent,
                 joining, accepted>>

\* ... and stays so if the wire's lifetime ended meanwhile: nothing is resumed, and
\* what a late process() still sends has overtaken the retransmission.
ConnectAbandoned ==
  /\ wirePc = "connecting"
  /\ wirePc' = "offline"
  /\ overtaken' = TRUE
  /\ UNCHANGED <<state, senderVars, interrupt_balance, asyncPc, notified, resent,
                 joining, usable, sent, accepted>>

\* resume takes `lock'.
ResumeBegin ==
  /\ wirePc = "connecting"
  /\ wirePc' = "resuming"
  /\ UNCHANGED <<state, senderVars, interrupt_balance, asyncPc, notified, resent,
                 joining, socketVars, accepted>>

\* cleanup_pending_queue: drop what the acknowledged number covers.
CleanupPendingQueue ==
  IF current_seqn <= acknowledged_seqn
    THEN /\ pending_queue' = SubSeq(pending_queue,
                                    acknowledged_seqn - current_seqn + 2,
                                    Len(pending_queue))
         /\ current_seqn' = acknowledged_seqn + 1
    ELSE UNCHANGED <<pending_queue, current_seqn>>

\* reprocess gets queue_lock and processing_lock, and cleans up.
ReprocessBegin ==
  /\ wirePc = "resuming" /\ ProcessingFree
  /\ CleanupPendingQueue
  /\ resent' = 0
  /\ wirePc' = "resending"
  /\ UNCHANGED <<state, data, queue, max_sent_seqn, acknowledged_seqn,
                 interrupt_balance, asyncPc, notified, joining, socketVars, accepted>>

\* (Broken: pending_queue is walked from its end.)
ResendBackwards ==
  /\ wirePc = "resending" /\ resent < Len(pending_queue)
  /\ usable
  /\ sent' = Append(sent, max_sent_seqn - resent)
  /\ resent' = resent + 1
  /\ UNCHANGED <<state, senderVars, interrupt_balance, asyncPc, notified, wirePc,
                 joining, usable, overtaken, accepted>>

\* processor(pending_queue[i], current_seqn + i) succeeds.
Resend ==
  /\ wirePc = "resending" /\ resent < Len(pending_queue)
  /\ usable
  /\ sent' = Append(sent, current_seqn + resent)
  /\ resent' = resent + 1
  /\ UNCHANGED <<state, senderVars, interrupt_balance, asyncPc, notified, wirePc,
                 joining, usable, overtaken, accepted>>

\* The end of resume: --interrupt_balance, whatever reprocess returned.
ResumeEnd ==
  /\ interrupt_balance' = interrupt_balance - 1
  /\ wirePc' = "online" /\ resent' = 0
  /\ Notify
  /\ UNCHANGED <<state, senderVars, asyncPc, joining, sent, overtaken, accepted>>

\* Everything was sent again ...
ReprocessDone ==
  /\ wirePc = "resending" /\ resent = Len(pending_queue)
  /\ ResumeEnd
  /\ UNCHANGED usable

\* ... or one transmission failed and the rest is skipped.
ReprocessFails ==
  /\ wirePc = "resending" /\ resent < Len(pending_queue)
  /\ usable' = FALSE
  /\ ResumeEnd

\* acknowledge(n): n is new, and the thread goes on to queue_lock holding `lock'.
AcknowledgeNew(n) ==
  /\ wirePc = "online"
  /\ n > acknowledged_seqn
  /\ acknowledged_seqn' = n
  /\ wirePc' = "acking"
  /\ UNCHANGED <<state, data, queue, pending_queue, max_sent_seqn, current_seqn,
                 interrupt_balance, asyncPc, notified, resent, joining, socketVars,
                 accepted>>

\* acknowledge gets queue_lock and cleans up.
AcknowledgeCleanup ==
  /\ wirePc = "acking" /\ ProcessingFree
  /\ CleanupPendingQueue
  /\ wirePc' = "online"
  /\ UNCHANGED <<state, data, queue, max_sent_seqn, acknowledged_seqn,
                 interrupt_balance, asyncPc, notified, resent, joining, socketVars,
                 accepted>>

\* receiverProc ended: pause("Disconnected") takes `lock' ...
PauseBegin ==
  /\ wirePc = "online"
  /\ interrupt_balance' = interrupt_balance + 1
  /\ wirePc' = "pausing"
  /\ UNCHANGED <<state, senderVars, asyncPc, notified, resent, joining, socketVars,
                 accepted>>

\* ... and waits for a running process() to release processing_lock.
PauseEnd ==
  /\ wirePc = "pausing" /\ ProcessingFree
  /\ wirePc' = "offline"
  /\ UNCHANGED <<state, senderVars, interrupt_balance, asyncPc, notified, resent,
                 joining, socketVars, accepted>>

-------------------------------------------------------------------------------
(* The thread that stops the wire.                                         *)

\* terminate0(Stopping) is stop, terminate0(Terminating) is terminate.
Terminate0(target) ==
  /\ LockFree
  /\ state < target
  /\ IF state = Initialized
       THEN state' = Terminated /\ UNCHANGED joining
       ELSE state' = target /\ joining' = joining \cup {target}
  /\ Notify
  /\ UNCHANGED <<senderVars, interrupt_balance, asyncPc, wirePc, resent, socketVars,
                 accepted>>

\* The wait for the future ends, with the thread gone or after the timeout:
\* cleanup0 either way.
Join(target) ==
  /\ target \in joining
  /\ LockFree
  /\ joining' = joining \ {target}
  /\ state' = Terminated
  /\ Notify
  /\ UNCHANGED <<senderVars, interrupt_balance, asyncPc, wirePc, resent, socketVars,
                 accepted>>

-------------------------------------------------------------------------------
Async == AsyncExit \/ AsyncWait \/ AsyncWake \/ AsyncTake \/ AsyncBegin
         \/ AsyncSend \/ AsyncSendFails \/ AsyncDone

\* The numbers a peer can acknowledge are those transmitted on this socket.
Acknowledgeable == {sent[i] : i \in DOMAIN sent}

Wire == PauseInitial \/ Start \/ Connect \/ ConnectAbandoned \/ ResumeBegin
        \/ ReprocessBegin \/ Resend \/ ReprocessDone \/ ReprocessFails
        \/ (\E n \in Acknowledgeable : AcknowledgeNew(n))
        \/ AcknowledgeCleanup \/ PauseBegin \/ PauseEnd

Terminator == \E target \in {Stopping, Terminating} : Terminate0(target) \/ Join(target)

Next == (\E chunks \in 1 .. MaxChunks : Put(chunks)) \/ Async \/ Wire \/ Terminator

Spec == Init /\ [][Next]_processorVars

(***************************************************************************)
(* Every thread keeps running, and gets `lock' though others take it too.  *)
(* Nothing makes callers put or stop, and no socket has to be found.  The  *)
(* receiver notices a socket that fails (its read returns), hence PauseEnd *)
(* is reached: strong fairness, since lock may be busy.                    *)
(***************************************************************************)
Fairness ==
  /\ SF_processorVars(AsyncExit \/ AsyncWait \/ AsyncTake)
  /\ SF_processorVars(notified /\ AsyncWake)
  /\ SF_processorVars(AsyncBegin)
  /\ WF_processorVars(AsyncSend \/ AsyncSendFails \/ AsyncDone)
  /\ WF_processorVars(PauseInitial \/ Start \/ ResumeBegin)
  /\ WF_processorVars(Resend \/ ReprocessDone \/ ReprocessFails)
  /\ SF_processorVars(ReprocessBegin)
  /\ SF_processorVars(AcknowledgeCleanup)
  /\ SF_processorVars(~usable /\ PauseBegin)
  /\ SF_processorVars(PauseEnd)
  /\ \A target \in {Stopping, Terminating} : SF_processorVars(Join(target))

FairSpec == Spec /\ Fairness

-------------------------------------------------------------------------------
(* Correctness.                                                            *)

TypeOK ==
  /\ state \in Initialized .. Terminated
  /\ data \in Seq(Nat) /\ queue \in Seq(Nat) /\ pending_queue \in Seq(Nat)
  /\ max_sent_seqn \in Nat /\ current_seqn \in Nat /\ acknowledged_seqn \in Nat
  /\ interrupt_balance \in {0, 1}
  /\ asyncPc \in AsyncPcs /\ notified \in BOOLEAN
  /\ wirePc \in WirePcs /\ resent \in Nat
  /\ joining \subseteq {Stopping, Terminating}
  /\ usable \in BOOLEAN /\ sent \in Seq(Nat) /\ overtaken \in BOOLEAN
  /\ accepted \in 0 .. MaxPut

\* s is first, first + 1, first + 2, ...
Consecutive(s, first) == \A i \in 1 .. Len(s) : s[i] = first + i - 1

\* The three queues together hold every package from current_seqn on, once and
\* in the order of put, and a package in pending_queue sits under the number it
\* was first transmitted with: whatever path a package takes through add_data,
\* process, cleanup_pending_queue and stop, none is lost, doubled or renumbered.
StreamIntact ==
  /\ Consecutive(pending_queue, current_seqn)
  /\ current_seqn + Len(pending_queue) = max_sent_seqn + 1
  /\ Consecutive(queue, max_sent_seqn + 1)
  /\ Consecutive(data, max_sent_seqn + Len(queue) + 1)
  /\ accepted = max_sent_seqn + Len(queue) + Len(data)

\* An acknowledgement never gets ahead of what was transmitted, and the window
\* starts right behind it: cleanup_pending_queue, which pops without looking,
\* finds the packages it pops.
AckWithinSent ==
  /\ acknowledged_seqn <= max_sent_seqn
  /\ current_seqn <= acknowledged_seqn + 1
  /\ wirePc # "acking" => current_seqn = acknowledged_seqn + 1

\* reprocess sends the window again while process is shut out, and no package
\* is handed to the socket by both.
ResendExclusive ==
  wirePc = "resending" => asyncPc # "sending" /\ resent <= Len(pending_queue)

\* Numbers go out in order on every socket, without a gap, unless ThreadProc
\* left its lock section before the pause and reached process() only after the
\* socket was replaced: the receiver drops whatever comes after a larger number.
InOrderUnlessOvertaken ==
  overtaken \/ \A i \in 1 .. Len(sent) - 1 : sent[i + 1] = sent[i] + 1

\* What has been transmitted on a socket in use reaches up to the newest package:
\* the next new package continues it.  (A reconnection sends the whole window
\* again before anything new.)
OnlineContinues ==
  wirePc \in {"online", "acking"} /\ usable /\ ~overtaken /\ sent # <<>>
    => sent[Len(sent)] = max_sent_seqn

\* A package leaves the window only when it is covered by an acknowledgement.
KeepUntilAcknowledged ==
  [][\A i \in 1 .. Len(pending_queue) :
       \/ \E j \in 1 .. Len(pending_queue') : pending_queue'[j] = pending_queue[i]
       \/ pending_queue[i] <= acknowledged_seqn']_processorVars

Window == INSTANCE SendWindow WITH
  total <- max_sent_seqn + Len(queue) + Len(data),
  high  <- max_sent_seqn,
  acked <- acknowledged_seqn

\* The processor implements the abstract window, whatever its threads do.
ImplementsWindow == Window!WindowSpec
===============================================================================
