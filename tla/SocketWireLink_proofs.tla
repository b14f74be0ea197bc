------------------------- MODULE SocketWireLink_proofs -------------------------
(***************************************************************************)
(* The send buffer and the link that carries what it sends.                *)
(*                                                                         *)
(* The first part is about the processor, for every bound on the packages  *)
(* and every way a put may be split.  The inductive invariant IInv adds    *)
(* three facts to the invariants the runs check: the interrupt balance is  *)
(* determined by where the wire thread is, every transmitted number is one *)
(* that was given out, and what was transmitted on the current socket ends *)
(* where the phase of the wire thread says it does.                        *)
(***************************************************************************)
EXTENDS SocketWireLink, SequenceTheorems, TLAPS

BalanceMatches ==
  interrupt_balance = IF wirePc \in {"ctor", "online", "acking"} THEN 0 ELSE 1

SentBound == \A i \in 1 .. Len(sent) : sent[i] \in 1 .. max_sent_seqn

AckPhase == wirePc = "acking" => current_seqn <= acknowledged_seqn

\* Where the transmissions on the current socket end.
SentPosition ==
  /\ wirePc \in {"connecting", "resuming"} => overtaken \/ sent = <<>>
  /\ wirePc = "resending" /\ ~overtaken =>
       /\ Len(sent) = resent
       /\ sent # <<>> => sent[Len(sent)] = current_seqn + resent - 1
  /\ wirePc \notin {"connecting", "resuming", "resending"} =>
       ~usable \/ overtaken \/ sent = <<>> \/ sent[Len(sent)] = max_sent_seqn

Typed == TypeOK /\ BalanceMatches

Stream == StreamIntact /\ AckWithinSent /\ AckPhase /\ SentBound /\ ResendExclusive

Order == InOrderUnlessOvertaken /\ SentPosition

IInv == Typed /\ Stream /\ Order

-------------------------------------------------------------------------------
(* Sequences.                                                              *)

\* Putting two runs of numbers together (put, add_data) makes a run.
LEMMA ConsecutiveConcat ==
  ASSUME NEW s \in Seq(Nat), NEW t \in Seq(Nat), NEW first \in Nat,
         Consecutive(s, first), Consecutive(t, first + Len(s))
  PROVE  /\ s \o t \in Seq(Nat)
         /\ Len(s \o t) = Len(s) + Len(t)
         /\ Consecutive(s \o t, first)
<1>1. /\ s \o t \in Seq(Nat)
      /\ Len(s \o t) = Len(s) + Len(t)
      /\ \A i \in 1 .. Len(s) + Len(t) : (s \o t)[i] =
           IF i <= Len(s) THEN s[i] ELSE t[i - Len(s)]
  BY ConcatProperties
<1>2. ASSUME NEW i \in 1 .. Len(s \o t)
      PROVE  (s \o t)[i] = first + i - 1
  <2>1. CASE i <= Len(s)
    BY <1>1, <2>1 DEF Consecutive
  <2>2. CASE i > Len(s)
    <3>1. i - Len(s) \in 1 .. Len(t)
      BY <1>1, <2>2
    <3>2. t[i - Len(s)] = first + Len(s) + (i - Len(s)) - 1
      BY <3>1 DEF Consecutive
    <3>3. (s \o t)[i] = t[i - Len(s)]
      BY <1>1, <2>2
    <3> QED BY <3>1, <3>2, <3>3
  <2> QED BY <2>1, <2>2
<1> QED BY <1>1, <1>2 DEF Consecutive

\* The packages cut from one message by put.
LEMMA NewPackages ==
  ASSUME NEW n \in Nat, NEW k \in Nat
  PROVE  LET new == [i \in 1 .. k |-> n + i] IN
           new \in Seq(Nat) /\ Len(new) = k /\ Consecutive(new, n + 1)
<1> DEFINE new == [i \in 1 .. k |-> n + i]
<1>1. new \in Seq(Nat) /\ Len(new) = k
  OBVIOUS
<1> QED BY <1>1 DEF Consecutive

\* Taking the oldest package off a queue.
LEMMA ConsecutiveTail ==
  ASSUME NEW s \in Seq(Nat), s # <<>>, NEW first \in Nat, Consecutive(s, first)
  PROVE  /\ Head(s) = first
         /\ Tail(s) \in Seq(Nat)
         /\ Len(Tail(s)) = Len(s) - 1
         /\ Consecutive(Tail(s), first + 1)
<1>1. /\ Tail(s) \in Seq(Nat)
      /\ Len(Tail(s)) = Len(s) - 1
      /\ \A i \in 1 .. Len(Tail(s)) : Tail(s)[i] = s[i + 1]
  BY HeadTailProperties
<1>2. Len(s) \in Nat /\ Len(s) >= 1
  OBVIOUS
<1>3. Head(s) = s[1]
  OBVIOUS
<1> QED BY <1>1, <1>2, <1>3 DEF Consecutive

\* Adding the next number at the end.
LEMMA ConsecutiveAppend ==
  ASSUME NEW s \in Seq(Nat), NEW first \in Nat, Consecutive(s, first)
  PROVE  /\ Append(s, first + Len(s)) \in Seq(Nat)
         /\ Len(Append(s, first + Len(s))) = Len(s) + 1
         /\ Consecutive(Append(s, first + Len(s)), first)
BY DEF Consecutive

\* Popping the first k numbers.
LEMMA ConsecutiveDrop ==
  ASSUME NEW s \in Seq(Nat), NEW first \in Nat, NEW k \in 0 .. Len(s),
         Consecutive(s, first)
  PROVE  /\ SubSeq(s, k + 1, Len(s)) \in Seq(Nat)
         /\ Len(SubSeq(s, k + 1, Len(s))) = Len(s) - k
         /\ Consecutive(SubSeq(s, k + 1, Len(s)), first + k)
<1>1. \A i \in k + 1 .. Len(s) : s[i] \in Nat
  BY ElementOfSeq
<1>2. /\ SubSeq(s, k + 1, Len(s)) \in Seq(Nat)
      /\ Len(SubSeq(s, k + 1, Len(s))) = IF k + 1 <= Len(s) THEN Len(s) - k ELSE 0
      /\ \A i \in 1 .. Len(s) - k : SubSeq(s, k + 1, Len(s))[i] = s[k + i]
  BY <1>1, SubSeqProperties, Z3
<1> QED BY <1>2 DEF Consecutive

-------------------------------------------------------------------------------
(* Types and the interrupt balance.                                        *)

\* cleanup_pending_queue leaves a queue of packages and a number.
LEMMA CleanupTyped ==
  ASSUME Typed, CleanupPendingQueue
  PROVE  pending_queue' \in Seq(Nat) /\ current_seqn' \in Nat
<1>1. CASE current_seqn <= acknowledged_seqn
  <2> DEFINE m == acknowledged_seqn - current_seqn + 2
  <2>1. m \in Nat /\ m >= 1 /\ Len(pending_queue) \in Nat
    BY <1>1 DEF Typed, TypeOK
  <2>2. \A i \in m .. Len(pending_queue) : pending_queue[i] \in Nat
    BY <2>1 DEF Typed, TypeOK
  <2>3. SubSeq(pending_queue, m, Len(pending_queue)) \in Seq(Nat)
    BY <2>1, <2>2, SubSeqProperties, Z3
  <2>4. pending_queue' = SubSeq(pending_queue, m, Len(pending_queue))
    BY <1>1 DEF CleanupPendingQueue
  <2>5. current_seqn' \in Nat
    BY <1>1 DEF CleanupPendingQueue, Typed, TypeOK
  <2> HIDE DEF m
  <2> QED BY <2>3, <2>4, <2>5
<1>2. CASE ~(current_seqn <= acknowledged_seqn)
  BY <1>2 DEF CleanupPendingQueue, Typed, TypeOK
<1> QED BY <1>1, <1>2

\* Every step keeps the types, and the balance in step with the wire thread.
LEMMA TypedStep == Typed /\ [Next]_processorVars => Typed'
<1> SUFFICES ASSUME Typed, [Next]_processorVars PROVE Typed'
  OBVIOUS
<1> USE BoundsAssumption
    DEF Typed, TypeOK, BalanceMatches, AsyncPcs, WirePcs, Initialized, AsyncProcessing,
        Stopping, Terminating, Terminated, LockFree, Notify, senderVars, threadVars,
        socketVars
<1>1. ASSUME NEW chunks \in 1 .. MaxChunks, Put(chunks) PROVE Typed'
  <2> DEFINE new == [i \in 1 .. chunks |-> accepted + i]
  <2>1. new \in Seq(Nat)
    OBVIOUS
  <2>2. data' \in Seq(Nat)
    BY <1>1, <2>1, ConcatProperties DEF Put
  <2> QED BY <1>1, <2>2 DEF Put
<1>2. CASE AsyncExit
  BY <1>2 DEF AsyncExit
<1>3. CASE AsyncWait
  BY <1>3 DEF AsyncWait
<1>4. CASE AsyncWake
  BY <1>4 DEF AsyncWake
<1>5. CASE AsyncTake
  <2>1. queue' \in Seq(Nat)
    BY <1>5, ConcatProperties DEF AsyncTake
  <2> QED BY <1>5, <2>1 DEF AsyncTake
<1>6. CASE AsyncBegin
  BY <1>6 DEF AsyncBegin
<1>7. CASE AsyncSend
  <2>1. Tail(queue) \in Seq(Nat) /\ Head(queue) \in Nat
    BY <1>7, HeadTailProperties DEF AsyncSend
  <2> QED BY <1>7, <2>1 DEF AsyncSend
<1>8. CASE AsyncSendFails
  BY <1>8 DEF AsyncSendFails
<1>9. CASE AsyncDone
  BY <1>9 DEF AsyncDone
<1>10. CASE PauseInitial
  BY <1>10 DEF PauseInitial
<1>11. CASE Start
  BY <1>11 DEF Start
<1>12. CASE Connect
  <2>1. usable' \in BOOLEAN /\ overtaken' \in BOOLEAN /\ sent' = <<>>
    BY <1>12, Zenon DEF Connect
  <2> QED BY <1>12, <2>1 DEF Connect
<1>13. CASE ResumeBegin
  BY <1>13 DEF ResumeBegin
<1>14. CASE ReprocessBegin
  BY <1>14, CleanupTyped DEF ReprocessBegin
<1>15. CASE Resend
  BY <1>15 DEF Resend
<1>16. CASE ReprocessDone
  BY <1>16 DEF ReprocessDone, ResumeEnd
<1>17. CASE ReprocessFails
  <2>1. usable' \in BOOLEAN /\ notified' \in BOOLEAN
    BY <1>17, Zenon DEF ReprocessFails, ResumeEnd
  <2> QED BY <1>17, <2>1 DEF ReprocessFails, ResumeEnd
<1>18. ASSUME NEW n \in Acknowledgeable, AcknowledgeNew(n) PROVE Typed'
  <2>1. n \in Nat
    BY DEF Acknowledgeable
  <2> QED BY <1>18, <2>1 DEF AcknowledgeNew
<1>19. CASE AcknowledgeCleanup
  BY <1>19, CleanupTyped DEF AcknowledgeCleanup
<1>20. CASE PauseBegin
  BY <1>20 DEF PauseBegin
<1>21. CASE PauseEnd
  BY <1>21 DEF PauseEnd
<1>22. ASSUME NEW target \in {Stopping, Terminating}, Terminate0(target) PROVE Typed'
  <2>1. notified' \in BOOLEAN
    BY <1>22, Zenon DEF Terminate0
  <2>2. state' \in Initialized .. Terminated
    BY <1>22 DEF Terminate0
  <2>3. joining' \subseteq {Stopping, Terminating}
    BY <1>22, Zenon DEF Terminate0
  <2> QED BY <1>22, <2>1, <2>2, <2>3 DEF Terminate0
<1>23. ASSUME NEW target \in {Stopping, Terminating}, Join(target) PROVE Typed'
  BY <1>23 DEF Join
<1>24. CASE UNCHANGED processorVars
  BY <1>24 DEF processorVars
<1>25. CASE ConnectAbandoned
  <2>1. overtaken' \in BOOLEAN
    BY <1>25, Zenon DEF ConnectAbandoned
  <2> QED BY <1>25, <2>1 DEF ConnectAbandoned
<1> QED
  BY <1>1, <1>2, <1>3, <1>4, <1>5, <1>6, <1>7, <1>8, <1>9, <1>10, <1>11, <1>12,
     <1>13, <1>14, <1>15, <1>16, <1>17, <1>18, <1>19, <1>20, <1>21, <1>22,
     <1>23, <1>24, <1>25
  DEF Next, Async, Wire, Terminator

\* The buffer is created with its types in order.
LEMMA InitTyped == Init => Typed
<1> SUFFICES ASSUME Init PROVE Typed
  OBVIOUS
<1>1. usable \in BOOLEAN /\ overtaken \in BOOLEAN /\ notified \in BOOLEAN
  BY Zenon DEF Init
<1> QED
  BY <1>1, BoundsAssumption
  DEF Init, Typed, TypeOK, BalanceMatches, AsyncPcs, WirePcs, Initialized,
      AsyncProcessing, Stopping, Terminating, Terminated

\* Type correctness: in particular pauses and resumes of the wire thread alternate,
\* so interrupt_balance is never negative and never stuck above zero.
THEOREM TypeCorrect == Spec => []TypeOK
<1>1. Typed => TypeOK
  BY DEF Typed
<1> QED BY InitTyped, <1>1, TypedStep, PTL DEF Spec

-------------------------------------------------------------------------------
(* The three queues, the acknowledgements and the two loops.               *)

\* What cleanup_pending_queue does to a well-formed window: it pops only packages
\* that are there, and the window starts behind the acknowledged number.
LEMMA CleanupStream ==
  ASSUME Typed, Stream, CleanupPendingQueue
  PROVE  /\ Consecutive(pending_queue', current_seqn')
         /\ current_seqn' + Len(pending_queue') = max_sent_seqn + 1
         /\ current_seqn' = acknowledged_seqn + 1
<1> USE DEF Typed, TypeOK, Stream, StreamIntact, AckWithinSent
<1>1. CASE current_seqn <= acknowledged_seqn
  <2> DEFINE k == acknowledged_seqn - current_seqn + 1
  <2>1. k \in 0 .. Len(pending_queue)
    BY <1>1
  <2>2. SubSeq(pending_queue, k + 1, Len(pending_queue)) = pending_queue'
    <3>1. k + 1 = acknowledged_seqn - current_seqn + 2
      BY <1>1
    <3> HIDE DEF k
    <3> QED BY <1>1, <3>1 DEF CleanupPendingQueue
  <2>3. current_seqn' = current_seqn + k
    BY <1>1 DEF CleanupPendingQueue
  <2>4. /\ Len(pending_queue') = Len(pending_queue) - k
        /\ Consecutive(pending_queue', current_seqn + k)
    <3> HIDE DEF k
    <3> QED BY <2>1, <2>2, ConsecutiveDrop
  <2>5. current_seqn' = acknowledged_seqn + 1
    BY <1>1 DEF CleanupPendingQueue
  <2>6. current_seqn + k + (Len(pending_queue) - k) = max_sent_seqn + 1
    <3>1. current_seqn \in Nat /\ Len(pending_queue) \in Nat
      OBVIOUS
    <3>2. current_seqn + Len(pending_queue) = max_sent_seqn + 1
      OBVIOUS
    <3> HIDE DEF k
    <3>3. k \in Nat
      BY <2>1, <3>1
    <3> QED BY ONLY <3>1, <3>2, <3>3
  <2> HIDE DEF k
  <2>7. Consecutive(pending_queue', current_seqn')
    BY <2>3, <2>4
  <2> QED BY <2>3, <2>4, <2>5, <2>6, <2>7
<1>2. CASE ~(current_seqn <= acknowledged_seqn)
  BY <1>2 DEF CleanupPendingQueue
<1> QED BY <1>1, <1>2

\* No step loses, doubles or renumbers a package, given the types.
LEMMA StreamStep == Typed /\ Stream /\ [Next]_processorVars => Stream'
<1> SUFFICES ASSUME Typed, Stream, [Next]_processorVars PROVE Stream'
  OBVIOUS
<1> USE DEF senderVars, threadVars, socketVars, ProcessingFree, ReprocessingFree
<1>t. /\ data \in Seq(Nat) /\ queue \in Seq(Nat) /\ pending_queue \in Seq(Nat)
      /\ max_sent_seqn \in Nat /\ current_seqn \in Nat /\ acknowledged_seqn \in Nat
      /\ sent \in Seq(Nat) /\ accepted \in Nat /\ resent \in Nat
  BY BoundsAssumption DEF Typed, TypeOK
\* Steps that move no package and only change where a thread is.
<1>f. ASSUME UNCHANGED <<senderVars, sent, accepted>>,
             wirePc' = "acking" => wirePc = "acking",
             wirePc = "acking" => wirePc' = "acking",
             wirePc' = "resending" => asyncPc' # "sending" /\ resent' <= Len(pending_queue)
      PROVE  Stream'
  BY <1>f DEF Stream, StreamIntact, Consecutive, AckWithinSent, AckPhase, SentBound,
              ResendExclusive
<1>1. ASSUME NEW chunks \in 1 .. MaxChunks, Put(chunks) PROVE Stream'
  <2> DEFINE new == [i \in 1 .. chunks |-> accepted + i]
  <2>0. chunks \in Nat
    BY BoundsAssumption
  <2>1. new \in Seq(Nat) /\ Len(new) = chunks /\ Consecutive(new, accepted + 1)
    BY <1>t, <2>0, NewPackages
  <2>2. data' = data \o new /\ accepted' = accepted + chunks
    BY <1>1 DEF Put
  <2> HIDE DEF new
  <2>3. /\ Len(data') = Len(data) + chunks
        /\ Consecutive(data', max_sent_seqn + Len(queue) + 1)
    <3> DEFINE first == max_sent_seqn + Len(queue) + 1
    <3>1. first \in Nat /\ accepted + 1 = first + Len(data) /\ Consecutive(data, first)
      BY <1>t DEF Stream, StreamIntact
    <3> HIDE DEF first
    <3>2. /\ Len(data \o new) = Len(data) + Len(new)
          /\ Consecutive(data \o new, first)
      BY <1>t, <2>1, <3>1, ConsecutiveConcat
    <3> QED BY <2>1, <2>2, <3>2 DEF first
  <2>4. StreamIntact'
    BY <1>1, <1>t, <2>0, <2>2, <2>3 DEF Put, Stream, StreamIntact, Consecutive
  <2> QED
    BY <1>1, <2>4 DEF Put, Stream, AckWithinSent, AckPhase, SentBound, ResendExclusive
<1>2. CASE AsyncTake
  <2> DEFINE first == max_sent_seqn + 1
  <2>1. first \in Nat /\ Consecutive(queue, first) /\ Consecutive(data, first + Len(queue))
    BY <1>t DEF Stream, StreamIntact, Consecutive
  <2> HIDE DEF first
  <2>2. /\ Len(queue \o data) = Len(queue) + Len(data)
        /\ Consecutive(queue \o data, first)
    BY <1>t, <2>1, ConsecutiveConcat
  <2>3. queue' = queue \o data /\ data' = <<>>
    BY <1>2 DEF AsyncTake
  <2>4. StreamIntact'
    BY <1>2, <1>t, <2>2, <2>3 DEF AsyncTake, first, Stream, StreamIntact, Consecutive
  <2> QED
    BY <1>2, <2>4 DEF AsyncTake, Stream, AckWithinSent, AckPhase, SentBound, ResendExclusive
<1>3. CASE AsyncSend
  <2>1. /\ Head(queue) = max_sent_seqn + 1
        /\ Len(Tail(queue)) = Len(queue) - 1
        /\ Consecutive(Tail(queue), max_sent_seqn + 2)
    BY <1>3, <1>t, ConsecutiveTail DEF AsyncSend, Stream, StreamIntact
  <2>2. /\ Len(Append(pending_queue, Head(queue))) = Len(pending_queue) + 1
        /\ Consecutive(Append(pending_queue, Head(queue)), current_seqn)
    <3>1. Head(queue) = current_seqn + Len(pending_queue)
      BY <1>t, <2>1 DEF Stream, StreamIntact
    <3> QED BY <1>t, <3>1, ConsecutiveAppend DEF Stream, StreamIntact
  <2>3. /\ queue' = Tail(queue) /\ pending_queue' = Append(pending_queue, Head(queue))
        /\ max_sent_seqn' = max_sent_seqn + 1 /\ sent' = Append(sent, max_sent_seqn + 1)
        /\ UNCHANGED <<data, current_seqn, acknowledged_seqn, accepted, wirePc, asyncPc>>
    BY <1>3 DEF AsyncSend
  <2>4. StreamIntact'
    <3>a. max_sent_seqn' + 1 = max_sent_seqn + 2
      BY <1>t, <2>3
    <3>1. Consecutive(queue', max_sent_seqn' + 1)
      BY <3>a, <2>1, <2>3
    <3>b. /\ Len(queue) \in Nat /\ max_sent_seqn \in Nat
          /\ Len(queue') = Len(queue) - 1 /\ max_sent_seqn' = max_sent_seqn + 1
      BY <1>t, <2>1, <2>3
    <3>c. max_sent_seqn' + Len(queue') = max_sent_seqn + Len(queue)
      BY ONLY <3>b
    <3>2. Consecutive(data', max_sent_seqn' + Len(queue') + 1)
      BY <3>c, <2>3 DEF Stream, StreamIntact
    <3>3. accepted' = max_sent_seqn' + Len(queue') + Len(data')
      BY <3>c, <2>3 DEF Stream, StreamIntact
    <3>4. current_seqn' + Len(pending_queue') = max_sent_seqn' + 1
      BY <1>t, <2>2, <2>3 DEF Stream, StreamIntact
    <3> QED BY <2>2, <2>3, <3>1, <3>2, <3>3, <3>4 DEF StreamIntact
  <2>5. SentBound'
    BY <1>t, <2>3 DEF Stream, SentBound
  <2>6. AckWithinSent' /\ AckPhase' /\ ResendExclusive'
    BY <1>3, <1>t, <2>2, <2>3 DEF AsyncSend, Stream, AckWithinSent, AckPhase, ResendExclusive
  <2> QED BY <2>4, <2>5, <2>6 DEF Stream
<1>4. CASE ReprocessBegin
  <2>1. Consecutive(pending_queue', current_seqn') /\ current_seqn' = acknowledged_seqn + 1
        /\ current_seqn' + Len(pending_queue') = max_sent_seqn + 1
    BY <1>4, CleanupStream DEF ReprocessBegin
  <2>2. pending_queue' \in Seq(Nat)
    BY <1>4, CleanupTyped DEF ReprocessBegin
  <2>3. StreamIntact'
    BY <1>4, <2>1 DEF ReprocessBegin, Stream, StreamIntact, Consecutive
  <2> QED
    BY <1>4, <1>t, <2>1, <2>2, <2>3
    DEF ReprocessBegin, Stream, AckWithinSent, AckPhase, SentBound, ResendExclusive
<1>5. CASE AcknowledgeCleanup
  <2>1. Consecutive(pending_queue', current_seqn') /\ current_seqn' = acknowledged_seqn + 1
        /\ current_seqn' + Len(pending_queue') = max_sent_seqn + 1
    BY <1>5, CleanupStream DEF AcknowledgeCleanup
  <2>2. StreamIntact'
    BY <1>5, <2>1 DEF AcknowledgeCleanup, Stream, StreamIntact, Consecutive
  <2> QED
    BY <1>5, <1>t, <2>1, <2>2
    DEF AcknowledgeCleanup, Stream, AckWithinSent, AckPhase, SentBound, ResendExclusive
<1>6. CASE Resend
  <2>1. current_seqn + resent \in 1 .. max_sent_seqn
    BY <1>6, <1>t DEF Resend, Stream, StreamIntact, AckWithinSent
  <2>2. SentBound'
    BY <1>6, <1>t, <2>1 DEF Resend, Stream, SentBound
  <2>3. StreamIntact'
    BY <1>6 DEF Resend, Stream, StreamIntact, Consecutive
  <2> QED
    BY <1>6, <1>t, <2>2, <2>3 DEF Resend, Stream, AckWithinSent, AckPhase, ResendExclusive
<1>7. ASSUME NEW n \in Acknowledgeable, AcknowledgeNew(n) PROVE Stream'
  <2>1. n \in 1 .. max_sent_seqn
    BY <1>t DEF Acknowledgeable, Stream, SentBound
  <2>2. StreamIntact'
    BY <1>7 DEF AcknowledgeNew, Stream, StreamIntact, Consecutive
  <2> QED
    BY <1>7, <1>t, <2>1, <2>2
    DEF AcknowledgeNew, Stream, AckWithinSent, AckPhase, SentBound, ResendExclusive
<1>8. CASE Connect
  BY <1>8, <1>t
  DEF Connect, Stream, StreamIntact, Consecutive, AckWithinSent, AckPhase, SentBound,
      ResendExclusive
<1>9. CASE AsyncExit
  BY <1>9, <1>f DEF AsyncExit, Stream, ResendExclusive
<1>10. CASE AsyncWait
  BY <1>10, <1>f DEF AsyncWait, Stream, ResendExclusive
<1>11. CASE AsyncWake
  BY <1>11, <1>f DEF AsyncWake, Stream, ResendExclusive
<1>12. CASE AsyncBegin
  BY <1>12, <1>f DEF AsyncBegin, Stream, ResendExclusive
<1>13. CASE AsyncSendFails
  BY <1>13, <1>f DEF AsyncSendFails, Stream, ResendExclusive
<1>14. CASE AsyncDone
  BY <1>14, <1>f DEF AsyncDone, Stream, ResendExclusive
<1>15. CASE PauseInitial
  BY <1>15, <1>f DEF PauseInitial, Stream, ResendExclusive
<1>16. CASE Start
  BY <1>16, <1>f DEF Start, Stream, ResendExclusive
<1>17. CASE ResumeBegin
  BY <1>17, <1>f DEF ResumeBegin, Stream, ResendExclusive
<1>18. CASE ReprocessDone
  BY <1>18, <1>f DEF ReprocessDone, ResumeEnd, Stream, ResendExclusive
<1>19. CASE ReprocessFails
  BY <1>19, <1>f DEF ReprocessFails, ResumeEnd, Stream, ResendExclusive
<1>20. CASE PauseBegin
  BY <1>20, <1>f DEF PauseBegin, Stream, ResendExclusive
<1>21. CASE PauseEnd
  BY <1>21, <1>f DEF PauseEnd, Stream, ResendExclusive
<1>22. ASSUME NEW target \in {Stopping, Terminating}, Terminate0(target) PROVE Stream'
  BY <1>22, <1>f DEF Terminate0, Stream, ResendExclusive
<1>23. ASSUME NEW target \in {Stopping, Terminating}, Join(target) PROVE Stream'
  BY <1>23, <1>f DEF Join, Stream, ResendExclusive
<1>24. CASE UNCHANGED processorVars
  BY <1>24, <1>f DEF processorVars, Stream, ResendExclusive
<1>25. CASE ConnectAbandoned
  BY <1>25, <1>f DEF ConnectAbandoned, Stream, ResendExclusive
<1> QED
  BY <1>1, <1>2, <1>3, <1>4, <1>5, <1>6, <1>7, <1>8, <1>9, <1>10, <1>11, <1>12,
     <1>13, <1>14, <1>15, <1>16, <1>17, <1>18, <1>19, <1>20, <1>21, <1>22,
     <1>23, <1>24, <1>25
  DEF Next, Async, Wire, Terminator

-------------------------------------------------------------------------------
(* The order of the numbers on one socket.                                 *)

\* One more transmission keeps a gapless run if it continues its last number.
LEMMA RunContinues ==
  ASSUME NEW s \in Seq(Nat), NEW n \in Nat,
         \A i \in 1 .. Len(s) - 1 : s[i + 1] = s[i] + 1,
         s = <<>> \/ n = s[Len(s)] + 1
  PROVE  LET t == Append(s, n) IN
           /\ Len(t) = Len(s) + 1 /\ t # <<>> /\ t[Len(t)] = n
           /\ \A i \in 1 .. Len(t) - 1 : t[i + 1] = t[i] + 1
<1> DEFINE t == Append(s, n)
<1>1. /\ t \in Seq(Nat) /\ Len(t) = Len(s) + 1 /\ t # <<>> /\ t[Len(t)] = n
      /\ \A i \in 1 .. Len(s) : t[i] = s[i]
  BY AppendProperties
<1> HIDE DEF t
<1>2. ASSUME NEW i \in 1 .. Len(t) - 1 PROVE t[i + 1] = t[i] + 1
  <2>1. CASE i = Len(s)
    BY <1>1, <2>1
  <2>2. CASE i # Len(s)
    <3>1. i \in 1 .. Len(s) - 1 /\ i \in 1 .. Len(s) /\ i + 1 \in 1 .. Len(s)
      BY <1>1, <2>2
    <3> QED BY <1>1, <3>1
  <2> QED BY <2>1, <2>2
<1> QED BY <1>1, <1>2 DEF t

\* Every step keeps the numbers of a socket in order, given the two before.
LEMMA OrderStep == Typed /\ Stream /\ Order /\ [Next]_processorVars => Order'
<1> SUFFICES ASSUME Typed, Stream, Order, [Next]_processorVars PROVE Order'
  OBVIOUS
<1> USE DEF senderVars, threadVars, socketVars, Order, InOrderUnlessOvertaken, SentPosition
<1>t. /\ pending_queue \in Seq(Nat)
      /\ max_sent_seqn \in Nat /\ current_seqn \in Nat
      /\ sent \in Seq(Nat) /\ resent \in Nat /\ wirePc \in WirePcs
  BY DEF Typed, TypeOK
\* Steps that transmit nothing and leave the wire thread in its phase.
<1>f. ASSUME UNCHANGED <<sent, overtaken, max_sent_seqn, current_seqn, resent, wirePc>>,
             usable' => usable
      PROVE  Order'
  BY <1>f
\* Steps of the wire thread outside the retransmission.
<1>g. ASSUME UNCHANGED <<sent, overtaken, max_sent_seqn, usable>>,
             wirePc \notin {"connecting", "resuming", "resending"},
             wirePc' \notin {"connecting", "resuming", "resending"}
      PROVE  Order'
  BY <1>g
<1>1. CASE AsyncSend
  <2>1. /\ sent' = Append(sent, max_sent_seqn + 1) /\ max_sent_seqn' = max_sent_seqn + 1
        /\ UNCHANGED <<wirePc, usable, resent, current_seqn>> /\ usable
    BY <1>1 DEF AsyncSend
  <2>2. wirePc # "resending"
    BY <1>1 DEF AsyncSend, Stream, ResendExclusive
  <2>3. CASE overtaken'
    BY <2>1, <2>2, <2>3
  <2>4. CASE ~overtaken'
    <3>1. ~overtaken /\ wirePc \notin {"connecting", "resuming"}
      BY <1>1, <2>4 DEF AsyncSend
    <3>2. sent = <<>> \/ max_sent_seqn + 1 = sent[Len(sent)] + 1
      BY <2>1, <2>2, <3>1
    <3>3. /\ sent' # <<>> /\ sent'[Len(sent')] = max_sent_seqn + 1
          /\ \A i \in 1 .. Len(sent') - 1 : sent'[i + 1] = sent'[i] + 1
      BY <1>t, <2>1, <3>1, <3>2, RunContinues
    <3> QED BY <2>1, <2>2, <3>1, <3>3
  <2> QED BY <2>3, <2>4
<1>2. CASE Resend
  <2>1. /\ sent' = Append(sent, current_seqn + resent) /\ resent' = resent + 1
        /\ wirePc = "resending"
        /\ UNCHANGED <<wirePc, overtaken, current_seqn>>
    BY <1>2 DEF Resend
  <2>2. CASE overtaken
    BY <2>1, <2>2
  <2>3. CASE ~overtaken
    <3>1. Len(sent) = resent /\ (sent # <<>> => sent[Len(sent)] = current_seqn + resent - 1)
      BY <2>1, <2>3
    <3>2. current_seqn + resent \in Nat
      BY <1>t
    <3>3. sent = <<>> \/ current_seqn + resent = sent[Len(sent)] + 1
      BY <1>t, <3>1
    <3>4. /\ Len(sent') = Len(sent) + 1
          /\ sent' # <<>> /\ sent'[Len(sent')] = current_seqn + resent
          /\ \A i \in 1 .. Len(sent') - 1 : sent'[i + 1] = sent'[i] + 1
      BY <1>t, <2>1, <2>3, <3>2, <3>3, RunContinues
    <3>5. current_seqn' + resent' - 1 = current_seqn + resent
      BY <1>t, <2>1
    <3> QED BY <2>1, <2>3, <3>1, <3>4, <3>5
  <2> QED BY <2>2, <2>3
<1>3. CASE ReprocessBegin
  BY <1>3, <1>t DEF ReprocessBegin
<1>4. CASE ReprocessDone
  <2>1. resent = Len(pending_queue) /\ wirePc = "resending" /\ wirePc' = "online"
        /\ UNCHANGED <<sent, overtaken, max_sent_seqn, usable>>
    BY <1>4 DEF ReprocessDone, ResumeEnd
  <2>2. current_seqn + Len(pending_queue) = max_sent_seqn + 1
    BY DEF Stream, StreamIntact
  <2>3. current_seqn + resent - 1 = max_sent_seqn
    BY <1>t, <2>1, <2>2
  <2> QED BY <2>1, <2>3
<1>5. CASE ReprocessFails
  BY <1>5 DEF ReprocessFails, ResumeEnd
<1>6. CASE Connect
  BY <1>6 DEF Connect
<1>7. CASE ResumeBegin
  BY <1>7 DEF ResumeBegin
<1>8. CASE AcknowledgeCleanup
  BY <1>8, <1>g DEF AcknowledgeCleanup
<1>9. ASSUME NEW n \in Acknowledgeable, AcknowledgeNew(n) PROVE Order'
  BY <1>9, <1>g DEF AcknowledgeNew
<1>10. CASE PauseInitial
  BY <1>10, <1>g DEF PauseInitial
<1>11. CASE Start
  BY <1>11, <1>g DEF Start
<1>12. CASE PauseBegin
  BY <1>12, <1>g DEF PauseBegin
<1>13. CASE PauseEnd
  BY <1>13, <1>g DEF PauseEnd
<1>14. CASE AsyncExit
  BY <1>14, <1>f DEF AsyncExit
<1>15. CASE AsyncWait
  BY <1>15, <1>f DEF AsyncWait
<1>16. CASE AsyncWake
  BY <1>16, <1>f DEF AsyncWake
<1>17. CASE AsyncTake
  BY <1>17, <1>f DEF AsyncTake
<1>18. CASE AsyncBegin
  BY <1>18, <1>f DEF AsyncBegin
<1>19. CASE AsyncSendFails
  BY <1>19, <1>f DEF AsyncSendFails
<1>20. CASE AsyncDone
  BY <1>20, <1>f DEF AsyncDone
<1>21. ASSUME NEW chunks \in 1 .. MaxChunks, Put(chunks) PROVE Order'
  BY <1>21, <1>f DEF Put
<1>22. ASSUME NEW target \in {Stopping, Terminating}, Terminate0(target) PROVE Order'
  BY <1>22, <1>f DEF Terminate0
<1>23. ASSUME NEW target \in {Stopping, Terminating}, Join(target) PROVE Order'
  BY <1>23, <1>f DEF Join
<1>24. CASE UNCHANGED processorVars
  BY <1>24, <1>f DEF processorVars
<1>25. CASE ConnectAbandoned
  BY <1>25 DEF ConnectAbandoned
<1> QED
  BY <1>1, <1>2, <1>3, <1>4, <1>5, <1>6, <1>7, <1>8, <1>9, <1>10, <1>11, <1>12,
     <1>13, <1>14, <1>15, <1>16, <1>17, <1>18, <1>19, <1>20, <1>21, <1>22,
     <1>23, <1>24, <1>25
  DEF Next, Async, Wire, Terminator

-------------------------------------------------------------------------------
(* What a step does to the three counters of the abstract window.          *)

\* What one step may do to the three counters of the abstract window.
LEMMA WindowStep ==
  ASSUME Typed, [Next]_processorVars
  PROVE  \/ accepted' > accepted /\ UNCHANGED <<max_sent_seqn, acknowledged_seqn>>
         \/ /\ queue # <<>> /\ max_sent_seqn' = max_sent_seqn + 1
            /\ UNCHANGED <<accepted, acknowledged_seqn>>
         \/ acknowledged_seqn' > acknowledged_seqn /\ UNCHANGED <<max_sent_seqn, accepted>>
         \/ UNCHANGED <<accepted, max_sent_seqn, acknowledged_seqn>>
<1>1. ASSUME NEW chunks \in 1 .. MaxChunks, Put(chunks)
      PROVE  accepted' > accepted /\ UNCHANGED <<max_sent_seqn, acknowledged_seqn>>
  BY <1>1, BoundsAssumption DEF Put, Typed, TypeOK
<1>2. CASE AsyncSend
  BY <1>2 DEF AsyncSend
<1>3. ASSUME NEW n \in Acknowledgeable, AcknowledgeNew(n)
      PROVE  acknowledged_seqn' > acknowledged_seqn /\ UNCHANGED <<max_sent_seqn, accepted>>
  BY <1>3 DEF AcknowledgeNew
<1>4. CASE AsyncExit \/ AsyncWait \/ AsyncWake \/ AsyncTake \/ AsyncBegin
           \/ AsyncSendFails \/ AsyncDone
  BY <1>4 DEF AsyncExit, AsyncWait, AsyncWake, AsyncTake, AsyncBegin, AsyncSendFails,
              AsyncDone, senderVars
<1>5. CASE PauseInitial \/ Start \/ Connect \/ ConnectAbandoned \/ ResumeBegin
           \/ ReprocessBegin \/ Resend
           \/ ReprocessDone \/ ReprocessFails \/ AcknowledgeCleanup \/ PauseBegin
           \/ PauseEnd
  BY <1>5 DEF PauseInitial, Start, Connect, ConnectAbandoned, ResumeBegin, ReprocessBegin, Resend,
              ReprocessDone, ReprocessFails, ResumeEnd, AcknowledgeCleanup, PauseBegin,
              PauseEnd, senderVars
<1>6. CASE Terminator
  BY <1>6 DEF Terminator, Terminate0, Join, senderVars
<1>7. CASE UNCHANGED processorVars
  BY <1>7 DEF processorVars, senderVars
<1> QED
  BY <1>1, <1>2, <1>3, <1>4, <1>5, <1>6, <1>7 DEF Next, Async, Wire

\* The newest transmitted number never falls.
LEMMA SentGrows ==
  ASSUME Typed, [Next]_processorVars
  PROVE  max_sent_seqn <= max_sent_seqn'
BY WindowStep DEF Typed, TypeOK

-------------------------------------------------------------------------------
(* The theorems.                                                           *)

\* The inductive invariant holds of a new buffer.
LEMMA IInvInit == Init => IInv
<1> SUFFICES ASSUME Init PROVE IInv
  OBVIOUS
<1>1. Typed
  BY InitTyped
<1>2. Stream
  BY DEF Init, Stream, StreamIntact, Consecutive, AckWithinSent, AckPhase, SentBound,
         ResendExclusive
<1>3. Order
  BY DEF Init, Order, InOrderUnlessOvertaken, SentPosition
<1> QED BY <1>1, <1>2, <1>3 DEF IInv

\* The inductive invariant, for every number of packages and every way to split them.
THEOREM Invariance == Spec => []IInv
<1>1. IInv /\ [Next]_processorVars => IInv'
  BY TypedStep, StreamStep, OrderStep DEF IInv
<1> QED BY IInvInit, <1>1, PTL DEF Spec

\* Nothing put is lost, doubled or renumbered on its way through the processor, under
\* every interleaving of putters, async thread, wire thread and stop.
THEOREM StreamTheorem == Spec => []StreamIntact
<1>1. IInv => StreamIntact
  BY DEF IInv, Stream
<1> QED BY <1>1, Invariance, PTL

\* cleanup_pending_queue never pops from an empty deque, and acknowledgements stay
\* behind what was transmitted.
THEOREM AckTheorem == Spec => []AckWithinSent
<1>1. IInv => AckWithinSent
  BY DEF IInv, Stream
<1> QED BY <1>1, Invariance, PTL

\* process and reprocess never hand packages to the socket at the same time.
THEOREM ExclusionTheorem == Spec => []ResendExclusive
<1>1. IInv => ResendExclusive
  BY DEF IInv, Stream
<1> QED BY <1>1, Invariance, PTL

\* On every socket the numbers are gapless and in order, except after the window
\* between ThreadProc's check and process() let a package overtake.
THEOREM OrderTheorem == Spec => []InOrderUnlessOvertaken
<1>1. IInv => InOrderUnlessOvertaken
  BY DEF IInv, Order
<1> QED BY <1>1, Invariance, PTL

\* On a socket in use the transmitted numbers reach up to the newest package, so the
\* next new package continues them.
THEOREM ContinuesTheorem == Spec => []OnlineContinues
<1>1. IInv => OnlineContinues
  BY DEF IInv, Order, SentPosition, OnlineContinues
<1> QED BY <1>1, Invariance, PTL

\* Where the i-th package of a window sits after the window moved, if it is kept.
LEMMA PositionKept ==
  ASSUME NEW first \in Nat, NEW length \in Nat, NEW first2 \in Nat, NEW length2 \in Nat,
         NEW top \in Nat, NEW top2 \in Nat, NEW acked2 \in Nat, NEW i \in 1 .. length,
         first + length = top + 1, first2 + length2 = top2 + 1, top <= top2,
         first2 <= acked2 + 1, first + i - 1 > acked2
  PROVE  \E j \in 1 .. length2 : first2 + j = first + i
<1> DEFINE j == (first + i) - first2
<1>1. j \in 1 .. length2 /\ first2 + j = first + i
  OBVIOUS
<1> QED BY <1>1

\* The processor forgets a package only after an acknowledgement covers it.
THEOREM KeepTheorem == Spec => KeepUntilAcknowledged
<1> DEFINE Keep == \A i \in 1 .. Len(pending_queue) :
              \/ \E j \in 1 .. Len(pending_queue') : pending_queue'[j] = pending_queue[i]
              \/ pending_queue[i] <= acknowledged_seqn'
<1>1. ASSUME IInv, IInv', [Next]_processorVars PROVE [Keep]_processorVars
  <2> SUFFICES ASSUME NEW i \in 1 .. Len(pending_queue),
                      ~(pending_queue[i] <= acknowledged_seqn')
               PROVE  \E j \in 1 .. Len(pending_queue') :
                        pending_queue'[j] = pending_queue[i]
    OBVIOUS
  <2>1. /\ Len(pending_queue) \in Nat /\ Len(pending_queue') \in Nat
        /\ current_seqn \in Nat /\ current_seqn' \in Nat
        /\ max_sent_seqn \in Nat /\ max_sent_seqn' \in Nat
        /\ acknowledged_seqn' \in Nat
    <3>1. TypeOK /\ TypeOK'
      BY <1>1, Zenon DEF IInv, Typed
    <3>2. /\ pending_queue \in Seq(Nat) /\ current_seqn \in Nat /\ max_sent_seqn \in Nat
      BY <3>1 DEF TypeOK
    <3>3. /\ pending_queue' \in Seq(Nat) /\ current_seqn' \in Nat
          /\ max_sent_seqn' \in Nat /\ acknowledged_seqn' \in Nat
      BY <3>1 DEF TypeOK
    <3> QED BY <3>2, <3>3
  <2>2. /\ Consecutive(pending_queue, current_seqn)
        /\ current_seqn + Len(pending_queue) = max_sent_seqn + 1
    BY <1>1 DEF IInv, Stream, StreamIntact
  <2>3. /\ Consecutive(pending_queue', current_seqn')
        /\ current_seqn' + Len(pending_queue') = max_sent_seqn' + 1
        /\ current_seqn' <= acknowledged_seqn' + 1
    BY <1>1 DEF IInv, Stream, StreamIntact, AckWithinSent, Consecutive
  <2>4. max_sent_seqn <= max_sent_seqn'
    BY <1>1, <2>1, SentGrows DEF IInv
  <2>5. pending_queue[i] = current_seqn + i - 1
    BY <2>2 DEF Consecutive
  <2>6. PICK first \in Nat, length \in Nat, first2 \in Nat, length2 \in Nat,
             top \in Nat, top2 \in Nat, acked2 \in Nat :
          /\ first = current_seqn /\ length = Len(pending_queue)
          /\ first2 = current_seqn' /\ length2 = Len(pending_queue')
          /\ top = max_sent_seqn /\ top2 = max_sent_seqn'
          /\ acked2 = acknowledged_seqn'
    BY <2>1
  <2>7. /\ first + length = top + 1 /\ first2 + length2 = top2 + 1 /\ top <= top2
        /\ first2 <= acked2 + 1 /\ i \in 1 .. length
    BY <2>2, <2>3, <2>4, <2>6
  <2>8. first + i - 1 > acked2
    BY <2>5, <2>6
  <2>9. PICK j \in 1 .. length2 : first2 + j = first + i
    BY <2>7, <2>8, PositionKept
  <2>10. pending_queue'[j] = first2 + j - 1
    BY <2>3, <2>6 DEF Consecutive
  <2>11. pending_queue'[j] = pending_queue[i]
    <3>1. first2 + j - 1 = first + i - 1
      BY <2>7, <2>9
    <3> QED BY <2>5, <2>6, <2>10, <3>1
  <2> QED BY <2>6, <2>11
<1> QED BY <1>1, Invariance, PTL DEF Spec, KeepUntilAcknowledged

\* Whatever its threads do, the processor behaves like the abstract send window.
THEOREM RefinementTheorem == Spec => ImplementsWindow
<1>1. Init => Window!WindowInit
  BY DEF Init, Window!WindowInit
<1>2. ASSUME IInv, IInv', [Next]_processorVars
      PROVE  [Window!WindowNext]_(Window!window)
  <2>1. /\ max_sent_seqn + Len(queue) + Len(data) = accepted
        /\ max_sent_seqn' + Len(queue') + Len(data') = accepted'
        /\ accepted \in Nat /\ accepted' \in Nat
        /\ max_sent_seqn \in Nat /\ max_sent_seqn' \in Nat
        /\ acknowledged_seqn \in Nat /\ acknowledged_seqn' \in Nat
        /\ acknowledged_seqn' <= max_sent_seqn'
        /\ Len(queue) \in Nat /\ Len(data) \in Nat
    <3>1. /\ max_sent_seqn + Len(queue) + Len(data) = accepted
          /\ acknowledged_seqn <= max_sent_seqn
      BY <1>2 DEF IInv, Stream, StreamIntact, AckWithinSent
    <3>2. /\ max_sent_seqn' + Len(queue') + Len(data') = accepted'
          /\ acknowledged_seqn' <= max_sent_seqn'
      BY <1>2 DEF IInv, Stream, StreamIntact, AckWithinSent
    <3>3. /\ accepted \in Nat /\ max_sent_seqn \in Nat /\ acknowledged_seqn \in Nat
          /\ Len(queue) \in Nat /\ Len(data) \in Nat
      BY <1>2, BoundsAssumption DEF IInv, Typed, TypeOK
    <3>4. accepted' \in Nat /\ max_sent_seqn' \in Nat /\ acknowledged_seqn' \in Nat
      BY <1>2, BoundsAssumption DEF IInv, Typed, TypeOK
    <3> QED BY <3>1, <3>2, <3>3, <3>4
  <2>2. \/ accepted' > accepted /\ UNCHANGED <<max_sent_seqn, acknowledged_seqn>>
        \/ /\ queue # <<>> /\ max_sent_seqn' = max_sent_seqn + 1
           /\ UNCHANGED <<accepted, acknowledged_seqn>>
        \/ acknowledged_seqn' > acknowledged_seqn /\ UNCHANGED <<max_sent_seqn, accepted>>
        \/ UNCHANGED <<accepted, max_sent_seqn, acknowledged_seqn>>
    BY <1>2, WindowStep DEF IInv
  <2>3. queue # <<>> => Len(queue) > 0
    BY <1>2 DEF IInv, Typed, TypeOK
  <2> QED
    BY <2>1, <2>2, <2>3
    DEF Window!WindowNext, Window!window, Window!Accept, Window!Transmit,
        Window!Acknowledge
<1> QED BY <1>1, <1>2, Invariance, PTL DEF Spec, ImplementsWindow, Window!WindowSpec
-----------------------------------------------------------------------------
(***************************************************************************)
(* The second part: why nothing is acknowledged that the peer has not      *)
(* received, and nothing passed on twice, over any number of connections   *)
(* that break at any time.                                                 *)
(*                                                                         *)
(* First, every step of the link is a step of the processor, so that its   *)
(* invariant holds here too: what it says of the numbers transmitted on a  *)
(* socket is what makes those on the way to the peer continue what the     *)
(* peer has.                                                               *)
(***************************************************************************)
LinkTypeOK ==
  /\ link \in {"none", "up", "broken"}
  /\ toPeer \in Seq(Nat) /\ acks \in Seq(Nat)
  /\ max_received_seqn \in Nat
  /\ received \in SUBSET Nat /\ again \in SUBSET Nat /\ raced \in BOOLEAN

\* All of s was transmitted on the current socket.
Transmissions(s) == \A i \in 1 .. Len(s) : s[i] \in Acknowledgeable

\* What is on the way, and what comes back, belongs to the current socket.
OnSocket == LinkTypeOK /\ Transmissions(toPeer) /\ Transmissions(acks)

\* Overtaken numbers go out only on a socket that is replaced before it is used.
OvertakenSeen == overtaken => raced \/ wirePc = "offline"

\* A socket in use that has carried nothing had nothing to carry.
NothingToResend ==
  usable /\ ~overtaken /\ sent = <<>> /\ wirePc \notin {"connecting", "resuming", "resending"}
    => pending_queue = <<>>

\* The peer has all up to the largest number of the last run, all that was
\* acknowledged, and all that it acknowledges.
PeerHas ==
  /\ 1 .. max_received_seqn \subseteq received
  /\ 1 .. acknowledged_seqn \subseteq received
  /\ \A i \in 1 .. Len(acks) : 1 .. acks[i] \subseteq received

\* What is on the way continues what the peer has, number by number, ...
WayContinues ==
  /\ toPeer # <<>> => 1 .. toPeer[1] - 1 \subseteq received
  /\ \A i \in 1 .. Len(toPeer) - 1 : toPeer[i + 1] = toPeer[i] + 1

\* ... up to what was transmitted last.
WayReaches ==
  link = "up" /\ sent # <<>> =>
    IF toPeer = <<>> THEN 1 .. sent[Len(sent)] \subseteq received
                     ELSE toPeer[Len(toPeer)] = sent[Len(sent)]

\* Until package 1 comes again, the peer passed on each number once.
Once == 1 \in again \/ (again = {} /\ received \subseteq 1 .. max_received_seqn)

Ordered == PeerHas /\ WayContinues /\ WayReaches /\ Once

LinkInv == OvertakenSeen /\ NothingToResend /\ (raced \/ Ordered)
--------------------------------------------------------------------------------------
\* A number transmitted is among those transmitted on the socket, as all before.
LEMMA SentMore ==
  ASSUME sent \in Seq(Nat), NEW n \in Nat, sent' = Append(sent, n)
  PROVE  n \in Acknowledgeable' /\ Acknowledgeable \subseteq Acknowledgeable'
<1>1. /\ DOMAIN sent = 1 .. Len(sent) /\ DOMAIN sent' = 1 .. (Len(sent) + 1)
      /\ sent'[Len(sent) + 1] = n /\ \A i \in 1 .. Len(sent) : sent'[i] = sent[i]
      /\ Len(sent) \in Nat
  OBVIOUS
<1>2. /\ Len(sent) + 1 \in DOMAIN sent' /\ DOMAIN sent \subseteq DOMAIN sent' BY <1>1
<1>. QED BY <1>1, <1>2 DEF Acknowledgeable

\* One more number at the end of such a sequence.
LEMMA AppendTransmissions ==
  ASSUME NEW s \in Seq(Nat), NEW n \in Nat, NEW S,
         \A i \in 1 .. Len(s) : s[i] \in S, n \in S
  PROVE  /\ Append(s, n) \in Seq(Nat)
         /\ \A i \in 1 .. Len(Append(s, n)) : Append(s, n)[i] \in S
  OBVIOUS

\* One less at its beginning.
LEMMA TailTransmissions ==
  ASSUME NEW s \in Seq(Nat), s # <<>>, NEW S, \A i \in 1 .. Len(s) : s[i] \in S
  PROVE  /\ Head(s) \in S /\ Head(s) \in Nat
         /\ Tail(s) \in Seq(Nat) /\ \A i \in 1 .. Len(Tail(s)) : Tail(s)[i] \in S
  OBVIOUS

\* Nothing is on the way on a link that was never made.
LEMMA OnSocketInit == LinkInit => OnSocket
<1>. SUFFICES ASSUME LinkInit PROVE OnSocket OBVIOUS
<1>1. toPeer = <<>> /\ acks = <<>> BY DEF LinkInit
<1>2. LinkTypeOK
  <2>1. <<>> \in Seq(Nat) OBVIOUS
  <2>. QED BY <2>1 DEF LinkInit, LinkTypeOK
<1>3. Transmissions(toPeer) /\ Transmissions(acks) BY <1>1 DEF Transmissions
<1>. QED BY <1>2, <1>3 DEF OnSocket

\* What the link does to the processor is a step of the processor.
LEMMA ProcessorStep == OnSocket /\ [LinkNext]_vars => [Next]_processorVars
<1>. SUFFICES ASSUME OnSocket, [LinkNext]_vars PROVE [Next]_processorVars OBVIOUS
<1>1. CASE LinkSend BY <1>1 DEF LinkSend, Next, Async, Wire
<1>2. CASE LinkSendFails BY <1>2 DEF LinkSendFails, Next, Async, Wire
<1>3. CASE LinkConnect BY <1>3 DEF LinkConnect, Next, Wire
<1>4. CASE Break BY <1>4 DEF Break
<1>5. CASE LinkAcknowledge
  <2>1. Head(acks) \in Acknowledgeable
    BY <1>5, TailTransmissions DEF LinkAcknowledge, OnSocket, LinkTypeOK, Transmissions
  <2>. QED BY <1>5, <2>1 DEF LinkAcknowledge, Next, Wire
<1>6. CASE PeerReceive BY <1>6 DEF PeerReceive
<1>7. CASE LinkLocal BY <1>7 DEF LinkLocal, Next, Async, Wire
<1>8. CASE UNCHANGED vars BY <1>8 DEF vars
<1>. QED BY <1>1, <1>2, <1>3, <1>4, <1>5, <1>6, <1>7, <1>8 DEF LinkNext

\* Only the transmissions of packages and a new connection change sent.
LEMMA SentKept ==
  ASSUME LinkSendFails \/ Break \/ LinkAcknowledge \/ PeerReceive \/ LinkLocal \/ UNCHANGED vars
  PROVE  sent' = sent
<1>1. CASE LinkSendFails
  BY <1>1 DEF LinkSendFails, AsyncSendFails, ReprocessFails, ResumeEnd
<1>2. CASE Break BY <1>2 DEF Break, processorVars, socketVars
<1>3. CASE LinkAcknowledge
  BY <1>3 DEF LinkAcknowledge, AcknowledgeNew, processorVars, socketVars
<1>4. CASE PeerReceive BY <1>4 DEF PeerReceive, processorVars, socketVars
<1>5. CASE LinkLocal
  BY <1>5 DEF LinkLocal, Put, AsyncExit, AsyncWait, AsyncWake, AsyncTake, AsyncBegin, AsyncDone,
              PauseInitial, Start, ConnectAbandoned, ResumeBegin, ReprocessBegin, ReprocessDone,
              ResumeEnd, AcknowledgeCleanup, PauseBegin, PauseEnd, Terminator, Terminate0, Join,
              socketVars
<1>6. CASE UNCHANGED vars BY <1>6 DEF vars, processorVars, socketVars
<1>. QED BY <1>1, <1>2, <1>3, <1>4, <1>5, <1>6

\* What is sent: the number, and that it goes on the way when the link is up.
LEMMA SendEffect ==
  ASSUME Typed, LinkSend
  PROVE  \E n \in Nat : /\ sent' = Append(sent, n)
                        /\ toPeer' = IF link = "up" THEN Append(toPeer, n) ELSE toPeer
                        /\ UNCHANGED <<link, acks, peerVars>>
<1>1. CASE AsyncSend /\ Transmitted(max_sent_seqn + 1) /\ UNCHANGED <<link, acks, peerVars>>
  <2>1. max_sent_seqn + 1 \in Nat BY DEF Typed, TypeOK
  <2>. QED BY <1>1, <2>1 DEF AsyncSend, Transmitted
<1>2. CASE Resend /\ Transmitted(current_seqn + resent) /\ UNCHANGED <<link, acks, peerVars>>
  <2>1. current_seqn + resent \in Nat BY DEF Typed, TypeOK
  <2>. QED BY <1>2, <2>1 DEF Resend, Transmitted
<1>. QED BY <1>1, <1>2 DEF LinkSend

\* Every step keeps what is on the way on the current socket.
LEMMA OnSocketStep == Typed /\ OnSocket /\ [LinkNext]_vars => OnSocket'
<1>. SUFFICES ASSUME Typed, OnSocket, [LinkNext]_vars PROVE OnSocket' OBVIOUS
<1>. USE DEF OnSocket
<1>1. /\ LinkTypeOK /\ toPeer \in Seq(Nat) /\ acks \in Seq(Nat) /\ sent \in Seq(Nat)
      /\ \A i \in 1 .. Len(toPeer) : toPeer[i] \in Acknowledgeable
      /\ \A i \in 1 .. Len(acks) : acks[i] \in Acknowledgeable
  BY DEF LinkTypeOK, Typed, TypeOK, Transmissions
<1>2. CASE LinkSend
  <2>1. PICK n \in Nat : /\ sent' = Append(sent, n)
                         /\ toPeer' = IF link = "up" THEN Append(toPeer, n) ELSE toPeer
                         /\ UNCHANGED <<link, acks, peerVars>>
    BY <1>2, SendEffect
  <2>2. n \in Acknowledgeable' /\ Acknowledgeable \subseteq Acknowledgeable'
    BY <1>1, <2>1, SentMore
  <2>3. /\ Append(toPeer, n) \in Seq(Nat)
        /\ \A i \in 1 .. Len(Append(toPeer, n)) : Append(toPeer, n)[i] \in Acknowledgeable'
    BY <1>1, <2>2, AppendTransmissions
  <2>4. Transmissions(toPeer)' /\ toPeer' \in Seq(Nat)
    BY <1>1, <2>1, <2>2, <2>3 DEF Transmissions
  <2>5. Transmissions(acks)' BY <1>1, <2>1, <2>2 DEF Transmissions
  <2>6. raced' \in BOOLEAN BY <1>1, <1>2 DEF LinkSend, LinkTypeOK, AsyncSend
  <2>. QED BY <1>1, <2>1, <2>4, <2>5, <2>6 DEF LinkTypeOK, peerVars
<1>3. CASE LinkConnect
  <2>1. toPeer' = <<>> /\ acks' = <<>> BY <1>3 DEF LinkConnect
  <2>2. Transmissions(toPeer)' /\ Transmissions(acks)' BY <2>1 DEF Transmissions
  <2>3. LinkTypeOK'
    <3>1. <<>> \in Seq(Nat) OBVIOUS
    <3>. QED BY <1>1, <1>3, <3>1 DEF LinkConnect, LinkTypeOK, peerVars
  <2>. QED BY <2>2, <2>3
<1>4. ASSUME sent' = sent PROVE Acknowledgeable' = Acknowledgeable BY <1>4 DEF Acknowledgeable
<1>5. CASE LinkAcknowledge
  <2>1. Acknowledgeable' = Acknowledgeable BY <1>4, <1>5, SentKept
  <2>2. /\ Tail(acks) \in Seq(Nat)
        /\ \A i \in 1 .. Len(Tail(acks)) : Tail(acks)[i] \in Acknowledgeable
    BY <1>1, <1>5, TailTransmissions DEF LinkAcknowledge
  <2>3. acks' = Tail(acks) /\ UNCHANGED <<link, toPeer, peerVars, raced>> BY <1>5 DEF LinkAcknowledge
  <2>. QED BY <1>1, <2>1, <2>2, <2>3 DEF LinkTypeOK, Transmissions, peerVars
<1>6. CASE PeerReceive
  <2>1. Acknowledgeable' = Acknowledgeable BY <1>4, <1>6, SentKept
  <2>2. /\ Tail(toPeer) \in Seq(Nat) /\ Head(toPeer) \in Nat /\ Head(toPeer) \in Acknowledgeable
        /\ \A i \in 1 .. Len(Tail(toPeer)) : Tail(toPeer)[i] \in Acknowledgeable
    BY <1>1, <1>6, TailTransmissions DEF PeerReceive
  <2>3. /\ Append(acks, Head(toPeer)) \in Seq(Nat)
        /\ \A i \in 1 .. Len(Append(acks, Head(toPeer))) :
             Append(acks, Head(toPeer))[i] \in Acknowledgeable
    BY <1>1, <2>2, AppendTransmissions
  <2>4. /\ toPeer' = Tail(toPeer) /\ UNCHANGED <<link, raced>>
        /\ acks' = IF link = "up" THEN Append(acks, Head(toPeer)) ELSE acks
    BY <1>6 DEF PeerReceive
  <2>5. Transmissions(toPeer)' /\ toPeer' \in Seq(Nat) BY <2>1, <2>2, <2>4 DEF Transmissions
  <2>6. Transmissions(acks)' /\ acks' \in Seq(Nat) BY <1>1, <2>1, <2>3, <2>4 DEF Transmissions
  <2>7. max_received_seqn' \in Nat /\ received' \in SUBSET Nat /\ again' \in SUBSET Nat
    BY <1>1, <1>6, <2>2 DEF PeerReceive, LinkTypeOK, peerVars
  <2>. QED BY <1>1, <2>4, <2>5, <2>6, <2>7 DEF LinkTypeOK
<1>7. CASE UNCHANGED <<toPeer, acks, peerVars, raced>> /\ (link' = link \/ link' = "broken")
           /\ sent' = sent
  <2>1. Acknowledgeable' = Acknowledgeable BY <1>4, <1>7
  <2>. QED BY <1>1, <1>7, <2>1 DEF LinkTypeOK, Transmissions, peerVars
<1>. QED BY <1>2, <1>3, <1>5, <1>6, <1>7, SentKept
         DEF LinkNext, LinkSendFails, Break, LinkLocal, linkVars, vars, peerVars

\* Every behaviour of the link is one of the processor.
THEOREM LinkImplementsProcessor == LinkSpec => ImplementsProcessor
<1>1. LinkInit => Init BY DEF LinkInit
<1>2. Typed /\ OnSocket /\ [LinkNext]_vars => Typed' BY ProcessorStep, TypedStep
<1>3. LinkSpec => [](Typed /\ OnSocket)
  BY <1>1, <1>2, OnSocketInit, InitTyped, OnSocketStep, PTL DEF LinkSpec
<1>. QED BY <1>1, <1>3, ProcessorStep, PTL DEF LinkSpec, ImplementsProcessor, Spec
--------------------------------------------------------------------------------------
\* The invariant holds before there is a connection.
LEMMA LinkInvInit == LinkInit => LinkInv
<1>. SUFFICES ASSUME LinkInit PROVE LinkInv OBVIOUS
<1>1. OvertakenSeen /\ NothingToResend BY DEF LinkInit, Init, OvertakenSeen, NothingToResend
<1>2. PeerHas BY DEF LinkInit, Init, PeerHas
<1>3. WayContinues /\ WayReaches /\ Once BY DEF LinkInit, WayContinues, WayReaches, Once
<1>. QED BY <1>1, <1>2, <1>3 DEF LinkInv, Ordered

\* A transmission that was overtaken is recorded.
LEMMA OvertakenStep == OvertakenSeen /\ [LinkNext]_vars => OvertakenSeen'
<1>. SUFFICES ASSUME OvertakenSeen, [LinkNext]_vars PROVE OvertakenSeen' OBVIOUS
<1>. USE DEF OvertakenSeen
<1>1. CASE LinkSend BY <1>1 DEF LinkSend, AsyncSend, Resend, threadVars
<1>2. CASE LinkSendFails
  BY <1>2 DEF LinkSendFails, AsyncSendFails, ReprocessFails, ResumeEnd, linkVars
<1>3. CASE LinkConnect BY <1>3 DEF LinkConnect, Connect
<1>4. CASE Break BY <1>4 DEF Break, processorVars, socketVars, threadVars
<1>5. CASE LinkAcknowledge
  BY <1>5 DEF LinkAcknowledge, AcknowledgeNew, processorVars, socketVars, threadVars
<1>6. CASE PeerReceive BY <1>6 DEF PeerReceive, processorVars, socketVars, threadVars
<1>7. CASE LinkLocal
  BY <1>7 DEF LinkLocal, Put, AsyncExit, AsyncWait, AsyncWake, AsyncTake, AsyncBegin, AsyncDone,
              PauseInitial, Start, ConnectAbandoned, ResumeBegin, ReprocessBegin, ReprocessDone,
              ResumeEnd, AcknowledgeCleanup, PauseBegin, PauseEnd, Terminator, Terminate0, Join,
              socketVars, linkVars
<1>8. CASE UNCHANGED vars BY <1>8 DEF vars, processorVars, socketVars, threadVars, linkVars
<1>. QED BY <1>1, <1>2, <1>3, <1>4, <1>5, <1>6, <1>7, <1>8 DEF LinkNext

\* The end of a retransmission of nothing leaves nothing to retransmit.
LEMMA NothingStep == IInv /\ NothingToResend /\ [Next]_processorVars => NothingToResend'
<1>. SUFFICES ASSUME IInv, NothingToResend, [Next]_processorVars PROVE NothingToResend' OBVIOUS
<1>. USE DEF NothingToResend
<1>0. /\ sent \in Seq(Nat) /\ pending_queue \in Seq(Nat)
      /\ current_seqn \in Nat /\ acknowledged_seqn \in Nat
  BY DEF IInv, Typed, TypeOK
<1>1. ASSUME NEW chunks \in 1 .. MaxChunks, Put(chunks) PROVE NothingToResend'
  BY <1>1 DEF Put, socketVars
<1>2. CASE AsyncExit \/ AsyncWait \/ AsyncWake \/ AsyncTake \/ AsyncBegin \/ AsyncDone
  BY <1>2 DEF AsyncExit, AsyncWait, AsyncWake, AsyncTake, AsyncBegin, AsyncDone, senderVars, socketVars
<1>3. CASE AsyncSend
  <2>1. sent' = Append(sent, max_sent_seqn + 1) BY <1>3 DEF AsyncSend
  <2>2. sent' # <<>> BY <1>0, <2>1
  <2>. QED BY <2>2
<1>4. CASE AsyncSendFails BY <1>4 DEF AsyncSendFails
<1>5. CASE PauseInitial \/ Start \/ PauseBegin \/ PauseEnd
  BY <1>5 DEF PauseInitial, Start, PauseBegin, PauseEnd, senderVars, socketVars
<1>6. CASE Connect \/ ConnectAbandoned \/ ResumeBegin \/ ReprocessBegin
  BY <1>6 DEF Connect, ConnectAbandoned, ResumeBegin, ReprocessBegin
<1>7. CASE Resend BY <1>7 DEF Resend
<1>8. CASE ReprocessDone
  <2>. SUFFICES ASSUME ~overtaken', sent' = <<>> PROVE pending_queue' = <<>> OBVIOUS
  <2>1. ~overtaken /\ sent = <<>> /\ pending_queue' = pending_queue
    BY <1>8 DEF ReprocessDone, ResumeEnd, senderVars
  <2>2. resent = Len(sent) /\ resent = Len(pending_queue)
    BY <1>8, <2>1 DEF ReprocessDone, IInv, Order, SentPosition
  <2>. QED BY <1>0, <2>1, <2>2
<1>9. CASE ReprocessFails BY <1>9 DEF ReprocessFails
<1>10. ASSUME NEW n \in Acknowledgeable, AcknowledgeNew(n) PROVE NothingToResend'
  BY <1>10 DEF AcknowledgeNew, socketVars
<1>11. CASE AcknowledgeCleanup
  <2>. SUFFICES ASSUME pending_queue = <<>> PROVE pending_queue' = <<>>
    BY <1>11 DEF AcknowledgeCleanup, socketVars
  <2>1. CASE current_seqn <= acknowledged_seqn
    <3>1. pending_queue' = SubSeq(<<>>, acknowledged_seqn - current_seqn + 2, 0)
      BY <1>11, <2>1 DEF AcknowledgeCleanup, CleanupPendingQueue
    <3>2. acknowledged_seqn - current_seqn + 2 > 0 BY <1>0, <2>1
    <3>. QED BY <1>0, <3>1, <3>2
  <2>2. CASE ~(current_seqn <= acknowledged_seqn)
    BY <1>11, <2>2 DEF AcknowledgeCleanup, CleanupPendingQueue
  <2>. QED BY <2>1, <2>2
<1>12. CASE Terminator
  <2>1. UNCHANGED <<senderVars, wirePc, socketVars>>
    BY <1>12, Zenon DEF Terminator, Terminate0, Join
  <2>. QED BY <2>1 DEF senderVars, socketVars
<1>13. CASE UNCHANGED processorVars
  BY <1>13 DEF processorVars, senderVars, socketVars, threadVars
<1>. QED BY <1>1, <1>2, <1>3, <1>4, <1>5, <1>6, <1>7, <1>8, <1>9, <1>10, <1>11, <1>12, <1>13
         DEF Next, Async, Wire
\* The next number transmitted follows the last on the socket, or the first of
\* the socket follows what is acknowledged.
LEMMA NextNumber ==
  ASSUME IInv, IInv', OvertakenSeen, NothingToResend, LinkSend, ~raced'
  PROVE  \E n \in Nat :
           /\ sent' = Append(sent, n)
           /\ toPeer' = IF link = "up" THEN Append(toPeer, n) ELSE toPeer
           /\ UNCHANGED <<link, acks, peerVars, acknowledged_seqn>>
           /\ IF sent = <<>> THEN n <= acknowledged_seqn + 1 ELSE n = sent[Len(sent)] + 1
<1>. PICK n \in Nat : /\ sent' = Append(sent, n)
                      /\ toPeer' = IF link = "up" THEN Append(toPeer, n) ELSE toPeer
                      /\ UNCHANGED <<link, acks, peerVars>>
  BY SendEffect DEF IInv
<1>0. /\ sent \in Seq(Nat) /\ pending_queue \in Seq(Nat) /\ resent \in Nat
      /\ current_seqn \in Nat /\ acknowledged_seqn \in Nat /\ max_sent_seqn \in Nat
  BY DEF IInv, Typed, TypeOK
<1>1. acknowledged_seqn' = acknowledged_seqn BY DEF LinkSend, AsyncSend, Resend, senderVars
<1>2. ~overtaken' BY DEF LinkSend, Resend, OvertakenSeen
<1>3. CASE sent # <<>>
  <2>1. Len(sent) \in 1 .. Len(sent') - 1 /\ sent'[Len(sent)] = sent[Len(sent)]
        /\ sent'[Len(sent) + 1] = n
    BY <1>0, <1>3
  <2>2. n = sent[Len(sent)] + 1 BY <1>2, <2>1 DEF IInv, Order, InOrderUnlessOvertaken
  <2>. QED BY <1>1, <1>3, <2>2
<1>4. CASE sent = <<>>
  <2>0. n = sent'[1] BY <1>4
  <2>1. current_seqn <= acknowledged_seqn + 1
    BY DEF IInv, Stream, AckWithinSent
  <2>2. CASE Resend
    <3>1. n = current_seqn + resent BY <2>0, <2>2, <1>4 DEF Resend
    <3>2. wirePc = "resending" /\ ~overtaken BY <2>2, <1>2 DEF Resend
    <3>3. Len(sent) = resent BY <3>2 DEF IInv, Order, SentPosition
    <3>. QED BY <1>0, <1>1, <1>4, <2>1, <3>1, <3>3
  <2>3. CASE AsyncSend
    <3>1. n = max_sent_seqn + 1 BY <2>0, <2>3, <1>4 DEF AsyncSend
    <3>2. /\ usable /\ ~overtaken /\ wirePc \notin {"connecting", "resuming"}
      BY <2>3, <1>2 DEF AsyncSend
    <3>3. wirePc # "resending" BY <2>3 DEF AsyncSend, IInv, Stream, ResendExclusive
    <3>4. pending_queue = <<>> BY <3>2, <3>3, <1>4 DEF NothingToResend
    <3>5. current_seqn = max_sent_seqn + 1
      BY <1>0, <3>4 DEF IInv, Stream, StreamIntact
    <3>. QED BY <1>1, <1>4, <2>1, <3>1, <3>5
  <2>. QED BY <2>2, <2>3 DEF LinkSend
<1>. QED BY <1>3, <1>4

\* A transmission keeps the order.
LEMMA SendOrdered ==
  ASSUME IInv, IInv', OnSocket, OvertakenSeen, NothingToResend, Ordered, LinkSend, ~raced'
  PROVE  Ordered'
<1>1. PICK n \in Nat :
           /\ sent' = Append(sent, n)
           /\ toPeer' = IF link = "up" THEN Append(toPeer, n) ELSE toPeer
           /\ UNCHANGED <<link, acks, peerVars, acknowledged_seqn>>
           /\ IF sent = <<>> THEN n <= acknowledged_seqn + 1 ELSE n = sent[Len(sent)] + 1
  BY NextNumber
<1>2. /\ toPeer \in Seq(Nat) /\ acks \in Seq(Nat) /\ sent \in Seq(Nat)
      /\ acknowledged_seqn \in Nat
  BY DEF OnSocket, LinkTypeOK, IInv, Typed, TypeOK
<1>3. PeerHas' /\ Once' BY <1>1 DEF Ordered, PeerHas, Once, peerVars
<1>4. CASE link # "up" BY <1>1, <1>3, <1>4 DEF Ordered, WayContinues, WayReaches, peerVars
<1>5. CASE link = "up"
  <2>1. toPeer' = Append(toPeer, n) /\ received' = received /\ link' = link
    BY <1>1, <1>5 DEF peerVars
  <2>2. /\ sent' # <<>> /\ sent'[Len(sent')] = n /\ toPeer' # <<>> /\ toPeer'[Len(toPeer')] = n
    BY <1>1, <1>2, <2>1
  <2>3. WayReaches' BY <2>2 DEF WayReaches
  <2>4. CASE toPeer = <<>>
    <3>1. 1 .. n - 1 \subseteq received
      <4>1. CASE sent = <<>>
        <5>1. n - 1 <= acknowledged_seqn BY <1>1, <1>2, <4>1
        <5>2. 1 .. n - 1 \subseteq 1 .. acknowledged_seqn BY <1>2, <5>1
        <5>. QED BY <5>2 DEF Ordered, PeerHas
      <4>2. CASE sent # <<>>
        <5>1. 1 .. sent[Len(sent)] \subseteq received /\ sent[Len(sent)] \in Nat
          BY <1>2, <1>5, <2>4, <4>2 DEF Ordered, WayReaches
        <5>2. n - 1 = sent[Len(sent)] BY <1>1, <4>2, <5>1
        <5>. QED BY <5>1, <5>2
      <4>. QED BY <4>1, <4>2
    <3>2. Len(toPeer') = 1 /\ toPeer'[1] = n BY <2>1, <2>4
    <3>3. WayContinues' BY <2>1, <3>1, <3>2 DEF WayContinues
    <3>. QED BY <1>3, <2>3, <3>3 DEF Ordered
  <2>5. CASE toPeer # <<>>
    <3>1. sent # <<>>
      <4>1. toPeer[1] \in Acknowledgeable BY <1>2, <2>5 DEF OnSocket, Transmissions
      <4>. QED BY <4>1 DEF Acknowledgeable
    <3>2. n = toPeer[Len(toPeer)] + 1 BY <1>1, <1>5, <2>5, <3>1 DEF Ordered, WayReaches
    <3>3. /\ toPeer'[1] = toPeer[1] /\ Len(toPeer') = Len(toPeer) + 1
          /\ \A i \in 1 .. Len(toPeer) : toPeer'[i] = toPeer[i]
          /\ toPeer'[Len(toPeer) + 1] = n /\ Len(toPeer) \in Nat
      BY <1>2, <2>1, <2>5
    <3>4. \A i \in 1 .. Len(toPeer') - 1 : toPeer'[i + 1] = toPeer'[i] + 1
      <4>. TAKE i \in 1 .. Len(toPeer') - 1
      <4>1. CASE i = Len(toPeer) BY <3>2, <3>3, <4>1
      <4>2. CASE i # Len(toPeer)
        <5>1. i \in 1 .. Len(toPeer) - 1 /\ i \in 1 .. Len(toPeer) /\ i + 1 \in 1 .. Len(toPeer)
          BY <3>3, <4>2
        <5>. QED BY <3>3, <5>1 DEF Ordered, WayContinues
      <4>. QED BY <4>1, <4>2
    <3>5. WayContinues' BY <2>1, <2>5, <3>3, <3>4 DEF Ordered, WayContinues
    <3>. QED BY <1>3, <2>3, <3>5 DEF Ordered
  <2>. QED BY <2>4, <2>5
<1>. QED BY <1>4, <1>5
\* A new connection forgets what was on the way, and the peer keeps what it has.
LEMMA ConnectOrdered == Ordered /\ LinkConnect => Ordered'
<1>. SUFFICES ASSUME Ordered, LinkConnect PROVE Ordered' OBVIOUS
<1>1. /\ toPeer' = <<>> /\ acks' = <<>> /\ sent' = <<>>
      /\ UNCHANGED <<peerVars, acknowledged_seqn>>
  BY DEF LinkConnect, Connect, senderVars
<1>2. PeerHas' BY <1>1 DEF Ordered, PeerHas, peerVars
<1>3. WayContinues' /\ WayReaches' BY <1>1 DEF WayContinues, WayReaches
<1>4. Once' BY <1>1 DEF Ordered, Once, peerVars
<1>. QED BY <1>2, <1>3, <1>4 DEF Ordered

\* What the peer acknowledged it has.
LEMMA AcknowledgeOrdered == OnSocket /\ Ordered /\ LinkAcknowledge => Ordered'
<1>. SUFFICES ASSUME OnSocket, Ordered, LinkAcknowledge PROVE Ordered' OBVIOUS
<1>1. acks \in Seq(Nat) /\ acks # <<>> BY DEF OnSocket, LinkTypeOK, LinkAcknowledge
<1>2. /\ acks' = Tail(acks) /\ UNCHANGED <<link, toPeer, peerVars>>
      /\ acknowledged_seqn' \in {acknowledged_seqn, Head(acks)}
  BY DEF LinkAcknowledge, AcknowledgeNew, processorVars, senderVars
<1>3. sent' = sent BY SentKept
<1>4. \A i \in 1 .. Len(acks') : 1 .. acks'[i] \subseteq received
  <2>1. \A i \in 1 .. Len(acks') : i + 1 \in 1 .. Len(acks) /\ acks'[i] = acks[i + 1]
    BY <1>1, <1>2
  <2>. QED BY <2>1 DEF Ordered, PeerHas
<1>5. 1 .. acknowledged_seqn' \subseteq received
  <2>1. 1 \in 1 .. Len(acks) /\ Head(acks) = acks[1] BY <1>1
  <2>2. 1 .. Head(acks) \subseteq received BY <2>1 DEF Ordered, PeerHas
  <2>. QED BY <1>2, <2>2 DEF Ordered, PeerHas
<1>6. PeerHas' BY <1>2, <1>4, <1>5 DEF Ordered, PeerHas, peerVars
<1>. QED BY <1>2, <1>3, <1>6 DEF Ordered, WayContinues, WayReaches, Once, peerVars

\* What the peer receives continues what it has, and is new unless it is 1.
LEMMA ReceiveOrdered == IInv /\ OnSocket /\ Ordered /\ PeerReceive => Ordered'
<1>. SUFFICES ASSUME IInv, OnSocket, Ordered, PeerReceive PROVE Ordered' OBVIOUS
<1>1. /\ toPeer \in Seq(Nat) /\ toPeer # <<>> /\ acks \in Seq(Nat) /\ sent \in Seq(Nat)
      /\ max_received_seqn \in Nat
  BY DEF OnSocket, LinkTypeOK, PeerReceive, IInv, Typed, TypeOK
<1>. PICK n \in Nat : n = Head(toPeer) BY <1>1
<1>2. /\ toPeer' = Tail(toPeer) /\ link' = link /\ acknowledged_seqn' = acknowledged_seqn
      /\ acks' = IF link = "up" THEN Append(acks, n) ELSE acks
      /\ IF Duplicate(n)
         THEN UNCHANGED peerVars
         ELSE /\ max_received_seqn' = n
              /\ received' = received \cup {n}
              /\ again' = again \cup (received \cap {n})
  BY DEF PeerReceive, processorVars, senderVars
<1>3. sent' = sent BY SentKept
<1>4. n = toPeer[1] /\ 1 .. n - 1 \subseteq received BY <1>1 DEF Ordered, WayContinues
<1>5. n \in 1 .. max_sent_seqn
  <2>1. toPeer[1] \in Acknowledgeable BY <1>1 DEF OnSocket, Transmissions
  <2>2. PICK i \in 1 .. Len(sent) : sent[i] = n BY <1>1, <1>4, <2>1 DEF Acknowledgeable
  <2>. QED BY <2>2 DEF IInv, Stream, SentBound
<1>6. received \subseteq received' /\ 1 .. n \subseteq received' /\ 1 .. max_received_seqn' \subseteq received'
  <2>1. 1 .. max_received_seqn \subseteq received BY DEF Ordered, PeerHas
  <2>2. CASE Duplicate(n)
    <3>1. 1 .. n \subseteq 1 .. max_received_seqn BY <1>1, <2>2 DEF Duplicate
    <3>. QED BY <1>2, <2>1, <2>2, <3>1 DEF peerVars
  <2>3. CASE ~Duplicate(n)
    <3>1. 1 .. n \subseteq (1 .. n - 1) \cup {n} OBVIOUS
    <3>. QED BY <1>2, <1>4, <2>3, <3>1
  <2>. QED BY <2>2, <2>3
<1>7. PeerHas'
  <2>1. \A i \in 1 .. Len(acks') : acks'[i] = n \/ (i \in 1 .. Len(acks) /\ acks'[i] = acks[i])
    BY <1>1, <1>2
  <2>2. \A i \in 1 .. Len(acks') : 1 .. acks'[i] \subseteq received'
    BY <1>6, <2>1 DEF Ordered, PeerHas
  <2>. QED BY <1>2, <1>6, <2>2 DEF Ordered, PeerHas
<1>8. /\ \A i \in 1 .. Len(toPeer') : i + 1 \in 1 .. Len(toPeer) /\ toPeer'[i] = toPeer[i + 1]
      /\ Len(toPeer') = Len(toPeer) - 1 /\ Len(toPeer) \in Nat
      /\ toPeer' = <<>> <=> Len(toPeer) = 1
  <2>1. Len(Tail(toPeer)) = Len(toPeer) - 1 /\ Len(toPeer) \in Nat BY <1>1
  <2>2. \A i \in 1 .. Len(Tail(toPeer)) : i + 1 \in 1 .. Len(toPeer) /\ Tail(toPeer)[i] = toPeer[i + 1]
    BY <1>1
  <2>3. Tail(toPeer) = <<>> <=> Len(Tail(toPeer)) = 0
    <3>1. \A s \in Seq(Nat) : s = <<>> <=> Len(s) = 0 OBVIOUS
    <3>2. Tail(toPeer) \in Seq(Nat) BY <1>1
    <3>. QED BY <3>1, <3>2
  <2>. QED BY <1>2, <2>1, <2>2, <2>3
<1>9. WayContinues'
  <2>1. ASSUME toPeer' # <<>> PROVE 1 .. toPeer'[1] - 1 \subseteq received'
    <3>1. 1 \in 1 .. Len(toPeer) - 1 /\ 1 \in 1 .. Len(toPeer') BY <1>1, <1>8, <2>1
    <3>2. toPeer'[1] = n + 1 BY <1>4, <1>8, <3>1 DEF Ordered, WayContinues
    <3>3. toPeer'[1] - 1 = n BY <3>2
    <3>. QED BY <3>3, <1>6
  <2>2. ASSUME NEW i \in 1 .. Len(toPeer') - 1 PROVE toPeer'[i + 1] = toPeer'[i] + 1
    <3>1. /\ i \in 1 .. Len(toPeer') /\ i + 1 \in 1 .. Len(toPeer')
          /\ i + 1 \in 1 .. Len(toPeer) - 1
      BY <1>8
    <3>2. toPeer'[i] = toPeer[i + 1] /\ toPeer'[i + 1] = toPeer[(i + 1) + 1] BY <1>8, <3>1
    <3>. QED BY <3>1, <3>2 DEF Ordered, WayContinues
  <2>. QED BY <2>1, <2>2 DEF WayContinues
<1>10. WayReaches'
  <2>. SUFFICES ASSUME link = "up", sent # <<>>
       PROVE IF toPeer' = <<>> THEN 1 .. sent[Len(sent)] \subseteq received'
                               ELSE toPeer'[Len(toPeer')] = sent[Len(sent)]
    BY <1>2, <1>3 DEF WayReaches
  <2>1. toPeer[Len(toPeer)] = sent[Len(sent)] BY <1>1 DEF Ordered, WayReaches
  <2>2. CASE toPeer' = <<>> BY <1>4, <1>6, <1>8, <2>1, <2>2
  <2>3. CASE toPeer' # <<>>
    <3>1. Len(toPeer') \in 1 .. Len(toPeer') BY <1>1, <1>8, <2>3
    <3>2. toPeer'[Len(toPeer')] = toPeer[Len(toPeer)] BY <1>8, <3>1
    <3>. QED BY <2>1, <2>3, <3>2
  <2>. QED BY <2>2, <2>3
<1>11. Once'
  <2>1. CASE Duplicate(n) BY <1>2, <2>1 DEF Ordered, Once, peerVars
  <2>2. CASE ~Duplicate(n) /\ 1 \in again BY <1>2, <2>2 DEF Once
  <2>3. CASE ~Duplicate(n) /\ 1 \notin again
    <3>1. again = {} /\ received \subseteq 1 .. max_received_seqn BY <2>3 DEF Ordered, Once
    <3>2. CASE n \in received /\ n = 1 BY <1>2, <2>3, <3>2 DEF Once
    <3>3. CASE n \in received /\ n # 1
      <4>1. n <= max_received_seqn BY <3>1, <3>3
      <4>. QED BY <4>1, <3>3, <2>3 DEF Duplicate
    <3>4. CASE n \notin received
      <4>1. again' = {} BY <1>2, <2>3, <3>1, <3>4
      <4>2. max_received_seqn <= n
        <5>1. CASE n = 1
          <6>1. 1 \notin 1 .. max_received_seqn BY <3>4, <5>1 DEF Ordered, PeerHas
          <6>. QED BY <6>1, <5>1, <1>1
        <5>2. CASE n # 1 BY <2>3, <5>2, <1>1 DEF Duplicate
        <5>. QED BY <5>1, <5>2
      <4>3. 1 .. max_received_seqn \subseteq 1 .. n /\ n \in 1 .. n BY <1>1, <1>5, <4>2
      <4>4. received' \subseteq 1 .. max_received_seqn' BY <1>2, <2>3, <3>1, <4>3
      <4>. QED BY <4>1, <4>4 DEF Once
    <3>. QED BY <3>2, <3>3, <3>4
  <2>. QED BY <2>1, <2>2, <2>3
<1>. QED BY <1>7, <1>9, <1>10, <1>11 DEF Ordered
\* What touches neither the peer nor what is on the way changes nothing of this.
LEMMA OtherOrdered ==
  ASSUME Ordered,
         UNCHANGED <<toPeer, acks, peerVars, sent, acknowledged_seqn>>,
         link' = link \/ link' = "broken"
  PROVE  Ordered'
  BY DEF Ordered, PeerHas, WayContinues, WayReaches, Once, peerVars

\* Every step keeps the invariant of the link.
LEMMA LinkInvStep ==
  IInv /\ IInv' /\ OnSocket /\ LinkInv /\ [LinkNext]_vars => LinkInv'
<1>. SUFFICES ASSUME IInv, IInv', OnSocket, LinkInv, [LinkNext]_vars PROVE LinkInv' OBVIOUS
<1>1. OvertakenSeen /\ NothingToResend /\ OvertakenSeen' /\ NothingToResend'
  BY OvertakenStep, NothingStep, ProcessorStep DEF LinkInv
<1>2. raced => raced'
  BY DEF LinkNext, LinkSend, LinkSendFails, LinkConnect, Break, LinkAcknowledge, PeerReceive,
         LinkLocal, linkVars, vars
<1>. SUFFICES ASSUME ~raced', Ordered PROVE Ordered' BY <1>1, <1>2 DEF LinkInv
<1>3. CASE LinkSend BY <1>1, <1>3, SendOrdered
<1>4. CASE LinkConnect BY <1>4, ConnectOrdered
<1>5. CASE LinkAcknowledge BY <1>5, AcknowledgeOrdered
<1>6. CASE PeerReceive BY <1>6, ReceiveOrdered
<1>7. CASE LinkSendFails
  <2>1. acknowledged_seqn' = acknowledged_seqn
    BY <1>7 DEF LinkSendFails, AsyncSendFails, ReprocessFails, ResumeEnd, senderVars
  <2>. QED BY <1>7, <2>1, SentKept, OtherOrdered DEF LinkSendFails, linkVars, peerVars
<1>8. CASE Break BY <1>8, SentKept, OtherOrdered DEF Break, processorVars, senderVars
<1>9. CASE LinkLocal
  <2>1. acknowledged_seqn' = acknowledged_seqn
    BY <1>9 DEF LinkLocal, Put, AsyncExit, AsyncWait, AsyncWake, AsyncTake, AsyncBegin, AsyncDone,
                PauseInitial, Start, ConnectAbandoned, ResumeBegin, ReprocessBegin, ReprocessDone,
                ResumeEnd, AcknowledgeCleanup, PauseBegin, PauseEnd, Terminator, Terminate0, Join,
                senderVars
  <2>. QED BY <1>9, <2>1, SentKept, OtherOrdered DEF LinkLocal, linkVars, peerVars
<1>10. CASE UNCHANGED vars
  BY <1>10, SentKept, OtherOrdered DEF vars, linkVars, peerVars, processorVars, senderVars
<1>. QED BY <1>3, <1>4, <1>5, <1>6, <1>7, <1>8, <1>9, <1>10 DEF LinkNext

\* The invariants of the processor and of the link hold in every state.
THEOREM LinkInvariance == LinkSpec => [](IInv /\ OnSocket /\ LinkInv)
<1>1. LinkSpec => []IInv BY LinkImplementsProcessor, Invariance, PTL DEF ImplementsProcessor
<1>2. IInv => Typed BY DEF IInv
<1>. QED BY <1>1, <1>2, OnSocketInit, OnSocketStep, LinkInvInit, LinkInvStep, PTL DEF LinkSpec

\* What the sender forgets the peer has received, over any number of connections.
THEOREM ForgottenIsReceived == LinkSpec => []AcknowledgedReceived
<1>1. LinkInv => AcknowledgedReceived BY DEF LinkInv, Ordered, PeerHas, AcknowledgedReceived
<1>. QED BY <1>1, LinkInvariance, PTL

\* The two halves of the link's correctness: nothing acknowledged is missing, and
\* nothing retransmitted is passed on twice, but after a repeated first package.
THEOREM LinkCorrectness == LinkSpec => []LinkCorrect
<1>1. LinkInv => AtMostOnceUnlessFirstAgain
  BY DEF LinkInv, Ordered, Once, AtMostOnceUnlessFirstAgain
<1>2. LinkInv => LinkCorrect
  BY <1>1 DEF LinkInv, Ordered, PeerHas, AcknowledgedReceived, LinkCorrect
<1>. QED BY <1>2, LinkInvariance, PTL
===============================================================================
