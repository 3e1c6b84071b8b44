--------------------------- MODULE DBWriterQueueProofs ---------------------------
(***************************************************************************)
(* The write queue, for any number of producers, callers of Stop and tasks *)
(* and any buffer: the lock keeps sends off the closed channel, no         *)
(* accepted write is lost, and the queue implements the safety part of     *)
(* WriteLog.                                                               *)
(***************************************************************************)
EXTENDS DBWriterQueue, SequenceTheorems, TLAPS

\* A worker that returned has drained the closed channel, and the caller
\* that is let go waited for it.
WorkerEnds ==
  /\ worker.pc = "returned" => stopped /\ taskChan = << >>
  /\ (\E s \in Stoppers : stopper[s] = "drained") => worker.pc = "returned"

QInv ==
  /\ QueueTypeOK
  /\ NoSendOnClosed
  /\ NothingLost
  /\ WorkerEnds

-------------------------------------------------------------------------------
(* Facts about the tasks that the worker holds.                            *)

LEMMA BacklogType ==
  ASSUME QueueTypeOK PROVE Backlog \in Seq(Tasks)
<1>1. taskChan \in Seq(Tasks) /\ << >> \in Seq(Tasks)
  BY DEF QueueTypeOK
<1>2. worker.pc = "running" => << worker.task >> \in Seq(Tasks)
  BY DEF QueueTypeOK, Running, Receiving, Returned
<1> QED
  BY <1>1, <1>2, ConcatProperties DEF Backlog

\* A send appends to the backlog.
LEMMA BacklogAppend ==
  ASSUME QueueTypeOK, NEW t \in Tasks,
         taskChan' = Append(taskChan, t), UNCHANGED worker
  PROVE  Backlog' = Append(Backlog, t)
<1>1. taskChan \in Seq(Tasks)
  BY DEF QueueTypeOK
<1>2. CASE worker.pc = "running"
  <2>1. worker.task \in Tasks
    BY <1>2 DEF QueueTypeOK, Running, Receiving, Returned
  <2>2. /\ Backlog = << worker.task >> \o taskChan
        /\ Backlog' = << worker.task >> \o Append(taskChan, t)
    BY <1>2 DEF Backlog
  <2>3. /\ << worker.task >> \in Seq(Tasks) /\ << t >> \in Seq(Tasks)
        /\ << worker.task >> \o taskChan \in Seq(Tasks)
    BY <1>1, <2>1, ConcatProperties
  <2>4. Append(taskChan, t) = taskChan \o << t >>
    BY <1>1, AppendIsConcat
  <2>5. Append(<< worker.task >> \o taskChan, t)
          = (<< worker.task >> \o taskChan) \o << t >>
    BY <2>3, AppendIsConcat
  <2> QED
    BY <1>1, <2>2, <2>3, <2>4, <2>5, ConcatAssociative
<1>3. CASE worker.pc # "running"
  <2>1. Append(taskChan, t) \in Seq(Tasks)
    BY <1>1, AppendProperties
  <2> QED
    BY <1>1, <1>3, <2>1, ConcatEmptySeq DEF Backlog
<1> QED
  BY <1>2, <1>3

\* Receiving a task leaves the backlog as it is.
LEMMA BacklogReceive ==
  ASSUME QueueTypeOK, WorkerReceive PROVE Backlog' = Backlog
<1>1. taskChan \in Seq(Tasks) /\ taskChan # << >> /\ worker.pc = "receiving"
  BY DEF QueueTypeOK, WorkerReceive
<1>2. Backlog = taskChan
  BY <1>1, ConcatEmptySeq DEF Backlog
<1>3. Backlog' = << Head(taskChan) >> \o Tail(taskChan)
  BY DEF Backlog, WorkerReceive, Running
<1>4. << Head(taskChan) >> \o Tail(taskChan) = taskChan
  BY <1>1
<1> QED
  BY <1>2, <1>3, <1>4

\* Finishing a task takes the head off the backlog.
LEMMA BacklogDone ==
  ASSUME QueueTypeOK, WorkerDone
  PROVE  /\ Backlog # << >>
         /\ Head(Backlog) = worker.task
         /\ Backlog' = Tail(Backlog)
<1>1. taskChan \in Seq(Tasks) /\ worker.pc = "running" /\ worker.task \in Tasks
  BY DEF QueueTypeOK, WorkerDone, Running, Receiving, Returned
<1>2. Backlog = << worker.task >> \o taskChan
  BY <1>1 DEF Backlog
<1>3. Backlog' = taskChan
  BY <1>1, ConcatEmptySeq DEF Backlog, WorkerDone, Receiving
<1>4. /\ << worker.task >> \o taskChan # << >>
      /\ Head(<< worker.task >> \o taskChan) = worker.task
      /\ Tail(<< worker.task >> \o taskChan) = taskChan
  BY <1>1
<1> QED
  BY <1>2, <1>3, <1>4

-------------------------------------------------------------------------------
(* The inductive invariant.                                                *)

LEMMA QueueInit == Init => QInv
<1> SUFFICES ASSUME Init PROVE QInv
  OBVIOUS
<1>1. << >> \in Seq(Tasks) /\ Len(<< >>) = 0
  OBVIOUS
<1>2. QueueTypeOK
  <2>1. /\ taskChan \in Seq(Tasks) /\ Len(taskChan) <= BufferSize
        /\ offered \in 0 .. MaxTasks
        /\ accepted \in Seq(Tasks) /\ executed \in Seq(Tasks)
    BY <1>1, QueueAssumption DEF Init
  <2> QED
    BY <2>1 DEF Init, QueueTypeOK
<1>3. NoSendOnClosed /\ WorkerEnds
  BY DEF Init, NoSendOnClosed, WorkerEnds, Readers, IdleProducer, Receiving
<1>4. NothingLost
  <2>1. Backlog = << >>
    BY <1>1, ConcatEmptySeq DEF Init, Backlog, Receiving
  <2> QED
    BY <1>1, <2>1, ConcatEmptySeq DEF Init, NothingLost
<1> QED
  BY <1>2, <1>3, <1>4 DEF QInv

\* The steps of Enqueue.
LEMMA QueueEnqueueStep ==
  ASSUME QInv, NEW p \in Producers, EnqueueCheck(p) \/ EnqueueSend(p)
  PROVE  QInv'
<1>0. QueueTypeOK /\ NoSendOnClosed /\ NothingLost /\ WorkerEnds
  BY DEF QInv
<1>1. CASE EnqueueCheck(p)
  <2>1. /\ UNCHANGED << taskChan, stopped, stopper, worker, accepted, executed,
                        panicked >>
        /\ offered' = offered + 1 /\ offered < MaxTasks
        /\ producer' \in {producer, [producer EXCEPT ![p] = Sending(offered + 1)]}
        /\ stopped => producer' = producer
    BY <1>1 DEF EnqueueCheck
  <2>2. offered + 1 \in Tasks /\ offered' \in 0 .. MaxTasks
    BY <1>0, <2>1, QueueAssumption DEF QueueTypeOK, Tasks
  <2>3. producer' \in [Producers -> {IdleProducer} \cup {Sending(t) : t \in Tasks}]
    BY <1>0, <2>1, <2>2 DEF QueueTypeOK
  <2>4. QueueTypeOK'
    BY <1>0, <2>1, <2>2, <2>3 DEF QueueTypeOK
  <2>5. NoSendOnClosed'
    BY <1>0, <2>1 DEF NoSendOnClosed, Readers
  <2>6. NothingLost' /\ WorkerEnds'
    BY <1>0, <2>1 DEF NothingLost, Backlog, WorkerEnds
  <2> QED
    BY <2>4, <2>5, <2>6 DEF QInv
<1>2. CASE EnqueueSend(p)
  <2>1. /\ producer[p].pc = "sending" /\ p \in Readers /\ ~stopped
        /\ producer' = [producer EXCEPT ![p] = IdleProducer]
        /\ UNCHANGED << stopped, stopper, worker, offered, executed >>
    BY <1>0, <1>2 DEF EnqueueSend, NoSendOnClosed, Readers
  <2>2. producer[p].task \in Tasks
    BY <1>0, <2>1 DEF QueueTypeOK, IdleProducer, Sending
  <2>3. producer' \in [Producers -> {IdleProducer} \cup {Sending(t) : t \in Tasks}]
    BY <1>0, <2>1 DEF QueueTypeOK
  <2>4. Readers' \subseteq Readers
    BY <1>0, <2>1 DEF QueueTypeOK, Readers, IdleProducer
  <2>5. CASE Len(taskChan) < BufferSize
    <3>1. /\ taskChan' = Append(taskChan, producer[p].task)
          /\ accepted' = Append(accepted, producer[p].task)
          /\ UNCHANGED panicked
      BY <1>2, <2>1, <2>5 DEF EnqueueSend
    <3>2. /\ taskChan' \in Seq(Tasks) /\ Len(taskChan') <= BufferSize
          /\ accepted' \in Seq(Tasks)
      BY <1>0, <2>2, <2>5, <3>1, QueueAssumption, AppendProperties
         DEF QueueTypeOK
    <3>3. QueueTypeOK'
      BY <1>0, <2>1, <2>3, <3>1, <3>2 DEF QueueTypeOK
    <3>4. NothingLost'
      <4>1. Backlog' = Append(Backlog, producer[p].task)
        BY <1>0, <2>1, <2>2, <3>1, BacklogAppend
      <4>2. /\ executed \in Seq(Tasks) /\ Backlog \in Seq(Tasks)
            /\ << producer[p].task >> \in Seq(Tasks)
        BY <1>0, <2>2, BacklogType DEF QueueTypeOK
      <4>3. executed \o Append(Backlog, producer[p].task)
              = Append(executed \o Backlog, producer[p].task)
        BY <4>2, <2>2, AppendIsConcat, ConcatAssociative, ConcatProperties
      <4> QED
        BY <1>0, <2>1, <3>1, <4>1, <4>3 DEF NothingLost
    <3>5. NoSendOnClosed' /\ WorkerEnds'
      BY <1>0, <2>1, <2>4, <3>1 DEF NoSendOnClosed, WorkerEnds
    <3> QED
      BY <3>3, <3>4, <3>5 DEF QInv
  <2>6. CASE ~(Len(taskChan) < BufferSize)
    <3>1. UNCHANGED << taskChan, accepted, panicked >>
      BY <1>2, <2>1, <2>6 DEF EnqueueSend
    <3>2. QueueTypeOK'
      BY <1>0, <2>1, <2>3, <3>1 DEF QueueTypeOK
    <3> QED
      BY <1>0, <2>1, <2>4, <3>1, <3>2 DEF QInv, NoSendOnClosed, NothingLost,
         Backlog, WorkerEnds
  <2> QED
    BY <2>5, <2>6
<1> QED
  BY <1>1, <1>2

\* The steps of Stop.
LEMMA QueueStopStep ==
  ASSUME QInv, NEW s \in Stoppers,
         StopLock(s) \/ StopClose(s) \/ StopReturn(s)
  PROVE  QInv'
<1>0. QueueTypeOK /\ NoSendOnClosed /\ NothingLost /\ WorkerEnds
  BY DEF QInv
<1>1. /\ UNCHANGED << taskChan, producer, worker, offered, accepted, executed,
                      panicked >>
      /\ stopped' \in BOOLEAN /\ (stopped => stopped')
      /\ stopped' => stopped \/ Readers = {}
      /\ \E x \in {"locking", "waiting", "returned", "drained"} :
           /\ stopper' = [stopper EXCEPT ![s] = x]
           /\ x = "drained" => worker.pc = "returned"
  <2>1. CASE StopLock(s)
    BY <1>0, <2>1 DEF StopLock, QueueTypeOK
  <2>2. CASE StopClose(s)
    BY <1>0, <2>2 DEF StopClose, QueueTypeOK
  <2>3. CASE StopReturn(s)
    BY <1>0, <2>3 DEF StopReturn, QueueTypeOK
  <2> QED
    BY <2>1, <2>2, <2>3
<1>2. QueueTypeOK'
  BY <1>0, <1>1 DEF QueueTypeOK
<1>3. NoSendOnClosed'
  BY <1>0, <1>1 DEF NoSendOnClosed, Readers
<1>4. NothingLost'
  BY <1>0, <1>1 DEF NothingLost, Backlog
<1>5. WorkerEnds'
  BY <1>0, <1>1 DEF WorkerEnds, QueueTypeOK
<1> QED
  BY <1>2, <1>3, <1>4, <1>5 DEF QInv

\* The steps of the worker.
LEMMA QueueWorkerStep ==
  ASSUME QInv, WorkerReceive \/ WorkerDone \/ WorkerExit PROVE QInv'
<1>0. QueueTypeOK /\ NoSendOnClosed /\ NothingLost /\ WorkerEnds
  BY DEF QInv
<1>1. CASE WorkerReceive
  <2>1. /\ taskChan # << >> /\ taskChan \in Seq(Tasks)
        /\ worker' = Running(Head(taskChan)) /\ taskChan' = Tail(taskChan)
        /\ UNCHANGED << stopped, producer, stopper, offered, accepted, executed,
                        panicked >>
        /\ worker.pc = "receiving"
    BY <1>0, <1>1 DEF WorkerReceive, QueueTypeOK
  <2>2. /\ Head(taskChan) \in Tasks /\ Tail(taskChan) \in Seq(Tasks)
        /\ Len(Tail(taskChan)) <= BufferSize
    BY <1>0, <2>1, HeadTailProperties, QueueAssumption, LenProperties
       DEF QueueTypeOK
  <2>3. QueueTypeOK'
    BY <1>0, <2>1, <2>2 DEF QueueTypeOK
  <2>4. NothingLost'
    BY <1>0, <1>1, <2>1, BacklogReceive DEF NothingLost
  <2>5. NoSendOnClosed' /\ WorkerEnds'
    BY <1>0, <2>1 DEF NoSendOnClosed, Readers, WorkerEnds, Running
  <2> QED
    BY <2>3, <2>4, <2>5 DEF QInv
<1>2. CASE WorkerDone
  <2>1. /\ worker.pc = "running" /\ worker' = Receiving
        /\ executed' = Append(executed, worker.task)
        /\ UNCHANGED << taskChan, stopped, producer, stopper, offered, accepted,
                        panicked >>
    BY <1>2 DEF WorkerDone
  <2>2. worker.task \in Tasks /\ executed \in Seq(Tasks) /\ taskChan \in Seq(Tasks)
    BY <1>0, <2>1 DEF QueueTypeOK, Running, Receiving, Returned
  <2>3. executed' \in Seq(Tasks)
    BY <2>1, <2>2, AppendProperties
  <2>4. QueueTypeOK'
    BY <1>0, <2>1, <2>3 DEF QueueTypeOK
  <2>5. NothingLost'
    <3>1. Backlog = << worker.task >> \o taskChan
      BY <2>1 DEF Backlog
    <3>2. Backlog' = taskChan
      BY <2>1, <2>2, ConcatEmptySeq DEF Backlog, Receiving
    <3>3. << worker.task >> \in Seq(Tasks)
      BY <2>2
    <3>4. executed \o (<< worker.task >> \o taskChan)
            = (executed \o << worker.task >>) \o taskChan
      BY <2>2, <3>3, ConcatAssociative
    <3>5. executed' = executed \o << worker.task >>
      BY <2>1, <2>2, AppendIsConcat
    <3> QED
      BY <1>0, <2>1, <3>1, <3>2, <3>4, <3>5 DEF NothingLost
  <2>6. NoSendOnClosed' /\ WorkerEnds'
    BY <1>0, <2>1 DEF NoSendOnClosed, Readers, WorkerEnds, Receiving
  <2> QED
    BY <2>4, <2>5, <2>6 DEF QInv
<1>3. CASE WorkerExit
  <2>1. QueueTypeOK'
    BY <1>0, <1>3 DEF WorkerExit, QueueTypeOK
  <2>2. NothingLost'
    BY <1>0, <1>3 DEF WorkerExit, NothingLost, Backlog, Returned
  <2>3. NoSendOnClosed' /\ WorkerEnds'
    BY <1>0, <1>3 DEF WorkerExit, NoSendOnClosed, Readers, WorkerEnds, Returned
  <2> QED
    BY <2>1, <2>2, <2>3 DEF QInv
<1> QED
  BY <1>1, <1>2, <1>3

LEMMA QueueStep == QInv /\ [Next]_queueVars => QInv'
<1> SUFFICES ASSUME QInv, [Next]_queueVars PROVE QInv'
  OBVIOUS
<1>1. CASE UNCHANGED queueVars
  <2>1. UNCHANGED << taskChan, stopped, producer, stopper, worker, offered,
                     accepted, executed, panicked >>
    BY <1>1 DEF queueVars
  <2> QED
    BY <2>1 DEF QInv, QueueTypeOK, NoSendOnClosed, Readers, NothingLost,
       Backlog, WorkerEnds
<1> QED
  BY <1>1, QueueEnqueueStep, QueueStopStep, QueueWorkerStep DEF Next

LEMMA QueueInvariance == Spec => []QInv
  BY QueueInit, QueueStep, PTL DEF Spec

-------------------------------------------------------------------------------
(* Theorems.                                                               *)

\* Types, for any number of producers, stoppers and tasks and any buffer: the
\* channel never holds more than its capacity.
THEOREM QueueTypes == Spec => []QueueTypeOK
<1>1. QInv => QueueTypeOK
  BY DEF QInv
<1> QED
  BY <1>1, QueueInvariance, PTL

\* No Enqueue sends into the channel that Stop has closed.
THEOREM SendsAreSafe == Spec => []NoSendOnClosed
<1>1. QInv => NoSendOnClosed
  BY DEF QInv
<1> QED
  BY <1>1, QueueInvariance, PTL

\* Every accepted write is executed once, in order, or still held.
THEOREM AcceptedIsExecuted == Spec => []NothingLost
<1>1. QInv => NothingLost
  BY DEF QInv
<1> QED
  BY <1>1, QueueInvariance, PTL

\* The caller of Stop that closed the channel returns to an empty backlog.
THEOREM StopWaitsForDrain == Spec => []StopDrains
<1>1. QInv => StopDrains
  <2> SUFFICES ASSUME QInv, \E s \in Stoppers : stopper[s] = "drained"
               PROVE  accepted = executed
    BY DEF StopDrains
  <2>1. worker.pc = "returned" /\ taskChan = << >>
    BY DEF QInv, WorkerEnds
  <2>2. executed \in Seq(Tasks) /\ Backlog = << >>
    BY <2>1, ConcatEmptySeq DEF QInv, QueueTypeOK, Backlog
  <2> QED
    BY <2>2, ConcatEmptySeq DEF QInv, NothingLost
<1> QED
  BY <1>1, QueueInvariance, PTL

\* The steps of the queue, as steps of the abstract log.
LEMMA QueueStepRefines ==
  ASSUME QInv, [Next]_queueVars PROVE [WL!Next]_(WL!logVars)
<1> USE DEF WL!logVars
<1>0. QueueTypeOK /\ NoSendOnClosed /\ WorkerEnds
  BY DEF QInv
<1>1. ASSUME NEW p \in Producers, EnqueueCheck(p) PROVE UNCHANGED WL!logVars
  BY <1>1 DEF EnqueueCheck, Backlog
<1>2. ASSUME NEW p \in Producers, EnqueueSend(p) PROVE [WL!Next]_(WL!logVars)
  <2>1. producer[p].task \in Tasks /\ ~stopped
    BY <1>0, <1>2 DEF EnqueueSend, QueueTypeOK, IdleProducer, Sending,
       NoSendOnClosed, Readers
  <2>2. CASE Len(taskChan) < BufferSize
    <3>1. Backlog' = Append(Backlog, producer[p].task)
      BY <1>0, <1>2, <2>1, <2>2, BacklogAppend DEF EnqueueSend
    <3>2. WL!Accept(producer[p].task)
      BY <1>2, <2>1, <3>1 DEF EnqueueSend, WL!Accept
    <3> QED
      BY <2>1, <3>2 DEF WL!Next
  <2>3. CASE ~(Len(taskChan) < BufferSize)
    BY <1>2, <2>1, <2>3 DEF EnqueueSend, Backlog
  <2> QED
    BY <2>2, <2>3
<1>3. ASSUME NEW s \in Stoppers, StopLock(s) PROVE UNCHANGED WL!logVars
  BY <1>0, <1>3 DEF StopLock, Backlog, QueueTypeOK
<1>4. ASSUME NEW s \in Stoppers, StopClose(s) PROVE [WL!Next]_(WL!logVars)
  <2>1. /\ UNCHANGED << Backlog, executed >> /\ stopped'
        /\ UNCHANGED (\E x \in Stoppers : stopper[x] = "drained")
    BY <1>0, <1>4 DEF StopClose, Backlog, QueueTypeOK
  <2> QED
    BY <1>0, <2>1 DEF WL!Next, WL!Close, QueueTypeOK
<1>5. ASSUME NEW s \in Stoppers, StopReturn(s) PROVE WL!Drain
  <2>1. worker.pc = "returned" /\ stopped /\ taskChan = << >>
    BY <1>0, <1>5 DEF StopReturn, WorkerEnds
  <2>2. Backlog = << >>
    BY <2>1, ConcatEmptySeq DEF Backlog
  <2>3. stopper'[s] = "drained" /\ UNCHANGED << Backlog, executed, stopped >>
    BY <1>0, <1>5 DEF StopReturn, Backlog, QueueTypeOK
  <2> QED
    BY <2>1, <2>2, <2>3 DEF WL!Drain
<1>6. CASE WorkerReceive
  BY <1>0, <1>6, BacklogReceive DEF WorkerReceive
<1>7. CASE WorkerDone
  BY <1>0, <1>7, BacklogDone DEF WorkerDone, WL!Next, WL!Finish
<1>8. CASE WorkerExit
  BY <1>8 DEF WorkerExit, Backlog, Returned
<1>9. CASE UNCHANGED queueVars
  BY <1>9 DEF queueVars, Backlog
<1> QED
  BY <1>1, <1>2, <1>3, <1>4, <1>5, <1>6, <1>7, <1>8, <1>9 DEF Next, WL!Next

\* The queue implements the abstract write log (its safety part).
THEOREM QueueImplementsWriteLog == Spec => WL!Safety
<1>1. Init => WL!Init
  <2> SUFFICES ASSUME Init PROVE WL!Init
    OBVIOUS
  <2>1. Backlog = << >>
    BY ConcatEmptySeq DEF Init, Backlog, Receiving
  <2> QED
    BY <2>1 DEF Init, WL!Init
<1>2. QInv /\ [Next]_queueVars => [WL!Next]_(WL!logVars)
  BY QueueStepRefines
<1> QED
  BY <1>1, <1>2, QueueInvariance, PTL DEF Spec, WL!Safety

-------------------------------------------------------------------------------
(* The safety half of StopReturns: the worker's steps to its end are       *)
(* bounded, and after Stop has closed the channel nothing adds to them.    *)

\* What the worker has to do: receive and run each buffered task, finish the
\* one it runs, and return.
Work ==
  2 * Len(taskChan) + (CASE worker.pc = "returned"  -> 0
                         [] worker.pc = "receiving" -> 1
                         [] worker.pc = "running"   -> 2)

LEMMA WorkOf ==
  ASSUME QueueTypeOK
  PROVE  /\ Len(taskChan) \in 0 .. BufferSize
         /\ worker.pc \in {"receiving", "running", "returned"}
         /\ worker.pc = "returned"  => Work = 2 * Len(taskChan)
         /\ worker.pc = "receiving" => Work = 2 * Len(taskChan) + 1
         /\ worker.pc = "running"   => Work = 2 * Len(taskChan) + 2
  BY QueueAssumption DEF QueueTypeOK, Receiving, Running, Returned, Work

\* The worker has at most two steps for each slot of the buffer and two more
\* before it; once the channel is closed each of its steps is one of them and
\* no other step adds any (writer_queue.go:33-42, 66-75).
THEOREM DrainIsBounded ==
  Spec => /\ [](Work \in 0 .. 2 * BufferSize + 2)
          /\ [][stopped => /\ Work' \in {Work, Work - 1}
                           /\ worker' # worker => Work' = Work - 1]_queueVars
<1> DEFINE Shrinks == stopped => /\ Work' \in {Work, Work - 1}
                                 /\ worker' # worker => Work' = Work - 1
<1>1. QInv => Work \in 0 .. 2 * BufferSize + 2
  BY WorkOf, QueueAssumption DEF QInv
<1>2. ASSUME QInv, Next PROVE Shrinks
  <2> SUFFICES ASSUME stopped
               PROVE  /\ Work' \in {Work, Work - 1}
                      /\ worker' # worker => Work' = Work - 1
    OBVIOUS
  <2>0. taskChan \in Seq(Tasks) /\ QueueTypeOK
    BY <1>2 DEF QInv, QueueTypeOK
  <2>1. CASE WorkerReceive
    <3>1. /\ worker.pc = "receiving" /\ worker'.pc = "running" /\ taskChan # << >>
          /\ taskChan' = Tail(taskChan)
      BY <2>1 DEF WorkerReceive, Running
    <3>2. Len(taskChan') = Len(taskChan) - 1 /\ Len(taskChan) \in Nat
      BY <2>0, <3>1
    <3>3. Work = 2 * Len(taskChan) + 1
      BY <2>0, <3>1, WorkOf
    <3>4. Work' = 2 * Len(taskChan') + 2
      BY <3>1 DEF Work
    <3> QED
      BY <3>2, <3>3, <3>4
  <2>2. CASE WorkerDone
    <3>1. worker.pc = "running" /\ worker'.pc = "receiving" /\ taskChan' = taskChan
      BY <2>2 DEF WorkerDone, Receiving
    <3>2. Work = 2 * Len(taskChan) + 2 /\ Len(taskChan) \in Nat
      BY <2>0, <3>1, WorkOf
    <3>3. Work' = 2 * Len(taskChan) + 1
      BY <3>1 DEF Work
    <3> QED
      BY <3>2, <3>3
  <2>3. CASE WorkerExit
    <3>1. worker.pc = "receiving" /\ worker'.pc = "returned" /\ taskChan' = taskChan
      BY <2>3 DEF WorkerExit, Returned
    <3>2. Work = 2 * Len(taskChan) + 1 /\ Len(taskChan) \in Nat
      BY <2>0, <3>1, WorkOf
    <3>3. Work' = 2 * Len(taskChan) + 0
      BY <3>1 DEF Work
    <3> QED
      BY <3>2, <3>3
  <2>4. ASSUME UNCHANGED << taskChan, worker >> PROVE Work' = Work
    BY <2>4 DEF Work
  <2>5. ASSUME NEW p \in Producers, EnqueueCheck(p) \/ EnqueueSend(p)
        PROVE  UNCHANGED << taskChan, worker >>
    BY <2>5 DEF EnqueueCheck, EnqueueSend
  <2>6. ASSUME NEW s \in Stoppers, StopLock(s) \/ StopClose(s) \/ StopReturn(s)
        PROVE  UNCHANGED << taskChan, worker >>
    BY <2>6 DEF StopLock, StopClose, StopReturn
  <2>7. CASE UNCHANGED << taskChan, worker >>
    BY <2>4, <2>7
  <2> QED
    BY <1>2, <2>1, <2>2, <2>3, <2>5, <2>6, <2>7 DEF Next
<1>3. QInv /\ [Next]_queueVars => [Shrinks]_queueVars
  BY <1>2
<1> QED
  BY <1>1, <1>3, QueueInvariance, PTL DEF Spec
===============================================================================
