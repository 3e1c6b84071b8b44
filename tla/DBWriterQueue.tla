------------------------------ MODULE DBWriterQueue ------------------------------
(***************************************************************************)
(* The single-writer queue for SQLite writes (orchestrator/writer_queue.go)*)
(* at the grain of its locks: producers that hold the read lock between    *)
(* the check of `stopped' and the send into the buffered channel, callers  *)
(* of Stop that need the write lock to set `stopped' and close the channel,*)
(* and the worker that ranges over the channel.                            *)
(*                                                                         *)
(* Go's RWMutex lets no new reader in while a writer waits.  A send into a *)
(* closed channel panics; `panicked' records it.                           *)
(***************************************************************************)
EXTENDS Integers, Sequences

CONSTANTS
  Producers,   (* goroutines that call Enqueue                             *)
  Stoppers,    (* goroutines that call Stop, once each                     *)
  BufferSize,  (* capacity of the channel                                  *)
  MaxTasks     (* bound: tasks offered in one behaviour                    *)

ASSUME QueueAssumption ==
  /\ BufferSize \in Nat \ {0}
  /\ MaxTasks \in Nat

Tasks == 1 .. MaxTasks

VARIABLES
  taskChan,  (* DBWriterQueue.taskChan, the buffered tasks                 *)
  stopped,   (* DBWriterQueue.stopped; the channel is closed with it       *)
  producer,  (* state of each producer                                     *)
  stopper,   (* state of each caller of Stop                               *)
  worker,    (* state of the worker goroutine                              *)
  offered,   (* tasks offered so far; the n-th one is task n               *)
  accepted,  (* history: tasks for which Enqueue answered true, in order   *)
  executed,  (* history: tasks that the worker has run, in order           *)
  panicked   (* a send met the closed channel                              *)

queueVars == << taskChan, stopped, producer, stopper, worker, offered,
                accepted, executed, panicked >>

\* Outside Enqueue, or between the check of `stopped' and the send of a task.
IdleProducer == [pc |-> "idle", task |-> 0]
Sending(t)   == [pc |-> "sending", task |-> t]

\* Blocked in the receive, running a task, or returned after wg.Done.
Receiving  == [pc |-> "receiving", task |-> 0]
Running(t) == [pc |-> "running", task |-> t]
Returned   == [pc |-> "returned", task |-> 0]

\* Holders of the read lock, and callers that wait for the write lock.
Readers == {p \in Producers : producer[p].pc = "sending"}
Writers == {s \in Stoppers : stopper[s] = "locking"}

-------------------------------------------------------------------------------
(* Enqueue.                                                                *)

\* The read lock is taken and `stopped' is read: a stopped queue refuses.
EnqueueCheck(p) ==
  /\ producer[p].pc = "idle"
  /\ Writers = {}
  /\ offered < MaxTasks
  /\ offered' = offered + 1
  /\ producer' = IF stopped THEN producer
                 ELSE [producer EXCEPT ![p] = Sending(offered + 1)]
  /\ UNCHANGED << taskChan, stopped, stopper, worker, accepted, executed,
                  panicked >>

\* Seeded faults: one task too many is buffered; a dropped task is reported
\* as accepted.
EnqueueSendPast(p) ==
  /\ producer[p].pc = "sending"
  /\ producer' = [producer EXCEPT ![p] = IdleProducer]
  /\ CASE stopped -> panicked' = TRUE /\ UNCHANGED << taskChan, accepted >>
       [] ~stopped /\ Len(taskChan) <= BufferSize ->
            /\ taskChan' = Append(taskChan, producer[p].task)
            /\ accepted' = Append(accepted, producer[p].task)
            /\ UNCHANGED panicked
       [] OTHER -> UNCHANGED << taskChan, accepted, panicked >>
  /\ UNCHANGED << stopped, stopper, worker, offered, executed >>

EnqueueSendBlind(p) ==
  /\ producer[p].pc = "sending"
  /\ producer' = [producer EXCEPT ![p] = IdleProducer]
  /\ accepted' = Append(accepted, producer[p].task)
  /\ panicked' = (panicked \/ stopped)
  /\ taskChan' = IF Len(taskChan) < BufferSize
                 THEN Append(taskChan, producer[p].task) ELSE taskChan
  /\ UNCHANGED << stopped, stopper, worker, offered, executed >>

\* The non-blocking send: a full buffer drops the task.
EnqueueSend(p) ==
  /\ producer[p].pc = "sending"
  /\ producer' = [producer EXCEPT ![p] = IdleProducer]
  /\ CASE stopped -> panicked' = TRUE /\ UNCHANGED << taskChan, accepted >>
       [] ~stopped /\ Len(taskChan) < BufferSize ->
            /\ taskChan' = Append(taskChan, producer[p].task)
            /\ accepted' = Append(accepted, producer[p].task)
            /\ UNCHANGED panicked
       [] OTHER -> UNCHANGED << taskChan, accepted, panicked >>
  /\ UNCHANGED << stopped, stopper, worker, offered, executed >>

-------------------------------------------------------------------------------
(* Stop.                                                                   *)

StopLock(s) ==
  /\ stopper[s] = "idle"
  /\ stopper' = [stopper EXCEPT ![s] = "locking"]
  /\ UNCHANGED << taskChan, stopped, producer, worker, offered, accepted,
                  executed, panicked >>

\* Seeded fault: the channel is closed without the lock.
StopCloseUnlocked(s) ==
  /\ stopper[s] = "locking"
  /\ stopped' = TRUE
  /\ stopper' = [stopper EXCEPT ![s] = IF stopped THEN "returned" ELSE "waiting"]
  /\ UNCHANGED << taskChan, producer, worker, offered, accepted, executed,
                  panicked >>

\* The write lock is held: the first caller closes the channel and waits for
\* the worker, a later one returns.
StopClose(s) ==
  /\ stopper[s] = "locking"
  /\ Readers = {}
  /\ stopped' = TRUE
  /\ stopper' = [stopper EXCEPT ![s] = IF stopped THEN "returned" ELSE "waiting"]
  /\ UNCHANGED << taskChan, producer, worker, offered, accepted, executed,
                  panicked >>

\* Seeded fault: Stop does not wait.
StopReturnAtOnce(s) ==
  /\ stopper[s] = "waiting"
  /\ stopper' = [stopper EXCEPT ![s] = "drained"]
  /\ UNCHANGED << taskChan, stopped, producer, worker, offered, accepted,
                  executed, panicked >>

\* wg.Wait returns.
StopReturn(s) ==
  /\ stopper[s] = "waiting"
  /\ worker.pc = "returned"
  /\ stopper' = [stopper EXCEPT ![s] = "drained"]
  /\ UNCHANGED << taskChan, stopped, producer, worker, offered, accepted,
                  executed, panicked >>

-------------------------------------------------------------------------------
(* The worker.                                                             *)

WorkerReceive ==
  /\ worker.pc = "receiving"
  /\ taskChan # << >>
  /\ worker' = Running(Head(taskChan))
  /\ taskChan' = Tail(taskChan)
  /\ UNCHANGED << stopped, producer, stopper, offered, accepted, executed,
                  panicked >>

\* Seeded fault: a panic of the task ends the worker without wg.Done.
WorkerDoneUnrecovered ==
  /\ worker.pc = "running"
  /\ executed' = Append(executed, worker.task)
  /\ worker' \in {Receiving, [pc |-> "dead", task |-> 0]}
  /\ UNCHANGED << taskChan, stopped, producer, stopper, offered, accepted,
                  panicked >>

\* executeTask returns: the task succeeded, failed, or panicked and was
\* recovered; the worker goes on in each case.
WorkerDone ==
  /\ worker.pc = "running"
  /\ executed' = Append(executed, worker.task)
  /\ worker' = Receiving
  /\ UNCHANGED << taskChan, stopped, producer, stopper, offered, accepted,
                  panicked >>

\* Seeded fault: a closed channel ends the worker before it is empty.
WorkerExitAtOnce ==
  /\ worker.pc = "receiving"
  /\ stopped
  /\ worker' = Returned
  /\ UNCHANGED << taskChan, stopped, producer, stopper, offered, accepted,
                  executed, panicked >>

\* The channel is closed and empty.
WorkerExit ==
  /\ worker.pc = "receiving"
  /\ taskChan = << >> /\ stopped
  /\ worker' = Returned
  /\ UNCHANGED << taskChan, stopped, producer, stopper, offered, accepted,
                  executed, panicked >>

-------------------------------------------------------------------------------

Init ==
  /\ taskChan = << >>
  /\ stopped = FALSE
  /\ producer = [p \in Producers |-> IdleProducer]
  /\ stopper = [s \in Stoppers |-> "idle"]
  /\ worker = Receiving
  /\ offered = 0
  /\ accepted = << >>
  /\ executed = << >>
  /\ panicked = FALSE

Next ==
  \/ \E p \in Producers : EnqueueCheck(p) \/ EnqueueSend(p)
  \/ \E s \in Stoppers : StopLock(s) \/ StopClose(s) \/ StopReturn(s)
  \/ WorkerReceive
  \/ WorkerDone
  \/ WorkerExit

Spec == Init /\ [][Next]_queueVars

(***************************************************************************)
(* Fairness: goroutines that can run do run.  A producer that holds the    *)
(* read lock sends and releases it; a caller of Stop gets the lock, since  *)
(* it keeps new readers out; the worker never stops by itself.  Nobody has *)
(* to call Enqueue or Stop.                                                *)
(***************************************************************************)
FairSpec ==
  /\ Spec
  /\ \A p \in Producers : WF_queueVars(EnqueueSend(p))
  /\ \A s \in Stoppers : WF_queueVars(StopClose(s)) /\ WF_queueVars(StopReturn(s))
  /\ WF_queueVars(WorkerReceive) /\ WF_queueVars(WorkerDone)
  /\ WF_queueVars(WorkerExit)

-------------------------------------------------------------------------------
(* Properties.                                                             *)

\* Types of the state; the channel never holds more than its capacity.
QueueTypeOK ==
  /\ taskChan \in Seq(Tasks) /\ Len(taskChan) <= BufferSize
  /\ stopped \in BOOLEAN
  /\ producer \in [Producers -> {IdleProducer} \cup {Sending(t) : t \in Tasks}]
  /\ stopper \in [Stoppers -> {"idle", "locking", "waiting", "drained", "returned"}]
  /\ worker \in {Receiving, Returned} \cup {Running(t) : t \in Tasks}
  /\ offered \in 0 .. MaxTasks
  /\ accepted \in Seq(Tasks) /\ executed \in Seq(Tasks)
  /\ panicked \in BOOLEAN

\* Producers and Stop exclude each other through the read-write lock: no
\* Enqueue that saw an open queue sends into a closed channel.
NoSendOnClosed ==
  /\ ~panicked
  /\ stopped => Readers = {}

\* What the worker holds: the running task and the buffered ones.
Backlog == (IF worker.pc = "running" THEN << worker.task >> ELSE << >>) \o taskChan

\* Every write for which Enqueue answered true is executed once and in
\* order: it is executed already, or still held by the worker.
NothingLost == accepted = executed \o Backlog

\* The caller of Stop that waited finds every accepted write executed.
StopDrains ==
  (\E s \in Stoppers : stopper[s] = "drained") => accepted = executed

\* The queue implements the abstract write log, liveness included; the
\* caller that closed the channel is the one that is let go.
WL == INSTANCE WriteLog WITH
        backlog <- Backlog,
        log     <- executed,
        open    <- ~stopped,
        drained <- \E s \in Stoppers : stopper[s] = "drained"

ImplementsWriteLog == WL!Spec

\* Each call of Stop returns.
StopReturns ==
  \A s \in Stoppers :
    stopper[s] = "locking" ~> stopper[s] \in {"drained", "returned"}
===============================================================================
