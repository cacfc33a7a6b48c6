------------------------------ MODULE TaskQueue -----------------------------
(***************************************************************************)
(* task_queue<T> (jomt_util.hpp): the queue of the subscription manager,   *)
(* at the level of its locks.  The worker runs run(); any thread calls     *)
(* add_task, the worker too, from inside a task: an ACK that cannot be     *)
(* written ends a connection, and that asks for an unsubscription.         *)
(* stop() is called by the main thread and by a server whose acceptor      *)
(* fails.                                                                  *)
(*                                                                         *)
(* m_cv.wait has no predicate, and the notifiers do not hold m_tlock, the  *)
(* mutex of the wait: nothing keeps a notification from falling between    *)
(* the test of a loop and the wait.  m_tlock is taken by the worker only,  *)
(* so it excludes nobody and is not a variable.  start() is called once,   *)
(* by the constructor of the manager: the initial state is after it.       *)
(***************************************************************************)
EXTENDS Naturals, Sequences, SequencesExt

CONSTANTS
  Adders,    \* threads that call add_task
  Stoppers,  \* threads that call stop
  MaxTasks   \* bound: tasks added in a behaviour

Worker == "worker"
Free == "free"
Threads == Adders \cup Stoppers \cup {Worker}

ASSUME ThreadsAssumption ==
  /\ Adders \cap Stoppers = {} /\ {Worker, Free} \cap (Adders \cup Stoppers) = {}
  /\ MaxTasks \in Nat

VARIABLES
  m_running,
  m_queue,   \* the tasks in the queue, by number, in the order of arrival
  m_qlock,   \* the thread that holds it, or Free
  pc,        \* thread to the place it has reached
  pushed,    \* tasks pushed so far
  performed  \* the tasks the worker dequeued, in that order

vars == <<m_running, m_queue, m_qlock, pc, pushed, performed>>

Goto(t, from, to) == pc[t] = from /\ pc' = [pc EXCEPT ![t] = to]

(* notify_all, when the notifier goes on at "to": a worker in the wait set *)
(* is released, any other worker does not notice.                          *)
NotifyAll(t, from, to) ==
  /\ pc[t] = from
  /\ pc' = [pc EXCEPT ![t] = to,
                      ![Worker] = IF t = Worker THEN to
                                  ELSE IF @ = "waiting" THEN "inner" ELSE @]

-----------------------------------------------------------------------------
(* run()                                                                   *)
TestRunning ==                          \* while (m_running)
  /\ Goto(Worker, "test", IF m_running THEN "enter" ELSE "done")
  /\ UNCHANGED <<m_running, m_queue, m_qlock, pushed, performed>>

EnterWait ==                            \* m_cv.wait: the worker joins the wait set
  /\ Goto(Worker, "enter", "waiting")
  /\ UNCHANGED <<m_running, m_queue, m_qlock, pushed, performed>>

SpuriousWakeup ==
  /\ Goto(Worker, "waiting", "inner")
  /\ UNCHANGED <<m_running, m_queue, m_qlock, pushed, performed>>

TestInner ==                            \* while (m_running && ...
  /\ Goto(Worker, "inner", IF m_running THEN "check" ELSE "test")
  /\ UNCHANGED <<m_running, m_queue, m_qlock, pushed, performed>>

is_there_available_task ==
  /\ m_qlock = Free
  /\ Goto(Worker, "check", IF m_queue # <<>> THEN "dequeue" ELSE "test")
  /\ UNCHANGED <<m_running, m_queue, m_qlock, pushed, performed>>

DequeueBack ==               \* slip: the newest task is taken
  /\ m_qlock = Free
  /\ Goto(Worker, "dequeue", "task")
  /\ performed' = Append(performed, Last(m_queue))
  /\ m_queue' = Front(m_queue)
  /\ UNCHANGED <<m_running, m_qlock, pushed>>

DequeuePeeks ==              \* slip: pop() is lost
  /\ m_qlock = Free
  /\ Goto(Worker, "dequeue", "task")
  /\ performed' = Append(performed, Head(m_queue))
  /\ UNCHANGED <<m_running, m_queue, m_qlock, pushed>>

dequeue_task ==
  /\ m_qlock = Free
  /\ Goto(Worker, "dequeue", "task")
  /\ performed' = Append(performed, Head(m_queue))
  /\ m_queue' = Tail(m_queue)
  /\ UNCHANGED <<m_running, m_qlock, pushed>>

EndCallbackWaits ==          \* slip: one task a wakeup, if instead of while
  /\ Goto(Worker, "task", "test")
  /\ UNCHANGED <<m_running, m_queue, m_qlock, pushed, performed>>

EndCallback ==                          \* m_callback_funcs(task) returns
  /\ Goto(Worker, "task", "inner")
  /\ UNCHANGED <<m_running, m_queue, m_qlock, pushed, performed>>

-----------------------------------------------------------------------------
(* add_task, of one task; the overload for a list has no caller.           *)
Caller(t) == IF t = Worker THEN "task" ELSE "idle"

Push(t) ==
  /\ m_qlock = Free /\ pushed < MaxTasks
  /\ Goto(t, Caller(t), "notify")
  /\ m_qlock' = t
  /\ pushed' = pushed + 1
  /\ m_queue' = Append(m_queue, pushed')
  /\ UNCHANGED <<m_running, performed>>

Notify(t) ==
  /\ NotifyAll(t, "notify", Caller(t))
  /\ m_qlock' = Free
  /\ UNCHANGED <<m_running, m_queue, pushed, performed>>

-----------------------------------------------------------------------------
(* stop(): m_running is atomic, its test and its reset are two steps.  A   *)
(* caller that finds it FALSE returns at once, whatever the worker does.   *)
TestStop(t) ==
  /\ Goto(t, "idle", IF m_running THEN "reset" ELSE "late")
  /\ UNCHANGED <<m_running, m_queue, m_qlock, pushed, performed>>

ResetRunning(t) ==
  /\ Goto(t, "reset", "wake")
  /\ m_running' = FALSE
  /\ UNCHANGED <<m_queue, m_qlock, pushed, performed>>

WakeNobody(t) ==             \* slip: stop does not notify
  /\ Goto(t, "wake", "join")
  /\ UNCHANGED <<m_running, m_queue, m_qlock, pushed, performed>>

WakeWorker(t) ==
  /\ NotifyAll(t, "wake", "join")
  /\ UNCHANGED <<m_running, m_queue, m_qlock, pushed, performed>>

JoinAtOnce(t) ==             \* slip: stop returns without the join
  /\ Goto(t, "join", "stopped")
  /\ UNCHANGED <<m_running, m_queue, m_qlock, pushed, performed>>

Join(t) ==
  /\ pc[Worker] = "done"
  /\ Goto(t, "join", "stopped")
  /\ UNCHANGED <<m_running, m_queue, m_qlock, pushed, performed>>

-----------------------------------------------------------------------------
Init ==
  /\ m_running = TRUE
  /\ m_queue = <<>> /\ m_qlock = Free
  /\ pc = [t \in Threads |-> IF t = Worker THEN "test" ELSE "idle"]
  /\ pushed = 0 /\ performed = <<>>

run ==
  \/ TestRunning \/ EnterWait \/ TestInner
  \/ is_there_available_task \/ dequeue_task \/ EndCallback
  \/ Notify(Worker)
add_task(t) == Push(t) \/ Notify(t)
stop(t) == TestStop(t) \/ ResetRunning(t) \/ WakeWorker(t) \/ Join(t)

Next ==
  \/ run \/ SpuriousWakeup
  \/ \E t \in Adders \cup {Worker} : add_task(t)
  \/ \E t \in Stoppers : stop(t)

Spec == Init /\ [][Next]_vars

(* The worker runs while it is not in the wait set, and each thread        *)
(* finishes the call it is in.  Nobody has to add a task or to call stop,  *)
(* and no wakeup is spurious by necessity.                                 *)
Fairness ==
  /\ WF_vars(run)
  /\ \A t \in Adders : WF_vars(Notify(t))
  /\ \A t \in Stoppers : WF_vars(ResetRunning(t) \/ WakeWorker(t) \/ Join(t))

FairSpec == Spec /\ Fairness

-----------------------------------------------------------------------------
AdderPlaces == {"idle", "notify"}
StopperPlaces == {"idle", "late", "reset", "wake", "join", "stopped"}
WorkerPlaces == {"test", "enter", "waiting", "inner", "check", "dequeue", "task", "notify", "done"}

Places == AdderPlaces \cup StopperPlaces \cup WorkerPlaces

DataOK ==
  /\ m_running \in BOOLEAN
  /\ m_queue \in Seq(1..pushed) /\ performed \in Seq(1..pushed)
  /\ m_qlock \in {Free, Worker} \cup Adders
  /\ pushed \in 0..MaxTasks
PlacesOK ==
  /\ pc \in [Threads -> Places]
  /\ \A t \in Adders : pc[t] \in AdderPlaces
  /\ \A t \in Stoppers : pc[t] \in StopperPlaces
  /\ pc[Worker] \in WorkerPlaces

(* Queued and performed tasks have been pushed, and every thread is at a   *)
(* place of its own procedures.                                            *)
TypeOK == DataOK /\ PlacesOK

(* A thread is inside add_task exactly when it holds m_qlock.              *)
LockHeld == \A t \in Adders \cup {Worker} : pc[t] = "notify" <=> m_qlock = t

(* The tasks leave the queue in the order they entered it, none is lost    *)
(* and none is performed twice: those performed, then those that wait, are *)
(* the tasks pushed.                                                       *)
TasksInOrder ==
  performed \o m_queue = [i \in 1..pushed |-> i]

(* dequeue_task calls front() of a queue that is_there_available_task saw   *)
(* under an earlier hold of the lock: the task is still there.             *)
DequeueFindsTask == pc[Worker] = "dequeue" => m_queue # <<>>

(* Once a stop() has joined the worker, no task is performed any more: the *)
(* callbacks the worker calls belong to a server that may be gone.         *)
NoTaskAfterStop ==
  [][(\E t \in Stoppers : pc[t] = "stopped") => UNCHANGED performed]_vars

(* What the subscription manager relies on.                                *)
Queue == INSTANCE FifoQueue WITH
  added <- pushed,
  taken <- Len(performed),
  busy <- pc[Worker] \in {"task", "notify"}
ImplementsFifo == Queue!FifoSpec

(* A worker that is awake, or is being notified, performs every task that  *)
(* waits before it sleeps again, unless the queue is stopped.              *)
Awake ==
  \/ pc[Worker] \in {"inner", "check", "dequeue", "task", "notify"}
  \/ pc[Worker] = "waiting" /\ \E t \in Adders : pc[t] = "notify"
AwakeWorkerEmptiesQueue ==
  (Awake /\ m_queue # <<>>) ~> (m_queue = <<>> \/ ~m_running)

(* 3- Subscribe.txt: the loop runs while there are tasks on queue.  A task *)
(* added between the last test and the wait is not seen.                   *)
TasksArePerformed == (m_queue # <<>>) ~> (m_queue = <<>> \/ ~m_running)
=============================================================================
