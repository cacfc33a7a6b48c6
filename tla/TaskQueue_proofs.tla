-------------------------- MODULE TaskQueue_proofs --------------------------
(***************************************************************************)
(* Proofs about TaskQueue for any threads and any number of tasks: the     *)
(* lock, the order of the tasks, the worker's dequeue, the end of the      *)
(* worker before stop() returns, and the refinement of FifoQueue.          *)
(***************************************************************************)
EXTENDS TaskQueue, SequenceTheorems, TLAPS

(* A stop() that joined the worker saw it end; a worker that ended stays   *)
(* so.                                                                     *)
StoppedMeansDone == \A t \in Stoppers : pc[t] = "stopped" => pc[Worker] = "done"

IInv == TypeOK /\ LockHeld /\ TasksInOrder /\ DequeueFindsTask /\ StoppedMeansDone

(* Worker is neither an adder nor a stopper, and they are disjoint.        *)
LEMMA ThreadsDistinct ==
  /\ Worker \notin Adders /\ Worker \notin Stoppers
  /\ Free \notin Adders /\ Free # Worker
  /\ \A t \in Adders : t \notin Stoppers
  /\ MaxTasks \in Nat
BY ThreadsAssumption DEF Worker, Free

-----------------------------------------------------------------------------
(* What the moves between places change.                                   *)
LEMMA GotoMoves ==
  ASSUME PlacesOK, NEW t \in Threads, NEW from, NEW to \in Places, Goto(t, from, to)
  PROVE  /\ pc[t] = from
         /\ pc' \in [Threads -> Places]
         /\ pc'[t] = to
         /\ \A u \in Threads : u # t => pc'[u] = pc[u]
BY DEF PlacesOK, Goto

LEMMA NotifyMoves ==
  ASSUME PlacesOK, NEW t \in Threads, NEW from, NEW to \in Places, NotifyAll(t, from, to)
  PROVE  /\ pc[t] = from
         /\ pc' \in [Threads -> Places]
         /\ pc'[t] = to
         /\ \A u \in Threads : u # t /\ u # Worker => pc'[u] = pc[u]
         /\ t # Worker => pc'[Worker] = IF pc[Worker] = "waiting" THEN "inner" ELSE pc[Worker]
<1>1. Worker \in Threads /\ pc \in [Threads -> Places] /\ "inner" \in Places
  BY DEF Threads, PlacesOK, Places, WorkerPlaces
<1>2. pc[t] = from /\ pc' = [pc EXCEPT ![t] = to,
                      ![Worker] = IF t = Worker THEN to
                                  ELSE IF @ = "waiting" THEN "inner" ELSE @]
  BY DEF NotifyAll
<1>3. CASE t = Worker
  BY <1>1, <1>2, <1>3
<1>4. CASE t # Worker
  BY <1>1, <1>2, <1>4
<1>5. QED
  BY <1>3, <1>4

(* A thread that goes to a place of its own keeps PlacesOK.                *)
LEMMA ThreadSets ==
  /\ Worker \in Threads /\ Adders \subseteq Threads /\ Stoppers \subseteq Threads
  /\ WorkerPlaces \subseteq Places /\ AdderPlaces \subseteq Places
  /\ StopperPlaces \subseteq Places
BY DEF Threads, Places

LEMMA WorkerGoes ==
  ASSUME PlacesOK, NEW from, NEW to \in WorkerPlaces, Goto(Worker, from, to)
  PROVE  PlacesOK'
BY GotoMoves, ThreadsDistinct, ThreadSets DEF PlacesOK

LEMMA AdderGoes ==
  ASSUME PlacesOK, NEW t \in Adders, NEW from, NEW to \in AdderPlaces,
         Goto(t, from, to) \/ NotifyAll(t, from, to)
  PROVE  PlacesOK'
<1>1. "inner" \in WorkerPlaces
  BY DEF WorkerPlaces
<1>2. CASE Goto(t, from, to)
  BY <1>2, GotoMoves, ThreadsDistinct, ThreadSets DEF PlacesOK
<1>3. CASE NotifyAll(t, from, to)
  BY <1>1, <1>3, NotifyMoves, ThreadsDistinct, ThreadSets DEF PlacesOK
<1>4. QED
  BY <1>2, <1>3

LEMMA StopperGoes ==
  ASSUME PlacesOK, NEW t \in Stoppers, NEW from, NEW to \in StopperPlaces,
         Goto(t, from, to) \/ NotifyAll(t, from, to)
  PROVE  PlacesOK'
<1>1. "inner" \in WorkerPlaces
  BY DEF WorkerPlaces
<1>2. CASE Goto(t, from, to)
  BY <1>2, GotoMoves, ThreadsDistinct, ThreadSets DEF PlacesOK
<1>3. CASE NotifyAll(t, from, to)
  BY <1>1, <1>3, NotifyMoves, ThreadsDistinct, ThreadSets DEF PlacesOK
<1>4. QED
  BY <1>2, <1>3

-----------------------------------------------------------------------------
(* Type correctness, one lemma per kind of step.                           *)
LEMMA PushType ==
  ASSUME TypeOK, NEW t \in Adders \cup {Worker}, Push(t)
  PROVE  TypeOK'
<1>1. DataOK'
  BY ThreadsDistinct DEF TypeOK, DataOK, Push
<1>2. PlacesOK'
  <2>1. CASE t = Worker
    BY <2>1, WorkerGoes DEF TypeOK, Push, Caller, WorkerPlaces
  <2>2. CASE t \in Adders
    BY <2>2, AdderGoes, ThreadsDistinct DEF TypeOK, Push, AdderPlaces
  <2>3. QED
    BY <2>1, <2>2
<1>3. QED
  BY <1>1, <1>2 DEF TypeOK

LEMMA NotifyType ==
  ASSUME TypeOK, NEW t \in Adders \cup {Worker}, Notify(t)
  PROVE  TypeOK'
<1>1. DataOK'
  BY DEF TypeOK, DataOK, Notify
<1>2. PlacesOK'
  <2>1. CASE t = Worker
    <3>1. NotifyAll(Worker, "notify", "task") /\ "task" \in WorkerPlaces
      BY <2>1 DEF Notify, Caller, WorkerPlaces
    <3>2. QED
      BY <3>1, NotifyMoves, ThreadsDistinct, ThreadSets DEF TypeOK, PlacesOK
  <2>2. CASE t \in Adders
    BY <2>2, AdderGoes, ThreadsDistinct DEF TypeOK, Notify, Caller, AdderPlaces
  <2>3. QED
    BY <2>1, <2>2
<1>3. QED
  BY <1>1, <1>2 DEF TypeOK

LEMMA DequeueType ==
  ASSUME TypeOK, DequeueFindsTask, dequeue_task
  PROVE  TypeOK'
<1>1. m_queue # <<>>
  BY DEF DequeueFindsTask, dequeue_task, Goto
<1>2. Head(m_queue) \in 1..pushed /\ Tail(m_queue) \in Seq(1..pushed)
  BY <1>1 DEF TypeOK, DataOK
<1>3. DataOK'
  BY <1>2 DEF TypeOK, DataOK, dequeue_task
<1>4. PlacesOK'
  BY WorkerGoes DEF TypeOK, dequeue_task, WorkerPlaces
<1>5. QED
  BY <1>3, <1>4 DEF TypeOK

(* The steps of the worker that only move it.                              *)
WorkerOnly ==
  \/ TestRunning \/ EnterWait \/ SpuriousWakeup \/ TestInner
  \/ is_there_available_task \/ EndCallback
DataUnchanged == UNCHANGED <<m_running, m_queue, m_qlock, pushed, performed>>

LEMMA WorkerOnlyType ==
  ASSUME TypeOK, WorkerOnly
  PROVE  TypeOK' /\ DataUnchanged
<1>1. DataUnchanged
  BY DEF WorkerOnly, TestRunning, EnterWait, SpuriousWakeup, TestInner,
         is_there_available_task, EndCallback, DataUnchanged
<1>2. \E from, to : to \in WorkerPlaces /\ Goto(Worker, from, to)
  BY DEF WorkerOnly, TestRunning, EnterWait, SpuriousWakeup, TestInner,
         is_there_available_task, EndCallback, WorkerPlaces
<1>3. PlacesOK'
  BY <1>2, WorkerGoes DEF TypeOK
<1>4. DataOK'
  BY <1>1 DEF TypeOK, DataOK, DataUnchanged
<1>5. QED
  BY <1>1, <1>3, <1>4 DEF TypeOK

LEMMA StopType ==
  ASSUME TypeOK, NEW t \in Stoppers, stop(t)
  PROVE  TypeOK' /\ UNCHANGED <<m_queue, m_qlock, pushed, performed>>
<1>1. UNCHANGED <<m_queue, m_qlock, pushed, performed>> /\ m_running' \in {m_running, FALSE}
  BY DEF stop, TestStop, ResetRunning, WakeWorker, Join
<1>2. \E from, to : to \in StopperPlaces /\ (Goto(t, from, to) \/ NotifyAll(t, from, to))
  BY DEF stop, TestStop, ResetRunning, WakeWorker, Join, StopperPlaces
<1>3. PlacesOK'
  BY <1>2, StopperGoes DEF TypeOK
<1>4. DataOK'
  BY <1>1 DEF TypeOK, DataOK
<1>5. QED
  BY <1>1, <1>3, <1>4 DEF TypeOK

(* The kinds of steps the proofs tell apart.                               *)
LEMMA NextSteps ==
  ASSUME Next
  PROVE  \/ WorkerOnly \/ dequeue_task
         \/ \E t \in Adders \cup {Worker} : Push(t) \/ Notify(t)
         \/ \E t \in Stoppers : stop(t)
BY DEF Next, run, add_task, WorkerOnly

LEMMA TypeStep ==
  ASSUME TypeOK, DequeueFindsTask, [Next]_vars
  PROVE  TypeOK'
<1>1. CASE UNCHANGED vars
  BY <1>1 DEF vars, TypeOK, DataOK, PlacesOK
<1>2. CASE Next
  BY <1>2, NextSteps, WorkerOnlyType, DequeueType, PushType, NotifyType, StopType
<1>3. QED
  BY <1>1, <1>2

-----------------------------------------------------------------------------
(* The lock: Push takes it for the thread that calls, Notify gives it back *)
(* and no other step moves a thread into or out of add_task.               *)
LEMMA LockStep ==
  ASSUME TypeOK, LockHeld, [Next]_vars
  PROVE  LockHeld'
<1>p. PlacesOK
  BY DEF TypeOK
<1>1. CASE UNCHANGED vars
  BY <1>1 DEF vars, LockHeld
<1>2. CASE WorkerOnly
  <2>1. PICK from, to : to \in WorkerPlaces \ {"notify"} /\ from # "notify" /\ Goto(Worker, from, to)
    BY <1>2 DEF WorkerOnly, TestRunning, EnterWait, SpuriousWakeup, TestInner,
         is_there_available_task, EndCallback, WorkerPlaces
  <2>2. UNCHANGED m_qlock
    BY <1>2, WorkerOnlyType DEF DataUnchanged
  <2>3. QED
    BY <1>p, <2>1, <2>2, GotoMoves, ThreadsDistinct, ThreadSets DEF LockHeld
<1>3. CASE dequeue_task
  <2>1. Goto(Worker, "dequeue", "task") /\ UNCHANGED m_qlock /\ "task" \in WorkerPlaces
    BY <1>3 DEF dequeue_task, WorkerPlaces
  <2>2. QED
    BY <1>p, <2>1, GotoMoves, ThreadsDistinct, ThreadSets DEF LockHeld
<1>4. ASSUME NEW t \in Adders \cup {Worker}, Push(t)
      PROVE  LockHeld'
  <2>1. Goto(t, Caller(t), "notify") /\ m_qlock = Free /\ m_qlock' = t
    BY <1>4 DEF Push
  <2>2. t \in Threads /\ "notify" \in Places
    BY ThreadSets DEF Places, WorkerPlaces
  <2>3. \A u \in Threads : pc'[u] = IF u = t THEN "notify" ELSE pc[u]
    BY <1>p, <2>1, <2>2, GotoMoves
  <2>4. QED
    BY <2>1, <2>3, ThreadsDistinct, ThreadSets DEF LockHeld
<1>5. ASSUME NEW t \in Adders \cup {Worker}, Notify(t)
      PROVE  LockHeld'
  <2>1. NotifyAll(t, "notify", Caller(t)) /\ m_qlock' = Free
    BY <1>5 DEF Notify
  <2>2. t \in Threads /\ Caller(t) \in Places /\ Caller(t) # "notify"
    BY ThreadSets DEF Places, WorkerPlaces, AdderPlaces, Caller
  <2>3. pc[t] = "notify" /\ pc'[t] # "notify"
    BY <1>p, <2>1, <2>2, NotifyMoves
  <2>4. m_qlock = t
    BY <2>3 DEF LockHeld
  <2>5. \A u \in Adders \cup {Worker} : u # t => pc[u] # "notify"
    BY <2>4 DEF LockHeld
  <2>6. \A u \in Adders \cup {Worker} : u # t => pc'[u] # "notify"
    BY <1>p, <2>1, <2>2, <2>5, NotifyMoves, ThreadsDistinct, ThreadSets
  <2>7. QED
    BY <2>1, <2>3, <2>6, ThreadsDistinct DEF LockHeld
<1>6. ASSUME NEW t \in Stoppers, stop(t)
      PROVE  LockHeld'
  <2>1. PICK from, to : to \in StopperPlaces /\ (Goto(t, from, to) \/ NotifyAll(t, from, to))
    BY <1>6 DEF stop, TestStop, ResetRunning, WakeWorker, Join, StopperPlaces
  <2>2. UNCHANGED m_qlock
    BY <1>6, StopType
  <2>3. \A u \in Adders \cup {Worker} : u \in Threads /\ u # t
    BY ThreadsDistinct, ThreadSets
  <2>4. \A u \in Adders \cup {Worker} : pc'[u] = "notify" <=> pc[u] = "notify"
    BY <1>p, <2>1, <2>3, GotoMoves, NotifyMoves, ThreadSets, ThreadsDistinct
  <2>5. QED
    BY <2>2, <2>4, ThreadsDistinct DEF LockHeld
<1>7. QED
  BY <1>1, <1>2, <1>3, <1>4, <1>5, <1>6, NextSteps

-----------------------------------------------------------------------------
(* A task that is_there_available_task saw is still there for dequeue_task: *)
(* only the worker takes tasks away.                                       *)
LEMMA DequeueStep ==
  ASSUME TypeOK, DequeueFindsTask, [Next]_vars
  PROVE  DequeueFindsTask'
<1>p. PlacesOK /\ m_queue \in Seq(1..pushed)
  BY DEF TypeOK, DataOK
<1>1. CASE UNCHANGED vars
  BY <1>1 DEF vars, DequeueFindsTask
<1>2. CASE WorkerOnly
  <2>1. UNCHANGED m_queue
    BY <1>2, WorkerOnlyType DEF DataUnchanged
  <2>2. CASE is_there_available_task
    <3>1. Goto(Worker, "check", IF m_queue # <<>> THEN "dequeue" ELSE "test")
      BY <2>2 DEF is_there_available_task
    <3>2. pc'[Worker] = IF m_queue # <<>> THEN "dequeue" ELSE "test"
      BY <1>p, <3>1, GotoMoves, ThreadSets DEF WorkerPlaces
    <3>3. QED
      BY <2>1, <3>2 DEF DequeueFindsTask
  <2>3. CASE ~is_there_available_task
    <3>1. PICK from, to : to \in WorkerPlaces \ {"dequeue"} /\ Goto(Worker, from, to)
      BY <1>2, <2>3 DEF WorkerOnly, TestRunning, EnterWait, SpuriousWakeup, TestInner,
           EndCallback, WorkerPlaces
    <3>2. pc'[Worker] # "dequeue"
      BY <1>p, <3>1, GotoMoves, ThreadSets
    <3>3. QED
      BY <3>2 DEF DequeueFindsTask
  <2>4. QED
    BY <2>2, <2>3
<1>3. CASE dequeue_task
  <2>1. pc'[Worker] = "task"
    BY <1>p, <1>3, GotoMoves, ThreadSets DEF dequeue_task, WorkerPlaces
  <2>2. QED
    BY <2>1 DEF DequeueFindsTask
<1>4. ASSUME NEW t \in Adders \cup {Worker}, Push(t)
      PROVE  DequeueFindsTask'
  <2>1. m_queue' = Append(m_queue, pushed')
    BY <1>4 DEF Push
  <2>2. m_queue' # <<>>
    BY <1>p, <2>1
  <2>3. QED
    BY <2>2 DEF DequeueFindsTask
<1>5. ASSUME NEW t \in Adders \cup {Worker} \cup Stoppers, NEW from,
             NEW to \in Places \ {"dequeue"},
             Goto(t, from, to) \/ NotifyAll(t, from, to), UNCHANGED m_queue
      PROVE  DequeueFindsTask'
  <2>1. pc'[Worker] = "dequeue" => pc[Worker] = "dequeue"
    BY <1>p, <1>5, GotoMoves, NotifyMoves, ThreadSets
  <2>2. QED
    BY <1>5, <2>1 DEF DequeueFindsTask
<1>6. ASSUME NEW t \in Adders \cup {Worker}, Notify(t)
      PROVE  DequeueFindsTask'
  <2>1. NotifyAll(t, "notify", Caller(t)) /\ UNCHANGED m_queue
    BY <1>6 DEF Notify
  <2>2. Caller(t) \in Places \ {"dequeue"}
    BY DEF Caller, Places, WorkerPlaces, AdderPlaces
  <2>3. QED
    BY <1>5, <2>1, <2>2
<1>7. ASSUME NEW t \in Stoppers, stop(t)
      PROVE  DequeueFindsTask'
  <2>1. PICK from, to : to \in StopperPlaces /\ (Goto(t, from, to) \/ NotifyAll(t, from, to))
    BY <1>7 DEF stop, TestStop, ResetRunning, WakeWorker, Join, StopperPlaces
  <2>2. to \in Places \ {"dequeue"}
    BY <2>1 DEF Places, StopperPlaces
  <2>3. UNCHANGED m_queue
    BY <1>7, StopType
  <2>4. QED
    BY <1>5, <2>1, <2>2, <2>3
<1>8. QED
  BY <1>1, <1>2, <1>3, <1>4, <1>6, <1>7, NextSteps

-----------------------------------------------------------------------------
(* Moving the head of the second sequence to the end of the first one, or  *)
(* appending to the second one, seen on the concatenation.                 *)
LEMMA HeadMoves ==
  ASSUME NEW S, NEW p \in Seq(S), NEW q \in Seq(S), q # <<>>
  PROVE  Append(p, Head(q)) \o Tail(q) = p \o q
<1>1. /\ Append(p, Head(q)) \in Seq(S) /\ Tail(q) \in Seq(S)
      /\ Len(Append(p, Head(q))) = Len(p) + 1 /\ Len(Tail(q)) = Len(q) - 1
  OBVIOUS
<1>2. Len(Append(p, Head(q)) \o Tail(q)) = Len(p \o q)
  BY <1>1
<1>3. \A i \in 1..Len(p \o q) : (Append(p, Head(q)) \o Tail(q))[i] = (p \o q)[i]
  BY <1>1
<1>4. QED
  BY <1>1, <1>2, <1>3

LEMMA AppendOutside ==
  ASSUME NEW S, NEW p \in Seq(S), NEW q \in Seq(S), NEW x \in S
  PROVE  /\ Len(p \o Append(q, x)) = Len(p \o q) + 1
         /\ \A i \in 1..Len(p \o q) : (p \o Append(q, x))[i] = (p \o q)[i]
         /\ (p \o Append(q, x))[Len(p \o q) + 1] = x
OBVIOUS

(* The order of the tasks, in the two steps that touch the queue.          *)
LEMMA OrderStep ==
  ASSUME TypeOK, TasksInOrder, DequeueFindsTask, [Next]_vars
  PROVE  TasksInOrder'
<1>t. m_queue \in Seq(1..pushed) /\ performed \in Seq(1..pushed) /\ pushed \in Nat
  BY ThreadsDistinct DEF TypeOK, DataOK
<1>1. CASE UNCHANGED <<m_queue, pushed, performed>>
  BY <1>1 DEF TasksInOrder
<1>2. CASE dequeue_task
  <2>1. m_queue # <<>>
    BY <1>2 DEF DequeueFindsTask, dequeue_task, Goto
  <2>2. performed' = Append(performed, Head(m_queue)) /\ m_queue' = Tail(m_queue)
        /\ pushed' = pushed
    BY <1>2 DEF dequeue_task
  <2>3. performed' \o m_queue' = performed \o m_queue
    BY <1>t, <2>1, <2>2, HeadMoves
  <2>4. QED
    BY <2>2, <2>3 DEF TasksInOrder
<1>3. ASSUME NEW t \in Adders \cup {Worker}, Push(t)
      PROVE  TasksInOrder'
  <2>1. pushed' = pushed + 1 /\ m_queue' = Append(m_queue, pushed') /\ performed' = performed
    BY <1>3 DEF Push
  <2>2. m_queue \in Seq(Nat) /\ performed \in Seq(Nat) /\ pushed' \in Nat
    BY <1>t, <2>1
  <2>3. Len(performed \o m_queue) = pushed /\ \A i \in 1..pushed : (performed \o m_queue)[i] = i
    BY <1>t, <2>2 DEF TasksInOrder
  <2>4. /\ Len(performed' \o m_queue') = pushed'
        /\ \A i \in 1..pushed' : (performed' \o m_queue')[i] = i
    BY <1>t, <2>1, <2>2, <2>3, AppendOutside
  <2>5. performed' \o m_queue' \in Seq(Nat)
    BY <2>1, <2>2
  <2>6. performed' \o m_queue' = [i \in 1..Len(performed' \o m_queue') |-> (performed' \o m_queue')[i]]
    BY <2>5, LenProperties
  <2>7. performed' \o m_queue' = [i \in 1..pushed' |-> i]
    BY <2>4, <2>6
  <2>8. QED
    BY <2>7 DEF TasksInOrder
<1>4. ASSUME NEW t \in Adders \cup {Worker}, Notify(t)
      PROVE  UNCHANGED <<m_queue, pushed, performed>>
  BY <1>4 DEF Notify
<1>5. WorkerOnly \/ (\E t \in Stoppers : stop(t)) \/ UNCHANGED vars
        => UNCHANGED <<m_queue, pushed, performed>>
  BY WorkerOnlyType, StopType DEF DataUnchanged, vars
<1>6. QED
  BY <1>1, <1>2, <1>3, <1>4, <1>5, NextSteps

-----------------------------------------------------------------------------
(* stop() returns after the worker has ended, and the worker does not come *)
(* back.                                                                   *)
LEMMA StoppedStep ==
  ASSUME TypeOK, StoppedMeansDone, [Next]_vars
  PROVE  StoppedMeansDone'
<1>p. PlacesOK
  BY DEF TypeOK
<1>1. CASE UNCHANGED vars
  BY <1>1 DEF vars, StoppedMeansDone
<1>2. ASSUME NEW to \in WorkerPlaces, NEW from \in WorkerPlaces \ {"done"}, Goto(Worker, from, to)
      PROVE  StoppedMeansDone'
  <2>1. pc[Worker] # "done"
    BY <1>2 DEF Goto
  <2>2. \A t \in Stoppers : pc'[t] = pc[t]
    BY <1>p, <1>2, GotoMoves, ThreadsDistinct, ThreadSets
  <2>3. QED
    BY <2>1, <2>2 DEF StoppedMeansDone
<1>3. CASE WorkerOnly \/ dequeue_task
  <2>1. \E from \in WorkerPlaces \ {"done"}, to \in WorkerPlaces : Goto(Worker, from, to)
    BY <1>3 DEF WorkerOnly, TestRunning, EnterWait, SpuriousWakeup, TestInner,
         is_there_available_task, EndCallback, dequeue_task, WorkerPlaces
  <2>2. QED
    BY <1>2, <2>1
<1>4. ASSUME NEW t \in Adders \cup {Worker}, Push(t) \/ Notify(t)
      PROVE  StoppedMeansDone'
  <2>1. PICK from, to : /\ to \in Places /\ from # "done"
                        /\ Goto(t, from, to) \/ NotifyAll(t, from, to)
    BY <1>4, ThreadSets DEF Push, Notify, Caller, Places, WorkerPlaces, AdderPlaces
  <2>2. \A u \in Stoppers : pc'[u] = pc[u]
    BY <1>p, <2>1, GotoMoves, NotifyMoves, ThreadsDistinct, ThreadSets
  <2>3. pc[Worker] = "done" => pc'[Worker] = "done"
    BY <1>p, <2>1, GotoMoves, NotifyMoves, ThreadsDistinct, ThreadSets
  <2>4. QED
    BY <2>2, <2>3 DEF StoppedMeansDone
<1>5. ASSUME NEW t \in Stoppers, stop(t)
      PROVE  StoppedMeansDone'
  <2>1. PICK from, to : /\ to \in StopperPlaces
                        /\ to = "stopped" => pc[Worker] = "done"
                        /\ Goto(t, from, to) \/ NotifyAll(t, from, to)
    BY <1>5 DEF stop, TestStop, ResetRunning, WakeWorker, Join, StopperPlaces
  <2>2. pc[Worker] = "done" => pc'[Worker] = "done"
    BY <1>p, <2>1, GotoMoves, NotifyMoves, ThreadsDistinct, ThreadSets
  <2>3. \A u \in Stoppers : pc'[u] = IF u = t THEN to ELSE pc[u]
    BY <1>p, <2>1, GotoMoves, NotifyMoves, ThreadsDistinct, ThreadSets
  <2>4. QED
    BY <2>1, <2>2, <2>3 DEF StoppedMeansDone
<1>6. QED
  BY <1>1, <1>3, <1>4, <1>5, NextSteps

-----------------------------------------------------------------------------
LEMMA InitInv ==
  ASSUME Init
  PROVE  IInv
<1>1. TypeOK
  BY ThreadsDistinct, ThreadSets
  DEF Init, TypeOK, DataOK, PlacesOK, Places, AdderPlaces, StopperPlaces, WorkerPlaces, Threads
<1>2. LockHeld /\ DequeueFindsTask /\ StoppedMeansDone
  BY ThreadsDistinct, ThreadSets DEF Init, LockHeld, DequeueFindsTask, StoppedMeansDone
<1>3. TasksInOrder
  <2>1. performed = <<>> /\ m_queue = <<>> /\ pushed = 0
    BY DEF Init
  <2>2. <<>> \o <<>> = [i \in 1..0 |-> i]
    OBVIOUS
  <2>3. QED
    BY <2>1, <2>2 DEF TasksInOrder
<1>4. QED
  BY <1>1, <1>2, <1>3 DEF IInv

(* The five parts hold together: typing the dequeued task needs            *)
(* DequeueFindsTask, everything else needs the types.                      *)
LEMMA Invariance == Spec => []IInv
<1>1. Init => IInv
  BY InitInv
<1>2. IInv /\ [Next]_vars => IInv'
  BY TypeStep, LockStep, DequeueStep, OrderStep, StoppedStep DEF IInv
<1>3. QED
  BY <1>1, <1>2, PTL DEF Spec

(* The queue holds pushed tasks only and every thread is where it can be.  *)
THEOREM TaskQueueTypeCorrect == Spec => []TypeOK
<1>1. IInv => TypeOK
  BY DEF IInv
<1>2. QED
  BY <1>1, Invariance, PTL

(* m_qlock is held by the one thread inside add_task, and by it only.      *)
THEOREM LockCorrect == Spec => []LockHeld
<1>1. IInv => LockHeld
  BY DEF IInv
<1>2. QED
  BY <1>1, Invariance, PTL

(* Whatever threads add tasks, the tasks performed and then those waiting  *)
(* are all the tasks pushed, once each, in the order of arrival.           *)
THEOREM OrderCorrect == Spec => []TasksInOrder
<1>1. IInv => TasksInOrder
  BY DEF IInv
<1>2. QED
  BY <1>1, Invariance, PTL

(* dequeue_task never calls front() of an empty queue.                     *)
THEOREM DequeueCorrect == Spec => []DequeueFindsTask
<1>1. IInv => DequeueFindsTask
  BY DEF IInv
<1>2. QED
  BY <1>1, Invariance, PTL

(* After a stop() that joined the worker no task is performed.             *)
THEOREM NoTaskAfterStopCorrect == Spec => NoTaskAfterStop
<1>1. IInv /\ [Next]_vars
        => [(\E t \in Stoppers : pc[t] = "stopped") => UNCHANGED performed]_vars
  <2>1. SUFFICES ASSUME IInv, Next, NEW t \in Stoppers, pc[t] = "stopped"
                 PROVE  UNCHANGED performed
    BY DEF vars
  <2>2. pc[Worker] = "done"
    BY <2>1 DEF IInv, StoppedMeansDone
  <2>3. ~dequeue_task
    BY <2>2 DEF dequeue_task, Goto
  <2>4. QED
    BY <2>1, <2>3, NextSteps, WorkerOnlyType, StopType DEF IInv, Push, Notify, DataUnchanged
<1>2. QED
  BY <1>1, Invariance, PTL DEF Spec, NoTaskAfterStop

(* The locked queue with its condition variable implements the queue that  *)
(* SubscriptionManager takes for granted.                                  *)
THEOREM RefinesFifo == Spec => ImplementsFifo
<1>1. Init => Queue!FifoInit
  <2>1. SUFFICES ASSUME Init PROVE Queue!FifoInit
    OBVIOUS
  <2>2. pc[Worker] = "test" /\ performed = <<>> /\ pushed = 0
    BY <2>1, ThreadSets DEF Init
  <2>3. Len(performed) = 0
    BY <2>2
  <2>4. QED
    BY <2>2, <2>3 DEF Queue!FifoInit
<1>2. IInv /\ [Next]_vars => [Queue!FifoNext]_(Queue!fifoVars)
  <2>1. SUFFICES ASSUME IInv, [Next]_vars
                 PROVE  [Queue!FifoNext]_(Queue!fifoVars)
    OBVIOUS
  <2>p. TypeOK /\ PlacesOK /\ pushed \in Nat
        /\ m_queue \in Seq(1..pushed) /\ performed \in Seq(1..pushed)
    BY <2>1, ThreadsDistinct DEF IInv, TypeOK, DataOK
  <2>2. CASE UNCHANGED vars
    BY <2>2 DEF vars, Queue!fifoVars
  <2>3. CASE WorkerOnly
    <3>1. UNCHANGED <<pushed, performed>>
      BY <2>p, <2>3, WorkerOnlyType DEF DataUnchanged
    <3>2. CASE EndCallback
      <4>1. pc[Worker] = "task" /\ pc'[Worker] = "inner"
        BY <2>p, <3>2, GotoMoves, ThreadSets DEF EndCallback, WorkerPlaces
      <4>2. QED
        BY <3>1, <4>1 DEF Queue!FifoNext, Queue!Finish
    <3>3. CASE ~EndCallback
      <4>1. PICK from, to : /\ from \notin {"task", "notify"} /\ to \in WorkerPlaces \ {"task", "notify"}
                            /\ Goto(Worker, from, to)
        BY <2>3, <3>3 DEF WorkerOnly, TestRunning, EnterWait, SpuriousWakeup, TestInner,
             is_there_available_task, WorkerPlaces
      <4>2. pc[Worker] \notin {"task", "notify"} /\ pc'[Worker] \notin {"task", "notify"}
        BY <2>p, <4>1, GotoMoves, ThreadSets
      <4>3. QED
        BY <3>1, <4>2 DEF Queue!fifoVars
    <3>4. QED
      BY <3>2, <3>3
  <2>4. CASE dequeue_task
    <3>1. pc[Worker] = "dequeue" /\ pc'[Worker] = "task"
      BY <2>p, <2>4, GotoMoves, ThreadSets DEF dequeue_task, WorkerPlaces
    <3>2. m_queue # <<>>
      BY <2>1, <3>1 DEF IInv, DequeueFindsTask
    <3>3. Len(performed \o m_queue) = pushed
      BY <2>1, <2>p DEF IInv, TasksInOrder
    <3>4. Len(performed) < pushed
      BY <2>p, <3>2, <3>3
    <3>5. pushed' = pushed /\ performed' = Append(performed, Head(m_queue))
      BY <2>4 DEF dequeue_task
    <3>6. Len(performed') = Len(performed) + 1
      BY <2>p, <3>2, <3>5
    <3>7. QED
      BY <3>1, <3>4, <3>5, <3>6 DEF Queue!FifoNext, Queue!Take
  <2>5. ASSUME NEW t \in Adders \cup {Worker}, Push(t)
        PROVE  Queue!Add
    <3>1. Goto(t, Caller(t), "notify") /\ pushed' = pushed + 1 /\ UNCHANGED performed
      BY <2>5 DEF Push
    <3>2. pc[Worker] \in {"task", "notify"} <=> pc'[Worker] \in {"task", "notify"}
      BY <2>p, <3>1, GotoMoves, ThreadSets, ThreadsDistinct DEF Caller, WorkerPlaces
    <3>3. QED
      BY <3>1, <3>2 DEF Queue!Add
  <2>6. ASSUME NEW t \in Adders \cup {Worker} \cup Stoppers, NEW from, NEW to \in Places,
               Goto(t, from, to) \/ NotifyAll(t, from, to),
               t = Worker => from = "notify" /\ to = "task", UNCHANGED <<pushed, performed>>
        PROVE  UNCHANGED Queue!fifoVars
    <3>1. pc[Worker] \in {"task", "notify"} <=> pc'[Worker] \in {"task", "notify"}
      BY <2>p, <2>6, GotoMoves, NotifyMoves, ThreadSets, ThreadsDistinct
    <3>2. QED
      BY <2>6, <3>1 DEF Queue!fifoVars
  <2>7. ASSUME NEW t \in Adders \cup {Worker}, Notify(t)
        PROVE  UNCHANGED Queue!fifoVars
    <3>1. /\ NotifyAll(t, "notify", Caller(t)) /\ UNCHANGED <<pushed, performed>>
          /\ Caller(t) \in Places /\ (t = Worker => Caller(t) = "task")
      BY <2>7, ThreadSets DEF Notify, Caller, Places, WorkerPlaces, AdderPlaces
    <3>2. QED
      BY <2>6, <3>1
  <2>8. ASSUME NEW t \in Stoppers, stop(t)
        PROVE  UNCHANGED Queue!fifoVars
    <3>1. PICK from, to : to \in StopperPlaces /\ (Goto(t, from, to) \/ NotifyAll(t, from, to))
      BY <2>8 DEF stop, TestStop, ResetRunning, WakeWorker, Join, StopperPlaces
    <3>2. UNCHANGED <<pushed, performed>> /\ t # Worker /\ to \in Places
      BY <2>p, <2>8, <3>1, StopType, ThreadsDistinct, ThreadSets
    <3>3. QED
      BY <2>6, <3>1, <3>2
  <2>9. QED
    BY <2>1, <2>2, <2>3, <2>4, <2>5, <2>7, <2>8, NextSteps DEF Queue!FifoNext
<1>3. QED
  BY <1>1, <1>2, Invariance, PTL DEF Spec, ImplementsFifo, Queue!FifoSpec
=============================================================================
