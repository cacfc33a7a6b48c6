------------------------------ MODULE FifoQueue -----------------------------
(***************************************************************************)
(* What SubscriptionManager takes for granted of its task queue: one task  *)
(* is performed at a time, in the order in which the tasks were added.     *)
(* Tasks are numbered in that order.  When a task that waits is taken is   *)
(* not promised: the queue's liveness is stated in TaskQueue.tla.          *)
(***************************************************************************)
EXTENDS Naturals

VARIABLES
  added,     \* tasks added so far: 1..added
  taken,     \* tasks taken so far: 1..taken
  busy       \* a task is being performed

fifoVars == <<added, taken, busy>>

FifoInit == added = 0 /\ taken = 0 /\ busy = FALSE

Add == added' = added + 1 /\ UNCHANGED <<taken, busy>>

Take ==
  /\ ~busy /\ taken < added
  /\ taken' = taken + 1 /\ busy' = TRUE
  /\ UNCHANGED added

Finish == busy /\ busy' = FALSE /\ UNCHANGED <<added, taken>>

FifoNext == Add \/ Take \/ Finish

FifoSpec == FifoInit /\ [][FifoNext]_fifoVars
=============================================================================
