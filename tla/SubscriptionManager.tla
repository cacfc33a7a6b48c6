------------------------ MODULE SubscriptionManager -------------------------
(***************************************************************************)
(* stomp_subscription_manager (stomp_subscription.cpp): SUBSCRIBE and      *)
(* UNSUBSCRIBE requests become tasks of a queue that one worker thread     *)
(* serves.  A subscription is recorded twice, in the subscribers of one    *)
(* session and in the subscriptions of the other, and the worker is the    *)
(* only thread that writes either set.  The registry changes under its     *)
(* feet: a fetch takes mtx_session for its own duration only, so between   *)
(* two steps of a task a session may be unregistered or replaced.          *)
(*                                                                         *)
(* The queue itself (locks, condition variable) is TaskQueue.tla; here a   *)
(* task is taken when the worker is idle, in the order of arrival.         *)
(***************************************************************************)
EXTENDS SessionManager

CONSTANTS
  Patterns,    \* sets of destinations: what a destination header matches
  MaxQueue     \* bound: tasks waiting in the queue

ASSUME PatternsAssumption == Patterns \subseteq SUBSET Dests

VARIABLES
  subscribers,     \* stomp_session::subscribers
  subscriptions,   \* stomp_session::subscriptions
  m_queue,         \* the tasks the worker has not taken yet
  worker,          \* what the worker thread is doing
  task,            \* the task it is doing it for
  visit,           \* the sessions the loop of that task has still to visit
  ec               \* the stomp_errors value of that task

linkVars == <<subscribers, subscriptions>>
workerVars == <<worker, task, visit, ec>>
subscriptionVars == <<linkVars, m_queue, workerVars>>
allVars == <<sessionVars, subscriptionVars>>

-----------------------------------------------------------------------------
Task == [type_task      : {"SUBSCRIBE", "UNSUBSCRIBE"},
         dest_type      : {"DIRECT", "REGEX", "DISABLE"},
         destination    : Patterns \cup {{}},
         owner          : Sessions,
         send_call_back : BOOLEAN]

SubscribeTask(s, type, d) ==
  [type_task |-> "SUBSCRIBE", dest_type |-> type, destination |-> d,
   owner |-> s, send_call_back |-> TRUE]

UnsubscribeTask(s, send_ack_cb) ==
  [type_task |-> "UNSUBSCRIBE", dest_type |-> "DISABLE", destination |-> {},
   owner |-> s, send_call_back |-> send_ack_cb]

NoTask == UnsubscribeTask(Null, FALSE)

add_task(t) ==
  /\ Len(m_queue) < MaxQueue
  /\ m_queue' = Append(m_queue, t)

async_init_subscription(s, type, d) ==
  add_task(SubscribeTask(s, type, d)) /\ UNCHANGED <<linkVars, workerVars>>

async_init_unsubscription(s, send_ack_cb) ==
  add_task(UnsubscribeTask(s, send_ack_cb)) /\ UNCHANGED <<linkVars, workerVars>>

-----------------------------------------------------------------------------
(* perform_subscription: agents and administrators may not subscribe.      *)
MaySubscribe(s) == profile[s] \in {super_agent, service}

(* The sessions fetched under mtx_session: a direct destination gives the  *)
(* session found, or m_null_session; a pattern gives every live session.   *)
Candidates(t) ==
  IF t.dest_type = "DIRECT"
  THEN {fetch_session_by_destination(d) : d \in t.destination}
  ELSE m_sessions

(* Of those, the ones of a lower profile that match are linked.            *)
ToLinkAnyRank(t) ==          \* slip: the rank test is dropped
  {b \in Candidates(t) : t.dest_type = "REGEX" => destiny_id(b) \in t.destination}

ToLink(t) ==
  {b \in Candidates(t) :
     /\ profile[t.owner] > profile[b]
     /\ t.dest_type = "REGEX" => destiny_id(b) \in t.destination}

SubscriptionResult(t) ==
  IF ~MaySubscribe(t.owner) THEN "PROF_NO_RIGHTS"
  ELSE IF Candidates(t) = {} THEN "NO_DESTINATION_SUB" ELSE "OK"

TakeTask(type) ==
  /\ worker = "idle" /\ m_queue # <<>>
  /\ Head(m_queue).type_task = type
  /\ task' = Head(m_queue)
  /\ m_queue' = Tail(m_queue)
  /\ UNCHANGED linkVars

StartSubscription ==
  /\ TakeTask("SUBSCRIBE")
  /\ worker' = "linking"
  /\ visit' = IF MaySubscribe(task'.owner) THEN ToLink(task') ELSE {}
  /\ ec' = SubscriptionResult(task')

LinkOneSide(b) ==            \* slip: the owner's own set is not updated
  /\ worker = "linking" /\ b \in visit
  /\ subscribers' = [subscribers EXCEPT ![b] = @ \cup {task.owner}]
  /\ visit' = visit \ {b}
  /\ UNCHANGED <<subscriptions, m_queue, worker, task, ec>>

Link(b) ==
  /\ worker = "linking" /\ b \in visit
  /\ subscribers' = [subscribers EXCEPT ![b] = @ \cup {task.owner}]
  /\ subscriptions' = [subscriptions EXCEPT ![task.owner] = @ \cup {b}]
  /\ visit' = visit \ {b}
  /\ UNCHANGED <<m_queue, worker, task, ec>>

(* perform_unsubscription: every session on either side of a link of the   *)
(* owner is visited; one that is no longer registered is skipped.          *)
VisitSubscribersOnly(s) == subscribers[s]   \* slip: the second loop is lost
ToUnlink(s) == subscribers[s] \cup subscriptions[s]

StartUnsubscription ==
  /\ TakeTask("UNSUBSCRIBE")
  /\ worker' = "unlinking"
  /\ visit' = ToUnlink(task'.owner)
  /\ ec' = "OK"

Unlink(b) ==
  /\ worker = "unlinking" /\ b \in visit
  /\ IF fetch_session_by_id(b) # Null
     THEN /\ subscribers' = [subscribers EXCEPT ![b] = @ \ {task.owner}]
          /\ subscriptions' = [subscriptions EXCEPT ![b] = @ \ {task.owner}]
     ELSE UNCHANGED linkVars
  /\ visit' = visit \ {b}
  /\ UNCHANGED <<m_queue, worker, task, ec>>

(* The loop is over; an unsubscription clears the owner's own sets.        *)
EndTaskEarly ==              \* slip: the loop is left before its end
  /\ worker \in {"linking", "unlinking"}
  /\ IF worker = "unlinking"
     THEN /\ subscribers' = [subscribers EXCEPT ![task.owner] = {}]
          /\ subscriptions' = [subscriptions EXCEPT ![task.owner] = {}]
     ELSE UNCHANGED linkVars
  /\ worker' = "idle" /\ task' = NoTask /\ ec' = "OK"
  /\ UNCHANGED <<m_queue, visit>>

EndTask ==
  /\ worker \in {"linking", "unlinking"} /\ visit = {}
  /\ IF worker = "unlinking"
     THEN /\ subscribers' = [subscribers EXCEPT ![task.owner] = {}]
          /\ subscriptions' = [subscriptions EXCEPT ![task.owner] = {}]
     ELSE UNCHANGED linkVars
  /\ worker' = "idle" /\ task' = NoTask /\ ec' = "OK"
  /\ UNCHANGED <<m_queue, visit>>

WorkerStep ==
  \/ StartSubscription \/ StartUnsubscription \/ EndTask
  \/ \E b \in visit : Link(b) \/ Unlink(b)

-----------------------------------------------------------------------------
SubscriptionInit ==
  /\ subscribers = [s \in Sessions |-> {}]
  /\ subscriptions = [s \in Sessions |-> {}]
  /\ m_queue = <<>>
  /\ worker = "idle" /\ task = NoTask /\ visit = {} /\ ec = "OK"

(* A session that was created may be in a task, registered or not; only    *)
(* the end of a connection without a session asks for the null session.    *)
Request ==
  \/ \E s \in 1..created, d \in Patterns :
       \/ Cardinality(d) = 1 /\ async_init_subscription(s, "DIRECT", d)
       \/ async_init_subscription(s, "REGEX", d)
  \/ \E s \in 1..created : async_init_unsubscription(s, TRUE)
  \/ \E s \in 0..created : async_init_unsubscription(s, FALSE)

ManagersInit == RegistryInit /\ SubscriptionInit
ManagersNext ==
  \/ RegistryNext /\ UNCHANGED subscriptionVars
  \/ (Request \/ WorkerStep) /\ UNCHANGED sessionVars

ManagersSpec == ManagersInit /\ [][ManagersNext]_allVars

-----------------------------------------------------------------------------
Phases == {"idle", "linking", "unlinking"}
Results == {"OK", "PROF_NO_RIGHTS", "NO_DESTINATION_SUB"}

(* Links and pending visits concern sessions that were created; a session   *)
(* that was not created yet has no links.                                  *)
SubscriptionTypeOK ==
  /\ subscribers \in [Sessions -> SUBSET (0..created)]
  /\ subscriptions \in [Sessions -> SUBSET (0..created)]
  /\ m_queue \in Seq(Task)
  /\ \A i \in DOMAIN m_queue : m_queue[i].owner <= created
  /\ worker \in Phases /\ ec \in Results
  /\ task \in Task /\ task.owner <= created
  /\ visit \subseteq 0..created
  /\ worker = "idle" => visit = {}
  /\ \A s \in Sids : s > created => subscribers[s] = {} /\ subscriptions[s] = {}

(* Whoever subscribes outranks whom it subscribes to (the comment of       *)
(* perform_subscription: Service > Super Agent > Agent).  So no session is *)
(* its own subscriber, and perform_unsubscription, which erases the owner  *)
(* from the sets of the sessions it visits, never erases from the set it   *)
(* is iterating over.                                                      *)
Outranks(a, b) == profile[a] > profile[b] /\ MaySubscribe(a)
SubscribersOutrank ==
  /\ \A a, b \in Sessions : b \in subscribers[a] => Outranks(b, a)
  /\ \A a, b \in Sessions : b \in subscriptions[a] => Outranks(a, b)
NoVisitToItself == worker = "unlinking" => task.owner \notin visit

(* Whatever a registered session lists lists it back: the two halves of a  *)
(* link agree, although the registry changes between the steps of a task.  *)
(* An unsubscription finds the links to remove only through the owner's    *)
(* half, so a missing answer would be a link nobody removes.               *)
UnlinkOwner(s) == worker = "unlinking" /\ task.owner = s
LinksAreAnswered ==
  \A b \in m_sessions : ~UnlinkOwner(b) =>
    /\ \A x \in subscribers[b] : b \in subscriptions[x]
    /\ \A x \in subscriptions[b] : b \in subscribers[x]

(* While an unsubscription runs, every registered session still linked to  *)
(* the owner is one the loop has yet to visit.                             *)
UnlinkCoversPeers ==
  worker = "unlinking" =>
    \A b \in m_sessions :
      task.owner \in subscribers[b] \cup subscriptions[b] => b \in visit

(* An unsubscription that ends leaves no trace of the owner in any         *)
(* registered session, on either side.                                     *)
UnsubscriptionIsComplete ==
  [][worker = "unlinking" /\ worker' = "idle" =>
       \A b \in m_sessions : task.owner \notin subscribers'[b] \cup subscriptions'[b]]_allVars

(* stomp_errors: NO_DESTINATION_SUB when there is no destination to        *)
(* subscribe to.  perform_subscription takes m_null_session for one, links *)
(* it to the owner and answers OK.                                         *)
MissingDestinationIsReported ==
  worker = "linking" /\ Null \in visit => ec = "NO_DESTINATION_SUB"
=============================================================================
