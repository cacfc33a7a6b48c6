--------------------- MODULE SubscriptionManager_proofs ---------------------
(***************************************************************************)
(* The links of the subscription manager, for any number of sessions and    *)
(* any sequence of requests, registrations and ends.                       *)
(*                                                                         *)
(* LinksAreAnswered is not inductive alone: the step that clears the sets  *)
(* of an owner would leave unanswered any session that still lists it, so  *)
(* UnlinkCoversPeers says that an empty visit set leaves none; and what     *)
(* VisitOutranked says of the sessions to link keeps SubscribersOutrank.   *)
(***************************************************************************)
EXTENDS SubscriptionManager, SessionManager_proofs

(* The sessions still to link are outranked by the owner of the task.      *)
VisitOutranked == worker = "linking" => \A b \in visit : Outranks(task.owner, b)

LinkInv ==
  /\ SubscribersOutrank
  /\ VisitOutranked
  /\ LinksAreAnswered
  /\ UnlinkCoversPeers

-----------------------------------------------------------------------------
(* What the typing invariants say of the numbers in play.                  *)
LEMMA CreatedFacts ==
  ASSUME RegistryTypeOK
  PROVE  /\ created \in Nat /\ m_sessions \subseteq 1..created
         /\ 0..created \subseteq Sessions /\ Null \in 0..created
<1>1. created \in 0..MaxSession /\ m_sessions \subseteq 1..created
  BY DEF RegistryTypeOK
<1> QED
  BY <1>1, BoundsAssumption DEF Sessions, Sids, Null

LEMMA FetchType ==
  ASSUME RegistryTypeOK, NEW s
  PROVE  /\ fetch_session_by_id(s) \in 0..created
         /\ fetch_session_by_id(s) # Null <=> s \in m_sessions
<1>1. m_sessions \subseteq 1..created /\ created \in Nat /\ Null \in 0..created
  BY CreatedFacts
<1>2. \A x \in 1..created : x \in 0..created /\ x # Null
  BY <1>1 DEF Null
<1> QED
  BY <1>1, <1>2 DEF fetch_session_by_id

LEMMA CandidatesType ==
  ASSUME RegistryTypeOK, NEW t
  PROVE  Candidates(t) \subseteq 0..created
<1>1. \A d : fetch_session_by_destination(d) \in 0..created
  BY FetchType DEF fetch_session_by_destination
<1>2. m_sessions \subseteq 0..created
  <2>1. m_sessions \subseteq 1..created /\ created \in Nat
    BY CreatedFacts
  <2>2. 1..created \subseteq 0..created
    BY <2>1
  <2> QED
    BY <2>1, <2>2
<1> QED
  BY <1>1, <1>2 DEF Candidates

LEMMA HeadFacts ==
  ASSUME SubscriptionTypeOK, m_queue # <<>>
  PROVE  /\ Head(m_queue) \in Task /\ Head(m_queue).owner <= created
         /\ Tail(m_queue) \in Seq(Task)
         /\ \A i \in DOMAIN Tail(m_queue) : Tail(m_queue)[i].owner <= created
<1>1. m_queue \in Seq(Task) /\ \A i \in DOMAIN m_queue : m_queue[i].owner <= created
  BY DEF SubscriptionTypeOK
<1>2. Head(m_queue) = m_queue[1] /\ 1 \in DOMAIN m_queue /\ Tail(m_queue) \in Seq(Task)
  BY <1>1
<1>3. ASSUME NEW i \in DOMAIN Tail(m_queue)
      PROVE  Tail(m_queue)[i] = m_queue[i + 1] /\ i + 1 \in DOMAIN m_queue
  BY <1>1, <1>3
<1>4. m_queue[1] \in Task
  BY <1>1, <1>2
<1> QED
  BY <1>1, <1>2, <1>3, <1>4

LEMMA TaskTypes ==
  ASSUME NEW s \in Sessions, NEW d \in Patterns, NEW b \in BOOLEAN
  PROVE  /\ SubscribeTask(s, "DIRECT", d) \in Task
         /\ SubscribeTask(s, "REGEX", d) \in Task
         /\ UnsubscribeTask(s, b) \in Task
         /\ SubscribeTask(s, "DIRECT", d).owner = s
         /\ SubscribeTask(s, "REGEX", d).owner = s
         /\ UnsubscribeTask(s, b).owner = s
BY DEF Task, SubscribeTask, UnsubscribeTask

LEMMA NoTaskType == NoTask \in Task /\ NoTask.owner = Null
<1>1. Null \in Sessions
  BY DEF Sessions
<1> QED
  BY <1>1 DEF NoTask, Task, UnsubscribeTask

-----------------------------------------------------------------------------
(* Type correctness: one lemma per action of the manager.                  *)
LEMMA AddTaskType ==
  ASSUME RegistryTypeOK, SubscriptionTypeOK, UNCHANGED <<linkVars, workerVars, sessionVars>>,
         NEW t \in Task, t.owner <= created, add_task(t)
  PROVE  SubscriptionTypeOK'
<1>1. m_queue \in Seq(Task) /\ \A i \in DOMAIN m_queue : m_queue[i].owner <= created
  BY DEF SubscriptionTypeOK
<1>2. m_queue' = Append(m_queue, t)
  BY DEF add_task
<1>3. m_queue' \in Seq(Task)
  BY <1>1, <1>2
<1>4. ASSUME NEW i \in DOMAIN m_queue'
      PROVE  m_queue'[i].owner <= created
  <2>1. CASE i \in DOMAIN m_queue
    <3>1. m_queue'[i] = m_queue[i]
      BY <1>1, <1>2, <2>1
    <3> QED
      BY <1>1, <2>1, <3>1
  <2>2. CASE i \notin DOMAIN m_queue
    <3>1. m_queue'[i] = t
      BY <1>1, <1>2, <1>4, <2>2
    <3> QED
      BY <3>1
  <2> QED
    BY <2>1, <2>2
<1>5. UNCHANGED <<created, subscribers, subscriptions, worker, task, visit, ec>>
  BY DEF linkVars, workerVars, sessionVars, sessionFields
<1> QED
  BY <1>3, <1>4, <1>5 DEF SubscriptionTypeOK

LEMMA RequestType ==
  ASSUME RegistryTypeOK, SubscriptionTypeOK, Request, UNCHANGED sessionVars
  PROVE  SubscriptionTypeOK'
<1>0. created \in Nat /\ 0..created \subseteq Sessions
  BY CreatedFacts
<1>1. ASSUME NEW s \in 0..created, NEW b \in BOOLEAN, async_init_unsubscription(s, b)
      PROVE  SubscriptionTypeOK'
  <2>1. UnsubscribeTask(s, b) \in Task /\ UnsubscribeTask(s, b).owner = s /\ s <= created
    BY <1>0, <1>1 DEF Task, UnsubscribeTask
  <2> QED
    BY <1>1, <2>1, AddTaskType DEF async_init_unsubscription
<1>2. ASSUME NEW s \in 0..created, NEW d \in Patterns, NEW y \in {"DIRECT", "REGEX"},
             async_init_subscription(s, y, d)
      PROVE  SubscriptionTypeOK'
  <2>1. SubscribeTask(s, y, d) \in Task /\ SubscribeTask(s, y, d).owner = s /\ s <= created
    BY <1>0, <1>2 DEF Task, SubscribeTask
  <2> QED
    BY <1>2, <2>1, AddTaskType DEF async_init_subscription
<1>3. 1..created \subseteq 0..created
  BY <1>0
<1> QED
  BY <1>1, <1>2, <1>3 DEF Request

LEMMA TakeTaskType ==
  ASSUME SubscriptionTypeOK, NEW y, TakeTask(y), UNCHANGED sessionVars,
         worker' \in Phases \ {"idle"}, visit' \subseteq 0..created, ec' \in Results
  PROVE  SubscriptionTypeOK'
<1>1. /\ m_queue # <<>> /\ task' = Head(m_queue) /\ m_queue' = Tail(m_queue)
      /\ UNCHANGED <<created, subscribers, subscriptions>>
  BY DEF TakeTask, linkVars, sessionVars, sessionFields
<1>2. /\ task' \in Task /\ task'.owner <= created
      /\ m_queue' \in Seq(Task) /\ \A i \in DOMAIN m_queue' : m_queue'[i].owner <= created
  BY <1>1, HeadFacts
<1> QED
  BY <1>1, <1>2 DEF SubscriptionTypeOK

LEMMA StartSubscriptionType ==
  ASSUME RegistryTypeOK, SubscriptionTypeOK, StartSubscription, UNCHANGED sessionVars
  PROVE  SubscriptionTypeOK'
<1>1. ToLink(task') \subseteq 0..created
  BY CandidatesType DEF ToLink
<1>2. visit' \subseteq 0..created
  BY <1>1 DEF StartSubscription
<1>3. ec' \in Results /\ worker' \in Phases \ {"idle"}
  BY DEF StartSubscription, SubscriptionResult, Results, Phases
<1> QED
  BY <1>2, <1>3, TakeTaskType DEF StartSubscription

LEMMA StartUnsubscriptionType ==
  ASSUME RegistryTypeOK, SubscriptionTypeOK, StartUnsubscription, UNCHANGED sessionVars
  PROVE  SubscriptionTypeOK'
<1>1. m_queue # <<>> /\ task' = Head(m_queue)
  BY DEF StartUnsubscription, TakeTask
<1>2. task'.owner \in Sessions
  <2>1. Head(m_queue) \in Task
    BY <1>1, HeadFacts
  <2> QED
    BY <1>1, <2>1 DEF Task
<1>3. visit' \subseteq 0..created
  BY <1>2 DEF StartUnsubscription, ToUnlink, SubscriptionTypeOK
<1>4. ec' \in Results /\ worker' \in Phases \ {"idle"}
  BY DEF StartUnsubscription, Results, Phases
<1> QED
  BY <1>3, <1>4, TakeTaskType DEF StartUnsubscription

(* Replacing the set of one created session by ids of created sessions.    *)
LEMMA SetUpdate ==
  ASSUME created \in Nat, 0..created \subseteq Sessions,
         NEW f \in [Sessions -> SUBSET (0..created)],
         \A s \in Sids : s > created => f[s] = {},
         NEW x \in 0..created, NEW V \in SUBSET (0..created)
  PROVE  /\ [f EXCEPT ![x] = V] \in [Sessions -> SUBSET (0..created)]
         /\ \A s \in Sids : s > created => [f EXCEPT ![x] = V][s] = {}
<1>1. [f EXCEPT ![x] = V] \in [Sessions -> SUBSET (0..created)]
  OBVIOUS
<1>2. ASSUME NEW s \in Sids, s > created
      PROVE  [f EXCEPT ![x] = V][s] = {}
  <2>1. s # x /\ s \in Sessions
    BY <1>2 DEF Sessions
  <2> QED
    BY <1>2, <2>1
<1> QED
  BY <1>1, <1>2

LEMMA LinkType ==
  ASSUME RegistryTypeOK, SubscriptionTypeOK, NEW b \in visit, Link(b) \/ Unlink(b),
         UNCHANGED sessionVars
  PROVE  SubscriptionTypeOK'
<1>1. /\ subscribers \in [Sessions -> SUBSET (0..created)]
      /\ subscriptions \in [Sessions -> SUBSET (0..created)]
      /\ visit \subseteq 0..created
      /\ \A s \in Sids : s > created => subscribers[s] = {} /\ subscriptions[s] = {}
      /\ created \in Nat /\ 0..created \subseteq Sessions
  BY CreatedFacts DEF SubscriptionTypeOK
<1>2. task.owner \in 0..created
  <2>1. task.owner \in Sessions /\ task.owner <= created
    BY DEF SubscriptionTypeOK, Task
  <2>2. \A s \in Sessions : s \in Nat
    BY BoundsAssumption DEF Sessions, Sids, Null
  <2> QED
    BY <1>1, <2>1, <2>2
<1>3. b \in 0..created
  BY <1>1
<1>4. UNCHANGED <<created, m_queue, task, ec, worker>> /\ visit' = visit \ {b} /\ worker # "idle"
  BY DEF Link, Unlink, sessionVars, sessionFields
<1>5. /\ subscribers' \in [Sessions -> SUBSET (0..created)]
      /\ \A s \in Sids : s > created => subscribers'[s] = {}
  <2>1. \/ subscribers' = [subscribers EXCEPT ![b] = @ \cup {task.owner}]
        \/ subscribers' = [subscribers EXCEPT ![b] = @ \ {task.owner}]
        \/ subscribers' = subscribers
    BY DEF Link, Unlink, linkVars
  <2>2. /\ subscribers[b] \cup {task.owner} \in SUBSET (0..created)
        /\ subscribers[b] \ {task.owner} \in SUBSET (0..created)
    BY <1>1, <1>2, <1>3
  <2>3. CASE subscribers' = [subscribers EXCEPT ![b] = subscribers[b] \cup {task.owner}]
    BY <1>1, <1>2, <1>3, <2>2, <2>3, SetUpdate
  <2>4. CASE subscribers' = [subscribers EXCEPT ![b] = subscribers[b] \ {task.owner}]
    BY <1>1, <1>3, <2>2, <2>4, SetUpdate
  <2>5. CASE subscribers' = subscribers
    BY <1>1, <2>5
  <2> QED
    BY <2>1, <2>3, <2>4, <2>5
<1>6. /\ subscriptions' \in [Sessions -> SUBSET (0..created)]
      /\ \A s \in Sids : s > created => subscriptions'[s] = {}
  <2>1. \/ subscriptions' = [subscriptions EXCEPT ![task.owner] = @ \cup {b}]
        \/ subscriptions' = [subscriptions EXCEPT ![b] = @ \ {task.owner}]
        \/ subscriptions' = subscriptions
    BY DEF Link, Unlink, linkVars
  <2>2. /\ subscriptions[task.owner] \cup {b} \in SUBSET (0..created)
        /\ subscriptions[b] \ {task.owner} \in SUBSET (0..created)
    BY <1>1, <1>2, <1>3
  <2>3. CASE subscriptions' = [subscriptions EXCEPT ![task.owner] = subscriptions[task.owner] \cup {b}]
    BY <1>1, <1>2, <1>3, <2>2, <2>3, SetUpdate
  <2>4. CASE subscriptions' = [subscriptions EXCEPT ![b] = subscriptions[b] \ {task.owner}]
    BY <1>1, <1>3, <2>2, <2>4, SetUpdate
  <2>5. CASE subscriptions' = subscriptions
    BY <1>1, <2>5
  <2> QED
    BY <2>1, <2>3, <2>4, <2>5
<1> QED
  BY <1>1, <1>4, <1>5, <1>6 DEF SubscriptionTypeOK

LEMMA EndTaskType ==
  ASSUME RegistryTypeOK, SubscriptionTypeOK, EndTask, UNCHANGED sessionVars
  PROVE  SubscriptionTypeOK'
<1>1. /\ subscribers \in [Sessions -> SUBSET (0..created)]
      /\ subscriptions \in [Sessions -> SUBSET (0..created)]
      /\ \A s \in Sids : s > created => subscribers[s] = {} /\ subscriptions[s] = {}
  BY DEF SubscriptionTypeOK
<1>2. /\ subscribers' \in [Sessions -> SUBSET (0..created)]
      /\ \A s \in Sids : s > created => subscribers'[s] = {}
  <2>1. \/ subscribers' = [subscribers EXCEPT ![task.owner] = {}]
        \/ subscribers' = subscribers
    BY DEF EndTask, linkVars
  <2>2. Sids \subseteq Sessions
    BY DEF Sessions
  <2> QED
    BY <1>1, <2>1, <2>2
<1>3. /\ subscriptions' \in [Sessions -> SUBSET (0..created)]
      /\ \A s \in Sids : s > created => subscriptions'[s] = {}
  <2>1. \/ subscriptions' = [subscriptions EXCEPT ![task.owner] = {}]
        \/ subscriptions' = subscriptions
    BY DEF EndTask, linkVars
  <2>2. Sids \subseteq Sessions
    BY DEF Sessions
  <2> QED
    BY <1>1, <2>1, <2>2
<1>4. UNCHANGED <<created, m_queue, visit>> /\ worker' = "idle" /\ ec' = "OK" /\ visit = {}
  BY DEF EndTask, sessionVars, sessionFields
<1>5. task' \in Task /\ task'.owner <= created
  <2>1. Null <= created
    <3>1. created \in Nat
      BY CreatedFacts
    <3> QED
      BY <3>1 DEF Null
  <2> QED
    BY <2>1, NoTaskType DEF EndTask
<1> QED
  BY <1>2, <1>3, <1>4, <1>5 DEF SubscriptionTypeOK, Phases, Results

(* What a registry step may do, seen from the subscription manager.        *)
LEMMA RegistryStepFacts ==
  ASSUME RegistryTypeOK, RegistryNext
  PROVE  /\ created \in Nat /\ created' \in Nat /\ created <= created'
         /\ 0..created \subseteq 0..created'
         /\ \A s \in 0..created : profile'[s] = profile[s]
         /\ m_sessions' \ m_sessions \subseteq Sids \ 0..created
<1>1. created \in Nat /\ m_sessions \subseteq 1..created /\ 0..created \subseteq Sessions
  BY CreatedFacts
<1>2. ASSUME UNCHANGED <<created, profile>>, m_sessions' \subseteq m_sessions
      PROVE  /\ created \in Nat /\ created' \in Nat /\ created <= created'
             /\ 0..created \subseteq 0..created'
             /\ \A s \in 0..created : profile'[s] = profile[s]
             /\ m_sessions' \ m_sessions \subseteq Sids \ 0..created
  BY <1>1, <1>2
<1>3. ASSUME NEW c \in Conns, NEW l \in Logins, NEW p \in Profiles, OpenSession(c, l, p)
      PROVE  /\ created \in Nat /\ created' \in Nat /\ created <= created'
             /\ 0..created \subseteq 0..created'
             /\ \A s \in 0..created : profile'[s] = profile[s]
             /\ m_sessions' \ m_sessions \subseteq Sids \ 0..created
  <2>1. /\ created' = created + 1 /\ created < MaxSession
        /\ profile' = [profile EXCEPT ![created + 1] = p]
        /\ m_sessions' = m_sessions \cup {created + 1}
    BY <1>3 DEF OpenSession, NewId
  <2>2. created' \in Nat /\ created <= created' /\ 0..created \subseteq 0..created'
    BY <1>1, <2>1
  <2>3. created + 1 \in Sids /\ created + 1 \notin 0..created
    BY <1>1, <2>1, BoundsAssumption DEF Sids
  <2>4. \A s \in 0..created : profile'[s] = profile[s]
    <3>1. profile \in [Sessions -> empty..admin]
      BY DEF RegistryTypeOK
    <3> QED
      BY <1>1, <2>1, <2>3, <3>1
  <2> QED
    BY <1>1, <2>1, <2>2, <2>3, <2>4
<1>4. ASSUME NEW c \in Conns, NEW l \in Logins, NEW p \in Profiles,
             TakeOverSession(c, l, p) \/ RefuseLogin(l, p)
      PROVE  UNCHANGED <<created, profile, m_sessions>>
  BY <1>4 DEF TakeOverSession, RefuseLogin, sessionVars, sessionFields, registryMaps
<1>5. ASSUME NEW c \in Conns, unregister_session(c)
      PROVE  UNCHANGED <<created, profile>> /\ m_sessions' \subseteq m_sessions
  BY <1>5 DEF unregister_session, ForgetSession, sessionVars, sessionFields, registryMaps
<1>6. ASSUME NEW s, NEW c \in Conns, UnlinkConnection(s, c)
      PROVE  UNCHANGED <<created, profile, m_sessions>>
  BY <1>6 DEF UnlinkConnection, sessionFields, registryMaps
<1> QED
  BY <1>2, <1>3, <1>4, <1>5, <1>6 DEF RegistryNext, register_session

LEMMA RegistryStepType ==
  ASSUME RegistryTypeOK, SubscriptionTypeOK, RegistryNext, UNCHANGED subscriptionVars
  PROVE  SubscriptionTypeOK'
<1>1. /\ created \in Nat /\ created' \in Nat /\ created <= created'
      /\ 0..created \subseteq 0..created'
  BY RegistryStepFacts
<1>2. UNCHANGED <<subscribers, subscriptions, m_queue, worker, task, visit, ec>>
  BY DEF subscriptionVars, linkVars, workerVars
<1>3. /\ subscribers' \in [Sessions -> SUBSET (0..created')]
      /\ subscriptions' \in [Sessions -> SUBSET (0..created')]
      /\ visit' \subseteq 0..created'
  BY <1>1, <1>2 DEF SubscriptionTypeOK
<1>4. \A t \in Task : t.owner <= created => t.owner <= created'
  <2> TAKE t \in Task
  <2>1. t.owner \in Nat
    <3>1. t.owner \in Sessions
      BY DEF Task
    <3> QED
      BY <3>1, BoundsAssumption DEF Sessions, Sids, Null
  <2> QED
    BY <1>1, <2>1
<1>5. m_queue' \in Seq(Task) /\ \A i \in DOMAIN m_queue' : m_queue'[i].owner <= created'
  <2>1. m_queue \in Seq(Task) /\ \A i \in DOMAIN m_queue : m_queue[i].owner <= created
    BY DEF SubscriptionTypeOK
  <2>2. \A i \in DOMAIN m_queue : m_queue[i] \in Task
    BY <2>1
  <2> QED
    BY <1>2, <1>4, <2>1, <2>2
<1>6. task' \in Task /\ task'.owner <= created'
  BY <1>2, <1>4 DEF SubscriptionTypeOK
<1>7. \A s \in Sids : s > created' => subscribers'[s] = {} /\ subscriptions'[s] = {}
  <2> SUFFICES ASSUME NEW s \in Sids, s > created'
               PROVE  subscribers'[s] = {} /\ subscriptions'[s] = {}
    OBVIOUS
  <2>1. s > created
    BY <1>1, BoundsAssumption DEF Sids
  <2> QED
    BY <1>2, <2>1 DEF SubscriptionTypeOK
<1> QED
  BY <1>2, <1>3, <1>5, <1>6, <1>7 DEF SubscriptionTypeOK

LEMMA ManagersTypeInit == ManagersInit => RegistryTypeOK /\ SubscriptionTypeOK
<1> SUFFICES ASSUME ManagersInit
             PROVE  RegistryTypeOK /\ SubscriptionTypeOK
  OBVIOUS
<1>1. RegistryTypeOK
  BY TypeInit DEF ManagersInit
<1>2. /\ subscribers = [s \in Sessions |-> {}] /\ subscriptions = [s \in Sessions |-> {}]
      /\ m_queue = <<>> /\ worker = "idle" /\ task = NoTask /\ visit = {} /\ ec = "OK"
  BY DEF ManagersInit, SubscriptionInit
<1>3. m_queue \in Seq(Task) /\ \A i \in DOMAIN m_queue : m_queue[i].owner <= created
  BY <1>2
<1>4. task \in Task /\ task.owner <= created
  <2>1. Null <= created
    <3>1. created \in Nat
      BY <1>1, CreatedFacts
    <3> QED
      BY <3>1 DEF Null
  <2> QED
    BY <1>2, <2>1, NoTaskType
<1>5. \A s \in Sids : subscribers[s] = {} /\ subscriptions[s] = {}
  BY <1>2 DEF Sessions
<1>6. /\ subscribers \in [Sessions -> SUBSET (0..created)]
      /\ subscriptions \in [Sessions -> SUBSET (0..created)]
  BY <1>2
<1> QED
  BY <1>1, <1>2, <1>3, <1>4, <1>5, <1>6 DEF SubscriptionTypeOK, Phases, Results

LEMMA SubscriptionTypeStep ==
  ASSUME RegistryTypeOK, SubscriptionTypeOK, [ManagersNext]_allVars
  PROVE  SubscriptionTypeOK'
<1>1. CASE RegistryNext /\ UNCHANGED subscriptionVars
  BY <1>1, RegistryStepType
<1>2. CASE Request /\ UNCHANGED sessionVars
  BY <1>2, RequestType
<1>3. CASE WorkerStep /\ UNCHANGED sessionVars
  BY <1>3, StartSubscriptionType, StartUnsubscriptionType, EndTaskType, LinkType DEF WorkerStep
<1>4. CASE UNCHANGED allVars
  BY <1>4 DEF allVars, subscriptionVars, linkVars, workerVars, sessionVars, sessionFields,
              SubscriptionTypeOK
<1> QED
  BY <1>1, <1>2, <1>3, <1>4 DEF ManagersNext

(* Every step of the two managers is a step of the registry or leaves it   *)
(* alone: what is proved of the registry holds of the composition.         *)
LEMMA ManagersImplyRegistry == ManagersSpec => RegistrySpec
<1>1. [ManagersNext]_allVars => [RegistryNext]_sessionVars
  BY DEF ManagersNext, allVars
<1>2. ManagersInit => RegistryInit
  BY DEF ManagersInit
<1> QED
  BY <1>1, <1>2, PTL DEF ManagersSpec, RegistrySpec

(* The ids in links, in tasks and in pending visits are ids of sessions    *)
(* that were created, whatever the callers do.                             *)
THEOREM SubscriptionTypeCorrect == ManagersSpec => []SubscriptionTypeOK
<1>1. ManagersInit => SubscriptionTypeOK
  BY ManagersTypeInit
<1>2. RegistryTypeOK /\ SubscriptionTypeOK /\ [ManagersNext]_allVars => SubscriptionTypeOK'
  BY SubscriptionTypeStep
<1> QED
  BY <1>1, <1>2, ManagersImplyRegistry, TypeCorrect, PTL DEF ManagersSpec

-----------------------------------------------------------------------------
(* The links.  A step of the registry opens a session without links or     *)
(* forgets one, which only weakens what is asked of registered sessions.   *)
LEMMA LinkInvRegistryStep ==
  ASSUME RegistryTypeOK, SubscriptionTypeOK, LinkInv,
         RegistryNext, UNCHANGED subscriptionVars
  PROVE  LinkInv'
<1>0. UNCHANGED <<subscribers, subscriptions, worker, task, visit>>
  BY DEF subscriptionVars, linkVars, workerVars
<1>1. /\ \A s \in 0..created : profile'[s] = profile[s]
      /\ m_sessions' \ m_sessions \subseteq Sids \ 0..created
      /\ created \in Nat
  BY RegistryStepFacts
<1>2. /\ subscribers \in [Sessions -> SUBSET (0..created)]
      /\ subscriptions \in [Sessions -> SUBSET (0..created)]
      /\ visit \subseteq 0..created
      /\ \A s \in Sids : s > created => subscribers[s] = {} /\ subscriptions[s] = {}
  BY DEF SubscriptionTypeOK
<1>3. \A s \in Sessions : s \notin 0..created => subscribers[s] = {} /\ subscriptions[s] = {}
  <2>1. \A s \in Sessions : s \notin 0..created => s \in Sids /\ s > created
    BY <1>1, BoundsAssumption DEF Sessions, Sids, Null
  <2> QED
    BY <1>2, <2>1
<1>4. \A a, b \in 0..created : Outranks(a, b)' <=> Outranks(a, b)
  BY <1>1 DEF Outranks, MaySubscribe
<1>5. task.owner \in 0..created
  <2>1. task.owner \in Sessions /\ task.owner <= created
    BY DEF SubscriptionTypeOK, Task
  <2>2. \A s \in Sessions : s \in Nat
    BY BoundsAssumption DEF Sessions, Sids, Null
  <2> QED
    BY <1>1, <2>1, <2>2
<1>6. SubscribersOutrank'
  <2>1. ASSUME NEW a \in Sessions, NEW b \in subscribers[a]
        PROVE  Outranks(b, a)'
    <3>1. a \in 0..created /\ b \in 0..created /\ b \in Sessions
      BY <1>2, <1>3, <2>1, CreatedFacts
    <3> QED
      BY <1>4, <2>1, <3>1 DEF LinkInv, SubscribersOutrank
  <2>2. ASSUME NEW a \in Sessions, NEW b \in subscriptions[a]
        PROVE  Outranks(a, b)'
    <3>1. a \in 0..created /\ b \in 0..created /\ b \in Sessions
      BY <1>2, <1>3, <2>2, CreatedFacts
    <3> QED
      BY <1>4, <2>2, <3>1 DEF LinkInv, SubscribersOutrank
  <2> QED
    BY <1>0, <2>1, <2>2 DEF SubscribersOutrank
<1>7. VisitOutranked'
  BY <1>0, <1>2, <1>4, <1>5 DEF LinkInv, VisitOutranked
<1>8. \A b \in m_sessions' : b \in m_sessions \/ (subscribers[b] = {} /\ subscriptions[b] = {})
  BY <1>1, <1>3 DEF Sessions
<1>9. LinksAreAnswered'
  BY <1>0, <1>8 DEF LinkInv, LinksAreAnswered, UnlinkOwner
<1>10. UnlinkCoversPeers'
  BY <1>0, <1>8 DEF LinkInv, UnlinkCoversPeers
<1> QED
  BY <1>6, <1>7, <1>9, <1>10 DEF LinkInv

(* Steps of the manager leave the sessions themselves alone.               *)
LEMMA StartSubscriptionLinks ==
  ASSUME RegistryTypeOK, SubscriptionTypeOK, LinkInv,
         StartSubscription, UNCHANGED sessionVars
  PROVE  LinkInv'
<1>1. /\ worker = "idle" /\ worker' = "linking"
      /\ visit' = IF MaySubscribe(task'.owner) THEN ToLink(task') ELSE {}
      /\ UNCHANGED <<subscribers, subscriptions, profile, m_sessions>>
  BY DEF StartSubscription, TakeTask, linkVars, sessionVars, sessionFields, registryMaps
<1>2. SubscribersOutrank'
  BY <1>1 DEF LinkInv, SubscribersOutrank, Outranks, MaySubscribe
<1>3. VisitOutranked'
  BY <1>1 DEF VisitOutranked, ToLink, Outranks, MaySubscribe
<1>4. LinksAreAnswered' /\ UnlinkCoversPeers'
  BY <1>1 DEF LinkInv, LinksAreAnswered, UnlinkCoversPeers, UnlinkOwner
<1> QED
  BY <1>2, <1>3, <1>4 DEF LinkInv

LEMMA StartUnsubscriptionLinks ==
  ASSUME RegistryTypeOK, SubscriptionTypeOK, LinkInv,
         StartUnsubscription, UNCHANGED sessionVars
  PROVE  LinkInv'
<1>1. /\ worker = "idle" /\ worker' = "unlinking"
      /\ visit' = ToUnlink(task'.owner)
      /\ UNCHANGED <<subscribers, subscriptions, profile, m_sessions>>
  BY DEF StartUnsubscription, TakeTask, linkVars, sessionVars, sessionFields, registryMaps
<1>2. SubscribersOutrank'
  BY <1>1 DEF LinkInv, SubscribersOutrank, Outranks, MaySubscribe
<1>3. VisitOutranked'
  BY <1>1 DEF VisitOutranked
<1>4. LinksAreAnswered'
  BY <1>1 DEF LinkInv, LinksAreAnswered, UnlinkOwner
<1>5. UnlinkCoversPeers'
  BY <1>1 DEF LinkInv, LinksAreAnswered, UnlinkCoversPeers, UnlinkOwner, ToUnlink
<1> QED
  BY <1>2, <1>3, <1>4, <1>5 DEF LinkInv

(* The owner of a task is a session that was created, a session to visit   *)
(* one that has a set of its own.                                          *)
LEMMA VisitFacts ==
  ASSUME RegistryTypeOK, SubscriptionTypeOK
  PROVE  /\ subscribers \in [Sessions -> SUBSET (0..created)]
         /\ subscriptions \in [Sessions -> SUBSET (0..created)]
         /\ task.owner \in Sessions /\ visit \subseteq Sessions
         /\ m_sessions \subseteq Sessions
<1>1. visit \subseteq 0..created /\ 0..created \subseteq Sessions /\ m_sessions \subseteq 1..created
  BY CreatedFacts DEF SubscriptionTypeOK
<1>2. m_sessions \subseteq Sessions
  <2>1. 1..created \subseteq 0..created
    BY CreatedFacts
  <2> QED
    BY <1>1, <2>1
<1> QED
  BY <1>1, <1>2 DEF SubscriptionTypeOK, Task

LEMMA LinkLinks ==
  ASSUME RegistryTypeOK, SubscriptionTypeOK, LinkInv,
         NEW b \in visit, Link(b), UNCHANGED sessionVars
  PROVE  LinkInv'
<1>1. /\ worker = "linking" /\ visit' = visit \ {b}
      /\ subscribers' = [subscribers EXCEPT ![b] = @ \cup {task.owner}]
      /\ subscriptions' = [subscriptions EXCEPT ![task.owner] = @ \cup {b}]
      /\ UNCHANGED <<worker, task, profile, m_sessions>>
  BY DEF Link, sessionVars, sessionFields, registryMaps
<1>2. /\ subscribers \in [Sessions -> SUBSET (0..created)]
      /\ subscriptions \in [Sessions -> SUBSET (0..created)]
      /\ task.owner \in Sessions /\ visit \subseteq Sessions /\ m_sessions \subseteq Sessions
  BY VisitFacts
<1>3. /\ \A a, x : x \in subscribers'[a] /\ a \in Sessions =>
            x \in subscribers[a] \/ (a = b /\ x = task.owner)
      /\ \A a, x : x \in subscriptions'[a] /\ a \in Sessions =>
            x \in subscriptions[a] \/ (a = task.owner /\ x = b)
      /\ \A a \in Sessions : subscribers[a] \subseteq subscribers'[a]
      /\ \A a \in Sessions : subscriptions[a] \subseteq subscriptions'[a]
      /\ task.owner \in subscribers'[b] /\ b \in subscriptions'[task.owner]
  BY <1>1, <1>2
<1>4. Outranks(task.owner, b)
  BY <1>1 DEF LinkInv, VisitOutranked
<1>5. SubscribersOutrank'
  BY <1>1, <1>3, <1>4 DEF LinkInv, SubscribersOutrank, Outranks, MaySubscribe
<1>6. VisitOutranked'
  BY <1>1 DEF LinkInv, VisitOutranked, Outranks, MaySubscribe
<1>7. LinksAreAnswered'
  <2> SUFFICES ASSUME NEW a \in m_sessions
               PROVE  /\ \A x \in subscribers'[a] : a \in subscriptions'[x]
                      /\ \A x \in subscriptions'[a] : a \in subscribers'[x]
    BY <1>1 DEF LinksAreAnswered
  <2>1. /\ \A x \in subscribers[a] : a \in subscriptions[x]
        /\ \A x \in subscriptions[a] : a \in subscribers[x]
    BY <1>1 DEF LinkInv, LinksAreAnswered, UnlinkOwner
  <2>2. /\ \A x \in subscribers[a] : x \in Sessions
        /\ \A x \in subscriptions[a] : x \in Sessions
    BY <1>2, CreatedFacts
  <2> QED
    BY <1>2, <1>3, <2>1, <2>2
<1>8. UnlinkCoversPeers'
  BY <1>1 DEF UnlinkCoversPeers
<1> QED
  BY <1>5, <1>6, <1>7, <1>8 DEF LinkInv

LEMMA UnlinkLinks ==
  ASSUME RegistryTypeOK, SubscriptionTypeOK, LinkInv,
         NEW b \in visit, Unlink(b), UNCHANGED sessionVars
  PROVE  LinkInv'
<1>1. /\ worker = "unlinking" /\ visit' = visit \ {b}
      /\ UNCHANGED <<worker, task, profile, m_sessions>>
  BY DEF Unlink, sessionVars, sessionFields, registryMaps
<1>2. /\ subscribers \in [Sessions -> SUBSET (0..created)]
      /\ subscriptions \in [Sessions -> SUBSET (0..created)]
      /\ task.owner \in Sessions /\ visit \subseteq Sessions /\ m_sessions \subseteq Sessions
  BY VisitFacts
<1>3. /\ \A a \in Sessions : subscribers'[a] \subseteq subscribers[a]
      /\ \A a \in Sessions : subscriptions'[a] \subseteq subscriptions[a]
      /\ \A x : \A a \in Sessions : x # task.owner =>
            /\ x \in subscribers[a] => x \in subscribers'[a]
            /\ x \in subscriptions[a] => x \in subscriptions'[a]
  BY <1>2 DEF Unlink, linkVars
<1>4. b \in m_sessions => task.owner \notin subscribers'[b] \cup subscriptions'[b]
  <2> SUFFICES ASSUME b \in m_sessions
               PROVE  task.owner \notin subscribers'[b] \cup subscriptions'[b]
    OBVIOUS
  <2>1. fetch_session_by_id(b) # Null
    BY FetchType
  <2> QED
    BY <1>2, <2>1 DEF Unlink
<1>5. SubscribersOutrank'
  BY <1>1, <1>3 DEF LinkInv, SubscribersOutrank, Outranks, MaySubscribe
<1>6. VisitOutranked'
  BY <1>1 DEF VisitOutranked
<1>7. LinksAreAnswered'
  <2> SUFFICES ASSUME NEW a \in m_sessions, a # task.owner
               PROVE  /\ \A x \in subscribers'[a] : a \in subscriptions'[x]
                      /\ \A x \in subscriptions'[a] : a \in subscribers'[x]
    BY <1>1 DEF LinksAreAnswered, UnlinkOwner
  <2>1. /\ \A x \in subscribers[a] : a \in subscriptions[x]
        /\ \A x \in subscriptions[a] : a \in subscribers[x]
    BY <1>1 DEF LinkInv, LinksAreAnswered, UnlinkOwner
  <2>2. /\ \A x \in subscribers[a] : x \in Sessions
        /\ \A x \in subscriptions[a] : x \in Sessions
    BY <1>2, CreatedFacts
  <2> QED
    BY <1>2, <1>3, <2>1, <2>2
<1>8. UnlinkCoversPeers'
  <2> SUFFICES ASSUME NEW a \in m_sessions, task.owner \in subscribers'[a] \cup subscriptions'[a]
               PROVE  a \in visit \ {b}
    BY <1>1 DEF UnlinkCoversPeers
  <2>1. a # b
    BY <1>4
  <2>2. a \in visit
    BY <1>1, <1>2, <1>3 DEF LinkInv, UnlinkCoversPeers
  <2> QED
    BY <2>1, <2>2
<1> QED
  BY <1>5, <1>6, <1>7, <1>8 DEF LinkInv

LEMMA EndTaskLinks ==
  ASSUME RegistryTypeOK, SubscriptionTypeOK, LinkInv, EndTask, UNCHANGED sessionVars
  PROVE  LinkInv'
<1>1. /\ visit = {} /\ worker' = "idle" /\ UNCHANGED <<profile, m_sessions>>
      /\ worker \in {"linking", "unlinking"}
  BY DEF EndTask, sessionVars, sessionFields, registryMaps
<1>2. VisitOutranked' /\ UnlinkCoversPeers'
  BY <1>1 DEF VisitOutranked, UnlinkCoversPeers
<1>3. CASE worker = "linking"
  <2>1. UNCHANGED <<subscribers, subscriptions>>
    BY <1>3 DEF EndTask, linkVars
  <2>2. SubscribersOutrank' /\ LinksAreAnswered'
    BY <1>1, <1>3, <2>1
    DEF LinkInv, SubscribersOutrank, Outranks, MaySubscribe, LinksAreAnswered, UnlinkOwner
  <2> QED
    BY <1>2, <2>2 DEF LinkInv
<1>4. CASE worker = "unlinking"
  <2>1. /\ subscribers' = [subscribers EXCEPT ![task.owner] = {}]
        /\ subscriptions' = [subscriptions EXCEPT ![task.owner] = {}]
    BY <1>4 DEF EndTask
  <2>2. /\ subscribers \in [Sessions -> SUBSET (0..created)]
        /\ subscriptions \in [Sessions -> SUBSET (0..created)]
        /\ task.owner \in Sessions /\ m_sessions \subseteq Sessions
    BY VisitFacts
  <2>3. \A a \in Sessions :
          /\ subscribers'[a] = IF a = task.owner THEN {} ELSE subscribers[a]
          /\ subscriptions'[a] = IF a = task.owner THEN {} ELSE subscriptions[a]
    BY <2>1, <2>2
  <2>4. SubscribersOutrank'
    BY <1>1, <2>3 DEF LinkInv, SubscribersOutrank, Outranks, MaySubscribe
  <2>5. \A a \in m_sessions : task.owner \notin subscribers[a] \cup subscriptions[a]
    BY <1>1, <1>4 DEF LinkInv, UnlinkCoversPeers
  <2>6. LinksAreAnswered'
    <3> SUFFICES ASSUME NEW a \in m_sessions, a # task.owner
                 PROVE  /\ \A x \in subscribers[a] : a \in subscriptions'[x]
                        /\ \A x \in subscriptions[a] : a \in subscribers'[x]
      BY <1>1, <2>2, <2>3 DEF LinksAreAnswered, UnlinkOwner
    <3>1. /\ \A x \in subscribers[a] : a \in subscriptions[x]
          /\ \A x \in subscriptions[a] : a \in subscribers[x]
      BY <1>4 DEF LinkInv, LinksAreAnswered, UnlinkOwner
    <3>2. /\ \A x \in subscribers[a] : x \in Sessions /\ x # task.owner
          /\ \A x \in subscriptions[a] : x \in Sessions /\ x # task.owner
      BY <2>2, <2>5, CreatedFacts
    <3> QED
      BY <2>3, <3>1, <3>2
  <2> QED
    BY <1>2, <2>4, <2>6 DEF LinkInv
<1> QED
  BY <1>1, <1>3, <1>4

LEMMA RequestLinks ==
  ASSUME LinkInv, Request, UNCHANGED sessionVars
  PROVE  LinkInv'
<1>1. UNCHANGED <<linkVars, workerVars>>
  BY DEF Request, async_init_subscription, async_init_unsubscription
<1> QED
  BY <1>1 DEF LinkInv, SubscribersOutrank, VisitOutranked, LinksAreAnswered, UnlinkCoversPeers,
             UnlinkOwner, Outranks, MaySubscribe, linkVars, workerVars,
             sessionVars, sessionFields, registryMaps

LEMMA LinkInvInit == ManagersInit => LinkInv
<1> SUFFICES ASSUME ManagersInit
             PROVE  LinkInv
  OBVIOUS
<1>1. /\ subscribers = [s \in Sessions |-> {}] /\ subscriptions = [s \in Sessions |-> {}]
      /\ worker = "idle" /\ m_sessions = {}
  BY DEF ManagersInit, SubscriptionInit, RegistryInit
<1> QED
  BY <1>1 DEF LinkInv, SubscribersOutrank, VisitOutranked, LinksAreAnswered, UnlinkCoversPeers

LEMMA LinkInvStep ==
  ASSUME RegistryTypeOK, SubscriptionTypeOK, LinkInv, [ManagersNext]_allVars
  PROVE  LinkInv'
<1>1. CASE RegistryNext /\ UNCHANGED subscriptionVars
  BY <1>1, LinkInvRegistryStep
<1>2. CASE Request /\ UNCHANGED sessionVars
  BY <1>2, RequestLinks
<1>3. CASE WorkerStep /\ UNCHANGED sessionVars
  BY <1>3, StartSubscriptionLinks, StartUnsubscriptionLinks, LinkLinks, UnlinkLinks, EndTaskLinks
  DEF WorkerStep
<1>4. CASE UNCHANGED allVars
  BY <1>4 DEF allVars, subscriptionVars, linkVars, workerVars, sessionVars, sessionFields,
              registryMaps, LinkInv, SubscribersOutrank, VisitOutranked, LinksAreAnswered,
              UnlinkCoversPeers, UnlinkOwner, Outranks, MaySubscribe
<1> QED
  BY <1>1, <1>2, <1>3, <1>4 DEF ManagersNext

LEMMA LinkInvCorrect == ManagersSpec => []LinkInv
<1>1. RegistryTypeOK /\ SubscriptionTypeOK /\ LinkInv /\ [ManagersNext]_allVars => LinkInv'
  BY LinkInvStep
<1> QED
  BY <1>1, LinkInvInit, ManagersImplyRegistry, TypeCorrect, SubscriptionTypeCorrect, PTL
  DEF ManagersSpec

(* Links go strictly downwards in rank, from a profile that may subscribe. *)
THEOREM SubscribersOutrankCorrect == ManagersSpec => []SubscribersOutrank
<1>1. LinkInv => SubscribersOutrank
  BY DEF LinkInv
<1> QED
  BY <1>1, LinkInvCorrect, PTL

(* What a registered session lists lists it back.                          *)
THEOREM LinksAreAnsweredCorrect == ManagersSpec => []LinksAreAnswered
<1>1. LinkInv => LinksAreAnswered
  BY DEF LinkInv
<1> QED
  BY <1>1, LinkInvCorrect, PTL

(* A completed unsubscription leaves the owner in no registered session.   *)
THEOREM UnsubscriptionIsCompleteCorrect == ManagersSpec => UnsubscriptionIsComplete
<1>1. ASSUME RegistryTypeOK, SubscriptionTypeOK, LinkInv, ManagersNext,
             worker = "unlinking", worker' = "idle"
      PROVE  \A b \in m_sessions : task.owner \notin subscribers'[b] \cup subscriptions'[b]
  <2>1. EndTask
    <3>1. ~(RegistryNext /\ UNCHANGED subscriptionVars) /\ ~Request
      BY <1>1 DEF subscriptionVars, workerVars, Request,
                  async_init_subscription, async_init_unsubscription
    <3> QED
      BY <1>1, <3>1 DEF ManagersNext, WorkerStep, StartSubscription, StartUnsubscription,
                        TakeTask, Link, Unlink
  <2>2. \A b \in m_sessions : task.owner \notin subscribers[b] \cup subscriptions[b]
    BY <1>1, <2>1 DEF EndTask, LinkInv, UnlinkCoversPeers
  <2>3. /\ subscribers' = [subscribers EXCEPT ![task.owner] = {}]
        /\ subscriptions' = [subscriptions EXCEPT ![task.owner] = {}]
    BY <1>1, <2>1 DEF EndTask
  <2>4. /\ subscribers \in [Sessions -> SUBSET (0..created)]
        /\ subscriptions \in [Sessions -> SUBSET (0..created)]
        /\ m_sessions \subseteq Sessions
    BY <1>1, VisitFacts
  <2> QED
    BY <2>2, <2>3, <2>4
<1>2. RegistryTypeOK /\ SubscriptionTypeOK /\ LinkInv /\ [ManagersNext]_allVars =>
        [worker = "unlinking" /\ worker' = "idle" =>
           \A b \in m_sessions : task.owner \notin subscribers'[b] \cup subscriptions'[b]]_allVars
  BY <1>1
<1> QED
  BY <1>2, LinkInvCorrect, ManagersImplyRegistry, TypeCorrect, SubscriptionTypeCorrect, PTL
  DEF ManagersSpec, UnsubscriptionIsComplete

(* While an unsubscription runs, a registered session that is still linked *)
(* to its owner has not been visited yet.                                  *)
THEOREM UnlinkCoversPeersCorrect == ManagersSpec => []UnlinkCoversPeers
<1>1. LinkInv => UnlinkCoversPeers
  BY DEF LinkInv
<1> QED
  BY <1>1, LinkInvCorrect, PTL

(* The loop of an unsubscription starts without its owner, as nobody is    *)
(* linked to itself, and only shrinks.                                     *)
LEMMA NoVisitToItselfStep ==
  ASSUME RegistryTypeOK, SubscriptionTypeOK, SubscribersOutrank, NoVisitToItself,
         [ManagersNext]_allVars
  PROVE  NoVisitToItself'
<1>1. CASE UNCHANGED workerVars
  BY <1>1 DEF NoVisitToItself, workerVars
<1>2. CASE StartSubscription
  BY <1>2 DEF StartSubscription, NoVisitToItself
<1>3. CASE StartUnsubscription
  <2>1. task' \in Task /\ profile \in [Sessions -> empty..admin]
    <3>1. m_queue # <<>> /\ task' = Head(m_queue)
      BY <1>3 DEF StartUnsubscription, TakeTask
    <3> QED
      BY <3>1, HeadFacts DEF RegistryTypeOK
  <2>2. task'.owner \in Sessions
    BY <2>1 DEF Task
  <2>3. profile[task'.owner] \in Int
    BY <2>1, <2>2 DEF empty, admin
  <2>4. ~Outranks(task'.owner, task'.owner)
    BY <2>3 DEF Outranks
  <2>5. visit' = subscribers[task'.owner] \cup subscriptions[task'.owner]
    BY <1>3 DEF StartUnsubscription, ToUnlink
  <2> QED
    BY <2>2, <2>4, <2>5 DEF NoVisitToItself, SubscribersOutrank
<1>4. ASSUME NEW b \in visit, Link(b) \/ Unlink(b)
      PROVE  NoVisitToItself'
  BY <1>4 DEF Link, Unlink, NoVisitToItself
<1>5. CASE EndTask
  BY <1>5 DEF EndTask, NoVisitToItself
<1>6. ManagersNext => UNCHANGED workerVars \/ WorkerStep
  BY DEF ManagersNext, subscriptionVars, Request, async_init_subscription,
         async_init_unsubscription
<1>7. UNCHANGED allVars => UNCHANGED workerVars
  BY DEF allVars, subscriptionVars
<1> QED
  BY <1>1, <1>2, <1>3, <1>4, <1>5, <1>6, <1>7 DEF WorkerStep

(* perform_unsubscription never erases from the set it iterates over.      *)
THEOREM NoVisitToItselfCorrect == ManagersSpec => []NoVisitToItself
<1>1. ManagersInit => NoVisitToItself
  BY DEF ManagersInit, SubscriptionInit, NoVisitToItself
<1>2. RegistryTypeOK /\ SubscriptionTypeOK /\ SubscribersOutrank /\ NoVisitToItself
        /\ [ManagersNext]_allVars => NoVisitToItself'
  BY NoVisitToItselfStep
<1> QED
  BY <1>1, <1>2, SubscribersOutrankCorrect, ManagersImplyRegistry, TypeCorrect,
     SubscriptionTypeCorrect, PTL DEF ManagersSpec

=============================================================================
