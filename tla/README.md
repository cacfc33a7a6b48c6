# A verification of the communication broker

TLA+ models of the broker in `src/src` (a STOMP broker in C++17 on Boost.Asio and
Beast), model-checked with TLC and proved with TLAPS: every safety property that a passing
run checks is a theorem too, for any instance. This file is the guide: the system, the
modules, what each run shows, what is proved, and what is left.

## 1. The system

| part | code | state | operations |
|---|---|---|---|
| session registry | `stomp_session.cpp/.hpp` | `m_sessions`, `m_login_session`, `m_dest_session`, `m_cnx_session`; per session `login_id`, `profile`, `cnxs` | `register_session`, `unregister_session`, fetches by id, connection, destination |
| subscription manager | `stomp_subscription.cpp/.hpp` | per session `subscribers`, `subscriptions`; the tasks | `async_init_(un)subscription`, `perform_(un)subscription` on the worker |
| task queue | `jomt_util.hpp` | `m_queue`, `m_running`, `m_qlock`, `m_cv`, the worker thread | `add_task`, `run`, `stop` |
| STOMP server | `stomp_server*.cpp` | none of its own but `b_started` | one handler per command, the answers, `on_connection_end`, `on_subscription_task_ends` |
| network servers | `tcpserver.cpp`, `wsserver.cpp` | `m_cnxs` | accept, register, unregister, `write`, `cnx_closed` |
| connections | `tcpcnx.cpp`, `wscnx.cpp` | socket, receive buffer, `m_mtx_write` | `read`, `write`, `close` |
| life cycle | `ntwrk_basic.cpp`, `main.cpp` | `_bRunning`, `_tr`, `b_started` | `start`, `stop`, failure to listen |
| parser | `stomp_protocol.cpp`, `jomt_util.cpp` | none | bytes to command, headers, body |
| clients | `api-js`, `api-python` | login state, socket | `connect`, `subscribe`, `send`, `disconnect` |

Three threads share all this: one `io_context` thread per network server (it accepts,
reads, and runs the handlers) and the worker of the subscription manager. They meet in

* the registry, each operation under `mtx_session`, although the `cnxs` list of a
  session is edited by `on_connection_end` outside it;
* the link sets `subscribers` and `subscriptions`, written by the worker only, read by
  the fan-out of a SEND;
* the task queue, to which the io threads add tasks, and the worker too: an ACK that
  cannot be written ends a connection, which asks for an unsubscription;
* `m_cnxs` and the sockets: a thread writes to connections of the other server, and a
  write that fails ends that connection on the *writer's* thread;
* the flag `b_started`, which each server resets for both, and the queue, which each stops
  for both.

What makes it hard: state fetched under a lock and used after it (sessions, `front()` of
a list), a connection closed by its reader, a writer and a new login at once, a registry
that changes between two steps of the worker, a condition variable without a predicate.
`PROJECT.json` lists every such place under "hazards".

What must be right, part by part: the registry's maps stay in bijection and exclusive
profiles (service, administrator) stay exclusive; the two halves of every subscription
agree, respect the ranks, and an unsubscription leaves nothing behind; tasks are
performed once, in order, and not left in the queue; a connection is ended once, a session lives
exactly as long as it has connections, a login is answered and does not stay taken; the
bytes of a connection are the frames that were sent, a frame means what its sender meant;
a peer that left is noticed; a stop stops both servers and returns.

## 2. The modules

```
SessionManager  <-EXTENDS-  SubscriptionManager  <-EXTENDS, step by step-  Broker
                                   |  takes a FIFO queue for granted
FifoQueue  <-INSTANCE, refinement-  TaskQueue  <-EXTENDS-  ServerLifecycle
FrameChannel  <-INSTANCE, refinement-  TcpFraming        Connections        StompParser
```

**SessionManager** A session is the number of its creation, 0 is `m_null_session`, a
missing map entry is 0. Fields of `stomp_session` are functions of the session, so a
pointer kept by a thread outlives the removal. `OpenSession`, `TakeOverSession` and
`RefuseLogin` are the outcomes of `register_session`; `ForgetSession` is
`unregister_session`; `UnlinkConnection` is the loop of `on_connection_end`. A
destination is a pair (prefix of the profile, login), with the code's quirk that super
agents share the prefix of agents. `NewId` abstracts `gen_session_id`: a fresh id.

**SubscriptionManager** A request is a task in `m_queue`. The worker takes a task
(`StartSubscription` computes the candidates under one fetch of the registry), visits one session at a
time (`Link`, `Unlink`), and ends it (`EndTask`). Between any two steps the registry may
move. `Link` writes both sets, as no other thread writes them. A pattern is the set of
destinations it matches.

**TaskQueue** `pc` gives each thread its place in `run`, `add_task` or `stop`; the place
"waiting" is the wait set of `m_cv`. A notification releases the worker if it is in
the wait set and is lost otherwise. Spurious wakeups are an action. `m_tlock` is taken
by the worker alone, so it excludes nobody. **FifoQueue** is what a user of the queue
may believe.

**Broker** `todo[t]` is the stack of calls thread `t` has still to make, `Receive` reads a
frame and puts the calls of its handler there. A step runs as far as the code keeps a
lock or reads shared state once. A write that closes, or fails, puts the whole end of
that connection in front of what the writer had to do: `Drop` (`cnx_closed` with
`unregiter_*cnx`), `EndFetch`, `EndUnlink`, `EndCheck`, `EndLeave`, `EndUnregister`, then
`Unlock` of `m_mtx_write`. `front()` of an empty list is undefined: `FrontOfEmpty` lets
the process die, or go on with a value that is no connection. A frame is one of the
five commands or a bad one, sent at any moment by any open connection, with the id of any
session, its own or not (`HeaderIds`: nobody compares it with the connection), or of none.
`told[c]` is history: the session named by the answer to the last CONNECT of `c`, forgotten
when `c` sends another one. The field `ses` of a frame to write is the session the thread
takes it to, not its `session-id` header, which in the copies of a SEND is the addressee's.
A copy is two steps, as in the loop over the subscribers: the size of the list is tested
(`SendCopy`), then `front()` is called (`SendToFront`), and the list may be empty by then.

**StompParser** One frame, from the client library that builds it to the one that reads
the answer. A frame is a sequence of tokens: the parser compares single characters with
the end of a line, NUL, the colon and the blank only, so a name is one token and any word
of two tokens is no name. `parse_command`, `ReadHeader` (`read_line` with `parse_head`),
`ReadPayload` and `EndOfData` move the position as the code does; `RefuseMessage`,
`MissingHeader`, `Handle` and `Ignore` are the outcomes of `on_data_rx` and
`fetch_header`. The reference is a grammar that says what a frame is without reading it
from left to right (`Understood`, `HeadersOf`).

**TcpFraming** One `tcpcnx`, byte by byte: the header of five bytes with either order of
the size, a read that brings any number of the bytes asked for, a write of three
`write_some` that take any number, by several threads under `m_mtx_write`, and peers that
leave. **FrameChannel** is what `stomp_sever` expects of it. `whole` and `cut` are history:
no read, no write was short. The code treats a short read as a whole one, so that is how
far its promise goes; what is shown is that nothing *else* breaks it.

**Connections** Both servers' connections from accept to the end: `Accept` registers by
remote port, `RunAccepted` is `fetch_cnx` and `run` (which may find another connection),
handshakes and reads are pending operations, of which a connection served twice has two.
A thread `th[t]` is idle, in a handler, or in a close on behalf of a reader or of a writer
that holds `m_mtx_write`. `Shut` and `Unregister` are two steps, so that closes of several
threads, and of several connections of one port, overlap.

**ServerLifecycle** extends TaskQueue: the adders are the io threads, each call of the
queue's `stop` is one of its stoppers. `place` is where the main thread and the two io
threads are, from the certificates to `exited`. `onStop` is five steps, by the main thread
or by an io thread whose `listen` or accept failed, or whose accept was cancelled by the
main thread. `cancel()` throws on a closed acceptor; `JoinTwice` is two threads in `join`.

The `MC*` modules hold the instances: model values, small sets, and for the broker a
smaller set of frames. `*_proofs` hold the theorems, one module for each component; those
of SubscriptionManager, Broker and ServerLifecycle extend the proofs of what their
component extends.

## 3. The runs

| run | instance | shows |
|---|---|---|
| `subscriptions` | 2 logins, 3 sessions, a direct and a general pattern, one task at a time | ranks, agreement of the two halves, completeness of an unsubscription |
| `broker` | 1 WebSocket and 2 TCP connections, 1 login, 3 frames | one end per connection, no abandoned session, reachability when quiet, writers that wait only for one that runs, exclusive sessions that end empty |
| `broker_links` | 1 + 1 connections, 2 logins, a service and one of the other 3 profiles, 3 frames, repeated logins | bijection of the registry's maps, exclusive profiles, every broker step is a step of `ManagersSpec` |
| `broker_copies` | 1 + 1 connections, an agent and a service, 4 frames, one login a connection, subscriptions to the agent | a frame that is taken to a session, a copy too, goes to no connection that was told another |
| `broker_live` | 1 + 1 connections, an agent and a service, 3 frames, repeated logins, no subscriptions | each CONNECT of a connection is answered; while nobody logs in twice on one, a session without an open connection is unregistered or joined |
| `task_queue` | 2 adders, 2 stoppers, 4 tasks | order, refinement of FifoQueue, nothing after a stop that joined, no sleeping over seen tasks |
| `parser` | all frames of 4 tokens, heads and values of 5, each command with and without each header, library frames with bodies of 3 tokens | the parser agrees with the grammar, the outcome is the due one, bodies arrive, every frame is settled |
| `framing` | bytes of 2 values, payloads of 0 to 2 bytes, 2 frames, 2 writes by 2 writers | refinement of FrameChannel, frames of two writers do not mix, a death has a cause, frames arrive |
| `connections` | 2 TCP connections from one port, 1 WebSocket connection, the worker | private ports are safe, no connection is left unnoticed, lost peers are forgotten |
| `lifecycle` | 2 servers, 2 tasks | a stop is not lost, the queue follows the servers, a crash has a cause, a stop returns |
| `lost_wakeup`, `live_session_removed` | as `task_queue`, `broker` | expected violations, below |

Bounds. `MaxSession` bounds sessions created, `MaxLinks` the list of one session,
`MaxQueue` waiting tasks, `MaxReqs` frames received, `MaxTasks` tasks pushed. In Broker only `MaxReqs`
bites (`BrokerAssumption` puts the others out of reach). Three frames are enough for three logins on one session, or login,
subscription and logout, with every failure of writes and peers around them, as those
need no frame. `broker_copies` has four: two logins, a subscription and a SEND are what it
takes for a copy to be written, and the ends of connections still come in between. Three sessions let a login be reused while the old session is still in a
task. In `subscriptions` a request is made only when the worker is idle: a waiting task
is read by nobody, and its owner may be any session created so far, which covers the
delay; `broker_links` has queues. Connections of `broker` are symmetric within TCP.
`broker` leaves super agents and administrators out, which the broker treats as agents
and services; `broker_links` has all four. In `parser` a separator can stand in every place of a head, a value and a body; four of
any kind in a row exceed every look-ahead of the parser, which is one character. In
`framing` a base of 2 leaves room for sizes of 0 to 7 and for negative ones, which a header
read out of step gives. In `connections` three connections are one that shares a port, the
one it shares it with, and one of the other server to write to and to wait for; each
connects once. Safety is proved beyond these bounds (section 4); what rests on them is liveness.

Deadlock is checked for the managers, which never stop. The others may stop: all
tasks added and all threads stopped, all frames used, the frame settled, the peers gone, the
process ended.

Fairness. `Broker`: each thread finishes the calls it began, which is what a thread
does, given that a blocking write returns or fails; an aborted read is reported by
Asio. A write that closes an open WebSocket is excepted (`AwaitsPeer`): Beast's `close()`
waits for the answer of the peer as long as that takes, so no fairness is assumed of the
step, and `LoginAnswered` and `LoginsAreFreed` promise nothing of a behaviour where a
thread stays there for ever (`Stuck`). A replaced client that never answers does keep the
new login waiting, and the io thread from everything else. Nothing is assumed of clients, of the peer, nor of the worker picking up a task.
`TaskQueue`: the worker runs when it is not in the wait set, callers finish `add_task`
and `stop`; nobody need call them, and no wakeup is spurious by necessity. A mutex is
held for one step at most, so weak fairness is enough. `StompParser`: the io thread goes
on. `TcpFraming`: a completed read is served, a write goes on; a peer sends or not.
`Connections`: a thread goes on unless it waits for a peer in the close of Beast, and the
failure of a connection's operation is served in its turn among the completions of its
`io_context`, a queue, hence strong fairness. `ServerLifecycle`: threads finish what they
began; nobody need type a "q".

### What the code does not do as documented

Two have a run with an expected violation, and the trace is the explanation.

1. **A task can sleep in the queue** (`lost_wakeup`). `m_cv.wait` has no predicate: a task
   added between the last look and the wait is performed only when another is added.
2. **A session can be removed with a live connection** (`live_session_removed`): the test
   of its size and its removal are separate.

Four more are stated as properties, without a standing run: check them with the
configuration of the module named.

3. **Two connections can stay in an agent's session** (`SingleActiveConnection`, `MCBroker`).
   `register_session` closes the *oldest* connection, which may be on its way out already.
4. **An ACK can be addressed to `front()` of an empty list** (`AckedSessionsAreConnected`,
   `MCBrokerLinks`).
5. **Links to ended sessions can remain** (`NoLinksToEndedSessions`, `MCBrokerLinks`): the
   unsubscription is queued before the session leaves the registry.
6. **A direct subscription to nobody is answered OK** (`MissingDestinationIsReported`,
   `MCSubscriptionManager`): the null session is linked.

What the runs say of the code besides: a short read or a short write breaks a TCP
connection's frames for good (`whole`, `cut`); an empty or negative size ends the process;
of two peers with one remote port one is never served; a server that cannot listen or
accept takes the subscriptions of the other one with it, and `stop()` is then ignored or
ends in an exception; a stop may meet the accept it cancels and die of it; a client that
logs in twice on one connection may leave its first login taken for ever (`LoginsAreFreed`
without its exception of `LogsInAgain`).

## 4. The proofs

For any sets of connections, logins, ports, tasks, writers and frames, and any bounds. The
assumptions are on constants only. They are their typing (`BoundsAssumption`,
`LoginAssumption`, `PatternsAssumption`, `ThreadsAssumption`, `ConnectionsAssumption`,
`LifecycleAssumption`, which names the adders and stoppers of the queue, and
`FramesAssumption`, which keeps letters, names and separators apart), and of two modules a
little more: `BrokerAssumption` has no queue or list ever full, since the code's are not
bounded, and `FramingAssumption` has the base of a byte even and above 1, and sizes that an
int32 holds, which is what the code takes for granted of a size it casts.

Every proof has the same plan: a lemma that says what each action does, one that each
action keeps the invariant, one case per action in a step lemma, and the theorems.

**SessionManager_proofs** Typing, then `RegistryConsistent`, which is inductive with typing: an
opened session takes a login that leads nowhere, and its destination is free because a
destination determines its login; a forgotten one
leaves by its own login and destination, which the bijection says are its only entries.
`ExclusiveProfilesHoldOneConnection` follows because `TakeOverSession` requires a
profile that is not exclusive and profiles are fixed at creation.

`SessionsAreNotRevived` follows from typing: the number `OpenSession` takes is beyond all
those in use.

**SubscriptionManager_proofs** `ManagersImplyRegistry` carries the registry's theorems
over. `LinkInv` is `SubscribersOutrank`, `LinksAreAnswered` and `UnlinkCoversPeers`, with
`VisitOutranked`: the sessions still to link are outranked by the owner. No part is
inductive alone. Clearing the owner's sets at the end of an unsubscription would leave
peers unanswered, were they not covered by `visit`, which is empty then; and coverage at
the start needs the answers, as the loop is computed from the owner's half. Answers are
claimed of *registered* sessions only, since the worker skips those that are gone, and
not of the owner being unlinked. A removed session needs no care, a new one has no links.
Coverage with `visit = {}` is `UnsubscriptionIsComplete`.

**TaskQueue_proofs** `IInv` joins typing, the lock, the order, the dequeue (the
worker alone removes tasks, so a queue seen non-empty stays so) and the fact that a
stopper past its join leaves the worker at "done", from where nothing moves it. The refinement maps
`added`, `taken`, `busy` to `pushed`, `Len(performed)`, the worker being inside a task;
`TasksInOrder` and `DequeueFindsTask` give `Take` its guard.

**Broker_proofs** `BrokerInv` is the typing of both managers and of the broker with
`CallsOK`: what the stack of a thread may hold, and in which order (an end of a connection is
on top of what the thread had to do, `leave` on top of its `unregister`). It gives
`UsesManagers` action by action, repeated logins included: the locks, the copies of
session lists and the worker's callback let the broker do nothing to the managers that
`ManagersSpec` does not allow. So `ManagersHoldInBroker` carries their theorems over.

`SocketsOK` adds what a socket says of m_cnxs and that no two threads are in the end of one
connection: with it, `OneEndPerConnection`, whoever closes. `SessionsOK` relates the lists of sessions
to `m_cnx_session` and to the stacks: a connection on a list is led back to the session or is
being ended (`ListsAreMapped`, `ListedAreEnding`), an end that is under way holds the session it
took at its beginning (`EndsHoldSession`), a connection that has not been answered is
known to one thread only (`UnansweredIsFresh`), and an empty list has a thread that goes on to
remove the session (`EmptyAreClosing`). None of these is inductive without the others. The
three theorems they give (`ListedConnectionsExist`, `NoAbandonedSession`,
`QuietSessionsAreReachable`) have the hypothesis `~Relogin`: a client logs in once per
connection, as both client libraries do. It is needed: with repeated logins TLC finds each
of the three violated (the last in the configuration of `broker` with `Relogin` TRUE, the
others in that of `broker_links`). A connection that logs in twice is on two lists, and its
`m_cnx_session` entry leads to the second session only: its end empties that one, and the
first one stays, with a connection that is gone or, when the end was under way on another
thread, with none. `LoginsAreFreed` excepts behaviours with such a CONNECT (`LogsInAgain`),
and is refuted without the exception.

Four more theorems rest on these. Two hold with repeated logins too.
`NoLoginIsLost`: a step that takes the call of a login from a stack puts the answer there,
and one that takes an answer has given it, or its connection is closed (`KeepsAnswers`,
action by action). As each CONNECT resets `told`, this says something of the second one too.
`WritersWaitForRunners`: whatever a thread has to do before it unlocks `m_mtx_write` belongs
to the end of that connection (`HoldersClose`) and is no write, so the holder of a mutex
waits for none.

The other two have the hypothesis `~Relogin`, and TLC refutes both without it (in the
configuration of `broker_links`). `ExclusiveSessionsEndEmpty`: a thread past the test of an
exclusive session's list finds it empty up to the removal (`EndedAreEmpty`), since
`register_session` lets nobody join such a session. So the race of finding 2 is one of agents
and super agents only. `FramesReachTheirSession`: a connection is *bound* to the session it was
told, or is about to be told; a frame on a stack that is taken to a session has a connection
bound to that session (`WritesBound`; an ERROR, or the ACK of a SEND, is taken to none), two
answers for one connection would tell it the same (`OneAnswer`), and the lists and `m_cnx_session` lead to bound connections only
(`ListsBound`), so that the connection `front()` gives later is still the right one.

**TaskQueue in the program.** `QueueHoldsInProgram` of ServerLifecycle_proofs: every step of the
program is one of the queue or none of it, so the queue's theorems hold there.

**ServerLifecycle_proofs** `LifeInv` joins the queue's invariant, the order in which the
main thread starts the servers, who may have closed an acceptor before the queue is stopped
(`Closing`, `QueueEnds`), which thread a call of `stop` belongs to (`Joining`, the reason why two
joins mean two stops at once) and, as long as nothing failed, how far main has got with each
server (`Smooth`).

**Connections_proofs** `ConnInv` is typing, what a thread knows of the sockets it is busy with
(`ThreadsOK`), and what a socket that is closed but registered waits for (`SocketsOK`). On top
of it, for a connection with a port of its own, at most one operation or io thread
(`Load(c) <= 1`), registered while open and ended once; and for one that is registered under
whatever port, `Tended`: an operation, or a thread whose close will erase it.

**TcpFraming_proofs** `SizeSurvives` and `HeaderGivesSize` are about the bytes of a size. `ReadInv` says
where the reader is while no read was short: the payloads delivered are the first of
those sent, and what is still inbound is the frames of the others, cut where the
reader stands. It gives each step of FrameChannel (`ChannelImplemented`) and the cause of a
death. `WriteInv` says how much of the last frame the holder of `m_mtx_write` has written. The
frames written are `FlattenSeq` of a sequence, a recursive function: that it has a
value for the sequence at hand is part of `WriteInv` (`Flattened`), carried over each
`Append`, instead of an induction.

**StompParser_proofs** `ParserInv` has, while the headers are read, that the part behind
the position has neither a NUL nor an empty line, a colon in each line, and that the
headers so far are those the grammar sees in that part (`HeadersUpTo`); from the
verdict on, that it is the grammar's. The rest are lemmas on words: where the
next separator is, in a frame and in a part of it, what `trim` does, where the head ends.
The grammar takes least and greatest elements, which exist because < is well-founded on the
naturals; the library says that of sets, so the prover can use it. `BodiesArrive` turns the
frames that are *written* into a table instead: `Layout` names what is at each place of six
headers and a body (`FlattenSeq` of six lines, unrolled), and from it follow the grammar's
head, its keys and its values, hence, by `ParserInv`, what the server has read; the same
lemmas then read the answer, and `SentOK` keeps what it is made of. `EachStepAdvances` is the safety half of `FramesAreSettled`:
a natural number that every step makes smaller, which bounds the steps of a frame by its
length and four. That the thread takes them is its fairness.

Model-checked only:

* liveness (`LoginAnswered`, `LoginsAreFreed`, `AwakeWorkerEmptiesQueue`, `FramesAreSettled`,
  `FramesArrive`, `LostPeersAreForgotten`, `StopReturns`), which is beyond the prover;
* the two disagreements of section 3 that have a run, which are counterexamples.

`BodiesArrive` is about values of one line, which the libraries do not check: with an end of
line in it a value does not arrive.

Proved, and in no configuration: `LockHeld`, `DequeueFindsTask`, `NoVisitToItself` and
`UnlinkCoversPeers`, parts of inductive invariants; `TypeOK` of TaskQueue and `BrokerTypeOK`,
which the other properties of their runs rest on; `SessionsAreNotRevived`; and
`NoLoginIsLost` and `EachStepAdvances`, the safety halves of `LoginAnswered` and
`FramesAreSettled`, which runs check. TLC agrees with each of them when it is added to the
configuration of its component.

## 5. What is not modelled

* Servers without SSL: `main` turns it on for both. There `wscnx::close` uses a null stream.
* Regular expressions: a pattern is the set of destinations it matches; an invalid one
  throws on the worker.
* Data races on containers (`m_cnxs.find` without a lock, the iteration over
  `subscribers` in a SEND, the edit of `cnxs`), on one SSL stream that is read and written
  by two threads, and on an acceptor: whole operations are interleaved, the torn ones have
  outcomes outside the broker's state.
* Remote ports in `Broker`: ids are distinct there. Connections has ports that collide,
  without what the frames say. The two servers' shared `m_cnx_session` is in neither.
* Clocks that step back: `NewId` is fresh.
* A second CONNECT on one connection in the runs `broker` and `broker_copies` (`Relogin` is
  FALSE there): with it a connection is listed twice, or by a session it has left, and erased
  once, so what is listed cannot always be reached. `broker_links` and `broker_live` have it.
  Both client libraries send one.
* What the frames say, in Broker: only where they are taken and whether they close the
  connection. What a frame says is in StompParser, a frame at a time.
* The client libraries but for the frames they build and read.
* The handlers' several fetches are one step with the frame they answer.

## 6. Plan

Done: SessionManager, SubscriptionManager, Broker, TaskQueue with FifoQueue, StompParser,
TcpFraming with FrameChannel, Connections, ServerLifecycle, and the safety of all of them as
theorems. Left:

1. **SessionId**: `gen_session_id` with a clock; uniqueness while the clock does not
   step back, and used for `NewId`.
2. **Client**, the two libraries' states against Broker.
