------------------------------- MODULE Broker -------------------------------
(***************************************************************************)
(* stomp_sever with its two servers: connections, the STOMP handlers and   *)
(* the end of connections, on top of the registry and of the subscription  *)
(* manager, whose operations are the actions of SessionManager and         *)
(* SubscriptionManager.                                                    *)
(*                                                                         *)
(* Three threads run the code: one per io_context ("ws", "tcp") and the    *)
(* worker of the subscription manager.  A thread's calls are in todo[t],   *)
(* the next one first; one step runs as far as the code holds a lock or    *)
(* reads shared state once, so the threads interleave where the code lets  *)
(* them.  A write that fails or that must close the connection runs the    *)
(* whole end of that connection on the thread of the writer, before what   *)
(* the writer had still to do: its calls are put in front.                 *)
(*                                                                         *)
(* A connection is accepted once: its id, the remote port, is not reused.  *)
(* The fetches a handler makes before it writes are one step with the read *)
(* of its frame; a frame of a command nobody handles changes nothing.      *)
(***************************************************************************)
EXTENDS SubscriptionManager

CONSTANTS
  WsConns,     \* the connections of the WebSocket server; the rest are TCP
  SendDests,   \* destinations of SEND frames
  MaxReqs,     \* bound: frames received in a behaviour
  Relogin      \* TRUE: a connection may send CONNECT again

ASSUME BrokerAssumption ==
  /\ WsConns \subseteq Conns /\ SendDests \subseteq Dests
  /\ MaxReqs \in Nat /\ Relogin \in BOOLEAN
  \* no list or queue is ever full: every bound but MaxReqs is out of reach
  /\ MaxQueue >= MaxReqs + Cardinality(Conns)
  /\ MaxSession >= MaxReqs /\ MaxLinks >= MaxReqs

VARIABLES
  m_cnxs,    \* m_cnxs of wsserver and of tcpserver
  socket,    \* connection to "new", "open" or "closed" (by the broker)
  reading,   \* connections with a read under way
  told,      \* connection to the session the answer to its last CONNECT named
  todo,      \* thread to the calls it has to make
  reqs,      \* frames received
  crashed    \* the process died of undefined behaviour

networkVars == <<m_cnxs, socket, reading, told>>
brokerVars == <<networkVars, todo, reqs, crashed>>
vars == <<allVars, brokerVars>>

Threads == {"ws", "tcp", "worker"}
ServerOf(c) == IF c \in WsConns THEN "ws" ELSE "tcp"

-----------------------------------------------------------------------------
(* The calls.  m_wsserver->write / m_tcpserver->write(c, frame, close); s  *)
(* is the session the thread takes the frame to: that CONNECTED tells, that *)
(* of the connection a RECEIPT answers, that whose list gave the connection *)
(* for a MESSAGE, a copy of it or the worker's ACK; Null for an answer to a *)
(* connection, whatever session it has.  The header session-id is no part  *)
(* of it but in CONNECTED: a copy has the addressee's id all the same, the *)
(* ACK of a SEND the one the client named.                                 *)
Write(c, kind, s, close) ==
  [op |-> "write", cnx |-> c, kind |-> kind, ses |-> s, close |-> close]
(* A call about a connection, about a session, or about both.              *)
Call(op, c, s) == [op |-> op, cnx |-> c, ses |-> s]
Register(c, l, p) == [op |-> "register", cnx |-> c, login |-> l, profile |-> p]
Subscribe(s, type, d) == [op |-> "subscribe", ses |-> s, type |-> type, dest |-> d]
ToFront(s, kind) == [op |-> "front", ses |-> s, kind |-> kind]
Copies(s, left) == [op |-> "copies", ses |-> s, left |-> left]

Running(t, op) == ~crashed /\ todo[t] # <<>> /\ Head(todo[t]).op = op
Idle(t) == ~crashed /\ todo[t] = <<>>
Then(t, calls) == todo' = [todo EXCEPT ![t] = calls \o Tail(@)]

-----------------------------------------------------------------------------
(* The network.  wait_for_connections, regiter_tcpcnx, on_new_connection.  *)
Accept(c) ==
  /\ Idle(ServerOf(c)) /\ socket[c] = "new"
  /\ socket' = [socket EXCEPT ![c] = "open"]
  /\ m_cnxs' = m_cnxs \cup {c}
  /\ reading' = reading \cup {c}
  /\ UNCHANGED <<allVars, told, todo, reqs, crashed>>

(* The handshake or the read fails: the peer left, or close() aborted it.  *)
ReadError(c) ==
  /\ Idle(ServerOf(c)) /\ c \in reading
  /\ socket' = [socket EXCEPT ![c] = "closed"]
  /\ reading' = reading \ {c}
  /\ todo' = [todo EXCEPT ![ServerOf(c)] = <<Call("drop", c, Null)>>]
  /\ UNCHANGED <<allVars, m_cnxs, told, reqs, crashed>>

(* A frame is read and handled; then read() is called again.               *)
ReadFrame(c, calls) ==
  /\ Idle(ServerOf(c)) /\ c \in reading /\ socket[c] = "open"
  /\ reqs < MaxReqs
  /\ reqs' = reqs + 1
  /\ reading' = reading \ {c}
  /\ todo' = [todo EXCEPT ![ServerOf(c)] = Append(calls, Call("read", c, Null))]
  /\ UNCHANGED <<allVars, m_cnxs, socket, crashed>>

Receive(c, calls) == ReadFrame(c, calls) /\ UNCHANGED told

(* read(): nothing is read any more from a socket that is not open.        *)
Reread(t) ==
  /\ Running(t, "read")
  /\ LET c == Head(todo[t]).cnx IN
     reading' = IF socket[c] = "open" THEN reading \cup {c} ELSE reading
  /\ Then(t, <<>>)
  /\ UNCHANGED <<allVars, m_cnxs, socket, told, reqs, crashed>>

-----------------------------------------------------------------------------
(* proccess_message: the frames and what each handler does first.          *)
RefuseStaysOpen(c) == <<Write(c, "ERROR", Null, FALSE)>>   \* slip: close is lost
Refuse(c) == <<Write(c, "ERROR", Null, TRUE)>>

(* parser errors, missing headers, wrong application key, unknown passcode *)
BadFrame(c) == Receive(c, Refuse(c))

proccess_connect(c, l, p) ==
  /\ Relogin \/ told[c] = Null
  /\ ReadFrame(c, <<Register(c, l, p)>>)
  /\ told' = [told EXCEPT ![c] = Null]

proccess_disconnect(c) ==
  LET s == fetch_session_by_cnx(c) IN
  Receive(c, IF s = Null THEN Refuse(c) ELSE <<Write(c, "RECEIPT", s, TRUE)>>)

(* The session header of a client: the id of any session, its own or not,  *)
(* which nobody compares with the connection; or an id of none.            *)
HeaderIds == m_sessions \cup {Null}

proccess_send_message(c, s, d) ==
  LET from == fetch_session_by_id(s)
      to == fetch_session_by_destination(d)
  IN Receive(c,
       IF from = Null THEN Refuse(c)
       ELSE IF to = Null THEN <<Write(c, "ERROR", Null, FALSE)>>
       ELSE <<ToFront(to, "MESSAGE"), Call("copy", c, to), Write(c, "ACK", Null, FALSE)>>)

proccess_subscribe(c, s, type, d) ==
  LET owner == fetch_session_by_id(s) IN
  Receive(c, IF owner = Null THEN Refuse(c) ELSE <<Subscribe(owner, type, d)>>)

proccess_unsubscribe(c, s) ==
  LET owner == fetch_session_by_id(s) IN
  Receive(c, IF owner = Null THEN Refuse(c) ELSE <<Call("unsubscribe", c, owner)>>)

Frame(c) ==
  \/ BadFrame(c)
  \/ \E l \in Logins, p \in Profiles : proccess_connect(c, l, p)
  \/ proccess_disconnect(c)
  \/ \E s \in HeaderIds :
       \/ \E d \in SendDests : proccess_send_message(c, s, d)
       \/ \E d \in Patterns :
            \/ Cardinality(d) = 1 /\ proccess_subscribe(c, s, "DIRECT", d)
            \/ proccess_subscribe(c, s, "REGEX", d)
       \/ proccess_unsubscribe(c, s)

-----------------------------------------------------------------------------
(* The calls of the handlers.  list::front() of an empty list is undefined *)
(* behaviour: the process dies, or the value read is no connection of the  *)
(* broker and the frame is dropped.                                        *)
FrontOfEmpty(t, calls) ==
  \/ crashed' = TRUE /\ UNCHANGED todo
  \/ Then(t, calls) /\ UNCHANGED crashed

(* register_session and the answers to a CONNECT.                          *)
Answer(c, s) == <<Write(c, "CONNECTED", s, FALSE)>>

RegisterNew(t) ==
  /\ Running(t, "register")
  /\ LET r == Head(todo[t]) IN
     /\ OpenSession(r.cnx, r.login, r.profile)
     /\ Then(t, Answer(r.cnx, NewId))
  /\ UNCHANGED <<subscriptionVars, networkVars, reqs, crashed>>

(* pcnx, the connection to close, is the oldest one of the session.        *)
ReplacePrevious(t, r, s) ==
  IF cnxs[s] = <<>>
  THEN FrontOfEmpty(t, Answer(r.cnx, s))
  ELSE /\ Then(t, <<Write(Head(cnxs[s]), "ERROR", Null, TRUE)>> \o Answer(r.cnx, s))
       /\ UNCHANGED crashed

RegisterAgain(t) ==
  /\ Running(t, "register")
  /\ LET r == Head(todo[t]) IN
     /\ TakeOverSession(r.cnx, r.login, r.profile)
     /\ ReplacePrevious(t, r, m_login_session[r.login])
  /\ UNCHANGED <<subscriptionVars, networkVars, reqs>>

RegisterRefused(t) ==
  /\ Running(t, "register")
  /\ LET r == Head(todo[t]) IN
     /\ RefuseLogin(r.login, r.profile)
     /\ Then(t, Refuse(r.cnx))
  /\ UNCHANGED <<subscriptionVars, networkVars, reqs, crashed>>

(* send_send_msg, to the addressee and then to each subscriber, and        *)
(* send_ack_msg of the worker: the frame goes to the oldest connection the *)
(* session has when the thread looks.                                      *)
SendToFront(t) ==
  /\ Running(t, "front")
  /\ LET r == Head(todo[t]) IN
     IF cnxs[r.ses] = <<>>
     THEN FrontOfEmpty(t, <<>>)
     ELSE /\ Then(t, <<Write(Head(cnxs[r.ses]), r.kind, r.ses, FALSE)>>)
          /\ UNCHANGED crashed
  /\ UNCHANGED <<allVars, networkVars, reqs>>

(* send_send_msg, the loop over the subscribers of the destination: the    *)
(* same frame for each whose list is not empty when its size is read; it   *)
(* may be when front() is called.                                          *)
StartCopies(t) ==
  /\ Running(t, "copy")
  /\ LET s == Head(todo[t]).ses IN Then(t, <<Copies(s, subscribers[s])>>)
  /\ UNCHANGED <<allVars, networkVars, reqs, crashed>>

SendCopyToAddressee(t) ==    \* slip: cnxi, the addressee's, for scnxi
  /\ Running(t, "copies")
  /\ LET r == Head(todo[t]) IN
     \/ r.left = {} /\ Then(t, <<>>)
     \/ \E x \in r.left :
          LET s == fetch_session_by_id(x)
              rest == <<Copies(r.ses, r.left \ {x})>>
          IN Then(t, IF <<>> \in {cnxs[s], cnxs[r.ses]} THEN rest
                     ELSE <<Write(Head(cnxs[r.ses]), "MESSAGE", s, FALSE)>> \o rest)
  /\ UNCHANGED <<allVars, networkVars, reqs, crashed>>

SendCopy(t) ==
  /\ Running(t, "copies")
  /\ LET r == Head(todo[t]) IN
     \/ r.left = {} /\ Then(t, <<>>)
     \/ \E x \in r.left :
          LET s == fetch_session_by_id(x)
              rest == <<Copies(r.ses, r.left \ {x})>>
          IN Then(t, IF cnxs[s] = <<>> THEN rest
                     ELSE <<ToFront(s, "MESSAGE")>> \o rest)
  /\ UNCHANGED <<allVars, networkVars, reqs, crashed>>

AskSubscription(t) ==
  /\ Running(t, "subscribe")
  /\ LET r == Head(todo[t]) IN async_init_subscription(r.ses, r.type, r.dest)
  /\ Then(t, <<>>)
  /\ UNCHANGED <<sessionVars, networkVars, reqs, crashed>>

AskUnsubscription(t) ==
  /\ Running(t, "unsubscribe")
  /\ async_init_unsubscription(Head(todo[t]).ses, TRUE)
  /\ Then(t, <<>>)
  /\ UNCHANGED <<sessionVars, networkVars, reqs, crashed>>

-----------------------------------------------------------------------------
(* tcpserver::write and tcpcnx::write, or their WebSocket twins: a frame   *)
(* for a connection that is not registered, or not open, is dropped.  A    *)
(* write that closes keeps m_mtx_write until the end of the connection has *)
(* been dealt with; one that does not close is a single step.              *)
Reachable(c) == c \in m_cnxs /\ socket[c] = "open"
Close(c) == <<Call("drop", c, Null), Call("unlock", c, Null)>>
m_mtx_write(c) == {t \in Threads : Call("unlock", c, Null) \in Range(todo[t])}

WriteDropped(t) ==
  /\ Running(t, "write")
  /\ LET c == Head(todo[t]).cnx IN
     c \notin m_cnxs \/ (socket[c] # "open" /\ m_mtx_write(c) = {})
  /\ Then(t, <<>>)
  /\ UNCHANGED <<allVars, networkVars, reqs, crashed>>

WriteOk(t) ==
  /\ Running(t, "write") /\ Reachable(Head(todo[t]).cnx)
  /\ LET r == Head(todo[t]) IN
     /\ told' = IF r.kind = "CONNECTED" THEN [told EXCEPT ![r.cnx] = r.ses] ELSE told
     /\ IF r.close
        THEN /\ socket' = [socket EXCEPT ![r.cnx] = "closed"]
             /\ Then(t, Close(r.cnx))
        ELSE UNCHANGED socket /\ Then(t, <<>>)
  /\ UNCHANGED <<allVars, m_cnxs, reading, reqs, crashed>>

WriteFailsAnswered(t) ==     \* slip: the peer is told of it before the end
  /\ Running(t, "write") /\ Reachable(Head(todo[t]).cnx)
  /\ LET c == Head(todo[t]).cnx IN
     /\ socket' = [socket EXCEPT ![c] = "closed"]
     /\ Then(t, <<Write(c, "ERROR", Null, FALSE)>> \o Close(c))
  /\ UNCHANGED <<allVars, m_cnxs, reading, told, reqs, crashed>>

WriteFails(t) ==
  /\ Running(t, "write") /\ Reachable(Head(todo[t]).cnx)
  /\ LET c == Head(todo[t]).cnx IN
     /\ socket' = [socket EXCEPT ![c] = "closed"]
     /\ Then(t, Close(c))
  /\ UNCHANGED <<allVars, m_cnxs, reading, told, reqs, crashed>>

(* wscnx::close calls the close() of Beast that throws: when the peer goes *)
(* away during the closing handshake, nobody catches the exception.        *)
CloseThrows(t) ==
  /\ Running(t, "write") /\ Reachable(Head(todo[t]).cnx)
  /\ Head(todo[t]).close /\ Head(todo[t]).cnx \in WsConns
  /\ crashed' = TRUE
  /\ UNCHANGED <<allVars, networkVars, todo, reqs>>

Unlock(t) ==
  /\ Running(t, "unlock")
  /\ Then(t, <<>>)
  /\ UNCHANGED <<allVars, networkVars, reqs, crashed>>

(* cnx_closed: whoever erases the connection from m_cnxs ends it.          *)
DropAlwaysEnds(t) ==         \* slip: the test of unregiter_tcpcnx is lost
  /\ Running(t, "drop")
  /\ LET c == Head(todo[t]).cnx IN
     m_cnxs' = m_cnxs \ {c} /\ Then(t, <<Call("end", c, Null)>>)
  /\ UNCHANGED <<allVars, socket, reading, told, reqs, crashed>>

DropOnly(t) ==               \* slip: on_connection_end is not called
  /\ Running(t, "drop")
  /\ LET c == Head(todo[t]).cnx IN m_cnxs' = m_cnxs \ {c} /\ Then(t, <<>>)
  /\ UNCHANGED <<allVars, socket, reading, told, reqs, crashed>>

Drop(t) ==
  /\ Running(t, "drop")
  /\ LET c == Head(todo[t]).cnx IN
     /\ m_cnxs' = m_cnxs \ {c}
     /\ Then(t, IF c \in m_cnxs THEN <<Call("end", c, Null)>> ELSE <<>>)
  /\ UNCHANGED <<allVars, socket, reading, told, reqs, crashed>>

(* on_connection_end: the session is fetched, the connection leaves its    *)
(* list, and a session with no connection left is ended.                   *)
EndFetch(t) ==
  /\ Running(t, "end")
  /\ LET c == Head(todo[t]).cnx IN Then(t, <<Call("unlink", c, fetch_session_by_cnx(c))>>)
  /\ UNCHANGED <<allVars, networkVars, reqs, crashed>>

EndUnlink(t) ==
  /\ Running(t, "unlink")
  /\ LET r == Head(todo[t]) IN
     /\ UnlinkConnection(r.ses, r.cnx)
     /\ Then(t, <<Call("check", r.cnx, r.ses)>>)
  /\ UNCHANGED <<subscriptionVars, networkVars, reqs, crashed>>

EndCheckOffByOne(t) ==       \* slip: size() == 1, as if before the erase
  /\ Running(t, "check")
  /\ LET r == Head(todo[t]) IN
     Then(t, IF Len(cnxs[r.ses]) = 1
             THEN <<Call("leave", r.cnx, r.ses), Call("unregister", r.cnx, r.ses)>>
             ELSE <<>>)
  /\ UNCHANGED <<allVars, networkVars, reqs, crashed>>

EndCheck(t) ==
  /\ Running(t, "check")
  /\ LET r == Head(todo[t]) IN
     Then(t, IF cnxs[r.ses] = <<>>
             THEN <<Call("leave", r.cnx, r.ses), Call("unregister", r.cnx, r.ses)>>
             ELSE <<>>)
  /\ UNCHANGED <<allVars, networkVars, reqs, crashed>>

EndLeaveAtOnce(t) ==         \* slip: no task, the io thread clears the sets
  /\ Running(t, "leave")
  /\ LET s == Head(todo[t]).ses IN
     /\ subscribers' = [subscribers EXCEPT ![s] = {}]
     /\ subscriptions' = [subscriptions EXCEPT ![s] = {}]
  /\ Then(t, <<>>)
  /\ UNCHANGED <<sessionVars, m_queue, workerVars, networkVars, reqs, crashed>>

EndLeave(t) ==
  /\ Running(t, "leave")
  /\ async_init_unsubscription(Head(todo[t]).ses, FALSE)
  /\ Then(t, <<>>)
  /\ UNCHANGED <<sessionVars, networkVars, reqs, crashed>>

EndUnregister(t) ==
  /\ Running(t, "unregister")
  /\ unregister_session(Head(todo[t]).cnx)
  /\ Then(t, <<>>)
  /\ UNCHANGED <<subscriptionVars, networkVars, reqs, crashed>>

-----------------------------------------------------------------------------
(* The worker: a task, then on_subscription_task_ends with its ACK.        *)
WorkerTask ==
  /\ Idle("worker")
  /\ StartSubscription \/ StartUnsubscription \/ \E b \in visit : Link(b) \/ Unlink(b)
  /\ UNCHANGED <<sessionVars, brokerVars>>

WorkerEnd ==
  /\ Idle("worker")
  /\ EndTask
  /\ todo' = [todo EXCEPT !["worker"] =
                IF task.send_call_back THEN <<ToFront(task.owner, "ACK")>> ELSE <<>>]
  /\ UNCHANGED <<sessionVars, networkVars, reqs, crashed>>

ThreadStep(t) ==
  \/ Reread(t) \/ RegisterNew(t) \/ RegisterAgain(t) \/ RegisterRefused(t)
  \/ SendToFront(t) \/ StartCopies(t) \/ SendCopy(t)
  \/ AskSubscription(t) \/ AskUnsubscription(t)
  \/ WriteDropped(t) \/ WriteOk(t) \/ WriteFails(t) \/ CloseThrows(t) \/ Unlock(t)
  \/ Drop(t) \/ EndFetch(t) \/ EndUnlink(t) \/ EndCheck(t)
  \/ EndLeave(t) \/ EndUnregister(t)

-----------------------------------------------------------------------------
BrokerInit ==
  /\ ManagersInit
  /\ m_cnxs = {} /\ reading = {}
  /\ socket = [c \in Conns |-> "new"]
  /\ told = [c \in Conns |-> Null]
  /\ todo = [t \in Threads |-> <<>>]
  /\ reqs = 0 /\ crashed = FALSE

BrokerNext ==
  \/ \E c \in Conns : Accept(c) \/ ReadError(c) \/ Frame(c)
  \/ \E t \in Threads : ThreadStep(t)
  \/ WorkerTask \/ WorkerEnd

(* A thread finishes the calls it has begun, its writes returning or       *)
(* failing, and an aborted read is reported.  A write that closes an open  *)
(* WebSocket is another matter: the close() of Beast waits for the peer's  *)
(* answer as long as it takes (Connections.tla), so nothing says that the  *)
(* thread ever goes on.  Nothing is assumed of clients either, nor of the  *)
(* worker taking a task: it may sleep with tasks waiting (TaskQueue.tla).  *)
AwaitsPeer(t) ==
  /\ Running(t, "write")
  /\ LET r == Head(todo[t]) IN r.close /\ r.cnx \in WsConns /\ Reachable(r.cnx)
GoOn(t) == ~AwaitsPeer(t) /\ ThreadStep(t)
Aborted(c) == socket[c] = "closed" /\ ReadError(c)
BrokerFairness ==
  /\ \A t \in Threads : WF_vars(GoOn(t))
  /\ \A c \in Conns : WF_vars(Aborted(c))

BrokerSpec == BrokerInit /\ [][BrokerNext]_vars
FairBrokerSpec == BrokerSpec /\ BrokerFairness

-----------------------------------------------------------------------------
(* Steps pending anywhere.                                                 *)
Pending(op) == UNION {{r \in Range(todo[t]) : r.op = op} : t \in Threads}
EndOps == {"end", "unlink"}
Ending(c) == \E op \in EndOps : \E r \in Pending(op) : r.cnx = c
Closing(s) ==
  \/ \E op \in {"check", "leave"} : \E r \in Pending(op) : r.ses = s
  \/ \E r \in Pending("unregister") : m_cnx_session[r.cnx] = s
Quiet == \A t \in Threads : todo[t] = <<>>

BrokerTypeOK ==
  /\ m_cnxs \subseteq Conns /\ reading \subseteq Conns
  /\ socket \in [Conns -> {"new", "open", "closed"}]
  /\ told \in [Conns -> 0..created]
  /\ DOMAIN todo = Threads
  /\ reqs \in 0..MaxReqs /\ crashed \in BOOLEAN

(* The broker uses the managers only as their specification allows: every  *)
(* step of its threads is a step of ManagersSpec or leaves the managers    *)
(* alone, so that what is proved of ManagersSpec holds in the broker.      *)
UsesManagers == ManagersSpec

(* on_connection_end runs once per connection, although its reader, a      *)
(* failing writer and a login that replaces it may all close it at once.   *)
EndsOf(c, t) ==
  {<<t, i>> : i \in {j \in DOMAIN todo[t] :
     todo[t][j].op \in {"end", "unlink", "check", "leave"} /\ todo[t][j].cnx = c}}
OneEndPerConnection ==
  \A c \in Conns :
    LET ends == UNION {EndsOf(c, t) : t \in Threads}
    IN ends = {} \/ (c \notin m_cnxs /\ Cardinality(ends) = 1)

(* A connection in the list of a live session is registered, or its end is *)
(* under way: front() never gives a connection that is gone for good.      *)
ListedConnectionsExist ==
  \A s \in m_sessions : \A c \in ToSet(cnxs[s]) : c \in m_cnxs \/ Ending(c)

(* A live session has a connection, or some thread is about to end it: a   *)
(* session nobody can end would refuse its login for ever.                 *)
NoAbandonedSession ==
  \A s \in m_sessions : cnxs[s] = <<>> => Closing(s)

(* When no thread is at work, every live session has connections that are  *)
(* open, distinct and led back to it by m_cnx_session: what is sent to its *)
(* destination is written to an open socket.                               *)
QuietSessionsAreReachable ==
  Quiet => \A s \in m_sessions :
    /\ cnxs[s] # <<>> /\ IsInjective(cnxs[s])
    /\ \A c \in ToSet(cnxs[s]) : Reachable(c) /\ m_cnx_session[c] = s

(* A thread that waits for the write mutex of a connection waits for one   *)
(* that runs: what the holder has still to do before it unlocks, the whole *)
(* end of the connection, takes no write mutex, neither that one again nor *)
(* another.                                                                *)
Blocked(t) ==
  /\ Running(t, "write")
  /\ LET c == Head(todo[t]).cnx
     IN c \in m_cnxs /\ socket[c] # "open" /\ m_mtx_write(c) # {}
WritersWaitForRunners ==
  \A t \in Threads : Blocked(t) =>
    \A u \in m_mtx_write(Head(todo[t]).cnx) : u # t /\ ~Blocked(u)

(* What a thread takes to a session, a MESSAGE, a copy of it for a         *)
(* subscriber, an ACK, a RECEIPT or CONNECTED, never goes to a connection  *)
(* that was told another: the lists are read without a lock on the         *)
(* registry, some calls before the write, by threads that end and replace  *)
(* connections meanwhile.                                                  *)
FramesReachTheirSession ==
  \A r \in Pending("write") : r.ses # Null => told[r.cnx] \in {Null, r.ses}

(* A session of a service or an administrator is forgotten only after its  *)
(* one connection has left it: the end of another connection, or a CONNECT *)
(* between the tests of on_connection_end, never takes it from its client. *)
ExclusiveSessionsEndEmpty ==
  [][\A s \in m_sessions :
       s \notin m_sessions' /\ profile[s] \in {service, admin} => cnxs[s] = <<>>]_vars

(* A CONNECT is answered, the second one of a connection too: the client   *)
(* is told the session of this login, or it is closed; unless a thread     *)
(* waits for ever for a peer to answer the close of its WebSocket, as the  *)
(* thread of a login does that replaces another before it is answered.     *)
Connecting(c) == \E r \in Pending("register") : r.cnx = c
Stuck == \E t \in Threads : AwaitsPeer(t)
LoginAnswered ==
  \/ <>[]Stuck
  \/ \A c \in Conns : Connecting(c) ~> (told[c] # Null \/ socket[c] = "closed" \/ crashed)

(* The answer is never dropped on its way: a thread that owes one is done  *)
(* with it only when the client was told the session of its last CONNECT   *)
(* or is closed.                                                           *)
AnswerDue(c) ==
  \/ Connecting(c)
  \/ \E r \in Pending("write") : r.cnx = c /\ (r.kind = "CONNECTED" \/ r.close)
NoLoginIsLost ==
  [][\A c \in Conns : AnswerDue(c) /\ ~AnswerDue(c)' =>
       told'[c] # Null \/ socket'[c] = "closed" \/ crashed']_vars

(* A login is free again: a session none of whose connections is open any  *)
(* more is unregistered, or another one joins it, unless a thread waits    *)
(* for ever for a peer.  This is for clients that log in once: one that    *)
(* does so twice moves m_cnx_session, and its end may then leave a session *)
(* to nobody.                                                              *)
LogsInAgain(c) == Connecting(c) /\ m_cnx_session[c] # Null
Live(s) == \E c \in ToSet(cnxs[s]) : socket[c] = "open"
LoginsAreFreed ==
  \/ <>[]Stuck
  \/ <>(\E c \in Conns : LogsInAgain(c))
  \/ \A s \in Sids :
       (s \in m_sessions /\ ~Live(s)) ~> (s \notin m_sessions \/ Live(s) \/ crashed)

-----------------------------------------------------------------------------
(* What the documents and the comments say, and the code does not do.      *)

(* README.MD, Rules for loggin: a new login disconnects the previous       *)
(* connection and takes its place.  Once all is done, one is left.         *)
SingleActiveConnection ==
  Quiet => \A s \in m_sessions : Len(cnxs[s]) <= 1

(* 2-Close-Disconnect.txt: a session is removed when no more connections   *)
(* are in it.                                                              *)
OnlyEmptySessionsAreRemoved ==
  [][\A s \in m_sessions : s \notin m_sessions' => cnxs[s] = <<>>]_vars

(* 3- Subscribe.txt: the ACK goes to the first connection of the owner,    *)
(* and no ACK is sent when the client has been disconnected.               *)
AckedSessionsAreConnected ==
  \A t \in Threads : \A s \in Sids :
    Running(t, "front") /\ Head(todo[t]) = ToFront(s, "ACK") => cnxs[s] # <<>>

(* on_connection_end: the end of a session removes all its subscriptions   *)
(* and subscribers.  Nobody is at work and no task waits: no session is    *)
(* linked to one that is gone.                                             *)
NoLinksToEndedSessions ==
  Quiet /\ worker = "idle" /\ m_queue = <<>> =>
    \A s \in m_sessions : subscribers[s] \cup subscriptions[s] \subseteq m_sessions \cup {Null}
=============================================================================
