--------------------------- MODULE ServerLifecycle --------------------------
(***************************************************************************)
(* From main to the end of the process: the WebSocket and the TCP server   *)
(* are given their certificates, started and stopped by the main thread,   *)
(* each stops by itself when it cannot listen or accept, and every stop of *)
(* a server stops the queue of the subscription manager (TaskQueue), which *)
(* both servers use.  b_started is one flag for the two of them.           *)
(*                                                                         *)
(* A server has an io thread, which bears its name.  It adds tasks to the  *)
(* queue in its handlers.  A call of the queue's stop() is named by the    *)
(* thread that makes it and the server that it stops.                      *)
(***************************************************************************)
EXTENDS TaskQueue

Ws == "ws"
Tcp == "tcp"
Servers == {Ws, Tcp}
Main == "main"
Runners == Servers \cup {Main}
MainCalls == [ws |-> "main stops ws", tcp |-> "main stops tcp"]
OwnCalls == [ws |-> "ws stops", tcp |-> "tcp stops"]
Calls == Range(MainCalls) \cup Range(OwnCalls)

ASSUME LifecycleAssumption == Adders = Servers /\ Stoppers = Calls

VARIABLES
  b_started, \* of stomp_sever
  _bRunning, \* of each server
  place,     \* runner to where it is
  about,     \* the server the main thread is busy with
  acceptor,  \* of each server: "open" or "closed"
  accept,    \* its asynchronous accept: "none", "pending" or "failed"
  stopped,   \* whether its io_context is
  failed,    \* servers that got an error that the program did not cause
  crashed    \* an exception has ended the process

netVars == <<b_started, _bRunning, acceptor, accept, stopped, failed>>
lifeVars == <<netVars, place, about, crashed>>
lvars == <<vars, lifeVars>>

Server(t) == IF t = Main THEN about ELSE t
Call(t) == IF t = Main THEN MainCalls[about] ELSE OwnCalls[t]
At(t, p) == place[t] = p /\ ~crashed /\ place[Main] # "exited"
Goes(t, p) == place' = [place EXCEPT ![t] = p]

Throws(t) == crashed' = TRUE /\ UNCHANGED <<vars, netVars, place, about>>

(* The steps of onStop, in their order, the last two in on_server_stop.    *)
CloseFirst == <<"close", "ioc", "cancel", "flag", "queue">>   \* slip: close() before cancel()
onStop == <<"cancel", "ioc", "close", "flag", "queue">>
Continue(t, p) == Goes(t, onStop[1 + CHOOSE i \in DOMAIN onStop : onStop[i] = p])

-----------------------------------------------------------------------------
(* main: set_ssl_options of one server and the other, start() of both.     *)
Turn(p, q) ==                \* the same of the other server, then q of the first
  /\ about' = IF about = Ws THEN Tcp ELSE Ws
  /\ Goes(Main, IF about = Ws THEN p ELSE q)

set_ssl_options ==
  /\ At(Main, "ssl")
  /\ \/ Turn("ssl", "start") /\ UNCHANGED failed
     \/ Goes(Main, "flag") /\ failed' = failed \cup {about} /\ UNCHANGED about
  /\ UNCHANGED <<vars, b_started, _bRunning, acceptor, accept, stopped, crashed>>

start ==                     \* the thread runs before onStart
  /\ At(Main, "start") /\ ~_bRunning[about]
  /\ _bRunning' = [_bRunning EXCEPT ![about] = TRUE]
  /\ place' = [place EXCEPT ![Main] = "onStart", ![about] = "run"]
  /\ UNCHANGED <<vars, b_started, about, acceptor, accept, stopped, failed, crashed>>

on_server_start ==
  /\ At(Main, "onStart") /\ Turn("start", "console")
  /\ b_started' = TRUE
  /\ UNCHANGED <<vars, _bRunning, acceptor, accept, stopped, failed, crashed>>

Quit ==                      \* "q" has been read
  /\ At(Main, "console") /\ Goes(Main, "stop")
  /\ UNCHANGED <<vars, netVars, about, crashed>>

stop_all ==                  \* stomp_sever::stop
  /\ At(Main, "stop")
  /\ Goes(Main, IF b_started THEN "server" ELSE "exited")
  /\ UNCHANGED <<vars, netVars, about, crashed>>

NextIfStarted ==             \* slip: b_started is tested for each server
  LET last == about = Tcp \/ place[Ws] = "none" \/ ~b_started
  IN Goes(Main, IF last THEN "exited" ELSE "server")
     /\ about' = IF last THEN about ELSE Tcp

NextServer ==                \* the next server is stopped, or main returns
  LET last == about = Tcp \/ place[Ws] = "none"
  IN Goes(Main, IF last THEN "exited" ELSE "server")
     /\ about' = IF last THEN about ELSE Tcp

stop_server ==               \* ntwrk_basic::stop
  /\ At(Main, "server") /\ _bRunning[about]
  /\ _bRunning' = [_bRunning EXCEPT ![about] = FALSE]
  /\ Goes(Main, onStop[1])
  /\ UNCHANGED <<vars, b_started, about, acceptor, accept, stopped, failed, crashed>>

-----------------------------------------------------------------------------
(* onStop, by the main thread or by the server's own.  cancel() throws on  *)
(* a closed acceptor, close() does not; either aborts a pending accept.    *)
Aborted(s) == [accept EXCEPT ![s] = IF @ = "pending" THEN "failed" ELSE @]

Cancel(t) ==
  /\ At(t, "cancel")
  /\ IF acceptor[Server(t)] = "closed" THEN Throws(t)
     ELSE /\ accept' = Aborted(Server(t)) /\ Continue(t, "cancel")
          /\ UNCHANGED <<vars, b_started, _bRunning, about, acceptor, stopped, failed, crashed>>

StopContext(t) ==
  /\ At(t, "ioc") /\ Continue(t, "ioc")
  /\ stopped' = [stopped EXCEPT ![Server(t)] = TRUE]
  /\ UNCHANGED <<vars, b_started, _bRunning, about, acceptor, accept, failed, crashed>>

CloseOnly(t) ==              \* slip: an accept that waits is forgotten
  /\ At(t, "close") /\ Continue(t, "close")
  /\ acceptor' = [acceptor EXCEPT ![Server(t)] = "closed"]
  /\ UNCHANGED <<vars, b_started, _bRunning, about, accept, stopped, failed, crashed>>

CloseAcceptor(t) ==
  /\ At(t, "close") /\ Continue(t, "close")
  /\ acceptor' = [acceptor EXCEPT ![Server(t)] = "closed"]
  /\ accept' = Aborted(Server(t))
  /\ UNCHANGED <<vars, b_started, _bRunning, about, stopped, failed, crashed>>

StopOnce(t) ==               \* slip: it returns if b_started is FALSE
  /\ At(t, "flag")
  /\ \/ b_started /\ Continue(t, "flag") /\ b_started' = FALSE /\ UNCHANGED about
     \/ /\ ~b_started /\ UNCHANGED b_started
        /\ IF t = Main THEN NextServer ELSE Goes(t, "done") /\ UNCHANGED about
  /\ UNCHANGED <<vars, _bRunning, acceptor, accept, stopped, failed, crashed>>

on_server_stop(t) ==
  /\ At(t, "flag") /\ Continue(t, "flag")
  /\ b_started' = FALSE
  /\ UNCHANGED <<vars, _bRunning, about, acceptor, accept, stopped, failed, crashed>>

StopQueue(t) ==
  /\ At(t, "queue") /\ stop(Call(t))
  /\ UNCHANGED lifeVars

(* The io thread then waits for connections again, with a closed acceptor  *)
(* and a stopped context: run() returns.                                   *)
Stopped(t) ==
  /\ At(t, "queue") /\ pc[Call(t)] \in {"late", "stopped"}
  /\ IF t = Main THEN NextServer ELSE Goes(t, "done") /\ UNCHANGED about
  /\ UNCHANGED <<vars, netVars, crashed>>

(* Two threads in join() of one std::thread: undefined, it may throw.      *)
JoinTwice(t) ==
  /\ At(t, "queue") /\ pc[Call(t)] = "join"
  /\ \E c \in Calls \ {Call(t)} : pc[c] = "join"
  /\ Throws(t)

-----------------------------------------------------------------------------
(* run() of a server, by its io thread.                                    *)
Run(s) ==                    \* set_option, which throws
  /\ At(s, "run")
  /\ IF acceptor[s] = "closed" THEN Throws(s)
     ELSE Goes(s, "listen") /\ UNCHANGED <<vars, netVars, about, crashed>>

Listen(s) ==
  /\ At(s, "listen")
  /\ \/ /\ acceptor[s] = "open" /\ Goes(s, "serve")
        /\ accept' = [accept EXCEPT ![s] = "pending"] /\ UNCHANGED failed
     \/ /\ Goes(s, onStop[1])
        /\ failed' = IF acceptor[s] = "open" THEN failed \cup {s} ELSE failed
        /\ UNCHANGED accept
  /\ UNCHANGED <<vars, b_started, _bRunning, about, acceptor, stopped, crashed>>

(* The handler of a connection that was accepted, or of one that reads.    *)
(* The accept that follows an accepted connection is taken to be under way *)
(* while the handler runs.                                                 *)
BeginHandler(s) ==
  /\ At(s, "serve") /\ ~stopped[s] /\ Goes(s, "handler")
  /\ UNCHANGED <<vars, netVars, about, crashed>>

InHandler(s) ==              \* it may add a task
  /\ At(s, "handler") /\ add_task(s)
  /\ UNCHANGED lifeVars

EndHandler(s) ==
  /\ At(s, "handler") /\ pc[s] = "idle" /\ Goes(s, "serve")
  /\ UNCHANGED <<vars, netVars, about, crashed>>

AcceptError(s) ==            \* on_accept: the system has no descriptor left, or a cancel
  /\ At(s, "serve") /\ ~stopped[s] /\ accept[s] # "none"
  /\ failed' = IF accept[s] = "pending" THEN failed \cup {s} ELSE failed
  /\ accept' = [accept EXCEPT ![s] = "none"]
  /\ Goes(s, onStop[1])
  /\ UNCHANGED <<vars, b_started, _bRunning, about, acceptor, stopped, crashed>>

RunReturns(s) ==
  /\ At(s, "serve") /\ stopped[s] /\ Goes(s, "done")
  /\ UNCHANGED <<vars, netVars, about, crashed>>

(* The worker of the queue.                                                *)
Work == At(Main, place[Main]) /\ run /\ UNCHANGED lifeVars
Wakeup == At(Main, place[Main]) /\ SpuriousWakeup /\ UNCHANGED lifeVars
TaskAdds == At(Main, place[Main]) /\ Push(Worker) /\ UNCHANGED lifeVars

-----------------------------------------------------------------------------
LifecycleInit ==
  /\ Init
  /\ b_started = FALSE /\ _bRunning = [s \in Servers |-> FALSE]
  /\ place = [t \in Runners |-> IF t = Main THEN "ssl" ELSE "none"] /\ about = Ws
  /\ acceptor = [s \in Servers |-> "open"] /\ accept = [s \in Servers |-> "none"]
  /\ stopped = [s \in Servers |-> FALSE] /\ failed = {} /\ crashed = FALSE

Stop(t) ==
  \/ Cancel(t) \/ StopContext(t) \/ CloseAcceptor(t) \/ on_server_stop(t)
  \/ StopQueue(t) \/ Stopped(t)
Finish(s) == Stop(s) \/ EndHandler(s) \/ (At(s, "handler") /\ Notify(s) /\ UNCHANGED lifeVars)

LifecycleNext ==
  \/ set_ssl_options \/ start \/ on_server_start \/ Quit \/ stop_all \/ stop_server
  \/ \E t \in Runners : Stop(t) \/ JoinTwice(t)
  \/ \E s \in Servers : \/ Run(s) \/ Listen(s) \/ BeginHandler(s) \/ InHandler(s)
                        \/ EndHandler(s) \/ AcceptError(s) \/ RunReturns(s)
  \/ Work \/ Wakeup \/ TaskAdds

(* Every thread finishes what it has begun.  Nobody has to type a "q".     *)
LifecycleSpec ==
  /\ LifecycleInit /\ [][LifecycleNext]_lvars
  /\ WF_lvars(stop_all \/ stop_server \/ Stop(Main)) /\ WF_lvars(Work)
  /\ \A s \in Servers : WF_lvars(Finish(s))

-----------------------------------------------------------------------------
StopPlaces == {"cancel", "ioc", "close", "flag", "queue"}

LifecycleTypeOK ==
  /\ b_started \in BOOLEAN /\ _bRunning \in [Servers -> BOOLEAN] /\ about \in Servers
  /\ place \in [Runners -> StopPlaces \cup {"none", "ssl", "start", "onStart", "console", "stop",
                   "server", "exited", "run", "listen", "serve", "handler", "done"}]
  /\ acceptor \in [Servers -> {"open", "closed"}]
  /\ accept \in [Servers -> {"none", "pending", "failed"}]
  /\ \A s \in Servers : accept[s] = "pending" => acceptor[s] = "open"
  /\ stopped \in [Servers -> BOOLEAN] /\ failed \subseteq Servers /\ crashed \in BOOLEAN

(* When main returns and no server had failed, both servers have been      *)
(* closed and their contexts stopped: b_started, which one of them resets  *)
(* while the other still serves, never hides the other from stop().        *)
StopEndsServers ==
  place[Main] = "exited" /\ failed = {} =>
    \A s \in Servers : acceptor[s] = "closed" /\ stopped[s]

(* The queue the two servers share runs for as long as neither of them     *)
(* has stopped, and no longer once one that failed has: the other one then *)
(* serves without it.                                                      *)
QueueFollowsServers ==
  /\ ~m_running => \/ \E s \in Servers : acceptor[s] = "closed"
                   \/ place[Ws] = "none" /\ failed # {}
  /\ (\E s \in failed : place[s] = "done") => ~m_running

(* A stop kills the process only where two threads stop at once, or after  *)
(* a server failed, or before an io thread has begun to listen.            *)
CrashHasACause ==
  crashed => \/ failed # {}
             \/ \E s \in Servers : place[s] \in StopPlaces \cup {"run"}

(* The main thread that stops the servers, or gives up at the              *)
(* certificates, returns, unless the worker misses the one notification    *)
(* of a stop: it has seen m_running set, and does not wait yet.            *)
MissesStop == ~m_running /\ pc[Worker] = "enter"
StopReturns ==
  (place[Main] \in {"stop", "flag"}) ~> (place[Main] = "exited" \/ crashed \/ MissesStop)
=============================================================================
