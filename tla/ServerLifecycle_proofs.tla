----------------------- MODULE ServerLifecycle_proofs -----------------------
(***************************************************************************)
(* The life of the two servers, for any number of tasks.                   *)
(*                                                                         *)
(* A step of the life cycle is a step of the queue or leaves it alone, so  *)
(* that what TaskQueue_proofs proves holds in the whole program.  The      *)
(* inductive invariant says in which order the main thread goes, what a    *)
(* thread that stops has closed already, who is inside stop() of the       *)
(* queue, and, as long as no server has failed, that a server serves until *)
(* the main thread comes for it.                                           *)
(***************************************************************************)
EXTENDS ServerLifecycle, TaskQueue_proofs

-----------------------------------------------------------------------------
(* The names.                                                              *)
LEMMA Names ==
  /\ Ws \in Servers /\ Tcp \in Servers /\ Ws # Tcp /\ \A s \in Servers : s = Ws \/ s = Tcp
  /\ Main \in Runners /\ Main \notin Servers /\ Servers \subseteq Runners
  /\ \A t \in Runners : t = Main \/ t \in Servers
BY DEF Servers, Runners, Ws, Tcp, Main

LEMMA CallNames ==
  /\ MainCalls[Ws] = "main stops ws" /\ MainCalls[Tcp] = "main stops tcp"
  /\ OwnCalls[Ws] = "ws stops" /\ OwnCalls[Tcp] = "tcp stops"
BY DEF MainCalls, OwnCalls, Ws, Tcp

LEMMA CallSet == Calls = {MainCalls[Ws], MainCalls[Tcp], OwnCalls[Ws], OwnCalls[Tcp]}
<1>1. Range(MainCalls) = {MainCalls[Ws], MainCalls[Tcp]}
  BY DEF Range, MainCalls, Ws, Tcp
<1>2. Range(OwnCalls) = {OwnCalls[Ws], OwnCalls[Tcp]}
  BY DEF Range, OwnCalls, Ws, Tcp
<1> QED
  BY <1>1, <1>2 DEF Calls

LEMMA CallsAre ==
  ASSUME about \in Servers, NEW t \in Runners
  PROVE  Call(t) \in Calls /\ Call(t) \in Stoppers
BY CallSet, CallNames, Names, LifecycleAssumption DEF Call

(* The steps of onStop in their order.                                     *)
LEMMA StopOrder ==
  /\ onStop[1] = "cancel"
  /\ onStop[1 + CHOOSE i \in DOMAIN onStop : onStop[i] = "cancel"] = "ioc"
  /\ onStop[1 + CHOOSE i \in DOMAIN onStop : onStop[i] = "ioc"] = "close"
  /\ onStop[1 + CHOOSE i \in DOMAIN onStop : onStop[i] = "close"] = "flag"
  /\ onStop[1 + CHOOSE i \in DOMAIN onStop : onStop[i] = "flag"] = "queue"
<1>1. /\ onStop[1] = "cancel" /\ onStop[2] = "ioc" /\ onStop[3] = "close" /\ onStop[4] = "flag"
      /\ onStop[5] = "queue" /\ DOMAIN onStop = {1, 2, 3, 4, 5}
  BY DEF onStop
<1>2. (CHOOSE i \in DOMAIN onStop : onStop[i] = "cancel") = 1
  BY <1>1
<1>3. (CHOOSE i \in DOMAIN onStop : onStop[i] = "ioc") = 2
  BY <1>1
<1>4. (CHOOSE i \in DOMAIN onStop : onStop[i] = "close") = 3
  BY <1>1
<1>5. (CHOOSE i \in DOMAIN onStop : onStop[i] = "flag") = 4
  BY <1>1
<1> QED
  BY <1>1, <1>2, <1>3, <1>4, <1>5


-----------------------------------------------------------------------------
(* The inductive invariant.                                                *)
MainPlaces == StopPlaces \cup {"ssl", "start", "onStart", "console", "stop", "server", "exited"}
ServerPlaces == StopPlaces \cup {"none", "run", "listen", "serve", "handler", "done"}
OwnPlaces == place[Main] \in MainPlaces /\ \A s \in Servers : place[s] \in ServerPlaces

(* The main thread goes from the certificates to the two starts, those of  *)
(* the WebSocket server first.                                             *)
Order ==
  /\ place[Main] = "ssl" => place[Ws] = "none" /\ place[Tcp] = "none"
  /\ place[Main] = "start" => place[about] = "none" /\ place[Tcp] = "none"
  /\ place[Main] = "onStart" /\ about = Ws => place[Tcp] = "none"
  /\ \/ place[Main] \in {"onStart", "console", "stop", "server", "cancel", "ioc", "close"}
     \/ place[Main] = "start" /\ about = Tcp
     => place[Ws] # "none"
  /\ place[Main] \in {"console", "stop"} => about = Ws

(* A certificate was missing: no server has been started, or will be.      *)
Uncertified == place[Ws] = "none" /\ failed # {} /\ place[Main] \in {"flag", "queue", "exited"}

(* Who stops the queue has closed an acceptor before.                      *)
Closing ==
  /\ \A s \in Servers : place[s] \in {"flag", "queue"} => acceptor[s] = "closed"
  /\ place[Main] \in {"flag", "queue"} => acceptor[about] = "closed" \/ Uncertified

QueueEnds ==
  /\ ~m_running => Uncertified \/ \E s \in Servers : acceptor[s] = "closed"
  /\ \A s \in failed : \/ place[s] \in StopPlaces \cup {"done"}
                       \/ place[s] = "none" /\ Uncertified
  /\ \A s \in failed : place[s] = "done" => ~m_running
  /\ \A c \in Calls : pc[c] \in {"late", "wake", "join", "stopped"} => ~m_running

(* A call of the queue's stop() under way is that of a thread that is at   *)
(* that step of onStop.                                                    *)
Joining ==
  \A c \in Calls : pc[c] \in {"reset", "wake", "join"} =>
    \E t \in Runners : place[t] = "queue" /\ Call(t) = c

(* As long as no server has failed.                                        *)
Ahead(s) ==                  \* the main thread has not begun to stop s
  \/ place[Main] \in {"ssl", "start", "onStart", "console", "stop"}
  \/ place[Main] \in {"server", "cancel"} /\ about = s
  \/ s = Tcp /\ about = Ws /\ place[Main] \in StopPlaces \cup {"server"}
Serves(s) ==
  /\ acceptor[s] = "open" /\ ~stopped[s] /\ accept[s] # "failed"
  /\ place[s] \in {"none", "run", "listen", "serve", "handler"}
Ended(s) == acceptor[s] = "closed" /\ stopped[s]
Smooth ==
  failed = {} =>
    /\ \A s \in Servers : Ahead(s) => Serves(s)
    /\ place[Main] \in {"close", "flag", "queue"} => stopped[about]
    /\ place[Main] \in {"flag", "queue"} => place[Ws] # "none"
    /\ place[Main] \in StopPlaces \cup {"server"} /\ about = Tcp => Ended(Ws)
    /\ \/ place[Main] \in {"console", "stop"}
       \/ place[Main] \in {"start", "onStart"} /\ about = Tcp
       => b_started
    /\ place[Main] = "exited" => Ended(Ws) /\ Ended(Tcp)

LifeInv ==
  /\ IInv /\ LifecycleTypeOK /\ OwnPlaces /\ Order /\ Closing /\ QueueEnds /\ Joining
  /\ Smooth /\ CrashHasACause

-----------------------------------------------------------------------------
(* What the steps do.                                                      *)
Went(t, p) == \A u \in Runners : place'[u] = IF u = t THEN p ELSE place[u]
AllPlaces == StopPlaces \cup {"none", "ssl", "start", "onStart", "console", "stop",
                   "server", "exited", "run", "listen", "serve", "handler", "done"}

LEMMA LifeGoes ==
  ASSUME LifecycleTypeOK, NEW t \in Runners, NEW p \in AllPlaces, Goes(t, p)
  PROVE  Went(t, p) /\ place' \in [Runners -> AllPlaces]
BY DEF Goes, Went, LifecycleTypeOK, AllPlaces

LEMMA LifeContinues ==
  ASSUME LifecycleTypeOK, NEW t \in Runners
  PROVE  /\ Continue(t, "cancel") => Went(t, "ioc") /\ place' \in [Runners -> AllPlaces]
         /\ Continue(t, "ioc") => Went(t, "close") /\ place' \in [Runners -> AllPlaces]
         /\ Continue(t, "close") => Went(t, "flag") /\ place' \in [Runners -> AllPlaces]
         /\ Continue(t, "flag") => Went(t, "queue") /\ place' \in [Runners -> AllPlaces]
BY StopOrder, LifeGoes DEF Continue, AllPlaces, StopPlaces

LEMMA LifeServer ==
  ASSUME LifecycleTypeOK, NEW t \in Runners
  PROVE  Server(t) \in Servers /\ (t \in Servers => Server(t) = t) /\ Server(Main) = about
BY Names DEF Server, LifecycleTypeOK

(* The steps that leave the queue alone.                                   *)
LEMMA SslDoes ==
  ASSUME LifecycleTypeOK, set_ssl_options
  PROVE  /\ ~crashed /\ place[Main] = "ssl" /\ place' \in [Runners -> AllPlaces]
         /\ UNCHANGED <<m_running, m_queue, m_qlock, pc, pushed, performed,
                        b_started, acceptor, accept, stopped, _bRunning, crashed>>
         /\ \/ about = Ws /\ about' = Tcp /\ Went(Main, "ssl") /\ failed' = failed
            \/ about = Tcp /\ about' = Ws /\ Went(Main, "start") /\ failed' = failed
            \/ Went(Main, "flag") /\ failed' = failed \cup {about} /\ about' = about
BY LifeGoes, Names DEF LifecycleTypeOK, set_ssl_options, At, Turn, vars, AllPlaces, StopPlaces

LEMMA StartDoes ==
  ASSUME LifecycleTypeOK, start
  PROVE  /\ ~crashed /\ place[Main] = "start" /\ place' \in [Runners -> AllPlaces]
         /\ _bRunning' \in [Servers -> BOOLEAN]
         /\ \A u \in Runners : place'[u] = IF u = Main THEN "onStart" ELSE
                                           IF u = about THEN "run" ELSE place[u]
         /\ UNCHANGED <<m_running, m_queue, m_qlock, pc, pushed, performed,
                        b_started, about, acceptor, accept, stopped, failed, crashed>>
BY Names DEF LifecycleTypeOK, start, At, vars, AllPlaces

LEMMA StartedDoes ==
  ASSUME LifecycleTypeOK, on_server_start
  PROVE  /\ ~crashed /\ place[Main] = "onStart" /\ place' \in [Runners -> AllPlaces]
         /\ b_started' = TRUE
         /\ UNCHANGED <<m_running, m_queue, m_qlock, pc, pushed, performed,
                        _bRunning, acceptor, accept, stopped, failed, crashed>>
         /\ \/ about = Ws /\ about' = Tcp /\ Went(Main, "start")
            \/ about = Tcp /\ about' = Ws /\ Went(Main, "console")
BY LifeGoes, Names DEF LifecycleTypeOK, on_server_start, At, Turn, vars, AllPlaces

LEMMA QuitDoes ==
  ASSUME LifecycleTypeOK, Quit
  PROVE  /\ ~crashed /\ place[Main] = "console" /\ place' \in [Runners -> AllPlaces]
         /\ Went(Main, "stop")
         /\ UNCHANGED <<m_running, m_queue, m_qlock, pc, pushed, performed, b_started,
                        _bRunning, about, acceptor, accept, stopped, failed, crashed>>
BY LifeGoes, Names DEF Quit, At, vars, netVars, AllPlaces

LEMMA StopAllDoes ==
  ASSUME LifecycleTypeOK, stop_all
  PROVE  /\ ~crashed /\ place[Main] = "stop" /\ place' \in [Runners -> AllPlaces]
         /\ Went(Main, IF b_started THEN "server" ELSE "exited")
         /\ UNCHANGED <<m_running, m_queue, m_qlock, pc, pushed, performed, b_started,
                        _bRunning, about, acceptor, accept, stopped, failed, crashed>>
<1> DEFINE p == IF b_started THEN "server" ELSE "exited"
<1>1. p \in AllPlaces /\ Goes(Main, p)
  BY DEF stop_all, AllPlaces
<1> HIDE DEF p
<1>2. Went(Main, p) /\ place' \in [Runners -> AllPlaces]
  BY <1>1, LifeGoes, Names
<1> QED
  BY <1>2 DEF stop_all, At, vars, netVars, p

LEMMA StopServerDoes ==
  ASSUME LifecycleTypeOK, stop_server
  PROVE  /\ ~crashed /\ place[Main] = "server" /\ place' \in [Runners -> AllPlaces]
         /\ Went(Main, "cancel") /\ _bRunning' \in [Servers -> BOOLEAN]
         /\ UNCHANGED <<m_running, m_queue, m_qlock, pc, pushed, performed, b_started,
                        about, acceptor, accept, stopped, failed, crashed>>
<1>1. "cancel" \in AllPlaces /\ Goes(Main, "cancel")
  BY StopOrder DEF stop_server, AllPlaces, StopPlaces
<1>2. Went(Main, "cancel") /\ place' \in [Runners -> AllPlaces]
  BY <1>1, LifeGoes, Names
<1> QED
  BY <1>2 DEF stop_server, At, vars, LifecycleTypeOK


(* onStop.                                                                 *)
QueueSame == UNCHANGED <<m_running, m_queue, m_qlock, pc, pushed, performed>>
Throwing ==
  /\ crashed' = TRUE /\ QueueSame
  /\ UNCHANGED <<place, b_started, _bRunning, about, acceptor, accept, stopped, failed>>

LEMMA AbortDoes ==
  ASSUME LifecycleTypeOK, NEW s \in Servers, accept' = Aborted(s)
  PROVE  /\ accept' \in [Servers -> {"none", "pending", "failed"}] /\ accept'[s] # "pending"
         /\ \A u \in Servers \ {s} : accept'[u] = accept[u]
<1>1. accept \in [Servers -> {"none", "pending", "failed"}]
  BY DEF LifecycleTypeOK
<1>2. accept' = [accept EXCEPT ![s] = IF accept[s] = "pending" THEN "failed" ELSE accept[s]]
  BY DEF Aborted
<1> QED
  BY <1>1, <1>2

LEMMA CancelDoes ==
  ASSUME LifecycleTypeOK, NEW t \in Runners, Cancel(t)
  PROVE  /\ ~crashed /\ place[t] = "cancel" /\ place[Main] # "exited"
         /\ \/ acceptor[Server(t)] = "closed" /\ Throwing
            \/ /\ acceptor[Server(t)] = "open"
               /\ Went(t, "ioc") /\ place' \in [Runners -> AllPlaces] /\ QueueSame
               /\ accept' \in [Servers -> {"none", "pending", "failed"}]
               /\ accept'[Server(t)] # "pending"
               /\ \A u \in Servers \ {Server(t)} : accept'[u] = accept[u]
               /\ UNCHANGED <<b_started, _bRunning, about, acceptor, stopped, failed, crashed>>
<1>1. ~crashed /\ place[t] = "cancel" /\ place[Main] # "exited"
  BY DEF Cancel, At
<1>2. Server(t) \in Servers
  BY LifeServer
<1>3. CASE acceptor[Server(t)] = "closed"
  BY <1>1, <1>3 DEF Cancel, Throws, Throwing, QueueSame, vars, netVars
<1>4. CASE acceptor[Server(t)] # "closed"
  <2>1. /\ accept' = Aborted(Server(t)) /\ Continue(t, "cancel")
        /\ UNCHANGED <<vars, b_started, _bRunning, about, acceptor, stopped, failed, crashed>>
    BY <1>4 DEF Cancel
  <2>2. acceptor[Server(t)] = "open"
    BY <1>2, <1>4 DEF LifecycleTypeOK
  <2> QED
    BY <1>1, <1>2, <2>1, <2>2, AbortDoes, LifeContinues DEF vars, QueueSame
<1> QED
  BY <1>3, <1>4

LEMMA ContextDoes ==
  ASSUME LifecycleTypeOK, NEW t \in Runners, StopContext(t)
  PROVE  /\ ~crashed /\ place[t] = "ioc" /\ place[Main] # "exited"
         /\ Went(t, "close") /\ place' \in [Runners -> AllPlaces] /\ QueueSame
         /\ stopped' \in [Servers -> BOOLEAN] /\ stopped'[Server(t)] = TRUE
         /\ \A u \in Servers \ {Server(t)} : stopped'[u] = stopped[u]
         /\ UNCHANGED <<b_started, _bRunning, about, acceptor, accept, failed, crashed>>
BY LifeServer, LifeContinues DEF StopContext, At, vars, QueueSame, LifecycleTypeOK

LEMMA CloseDoes ==
  ASSUME LifecycleTypeOK, NEW t \in Runners, CloseAcceptor(t)
  PROVE  /\ ~crashed /\ place[t] = "close" /\ place[Main] # "exited"
         /\ Went(t, "flag") /\ place' \in [Runners -> AllPlaces] /\ QueueSame
         /\ acceptor' \in [Servers -> {"open", "closed"}] /\ acceptor'[Server(t)] = "closed"
         /\ \A u \in Servers \ {Server(t)} : acceptor'[u] = acceptor[u] /\ accept'[u] = accept[u]
         /\ accept' \in [Servers -> {"none", "pending", "failed"}] /\ accept'[Server(t)] # "pending"
         /\ UNCHANGED <<b_started, _bRunning, about, stopped, failed, crashed>>
<1>1. Server(t) \in Servers
  BY LifeServer
<1>2. accept' = Aborted(Server(t))
  BY DEF CloseAcceptor
<1> QED
  BY <1>1, <1>2, AbortDoes, LifeContinues DEF CloseAcceptor, At, vars, QueueSame, LifecycleTypeOK

LEMMA FlagDoes ==
  ASSUME LifecycleTypeOK, NEW t \in Runners, on_server_stop(t)
  PROVE  /\ ~crashed /\ place[t] = "flag" /\ place[Main] # "exited"
         /\ Went(t, "queue") /\ place' \in [Runners -> AllPlaces] /\ QueueSame
         /\ b_started' = FALSE
         /\ UNCHANGED <<_bRunning, about, acceptor, accept, stopped, failed, crashed>>
BY LifeContinues DEF on_server_stop, At, vars, QueueSame

LEMMA StopQueueDoes ==
  ASSUME LifecycleTypeOK, NEW t \in Runners, StopQueue(t)
  PROVE  /\ ~crashed /\ place[t] = "queue" /\ place[Main] # "exited" /\ stop(Call(t))
         /\ UNCHANGED <<place, b_started, _bRunning, about, acceptor, accept, stopped, failed, crashed>>
BY DEF StopQueue, At, lifeVars, netVars

LEMMA StoppedDoes ==
  ASSUME LifecycleTypeOK, NEW t \in Runners, Stopped(t)
  PROVE  /\ ~crashed /\ place[t] = "queue" /\ place[Main] # "exited"
         /\ pc[Call(t)] \in {"late", "stopped"}
         /\ place' \in [Runners -> AllPlaces] /\ QueueSame
         /\ \/ t # Main /\ Went(t, "done") /\ about' = about
            \/ t = Main /\ Went(t, "exited") /\ about' = about
                 /\ (about = Tcp \/ place[Ws] = "none")
            \/ t = Main /\ Went(t, "server") /\ about = Ws /\ about' = Tcp /\ place[Ws] # "none"
         /\ UNCHANGED <<b_started, _bRunning, acceptor, accept, stopped, failed, crashed>>
<1>1. /\ ~crashed /\ place[t] = "queue" /\ place[Main] # "exited"
      /\ pc[Call(t)] \in {"late", "stopped"} /\ UNCHANGED <<vars, netVars, crashed>>
      /\ IF t = Main THEN NextServer ELSE Goes(t, "done") /\ UNCHANGED about
  BY DEF Stopped, At
<1>2. "done" \in AllPlaces /\ "exited" \in AllPlaces /\ "server" \in AllPlaces /\ about \in {Ws, Tcp}
  BY Names DEF AllPlaces, LifecycleTypeOK
<1>3. CASE t # Main
  BY <1>1, <1>2, <1>3, LifeGoes DEF vars, netVars, QueueSame
<1>4. CASE t = Main
  <2>1. CASE about = Tcp \/ place[Ws] = "none"
    <3>1. Goes(t, "exited") /\ about' = about
      BY <1>1, <1>4, <2>1 DEF NextServer
    <3> QED
      BY <1>1, <1>2, <1>4, <2>1, <3>1, LifeGoes DEF vars, netVars, QueueSame
  <2>2. CASE ~(about = Tcp \/ place[Ws] = "none")
    <3>1. Goes(t, "server") /\ about' = Tcp /\ about = Ws
      BY <1>1, <1>2, <1>4, <2>2 DEF NextServer
    <3> QED
      BY <1>1, <1>2, <1>4, <2>2, <3>1, LifeGoes DEF vars, netVars, QueueSame
  <2> QED
    BY <2>1, <2>2
<1> QED
  BY <1>3, <1>4

LEMMA JoinTwiceDoes ==
  ASSUME LifecycleTypeOK, NEW t \in Runners, JoinTwice(t)
  PROVE  /\ ~crashed /\ place[t] = "queue" /\ Throwing /\ pc[Call(t)] = "join"
         /\ \E c \in Calls \ {Call(t)} : pc[c] = "join"
BY DEF JoinTwice, At, Throws, Throwing, QueueSame, vars, netVars

(* run() of a server.                                                      *)
LEMMA RunDoes ==
  ASSUME LifecycleTypeOK, NEW s \in Servers, Run(s)
  PROVE  /\ ~crashed /\ place[s] = "run" /\ place[Main] # "exited"
         /\ \/ Throwing
            \/ /\ Went(s, "listen") /\ place' \in [Runners -> AllPlaces] /\ QueueSame
               /\ UNCHANGED <<b_started, _bRunning, about, acceptor, accept, stopped, failed, crashed>>
<1>1. ~crashed /\ place[s] = "run" /\ place[Main] # "exited" /\ s \in Runners /\ "listen" \in AllPlaces
  BY Names DEF Run, At, AllPlaces
<1>2. CASE acceptor[s] = "closed"
  BY <1>1, <1>2 DEF Run, Throws, Throwing, QueueSame, vars, netVars
<1>3. CASE acceptor[s] # "closed"
  BY <1>1, <1>3, LifeGoes DEF Run, QueueSame, vars, netVars
<1> QED
  BY <1>2, <1>3

LEMMA ListenDoes ==
  ASSUME LifecycleTypeOK, NEW s \in Servers, Listen(s)
  PROVE  /\ ~crashed /\ place[s] = "listen" /\ place[Main] # "exited"
         /\ place' \in [Runners -> AllPlaces] /\ QueueSame
         /\ accept' \in [Servers -> {"none", "pending", "failed"}]
         /\ \A u \in Servers \ {s} : accept'[u] = accept[u]
         /\ \/ /\ acceptor[s] = "open" /\ Went(s, "serve") /\ failed' = failed
               /\ accept'[s] = "pending"
            \/ /\ Went(s, "cancel") /\ accept'[s] = accept[s]
               /\ failed' = IF acceptor[s] = "open" THEN failed \cup {s} ELSE failed
         /\ UNCHANGED <<b_started, _bRunning, about, acceptor, stopped, crashed>>
<1>1. /\ ~crashed /\ place[s] = "listen" /\ place[Main] # "exited" /\ s \in Runners
      /\ "serve" \in AllPlaces /\ "cancel" \in AllPlaces
      /\ UNCHANGED <<vars, b_started, _bRunning, about, acceptor, stopped, crashed>>
      /\ accept \in [Servers -> {"none", "pending", "failed"}]
  BY Names DEF Listen, At, AllPlaces, StopPlaces, LifecycleTypeOK
<1>2. CASE /\ acceptor[s] = "open" /\ Goes(s, "serve")
           /\ accept' = [accept EXCEPT ![s] = "pending"] /\ UNCHANGED failed
  BY <1>1, <1>2, LifeGoes DEF QueueSame, vars
<1>3. CASE /\ Goes(s, onStop[1])
           /\ failed' = IF acceptor[s] = "open" THEN failed \cup {s} ELSE failed
           /\ UNCHANGED accept
  BY <1>1, <1>3, LifeGoes, StopOrder DEF QueueSame, vars
<1> QED
  BY <1>2, <1>3 DEF Listen

HandlerKeeps ==
  UNCHANGED <<b_started, _bRunning, about, acceptor, accept, stopped, failed, crashed>>

LEMMA BeginHandlerDoes ==
  ASSUME LifecycleTypeOK, NEW s \in Servers, BeginHandler(s)
  PROVE  /\ ~crashed /\ place[s] = "serve" /\ place[Main] # "exited" /\ HandlerKeeps
         /\ Went(s, "handler") /\ place' \in [Runners -> AllPlaces] /\ QueueSame
BY LifeGoes, Names DEF BeginHandler, At, AllPlaces, HandlerKeeps, QueueSame, vars, netVars

LEMMA EndHandlerDoes ==
  ASSUME LifecycleTypeOK, NEW s \in Servers, EndHandler(s)
  PROVE  /\ ~crashed /\ place[s] = "handler" /\ place[Main] # "exited" /\ HandlerKeeps
         /\ Went(s, "serve") /\ place' \in [Runners -> AllPlaces] /\ QueueSame
BY LifeGoes, Names DEF EndHandler, At, AllPlaces, HandlerKeeps, QueueSame, vars, netVars

LEMMA RunReturnsDoes ==
  ASSUME LifecycleTypeOK, NEW s \in Servers, RunReturns(s)
  PROVE  /\ ~crashed /\ place[s] = "serve" /\ stopped[s] /\ place[Main] # "exited" /\ HandlerKeeps
         /\ Went(s, "done") /\ place' \in [Runners -> AllPlaces] /\ QueueSame
BY LifeGoes, Names DEF RunReturns, At, AllPlaces, HandlerKeeps, QueueSame, vars, netVars

LEMMA AcceptErrorDoes ==
  ASSUME LifecycleTypeOK, NEW s \in Servers, AcceptError(s)
  PROVE  /\ ~crashed /\ place[s] = "serve" /\ place[Main] # "exited"
         /\ Went(s, "cancel") /\ place' \in [Runners -> AllPlaces] /\ QueueSame
         /\ accept' \in [Servers -> {"none", "pending", "failed"}] /\ accept'[s] = "none"
         /\ \A u \in Servers \ {s} : accept'[u] = accept[u]
         /\ accept[s] = "failed" \/ s \in failed'
         /\ failed' = failed \/ failed' = failed \cup {s}
         /\ UNCHANGED <<b_started, _bRunning, about, acceptor, stopped, crashed>>
<1>1. /\ ~crashed /\ place[s] = "serve" /\ place[Main] # "exited" /\ s \in Runners
      /\ "cancel" \in AllPlaces /\ accept[s] # "none"
      /\ UNCHANGED <<vars, b_started, _bRunning, about, acceptor, stopped, crashed>>
      /\ accept \in [Servers -> {"none", "pending", "failed"}]
      /\ accept' = [accept EXCEPT ![s] = "none"] /\ Goes(s, "cancel")
      /\ failed' = IF accept[s] = "pending" THEN failed \cup {s} ELSE failed
  BY Names, StopOrder DEF AcceptError, At, AllPlaces, StopPlaces, LifecycleTypeOK
<1> QED
  BY <1>1, LifeGoes DEF QueueSame, vars

LEMMA QueueStepsDo ==
  ASSUME LifecycleTypeOK, (\E s \in Servers : InHandler(s)) \/ Work \/ Wakeup \/ TaskAdds
  PROVE  /\ run \/ SpuriousWakeup \/ (\E a \in Adders \cup {Worker} : add_task(a))
         /\ ~crashed /\ UNCHANGED <<place, b_started, _bRunning, about, acceptor, accept,
                                    stopped, failed, crashed>>
BY LifecycleAssumption DEF InHandler, Work, Wakeup, TaskAdds, At, lifeVars, netVars, add_task


LEMMA LifeSteps ==
  ASSUME [LifecycleNext]_lvars
  PROVE  \/ QueueSame /\ UNCHANGED <<place, b_started, _bRunning, about, acceptor, accept,
                                     stopped, failed, crashed>>
         \/ set_ssl_options \/ start \/ on_server_start \/ Quit \/ stop_all \/ stop_server
         \/ \E t \in Runners : \/ Cancel(t) \/ StopContext(t) \/ CloseAcceptor(t) \/ on_server_stop(t)
                               \/ StopQueue(t) \/ Stopped(t) \/ JoinTwice(t)
         \/ \E s \in Servers : \/ Run(s) \/ Listen(s) \/ BeginHandler(s)
                               \/ EndHandler(s) \/ AcceptError(s) \/ RunReturns(s)
         \/ (\E s \in Servers : InHandler(s)) \/ Work \/ Wakeup \/ TaskAdds
BY DEF LifecycleNext, Stop, lvars, lifeVars, netVars, vars, QueueSame

-----------------------------------------------------------------------------
(* The queue inside the program.                                           *)
LEMMA QueueStep ==
  ASSUME LifecycleTypeOK, [LifecycleNext]_lvars
  PROVE  [Next]_vars
<1>1. QueueSame => UNCHANGED vars
  BY DEF QueueSame, vars
<1>2. Throwing => QueueSame
  BY DEF Throwing
<1>3. CASE \/ set_ssl_options \/ start \/ on_server_start \/ Quit \/ stop_all \/ stop_server
  BY <1>1, <1>3, SslDoes, StartDoes, StartedDoes, QuitDoes, StopAllDoes, StopServerDoes DEF QueueSame
<1>4. ASSUME NEW t \in Runners, Cancel(t) \/ StopContext(t) \/ CloseAcceptor(t) \/ on_server_stop(t)
      PROVE  UNCHANGED vars
  BY <1>1, <1>2, <1>4, CancelDoes, ContextDoes, CloseDoes, FlagDoes
<1>5. ASSUME NEW t \in Runners, StopQueue(t)
      PROVE  Next
  <2>1. stop(Call(t)) /\ Call(t) \in Stoppers
    BY <1>5, StopQueueDoes, CallsAre DEF LifecycleTypeOK
  <2> QED
    BY <2>1 DEF Next
<1>6. ASSUME NEW t \in Runners, Stopped(t) \/ JoinTwice(t)
      PROVE  UNCHANGED vars
  BY <1>1, <1>2, <1>6, StoppedDoes, JoinTwiceDoes
<1>7. ASSUME NEW s \in Servers, \/ Run(s) \/ Listen(s) \/ BeginHandler(s)
                                \/ EndHandler(s) \/ AcceptError(s) \/ RunReturns(s)
      PROVE  UNCHANGED vars
  BY <1>1, <1>2, <1>7, RunDoes, ListenDoes, BeginHandlerDoes, EndHandlerDoes, AcceptErrorDoes,
     RunReturnsDoes
<1>8. CASE (\E s \in Servers : InHandler(s)) \/ Work \/ Wakeup \/ TaskAdds
  BY <1>8, QueueStepsDo DEF Next
<1> QED
  BY <1>1, <1>3, <1>4, <1>5, <1>6, <1>7, <1>8, LifeSteps

LEMMA QueueInvStep ==
  ASSUME IInv, LifecycleTypeOK, [LifecycleNext]_lvars
  PROVE  IInv'
BY QueueStep, TypeStep, LockStep, DequeueStep, OrderStep, StoppedStep DEF IInv

(* A call of stop() moves itself, and has seen or set m_running FALSE when *)
(* it goes on.                                                             *)
LEMMA CallMoves ==
  ASSUME IInv, NEW c \in Calls, stop(c)
  PROVE  /\ \A d \in Calls \ {c} : pc'[d] = pc[d]
         /\ m_running' \in {m_running, FALSE}
         /\ \/ pc'[c] = "reset" /\ m_running' = m_running
            \/ pc'[c] = "late" /\ ~m_running'
            \/ pc'[c] = "wake" /\ ~m_running'
            \/ pc[c] = "wake" /\ pc'[c] = "join" /\ m_running' = m_running
            \/ pc[c] = "join" /\ pc'[c] = "stopped" /\ m_running' = m_running
<1>1. PlacesOK /\ m_running \in BOOLEAN
  BY DEF IInv, TypeOK, DataOK
<1>2. c \in Stoppers /\ Calls \subseteq Stoppers /\ Stoppers \subseteq Threads /\ Worker \notin Stoppers
  BY LifecycleAssumption, ThreadSets, ThreadsDistinct
<1>3. ASSUME NEW from, NEW to \in StopperPlaces, Goto(c, from, to) \/ NotifyAll(c, from, to)
      PROVE  pc[c] = from /\ pc'[c] = to /\ \A d \in Calls \ {c} : pc'[d] = pc[d]
  BY <1>1, <1>2, <1>3, GotoMoves, NotifyMoves, ThreadSets
<1>4. /\ "reset" \in StopperPlaces /\ "late" \in StopperPlaces /\ "wake" \in StopperPlaces
      /\ "join" \in StopperPlaces /\ "stopped" \in StopperPlaces
  BY DEF StopperPlaces
<1>5. CASE TestStop(c)
  <2>1. CASE m_running
    <3>1. Goto(c, "idle", "reset") /\ m_running' = m_running
      BY <1>5, <2>1 DEF TestStop
    <3> QED
      BY <1>3, <1>4, <3>1
  <2>2. CASE ~m_running
    <3>1. Goto(c, "idle", "late") /\ m_running' = m_running
      BY <1>5, <2>2 DEF TestStop
    <3> QED
      BY <1>3, <1>4, <2>2, <3>1
  <2> QED
    BY <2>1, <2>2
<1>6. CASE ResetRunning(c)
  <2>1. Goto(c, "reset", "wake") /\ m_running' = FALSE
    BY <1>6 DEF ResetRunning
  <2> QED
    BY <1>3, <1>4, <2>1
<1>7. CASE WakeWorker(c)
  <2>1. NotifyAll(c, "wake", "join") /\ m_running' = m_running
    BY <1>7 DEF WakeWorker
  <2> QED
    BY <1>3, <1>4, <2>1
<1>8. CASE Join(c)
  <2>1. Goto(c, "join", "stopped") /\ m_running' = m_running
    BY <1>8 DEF Join
  <2> QED
    BY <1>3, <1>4, <2>1
<1> QED
  BY <1>5, <1>6, <1>7, <1>8 DEF stop

LEMMA QueueStepsKeepCalls ==
  ASSUME IInv, LifecycleTypeOK, (\E s \in Servers : InHandler(s)) \/ Work \/ Wakeup \/ TaskAdds
  PROVE  m_running' = m_running /\ \A c \in Calls : pc'[c] = pc[c]
<1>1. PlacesOK /\ TypeOK
  BY DEF IInv, TypeOK
<1>2. Calls \subseteq Stoppers /\ Stoppers \subseteq Threads /\ Worker \notin Stoppers
      /\ \A a \in Adders \cup {Worker} : a \in Threads /\ a \notin Stoppers
  BY LifecycleAssumption, ThreadSets, ThreadsDistinct
<1>3. ASSUME NEW a \in Adders \cup {Worker}, NEW from, NEW to \in Places,
             Goto(a, from, to) \/ NotifyAll(a, from, to)
      PROVE  \A c \in Calls : pc'[c] = pc[c]
  BY <1>1, <1>2, <1>3, GotoMoves, NotifyMoves, ThreadSets
<1>4. CASE WorkerOnly \/ dequeue_task
  <2>1. \E from, to : to \in WorkerPlaces /\ Goto(Worker, from, to)
    BY <1>4 DEF WorkerOnly, TestRunning, EnterWait, SpuriousWakeup, TestInner,
         is_there_available_task, EndCallback, dequeue_task, WorkerPlaces
  <2>2. m_running' = m_running
    BY <1>1, <1>4, WorkerOnlyType DEF DataUnchanged, dequeue_task
  <2> QED
    BY <1>3, <2>1, <2>2, ThreadSets
<1>5. ASSUME NEW a \in Adders \cup {Worker}, Push(a) \/ Notify(a)
      PROVE  m_running' = m_running /\ \A c \in Calls : pc'[c] = pc[c]
  <2>1. m_running' = m_running
    BY <1>5 DEF Push, Notify
  <2>2. \E from, to : to \in Places /\ (Goto(a, from, to) \/ NotifyAll(a, from, to))
    BY <1>5 DEF Push, Notify, Caller, Places, AdderPlaces, WorkerPlaces
  <2> QED
    BY <1>3, <2>1, <2>2
<1>6. \/ WorkerOnly \/ dequeue_task \/ \E a \in Adders \cup {Worker} : Push(a) \/ Notify(a)
  BY QueueStepsDo DEF run, add_task, WorkerOnly
<1> QED
  BY <1>4, <1>5, <1>6


-----------------------------------------------------------------------------
(* The invariant, step by step.                                            *)
LifeRest ==
  /\ LifecycleTypeOK /\ OwnPlaces /\ Order /\ Closing /\ QueueEnds /\ Joining
  /\ Smooth /\ CrashHasACause

(* An exception that ends the process changes nothing else.                *)
LEMMA ThrowKeeps ==
  ASSUME LifeInv, Throwing, CrashHasACause'
  PROVE  LifeRest'
<1>1. /\ LifecycleTypeOK /\ OwnPlaces /\ Order /\ Closing /\ QueueEnds /\ Joining /\ Smooth
  BY DEF LifeInv
<1>2. LifecycleTypeOK'
  BY <1>1 DEF LifecycleTypeOK, Throwing
<1>3. OwnPlaces' /\ Order' /\ Closing' /\ QueueEnds' /\ Joining'
  BY <1>1 DEF Throwing, OwnPlaces, Order, Closing, Uncertified, QueueEnds, Joining, Call, QueueSame
<1>4. Smooth'
  BY <1>1 DEF Throwing, Smooth, Ahead, Serves, Ended
<1> QED
  BY <1>2, <1>3, <1>4 DEF LifeRest

LEMMA SslKeeps ==
  ASSUME LifeInv, set_ssl_options
  PROVE  LifeRest'
<1>1. /\ LifecycleTypeOK /\ OwnPlaces /\ Order /\ Closing /\ QueueEnds /\ Joining /\ Smooth
      /\ CrashHasACause
  BY DEF LifeInv
<1>2. LifecycleTypeOK'
  BY <1>1, SslDoes, Names, LifeServer DEF LifecycleTypeOK, AllPlaces
<1>3. OwnPlaces'
  BY <1>1, SslDoes, Names DEF OwnPlaces, MainPlaces, ServerPlaces, StopPlaces, Went, LifecycleTypeOK
<1>4. Order'
  BY <1>1, SslDoes, Names DEF Order, Went, LifecycleTypeOK
<1>5. Closing'
  BY <1>1, SslDoes, Names, LifeServer DEF Closing, Order, Uncertified, Went, LifecycleTypeOK
<1>6. QueueEnds'
  BY <1>1, SslDoes, Names, LifeServer DEF QueueEnds, Uncertified, Order, Went, QueueSame,
     StopPlaces, LifecycleTypeOK
<1>7. Joining'
  BY <1>1, SslDoes, Names DEF Joining, Call, Went, QueueSame, LifecycleTypeOK
<1>8. Smooth'
  BY <1>1, SslDoes, Names, LifeServer DEF Smooth, Ahead, Serves, Ended, Order, Closing,
     Uncertified, OwnPlaces, MainPlaces, Went, StopPlaces, LifecycleTypeOK
<1>9. CrashHasACause'
  BY <1>1, SslDoes, Names DEF CrashHasACause, Went, StopPlaces
<1> QED
  BY <1>2, <1>3, <1>4, <1>5, <1>6, <1>7, <1>8, <1>9 DEF LifeRest

LEMMA StartKeeps ==
  ASSUME LifeInv, start
  PROVE  LifeRest'
<1>1. /\ LifecycleTypeOK /\ OwnPlaces /\ Order /\ Closing /\ QueueEnds /\ Joining /\ Smooth
      /\ CrashHasACause
  BY DEF LifeInv
<1>2. LifecycleTypeOK'
  BY <1>1, StartDoes, Names, LifeServer DEF LifecycleTypeOK, AllPlaces
<1>3. OwnPlaces'
  BY <1>1, StartDoes, Names DEF OwnPlaces, MainPlaces, ServerPlaces, StopPlaces, Went,
     LifecycleTypeOK
<1>4. Order'
  BY <1>1, StartDoes, Names DEF Order, Went, LifecycleTypeOK
<1>5. Closing'
  BY <1>1, StartDoes, Names, LifeServer DEF Closing, Order, Uncertified, Went, LifecycleTypeOK
<1>6. QueueEnds'
  BY <1>1, StartDoes, Names, LifeServer DEF QueueEnds, Uncertified, Order, Went, QueueSame,
     StopPlaces, LifecycleTypeOK
<1>7. Joining'
  <2>1. /\ place[Main] = "start" /\ QueueSame
        /\ \A u \in Runners : place[u] = "queue" => u \in Servers /\ place'[u] = "queue"
    BY <1>1, StartDoes, Names DEF Order, QueueSame, LifecycleTypeOK
  <2> SUFFICES ASSUME NEW c \in Calls, pc[c] \in {"reset", "wake", "join"}
               PROVE  \E u \in Runners : place'[u] = "queue" /\ Call(u)' = c
    BY <2>1 DEF Joining, QueueSame
  <2>2. PICK u \in Runners : place[u] = "queue" /\ Call(u) = c
    BY <1>1 DEF Joining
  <2>3. place'[u] = "queue" /\ Call(u)' = c
    BY <2>1, <2>2, Names DEF Call
  <2> QED
    BY <2>3
<1>8. Smooth'
  BY <1>1, StartDoes, Names, LifeServer DEF Smooth, Ahead, Serves, Ended, Order, Closing,
     Uncertified, OwnPlaces, MainPlaces, Went, StopPlaces, LifecycleTypeOK
<1>9. CrashHasACause'
  BY <1>1, StartDoes, Names DEF CrashHasACause, Went, StopPlaces
<1> QED
  BY <1>2, <1>3, <1>4, <1>5, <1>6, <1>7, <1>8, <1>9 DEF LifeRest

LEMMA StartedKeeps ==
  ASSUME LifeInv, on_server_start
  PROVE  LifeRest'
<1>1. /\ LifecycleTypeOK /\ OwnPlaces /\ Order /\ Closing /\ QueueEnds /\ Joining /\ Smooth
      /\ CrashHasACause
  BY DEF LifeInv
<1>2. LifecycleTypeOK'
  BY <1>1, StartedDoes, Names, LifeServer DEF LifecycleTypeOK, AllPlaces
<1>3. OwnPlaces'
  BY <1>1, StartedDoes, Names DEF OwnPlaces, MainPlaces, ServerPlaces, StopPlaces, Went,
     LifecycleTypeOK
<1>4. Order'
  BY <1>1, StartedDoes, Names DEF Order, Went, LifecycleTypeOK
<1>5. Closing'
  BY <1>1, StartedDoes, Names, LifeServer DEF Closing, Order, Uncertified, Went, LifecycleTypeOK
<1>6. QueueEnds'
  <2>1. /\ place[Main] = "onStart" /\ QueueSame /\ UNCHANGED <<acceptor, accept, stopped, failed>>
        /\ b_started' = TRUE /\ \A s \in Servers : place'[s] = place[s]
    BY <1>1, StartedDoes, Names DEF Went, QueueSame
  <2>2. \/ about = Ws /\ about' = Tcp /\ place'[Main] = "start"
        \/ about = Tcp /\ about' = Ws /\ place'[Main] = "console"
    BY <1>1, StartedDoes, Names DEF Went
  <2>3. ~Uncertified
    BY <2>1 DEF Uncertified
  <2> QED
    BY <1>1, <2>1, <2>3 DEF QueueEnds, QueueSame, LifecycleTypeOK
<1>7. Joining'
  <2>1. /\ place[Main] = "onStart" /\ QueueSame
        /\ \A u \in Runners : place[u] = "queue" => u \in Servers /\ place'[u] = "queue"
    BY <1>1, StartedDoes, Names DEF Order, Went, QueueSame, LifecycleTypeOK
  <2> SUFFICES ASSUME NEW c \in Calls, pc[c] \in {"reset", "wake", "join"}
               PROVE  \E u \in Runners : place'[u] = "queue" /\ Call(u)' = c
    BY <2>1 DEF Joining, QueueSame
  <2>2. PICK u \in Runners : place[u] = "queue" /\ Call(u) = c
    BY <1>1 DEF Joining
  <2>3. place'[u] = "queue" /\ Call(u)' = c
    BY <2>1, <2>2, Names DEF Call
  <2> QED
    BY <2>3
<1>8. Smooth'
  <2>1. /\ place[Main] = "onStart" /\ QueueSame /\ UNCHANGED <<acceptor, accept, stopped, failed>>
        /\ b_started' = TRUE /\ \A s \in Servers : place'[s] = place[s]
    BY <1>1, StartedDoes, Names DEF Went, QueueSame
  <2>2. \/ about = Ws /\ about' = Tcp /\ place'[Main] = "start"
        \/ about = Tcp /\ about' = Ws /\ place'[Main] = "console"
    BY <1>1, StartedDoes, Names DEF Went
  <2>3. failed = {} => \A s \in Servers : Serves(s)
    BY <1>1, <2>1 DEF Smooth, Ahead
  <2>4. failed' = {} => \A s \in Servers : Serves(s)'
    BY <2>1, <2>3 DEF Serves
  <2> QED
    BY <2>1, <2>2, <2>4 DEF Smooth, StopPlaces
<1>9. CrashHasACause'
  BY <1>1, StartedDoes, Names DEF CrashHasACause, Went, StopPlaces
<1> QED
  BY <1>2, <1>3, <1>4, <1>5, <1>6, <1>7, <1>8, <1>9 DEF LifeRest

LEMMA QuitKeeps ==
  ASSUME LifeInv, Quit
  PROVE  LifeRest'
<1>1. /\ LifecycleTypeOK /\ OwnPlaces /\ Order /\ Closing /\ QueueEnds /\ Joining /\ Smooth
      /\ CrashHasACause
  BY DEF LifeInv
<1>2. LifecycleTypeOK'
  BY <1>1, QuitDoes, Names, LifeServer DEF LifecycleTypeOK, AllPlaces
<1>3. OwnPlaces'
  BY <1>1, QuitDoes, Names DEF OwnPlaces, MainPlaces, ServerPlaces, StopPlaces, Went,
     LifecycleTypeOK
<1>4. Order'
  BY <1>1, QuitDoes, Names DEF Order, Went, LifecycleTypeOK
<1>5. Closing'
  BY <1>1, QuitDoes, Names, LifeServer DEF Closing, Order, Uncertified, Went, LifecycleTypeOK
<1>6. QueueEnds'
  BY <1>1, QuitDoes, Names, LifeServer DEF QueueEnds, Uncertified, Order, Went, QueueSame,
     StopPlaces, LifecycleTypeOK
<1>7. Joining'
  BY <1>1, QuitDoes, Names DEF Joining, Call, Went, QueueSame, LifecycleTypeOK
<1>8. Smooth'
  BY <1>1, QuitDoes, Names, LifeServer DEF Smooth, Ahead, Serves, Ended, Order, Closing,
     Uncertified, OwnPlaces, MainPlaces, Went, StopPlaces, LifecycleTypeOK
<1>9. CrashHasACause'
  BY <1>1, QuitDoes, Names DEF CrashHasACause, Went, StopPlaces
<1> QED
  BY <1>2, <1>3, <1>4, <1>5, <1>6, <1>7, <1>8, <1>9 DEF LifeRest

LEMMA StopAllKeeps ==
  ASSUME LifeInv, stop_all
  PROVE  LifeRest'
<1>1. /\ LifecycleTypeOK /\ OwnPlaces /\ Order /\ Closing /\ QueueEnds /\ Joining /\ Smooth
      /\ CrashHasACause
  BY DEF LifeInv
<1>2. LifecycleTypeOK'
  BY <1>1, StopAllDoes, Names, LifeServer DEF LifecycleTypeOK, AllPlaces
<1>3. OwnPlaces'
  BY <1>1, StopAllDoes, Names DEF OwnPlaces, MainPlaces, ServerPlaces, StopPlaces, Went,
     LifecycleTypeOK
<1>4. Order'
  BY <1>1, StopAllDoes, Names DEF Order, Went, LifecycleTypeOK
<1>5. Closing'
  BY <1>1, StopAllDoes, Names, LifeServer DEF Closing, Order, Uncertified, Went, LifecycleTypeOK
<1>6. QueueEnds'
  BY <1>1, StopAllDoes, Names, LifeServer DEF QueueEnds, Uncertified, Order, Went, QueueSame,
     StopPlaces, LifecycleTypeOK
<1>7. Joining'
  BY <1>1, StopAllDoes, Names DEF Joining, Call, Went, QueueSame, LifecycleTypeOK
<1>8. Smooth'
  BY <1>1, StopAllDoes, Names, LifeServer DEF Smooth, Ahead, Serves, Ended, Order, Closing,
     Uncertified, OwnPlaces, MainPlaces, Went, StopPlaces, LifecycleTypeOK
<1>9. CrashHasACause'
  BY <1>1, StopAllDoes, Names DEF CrashHasACause, Went, StopPlaces
<1> QED
  BY <1>2, <1>3, <1>4, <1>5, <1>6, <1>7, <1>8, <1>9 DEF LifeRest

LEMMA StopServerKeeps ==
  ASSUME LifeInv, stop_server
  PROVE  LifeRest'
<1>1. /\ LifecycleTypeOK /\ OwnPlaces /\ Order /\ Closing /\ QueueEnds /\ Joining /\ Smooth
      /\ CrashHasACause
  BY DEF LifeInv
<1>2. LifecycleTypeOK'
  BY <1>1, StopServerDoes, Names, LifeServer DEF LifecycleTypeOK, AllPlaces
<1>3. OwnPlaces'
  BY <1>1, StopServerDoes, Names DEF OwnPlaces, MainPlaces, ServerPlaces, StopPlaces, Went,
     LifecycleTypeOK
<1>4. Order'
  BY <1>1, StopServerDoes, Names DEF Order, Went, LifecycleTypeOK
<1>5. Closing'
  BY <1>1, StopServerDoes, Names, LifeServer DEF Closing, Order, Uncertified, Went, LifecycleTypeOK
<1>6. QueueEnds'
  BY <1>1, StopServerDoes, Names, LifeServer DEF QueueEnds, Uncertified, Order, Went, QueueSame,
     StopPlaces, LifecycleTypeOK
<1>7. Joining'
  BY <1>1, StopServerDoes, Names DEF Joining, Call, Went, QueueSame, LifecycleTypeOK
<1>8. Smooth'
  BY <1>1, StopServerDoes, Names, LifeServer DEF Smooth, Ahead, Serves, Ended, Order, Closing,
     Uncertified, OwnPlaces, MainPlaces, Went, StopPlaces, LifecycleTypeOK
<1>9. CrashHasACause'
  BY <1>1, StopServerDoes, Names DEF CrashHasACause, Went, StopPlaces
<1> QED
  BY <1>2, <1>3, <1>4, <1>5, <1>6, <1>7, <1>8, <1>9 DEF LifeRest

LEMMA CancelKeeps ==
  ASSUME LifeInv, NEW t \in Runners, Cancel(t)
  PROVE  LifeRest'
<1>1. /\ LifecycleTypeOK /\ OwnPlaces /\ Order /\ Closing /\ QueueEnds /\ Joining /\ Smooth
      /\ CrashHasACause
  BY DEF LifeInv
<1>2. CASE Throwing
  <2>1. /\ ~crashed /\ place[t] = "cancel" /\ place' = place /\ failed' = failed
        /\ acceptor[Server(t)] = "closed"
    BY <1>1, <1>2, CancelDoes DEF Throwing
  <2>2. CASE t \in Servers
    BY <1>2, <2>1, <2>2, ThrowKeeps DEF CrashHasACause, StopPlaces
  <2>3. CASE t = Main
    <3>1. failed # {}
      BY <1>1, <2>1, <2>3, LifeServer DEF Smooth, Ahead, Serves
    <3> QED
      BY <1>2, <2>1, <3>1, ThrowKeeps DEF CrashHasACause
  <2> QED
    BY <2>2, <2>3, Names
<1>3. CASE ~Throwing
  <2>f. /\ ~crashed /\ place[t] = "cancel" /\ place[Main] # "exited" /\ acceptor[Server(t)] = "open"
        /\ Went(t, "ioc") /\ place' \in [Runners -> AllPlaces] /\ QueueSame
        /\ accept' \in [Servers -> {"none", "pending", "failed"}]
        /\ accept'[Server(t)] # "pending"
        /\ \A u \in Servers \ {Server(t)} : accept'[u] = accept[u]
        /\ UNCHANGED <<b_started, _bRunning, about, acceptor, stopped, failed, crashed>>
    BY <1>1, <1>3, CancelDoes
  <2>2. LifecycleTypeOK'
    BY <1>1, <2>f, Names, LifeServer DEF LifecycleTypeOK, AllPlaces
  <2>3. OwnPlaces'
    BY <1>1, <2>f, Names DEF OwnPlaces, MainPlaces, ServerPlaces, StopPlaces, Went, LifecycleTypeOK
  <2>4. Order'
    BY <1>1, <2>f, Names DEF Order, Went, LifecycleTypeOK
  <2>5. Closing'
    BY <1>1, <2>f, Names, LifeServer DEF Closing, Order, Uncertified, Went, LifecycleTypeOK
  <2>6. QueueEnds'
    BY <1>1, <2>f, Names, LifeServer DEF QueueEnds, Uncertified, Order, Went, QueueSame,
       StopPlaces, LifecycleTypeOK
  <2>7. Joining'
    BY <1>1, <2>f, Names DEF Joining, Call, Went, QueueSame, LifecycleTypeOK
  <2>8. Smooth'
    BY <1>1, <2>f, Names, LifeServer DEF Smooth, Ahead, Serves, Ended, Order, Closing,
       Uncertified, OwnPlaces, MainPlaces, Went, StopPlaces, LifecycleTypeOK
  <2>9. CrashHasACause'
    BY <1>1, <2>f, Names DEF CrashHasACause, Went, StopPlaces
  <2> QED
    BY <2>2, <2>3, <2>4, <2>5, <2>6, <2>7, <2>8, <2>9 DEF LifeRest
<1> QED
  BY <1>2, <1>3

LEMMA ContextKeeps ==
  ASSUME LifeInv, NEW t \in Runners, StopContext(t)
  PROVE  LifeRest'
<1>1. /\ LifecycleTypeOK /\ OwnPlaces /\ Order /\ Closing /\ QueueEnds /\ Joining /\ Smooth
      /\ CrashHasACause
  BY DEF LifeInv
<1>f. /\ ~crashed /\ place[t] = "ioc" /\ place[Main] # "exited"
      /\ Went(t, "close") /\ place' \in [Runners -> AllPlaces] /\ QueueSame
      /\ stopped' \in [Servers -> BOOLEAN] /\ stopped'[Server(t)] = TRUE
      /\ \A u \in Servers \ {Server(t)} : stopped'[u] = stopped[u]
      /\ UNCHANGED <<b_started, _bRunning, about, acceptor, accept, failed, crashed>>
  BY <1>1, ContextDoes
<1>2. LifecycleTypeOK'
  BY <1>1, <1>f, Names, LifeServer DEF LifecycleTypeOK, AllPlaces
<1>3. OwnPlaces'
  BY <1>1, <1>f, Names DEF OwnPlaces, MainPlaces, ServerPlaces, StopPlaces, Went, LifecycleTypeOK
<1>4. Order'
  BY <1>1, <1>f, Names DEF Order, Went, LifecycleTypeOK
<1>5. Closing'
  BY <1>1, <1>f, Names, LifeServer DEF Closing, Order, Uncertified, Went, LifecycleTypeOK
<1>6. QueueEnds'
  BY <1>1, <1>f, Names, LifeServer DEF QueueEnds, Uncertified, Order, Went, QueueSame, StopPlaces,
     LifecycleTypeOK
<1>7. Joining'
  BY <1>1, <1>f, Names DEF Joining, Call, Went, QueueSame, LifecycleTypeOK
<1>8. Smooth'
  BY <1>1, <1>f, Names, LifeServer DEF Smooth, Ahead, Serves, Ended, Order, Closing, Uncertified,
     OwnPlaces, MainPlaces, Went, StopPlaces, LifecycleTypeOK
<1>9. CrashHasACause'
  BY <1>1, <1>f, Names DEF CrashHasACause, Went, StopPlaces
<1> QED
  BY <1>2, <1>3, <1>4, <1>5, <1>6, <1>7, <1>8, <1>9 DEF LifeRest

LEMMA CloseKeeps ==
  ASSUME LifeInv, NEW t \in Runners, CloseAcceptor(t)
  PROVE  LifeRest'
<1>1. /\ LifecycleTypeOK /\ OwnPlaces /\ Order /\ Closing /\ QueueEnds /\ Joining /\ Smooth
      /\ CrashHasACause
  BY DEF LifeInv
<1>2. LifecycleTypeOK'
  BY <1>1, CloseDoes, Names, LifeServer DEF LifecycleTypeOK, AllPlaces
<1>3. OwnPlaces'
  BY <1>1, CloseDoes, Names DEF OwnPlaces, MainPlaces, ServerPlaces, StopPlaces, Went,
     LifecycleTypeOK
<1>4. Order'
  BY <1>1, CloseDoes, Names DEF Order, Went, LifecycleTypeOK
<1>5. Closing'
  BY <1>1, CloseDoes, Names, LifeServer DEF Closing, Order, Uncertified, Went, LifecycleTypeOK
<1>6. QueueEnds'
  BY <1>1, CloseDoes, Names, LifeServer DEF QueueEnds, Uncertified, Order, Went, QueueSame,
     StopPlaces, LifecycleTypeOK
<1>7. Joining'
  BY <1>1, CloseDoes, Names DEF Joining, Call, Went, QueueSame, LifecycleTypeOK
<1>8. Smooth'
  BY <1>1, CloseDoes, Names, LifeServer DEF Smooth, Ahead, Serves, Ended, Order, Closing,
     Uncertified, OwnPlaces, MainPlaces, Went, StopPlaces, LifecycleTypeOK
<1>9. CrashHasACause'
  BY <1>1, CloseDoes, Names DEF CrashHasACause, Went, StopPlaces
<1> QED
  BY <1>2, <1>3, <1>4, <1>5, <1>6, <1>7, <1>8, <1>9 DEF LifeRest

LEMMA FlagKeeps ==
  ASSUME LifeInv, NEW t \in Runners, on_server_stop(t)
  PROVE  LifeRest'
<1>1. /\ LifecycleTypeOK /\ OwnPlaces /\ Order /\ Closing /\ QueueEnds /\ Joining /\ Smooth
      /\ CrashHasACause
  BY DEF LifeInv
<1>f. /\ ~crashed /\ place[t] = "flag" /\ place[Main] # "exited"
      /\ Went(t, "queue") /\ place' \in [Runners -> AllPlaces] /\ QueueSame
      /\ b_started' = FALSE
      /\ UNCHANGED <<_bRunning, about, acceptor, accept, stopped, failed, crashed>>
  BY <1>1, FlagDoes
<1>2. LifecycleTypeOK'
  BY <1>1, <1>f, Names, LifeServer DEF LifecycleTypeOK, AllPlaces
<1>3. OwnPlaces'
  BY <1>1, <1>f, Names DEF OwnPlaces, MainPlaces, ServerPlaces, StopPlaces, Went, LifecycleTypeOK
<1>4. Order'
  BY <1>1, <1>f, Names DEF Order, Went, LifecycleTypeOK
<1>5. Closing'
  BY <1>1, <1>f, Names, LifeServer DEF Closing, Order, Uncertified, Went, LifecycleTypeOK
<1>6. QueueEnds'
  BY <1>1, <1>f, Names, LifeServer DEF QueueEnds, Uncertified, Order, Went, QueueSame, StopPlaces,
     LifecycleTypeOK
<1>7. Joining'
  BY <1>1, <1>f, Names DEF Joining, Call, Went, QueueSame, LifecycleTypeOK
<1>8. Smooth'
  BY <1>1, <1>f, Names, LifeServer DEF Smooth, Ahead, Serves, Ended, Order, Closing, Uncertified,
     OwnPlaces, MainPlaces, Went, StopPlaces, LifecycleTypeOK
<1>9. CrashHasACause'
  BY <1>1, <1>f, Names DEF CrashHasACause, Went, StopPlaces
<1> QED
  BY <1>2, <1>3, <1>4, <1>5, <1>6, <1>7, <1>8, <1>9 DEF LifeRest

LEMMA StopQueueKeeps ==
  ASSUME LifeInv, NEW t \in Runners, StopQueue(t)
  PROVE  LifeRest'
<1>1. /\ LifecycleTypeOK /\ OwnPlaces /\ Order /\ Closing /\ QueueEnds /\ Joining /\ Smooth
      /\ CrashHasACause
  BY DEF LifeInv
<1>c. Call(t) \in Calls /\ place[t] = "queue" /\ stop(Call(t)) /\ IInv
  BY <1>1, StopQueueDoes, CallsAre DEF LifecycleTypeOK, LifeInv
<1>d. UNCHANGED <<place, b_started, _bRunning, about, acceptor, accept, stopped, failed, crashed>>
  BY <1>1, StopQueueDoes
<1>2. LifecycleTypeOK'
  BY <1>1, StopQueueDoes, Names, LifeServer DEF LifecycleTypeOK, AllPlaces
<1>3. OwnPlaces'
  BY <1>1, StopQueueDoes, Names DEF OwnPlaces, MainPlaces, ServerPlaces, StopPlaces, Went,
     LifecycleTypeOK
<1>4. Order'
  BY <1>1, StopQueueDoes, Names DEF Order, Went, LifecycleTypeOK
<1>5. Closing'
  BY <1>1, StopQueueDoes, Names, LifeServer DEF Closing, Order, Uncertified, Went, LifecycleTypeOK
<1>6. QueueEnds'
  <2>1. Uncertified' <=> Uncertified
    BY <1>d DEF Uncertified
  <2>2. Uncertified \/ \E s \in Servers : acceptor[s] = "closed"
    BY <1>1, <1>c, Names DEF Closing, LifecycleTypeOK
  <2>3. \A c \in Calls : pc'[c] \in {"late", "wake", "join", "stopped"} => ~m_running'
    BY <1>1, <1>c, CallMoves DEF QueueEnds
  <2>4. ~m_running => ~m_running'
    BY <1>c, CallMoves
  <2> QED
    BY <1>1, <1>d, <2>1, <2>2, <2>3, <2>4 DEF QueueEnds
<1>7. Joining'
  <2> SUFFICES ASSUME NEW c \in Calls, pc'[c] \in {"reset", "wake", "join"}
               PROVE  \E u \in Runners : place'[u] = "queue" /\ Call(u)' = c
    BY DEF Joining
  <2>1. \A u \in Runners : Call(u)' = Call(u) /\ place'[u] = place[u]
    BY <1>d DEF Call
  <2>2. CASE c = Call(t)
    BY <1>c, <2>1, <2>2
  <2>3. CASE c # Call(t)
    <3>1. pc'[c] = pc[c]
      BY <1>c, <2>3, CallMoves
    <3> QED
      BY <1>1, <2>1, <3>1 DEF Joining
  <2> QED
    BY <2>2, <2>3
<1>8. Smooth'
  BY <1>1, StopQueueDoes, Names, LifeServer DEF Smooth, Ahead, Serves, Ended, Order, Closing,
     Uncertified, OwnPlaces, MainPlaces, Went, StopPlaces, LifecycleTypeOK
<1>9. CrashHasACause'
  BY <1>1, StopQueueDoes, Names DEF CrashHasACause, Went, StopPlaces
<1> QED
  BY <1>2, <1>3, <1>4, <1>5, <1>6, <1>7, <1>8, <1>9 DEF LifeRest

LEMMA StoppedKeeps ==
  ASSUME LifeInv, NEW t \in Runners, Stopped(t)
  PROVE  LifeRest'
<1>1. /\ LifecycleTypeOK /\ OwnPlaces /\ Order /\ Closing /\ QueueEnds /\ Joining /\ Smooth
      /\ CrashHasACause
  BY DEF LifeInv
<1>2. LifecycleTypeOK'
  BY <1>1, StoppedDoes, Names, LifeServer DEF LifecycleTypeOK, AllPlaces
<1>3. OwnPlaces'
  BY <1>1, StoppedDoes, Names DEF OwnPlaces, MainPlaces, ServerPlaces, StopPlaces, Went,
     LifecycleTypeOK
<1>4. Order'
  BY <1>1, StoppedDoes, Names DEF Order, Went, LifecycleTypeOK
<1>5. Closing'
  BY <1>1, StoppedDoes, Names, LifeServer DEF Closing, Order, Uncertified, Went, LifecycleTypeOK
<1>6. QueueEnds'
  <2>1. ~m_running
    BY <1>1, StoppedDoes, CallsAre DEF QueueEnds, LifecycleTypeOK
  <2>2. QueueSame /\ UNCHANGED <<acceptor, failed>> /\ place[t] = "queue"
    BY <1>1, StoppedDoes
  <2>3. Uncertified => Uncertified'
    BY <1>1, StoppedDoes, Names DEF Uncertified, Went
  <2>4. \A s \in Servers : place'[s] = place[s] \/ (s = t /\ place'[s] = "done")
    BY <1>1, StoppedDoes, Names DEF Went
  <2>5. \A s \in failed : \/ place'[s] \in StopPlaces \cup {"done"}
                          \/ place'[s] = "none" /\ Uncertified'
    <3>1. \A s \in failed : \/ place[s] \in StopPlaces \cup {"done"}
                            \/ place[s] = "none" /\ Uncertified
      BY <1>1 DEF QueueEnds
    <3>2. \A s \in failed : s \in Servers
      BY <1>1 DEF LifecycleTypeOK
    <3> QED
      BY <2>3, <2>4, <3>1, <3>2
  <2> QED
    BY <1>1, <2>1, <2>2, <2>3, <2>5 DEF QueueEnds, QueueSame
<1>7. Joining'
  BY <1>1, StoppedDoes, Names DEF Joining, Call, Went, QueueSame, LifecycleTypeOK
<1>8. Smooth'
  BY <1>1, StoppedDoes, Names, LifeServer DEF Smooth, Ahead, Serves, Ended, Order, Closing,
     Uncertified, OwnPlaces, MainPlaces, Went, StopPlaces, LifecycleTypeOK
<1>9. CrashHasACause'
  BY <1>1, StoppedDoes, Names DEF CrashHasACause, Went, StopPlaces
<1> QED
  BY <1>2, <1>3, <1>4, <1>5, <1>6, <1>7, <1>8, <1>9 DEF LifeRest

LEMMA JoinTwiceKeeps ==
  ASSUME LifeInv, NEW t \in Runners, JoinTwice(t)
  PROVE  LifeRest'
<1>1. LifecycleTypeOK /\ Joining
  BY DEF LifeInv
<1>2. place[t] = "queue" /\ Throwing /\ place' = place
  BY <1>1, JoinTwiceDoes DEF Throwing
<1>3. CASE t \in Servers
  BY <1>2, <1>3, ThrowKeeps DEF CrashHasACause, StopPlaces
<1>4. CASE t = Main
  <2>1. PICK c \in Calls \ {Call(t)} : pc[c] = "join"
    BY <1>1, JoinTwiceDoes
  <2>2. PICK u \in Runners : place[u] = "queue" /\ Call(u) = c
    BY <1>1, <2>1 DEF Joining
  <2>3. u \in Servers
    BY <1>4, <2>1, <2>2, Names
  <2> QED
    BY <1>2, <2>2, <2>3, ThrowKeeps DEF CrashHasACause, StopPlaces
<1> QED
  BY <1>3, <1>4, Names

LEMMA RunKeeps ==
  ASSUME LifeInv, NEW s \in Servers, Run(s)
  PROVE  LifeRest'
<1>1. /\ LifecycleTypeOK /\ OwnPlaces /\ Order /\ Closing /\ QueueEnds /\ Joining /\ Smooth
      /\ CrashHasACause
  BY DEF LifeInv
<1>2. CASE Throwing
  <2>1. place[s] = "run" /\ place' = place
    BY <1>1, <1>2, RunDoes DEF Throwing
  <2> QED
    BY <1>2, <2>1, ThrowKeeps DEF CrashHasACause
<1>3. CASE ~Throwing
  <2>f. /\ ~crashed /\ place[s] = "run" /\ place[Main] # "exited" /\ QueueSame
        /\ Went(s, "listen") /\ place' \in [Runners -> AllPlaces]
        /\ UNCHANGED <<b_started, _bRunning, about, acceptor, accept, stopped, failed, crashed>>
    BY <1>1, <1>3, RunDoes
  <2>2. LifecycleTypeOK'
    BY <1>1, <2>f, Names, LifeServer DEF LifecycleTypeOK, AllPlaces
  <2>3. OwnPlaces'
    BY <1>1, <2>f, Names DEF OwnPlaces, MainPlaces, ServerPlaces, StopPlaces, Went, LifecycleTypeOK
  <2>4. Order'
    BY <1>1, <2>f, Names DEF Order, Went, LifecycleTypeOK
  <2>5. Closing'
    BY <1>1, <2>f, Names, LifeServer DEF Closing, Order, Uncertified, Went, LifecycleTypeOK
  <2>6. QueueEnds'
    BY <1>1, <2>f, Names, LifeServer DEF QueueEnds, Uncertified, Order, Went, QueueSame,
       StopPlaces, LifecycleTypeOK
  <2>7. Joining'
    BY <1>1, <2>f, Names DEF Joining, Call, Went, QueueSame, LifecycleTypeOK
  <2>8. Smooth'
    BY <1>1, <2>f, Names, LifeServer DEF Smooth, Ahead, Serves, Ended, Order, Closing,
       Uncertified, OwnPlaces, MainPlaces, Went, StopPlaces, LifecycleTypeOK
  <2>9. CrashHasACause'
    BY <1>1, <2>f, Names DEF CrashHasACause, Went, StopPlaces
  <2> QED
    BY <2>2, <2>3, <2>4, <2>5, <2>6, <2>7, <2>8, <2>9 DEF LifeRest
<1> QED
  BY <1>2, <1>3

LEMMA ListenKeeps ==
  ASSUME LifeInv, NEW s \in Servers, Listen(s)
  PROVE  LifeRest'
<1>1. /\ LifecycleTypeOK /\ OwnPlaces /\ Order /\ Closing /\ QueueEnds /\ Joining /\ Smooth
      /\ CrashHasACause
  BY DEF LifeInv
<1>2. LifecycleTypeOK'
  BY <1>1, ListenDoes, Names, LifeServer DEF LifecycleTypeOK, AllPlaces
<1>3. OwnPlaces'
  BY <1>1, ListenDoes, Names DEF OwnPlaces, MainPlaces, ServerPlaces, StopPlaces, Went,
     LifecycleTypeOK
<1>4. Order'
  BY <1>1, ListenDoes, Names DEF Order, Went, LifecycleTypeOK
<1>5. Closing'
  BY <1>1, ListenDoes, Names, LifeServer DEF Closing, Order, Uncertified, Went, LifecycleTypeOK
<1>6. QueueEnds'
  BY <1>1, ListenDoes, Names, LifeServer DEF QueueEnds, Uncertified, Order, Went, QueueSame,
     StopPlaces, LifecycleTypeOK
<1>7. Joining'
  BY <1>1, ListenDoes, Names DEF Joining, Call, Went, QueueSame, LifecycleTypeOK
<1>8. Smooth'
  BY <1>1, ListenDoes, Names, LifeServer DEF Smooth, Ahead, Serves, Ended, Order, Closing,
     Uncertified, OwnPlaces, MainPlaces, Went, StopPlaces, LifecycleTypeOK
<1>9. CrashHasACause'
  BY <1>1, ListenDoes, Names DEF CrashHasACause, Went, StopPlaces
<1> QED
  BY <1>2, <1>3, <1>4, <1>5, <1>6, <1>7, <1>8, <1>9 DEF LifeRest

LEMMA BeginHandlerKeeps ==
  ASSUME LifeInv, NEW s \in Servers, BeginHandler(s)
  PROVE  LifeRest'
<1>1. /\ LifecycleTypeOK /\ OwnPlaces /\ Order /\ Closing /\ QueueEnds /\ Joining /\ Smooth
      /\ CrashHasACause
  BY DEF LifeInv
<1>2. LifecycleTypeOK'
  BY <1>1, BeginHandlerDoes, Names, LifeServer DEF LifecycleTypeOK, AllPlaces, HandlerKeeps
<1>3. OwnPlaces'
  BY <1>1, BeginHandlerDoes, Names DEF OwnPlaces, MainPlaces, ServerPlaces, StopPlaces, Went,
     LifecycleTypeOK
<1>4. Order'
  BY <1>1, BeginHandlerDoes, Names DEF Order, Went, HandlerKeeps, LifecycleTypeOK
<1>5. Closing'
  BY <1>1, BeginHandlerDoes, Names, LifeServer DEF Closing, Order, Uncertified, Went,
     HandlerKeeps, LifecycleTypeOK
<1>6. QueueEnds'
  BY <1>1, BeginHandlerDoes, Names, LifeServer DEF QueueEnds, Uncertified, Order, Went,
     HandlerKeeps, QueueSame, StopPlaces, LifecycleTypeOK
<1>7. Joining'
  BY <1>1, BeginHandlerDoes, Names DEF Joining, Call, Went, HandlerKeeps, QueueSame, LifecycleTypeOK
<1>8. Smooth'
  BY <1>1, BeginHandlerDoes, Names, LifeServer DEF Smooth, Ahead, Serves, Ended, Order, Closing,
     Uncertified, OwnPlaces, MainPlaces, Went, HandlerKeeps, StopPlaces, LifecycleTypeOK
<1>9. CrashHasACause'
  BY <1>1, BeginHandlerDoes, Names DEF CrashHasACause, Went, HandlerKeeps, StopPlaces
<1> QED
  BY <1>2, <1>3, <1>4, <1>5, <1>6, <1>7, <1>8, <1>9 DEF LifeRest

LEMMA EndHandlerKeeps ==
  ASSUME LifeInv, NEW s \in Servers, EndHandler(s)
  PROVE  LifeRest'
<1>1. /\ LifecycleTypeOK /\ OwnPlaces /\ Order /\ Closing /\ QueueEnds /\ Joining /\ Smooth
      /\ CrashHasACause
  BY DEF LifeInv
<1>2. LifecycleTypeOK'
  BY <1>1, EndHandlerDoes, Names, LifeServer DEF LifecycleTypeOK, AllPlaces, HandlerKeeps
<1>3. OwnPlaces'
  BY <1>1, EndHandlerDoes, Names DEF OwnPlaces, MainPlaces, ServerPlaces, StopPlaces, Went,
     LifecycleTypeOK
<1>4. Order'
  BY <1>1, EndHandlerDoes, Names DEF Order, Went, HandlerKeeps, LifecycleTypeOK
<1>5. Closing'
  BY <1>1, EndHandlerDoes, Names, LifeServer DEF Closing, Order, Uncertified, Went, HandlerKeeps,
     LifecycleTypeOK
<1>6. QueueEnds'
  BY <1>1, EndHandlerDoes, Names, LifeServer DEF QueueEnds, Uncertified, Order, Went,
     HandlerKeeps, QueueSame, StopPlaces, LifecycleTypeOK
<1>7. Joining'
  BY <1>1, EndHandlerDoes, Names DEF Joining, Call, Went, HandlerKeeps, QueueSame, LifecycleTypeOK
<1>8. Smooth'
  BY <1>1, EndHandlerDoes, Names, LifeServer DEF Smooth, Ahead, Serves, Ended, Order, Closing,
     Uncertified, OwnPlaces, MainPlaces, Went, HandlerKeeps, StopPlaces, LifecycleTypeOK
<1>9. CrashHasACause'
  BY <1>1, EndHandlerDoes, Names DEF CrashHasACause, Went, HandlerKeeps, StopPlaces
<1> QED
  BY <1>2, <1>3, <1>4, <1>5, <1>6, <1>7, <1>8, <1>9 DEF LifeRest

LEMMA AcceptErrorKeeps ==
  ASSUME LifeInv, NEW s \in Servers, AcceptError(s)
  PROVE  LifeRest'
<1>1. /\ LifecycleTypeOK /\ OwnPlaces /\ Order /\ Closing /\ QueueEnds /\ Joining /\ Smooth
      /\ CrashHasACause
  BY DEF LifeInv
<1>2. LifecycleTypeOK'
  BY <1>1, AcceptErrorDoes, Names, LifeServer DEF LifecycleTypeOK, AllPlaces
<1>3. OwnPlaces'
  BY <1>1, AcceptErrorDoes, Names DEF OwnPlaces, MainPlaces, ServerPlaces, StopPlaces, Went,
     LifecycleTypeOK
<1>4. Order'
  BY <1>1, AcceptErrorDoes, Names DEF Order, Went, LifecycleTypeOK
<1>5. Closing'
  BY <1>1, AcceptErrorDoes, Names, LifeServer DEF Closing, Order, Uncertified, Went, LifecycleTypeOK
<1>6. QueueEnds'
  BY <1>1, AcceptErrorDoes, Names, LifeServer DEF QueueEnds, Uncertified, Order, Went, QueueSame,
     StopPlaces, LifecycleTypeOK
<1>7. Joining'
  BY <1>1, AcceptErrorDoes, Names DEF Joining, Call, Went, QueueSame, LifecycleTypeOK
<1>8. Smooth'
  BY <1>1, AcceptErrorDoes, Names, LifeServer DEF Smooth, Ahead, Serves, Ended, Order, Closing,
     Uncertified, OwnPlaces, MainPlaces, Went, StopPlaces, LifecycleTypeOK
<1>9. CrashHasACause'
  BY <1>1, AcceptErrorDoes, Names DEF CrashHasACause, Went, StopPlaces
<1> QED
  BY <1>2, <1>3, <1>4, <1>5, <1>6, <1>7, <1>8, <1>9 DEF LifeRest

LEMMA RunReturnsKeeps ==
  ASSUME LifeInv, NEW s \in Servers, RunReturns(s)
  PROVE  LifeRest'
<1>1. /\ LifecycleTypeOK /\ OwnPlaces /\ Order /\ Closing /\ QueueEnds /\ Joining /\ Smooth
      /\ CrashHasACause
  BY DEF LifeInv
<1>2. LifecycleTypeOK'
  BY <1>1, RunReturnsDoes, Names, LifeServer DEF LifecycleTypeOK, AllPlaces, HandlerKeeps
<1>3. OwnPlaces'
  BY <1>1, RunReturnsDoes, Names DEF OwnPlaces, MainPlaces, ServerPlaces, StopPlaces, Went,
     LifecycleTypeOK
<1>4. Order'
  BY <1>1, RunReturnsDoes, Names DEF Order, Went, HandlerKeeps, LifecycleTypeOK
<1>5. Closing'
  BY <1>1, RunReturnsDoes, Names, LifeServer DEF Closing, Order, Uncertified, Went, HandlerKeeps,
     LifecycleTypeOK
<1>6. QueueEnds'
  BY <1>1, RunReturnsDoes, Names, LifeServer DEF QueueEnds, Uncertified, Order, Went,
     HandlerKeeps, QueueSame, StopPlaces, LifecycleTypeOK
<1>7. Joining'
  BY <1>1, RunReturnsDoes, Names DEF Joining, Call, Went, HandlerKeeps, QueueSame, LifecycleTypeOK
<1>8. Smooth'
  BY <1>1, RunReturnsDoes, Names, LifeServer DEF Smooth, Ahead, Serves, Ended, Order, Closing,
     Uncertified, OwnPlaces, MainPlaces, Went, HandlerKeeps, StopPlaces, LifecycleTypeOK
<1>9. CrashHasACause'
  BY <1>1, RunReturnsDoes, Names DEF CrashHasACause, Went, HandlerKeeps, StopPlaces
<1> QED
  BY <1>2, <1>3, <1>4, <1>5, <1>6, <1>7, <1>8, <1>9 DEF LifeRest

LEMMA QueueStepsKeep ==
  ASSUME LifeInv, (\E s \in Servers : InHandler(s)) \/ Work \/ Wakeup \/ TaskAdds
  PROVE  LifeRest'
<1>1. /\ LifecycleTypeOK /\ OwnPlaces /\ Order /\ Closing /\ QueueEnds /\ Joining /\ Smooth
      /\ CrashHasACause /\ IInv
  BY DEF LifeInv
<1>2. UNCHANGED <<place, b_started, _bRunning, about, acceptor, accept, stopped, failed, crashed>>
  BY <1>1, QueueStepsDo
<1>3. m_running' = m_running /\ \A c \in Calls : pc'[c] = pc[c]
  BY <1>1, QueueStepsKeepCalls
<1>4. LifecycleTypeOK' /\ OwnPlaces' /\ Order' /\ Closing'
  BY <1>1, <1>2 DEF LifecycleTypeOK, OwnPlaces, Order, Closing, Uncertified
<1>5. QueueEnds' /\ Joining'
  BY <1>1, <1>2, <1>3 DEF QueueEnds, Uncertified, Joining, Call
<1>6. Smooth' /\ CrashHasACause'
  BY <1>1, <1>2 DEF Smooth, Ahead, Serves, Ended, CrashHasACause
<1> QED
  BY <1>4, <1>5, <1>6 DEF LifeRest

LEMMA LifeStays ==
  ASSUME LifeInv, QueueSame,
         UNCHANGED <<place, b_started, _bRunning, about, acceptor, accept, stopped, failed, crashed>>
  PROVE  LifeRest'
<1>1. /\ LifecycleTypeOK /\ OwnPlaces /\ Order /\ Closing /\ QueueEnds /\ Joining /\ Smooth
      /\ CrashHasACause
  BY DEF LifeInv
<1>2. LifecycleTypeOK' /\ OwnPlaces' /\ Order' /\ Closing'
  BY <1>1 DEF LifecycleTypeOK, OwnPlaces, Order, Closing, Uncertified
<1>3. QueueEnds' /\ Joining'
  BY <1>1 DEF QueueEnds, Uncertified, Joining, Call, QueueSame
<1>4. Smooth' /\ CrashHasACause'
  BY <1>1 DEF Smooth, Ahead, Serves, Ended, CrashHasACause
<1> QED
  BY <1>2, <1>3, <1>4 DEF LifeRest

-----------------------------------------------------------------------------
LEMMA LifeInit == LifecycleInit => LifeInv
<1> SUFFICES ASSUME LifecycleInit
             PROVE  LifeInv
  OBVIOUS
<1>1. IInv
  BY InitInv DEF LifecycleInit
<1>2. /\ m_running = TRUE /\ b_started = FALSE /\ _bRunning = [s \in Servers |-> FALSE]
      /\ place = [t \in Runners |-> IF t = Main THEN "ssl" ELSE "none"] /\ about = Ws
      /\ acceptor = [s \in Servers |-> "open"] /\ accept = [s \in Servers |-> "none"]
      /\ stopped = [s \in Servers |-> FALSE] /\ failed = {} /\ crashed = FALSE
  BY DEF LifecycleInit, Init
<1>3. \A c \in Calls : pc[c] = "idle"
  BY LifecycleAssumption, ThreadSets, ThreadsDistinct DEF LifecycleInit, Init
<1>4. place[Main] = "ssl" /\ \A s \in Servers : place[s] = "none"
  BY <1>2, Names
<1>5. LifecycleTypeOK
  BY <1>2, Names DEF LifecycleTypeOK
<1>6. OwnPlaces /\ Order /\ Closing
  BY <1>2, <1>4, Names DEF OwnPlaces, MainPlaces, ServerPlaces, Order, Closing
<1>7. QueueEnds /\ Joining
  BY <1>2, <1>3, <1>4 DEF QueueEnds, Joining
<1>8. Smooth /\ CrashHasACause
  BY <1>2, <1>4, Names DEF Smooth, Serves, StopPlaces, CrashHasACause
<1> QED
  BY <1>1, <1>5, <1>6, <1>7, <1>8 DEF LifeInv

LEMMA LifeStep == LifeInv /\ [LifecycleNext]_lvars => LifeInv'
<1> SUFFICES ASSUME LifeInv, [LifecycleNext]_lvars
             PROVE  LifeInv'
  OBVIOUS
<1>1. IInv'
  BY QueueInvStep DEF LifeInv
<1>2. LifeRest'
  BY LifeSteps, LifeStays, SslKeeps, StartKeeps, StartedKeeps, QuitKeeps, StopAllKeeps,
     StopServerKeeps, CancelKeeps, ContextKeeps, CloseKeeps, FlagKeeps, StopQueueKeeps,
     StoppedKeeps, JoinTwiceKeeps, RunKeeps, ListenKeeps, BeginHandlerKeeps, EndHandlerKeeps,
     AcceptErrorKeeps, RunReturnsKeeps, QueueStepsKeep
<1> QED
  BY <1>1, <1>2 DEF LifeInv, LifeRest

(* The steps of the specification, without its fairness.                   *)
LEMMA LifeSpecSteps == LifecycleSpec => LifecycleInit /\ [][LifecycleNext]_lvars
BY PTL DEF LifecycleSpec

LEMMA LifeInvariance == LifecycleSpec => []LifeInv
BY LifeInit, LifeStep, LifeSpecSteps, PTL

(* The main thread, the servers, their acceptors and accepts keep their    *)
(* shape; no accept is pending on a closed acceptor.                       *)
THEOREM LifecycleTypeCorrect == LifecycleSpec => []LifecycleTypeOK
<1>1. LifeInv => LifecycleTypeOK
  BY DEF LifeInv
<1> QED
  BY <1>1, LifeInvariance, PTL

(* If no server has failed when main returns, both have been closed and    *)
(* stopped: until the main thread comes for a server it serves, and so     *)
(* nobody has reset b_started.                                             *)
THEOREM StopEndsServersCorrect == LifecycleSpec => []StopEndsServers
<1>1. LifeInv => StopEndsServers
  BY Names DEF LifeInv, Smooth, Ended, StopEndsServers
<1> QED
  BY <1>1, LifeInvariance, PTL

(* The queue stops only after an acceptor has been closed, or where there  *)
(* were no certificates, and has stopped once a failed server is done.     *)
THEOREM QueueFollowsServersCorrect == LifecycleSpec => []QueueFollowsServers
<1>1. LifeInv => QueueFollowsServers
  BY DEF LifeInv, QueueEnds, Uncertified, QueueFollowsServers
<1> QED
  BY <1>1, LifeInvariance, PTL

(* cancel() of a closed acceptor, join() by two threads and set_option()   *)
(* of a closed acceptor end the process only if a server failed, stops at  *)
(* the same time, or has not begun to listen.                              *)
THEOREM CrashHasACauseCorrect == LifecycleSpec => []CrashHasACause
<1>1. LifeInv => CrashHasACause
  BY DEF LifeInv
<1> QED
  BY <1>1, LifeInvariance, PTL

(* The program uses the task queue as TaskQueue says: two servers that     *)
(* add, and a stop() each by themselves and by the main thread.  What is   *)
(* proved of the queue holds in the program.                               *)
LEMMA LifecycleUsesQueue == LifecycleSpec => Spec
<1>1. LifecycleInit => Init
  BY DEF LifecycleInit
<1>2. LifeInv /\ [LifecycleNext]_lvars => [Next]_vars
  BY QueueStep DEF LifeInv
<1> QED
  BY <1>1, <1>2, LifeInvariance, LifeSpecSteps, PTL DEF Spec

(* In the whole program no task is lost, performed twice or out of order,  *)
(* none is performed once a stop has joined the worker, and the            *)
(* subscription manager gets the queue it takes for granted.               *)
THEOREM QueueHoldsInProgram ==
  LifecycleSpec => [](TasksInOrder /\ DequeueFindsTask /\ LockHeld) /\ NoTaskAfterStop /\ ImplementsFifo
BY LifecycleUsesQueue, OrderCorrect, DequeueCorrect, LockCorrect, NoTaskAfterStopCorrect,
   RefinesFifo, PTL
=============================================================================
