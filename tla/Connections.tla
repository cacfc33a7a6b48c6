----------------------------- MODULE Connections ----------------------------
(***************************************************************************)
(* The life of connections in tcpserver and wsserver: acceptance, the      *)
(* chain of handshakes and reads, closing by any thread, and m_cnxs, which *)
(* finds a connection by the port of its peer.  Both servers use SSL, as   *)
(* main sets it up.  What the frames say is left to Broker, their bytes to *)
(* TcpFraming.                                                             *)
(*                                                                         *)
(* A connection object is kept by m_cnxs, by its asynchronous operations   *)
(* and by a thread that is in one of its procedures: one that is kept by   *)
(* none is destroyed, and with it its socket.                              *)
(***************************************************************************)
EXTENDS Naturals, FiniteSets

CONSTANTS
  Cnxs,      \* connections that peers open, each once
  WsCnxs,    \* those to the WebSocket server
  Ports,     \* ports of peers
  PortOf,    \* connection to the port of its peer
  Others     \* threads besides the two io threads that write to connections

Tcp == "tcp"
Ws == "ws"
Servers == {Tcp, Ws}
None == "none"

ASSUME ConnectionsAssumption ==
  /\ WsCnxs \subseteq Cnxs /\ PortOf \in [Cnxs -> Ports]
  /\ None \notin Cnxs /\ Others \cap Servers = {}

ServerOf(c) == IF c \in WsCnxs THEN Ws ELSE Tcp
Threads == Servers \cup Others     \* a server's io thread has its name
Ops == {"tls", "accept", "read"}

VARIABLES
  m_cnxs,    \* server and port to connection, or None
  sock,      \* connection to "none", "raw" until it can be written to, "open", "closed"
  peer,      \* connection to whether its peer is there
  pending,   \* connection and operation to how many of them are under way
  th,        \* thread to its place, the connection it is about, the one whose data it handles
  ended,     \* server and port to the calls of on_connection_end
  crashed    \* an exception has ended the process

vars == <<m_cnxs, sock, peer, pending, th, ended, crashed>>

Idle == [at |-> "idle", cnx |-> None, reader |-> None]
Entry(c) == m_cnxs[ServerOf(c)][PortOf[c]]
Registered(c) == Entry(c) = c
At(t, place) == ~crashed /\ th[t].at = place

Begin(c, op) == pending' = [pending EXCEPT ![c][op] = @ + 1]
Follow(c, op, next) == pending' = [pending EXCEPT ![c] =
  [o \in Ops |-> @[o] + (IF o \in next THEN 1 ELSE 0) - (IF o = op THEN 1 ELSE 0)]]

-----------------------------------------------------------------------------
(* Peers: one that has gone makes the operations on its connection fail.   *)
PeerLeaves(c) ==
  /\ sock[c] # "none" /\ peer[c]
  /\ peer' = [peer EXCEPT ![c] = FALSE]
  /\ UNCHANGED <<m_cnxs, sock, pending, th, ended, crashed>>

(* wait_for_connections: regiter_tcpcnx or regiter_wscnx, then             *)
(* on_new_connection, with m_lockcnx free in between.  insert() leaves the *)
(* connection that has the port in its place.                              *)
Insert(c) == [m_cnxs EXCEPT ![ServerOf(c)][PortOf[c]] = IF @ = None THEN c ELSE @]

Accept(c) ==
  /\ At(ServerOf(c), "idle") /\ sock[c] = "none"
  /\ m_cnxs' = Insert(c)
  /\ sock' = [sock EXCEPT ![c] = IF c \in WsCnxs THEN "raw" ELSE "open"]
  /\ th' = [th EXCEPT ![ServerOf(c)] = [at |-> "run", cnx |-> c, reader |-> None]]
  /\ UNCHANGED <<peer, pending, ended, crashed>>

(* fetch_cnx and run(): the connection found is the one that has the port. *)
RunAccepted(t) ==
  LET x == Entry(th[t].cnx)
  IN
  /\ At(t, "run")
  /\ IF x = None THEN UNCHANGED pending ELSE Begin(x, "tls")
  /\ th' = [th EXCEPT ![t] = Idle]
  /\ UNCHANGED <<m_cnxs, sock, peer, ended, crashed>>

-----------------------------------------------------------------------------
(* Completions, on the io thread of the connection's server.               *)
Completes(c, op) == At(ServerOf(c), "idle") /\ pending[c][op] > 0

Open(c) == IF sock[c] = "open" THEN {"read"} ELSE {}    \* read() returns if it is closed

handshake_ssl(c) ==
  /\ Completes(c, "tls") /\ peer[c] /\ sock[c] # "closed"
  /\ Follow(c, "tls", IF c \in WsCnxs THEN {"accept"} ELSE Open(c))
  /\ UNCHANGED <<m_cnxs, sock, peer, th, ended, crashed>>

accept_ssl(c) ==
  /\ Completes(c, "accept") /\ peer[c] /\ sock[c] # "closed"
  /\ sock' = [sock EXCEPT ![c] = "open"]
  /\ Follow(c, "accept", {"read"})
  /\ UNCHANGED <<m_cnxs, peer, th, ended, crashed>>

ReadData(c) ==
  /\ Completes(c, "read") /\ peer[c] /\ sock[c] = "open"
  /\ Follow(c, "read", {})
  /\ th' = [th EXCEPT ![ServerOf(c)] = [at |-> "handler", cnx |-> None, reader |-> c]]
  /\ UNCHANGED <<m_cnxs, sock, peer, ended, crashed>>

NoRearm(c) == {}             \* slip: the read that follows the data is missing
Rearm(c) == Open(c)

ReadOn(t) ==                 \* on_data_rx returns, read()
  LET c == th[t].reader
  IN
  /\ At(t, "handler")
  /\ Follow(c, None, Rearm(c))
  /\ th' = [th EXCEPT ![t] = Idle]
  /\ UNCHANGED <<m_cnxs, sock, peer, ended, crashed>>

(* An operation fails: a handshake for any reason, a read when the peer is *)
(* gone or another thread has closed the socket.  After an error a         *)
(* WebSocket stream is not open.                                           *)
Fails(c, op) ==
  /\ Completes(c, op)
  /\ op = "read" => ~peer[c] \/ sock[c] # "open"
  /\ Follow(c, op, {})
  /\ sock' = IF c \in WsCnxs THEN [sock EXCEPT ![c] = "closed"] ELSE sock
  /\ th' = [th EXCEPT ![ServerOf(c)] = [at |-> "close", cnx |-> c, reader |-> None]]
  /\ UNCHANGED <<m_cnxs, peer, ended, crashed>>

-----------------------------------------------------------------------------
(* write() of a server, by any thread, that ends in close(): the frame     *)
(* asks for it, or cannot be written.  m_mtx_write is held until then.  A  *)
(* write that does not close changes nothing here.                         *)
m_mtx_write(c) ==            \* held in the close that a write does
  \E t \in Threads : /\ th[t].cnx = c /\ th[t].at \in {"close", "unregister"}
                     /\ th[t].reader # None \/ t \in Others

WriteCloses(t, c) ==
  /\ \/ At(t, "handler") \/ (t \in Others /\ At(t, "idle"))
  /\ Registered(c) /\ sock[c] = "open" /\ ~m_mtx_write(c)
  /\ \E failed \in BOOLEAN :
       /\ failed => ~peer[c]
       /\ sock' = IF failed /\ c \in WsCnxs THEN [sock EXCEPT ![c] = "closed"] ELSE sock
  /\ th' = [th EXCEPT ![t].at = "close", ![t].cnx = c]
  /\ UNCHANGED <<m_cnxs, peer, pending, ended, crashed>>

(* close(): a socket closes at once.  The close of Beast sends a frame and *)
(* waits for the peer's, as long as it takes; it throws if the peer is     *)
(* gone, and nobody catches that.                                          *)
Closing(t) == th[t].cnx \in WsCnxs /\ sock[th[t].cnx] = "open"

Shut(t) ==
  /\ At(t, "close") /\ (Closing(t) => peer[th[t].cnx])
  /\ sock' = [sock EXCEPT ![th[t].cnx] = "closed"]
  /\ th' = [th EXCEPT ![t].at = "unregister"]
  /\ UNCHANGED <<m_cnxs, peer, pending, ended, crashed>>

CloseThrows(t) ==
  /\ At(t, "close") /\ Closing(t) /\ ~peer[th[t].cnx]
  /\ crashed' = TRUE
  /\ UNCHANGED <<m_cnxs, sock, peer, pending, th, ended>>

(* cnx_closed: what is erased is whatever has the port.                    *)
ReturnToHandler(t) ==        \* slip: the return after close() is missing
  [th EXCEPT ![t] = [@ EXCEPT !.at = "handler", !.cnx = None]]
Return(t) == [th EXCEPT ![t] = IF @.reader = None THEN Idle
                               ELSE [@ EXCEPT !.at = "handler", !.cnx = None]]

EndsAlways(c) == ended' = [ended EXCEPT ![ServerOf(c)][PortOf[c]] = @ + 1]   \* slip: no test
Ends(c) == IF Entry(c) = None THEN UNCHANGED ended
           ELSE ended' = [ended EXCEPT ![ServerOf(c)][PortOf[c]] = @ + 1]

Unregister(t) ==
  LET c == th[t].cnx
  IN
  /\ At(t, "unregister")
  /\ m_cnxs' = [m_cnxs EXCEPT ![ServerOf(c)][PortOf[c]] = None]
  /\ Ends(c)
  /\ th' = Return(t)
  /\ UNCHANGED <<sock, peer, pending, crashed>>

-----------------------------------------------------------------------------
ConnectionsInit ==
  /\ m_cnxs = [s \in Servers |-> [p \in Ports |-> None]]
  /\ sock = [c \in Cnxs |-> "none"] /\ peer = [c \in Cnxs |-> TRUE]
  /\ pending = [c \in Cnxs |-> [op \in Ops |-> 0]]
  /\ th = [t \in Threads |-> Idle]
  /\ ended = [s \in Servers |-> [p \in Ports |-> 0]]
  /\ crashed = FALSE

GoOn(t) == RunAccepted(t) \/ ReadOn(t) \/ CloseThrows(t) \/ Unregister(t)
           \/ (~Closing(t) /\ Shut(t))
Lost(c) == \E op \in Ops : ~peer[c] /\ Fails(c, op)

ConnectionsNext ==
  \/ \E c \in Cnxs : PeerLeaves(c) \/ Accept(c) \/ handshake_ssl(c) \/ accept_ssl(c) \/ ReadData(c)
  \/ \E c \in Cnxs, op \in Ops : Fails(c, op)
  \/ \E t \in Threads : \/ RunAccepted(t) \/ ReadOn(t)
                        \/ Shut(t) \/ CloseThrows(t) \/ Unregister(t)
  \/ \E t \in Threads, c \in Cnxs : WriteCloses(t, c)

(* A thread goes on with what it does unless it waits for a peer, and an   *)
(* io thread serves the completions in their order, so that a failure is   *)
(* not passed over for ever.                                               *)
ConnectionsSpec ==
  /\ ConnectionsInit /\ [][ConnectionsNext]_vars
  /\ \A t \in Threads : WF_vars(GoOn(t))
  /\ \A c \in Cnxs : SF_vars(Lost(c))

-----------------------------------------------------------------------------
Places == {"idle", "run", "handler", "close", "unregister"}

ConnectionsTypeOK ==
  /\ m_cnxs \in [Servers -> [Ports -> Cnxs \cup {None}]]
  /\ \A s \in Servers, p \in Ports :
       m_cnxs[s][p] # None => ServerOf(m_cnxs[s][p]) = s /\ PortOf[m_cnxs[s][p]] = p
  /\ sock \in [Cnxs -> {"none", "raw", "open", "closed"}] /\ peer \in [Cnxs -> BOOLEAN]
  /\ pending \in [Cnxs -> [Ops -> Nat]]
  /\ th \in [Threads -> [at : Places, cnx : Cnxs \cup {None}, reader : Cnxs \cup {None}]]
  /\ \A t \in Threads : /\ th[t].at = "handler" => th[t].reader # None
                        /\ th[t].at \in {"run", "close", "unregister"} <=> th[t].cnx # None
  /\ ended \in [Servers -> [Ports -> Nat]] /\ crashed \in BOOLEAN

(* How many chains of operations and handlers serve a connection.          *)
Served(c) ==
  pending[c]["tls"] + pending[c]["accept"] + pending[c]["read"]
    + Cardinality({t \in Servers : th[t].reader = c \/ (th[t].at = "run" /\ th[t].cnx = c)})

Private(c) == \A d \in Cnxs \ {c} : ServerOf(d) # ServerOf(c) \/ PortOf[d] # PortOf[c]

(* A connection whose port no other one has is served by one read at a     *)
(* time, is found in m_cnxs for as long as its socket is open, and ends    *)
(* once, whichever threads close it, and however often.                    *)
PrivatePortsAreSafe ==
  \A c \in Cnxs : Private(c) =>
    /\ Served(c) <= 1
    /\ sock[c] \in {"raw", "open"} => Registered(c)
    /\ ended[ServerOf(c)][PortOf[c]] = IF sock[c] = "none" \/ Registered(c) THEN 0 ELSE 1

(* Whatever ports collide, no connection stays in m_cnxs with nobody to    *)
(* notice its end: it is served, or a thread is about to run or to erase   *)
(* what has its port.                                                      *)
NoSilentConnection ==
  \A c \in Cnxs : Registered(c) /\ ~crashed =>
    \/ Served(c) > 0
    \/ \E t \in Threads : /\ th[t].cnx # None /\ th[t].at # "handler"
                          /\ Entry(th[t].cnx) = c

(* A connection whose peer has gone leaves m_cnxs, unless the process ends *)
(* or a thread waits for ever for the answer of another peer.              *)
Stuck == \E t \in Threads : At(t, "close") /\ Closing(t)
LostPeersAreForgotten ==
  \/ <>[]Stuck
  \/ \A c \in Cnxs : (Registered(c) /\ ~peer[c]) ~> (~Registered(c) \/ crashed)
=============================================================================
