-------------------------- MODULE Connections_proofs -------------------------
(***************************************************************************)
(* The life of connections, for any connections, ports and threads.        *)
(*                                                                         *)
(* ThreadsOK says what a thread knows of the connections it is about,      *)
(* SocketsOK what a socket says of the entry in m_cnxs and of the threads  *)
(* that erase it.  With the types they are inductive; the two safety       *)
(* properties are then carried step by step, counting the chains of        *)
(* operations and handlers that serve a connection.                        *)
(***************************************************************************)
EXTENDS Connections, FiniteSetTheorems, TLAPS

-----------------------------------------------------------------------------
Busy(t, c) == th[t].reader = c \/ (th[t].at = "run" /\ th[t].cnx = c)
Erasing(t, c) == th[t].cnx = c /\ th[t].at \in {"close", "unregister"}

(* A thread t at v, when the sockets are x.                                *)
Knows(t, v, x) ==
  /\ v.at = "idle" => v = Idle
  /\ v.at = "run" => v.reader = None /\ t = ServerOf(v.cnx)
  /\ v.reader # None => t = ServerOf(v.reader) /\ x[v.reader] \in {"open", "closed"}
  /\ v.cnx # None => x[v.cnx] # "none"
  /\ v.at = "unregister" => x[v.cnx] = "closed"

ThreadsOK == \A t \in Threads : Knows(t, th[t], sock)

(* What a closed socket that m_cnxs still holds waits for.                 *)
SocketOK(c) ==
  /\ sock[c] = "none" => ~Registered(c) /\ \A op \in Ops : pending[c][op] = 0
  /\ sock[c] = "raw" => c \in WsCnxs
  /\ sock[c] = "closed" /\ Registered(c) => \E t \in Threads : Erasing(t, c)

SocketsOK == \A c \in Cnxs : SocketOK(c)

ConnInv == ConnectionsTypeOK /\ ThreadsOK /\ SocketsOK

-----------------------------------------------------------------------------
(* The shape of the state.                                                 *)
Thread == [at : Places, cnx : Cnxs \cup {None}, reader : Cnxs \cup {None}]
Fit(v) == /\ v.at = "handler" => v.reader # None
          /\ v.at \in {"run", "close", "unregister"} <=> v.cnx # None

LEMMA Constants ==
  /\ Tcp \in Servers /\ Ws \in Servers /\ Tcp # Ws /\ Servers \subseteq Threads
  /\ \A c \in Cnxs : /\ ServerOf(c) \in Servers /\ ServerOf(c) \in Threads
                     /\ PortOf[c] \in Ports /\ c # None
  /\ \A t \in Others : t \in Threads /\ t \notin Servers
  /\ Idle \in Thread /\ Fit(Idle) /\ Idle.at = "idle" /\ Idle.cnx = None /\ Idle.reader = None
  /\ None \notin Ops
BY ConnectionsAssumption
   DEF Servers, Threads, ServerOf, Idle, Thread, Places, Fit, Tcp, Ws, Ops, None

LEMMA TypeFacts ==
  ASSUME ConnectionsTypeOK
  PROVE  /\ m_cnxs \in [Servers -> [Ports -> Cnxs \cup {None}]]
         /\ \A s \in Servers, p \in Ports :
              m_cnxs[s][p] # None => ServerOf(m_cnxs[s][p]) = s /\ PortOf[m_cnxs[s][p]] = p
         /\ sock \in [Cnxs -> {"none", "raw", "open", "closed"}] /\ peer \in [Cnxs -> BOOLEAN]
         /\ pending \in [Cnxs -> [Ops -> Nat]] /\ th \in [Threads -> Thread]
         /\ \A t \in Threads : Fit(th[t]) /\ th[t] \in Thread
         /\ \A c \in Cnxs : Entry(c) \in Cnxs \cup {None}
         /\ ended \in [Servers -> [Ports -> Nat]] /\ crashed \in BOOLEAN
<1>1. \A c \in Cnxs : Entry(c) \in Cnxs \cup {None}
  BY Constants DEF ConnectionsTypeOK, Entry
<1> QED
  BY <1>1 DEF ConnectionsTypeOK, Thread, Fit

(* One thread moves.                                                       *)
LEMMA ThreadMoves ==
  ASSUME ConnectionsTypeOK, NEW t \in Threads, NEW v \in Thread, Fit(v),
         th' = [th EXCEPT ![t] = v]
  PROVE  /\ th' \in [Threads -> Thread] /\ th'[t] = v
         /\ \A u \in Threads \ {t} : th'[u] = th[u]
         /\ \A u \in Threads : Fit(th'[u])
<1>1. th \in [Threads -> Thread] /\ \A u \in Threads : Fit(th[u])
  BY TypeFacts
<1>2. th'[t] = v /\ (\A u \in Threads \ {t} : th'[u] = th[u]) /\ th' \in [Threads -> Thread]
  BY <1>1
<1> QED
  BY <1>1, <1>2

LEMMA ThreadsStay ==
  ASSUME ConnectionsTypeOK, UNCHANGED th
  PROVE  th' \in [Threads -> Thread] /\ \A u \in Threads : Fit(th'[u])
BY TypeFacts

(* Operations that begin and end.                                          *)
LEMMA FollowDoes ==
  ASSUME ConnectionsTypeOK, NEW c \in Cnxs, NEW op, NEW next \in SUBSET Ops, Follow(c, op, next),
         op \in Ops => pending[c][op] > 0
  PROVE  /\ pending' \in [Cnxs -> [Ops -> Nat]]
         /\ \A d \in Cnxs \ {c} : pending'[d] = pending[d]
         /\ \A o \in Ops : pending'[c][o] =
              pending[c][o] + (IF o \in next THEN 1 ELSE 0) - (IF o = op THEN 1 ELSE 0)
<1> DEFINE f == [o \in Ops |-> pending[c][o] + (IF o \in next THEN 1 ELSE 0) - (IF o = op THEN 1 ELSE 0)]
<1>1. pending \in [Cnxs -> [Ops -> Nat]]
  BY TypeFacts
<1>2. pending' = [pending EXCEPT ![c] = f]
  BY DEF Follow
<1>3. f \in [Ops -> Nat]
  <2>1. ASSUME NEW o \in Ops
        PROVE  pending[c][o] + (IF o \in next THEN 1 ELSE 0) - (IF o = op THEN 1 ELSE 0) \in Nat
    BY <1>1, <2>1
  <2> QED
    BY <2>1
<1>4. \A o \in Ops : f[o] = pending[c][o] + (IF o \in next THEN 1 ELSE 0) - (IF o = op THEN 1 ELSE 0)
  OBVIOUS
<1> HIDE DEF f
<1>5. pending'[c] = f
  BY <1>1, <1>2
<1> QED
  BY <1>1, <1>2, <1>3, <1>4, <1>5

LEMMA BeginDoes ==
  ASSUME ConnectionsTypeOK, NEW c \in Cnxs, Begin(c, "tls")
  PROVE  /\ pending' \in [Cnxs -> [Ops -> Nat]]
         /\ \A d \in Cnxs \ {c} : pending'[d] = pending[d]
         /\ \A o \in Ops : pending'[c][o] = pending[c][o] + (IF o = "tls" THEN 1 ELSE 0)
<1>1. pending \in [Cnxs -> [Ops -> Nat]] /\ "tls" \in Ops
  BY TypeFacts DEF Ops
<1>2. pending' = [pending EXCEPT ![c] = [pending[c] EXCEPT !["tls"] = @ + 1]]
  BY DEF Begin
<1> QED
  BY <1>1, <1>2

-----------------------------------------------------------------------------
(* What each step does.                                                    *)
TableOK(m) ==
  /\ m \in [Servers -> [Ports -> Cnxs \cup {None}]]
  /\ \A s \in Servers, p \in Ports : m[s][p] # None => ServerOf(m[s][p]) = s /\ PortOf[m[s][p]] = p
SockOK(x) == x \in [Cnxs -> {"none", "raw", "open", "closed"}]
PendingOK(x) == x \in [Cnxs -> [Ops -> Nat]]
ThOK(x) == x \in [Threads -> Thread] /\ \A t \in Threads : Fit(x[t])

LEMMA TypeParts ==
  ConnectionsTypeOK <=>
    /\ TableOK(m_cnxs) /\ SockOK(sock) /\ peer \in [Cnxs -> BOOLEAN] /\ PendingOK(pending)
    /\ ThOK(th) /\ ended \in [Servers -> [Ports -> Nat]] /\ crashed \in BOOLEAN
BY DEF ConnectionsTypeOK, TableOK, SockOK, PendingOK, ThOK, Thread, Fit

(* Only th[t] changes, to v.                                               *)
Turns(t, v) == th'[t] = v /\ (\A u \in Threads \ {t} : th'[u] = th[u]) /\ ThOK(th)'

LEMMA TurnsTo ==
  ASSUME ConnectionsTypeOK, NEW t \in Threads, NEW v \in Thread, Fit(v), th' = [th EXCEPT ![t] = v]
  PROVE  Turns(t, v)
BY ThreadMoves DEF Turns, ThOK

SockSet(c, x) ==
  SockOK(sock)' /\ sock'[c] = x /\ \A d \in Cnxs \ {c} : sock'[d] = sock[d]

LEMMA SockSets ==
  ASSUME ConnectionsTypeOK, NEW c \in Cnxs, NEW x \in {"none", "raw", "open", "closed"},
         sock' = [sock EXCEPT ![c] = x]
  PROVE  SockSet(c, x)
BY TypeFacts DEF SockSet, SockOK

Acceptance(c) == IF c \in WsCnxs THEN "raw" ELSE "open"

LEMMA AcceptDoes ==
  ASSUME ConnectionsTypeOK, NEW c \in Cnxs, Accept(c)
  PROVE  LET t == ServerOf(c)
         IN /\ ~crashed /\ th[t].at = "idle" /\ sock[c] = "none" /\ TableOK(m_cnxs)'
            /\ Entry(c)' = (IF Entry(c) = None THEN c ELSE Entry(c))
            /\ \A s \in Servers, p \in Ports :
                 s # ServerOf(c) \/ p # PortOf[c] => m_cnxs'[s][p] = m_cnxs[s][p]
            /\ SockSet(c, Acceptance(c)) /\ Turns(t, [at |-> "run", cnx |-> c, reader |-> None])
            /\ UNCHANGED <<peer, pending, ended, crashed>>
<1> DEFINE t == ServerOf(c)
           v == [at |-> "run", cnx |-> c, reader |-> None]
           x == IF Entry(c) = None THEN c ELSE Entry(c)
<1>1. /\ ~crashed /\ th[t].at = "idle" /\ sock[c] = "none" /\ m_cnxs' = Insert(c)
      /\ sock' = [sock EXCEPT ![c] = Acceptance(c)] /\ th' = [th EXCEPT ![t] = v]
      /\ UNCHANGED <<peer, pending, ended, crashed>>
  BY DEF Accept, At, Acceptance
<1>2. t \in Threads /\ t \in Servers /\ PortOf[c] \in Ports /\ c # None
  BY Constants
<1>3. v \in Thread /\ Fit(v)
  BY <1>2 DEF Thread, Fit, Places
<1>4. Turns(t, v)
  BY <1>1, <1>2, <1>3, TurnsTo
<1>5. SockSet(c, Acceptance(c))
  BY <1>1, SockSets DEF Acceptance
<1>6. m_cnxs \in [Servers -> [Ports -> Cnxs \cup {None}]]
  BY TypeFacts
<1>7. m_cnxs' = [m_cnxs EXCEPT ![t] = [m_cnxs[t] EXCEPT ![PortOf[c]] = x]]
  BY <1>1, <1>2, <1>6 DEF Insert, Entry
<1>8. x \in Cnxs \cup {None}
  BY TypeFacts
<1> HIDE DEF x
<1>9. /\ m_cnxs' \in [Servers -> [Ports -> Cnxs \cup {None}]]
      /\ m_cnxs'[t][PortOf[c]] = x
      /\ \A s \in Servers, p \in Ports : s # t \/ p # PortOf[c] => m_cnxs'[s][p] = m_cnxs[s][p]
  BY <1>2, <1>6, <1>7, <1>8
<1>10. x # None => ServerOf(x) = t /\ PortOf[x] = PortOf[c]
  BY <1>2, TypeFacts DEF x, Entry
<1>11. TableOK(m_cnxs')
  BY <1>9, <1>10, TypeFacts DEF TableOK
<1>12. Entry(c)' = x
  BY <1>9 DEF Entry
<1> QED
  BY <1>1, <1>4, <1>5, <1>9, <1>11, <1>12 DEF x, TableOK

LEMMA RunAcceptedDoes ==
  ASSUME ConnectionsTypeOK, NEW t \in Threads, RunAccepted(t)
  PROVE  LET x == Entry(th[t].cnx)
         IN /\ ~crashed /\ th[t].at = "run" /\ th[t].cnx \in Cnxs /\ x \in Cnxs \cup {None}
            /\ Turns(t, Idle) /\ PendingOK(pending)'
            /\ \A d \in Cnxs : d # x => pending'[d] = pending[d]
            /\ x # None => \A o \in Ops :
                 pending'[x][o] = pending[x][o] + (IF o = "tls" THEN 1 ELSE 0)
            /\ UNCHANGED <<m_cnxs, sock, peer, ended, crashed>>
<1> DEFINE x == Entry(th[t].cnx)
<1>1. /\ ~crashed /\ th[t].at = "run" /\ th' = [th EXCEPT ![t] = Idle]
      /\ IF x = None THEN UNCHANGED pending ELSE Begin(x, "tls")
      /\ UNCHANGED <<m_cnxs, sock, peer, ended, crashed>>
  BY DEF RunAccepted, At
<1>2. th[t].cnx \in Cnxs
  BY <1>1, TypeFacts DEF Thread, Fit
<1>3. x \in Cnxs \cup {None}
  BY <1>2, TypeFacts
<1>4. Turns(t, Idle)
  BY <1>1, Constants, TurnsTo
<1> HIDE DEF x
<1>5. CASE x = None
  BY <1>1, <1>2, <1>3, <1>4, <1>5, TypeFacts, Constants DEF PendingOK, x
<1>6. CASE x # None
  <2>1. x \in Cnxs /\ Begin(x, "tls")
    BY <1>1, <1>3, <1>6
  <2> QED
    BY <1>1, <1>2, <1>3, <1>4, <2>1, BeginDoes DEF PendingOK, x
<1> QED
  BY <1>5, <1>6


(* One operation on c ends, those of next begin.                           *)
Chain(c, op, next) ==
  /\ PendingOK(pending)' /\ \A d \in Cnxs \ {c} : pending'[d] = pending[d]
  /\ \A o \in Ops : pending'[c][o] =
       pending[c][o] + (IF o \in next THEN 1 ELSE 0) - (IF o = op THEN 1 ELSE 0)

LEMMA Follows ==
  ASSUME ConnectionsTypeOK, NEW c \in Cnxs, NEW op, NEW next \in SUBSET Ops, Follow(c, op, next),
         op \in Ops => pending[c][op] > 0
  PROVE  Chain(c, op, next)
BY FollowDoes DEF Chain, PendingOK

LEMMA OpenIsRead == \A c : Open(c) \in SUBSET Ops
BY DEF Open, Ops

LEMMA PeerLeavesDoes ==
  ASSUME ConnectionsTypeOK, NEW c \in Cnxs, PeerLeaves(c)
  PROVE  /\ peer' \in [Cnxs -> BOOLEAN]
         /\ UNCHANGED <<m_cnxs, sock, pending, th, ended, crashed>>
BY TypeFacts DEF PeerLeaves

LEMMA HandshakeDoes ==
  ASSUME ConnectionsTypeOK, NEW c \in Cnxs, handshake_ssl(c)
  PROVE  /\ ~crashed /\ pending[c]["tls"] > 0 /\ sock[c] # "closed"
         /\ Chain(c, "tls", IF c \in WsCnxs THEN {"accept"} ELSE Open(c))
         /\ UNCHANGED <<m_cnxs, sock, peer, th, ended, crashed>>
<1> DEFINE next == IF c \in WsCnxs THEN {"accept"} ELSE Open(c)
<1>1. /\ ~crashed /\ pending[c]["tls"] > 0 /\ sock[c] # "closed" /\ Follow(c, "tls", next)
      /\ UNCHANGED <<m_cnxs, sock, peer, th, ended, crashed>>
  BY DEF handshake_ssl, Completes, At
<1>2. next \in SUBSET Ops
  BY OpenIsRead DEF Ops
<1> HIDE DEF next
<1>3. Chain(c, "tls", next)
  BY <1>1, <1>2, Follows
<1> QED
  BY <1>1, <1>3 DEF next

LEMMA AcceptSslDoes ==
  ASSUME ConnectionsTypeOK, NEW c \in Cnxs, accept_ssl(c)
  PROVE  /\ ~crashed /\ pending[c]["accept"] > 0 /\ sock[c] # "closed"
         /\ Chain(c, "accept", {"read"}) /\ SockSet(c, "open")
         /\ UNCHANGED <<m_cnxs, peer, th, ended, crashed>>
<1>1. /\ ~crashed /\ pending[c]["accept"] > 0 /\ sock[c] # "closed" /\ Follow(c, "accept", {"read"})
      /\ sock' = [sock EXCEPT ![c] = "open"] /\ UNCHANGED <<m_cnxs, peer, th, ended, crashed>>
  BY DEF accept_ssl, Completes, At
<1>2. {"read"} \in SUBSET Ops
  BY DEF Ops
<1> QED
  BY <1>1, <1>2, Follows, SockSets

Handling(c) == [at |-> "handler", cnx |-> None, reader |-> c]
Ending(place, c, r) == [at |-> place, cnx |-> c, reader |-> r]

LEMMA Moved ==
  ASSUME NEW r \in Thread
  PROVE  /\ \A p : [r EXCEPT !.at = p] = [at |-> p, cnx |-> r.cnx, reader |-> r.reader]
         /\ \A p, c : [r EXCEPT !.at = p, !.cnx = c] = [at |-> p, cnx |-> c, reader |-> r.reader]
<1>1. r = [at |-> r.at, cnx |-> r.cnx, reader |-> r.reader]
  BY DEF Thread
<1> DEFINE a == r.at
           x == r.cnx
           y == r.reader
<1>2. r = [at |-> a, cnx |-> x, reader |-> y]
  BY <1>1
<1> HIDE DEF a, x, y
<1>3. \A p : [[at |-> a, cnx |-> x, reader |-> y] EXCEPT !.at = p] = [at |-> p, cnx |-> x, reader |-> y]
  OBVIOUS
<1>4. \A p, c : [[at |-> a, cnx |-> x, reader |-> y] EXCEPT !.at = p, !.cnx = c]
                  = [at |-> p, cnx |-> c, reader |-> y]
  <2> TAKE p, c
  <2>1. [at |-> a, cnx |-> x, reader |-> y] \in [at : {a}, cnx : {x}, reader : {y}]
    OBVIOUS
  <2>2. [[at |-> a, cnx |-> x, reader |-> y] EXCEPT !.at = p, !.cnx = c]
          \in [at : {p}, cnx : {c}, reader : {y}]
    BY <2>1
  <2>3. \A q \in [at : {p}, cnx : {c}, reader : {y}] : q = [at |-> p, cnx |-> c, reader |-> y]
    OBVIOUS
  <2> QED
    BY <2>2, <2>3
<1>5. /\ \A p : [r EXCEPT !.at = p] = [at |-> p, cnx |-> x, reader |-> y]
      /\ \A p, c : [r EXCEPT !.at = p, !.cnx = c] = [at |-> p, cnx |-> c, reader |-> y]
  BY <1>2, <1>3, <1>4
<1> QED
  BY <1>5 DEF x, y

LEMMA PlacesFit ==
  /\ \A c \in Cnxs : Handling(c) \in Thread /\ Fit(Handling(c))
  /\ \A c \in Cnxs, r \in Cnxs \cup {None}, place \in {"close", "unregister"} :
       Ending(place, c, r) \in Thread /\ Fit(Ending(place, c, r))
BY Constants DEF Handling, Ending, Thread, Fit, Places

LEMMA ReadDataDoes ==
  ASSUME ConnectionsTypeOK, NEW c \in Cnxs, ReadData(c)
  PROVE  /\ ~crashed /\ th[ServerOf(c)].at = "idle" /\ pending[c]["read"] > 0 /\ sock[c] = "open"
         /\ Chain(c, "read", {}) /\ Turns(ServerOf(c), Handling(c))
         /\ UNCHANGED <<m_cnxs, sock, peer, ended, crashed>>
<1>1. /\ ~crashed /\ th[ServerOf(c)].at = "idle" /\ pending[c]["read"] > 0 /\ sock[c] = "open"
      /\ Follow(c, "read", {}) /\ th' = [th EXCEPT ![ServerOf(c)] = Handling(c)]
      /\ UNCHANGED <<m_cnxs, sock, peer, ended, crashed>>
  BY DEF ReadData, Completes, At, Handling
<1>2. Chain(c, "read", {})
  BY <1>1, Follows
<1>3. ServerOf(c) \in Threads
  BY Constants
<1>4. Turns(ServerOf(c), Handling(c))
  BY <1>1, <1>3, PlacesFit, TurnsTo
<1> QED
  BY <1>1, <1>2, <1>4

LEMMA ReadOnDoes ==
  ASSUME ConnectionsTypeOK, NEW t \in Threads, ReadOn(t)
  PROVE  /\ ~crashed /\ th[t].at = "handler" /\ th[t].reader \in Cnxs /\ th[t].cnx = None
         /\ Chain(th[t].reader, None, Open(th[t].reader)) /\ Turns(t, Idle)
         /\ UNCHANGED <<m_cnxs, sock, peer, ended, crashed>>
<1>1. /\ ~crashed /\ th[t].at = "handler" /\ th' = [th EXCEPT ![t] = Idle]
      /\ Follow(th[t].reader, None, Open(th[t].reader))
      /\ UNCHANGED <<m_cnxs, sock, peer, ended, crashed>>
  BY DEF ReadOn, At, Rearm
<1>2. th[t].reader \in Cnxs /\ th[t].cnx = None
  BY <1>1, TypeFacts DEF Thread, Fit
<1>3. Chain(th[t].reader, None, Open(th[t].reader))
  BY <1>1, <1>2, OpenIsRead, Constants, Follows
<1>4. Turns(t, Idle)
  BY <1>1, Constants, TurnsTo
<1> QED
  BY <1>1, <1>2, <1>3, <1>4

Broken(c) == IF c \in WsCnxs THEN "closed" ELSE sock[c]

LEMMA FailsDoes ==
  ASSUME ConnectionsTypeOK, NEW c \in Cnxs, NEW op \in Ops, Fails(c, op)
  PROVE  /\ ~crashed /\ th[ServerOf(c)].at = "idle" /\ pending[c][op] > 0
         /\ Chain(c, op, {}) /\ SockSet(c, Broken(c))
         /\ Turns(ServerOf(c), Ending("close", c, None))
         /\ UNCHANGED <<m_cnxs, peer, ended, crashed>>
<1>1. /\ ~crashed /\ th[ServerOf(c)].at = "idle" /\ pending[c][op] > 0
      /\ Follow(c, op, {}) /\ th' = [th EXCEPT ![ServerOf(c)] = Ending("close", c, None)]
      /\ sock' = IF c \in WsCnxs THEN [sock EXCEPT ![c] = "closed"] ELSE sock
      /\ UNCHANGED <<m_cnxs, peer, ended, crashed>>
  BY DEF Fails, Completes, At, Ending
<1>2. Chain(c, op, {})
  BY <1>1, Follows
<1>3. ServerOf(c) \in Threads
  BY Constants
<1>4. Turns(ServerOf(c), Ending("close", c, None))
  BY <1>1, <1>3, PlacesFit, TurnsTo
<1>5. SockSet(c, Broken(c))
  <2>1. sock \in [Cnxs -> {"none", "raw", "open", "closed"}]
    BY TypeFacts
  <2> QED
    BY <1>1, <2>1 DEF SockSet, SockOK, Broken
<1> QED
  BY <1>1, <1>2, <1>4, <1>5

LEMMA WriteClosesDoes ==
  ASSUME ConnectionsTypeOK, NEW t \in Threads, NEW c \in Cnxs, WriteCloses(t, c)
  PROVE  /\ ~crashed /\ th[t].cnx = None /\ th[t].reader \in Cnxs \cup {None}
         /\ th[t].at = "handler" \/ (t \in Others /\ th[t].at = "idle")
         /\ Registered(c) /\ sock[c] = "open"
         /\ \E x \in {"open", "closed"} : SockSet(c, x)
         /\ Turns(t, Ending("close", c, th[t].reader))
         /\ UNCHANGED <<m_cnxs, peer, pending, ended, crashed>>
<1> DEFINE v == Ending("close", c, th[t].reader)
<1>1. th \in [Threads -> Thread] /\ th[t] \in Thread /\ Fit(th[t])
  BY TypeFacts
<1>2. /\ ~crashed /\ (th[t].at = "handler" \/ (t \in Others /\ th[t].at = "idle"))
      /\ Registered(c) /\ sock[c] = "open"
      /\ \E failed \in BOOLEAN :
           sock' = IF failed /\ c \in WsCnxs THEN [sock EXCEPT ![c] = "closed"] ELSE sock
      /\ th' = [th EXCEPT ![t].at = "close", ![t].cnx = c]
      /\ UNCHANGED <<m_cnxs, peer, pending, ended, crashed>>
  BY DEF WriteCloses, At
<1>3. th[t].cnx = None /\ th[t].reader \in Cnxs \cup {None}
  BY <1>1, <1>2 DEF Thread, Fit
<1>4. th' = [th EXCEPT ![t] = v]
  BY <1>1, <1>2, Moved DEF Ending
<1>5. v \in Thread /\ Fit(v)
  BY <1>3, PlacesFit
<1> HIDE DEF v
<1>6. Turns(t, v)
  BY <1>4, <1>5, TurnsTo
<1>7. \E x \in {"open", "closed"} : SockSet(c, x)
  <2>1. sock \in [Cnxs -> {"none", "raw", "open", "closed"}]
    BY TypeFacts
  <2>2. PICK failed \in BOOLEAN :
           sock' = IF failed /\ c \in WsCnxs THEN [sock EXCEPT ![c] = "closed"] ELSE sock
    BY <1>2
  <2>3. SockSet(c, "open") \/ SockSet(c, "closed")
    BY <1>2, <2>1, <2>2 DEF SockSet, SockOK
  <2> QED
    BY <2>3
<1> QED
  BY <1>2, <1>3, <1>6, <1>7 DEF v

LEMMA ShutDoes ==
  ASSUME ConnectionsTypeOK, NEW t \in Threads, Shut(t)
  PROVE  /\ ~crashed /\ th[t].at = "close" /\ th[t].cnx \in Cnxs /\ SockSet(th[t].cnx, "closed")
         /\ th[t].reader \in Cnxs \cup {None}
         /\ Turns(t, Ending("unregister", th[t].cnx, th[t].reader))
         /\ UNCHANGED <<m_cnxs, peer, pending, ended, crashed>>
<1> DEFINE v == Ending("unregister", th[t].cnx, th[t].reader)
<1>1. th \in [Threads -> Thread] /\ th[t] \in Thread /\ Fit(th[t])
  BY TypeFacts
<1>2. /\ ~crashed /\ th[t].at = "close" /\ sock' = [sock EXCEPT ![th[t].cnx] = "closed"]
      /\ th' = [th EXCEPT ![t].at = "unregister"]
      /\ UNCHANGED <<m_cnxs, peer, pending, ended, crashed>>
  BY DEF Shut, At
<1>3. th[t].cnx \in Cnxs /\ th[t].reader \in Cnxs \cup {None}
  BY <1>1, <1>2 DEF Thread, Fit
<1>4. th' = [th EXCEPT ![t] = v]
  BY <1>1, <1>2, Moved DEF Ending
<1>5. v \in Thread /\ Fit(v)
  BY <1>3, PlacesFit
<1> HIDE DEF v
<1>6. Turns(t, v)
  BY <1>4, <1>5, TurnsTo
<1>7. SockSet(th[t].cnx, "closed")
  BY <1>2, <1>3, SockSets
<1> QED
  BY <1>2, <1>3, <1>6, <1>7 DEF v

Back(t) == IF th[t].reader = None THEN Idle ELSE Handling(th[t].reader)

LEMMA UnregisterDoes ==
  ASSUME ConnectionsTypeOK, NEW t \in Threads, Unregister(t)
  PROVE  LET c == th[t].cnx
         IN /\ ~crashed /\ th[t].at = "unregister" /\ c \in Cnxs /\ th[t].reader \in Cnxs \cup {None}
            /\ TableOK(m_cnxs)' /\ m_cnxs'[ServerOf(c)][PortOf[c]] = None
            /\ \A s \in Servers, p \in Ports :
                 s # ServerOf(c) \/ p # PortOf[c] => m_cnxs'[s][p] = m_cnxs[s][p]
            /\ ended' \in [Servers -> [Ports -> Nat]]
            /\ \A s \in Servers, p \in Ports :
                 ended'[s][p] = IF s = ServerOf(c) /\ p = PortOf[c] /\ Entry(c) # None
                                THEN ended[s][p] + 1 ELSE ended[s][p]
            /\ Turns(t, Back(t))
            /\ UNCHANGED <<sock, peer, pending, crashed>>
<1> DEFINE c == th[t].cnx
<1>1. th \in [Threads -> Thread] /\ th[t] \in Thread /\ Fit(th[t])
  BY TypeFacts
<1>2. /\ ~crashed /\ th[t].at = "unregister"
      /\ m_cnxs' = [m_cnxs EXCEPT ![ServerOf(c)][PortOf[c]] = None]
      /\ Ends(c) /\ th' = Return(t) /\ UNCHANGED <<sock, peer, pending, crashed>>
  BY DEF Unregister, At
<1>3. c \in Cnxs /\ th[t].reader \in Cnxs \cup {None}
  BY <1>1, <1>2 DEF Thread, Fit
<1>4. th' = [th EXCEPT ![t] = Back(t)]
  <2>1. th' = [th EXCEPT ![t] = IF th[t].reader = None THEN Idle
                                ELSE [th[t] EXCEPT !.at = "handler", !.cnx = None]]
    BY <1>1, <1>2 DEF Return
  <2>2. [th[t] EXCEPT !.at = "handler", !.cnx = None] = Handling(th[t].reader)
    BY <1>1, Moved DEF Handling
  <2> QED
    BY <2>1, <2>2 DEF Back
<1>5. Back(t) \in Thread /\ Fit(Back(t))
  BY <1>3, PlacesFit, Constants DEF Back
<1>6. Turns(t, Back(t))
  BY <1>4, <1>5, TurnsTo
<1> HIDE DEF c
<1>7. ServerOf(c) \in Servers /\ PortOf[c] \in Ports
  BY <1>3, Constants
<1>8. m_cnxs \in [Servers -> [Ports -> Cnxs \cup {None}]] /\ ended \in [Servers -> [Ports -> Nat]]
  BY TypeFacts
<1>9. /\ m_cnxs' \in [Servers -> [Ports -> Cnxs \cup {None}]]
      /\ m_cnxs'[ServerOf(c)][PortOf[c]] = None
      /\ \A s \in Servers, p \in Ports :
           s # ServerOf(c) \/ p # PortOf[c] => m_cnxs'[s][p] = m_cnxs[s][p]
  BY <1>2, <1>7, <1>8
<1>10. TableOK(m_cnxs)'
  BY <1>9, TypeFacts DEF TableOK
<1>11. /\ ended' \in [Servers -> [Ports -> Nat]]
       /\ \A s \in Servers, p \in Ports :
            ended'[s][p] = IF s = ServerOf(c) /\ p = PortOf[c] /\ Entry(c) # None
                           THEN ended[s][p] + 1 ELSE ended[s][p]
  <2>1. CASE Entry(c) = None
    BY <1>2, <1>8, <2>1 DEF Ends
  <2>2. CASE Entry(c) # None
    <3>1. ended' = [ended EXCEPT ![ServerOf(c)][PortOf[c]] = @ + 1]
      BY <1>2, <2>2 DEF Ends
    <3>2. ended[ServerOf(c)][PortOf[c]] + 1 \in Nat
      BY <1>7, <1>8
    <3> QED
      BY <1>7, <1>8, <2>2, <3>1, <3>2
  <2> QED
    BY <2>1, <2>2
<1> QED
  BY <1>2, <1>3, <1>6, <1>9, <1>10, <1>11 DEF c, Entry


LEMMA CloseThrowsDoes ==
  ASSUME NEW t \in Threads, CloseThrows(t)
  PROVE  ~crashed /\ crashed' = TRUE /\ UNCHANGED <<m_cnxs, sock, peer, pending, th, ended>>
BY DEF CloseThrows, At

LEMMA Steps ==
  ASSUME [ConnectionsNext]_vars
  PROVE  \/ UNCHANGED <<m_cnxs, sock, peer, pending, th, ended, crashed>>
         \/ \E c \in Cnxs : PeerLeaves(c) \/ Accept(c) \/ handshake_ssl(c) \/ accept_ssl(c) \/ ReadData(c)
         \/ \E c \in Cnxs, op \in Ops : Fails(c, op)
         \/ \E t \in Threads : RunAccepted(t) \/ ReadOn(t) \/ Shut(t) \/ CloseThrows(t) \/ Unregister(t)
         \/ \E t \in Threads, c \in Cnxs : WriteCloses(t, c)
BY DEF ConnectionsNext, vars

-----------------------------------------------------------------------------
(* Types.                                                                  *)
LEMMA TypeInit == ConnectionsInit => ConnectionsTypeOK
<1> SUFFICES ASSUME ConnectionsInit
             PROVE  ConnectionsTypeOK
  OBVIOUS
<1>1. TableOK(m_cnxs)
  BY DEF ConnectionsInit, TableOK
<1>2. ThOK(th)
  BY Constants DEF ConnectionsInit, ThOK
<1> QED
  BY <1>1, <1>2, TypeParts DEF ConnectionsInit, SockOK, PendingOK

LEMMA TypeNext ==
  ASSUME TableOK(m_cnxs)', SockOK(sock)', (peer \in [Cnxs -> BOOLEAN])', PendingOK(pending)',
         ThOK(th)', (ended \in [Servers -> [Ports -> Nat]])', (crashed \in BOOLEAN)'
  PROVE  ConnectionsTypeOK'
BY DEF ConnectionsTypeOK, TableOK, SockOK, PendingOK, ThOK, Thread, Fit

LEMMA TypeStep ==
  ASSUME ConnectionsTypeOK, [ConnectionsNext]_vars
  PROVE  ConnectionsTypeOK'
<1>1. /\ TableOK(m_cnxs) /\ SockOK(sock) /\ peer \in [Cnxs -> BOOLEAN] /\ PendingOK(pending)
      /\ ThOK(th) /\ ended \in [Servers -> [Ports -> Nat]] /\ crashed \in BOOLEAN
  BY TypeParts
<1> USE <1>1, TypeNext
<1>2. CASE UNCHANGED <<m_cnxs, sock, peer, pending, th, ended, crashed>>
  BY <1>2
<1>3. ASSUME NEW c \in Cnxs, PeerLeaves(c)
      PROVE  ConnectionsTypeOK'
  BY <1>3, PeerLeavesDoes
<1>4. ASSUME NEW c \in Cnxs, Accept(c)
      PROVE  ConnectionsTypeOK'
  BY <1>4, AcceptDoes DEF SockSet, Turns
<1>5. ASSUME NEW c \in Cnxs, handshake_ssl(c)
      PROVE  ConnectionsTypeOK'
  BY <1>5, HandshakeDoes DEF Chain
<1>6. ASSUME NEW c \in Cnxs, accept_ssl(c)
      PROVE  ConnectionsTypeOK'
  BY <1>6, AcceptSslDoes DEF SockSet, Chain
<1>7. ASSUME NEW c \in Cnxs, ReadData(c)
      PROVE  ConnectionsTypeOK'
  BY <1>7, ReadDataDoes DEF Turns, Chain
<1>8. ASSUME NEW c \in Cnxs, NEW op \in Ops, Fails(c, op)
      PROVE  ConnectionsTypeOK'
  BY <1>8, FailsDoes DEF Turns, Chain, SockSet
<1>9. ASSUME NEW t \in Threads, RunAccepted(t)
      PROVE  ConnectionsTypeOK'
  BY <1>9, RunAcceptedDoes DEF Turns
<1>10. ASSUME NEW t \in Threads, ReadOn(t)
       PROVE  ConnectionsTypeOK'
  BY <1>10, ReadOnDoes DEF Turns, Chain
<1>11. ASSUME NEW t \in Threads, Shut(t)
       PROVE  ConnectionsTypeOK'
  BY <1>11, ShutDoes DEF Turns, SockSet
<1>12. ASSUME NEW t \in Threads, CloseThrows(t)
       PROVE  ConnectionsTypeOK'
  BY <1>12, CloseThrowsDoes
<1>13. ASSUME NEW t \in Threads, Unregister(t)
       PROVE  ConnectionsTypeOK'
  BY <1>13, UnregisterDoes DEF Turns
<1>14. ASSUME NEW t \in Threads, NEW c \in Cnxs, WriteCloses(t, c)
       PROVE  ConnectionsTypeOK'
  BY <1>14, WriteClosesDoes DEF Turns, SockSet
<1> QED
  BY <1>2, <1>3, <1>4, <1>5, <1>6, <1>7, <1>8, <1>9, <1>10, <1>11, <1>12, <1>13, <1>14, Steps

-----------------------------------------------------------------------------
(* What threads know: sockets only go from none to raw or open to closed.  *)
SockGrows ==
  \A d \in Cnxs : /\ sock[d] # "none" => sock'[d] # "none"
                  /\ sock[d] \in {"open", "closed"} => sock'[d] \in {"open", "closed"}
                  /\ sock[d] = "closed" => sock'[d] = "closed"

LEMMA SockSetGrows ==
  ASSUME ConnectionsTypeOK, NEW c \in Cnxs, NEW x, SockSet(c, x),
         sock[c] # "none" => x \in {"open", "closed"}, sock[c] = "closed" => x = "closed"
  PROVE  SockGrows
BY TypeFacts DEF SockSet, SockGrows, SockOK

LEMMA KnowsStill ==
  ASSUME ConnectionsTypeOK, SockGrows, NEW t \in Threads, Knows(t, th[t], sock)
  PROVE  Knows(t, th[t], sock')
<1>1. th[t] \in Thread /\ Fit(th[t])
  BY TypeFacts
<1> DEFINE v == th[t]
<1> HIDE DEF v
<1>2. v \in Thread /\ Fit(v) /\ Knows(t, v, sock)
  BY <1>1 DEF v
<1>3. Knows(t, v, sock')
  BY <1>2, Constants DEF Knows, SockGrows, Thread, Fit
<1> QED
  BY <1>3 DEF v

LEMMA ThreadsKept ==
  ASSUME ConnectionsTypeOK, ThreadsOK, SockGrows, NEW t \in Threads, NEW v, Turns(t, v),
         Knows(t, v, sock')
  PROVE  ThreadsOK'
<1>1. \A u \in Threads : Knows(u, th[u], sock')
  BY KnowsStill DEF ThreadsOK
<1>2. \A u \in Threads : Knows(u, th'[u], sock')
  BY <1>1 DEF Turns
<1> QED
  BY <1>2 DEF ThreadsOK

LEMMA ThreadsSame ==
  ASSUME ConnectionsTypeOK, ThreadsOK, SockGrows, UNCHANGED th
  PROVE  ThreadsOK'
BY KnowsStill DEF ThreadsOK

LEMMA SameSockGrows == sock' = sock => SockGrows
BY DEF SockGrows

LEMMA IdleKnows == \A t, x : Knows(t, Idle, x)
BY DEF Knows, Idle

LEMMA PendingHasSocket ==
  ASSUME ConnectionsTypeOK, SocketsOK, NEW c \in Cnxs, NEW op \in Ops, pending[c][op] > 0
  PROVE  sock[c] # "none"
BY TypeFacts DEF SocketsOK, SocketOK


LEMMA ThreadsStep ==
  ASSUME ConnInv, [ConnectionsNext]_vars
  PROVE  ThreadsOK' /\ SockGrows
<1> USE DEF ConnInv
<1>1. sock \in [Cnxs -> {"none", "raw", "open", "closed"}]
  BY TypeFacts
<1>2. CASE UNCHANGED <<m_cnxs, sock, peer, pending, th, ended, crashed>>
  BY <1>2, SameSockGrows, ThreadsSame
<1>3. ASSUME NEW c \in Cnxs, PeerLeaves(c)
      PROVE  ThreadsOK' /\ SockGrows
  BY <1>3, PeerLeavesDoes, SameSockGrows, ThreadsSame
<1>4. ASSUME NEW c \in Cnxs, Accept(c)
      PROVE  ThreadsOK' /\ SockGrows
  <2> DEFINE t == ServerOf(c)
             v == [at |-> "run", cnx |-> c, reader |-> None]
  <2>1. sock[c] = "none" /\ SockSet(c, Acceptance(c)) /\ Turns(t, v)
    BY <1>4, AcceptDoes
  <2>2. SockGrows
    BY <2>1, SockSetGrows
  <2>3. Knows(t, v, sock')
    BY <2>1, Constants DEF Knows, SockSet, Acceptance
  <2>4. t \in Threads
    BY Constants
  <2> HIDE DEF t, v
  <2> QED
    BY <2>1, <2>2, <2>3, <2>4, ThreadsKept
<1>5. ASSUME NEW c \in Cnxs, handshake_ssl(c)
      PROVE  ThreadsOK' /\ SockGrows
  BY <1>5, HandshakeDoes, SameSockGrows, ThreadsSame
<1>6. ASSUME NEW c \in Cnxs, accept_ssl(c)
      PROVE  ThreadsOK' /\ SockGrows
  <2>1. SockSet(c, "open") /\ sock[c] # "closed" /\ UNCHANGED th
    BY <1>6, AcceptSslDoes
  <2>2. SockGrows
    BY <2>1, SockSetGrows
  <2> QED
    BY <2>1, <2>2, ThreadsSame
<1>7. ASSUME NEW c \in Cnxs, ReadData(c)
      PROVE  ThreadsOK' /\ SockGrows
  <2>1. sock[c] = "open" /\ Turns(ServerOf(c), Handling(c)) /\ sock' = sock
    BY <1>7, ReadDataDoes
  <2>2. Knows(ServerOf(c), Handling(c), sock')
    BY <2>1 DEF Knows, Handling
  <2> QED
    BY <2>1, <2>2, SameSockGrows, ThreadsKept, Constants
<1>8. ASSUME NEW c \in Cnxs, NEW op \in Ops, Fails(c, op)
      PROVE  ThreadsOK' /\ SockGrows
  <2>1. /\ pending[c][op] > 0 /\ SockSet(c, Broken(c))
        /\ Turns(ServerOf(c), Ending("close", c, None))
    BY <1>8, FailsDoes
  <2>2. sock[c] # "none" /\ (sock[c] = "raw" => c \in WsCnxs)
    BY <2>1, PendingHasSocket DEF SocketsOK, SocketOK
  <2>3. Broken(c) \in {"open", "closed"} /\ (sock[c] = "closed" => Broken(c) = "closed")
    BY <1>1, <2>2 DEF Broken
  <2>4. SockGrows
    BY <2>1, <2>3, SockSetGrows
  <2>5. Knows(ServerOf(c), Ending("close", c, None), sock')
    BY <2>1, <2>3, Constants DEF Knows, Ending, SockSet
  <2> QED
    BY <2>1, <2>4, <2>5, ThreadsKept, Constants
<1>9. ASSUME NEW t \in Threads, RunAccepted(t)
      PROVE  ThreadsOK' /\ SockGrows
  BY <1>9, RunAcceptedDoes, SameSockGrows, IdleKnows, ThreadsKept
<1>10. ASSUME NEW t \in Threads, ReadOn(t)
       PROVE  ThreadsOK' /\ SockGrows
  BY <1>10, ReadOnDoes, SameSockGrows, IdleKnows, ThreadsKept
<1>11. ASSUME NEW t \in Threads, Shut(t)
       PROVE  ThreadsOK' /\ SockGrows
  <2> DEFINE c == th[t].cnx
             r == th[t].reader
  <2>1. c \in Cnxs /\ SockSet(c, "closed") /\ Turns(t, Ending("unregister", c, r)) /\ r \in Cnxs \cup {None}
    BY <1>11, ShutDoes
  <2>2. r # None => t = ServerOf(r) /\ sock[r] \in {"open", "closed"}
    BY DEF ThreadsOK, Knows
  <2> HIDE DEF c, r
  <2>3. SockGrows
    BY <2>1, SockSetGrows
  <2>4. Knows(t, Ending("unregister", c, r), sock')
    BY <2>1, <2>2, <2>3, Constants DEF Knows, Ending, SockSet, SockGrows
  <2> QED
    BY <2>1, <2>3, <2>4, ThreadsKept
<1>12. ASSUME NEW t \in Threads, CloseThrows(t)
       PROVE  ThreadsOK' /\ SockGrows
  BY <1>12, CloseThrowsDoes, SameSockGrows, ThreadsSame
<1>13. ASSUME NEW t \in Threads, Unregister(t)
       PROVE  ThreadsOK' /\ SockGrows
  <2>1. Turns(t, Back(t)) /\ sock' = sock /\ th[t].reader \in Cnxs \cup {None}
    BY <1>13, UnregisterDoes
  <2>2. th[t].reader # None => t = ServerOf(th[t].reader) /\ sock[th[t].reader] \in {"open", "closed"}
    BY DEF ThreadsOK, Knows
  <2>3. Knows(t, Back(t), sock')
    BY <2>1, <2>2, IdleKnows DEF Knows, Back, Handling
  <2> QED
    BY <2>1, <2>3, SameSockGrows, ThreadsKept
<1>14. ASSUME NEW t \in Threads, NEW c \in Cnxs, WriteCloses(t, c)
       PROVE  ThreadsOK' /\ SockGrows
  <2> DEFINE r == th[t].reader
  <2>1. PICK x \in {"open", "closed"} : SockSet(c, x)
    BY <1>14, WriteClosesDoes
  <2>2. sock[c] = "open" /\ Turns(t, Ending("close", c, r)) /\ r \in Cnxs \cup {None}
    BY <1>14, WriteClosesDoes
  <2>3. r # None => t = ServerOf(r) /\ sock[r] \in {"open", "closed"}
    BY DEF ThreadsOK, Knows
  <2> HIDE DEF r
  <2>4. SockGrows
    BY <2>1, <2>2, SockSetGrows
  <2>5. Knows(t, Ending("close", c, r), sock')
    BY <2>1, <2>2, <2>3, <2>4, Constants DEF Knows, Ending, SockSet, SockGrows
  <2> QED
    BY <2>2, <2>4, <2>5, ThreadsKept
<1> QED
  BY <1>2, <1>3, <1>4, <1>5, <1>6, <1>7, <1>8, <1>9, <1>10, <1>11, <1>12, <1>13, <1>14, Steps

-----------------------------------------------------------------------------
(* A step that leaves c and its socket alone, and erases no entry of c.    *)
LEMMA SocketKept ==
  ASSUME NEW c \in Cnxs, SocketOK(c), sock'[c] = sock[c], Registered(c)' => Registered(c),
         sock[c] = "none" => pending'[c] = pending[c],
         Registered(c)' => \A t \in Threads : Erasing(t, c) => \E u \in Threads : Erasing(u, c)'
  PROVE  SocketOK(c)'
BY DEF SocketOK

LEMMA ErasingStays ==
  ASSUME NEW t \in Threads, NEW v, Turns(t, v), NEW c,
         Erasing(t, c) => v.cnx = c /\ v.at \in {"close", "unregister"}
  PROVE  \A u \in Threads : Erasing(u, c) => Erasing(u, c)'
BY DEF Turns, Erasing

LEMMA EntryIsRegistered ==
  ASSUME ConnectionsTypeOK, NEW c \in Cnxs, Entry(c) # None
  PROVE  Entry(c) \in Cnxs /\ Registered(Entry(c)) /\ ServerOf(Entry(c)) = ServerOf(c)
         /\ PortOf[Entry(c)] = PortOf[c]
BY TypeFacts, Constants DEF Entry, Registered


LEMMA SocketsStep ==
  ASSUME ConnInv, [ConnectionsNext]_vars
  PROVE  SocketsOK'
<1> USE DEF ConnInv
<1>1. \A d \in Cnxs : SocketOK(d)
  BY DEF SocketsOK
<1>a. SUFFICES ASSUME NEW d \in Cnxs
               PROVE  SocketOK(d)'
  BY DEF SocketsOK
<1>b. d # None /\ SocketOK(d) /\ ServerOf(d) \in Servers /\ PortOf[d] \in Ports
  BY <1>1, Constants
<1>2. CASE UNCHANGED <<m_cnxs, sock, peer, pending, th, ended, crashed>>
  BY <1>2, <1>b DEF SocketOK, Registered, Entry, Erasing
<1>3. ASSUME NEW c \in Cnxs, PeerLeaves(c)
      PROVE  SocketOK(d)'
  BY <1>3, <1>b, PeerLeavesDoes DEF SocketOK, Registered, Entry, Erasing
<1>4. ASSUME NEW c \in Cnxs, Accept(c)
      PROVE  SocketOK(d)'
  <2> DEFINE t == ServerOf(c)
             v == [at |-> "run", cnx |-> c, reader |-> None]
  <2>1. /\ th[t].at = "idle" /\ sock[c] = "none" /\ SockSet(c, Acceptance(c)) /\ Turns(t, v)
        /\ \A s \in Servers, p \in Ports :
             s # ServerOf(c) \/ p # PortOf[c] => m_cnxs'[s][p] = m_cnxs[s][p]
        /\ m_cnxs'[ServerOf(c)][PortOf[c]] = (IF Entry(c) = None THEN c ELSE Entry(c))
        /\ pending' = pending
    BY <1>4, AcceptDoes DEF Entry
  <2>2. CASE d = c
    BY <2>1, <2>2 DEF SocketOK, SockSet, Acceptance
  <2>3. CASE d # c
    <3>1. Registered(d)' => Registered(d)
      BY <2>1, <2>3, <1>b DEF Registered, Entry
    <3>2. ~Erasing(t, d) /\ t \in Threads
      BY <2>1, Constants DEF Erasing
    <3> HIDE DEF t, v
    <3>3. \A u \in Threads : Erasing(u, d) => Erasing(u, d)'
      BY <2>1, <3>2, ErasingStays
    <3>4. sock'[d] = sock[d]
      BY <2>1, <2>3 DEF SockSet
    <3> QED
      BY <1>b, <2>1, <3>1, <3>3, <3>4, SocketKept
  <2> QED
    BY <2>2, <2>3
<1>5. ASSUME NEW c \in Cnxs, handshake_ssl(c)
      PROVE  SocketOK(d)'
  <2>1. /\ sock[c] # "none" /\ UNCHANGED <<m_cnxs, sock, th>>
        /\ \A e \in Cnxs \ {c} : pending'[e] = pending[e]
    BY <1>5, HandshakeDoes, PendingHasSocket DEF Chain, Ops
  <2> QED
    BY <1>b, <2>1 DEF SocketOK, Registered, Entry, Erasing
<1>6. ASSUME NEW c \in Cnxs, accept_ssl(c)
      PROVE  SocketOK(d)'
  <2>1. /\ sock[c] # "none" /\ SockSet(c, "open") /\ UNCHANGED <<m_cnxs, th>>
        /\ \A e \in Cnxs \ {c} : pending'[e] = pending[e]
    BY <1>6, AcceptSslDoes, PendingHasSocket DEF Chain, Ops
  <2> QED
    BY <1>b, <2>1 DEF SocketOK, Registered, Entry, Erasing, SockSet
<1>7. ASSUME NEW c \in Cnxs, ReadData(c)
      PROVE  SocketOK(d)'
  <2>1. /\ sock[c] = "open" /\ UNCHANGED <<m_cnxs, sock>> /\ th[ServerOf(c)].at = "idle"
        /\ \A e \in Cnxs \ {c} : pending'[e] = pending[e]
        /\ Turns(ServerOf(c), Handling(c))
    BY <1>7, ReadDataDoes DEF Chain
  <2>2. \A u \in Threads : Erasing(u, d) => Erasing(u, d)'
    BY <2>1, ErasingStays, Constants DEF Erasing
  <2> QED
    BY <1>b, <2>1, <2>2 DEF SocketOK, Registered, Entry
<1>8. ASSUME NEW c \in Cnxs, NEW op \in Ops, Fails(c, op)
      PROVE  SocketOK(d)'
  <2> DEFINE t == ServerOf(c)
             v == Ending("close", c, None)
  <2>1. /\ pending[c][op] > 0 /\ SockSet(c, Broken(c)) /\ m_cnxs' = m_cnxs /\ th[t].at = "idle"
        /\ \A e \in Cnxs \ {c} : pending'[e] = pending[e]
        /\ Turns(t, v)
    BY <1>8, FailsDoes DEF Chain
  <2>2. sock[c] # "none"
    BY <2>1, PendingHasSocket
  <2>3. t \in Threads /\ v.at = "close" /\ v.cnx = c /\ ~Erasing(t, d)
    BY <2>1, Constants DEF Ending, Erasing
  <2> HIDE DEF t, v
  <2>4. \A u \in Threads : Erasing(u, d) => Erasing(u, d)'
    BY <2>1, <2>3, ErasingStays
  <2>5. CASE d = c
    <3>1. Erasing(t, d)'
      BY <2>1, <2>3, <2>5 DEF Turns, Erasing
    <3>2. sock'[d] # "none" /\ (sock'[d] = "raw" => d \in WsCnxs)
      BY <1>b, <2>1, <2>2, <2>5 DEF SockSet, Broken, SocketOK
    <3> QED
      BY <2>3, <3>1, <3>2 DEF SocketOK
  <2>6. CASE d # c
    BY <1>b, <2>1, <2>4, <2>6 DEF SocketOK, Registered, Entry, SockSet
  <2> QED
    BY <2>5, <2>6
<1>9. ASSUME NEW t \in Threads, RunAccepted(t)
      PROVE  SocketOK(d)'
  <2> DEFINE x == Entry(th[t].cnx)
  <2>1. /\ th[t].at = "run" /\ th[t].cnx \in Cnxs /\ Turns(t, Idle) /\ UNCHANGED <<m_cnxs, sock>>
        /\ \A e \in Cnxs : e # x => pending'[e] = pending[e]
    BY <1>9, RunAcceptedDoes
  <2>2. d = x => Registered(d)
    BY <1>b, <2>1, EntryIsRegistered
  <2> HIDE DEF x
  <2>3. \A u \in Threads : Erasing(u, d) => Erasing(u, d)'
    <3>1. ~Erasing(t, d)
      BY <2>1 DEF Erasing
    <3> QED
      BY <2>1, <3>1, ErasingStays
  <2> QED
    BY <1>b, <2>1, <2>2, <2>3 DEF SocketOK, Registered, Entry
<1>10. ASSUME NEW t \in Threads, ReadOn(t)
       PROVE  SocketOK(d)'
  <2> DEFINE r == th[t].reader
  <2>1. /\ th[t].at = "handler" /\ r \in Cnxs /\ Turns(t, Idle) /\ UNCHANGED <<m_cnxs, sock>>
        /\ \A e \in Cnxs \ {r} : pending'[e] = pending[e]
    BY <1>10, ReadOnDoes DEF Chain
  <2>2. sock[r] # "none"
    BY <2>1, Constants DEF ThreadsOK, Knows
  <2> HIDE DEF r
  <2>3. \A u \in Threads : Erasing(u, d) => Erasing(u, d)'
    <3>1. ~Erasing(t, d)
      BY <2>1 DEF Erasing
    <3> QED
      BY <2>1, <3>1, ErasingStays
  <2> QED
    BY <1>b, <2>1, <2>2, <2>3 DEF SocketOK, Registered, Entry
<1>11. ASSUME NEW t \in Threads, Shut(t)
       PROVE  SocketOK(d)'
  <2> DEFINE c == th[t].cnx
             v == Ending("unregister", c, th[t].reader)
  <2>1. /\ c \in Cnxs /\ SockSet(c, "closed") /\ Turns(t, v) /\ UNCHANGED <<m_cnxs, pending>>
    BY <1>11, ShutDoes
  <2>2. /\ v.at = "unregister" /\ v.cnx = c
        /\ Erasing(t, d) => v.cnx = d /\ v.at \in {"close", "unregister"}
    BY DEF Ending, Erasing
  <2> HIDE DEF c, v
  <2>3. \A u \in Threads : Erasing(u, d) => Erasing(u, d)'
    BY <2>1, <2>2, ErasingStays
  <2>4. CASE d = c
    <3>1. Erasing(t, d)'
      BY <2>1, <2>2, <2>4 DEF Turns, Erasing
    <3> QED
      BY <2>1, <2>4, <3>1 DEF SocketOK, SockSet
  <2>5. CASE d # c
    BY <1>b, <2>1, <2>3, <2>5 DEF SocketOK, Registered, Entry, SockSet
  <2> QED
    BY <2>4, <2>5
<1>12. ASSUME NEW t \in Threads, CloseThrows(t)
       PROVE  SocketOK(d)'
  BY <1>12, <1>b, CloseThrowsDoes DEF SocketOK, Registered, Entry, Erasing
<1>13. ASSUME NEW t \in Threads, Unregister(t)
       PROVE  SocketOK(d)'
  <2> DEFINE c == th[t].cnx
             v == Back(t)
  <2>1. /\ c \in Cnxs /\ Turns(t, v) /\ UNCHANGED <<sock, pending>>
        /\ m_cnxs'[ServerOf(c)][PortOf[c]] = None
        /\ \A s \in Servers, p \in Ports :
             s # ServerOf(c) \/ p # PortOf[c] => m_cnxs'[s][p] = m_cnxs[s][p]
    BY <1>13, UnregisterDoes
  <2>2. Registered(d)' => Registered(d) /\ d # c
    BY <1>b, <2>1 DEF Registered, Entry
  <2>3. d # c => ~Erasing(t, d)
    BY DEF Erasing
  <2> HIDE DEF c, v
  <2>4. d # c => \A u \in Threads : Erasing(u, d) => Erasing(u, d)'
    BY <2>1, <2>3, ErasingStays
  <2> QED
    BY <1>b, <2>1, <2>2, <2>4 DEF SocketOK
<1>14. ASSUME NEW t \in Threads, NEW c \in Cnxs, WriteCloses(t, c)
       PROVE  SocketOK(d)'
  <2> DEFINE v == Ending("close", c, th[t].reader)
  <2>1. PICK x \in {"open", "closed"} : SockSet(c, x)
    BY <1>14, WriteClosesDoes
  <2>2. /\ sock[c] = "open" /\ Turns(t, v) /\ UNCHANGED <<m_cnxs, pending>>
        /\ th[t].cnx = None
    BY <1>14, WriteClosesDoes
  <2>3. v.at = "close" /\ v.cnx = c /\ ~Erasing(t, d)
    BY <1>b, <2>2 DEF Ending, Erasing
  <2> HIDE DEF v
  <2>4. \A u \in Threads : Erasing(u, d) => Erasing(u, d)'
    BY <2>2, <2>3, ErasingStays
  <2>5. CASE d = c
    <3>1. Erasing(t, d)'
      BY <2>2, <2>3, <2>5 DEF Turns, Erasing
    <3> QED
      BY <2>1, <2>5, <3>1 DEF SocketOK, SockSet
  <2>6. CASE d # c
    BY <1>b, <2>1, <2>2, <2>4, <2>6 DEF SocketOK, Registered, Entry, SockSet
  <2> QED
    BY <2>5, <2>6
<1> QED
  BY <1>2, <1>3, <1>4, <1>5, <1>6, <1>7, <1>8, <1>9, <1>10, <1>11, <1>12, <1>13, <1>14, Steps

LEMMA InvInit == ConnectionsInit => ConnInv
<1> SUFFICES ASSUME ConnectionsInit
             PROVE  ConnInv
  OBVIOUS
<1>1. ConnectionsTypeOK
  BY TypeInit
<1>2. ThreadsOK
  BY IdleKnows DEF ConnectionsInit, ThreadsOK
<1>3. SocketsOK
  <2>1. \A c \in Cnxs : Entry(c) = None /\ c # None /\ sock[c] = "none" /\ \A op \in Ops : pending[c][op] = 0
    BY Constants DEF ConnectionsInit, Entry
  <2> QED
    BY <2>1 DEF SocketsOK, SocketOK, Registered
<1> QED
  BY <1>1, <1>2, <1>3 DEF ConnInv

LEMMA InvStep == ConnInv /\ [ConnectionsNext]_vars => ConnInv'
BY TypeStep, ThreadsStep, SocketsStep DEF ConnInv

(* The steps of the specification, without its fairness.                   *)
LEMMA SpecSteps == ConnectionsSpec => ConnectionsInit /\ [][ConnectionsNext]_vars
BY PTL DEF ConnectionsSpec

LEMMA InvHolds == ConnectionsSpec => []ConnInv
<1>1. ConnectionsInit => ConnInv
  BY InvInit
<1>2. ConnInv /\ [ConnectionsNext]_vars => ConnInv'
  BY InvStep
<1> QED
  BY <1>1, <1>2, SpecSteps, PTL

(* Every connection, thread and socket keeps its shape: a thread is about  *)
(* a connection exactly when it runs or closes one, and m_cnxs has a       *)
(* connection only under its own server and port.                          *)
THEOREM ConnectionsTypeCorrect == ConnectionsSpec => []ConnectionsTypeOK
<1>1. ConnInv => ConnectionsTypeOK
  BY DEF ConnInv
<1> QED
  BY <1>1, InvHolds, PTL


-----------------------------------------------------------------------------
(* What serves a connection: its operations, and its io thread.            *)
Handled(c) == IF Busy(ServerOf(c), c) THEN 1 ELSE 0
Load(c) == pending[c]["tls"] + pending[c]["accept"] + pending[c]["read"] + Handled(c)

LEMMA OpsAre == "tls" \in Ops /\ "accept" \in Ops /\ "read" \in Ops
BY DEF Ops

LEMMA BusyIsOwn ==
  ASSUME ConnectionsTypeOK, ThreadsOK, NEW c \in Cnxs, NEW t \in Threads, Busy(t, c)
  PROVE  t = ServerOf(c) /\ sock[c] # "none"
<1>1. th[t] \in Thread /\ Knows(t, th[t], sock) /\ c # None
  BY TypeFacts, Constants DEF ThreadsOK
<1> QED
  BY <1>1 DEF Busy, Knows

LEMMA ServedIsLoad ==
  ASSUME ConnectionsTypeOK, ThreadsOK, NEW c \in Cnxs
  PROVE  /\ Served(c) = Load(c) /\ Load(c) \in Nat
         /\ pending[c]["tls"] \in Nat /\ pending[c]["accept"] \in Nat /\ pending[c]["read"] \in Nat
<1> DEFINE S == {t \in Servers : th[t].reader = c \/ (th[t].at = "run" /\ th[t].cnx = c)}
<1>1. ServerOf(c) \in Servers /\ \A t \in Servers : Busy(t, c) => t = ServerOf(c)
  BY BusyIsOwn, Constants
<1>2. CASE Busy(ServerOf(c), c)
  <2>1. S = {ServerOf(c)}
    BY <1>1, <1>2 DEF Busy
  <2>2. Cardinality(S) = Handled(c)
    BY <1>2, <2>1, FS_Singleton DEF Handled
  <2> QED
    BY <2>2, TypeFacts, OpsAre DEF Served, Load, Handled
<1>3. CASE ~Busy(ServerOf(c), c)
  <2>1. S = {}
    BY <1>1, <1>3 DEF Busy
  <2>2. Cardinality(S) = Handled(c)
    BY <1>3, <2>1, FS_EmptySet DEF Handled
  <2> QED
    BY <2>2, TypeFacts, OpsAre DEF Served, Load, Handled
<1> QED
  BY <1>2, <1>3

LEMMA LoadSame ==
  ASSUME NEW c, pending'[c] = pending[c], Busy(ServerOf(c), c)' <=> Busy(ServerOf(c), c)
  PROVE  Load(c)' = Load(c)
BY DEF Load, Handled

LEMMA BusyStays ==
  ASSUME NEW t \in Threads, NEW v, Turns(t, v), NEW c \in Cnxs,
         (v.reader = c \/ (v.at = "run" /\ v.cnx = c)) <=> Busy(t, c)
  PROVE  Busy(ServerOf(c), c)' <=> Busy(ServerOf(c), c)
BY Constants DEF Turns, Busy

(* A connection that has its port to itself.                               *)
PrivateOK(c) ==
  /\ Load(c) <= 1
  /\ sock[c] \in {"raw", "open"} => Registered(c)
  /\ ended[ServerOf(c)][PortOf[c]] = IF sock[c] = "none" \/ Registered(c) THEN 0 ELSE 1

LEMMA PrivateFacts ==
  ASSUME ConnInv, NEW c \in Cnxs, Private(c)
  PROVE  /\ Entry(c) \in {None, c}
         /\ sock[c] = "none" => Entry(c) = None /\ Load(c) = 0
         /\ \A d \in Cnxs : Entry(d) = c => d = c
<1> USE DEF ConnInv
<1>1. \A d \in Cnxs : Entry(d) # None => /\ Entry(d) \in Cnxs /\ ServerOf(Entry(d)) = ServerOf(d)
                                         /\ PortOf[Entry(d)] = PortOf[d]
  BY EntryIsRegistered
<1>2. Entry(c) \in {None, c} /\ c # None
  BY <1>1, Constants DEF Private
<1>3. \A d \in Cnxs : Entry(d) = c => d = c
  BY <1>1, <1>2 DEF Private
<1>4. ASSUME sock[c] = "none"
      PROVE  Entry(c) = None /\ Load(c) = 0
  <2>1. ~Registered(c) /\ \A op \in Ops : pending[c][op] = 0
    BY <1>4 DEF SocketsOK, SocketOK
  <2>2. ~Busy(ServerOf(c), c)
    BY <1>4, BusyIsOwn, Constants
  <2> QED
    BY <1>2, <2>1, <2>2, OpsAre DEF Registered, Load, Handled
<1> QED
  BY <1>2, <1>3, <1>4

(* Connections with other ports, and steps that leave c alone.             *)
LEMMA PrivateKept ==
  ASSUME NEW c \in Cnxs, PrivateOK(c), Entry(c)' = Entry(c), sock'[c] = sock[c],
         pending'[c] = pending[c], Busy(ServerOf(c), c)' <=> Busy(ServerOf(c), c),
         ended'[ServerOf(c)][PortOf[c]] = ended[ServerOf(c)][PortOf[c]]
  PROVE  PrivateOK(c)'
BY LoadSame DEF PrivateOK, Registered


LEMMA PrivateStep ==
  ASSUME ConnInv, [ConnectionsNext]_vars, NEW c \in Cnxs, Private(c), PrivateOK(c)
  PROVE  PrivateOK(c)'
<1> USE DEF ConnInv
<1>a. /\ ServerOf(c) \in Threads /\ ServerOf(c) \in Servers /\ PortOf[c] \in Ports /\ c # None
      /\ sock \in [Cnxs -> {"none", "raw", "open", "closed"}]
  BY Constants, TypeFacts
<1>b. /\ Entry(c) \in {None, c} /\ (sock[c] = "none" => Entry(c) = None /\ Load(c) = 0)
      /\ \A d \in Cnxs : Entry(d) = c => d = c
  BY PrivateFacts
<1>c. /\ Load(c) \in Nat /\ pending[c]["tls"] \in Nat /\ pending[c]["accept"] \in Nat
      /\ pending[c]["read"] \in Nat
  BY ServedIsLoad
<1>d. \A d \in Cnxs \ {c} : ServerOf(d) # ServerOf(c) \/ PortOf[d] # PortOf[c]
  BY DEF Private
<1>e. /\ Load(c) <= 1 /\ (sock[c] \in {"raw", "open"} => Registered(c))
      /\ ended[ServerOf(c)][PortOf[c]] = IF sock[c] = "none" \/ Registered(c) THEN 0 ELSE 1
  BY DEF PrivateOK
<1>2. CASE UNCHANGED <<m_cnxs, sock, peer, pending, th, ended, crashed>>
  BY <1>2, PrivateKept DEF Entry, Busy
<1>3. ASSUME NEW e \in Cnxs, PeerLeaves(e)
      PROVE  PrivateOK(c)'
  BY <1>3, PeerLeavesDoes, PrivateKept DEF Entry, Busy
<1>4. ASSUME NEW e \in Cnxs, Accept(e)
      PROVE  PrivateOK(c)'
  <2> DEFINE t == ServerOf(e)
             v == [at |-> "run", cnx |-> e, reader |-> None]
  <2>1. /\ th[t].at = "idle" /\ sock[e] = "none" /\ SockSet(e, Acceptance(e)) /\ Turns(t, v)
        /\ \A s \in Servers, p \in Ports :
             s # ServerOf(e) \/ p # PortOf[e] => m_cnxs'[s][p] = m_cnxs[s][p]
        /\ m_cnxs'[ServerOf(e)][PortOf[e]] = (IF Entry(e) = None THEN e ELSE Entry(e))
        /\ pending' = pending /\ ended' = ended
    BY <1>4, AcceptDoes DEF Entry
  <2>2. t \in Threads /\ v.cnx = e /\ v.at = "run" /\ v.reader = None
    BY Constants
  <2>3. CASE e = c
    <3>1. Registered(c)' /\ sock'[c] # "none"
      BY <1>b, <2>1, <2>3 DEF Registered, Entry, SockSet, Acceptance
    <3>2. Handled(c) \in {0, 1} /\ Handled(c)' \in {0, 1}
      BY DEF Handled
    <3>3. Load(c) = 0
      BY <1>b, <2>1, <2>3
    <3>4. Load(c)' <= 1
      BY <1>c, <2>1, <3>2, <3>3 DEF Load
    <3>5. ended[ServerOf(c)][PortOf[c]] = 0
      BY <1>e, <2>1, <2>3
    <3> QED
      BY <2>1, <3>1, <3>4, <3>5 DEF PrivateOK
  <2>4. CASE e # c
    <3>1. Entry(c)' = Entry(c)
      BY <1>a, <1>d, <2>1, <2>4 DEF Entry
    <3>2. ~Busy(t, c)
      BY <1>a, <2>1, <2>2 DEF Busy, ThreadsOK, Knows, Idle
    <3>3. sock'[c] = sock[c]
      BY <2>1, <2>4 DEF SockSet
    <3> HIDE DEF t, v
    <3>4. Busy(ServerOf(c), c)' <=> Busy(ServerOf(c), c)
      BY <1>a, <2>1, <2>2, <2>4, <3>2, BusyStays
    <3> QED
      BY <2>1, <3>1, <3>3, <3>4, PrivateKept
  <2> QED
    BY <2>3, <2>4
<1>5. ASSUME NEW e \in Cnxs, handshake_ssl(e)
      PROVE  PrivateOK(c)'
  <2> DEFINE next == IF e \in WsCnxs THEN {"accept"} ELSE Open(e)
  <2>1. /\ pending[e]["tls"] > 0 /\ Chain(e, "tls", next)
        /\ UNCHANGED <<m_cnxs, sock, th, ended>>
    BY <1>5, HandshakeDoes
  <2>2. Handled(c)' = Handled(c) /\ Entry(c)' = Entry(c) /\ (Busy(ServerOf(c), c)' <=> Busy(ServerOf(c), c))
    BY <2>1 DEF Handled, Busy, Entry
  <2>3. CASE e = c
    <3>1. "tls" \notin next /\ ~("accept" \in next /\ "read" \in next)
      BY DEF Open
    <3>2. /\ pending'[c]["tls"] = pending[c]["tls"] - 1
          /\ pending'[c]["accept"] = pending[c]["accept"] + (IF "accept" \in next THEN 1 ELSE 0)
          /\ pending'[c]["read"] = pending[c]["read"] + (IF "read" \in next THEN 1 ELSE 0)
      BY <1>c, <2>1, <2>3, <3>1, OpsAre DEF Chain
    <3>3. Handled(c) \in {0, 1}
      BY DEF Handled
    <3>4. Load(c)' <= Load(c)
      BY <1>c, <2>2, <3>1, <3>2, <3>3 DEF Load
    <3>5. Load(c)' <= 1
      <4>1. Load(c)' \in Nat
        BY <1>c, <2>1, <2>2, <2>3, <3>2, <3>3 DEF Load
      <4> QED
        BY <1>c, <1>e, <3>4, <4>1
    <3> QED
      BY <1>e, <2>1, <2>2, <3>5 DEF PrivateOK, Registered
  <2>4. CASE e # c
    BY <2>1, <2>2, <2>4, PrivateKept DEF Chain
  <2> QED
    BY <2>3, <2>4
<1>6. ASSUME NEW e \in Cnxs, accept_ssl(e)
      PROVE  PrivateOK(c)'
  <2>1. /\ pending[e]["accept"] > 0 /\ Chain(e, "accept", {"read"}) /\ SockSet(e, "open")
        /\ sock[e] # "closed" /\ UNCHANGED <<m_cnxs, th, ended>>
    BY <1>6, AcceptSslDoes
  <2>2. Handled(c)' = Handled(c) /\ Entry(c)' = Entry(c) /\ (Busy(ServerOf(c), c)' <=> Busy(ServerOf(c), c))
    BY <2>1 DEF Handled, Busy, Entry
  <2>3. CASE e = c
    <3>1. sock[c] # "none"
      BY <2>1, <2>3, PendingHasSocket, OpsAre
    <3>2. /\ pending'[c]["tls"] = pending[c]["tls"]
          /\ pending'[c]["accept"] = pending[c]["accept"] - 1
          /\ pending'[c]["read"] = pending[c]["read"] + 1
      BY <1>c, <2>1, <2>3, OpsAre DEF Chain
    <3>3. Handled(c) \in {0, 1}
      BY DEF Handled
    <3>4. Load(c)' = Load(c)
      BY <1>c, <2>2, <3>2, <3>3 DEF Load
    <3>5. Registered(c)
      BY <1>a, <1>e, <2>1, <2>3, <3>1
    <3> QED
      BY <1>e, <2>1, <2>2, <3>4, <3>5 DEF PrivateOK, Registered
  <2>4. CASE e # c
    BY <2>1, <2>2, <2>4, PrivateKept DEF Chain, SockSet
  <2> QED
    BY <2>3, <2>4
<1>7. ASSUME NEW e \in Cnxs, ReadData(e)
      PROVE  PrivateOK(c)'
  <2> DEFINE t == ServerOf(e)
             v == Handling(e)
  <2>1. /\ th[t].at = "idle" /\ pending[e]["read"] > 0 /\ Chain(e, "read", {}) /\ Turns(t, v)
        /\ UNCHANGED <<m_cnxs, sock, ended>>
    BY <1>7, ReadDataDoes
  <2>2. t \in Threads /\ v.at = "handler" /\ v.reader = e /\ Entry(c)' = Entry(c)
    BY <2>1, Constants DEF Handling, Entry
  <2>3. ~Busy(t, c)
    BY <1>a, <2>1, <2>2 DEF Busy, ThreadsOK, Knows, Idle
  <2>4. CASE e = c
    <3>1. Handled(c) = 0 /\ Handled(c)' \in {0, 1}
      BY <2>3, <2>4 DEF Handled
    <3>2. /\ pending'[c]["tls"] = pending[c]["tls"]
          /\ pending'[c]["accept"] = pending[c]["accept"]
          /\ pending'[c]["read"] = pending[c]["read"] - 1
      BY <1>c, <2>1, <2>4, OpsAre DEF Chain
    <3>3. Load(c)' <= 1
      BY <1>c, <1>e, <3>1, <3>2 DEF Load
    <3> QED
      BY <1>e, <2>1, <2>2, <3>3 DEF PrivateOK, Registered
  <2>5. CASE e # c
    <3> HIDE DEF t, v
    <3>1. Busy(ServerOf(c), c)' <=> Busy(ServerOf(c), c)
      BY <1>a, <2>1, <2>2, <2>3, <2>5, BusyStays
    <3> QED
      BY <2>1, <2>2, <2>5, <3>1, PrivateKept DEF Chain
  <2> QED
    BY <2>4, <2>5
<1>8. ASSUME NEW e \in Cnxs, NEW op \in Ops, Fails(e, op)
      PROVE  PrivateOK(c)'
  <2> DEFINE t == ServerOf(e)
             v == Ending("close", e, None)
  <2>1. /\ th[t].at = "idle" /\ pending[e][op] > 0 /\ Chain(e, op, {}) /\ Turns(t, v)
        /\ SockSet(e, Broken(e)) /\ UNCHANGED <<m_cnxs, ended>>
    BY <1>8, FailsDoes
  <2>2. t \in Threads /\ v.at = "close" /\ v.reader = None /\ Entry(c)' = Entry(c)
    BY <2>1, Constants DEF Ending, Entry
  <2>3. ~Busy(t, c)
    BY <1>a, <2>1, <2>2 DEF Busy, ThreadsOK, Knows, Idle
  <2> HIDE DEF t, v
  <2>4. Busy(ServerOf(c), c)' <=> Busy(ServerOf(c), c)
    BY <1>a, <2>1, <2>2, <2>3, BusyStays
  <2>5. CASE e = c
    <3>1. sock[c] # "none"
      BY <2>1, <2>5, PendingHasSocket
    <3>2. Handled(c)' = Handled(c) /\ Handled(c) \in {0, 1}
      BY <2>4 DEF Handled
    <3>3. /\ pending'[c]["tls"] = pending[c]["tls"] - (IF op = "tls" THEN 1 ELSE 0)
          /\ pending'[c]["accept"] = pending[c]["accept"] - (IF op = "accept" THEN 1 ELSE 0)
          /\ pending'[c]["read"] = pending[c]["read"] - (IF op = "read" THEN 1 ELSE 0)
      BY <1>c, <2>1, <2>5, OpsAre DEF Chain
    <3>4. Load(c)' <= 1
      BY <1>c, <1>e, <3>2, <3>3 DEF Load
    <3>5. sock'[c] \in {sock[c], "closed"}
      BY <2>1, <2>5 DEF SockSet, Broken
    <3> QED
      BY <1>e, <2>1, <2>2, <3>1, <3>4, <3>5 DEF PrivateOK, Registered
  <2>6. CASE e # c
    BY <2>1, <2>2, <2>4, <2>6, PrivateKept DEF Chain, SockSet
  <2> QED
    BY <2>5, <2>6
<1>9. ASSUME NEW t \in Threads, RunAccepted(t)
      PROVE  PrivateOK(c)'
  <2> DEFINE e == th[t].cnx
             x == Entry(e)
  <2>1. /\ th[t].at = "run" /\ e \in Cnxs /\ Turns(t, Idle)
        /\ \A d \in Cnxs : d # x => pending'[d] = pending[d]
        /\ x # None => \A o \in Ops :
             pending'[x][o] = pending[x][o] + (IF o = "tls" THEN 1 ELSE 0)
        /\ UNCHANGED <<m_cnxs, sock, ended>>
    BY <1>9, RunAcceptedDoes
  <2>2. t = ServerOf(e) /\ th[t].reader = None
    BY <2>1 DEF ThreadsOK, Knows
  <2>3. Entry(c)' = Entry(c)
    BY <2>1 DEF Entry
  <2>4. CASE e = c
    <3>1. Handled(c) = 1 /\ Handled(c)' = 0
      <4>1. Busy(ServerOf(c), c) /\ ~Busy(ServerOf(c), c)'
        BY <1>a, <2>1, <2>2, <2>4, Constants DEF Busy, Turns
      <4> QED
        BY <4>1 DEF Handled
    <3>2. /\ pending'[c]["tls"] \in {pending[c]["tls"], pending[c]["tls"] + 1}
          /\ pending'[c]["accept"] = pending[c]["accept"]
          /\ pending'[c]["read"] = pending[c]["read"]
      BY <1>a, <1>b, <1>c, <2>1, <2>4, OpsAre
    <3>3. Load(c)' <= 1
      BY <1>c, <1>e, <3>1, <3>2 DEF Load
    <3> QED
      BY <1>e, <2>1, <2>3, <3>3 DEF PrivateOK, Registered
  <2>5. CASE e # c
    <3>1. x # c
      BY <1>b, <2>1, <2>5
    <3>2. ~Busy(t, c)
      BY <1>a, <2>1, <2>2, <2>5 DEF Busy
    <3>3. Busy(ServerOf(c), c)' <=> Busy(ServerOf(c), c)
      BY <1>a, <2>1, <3>2, BusyStays, Constants
    <3> QED
      BY <2>1, <2>3, <3>1, <3>3, PrivateKept
  <2> QED
    BY <2>4, <2>5
<1>10. ASSUME NEW t \in Threads, ReadOn(t)
       PROVE  PrivateOK(c)'
  <2> DEFINE r == th[t].reader
  <2>1. /\ th[t].at = "handler" /\ r \in Cnxs /\ Chain(r, None, Open(r)) /\ Turns(t, Idle)
        /\ UNCHANGED <<m_cnxs, sock, ended>>
    BY <1>10, ReadOnDoes
  <2>2. Entry(c)' = Entry(c) /\ t = ServerOf(r)
    BY <2>1, Constants DEF Entry, ThreadsOK, Knows
  <2>3. CASE r = c
    <3>1. Handled(c) = 1 /\ Handled(c)' = 0
      <4>1. Busy(ServerOf(c), c) /\ ~Busy(ServerOf(c), c)'
        BY <1>a, <2>1, <2>2, <2>3, Constants DEF Busy, Turns
      <4> QED
        BY <4>1 DEF Handled
    <3>2. "tls" \notin Open(c) /\ "accept" \notin Open(c)
      BY DEF Open
    <3>3. /\ pending'[c]["tls"] = pending[c]["tls"]
          /\ pending'[c]["accept"] = pending[c]["accept"]
          /\ pending'[c]["read"] \in {pending[c]["read"], pending[c]["read"] + 1}
      BY <1>c, <2>1, <2>3, <3>2, OpsAre, Constants DEF Chain
    <3>4. Load(c)' <= 1
      BY <1>c, <1>e, <3>1, <3>3 DEF Load
    <3> QED
      BY <1>e, <2>1, <2>2, <3>4 DEF PrivateOK, Registered
  <2>4. CASE r # c
    <3>1. ~Busy(t, c)
      BY <1>a, <2>1, <2>4 DEF Busy
    <3>2. Busy(ServerOf(c), c)' <=> Busy(ServerOf(c), c)
      BY <1>a, <2>1, <3>1, BusyStays, Constants
    <3> QED
      BY <2>1, <2>2, <2>4, <3>2, PrivateKept DEF Chain
  <2> QED
    BY <2>3, <2>4
<1>11. ASSUME NEW t \in Threads, Shut(t)
       PROVE  PrivateOK(c)'
  <2> DEFINE e == th[t].cnx
             v == Ending("unregister", e, th[t].reader)
  <2>1. /\ th[t].at = "close" /\ e \in Cnxs /\ SockSet(e, "closed") /\ Turns(t, v)
        /\ UNCHANGED <<m_cnxs, pending, ended>>
    BY <1>11, ShutDoes
  <2>2. v.at = "unregister" /\ v.reader = th[t].reader /\ Entry(c)' = Entry(c) /\ sock[e] # "none"
    BY <2>1, Constants DEF Ending, Entry, ThreadsOK, Knows
  <2>3. (v.reader = c \/ (v.at = "run" /\ v.cnx = c)) <=> Busy(t, c)
    BY <2>1, <2>2 DEF Busy
  <2> HIDE DEF v, e
  <2>4. Busy(ServerOf(c), c)' <=> Busy(ServerOf(c), c)
    BY <2>1, <2>3, BusyStays
  <2>5. CASE e = c
    <3>1. Load(c)' = Load(c)
      BY <2>1, <2>4, LoadSame
    <3> QED
      BY <1>e, <2>1, <2>2, <2>5, <3>1 DEF PrivateOK, Registered, SockSet
  <2>6. CASE e # c
    BY <2>1, <2>2, <2>4, <2>6, PrivateKept DEF SockSet
  <2> QED
    BY <2>5, <2>6
<1>12. ASSUME NEW t \in Threads, CloseThrows(t)
       PROVE  PrivateOK(c)'
  BY <1>12, CloseThrowsDoes, PrivateKept DEF Entry, Busy
<1>13. ASSUME NEW t \in Threads, Unregister(t)
       PROVE  PrivateOK(c)'
  <2> DEFINE e == th[t].cnx
             v == Back(t)
  <2>1. /\ th[t].at = "unregister" /\ e \in Cnxs /\ Turns(t, v) /\ UNCHANGED <<sock, pending>>
        /\ m_cnxs'[ServerOf(e)][PortOf[e]] = None
        /\ \A s \in Servers, p \in Ports :
             s # ServerOf(e) \/ p # PortOf[e] => m_cnxs'[s][p] = m_cnxs[s][p]
        /\ \A s \in Servers, p \in Ports :
             ended'[s][p] = IF s = ServerOf(e) /\ p = PortOf[e] /\ Entry(e) # None
                            THEN ended[s][p] + 1 ELSE ended[s][p]
    BY <1>13, UnregisterDoes
  <2>2. sock[e] = "closed"
    BY <2>1 DEF ThreadsOK, Knows
  <2>3. (v.reader = c \/ (v.at = "run" /\ v.cnx = c)) <=> Busy(t, c)
    BY <1>a, <2>1 DEF Busy, Back, Idle, Handling
  <2> HIDE DEF v, e
  <2>4. Busy(ServerOf(c), c)' <=> Busy(ServerOf(c), c)
    BY <2>1, <2>3, BusyStays
  <2>5. CASE e = c
    <3>1. Load(c)' = Load(c)
      BY <2>1, <2>4, LoadSame
    <3>2. ~Registered(c)'
      BY <1>a, <2>1, <2>5 DEF Registered, Entry
    <3>3. ended'[ServerOf(c)][PortOf[c]] = 1
      BY <1>a, <1>b, <1>e, <2>1, <2>2, <2>5 DEF Registered
    <3> QED
      BY <1>e, <2>1, <2>2, <2>5, <3>1, <3>2, <3>3 DEF PrivateOK
  <2>6. CASE e # c
    <3>1. Entry(c)' = Entry(c)
      BY <1>a, <1>d, <2>1, <2>6 DEF Entry
    <3>2. ended'[ServerOf(c)][PortOf[c]] = ended[ServerOf(c)][PortOf[c]]
      BY <1>a, <1>d, <2>1, <2>6
    <3> QED
      BY <2>1, <2>4, <3>1, <3>2, PrivateKept
  <2> QED
    BY <2>5, <2>6
<1>14. ASSUME NEW t \in Threads, NEW e \in Cnxs, WriteCloses(t, e)
       PROVE  PrivateOK(c)'
  <2> DEFINE v == Ending("close", e, th[t].reader)
  <2>1. PICK x \in {"open", "closed"} : SockSet(e, x)
    BY <1>14, WriteClosesDoes
  <2>2. /\ th[t].cnx = None /\ sock[e] = "open" /\ Turns(t, v)
        /\ UNCHANGED <<m_cnxs, pending, ended>>
    BY <1>14, WriteClosesDoes
  <2>3. (v.reader = c \/ (v.at = "run" /\ v.cnx = c)) <=> Busy(t, c)
    BY <1>a, <2>2 DEF Busy, Ending
  <2> HIDE DEF v
  <2>4. Busy(ServerOf(c), c)' <=> Busy(ServerOf(c), c)
    BY <2>2, <2>3, BusyStays
  <2>5. Entry(c)' = Entry(c)
    BY <2>2 DEF Entry
  <2>6. CASE e = c
    <3>1. Load(c)' = Load(c)
      BY <2>2, <2>4, LoadSame
    <3> QED
      BY <1>e, <2>1, <2>2, <2>5, <2>6, <3>1 DEF PrivateOK, Registered, SockSet
  <2>7. CASE e # c
    BY <2>1, <2>2, <2>4, <2>5, <2>7, PrivateKept DEF SockSet
  <2> QED
    BY <2>6, <2>7
<1> QED
  BY <1>2, <1>3, <1>4, <1>5, <1>6, <1>7, <1>8, <1>9, <1>10, <1>11, <1>12, <1>13, <1>14, Steps


-----------------------------------------------------------------------------
(* Who notices the end of a registered connection.                         *)
Waits(t, c) == th[t].cnx # None /\ th[t].at # "handler" /\ Entry(th[t].cnx) = c
Tended(c) == Load(c) > 0 \/ \E t \in Threads : Waits(t, c)

LEMMA WaitsStays ==
  ASSUME ConnectionsTypeOK, NEW c \in Cnxs, NEW t \in Threads, NEW v, Turns(t, v),
         \A d \in Cnxs : Entry(d) = c => Entry(d)' = c,
         Waits(t, c) => v.cnx = th[t].cnx /\ v.at # "handler"
  PROVE  \A u \in Threads : Waits(u, c) => Waits(u, c)'
<1> SUFFICES ASSUME NEW u \in Threads, Waits(u, c)
             PROVE  Waits(u, c)'
  OBVIOUS
<1>1. th[u].cnx \in Cnxs
  BY TypeFacts DEF Waits, Thread
<1>2. th'[u].cnx = th[u].cnx /\ th'[u].at # "handler"
  BY DEF Turns, Waits
<1>3. m_cnxs'[ServerOf(th[u].cnx)][PortOf[th[u].cnx]] = c
  BY <1>1 DEF Waits, Entry
<1> QED
  BY <1>1, <1>2, <1>3, Constants DEF Waits, Entry

LEMMA WaitsSame ==
  ASSUME UNCHANGED <<m_cnxs, th>>, NEW c, NEW u
  PROVE  Waits(u, c) <=> Waits(u, c)'
BY DEF Waits, Entry

(* Steps that leave c alone.                                               *)
LEMMA TendedKept ==
  ASSUME NEW c \in Cnxs, Tended(c), pending'[c] = pending[c],
         Busy(ServerOf(c), c)' <=> Busy(ServerOf(c), c),
         \A u \in Threads : Waits(u, c) => Waits(u, c)'
  PROVE  Tended(c)'
BY LoadSame DEF Tended

LEMMA LoadPositive ==
  ASSUME NEW c \in Cnxs, pending[c]["tls"] \in Nat, pending[c]["accept"] \in Nat, pending[c]["read"] \in Nat,
         \/ \E op \in Ops : pending[c][op] > 0
         \/ Busy(ServerOf(c), c)
  PROVE  Load(c) > 0
<1>1. Handled(c) \in {0, 1} /\ (Busy(ServerOf(c), c) => Handled(c) = 1)
  BY DEF Handled
<1>2. (\E op \in Ops : pending[c][op] > 0) =>
        pending[c]["tls"] > 0 \/ pending[c]["accept"] > 0 \/ pending[c]["read"] > 0
  BY DEF Ops
<1> HIDE DEF Ops
<1> QED
  BY <1>1, <1>2 DEF Load

LEMMA LoadPositiveNext ==
  ASSUME NEW c \in Cnxs, ConnectionsTypeOK',
         \/ \E op \in Ops : pending'[c][op] > 0
         \/ Busy(ServerOf(c), c)'
  PROVE  Load(c)' > 0
<1>1. pending'[c]["tls"] \in Nat /\ pending'[c]["accept"] \in Nat /\ pending'[c]["read"] \in Nat
  BY OpsAre DEF ConnectionsTypeOK
<1>2. Handled(c)' \in {0, 1} /\ (Busy(ServerOf(c), c)' => Handled(c)' = 1)
  BY DEF Handled
<1>3. (\E op \in Ops : pending'[c][op] > 0) =>
        pending'[c]["tls"] > 0 \/ pending'[c]["accept"] > 0 \/ pending'[c]["read"] > 0
  BY DEF Ops
<1> QED
  BY <1>1, <1>2, <1>3 DEF Load

LEMMA TendedStep ==
  ASSUME ConnInv, [ConnectionsNext]_vars, NEW c \in Cnxs, Registered(c) /\ ~crashed => Tended(c)
  PROVE  (Registered(c) /\ ~crashed)' => Tended(c)'
<1> USE DEF ConnInv
<1>a. /\ ServerOf(c) \in Threads /\ ServerOf(c) \in Servers /\ PortOf[c] \in Ports /\ c # None
      /\ sock \in [Cnxs -> {"none", "raw", "open", "closed"}] /\ pending \in [Cnxs -> [Ops -> Nat]]
  BY Constants, TypeFacts
<1>b. \A d \in Cnxs : Entry(d) = c => Registered(c) /\ ServerOf(d) = ServerOf(c) /\ PortOf[d] = PortOf[c]
  BY <1>a, EntryIsRegistered
<1>t. ConnectionsTypeOK'
  BY TypeStep
<1> SUFFICES ASSUME Registered(c)', ~crashed'
             PROVE  Tended(c)'
  OBVIOUS
<1>2. CASE UNCHANGED <<m_cnxs, sock, peer, pending, th, ended, crashed>>
  <2>1. Registered(c) /\ ~crashed
    BY <1>2 DEF Registered, Entry
  <2> QED
    BY <1>2, <2>1, TendedKept, WaitsSame DEF Busy
<1>3. ASSUME NEW e \in Cnxs, PeerLeaves(e)
      PROVE  Tended(c)'
  <2>1. Registered(c) /\ ~crashed /\ UNCHANGED <<m_cnxs, sock, pending, th, ended, crashed>>
    BY <1>3, PeerLeavesDoes DEF Registered, Entry
  <2> QED
    BY <2>1, TendedKept, WaitsSame DEF Busy
<1>4. ASSUME NEW e \in Cnxs, Accept(e)
      PROVE  Tended(c)'
  <2> DEFINE t == ServerOf(e)
             v == [at |-> "run", cnx |-> e, reader |-> None]
  <2>1. /\ ~crashed /\ th[t].at = "idle" /\ Turns(t, v)
        /\ \A s \in Servers, p \in Ports :
             s # ServerOf(e) \/ p # PortOf[e] => m_cnxs'[s][p] = m_cnxs[s][p]
        /\ m_cnxs'[ServerOf(e)][PortOf[e]] = (IF Entry(e) = None THEN e ELSE Entry(e))
        /\ pending' = pending
    BY <1>4, AcceptDoes DEF Entry
  <2>2. /\ t \in Threads /\ t \in Servers /\ PortOf[e] \in Ports /\ e # None
        /\ v.cnx = e /\ v.at = "run" /\ v.reader = None
    BY Constants
  <2>3. CASE e = c
    <3>1. Waits(t, c)'
      BY <1>a, <2>1, <2>2, <2>3 DEF Waits, Turns, Registered, Entry
    <3> QED
      BY <2>2, <3>1 DEF Tended
  <2>4. CASE e # c
    <3>1. Registered(c)
      BY <1>a, <1>b, <2>1, <2>4 DEF Registered, Entry
    <3>2. \A d \in Cnxs : Entry(d) = c => Entry(d)' = c
      BY <1>a, <1>b, <2>1, <2>4 DEF Entry
    <3>3. ~Busy(t, c) /\ ~Waits(t, c)
      BY <1>a, <2>1, <2>2 DEF Busy, Waits, ThreadsOK, Knows, Idle
    <3> HIDE DEF t, v
    <3>4. Busy(ServerOf(c), c)' <=> Busy(ServerOf(c), c)
      BY <1>a, <2>1, <2>2, <2>4, <3>3, BusyStays
    <3>5. \A u \in Threads : Waits(u, c) => Waits(u, c)'
      BY <2>1, <2>2, <3>2, <3>3, WaitsStays
    <3> QED
      BY <2>1, <3>1, <3>4, <3>5, TendedKept
  <2> QED
    BY <2>3, <2>4
<1>5. ASSUME NEW e \in Cnxs, handshake_ssl(e)
      PROVE  Tended(c)'
  <2> DEFINE next == IF e \in WsCnxs THEN {"accept"} ELSE Open(e)
  <2>1. /\ ~crashed /\ pending[e]["tls"] > 0 /\ sock[e] # "closed" /\ Chain(e, "tls", next)
        /\ UNCHANGED <<m_cnxs, sock, th>>
    BY <1>5, HandshakeDoes
  <2>2. Registered(c) /\ (Busy(ServerOf(c), c)' <=> Busy(ServerOf(c), c))
    BY <2>1 DEF Registered, Entry, Busy
  <2>3. CASE e = c
    <3>1. sock[c] = "open" \/ c \in WsCnxs
      BY <1>a, <2>1, <2>3, PendingHasSocket, OpsAre DEF SocketsOK, SocketOK
    <3>2. ("accept" \in next \/ "read" \in next) /\ "tls" \notin next
      BY <2>3, <3>1 DEF Open
    <3>3. pending'[c]["accept"] > 0 \/ pending'[c]["read"] > 0
      BY <1>a, <2>1, <2>3, <3>2, OpsAre DEF Chain
    <3> QED
      BY <1>t, <3>3, OpsAre, LoadPositiveNext DEF Tended
  <2>4. CASE e # c
    BY <2>1, <2>2, <2>4, TendedKept, WaitsSame DEF Chain
  <2> QED
    BY <2>3, <2>4
<1>6. ASSUME NEW e \in Cnxs, accept_ssl(e)
      PROVE  Tended(c)'
  <2>1. ~crashed /\ Chain(e, "accept", {"read"}) /\ UNCHANGED <<m_cnxs, th>>
    BY <1>6, AcceptSslDoes
  <2>2. Registered(c) /\ (Busy(ServerOf(c), c)' <=> Busy(ServerOf(c), c))
    BY <2>1 DEF Registered, Entry, Busy
  <2>3. CASE e = c
    <3>1. pending'[c]["read"] > 0
      BY <1>a, <2>1, <2>3, OpsAre DEF Chain
    <3> QED
      BY <1>t, <3>1, OpsAre, LoadPositiveNext DEF Tended
  <2>4. CASE e # c
    BY <2>1, <2>2, <2>4, TendedKept, WaitsSame DEF Chain
  <2> QED
    BY <2>3, <2>4
<1>7. ASSUME NEW e \in Cnxs, ReadData(e)
      PROVE  Tended(c)'
  <2> DEFINE t == ServerOf(e)
             v == Handling(e)
  <2>1. /\ ~crashed /\ th[t].at = "idle" /\ Chain(e, "read", {}) /\ Turns(t, v)
        /\ UNCHANGED <<m_cnxs, sock>>
    BY <1>7, ReadDataDoes
  <2>2. t \in Threads /\ v.at = "handler" /\ v.reader = e /\ Registered(c)
    BY <2>1, Constants DEF Handling, Registered, Entry
  <2>3. CASE e = c
    <3>1. Busy(ServerOf(c), c)'
      BY <2>1, <2>2, <2>3 DEF Busy, Turns
    <3> QED
      BY <1>t, <3>1, LoadPositiveNext DEF Tended
  <2>4. CASE e # c
    <3>1. ~Busy(t, c) /\ ~Waits(t, c)
      BY <1>a, <2>1, <2>2 DEF Busy, Waits, ThreadsOK, Knows, Idle
    <3>2. \A d \in Cnxs : Entry(d) = c => Entry(d)' = c
      BY <2>1 DEF Entry
    <3> HIDE DEF t, v
    <3>3. Busy(ServerOf(c), c)' <=> Busy(ServerOf(c), c)
      BY <1>a, <2>1, <2>2, <2>4, <3>1, BusyStays
    <3>4. \A u \in Threads : Waits(u, c) => Waits(u, c)'
      BY <2>1, <2>2, <3>1, <3>2, WaitsStays
    <3> QED
      BY <2>1, <2>2, <2>4, <3>3, <3>4, TendedKept DEF Chain
  <2> QED
    BY <2>3, <2>4
<1>8. ASSUME NEW e \in Cnxs, NEW op \in Ops, Fails(e, op)
      PROVE  Tended(c)'
  <2> DEFINE t == ServerOf(e)
             v == Ending("close", e, None)
  <2>1. /\ ~crashed /\ th[t].at = "idle" /\ Chain(e, op, {}) /\ Turns(t, v) /\ m_cnxs' = m_cnxs
    BY <1>8, FailsDoes
  <2>2. /\ t \in Threads /\ v.at = "close" /\ v.cnx = e /\ v.reader = None
        /\ Entry(c)' = Entry(c) /\ Registered(c)
    BY <2>1, Constants DEF Ending, Registered, Entry
  <2>3. CASE e = c
    <3>1. Waits(t, c)'
      BY <1>a, <2>1, <2>2, <2>3 DEF Waits, Turns, Registered, Entry
    <3> QED
      BY <2>2, <3>1 DEF Tended
  <2>4. CASE e # c
    <3>1. ~Busy(t, c) /\ ~Waits(t, c)
      BY <1>a, <2>1, <2>2 DEF Busy, Waits, ThreadsOK, Knows, Idle
    <3>2. \A d \in Cnxs : Entry(d) = c => Entry(d)' = c
      BY <2>1 DEF Entry
    <3> HIDE DEF t, v
    <3>3. Busy(ServerOf(c), c)' <=> Busy(ServerOf(c), c)
      BY <1>a, <2>1, <2>2, <2>4, <3>1, BusyStays
    <3>4. \A u \in Threads : Waits(u, c) => Waits(u, c)'
      BY <2>1, <2>2, <3>1, <3>2, WaitsStays
    <3> QED
      BY <2>1, <2>2, <2>4, <3>3, <3>4, TendedKept DEF Chain
  <2> QED
    BY <2>3, <2>4
<1>9. ASSUME NEW t \in Threads, RunAccepted(t)
      PROVE  Tended(c)'
  <2> DEFINE e == th[t].cnx
             x == Entry(e)
  <2>1. /\ ~crashed /\ th[t].at = "run" /\ e \in Cnxs /\ Turns(t, Idle)
        /\ \A d \in Cnxs : d # x => pending'[d] = pending[d]
        /\ x # None => \A o \in Ops :
             pending'[x][o] = pending[x][o] + (IF o = "tls" THEN 1 ELSE 0)
        /\ UNCHANGED <<m_cnxs, sock>>
    BY <1>9, RunAcceptedDoes
  <2>2. Registered(c) /\ (\A d \in Cnxs : Entry(d) = c => Entry(d)' = c)
    BY <2>1 DEF Registered, Entry
  <2>3. CASE x = c
    <3>1. pending'[c]["tls"] > 0
      BY <1>a, <2>1, <2>3, OpsAre
    <3> QED
      BY <1>t, <3>1, OpsAre, LoadPositiveNext DEF Tended
  <2>4. CASE x # c
    <3>1. ~Busy(t, c) /\ ~Waits(t, c)
      BY <1>a, <2>1, <2>2, <2>4 DEF Busy, Waits, ThreadsOK, Knows, Registered
    <3>2. Busy(ServerOf(c), c)' <=> Busy(ServerOf(c), c)
      BY <1>a, <2>1, <3>1, BusyStays, Constants
    <3>3. \A u \in Threads : Waits(u, c) => Waits(u, c)'
      BY <2>1, <2>2, <3>1, WaitsStays
    <3> QED
      BY <2>1, <2>2, <2>4, <3>2, <3>3, TendedKept
  <2> QED
    BY <2>3, <2>4
<1>10. ASSUME NEW t \in Threads, ReadOn(t)
       PROVE  Tended(c)'
  <2> DEFINE r == th[t].reader
  <2>1. /\ ~crashed /\ th[t].at = "handler" /\ r \in Cnxs /\ th[t].cnx = None
        /\ Chain(r, None, Open(r)) /\ Turns(t, Idle) /\ UNCHANGED <<m_cnxs, sock>>
    BY <1>10, ReadOnDoes
  <2>2. Registered(c) /\ ~Waits(t, c) /\ (\A d \in Cnxs : Entry(d) = c => Entry(d)' = c)
    BY <2>1 DEF Registered, Entry, Waits
  <2>3. \A u \in Threads : Waits(u, c) => Waits(u, c)'
    BY <2>1, <2>2, WaitsStays
  <2>4. CASE r = c
    <3>1. CASE sock[c] = "open"
      <4>1. pending'[c]["read"] > 0
        BY <1>a, <2>1, <2>4, <3>1, OpsAre, Constants DEF Chain, Open
      <4> QED
        BY <1>t, <4>1, OpsAre, LoadPositiveNext DEF Tended
    <3>2. CASE sock[c] # "open"
      <4>1. sock[c] = "closed"
        BY <1>a, <2>1, <2>4, <3>2 DEF ThreadsOK, Knows
      <4>2. PICK u \in Threads : Erasing(u, c)
        BY <2>2, <4>1 DEF SocketsOK, SocketOK
      <4>3. Waits(u, c)
        BY <1>a, <2>2, <4>2 DEF Erasing, Waits, Registered
      <4> QED
        BY <2>3, <4>3 DEF Tended
    <3> QED
      BY <3>1, <3>2
  <2>5. CASE r # c
    <3>1. ~Busy(t, c)
      BY <1>a, <2>1, <2>5 DEF Busy
    <3>2. Busy(ServerOf(c), c)' <=> Busy(ServerOf(c), c)
      BY <1>a, <2>1, <3>1, BusyStays, Constants
    <3> QED
      BY <2>1, <2>2, <2>3, <2>5, <3>2, TendedKept DEF Chain
  <2> QED
    BY <2>4, <2>5
<1>11. ASSUME NEW t \in Threads, Shut(t)
       PROVE  Tended(c)'
  <2> DEFINE v == Ending("unregister", th[t].cnx, th[t].reader)
  <2>1. ~crashed /\ th[t].at = "close" /\ Turns(t, v) /\ UNCHANGED <<m_cnxs, pending>>
    BY <1>11, ShutDoes
  <2>2. /\ v.at = "unregister" /\ v.cnx = th[t].cnx
        /\ (v.reader = c \/ (v.at = "run" /\ v.cnx = c)) <=> Busy(t, c)
    BY <2>1 DEF Ending, Busy
  <2>3. Registered(c) /\ (\A d \in Cnxs : Entry(d) = c => Entry(d)' = c)
    BY <2>1 DEF Registered, Entry
  <2> HIDE DEF v
  <2>4. Busy(ServerOf(c), c)' <=> Busy(ServerOf(c), c)
    BY <2>1, <2>2, BusyStays
  <2>5. \A u \in Threads : Waits(u, c) => Waits(u, c)'
    BY <2>1, <2>2, <2>3, WaitsStays
  <2> QED
    BY <2>1, <2>3, <2>4, <2>5, TendedKept
<1>12. ASSUME NEW t \in Threads, CloseThrows(t)
       PROVE  Tended(c)'
  BY <1>12, CloseThrowsDoes
<1>13. ASSUME NEW t \in Threads, Unregister(t)
       PROVE  Tended(c)'
  <2> DEFINE e == th[t].cnx
             v == Back(t)
  <2>1. /\ ~crashed /\ th[t].at = "unregister" /\ e \in Cnxs /\ Turns(t, v) /\ pending' = pending
        /\ m_cnxs'[ServerOf(e)][PortOf[e]] = None
        /\ \A s \in Servers, p \in Ports :
             s # ServerOf(e) \/ p # PortOf[e] => m_cnxs'[s][p] = m_cnxs[s][p]
    BY <1>13, UnregisterDoes
  <2>2. Registered(c) /\ (ServerOf(e) # ServerOf(c) \/ PortOf[e] # PortOf[c])
    BY <1>a, <2>1 DEF Registered, Entry
  <2>3. \A d \in Cnxs : Entry(d) = c => Entry(d)' = c
    BY <1>a, <1>b, <2>1, <2>2 DEF Entry
  <2>4. ~Waits(t, c)
    BY <1>b, <2>1, <2>2 DEF Waits
  <2>5. (v.reader = c \/ (v.at = "run" /\ v.cnx = c)) <=> Busy(t, c)
    BY <1>a, <2>1 DEF Busy, Back, Idle, Handling
  <2> HIDE DEF e, v
  <2>6. Busy(ServerOf(c), c)' <=> Busy(ServerOf(c), c)
    BY <2>1, <2>5, BusyStays
  <2>7. \A u \in Threads : Waits(u, c) => Waits(u, c)'
    BY <2>1, <2>3, <2>4, WaitsStays
  <2> QED
    BY <2>1, <2>2, <2>6, <2>7, TendedKept
<1>14. ASSUME NEW t \in Threads, NEW e \in Cnxs, WriteCloses(t, e)
       PROVE  Tended(c)'
  <2> DEFINE v == Ending("close", e, th[t].reader)
  <2>1. /\ ~crashed /\ th[t].cnx = None /\ Turns(t, v) /\ UNCHANGED <<m_cnxs, pending>>
    BY <1>14, WriteClosesDoes
  <2>2. (v.reader = c \/ (v.at = "run" /\ v.cnx = c)) <=> Busy(t, c)
    BY <1>a, <2>1 DEF Busy, Ending
  <2>3. Registered(c) /\ ~Waits(t, c) /\ (\A d \in Cnxs : Entry(d) = c => Entry(d)' = c)
    BY <2>1 DEF Registered, Entry, Waits
  <2> HIDE DEF v
  <2>4. Busy(ServerOf(c), c)' <=> Busy(ServerOf(c), c)
    BY <2>1, <2>2, BusyStays
  <2>5. \A u \in Threads : Waits(u, c) => Waits(u, c)'
    BY <2>1, <2>3, WaitsStays
  <2> QED
    BY <2>1, <2>3, <2>4, <2>5, TendedKept
<1> QED
  BY <1>2, <1>3, <1>4, <1>5, <1>6, <1>7, <1>8, <1>9, <1>10, <1>11, <1>12, <1>13, <1>14, Steps

-----------------------------------------------------------------------------
(* A connection whose port no other one of its server has is served by one *)
(* chain of operations at a time, is found in m_cnxs for as long as its    *)
(* socket is open, and its end is reported once, whichever threads close   *)
(* it and in whatever order cnx_closed and the io thread get there.        *)
THEOREM PrivatePortsCorrect == ConnectionsSpec => []PrivatePortsAreSafe
<1> DEFINE I == ConnInv /\ \A c \in Cnxs : Private(c) => PrivateOK(c)
<1>1. ConnectionsInit => I
  <2> SUFFICES ASSUME ConnectionsInit, NEW c \in Cnxs, Private(c)
               PROVE  PrivateOK(c)
    BY InvInit
  <2>1. sock[c] = "none" /\ ended[ServerOf(c)][PortOf[c]] = 0
    BY Constants DEF ConnectionsInit
  <2>2. Load(c) = 0
    BY <2>1, InvInit, PrivateFacts
  <2> QED
    BY <2>1, <2>2 DEF PrivateOK
<1>2. I /\ [ConnectionsNext]_vars => I'
  <2> SUFFICES ASSUME I, [ConnectionsNext]_vars
               PROVE  I'
    OBVIOUS
  <2>1. ConnInv'
    BY InvStep
  <2>2. ASSUME NEW c \in Cnxs, Private(c)
        PROVE  PrivateOK(c)'
    BY <2>2, PrivateStep
  <2> QED
    BY <2>1, <2>2 DEF Private
<1>3. I => PrivatePortsAreSafe
  BY ServedIsLoad DEF PrivatePortsAreSafe, PrivateOK, ConnInv
<1> QED
  BY <1>1, <1>2, <1>3, SpecSteps, PTL

(* Whatever ports collide, a connection that m_cnxs holds is served, or    *)
(* some thread is about to run or to erase what has its port: no entry is  *)
(* left that nobody will ever look at.                                     *)
THEOREM NoSilentConnectionCorrect == ConnectionsSpec => []NoSilentConnection
<1> DEFINE I == ConnInv /\ \A c \in Cnxs : Registered(c) /\ ~crashed => Tended(c)
<1>1. ConnectionsInit => I
  <2> SUFFICES ASSUME ConnectionsInit, NEW c \in Cnxs, Registered(c)
               PROVE  FALSE
    BY InvInit
  <2> QED
    BY Constants DEF ConnectionsInit, Registered, Entry
<1>2. I /\ [ConnectionsNext]_vars => I'
  <2> SUFFICES ASSUME I, [ConnectionsNext]_vars
               PROVE  I'
    OBVIOUS
  <2>1. ConnInv'
    BY InvStep
  <2>2. ASSUME NEW c \in Cnxs
        PROVE  (Registered(c) /\ ~crashed)' => Tended(c)'
    BY <2>2, TendedStep
  <2> QED
    BY <2>1, <2>2
<1>3. I => NoSilentConnection
  BY ServedIsLoad DEF NoSilentConnection, Tended, Waits, ConnInv
<1> QED
  BY <1>1, <1>2, <1>3, SpecSteps, PTL
=============================================================================
