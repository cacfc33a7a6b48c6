---------------------------- MODULE Broker_proofs ----------------------------
(***************************************************************************)
(* The broker, for any connections, logins, patterns and number of frames. *)
(*                                                                         *)
(* CallsOK gives the calls of the threads their types and their order, so  *)
(* that every step is shown to use the managers as ManagersSpec allows:    *)
(* the theorems about them hold in the broker.  SocketsOK follows a        *)
(* connection from its acceptance to the one end it has.  SessionsOK,      *)
(* where no connection sends CONNECT twice, ties the lists of the live     *)
(* sessions to the connections and to the ends under way.  On these rest   *)
(* the last parts: the answer a CONNECT is owed, what the holder of a      *)
(* write mutex still does (HoldersClose), the removal of exclusive         *)
(* sessions (EndedAreEmpty) and the sessions that frames name              *)
(* (FramesBound).                                                          *)
(***************************************************************************)
EXTENDS Broker, SubscriptionManager_proofs, FiniteSetTheorems

-----------------------------------------------------------------------------
(* The calls, as records.                                                  *)
Kinds == {"ERROR", "RECEIPT", "CONNECTED", "MESSAGE", "ACK"}
CnxOps == {"read", "drop", "unlock", "end", "unlink", "check", "leave", "unregister",
           "unsubscribe", "copy"}
CallSet ==
  [op : {"write"}, cnx : Conns, kind : Kinds, ses : Sessions, close : BOOLEAN]
    \cup [op : CnxOps, cnx : Conns, ses : Sessions]
    \cup [op : {"register"}, cnx : Conns, login : Logins, profile : Profiles]
    \cup [op : {"subscribe"}, ses : Sessions, type : {"DIRECT", "REGEX"}, dest : Patterns]
    \cup [op : {"front"}, ses : Sessions, kind : {"MESSAGE", "ACK"}]
    \cup [op : {"copies"}, ses : Sessions, left : SUBSET Sessions]

NoCall == [op |-> "none"]
Now(t) == IF todo[t] = <<>> THEN NoCall ELSE Head(todo[t])  \* what t does next
Pend(t) == Range(todo[t])                                   \* and all it has to do
Behind(t) == Range(Tail(todo[t]))

(* Only these calls ever wait behind another one, but for the              *)
(* unregister that follows a leave.                                        *)
Later == {"read", "write", "unlock", "copy", "copies"}
AllLater(q) == \A i \in DOMAIN q : q[i].op \in Later
Ordered(q) ==
  q # <<>> => IF Head(q).op = "leave"
              THEN /\ Tail(q) # <<>>
                   /\ Head(Tail(q)) = Call("unregister", Head(q).cnx, Head(q).ses)
                   /\ AllLater(Tail(Tail(q)))
              ELSE AllLater(Tail(q))

(* The ids in a call were handed out; who subscribes or unsubscribes is a  *)
(* session; a direct destination is one.                                   *)
IdsOK(r) ==
  /\ r.op \in CnxOps \cup {"write", "subscribe", "front", "copies"} => r.ses <= created
  /\ r.op \in {"subscribe", "unsubscribe"} => r.ses # Null
  /\ r.op = "subscribe" /\ r.type = "DIRECT" => Cardinality(r.dest) = 1
  /\ r.op = "copies" => r.left \subseteq 0..created

CallsOK ==
  /\ todo \in [Threads -> Seq(CallSet)]
  /\ \A t \in Threads : Ordered(todo[t])
  /\ \A t \in Threads : \A r \in Pend(t) : IdsOK(r)

BrokerInv == RegistryTypeOK /\ SubscriptionTypeOK /\ BrokerTypeOK /\ CallsOK

-----------------------------------------------------------------------------
(* The life of a connection.                                               *)
AboutCnx == CnxOps \cup {"write", "register"}
EndingOps == {"end", "unlink", "check", "leave"}
ClosedOps == EndingOps \cup {"drop", "unregister"}

AcceptedOnce ==              \* what is known of a connection was accepted
  /\ \A c \in m_cnxs \cup reading : socket[c] # "new"
  /\ \A t \in Threads : \A r \in Pend(t) : r.op \in AboutCnx => socket[r.cnx] # "new"
  /\ \A s \in Sessions : \A i \in DOMAIN cnxs[s] : socket[cnxs[s][i]] # "new"
OpenIsRegistered == \A c \in Conns : socket[c] = "open" => c \in m_cnxs
ClosedIsDropped ==           \* a socket that was closed leaves m_cnxs
  \A c \in m_cnxs : socket[c] = "closed" =>
    \E t \in Threads : Now(t).op = "drop" /\ Now(t).cnx = c
EndsAreClosed ==
  \A t \in Threads : Now(t).op \in ClosedOps => socket[Now(t).cnx] = "closed"
EndsAreUnique ==
  \A t \in Threads : Now(t).op \in EndingOps =>
    /\ Now(t).cnx \notin m_cnxs
    /\ \A u \in Threads \ {t} : Now(u).op \in EndingOps => Now(u).cnx # Now(t).cnx

SocketsOK ==
  AcceptedOnce /\ OpenIsRegistered /\ ClosedIsDropped /\ EndsAreClosed /\ EndsAreUnique

-----------------------------------------------------------------------------
(* Connections and sessions, where a connection logs in once.              *)
ConnectedTo(c) == {r \in Pend(ServerOf(c)) : r.op = "write" /\ r.cnx = c /\ r.kind = "CONNECTED"}
Fresh(c) ==                  \* no other thread can know c
  /\ \A s \in Sessions : \A i \in DOMAIN cnxs[s] : cnxs[s][i] # c
  /\ m_cnx_session[c] = Null
  /\ \A t \in Threads \ {ServerOf(c)} : \A r \in Pend(t) : r.op = "write" => r.cnx # c

UnansweredIsFresh ==
  ~crashed => \A c \in Conns :
    told[c] = Null /\ socket[c] # "closed" /\ ConnectedTo(c) = {} => Fresh(c)
AnswersNameSession ==
  \A t \in Threads : \A r \in Pend(t) : r.op = "write" /\ r.kind = "CONNECTED" => r.ses # Null
RegistersOnce ==
  ~crashed => \A t \in Threads : Now(t).op = "register" =>
    /\ t = ServerOf(Now(t).cnx) /\ told[Now(t).cnx] = Null /\ socket[Now(t).cnx] = "open"
    /\ \A r \in Pend(t) : r.op # "write"
ListsAreMapped ==
  \A s \in m_sessions :
    /\ \A i \in DOMAIN cnxs[s] : m_cnx_session[cnxs[s][i]] = s
    /\ \A i, j \in DOMAIN cnxs[s] : cnxs[s][i] = cnxs[s][j] => i = j
HeldOps == {"unlink", "check", "leave", "unregister"}
(* The end of a connection holds the session that the connection is mapped *)
(* to for as long as that one lives.                                       *)
EndsHoldSession ==
  \A t \in Threads : Now(t).op \in HeldOps =>
    \A s \in m_sessions : m_cnx_session[Now(t).cnx] = s <=> Now(t).ses = s
ListedAreEnding ==
  \A s \in m_sessions : \A i \in DOMAIN cnxs[s] :
    \/ cnxs[s][i] \in m_cnxs
    \/ \E t \in Threads : Now(t).op \in {"end", "unlink"} /\ Now(t).cnx = cnxs[s][i]
EmptyAreClosing ==
  \A s \in m_sessions : cnxs[s] = <<>> =>
    \E t \in Threads : Now(t).op \in {"check", "leave", "unregister"} /\ Now(t).ses = s

SessionsOK ==
  /\ UnansweredIsFresh /\ AnswersNameSession /\ RegistersOnce /\ ListsAreMapped
  /\ EndsHoldSession /\ ListedAreEnding /\ EmptyAreClosing

FullInv == BrokerInv /\ SocketsOK /\ SessionsOK

-----------------------------------------------------------------------------
(* Threads and their calls.                                                *)
LEMMA Tuples ==
  /\ <<>> \in Seq(CallSet) /\ Range(<<>>) = {} /\ Ordered(<<>>)
  /\ \A a \in CallSet : /\ <<a>> \in Seq(CallSet) /\ Range(<<a>>) = {a} /\ Head(<<a>>) = a
                        /\ a.op # "leave" => Ordered(<<a>>)
  /\ \A a, b \in CallSet :
       /\ <<a, b>> \in Seq(CallSet) /\ Range(<<a, b>>) = {a, b} /\ Head(<<a, b>>) = a
       /\ a.op # "leave" /\ b.op \in Later => Ordered(<<a, b>>)
       /\ a.op = "leave" /\ b = Call("unregister", a.cnx, a.ses) => Ordered(<<a, b>>)
<1>1. <<>> \in Seq(CallSet) /\ Range(<<>>) = {} /\ Ordered(<<>>)
  BY DEF Range, Ordered
<1>2. ASSUME NEW a \in CallSet
      PROVE  /\ <<a>> \in Seq(CallSet) /\ Range(<<a>>) = {a} /\ Head(<<a>>) = a
             /\ a.op # "leave" => Ordered(<<a>>)
  BY DEF Range, Ordered, AllLater
<1>3. ASSUME NEW a \in CallSet, NEW b \in CallSet
      PROVE  /\ <<a, b>> \in Seq(CallSet) /\ Range(<<a, b>>) = {a, b} /\ Head(<<a, b>>) = a
             /\ a.op # "leave" /\ b.op \in Later => Ordered(<<a, b>>)
             /\ a.op = "leave" /\ b = Call("unregister", a.cnx, a.ses) => Ordered(<<a, b>>)
  <2>1. Tail(<<a, b>>) = <<b>> /\ Tail(<<b>>) = <<>> /\ Head(<<b>>) = b
    OBVIOUS
  <2>2. <<a, b>> \in Seq(CallSet) /\ Range(<<a, b>>) = {a, b} /\ Head(<<a, b>>) = a
    BY DEF Range
  <2> QED
    BY <2>1, <2>2 DEF Ordered, AllLater
<1> QED
  BY <1>1, <1>2, <1>3

LEMMA TwoInOrder == \A x, y : <<x>> \o <<y>> = <<x, y>>
<1> TAKE x, y
<1> DEFINE p == <<x>> \o <<y>>
<1>1. p \in Seq({x, y}) /\ Len(p) = 2 /\ p[1] = x /\ p[2] = y
  OBVIOUS
<1> HIDE DEF p
<1>2. p = <<x, y>>
  BY <1>1
<1> QED
  BY <1>2 DEF p

LEMMA HeadInRange ==
  ASSUME NEW q \in Seq(CallSet), q # <<>>
  PROVE  Head(q) \in Range(q) /\ Head(q) = q[1] /\ Head(q) \in CallSet
BY DEF Range

(* A thread whose next call is not a leave puts the calls this one leads   *)
(* to in its place.                                                        *)
LEMMA Put ==
  ASSUME NEW q \in Seq(CallSet), q # <<>>, Ordered(q), Head(q).op # "leave",
         NEW new \in Seq(CallSet), Ordered(new)
  PROVE  /\ new \o Tail(q) \in Seq(CallSet) /\ Ordered(new \o Tail(q))
         /\ Range(new \o Tail(q)) = Range(new) \cup Range(Tail(q))
         /\ new # <<>> => new \o Tail(q) # <<>> /\ Head(new \o Tail(q)) = Head(new)
         /\ Range(q) = {Head(q)} \cup Range(Tail(q))
         /\ \A r \in Range(Tail(q)) : r.op \in Later
<1> DEFINE z == Tail(q)
<1>1. z \in Seq(CallSet) /\ AllLater(z) /\ Len(z) = Len(q) - 1
  BY DEF Ordered
<1>2. Range(q) = {Head(q)} \cup Range(z)
  <2>1. ASSUME NEW i \in 1..Len(q)
        PROVE  q[i] \in {Head(q)} \cup Range(z)
    <3>1. CASE i = 1
      BY <3>1
    <3>2. CASE i # 1
      <4>1. i - 1 \in 1..Len(z) /\ z[i - 1] = q[i]
        BY <1>1, <3>2
      <4>2. z[i - 1] \in Range(z)
        <5> HIDE DEF z
        <5> QED
          BY <1>1, <4>1 DEF Range
      <4> QED
        BY <4>1, <4>2
    <3> QED
      BY <3>1, <3>2
  <2>2. ASSUME NEW i \in 1..Len(z)
        PROVE  z[i] \in Range(q)
    <3>1. i + 1 \in 1..Len(q) /\ z[i] = q[i + 1]
      BY <1>1
    <3> QED
      BY <3>1 DEF Range
  <2>3. Head(q) \in Range(q)
    BY DEF Range
  <2>4. Range(q) \subseteq {Head(q)} \cup Range(z)
    BY <2>1 DEF Range
  <2>5. Range(z) \subseteq Range(q)
    <3> HIDE DEF z
    <3> QED
      BY <1>1, <2>2 DEF Range
  <2> QED
    BY <2>3, <2>4, <2>5
<1>3. \A r \in Range(z) : r.op \in Later
  BY <1>1 DEF Range, AllLater
<1> HIDE DEF z
<1>4. /\ new \o z \in Seq(CallSet) /\ Len(new \o z) = Len(new) + Len(z)
      /\ \A i \in 1..Len(new) : (new \o z)[i] = new[i]
      /\ \A i \in 1..Len(z) : (new \o z)[Len(new) + i] = z[i]
      /\ \A i \in Len(new) + 1 .. Len(new) + Len(z) : (new \o z)[i] = z[i - Len(new)]
  BY <1>1
<1>5. Range(new \o z) = Range(new) \cup Range(z)
  <2>1. \A r \in Range(new \o z) : r \in Range(new) \cup Range(z)
    <3>1. SUFFICES ASSUME NEW i \in 1..Len(new) + Len(z)
                   PROVE  (new \o z)[i] \in Range(new) \cup Range(z)
      BY <1>4 DEF Range
    <3>2. CASE i <= Len(new)
      BY <1>4, <3>2 DEF Range
    <3>3. CASE i > Len(new)
      <4>1. i - Len(new) \in 1..Len(z)
        BY <1>1, <3>3
      <4> QED
        BY <1>1, <1>4, <3>3, <4>1 DEF Range
    <3> QED
      BY <3>2, <3>3, <1>1
  <2>2. \A i \in 1..Len(new) : i \in 1..Len(new) + Len(z)
    BY <1>1
  <2>3. \A i \in 1..Len(z) : Len(new) + i \in 1..Len(new) + Len(z)
    BY <1>1
  <2>4. ASSUME NEW i \in 1..Len(new) PROVE new[i] \in Range(new \o z)
    BY <1>4, <2>2 DEF Range
  <2>5. ASSUME NEW i \in 1..Len(z) PROVE z[i] \in Range(new \o z)
    <3>1. Len(new) + i \in DOMAIN (new \o z)
      BY <1>4, <2>3
    <3>2. z[i] = (new \o z)[Len(new) + i]
      BY <1>4
    <3> QED
      BY <3>1, <3>2 DEF Range
  <2>6. Range(new) \subseteq Range(new \o z)
    BY <2>4 DEF Range
  <2>7. Range(z) \subseteq Range(new \o z)
    BY <1>1, <2>5 DEF Range
  <2> QED
    BY <2>1, <2>6, <2>7
<1>6. new # <<>> => new \o z # <<>> /\ Head(new \o z) = Head(new)
  BY <1>1, <1>4
<1>7. Ordered(new \o z)
  <2>1. CASE new = <<>>
    <3>1. new \o z = z
      BY <1>1, <2>1
    <3>2. z # <<>> => Head(z).op # "leave" /\ AllLater(Tail(z))
      BY <1>1 DEF AllLater, Later
    <3> QED
      BY <3>1, <3>2 DEF Ordered
  <2>2. CASE new # <<>>
    <3> DEFINE y == Tail(new)
    <3>1. y \in Seq(CallSet) /\ Tail(new \o z) = y \o z
      BY <1>1, <2>2
    <3>2. ASSUME NEW x \in Seq(CallSet), AllLater(x) PROVE AllLater(x \o z)
      <4>1. \A i \in DOMAIN (x \o z) : (x \o z)[i] = IF i <= Len(x) THEN x[i] ELSE z[i - Len(x)]
        BY <1>1
      <4> QED
        BY <1>1, <3>2, <4>1 DEF AllLater
    <3>3. CASE Head(new).op = "leave"
      <4>1. y # <<>> /\ Head(y) = Call("unregister", Head(new).cnx, Head(new).ses)
            /\ AllLater(Tail(y))
        BY <2>2, <3>3 DEF Ordered
      <4> HIDE DEF y
      <4>2. y \o z # <<>> /\ Head(y \o z) = Head(y) /\ Tail(y \o z) = Tail(y) \o z
            /\ Tail(y) \in Seq(CallSet)
        BY <1>1, <3>1, <4>1
      <4>3. AllLater(Tail(y) \o z)
        BY <3>2, <4>1, <4>2
      <4> QED
        BY <1>6, <2>2, <3>1, <3>3, <4>1, <4>2, <4>3 DEF Ordered
    <3>4. CASE Head(new).op # "leave"
      <4>1. AllLater(y)
        BY <2>2, <3>4 DEF Ordered
      <4>2. AllLater(y \o z)
        BY <3>1, <3>2, <4>1
      <4> QED
        BY <1>6, <2>2, <3>1, <3>4, <4>2 DEF Ordered
    <3> QED
      BY <3>3, <3>4
  <2> QED
    BY <2>1, <2>2
<1> QED
  BY <1>2, <1>3, <1>4, <1>5, <1>6, <1>7 DEF z

(* A step of t puts the calls of "new" in the place of the next one; the    *)
(* others wait as they did.                                                *)
Moves(t, new) ==
  /\ todo' \in [Threads -> Seq(CallSet)] /\ \A u \in Threads : Ordered(todo'[u])
  /\ \A u \in Threads \ {t} : Pend(u)' = Pend(u) /\ Now(u)' = Now(u)
  /\ Range(new) \subseteq Pend(t)' /\ \A r \in Pend(t) : r # Now(t) => r \in Pend(t)'
  /\ \A r \in Pend(t)' : r \in Range(new) \/ (r \in Pend(t) /\ r.op \in Later)
  /\ IF new = <<>> THEN Now(t)'.op \in Later \cup {"none"} ELSE Now(t)' = Head(new)

LEMMA NowIsPending ==
  ASSUME CallsOK, NEW t \in Threads, todo[t] # <<>>
  PROVE  /\ todo[t] \in Seq(CallSet) /\ Now(t) = Head(todo[t])
         /\ Now(t) \in Pend(t) /\ Now(t) \in CallSet /\ IdsOK(Now(t))
<1>1. todo[t] \in Seq(CallSet) /\ Now(t) = Head(todo[t])
  BY DEF CallsOK, Now
<1>2. Head(todo[t]) \in Range(todo[t]) /\ Head(todo[t]) \in CallSet
  BY <1>1 DEF Range
<1> QED
  BY <1>1, <1>2 DEF CallsOK, Pend

(* What another thread has is untouched by a change of todo[t].            *)
LEMMA OthersStay ==
  ASSUME CallsOK, NEW t \in Threads, NEW q \in Seq(CallSet), Ordered(q),
         todo' = [todo EXCEPT ![t] = q]
  PROVE  /\ todo' \in [Threads -> Seq(CallSet)] /\ \A u \in Threads : Ordered(todo'[u])
         /\ \A u \in Threads \ {t} : Pend(u)' = Pend(u) /\ Now(u)' = Now(u)
         /\ todo'[t] = q /\ Pend(t)' = Range(q)
         /\ Now(t)' = IF q = <<>> THEN NoCall ELSE Head(q)
<1>1. /\ todo \in [Threads -> Seq(CallSet)] /\ \A u \in Threads : Ordered(todo[u])
  BY DEF CallsOK
<1>2. todo'[t] = q /\ \A u \in Threads \ {t} : todo'[u] = todo[u]
  BY <1>1
<1> QED
  BY <1>1, <1>2 DEF Pend, Now

LEMMA ThenMoves ==
  ASSUME CallsOK, NEW t \in Threads, todo[t] # <<>>, Now(t).op # "leave",
         NEW new \in Seq(CallSet), Ordered(new), Then(t, new)
  PROVE  Moves(t, new)
<1> DEFINE q == todo[t]
<1>1. q \in Seq(CallSet) /\ Ordered(q) /\ Now(t) = Head(q) /\ todo \in [Threads -> Seq(CallSet)]
  BY NowIsPending DEF CallsOK
<1>2. todo' = [todo EXCEPT ![t] = new \o Tail(q)]
  BY <1>1 DEF Then
<1> HIDE DEF q
<1>3. /\ new \o Tail(q) \in Seq(CallSet) /\ Ordered(new \o Tail(q))
      /\ Range(new \o Tail(q)) = Range(new) \cup Range(Tail(q))
      /\ new # <<>> => new \o Tail(q) # <<>> /\ Head(new \o Tail(q)) = Head(new)
      /\ Range(q) = {Head(q)} \cup Range(Tail(q))
      /\ \A r \in Range(Tail(q)) : r.op \in Later
  BY <1>1, Put DEF q
<1>4. /\ todo' \in [Threads -> Seq(CallSet)] /\ \A u \in Threads : Ordered(todo'[u])
      /\ \A u \in Threads \ {t} : Pend(u)' = Pend(u) /\ Now(u)' = Now(u)
      /\ Pend(t)' = Range(new) \cup Range(Tail(q))
      /\ Now(t)' = IF new \o Tail(q) = <<>> THEN NoCall ELSE Head(new \o Tail(q))
  BY <1>2, <1>3, OthersStay
<1>5. Pend(t) = {Now(t)} \cup Range(Tail(q))
  BY <1>1, <1>3 DEF Pend, q
<1>6. new = <<>> => Now(t)'.op \in Later \cup {"none"}
  <2>1. CASE new \o Tail(q) = <<>>
    BY <1>4, <2>1 DEF NoCall
  <2>2. CASE new \o Tail(q) # <<>> /\ new = <<>>
    <3>1. Range(new) = {}
      BY <2>2 DEF Range
    <3>2. Head(new \o Tail(q)) \in Range(new \o Tail(q))
      BY <1>3, <2>2, HeadInRange
    <3> QED
      BY <1>3, <1>4, <2>2, <3>1, <3>2
  <2> QED
    BY <2>1, <2>2
<1> QED
  BY <1>3, <1>4, <1>5, <1>6 DEF Moves

(* The call behind a leave is the unregister of the same end.              *)
LEMMA LeaveMoves ==
  ASSUME CallsOK, NEW t \in Threads, todo[t] # <<>>, Now(t).op = "leave", Then(t, <<>>)
  PROVE  Moves(t, <<Call("unregister", Now(t).cnx, Now(t).ses)>>)
<1> DEFINE q == todo[t]
           z == Tail(q)
           u == Call("unregister", Now(t).cnx, Now(t).ses)
<1>1. /\ q \in Seq(CallSet) /\ Ordered(q) /\ Now(t) = Head(q) /\ q # <<>>
      /\ todo \in [Threads -> Seq(CallSet)]
  BY NowIsPending DEF CallsOK
<1>2. z \in Seq(CallSet) /\ z # <<>> /\ Head(z) = u /\ AllLater(Tail(z))
  BY <1>1 DEF Ordered
<1>3. todo' = [todo EXCEPT ![t] = z]
  BY <1>1, <1>2 DEF Then
<1>4. \A i \in DOMAIN q : i # 1 => i - 1 \in DOMAIN z /\ q[i] = z[i - 1]
  BY <1>1
<1>5. \A i \in DOMAIN z : i + 1 \in DOMAIN q /\ z[i] = q[i + 1]
  BY <1>1
<1>u. u.op = "unregister"
  BY DEF Call
<1> HIDE DEF z, u
<1>6. \A i \in DOMAIN z : z[i] = u \/ z[i].op \in Later
  <2>1. \A i \in DOMAIN z : i = 1 \/ (i - 1 \in DOMAIN Tail(z) /\ z[i] = Tail(z)[i - 1])
    BY <1>2
  <2>2. z[1] = u
    BY <1>2, HeadInRange
  <2>3. \A i \in DOMAIN Tail(z) : Tail(z)[i].op \in Later
    BY <1>2 DEF AllLater
  <2> HIDE <1>2
  <2> QED
    BY <2>1, <2>2, <2>3
<1>7. Ordered(z)
  BY <1>2, <1>u DEF Ordered
<1>8. /\ todo' \in [Threads -> Seq(CallSet)] /\ \A v \in Threads : Ordered(todo'[v])
      /\ \A v \in Threads \ {t} : Pend(v)' = Pend(v) /\ Now(v)' = Now(v)
      /\ Pend(t)' = Range(z) /\ Now(t)' = u
  BY <1>2, <1>3, <1>7, OthersStay
<1>9. u \in Range(z) /\ \A r \in Range(z) : r = u \/ (r \in Range(q) /\ r.op \in Later)
  BY <1>2, <1>5, <1>6 DEF Range
<1>10. \A r \in Range(q) : r # Head(q) => r \in Range(z)
  BY <1>1, <1>4 DEF Range
<1>11. Range(<<u>>) = {u} /\ <<u>> # <<>> /\ Head(<<u>>) = u
  BY DEF Range
<1> QED
  BY <1>1, <1>8, <1>9, <1>10, <1>11 DEF Moves, Pend, u

(* A thread that was idle begins.                                          *)
LEMMA IdleMoves ==
  ASSUME CallsOK, NEW t \in Threads, todo[t] = <<>>,
         NEW new \in Seq(CallSet), Ordered(new), todo' = [todo EXCEPT ![t] = new]
  PROVE  Moves(t, new) /\ Pend(t) = {}
<1>1. Pend(t) = {}
  BY DEF Pend, Range
<1>2. /\ todo' \in [Threads -> Seq(CallSet)] /\ \A u \in Threads : Ordered(todo'[u])
      /\ \A u \in Threads \ {t} : Pend(u)' = Pend(u) /\ Now(u)' = Now(u)
      /\ Pend(t)' = Range(new) /\ Now(t)' = IF new = <<>> THEN NoCall ELSE Head(new)
  BY OthersStay
<1> QED
  BY <1>1, <1>2 DEF Moves, NoCall

-----------------------------------------------------------------------------
(* The fields of a call, and the calls the code makes.                     *)
LEMMA CallFields ==
  ASSUME NEW r \in CallSet
  PROVE  /\ r.op \in CnxOps => r.cnx \in Conns /\ r.ses \in Sessions
         /\ r.op = "write" => /\ r.cnx \in Conns /\ r.kind \in Kinds
                              /\ r.ses \in Sessions /\ r.close \in BOOLEAN
         /\ r.op = "register" => r.cnx \in Conns /\ r.login \in Logins /\ r.profile \in Profiles
         /\ r.op = "subscribe" => /\ r.ses \in Sessions /\ r.type \in {"DIRECT", "REGEX"}
                                  /\ r.dest \in Patterns
         /\ r.op = "front" => r.ses \in Sessions /\ r.kind \in {"MESSAGE", "ACK"}
         /\ r.op = "copies" => r.ses \in Sessions /\ r.left \subseteq Sessions
         /\ r.op \in AboutCnx => r.cnx \in Conns
BY DEF CallSet, CnxOps, AboutCnx

LEMMA NewCalls ==
  /\ \A c \in Conns, k \in Kinds, s \in Sessions, b \in BOOLEAN : Write(c, k, s, b) \in CallSet
  /\ \A op \in CnxOps, c \in Conns, s \in Sessions : Call(op, c, s) \in CallSet
  /\ \A c \in Conns, l \in Logins, p \in Profiles : Register(c, l, p) \in CallSet
  /\ \A s \in Sessions, y \in {"DIRECT", "REGEX"}, d \in Patterns : Subscribe(s, y, d) \in CallSet
  /\ \A s \in Sessions, k \in {"MESSAGE", "ACK"} : ToFront(s, k) \in CallSet
  /\ \A s \in Sessions, x \in SUBSET Sessions : Copies(s, x) \in CallSet
BY DEF CallSet, Write, Call, Register, Subscribe, ToFront, Copies

(* The ids handed out are ids of sessions, and stay handed out.            *)
LEMMA IdsGrow ==
  ASSUME RegistryTypeOK, [ManagersNext]_allVars
  PROVE  created \in Nat /\ created' \in Nat /\ created <= created'
<1>0. created \in Nat
  BY CreatedFacts
<1>1. CASE RegistryNext
  BY <1>1, RegistryStepFacts
<1>2. CASE UNCHANGED sessionVars
  BY <1>0, <1>2 DEF sessionVars, sessionFields
<1> QED
  BY <1>1, <1>2 DEF ManagersNext, allVars

LEMMA RunningFacts ==
  ASSUME CallsOK, NEW t \in Threads, NEW op, Running(t, op)
  PROVE  /\ ~crashed /\ todo[t] # <<>> /\ Now(t) = Head(todo[t]) /\ Now(t).op = op
         /\ Now(t) \in Pend(t) /\ Now(t) \in CallSet /\ IdsOK(Now(t))
BY NowIsPending DEF Running

(* The calls stay well-formed when the new ones are.                       *)
LEMMA CallsStay ==
  ASSUME CallsOK, NEW t \in Threads, NEW new, Moves(t, new), \A r \in Range(new) : IdsOK(r)',
         created \in Nat, created' \in Nat, created <= created'
  PROVE  CallsOK'
<1>1. ASSUME NEW u \in Threads, NEW r \in Pend(u) PROVE IdsOK(r)'
  <2>1. IdsOK(r) /\ r \in CallSet
    BY <1>1 DEF CallsOK, Pend, Range
  <2>2. r.op \in CnxOps \cup {"write", "subscribe", "front", "copies"} => r.ses \in Nat
    BY <2>1, CallFields, BoundsAssumption DEF Sessions, Sids, Null
  <2> QED
    BY <2>1, <2>2 DEF IdsOK
<1>2. ASSUME NEW u \in Threads, NEW r \in Pend(u)' PROVE IdsOK(r)'
  BY <1>1, <1>2 DEF Moves
<1> QED
  BY <1>2 DEF CallsOK, Moves

-----------------------------------------------------------------------------
(* What each step of a thread does to its calls.                           *)
LEMMA OneMore ==
  ASSUME CallsOK, NEW t \in Threads, todo[t] # <<>>, Now(t).op # "leave",
         NEW a \in CallSet, a.op # "leave", Then(t, <<a>>)
  PROVE  Moves(t, <<a>>)
BY Tuples, ThenMoves

LEMMA TwoMore ==
  ASSUME CallsOK, NEW t \in Threads, todo[t] # <<>>, Now(t).op # "leave",
         NEW a \in CallSet, NEW b \in CallSet, Then(t, <<a, b>>),
         \/ a.op # "leave" /\ b.op \in Later
         \/ a.op = "leave" /\ b = Call("unregister", a.cnx, a.ses)
  PROVE  Moves(t, <<a, b>>)
BY Tuples, ThenMoves

LEMMA Done ==
  ASSUME CallsOK, NEW t \in Threads, todo[t] # <<>>, Now(t).op # "leave", Then(t, <<>>)
  PROVE  Moves(t, <<>>)
BY Tuples, ThenMoves

LEMMA RegisterNewDoes ==
  ASSUME RegistryTypeOK, CallsOK, NEW t \in Threads, RegisterNew(t)
  PROVE  /\ ~crashed /\ Now(t) \in Pend(t) /\ Now(t).op = "register" /\ Now(t).cnx \in Conns
         /\ Now(t).login \in Logins /\ Now(t).profile \in Profiles /\ NewId \in Sessions
         /\ OpenSession(Now(t).cnx, Now(t).login, Now(t).profile)
         /\ Moves(t, <<Write(Now(t).cnx, "CONNECTED", NewId, FALSE)>>)
         /\ UNCHANGED <<subscriptionVars, networkVars, reqs, crashed>>
<1> DEFINE r == Now(t)
<1>1. /\ ~crashed /\ todo[t] # <<>> /\ r = Head(todo[t]) /\ r \in Pend(t) /\ r \in CallSet
      /\ r.op = "register" /\ r.cnx \in Conns /\ r.login \in Logins /\ r.profile \in Profiles
  BY RunningFacts, CallFields DEF RegisterNew
<1>2. /\ OpenSession(r.cnx, r.login, r.profile) /\ Then(t, <<Write(r.cnx, "CONNECTED", NewId, FALSE)>>)
      /\ UNCHANGED <<subscriptionVars, networkVars, reqs, crashed>>
  BY <1>1 DEF RegisterNew, Answer
<1>3. NewId \in Sessions
  <2>1. created \in 0..MaxSession /\ created < MaxSession
    BY <1>2 DEF RegistryTypeOK, OpenSession
  <2> QED
    BY <2>1, BoundsAssumption DEF NewId, Sessions, Sids
<1>4. Write(r.cnx, "CONNECTED", NewId, FALSE) \in CallSet
  BY <1>1, <1>3, NewCalls DEF Kinds
<1>5. Write(r.cnx, "CONNECTED", NewId, FALSE).op = "write"
  BY DEF Write
<1> QED
  BY <1>1, <1>2, <1>3, <1>4, <1>5, OneMore

(* The list of the session of another one's login, and its first entry.    *)
LEMMA FrontType ==
  ASSUME RegistryTypeOK, NEW s \in Sessions, cnxs[s] # <<>>
  PROVE  Head(cnxs[s]) \in Conns /\ 1 \in DOMAIN cnxs[s] /\ Head(cnxs[s]) = cnxs[s][1]
<1>1. cnxs[s] \in Seq(Conns)
  BY DEF RegistryTypeOK
<1> QED
  BY <1>1

LEMMA RegisterAgainDoes ==
  ASSUME RegistryTypeOK, CallsOK, NEW t \in Threads, RegisterAgain(t)
  PROVE  LET r == Now(t)
             s == m_login_session[r.login]
             answer == Write(r.cnx, "CONNECTED", s, FALSE)
         IN /\ ~crashed /\ r \in Pend(t) /\ r.op = "register" /\ r.cnx \in Conns
            /\ r.login \in Logins /\ r.profile \in Profiles
            /\ s \in Sessions /\ s <= created /\ TakeOverSession(r.cnx, r.login, r.profile)
            /\ UNCHANGED <<subscriptionVars, networkVars, reqs>>
            /\ \/ crashed' = TRUE /\ UNCHANGED todo
               \/ UNCHANGED crashed /\ cnxs[s] = <<>> /\ Moves(t, <<answer>>)
               \/ /\ UNCHANGED crashed /\ cnxs[s] # <<>>
                  /\ Moves(t, <<Write(Head(cnxs[s]), "ERROR", Null, TRUE), answer>>)
<1> DEFINE r == Now(t)
           s == m_login_session[r.login]
           a == Write(r.cnx, "CONNECTED", s, FALSE)
           e == Write(Head(cnxs[s]), "ERROR", Null, TRUE)
<1>1. /\ ~crashed /\ todo[t] # <<>> /\ r = Head(todo[t]) /\ r \in Pend(t) /\ r \in CallSet
      /\ r.op = "register" /\ r.cnx \in Conns /\ r.login \in Logins /\ r.profile \in Profiles
  BY RunningFacts, CallFields DEF RegisterAgain
<1>2. /\ TakeOverSession(r.cnx, r.login, r.profile) /\ ReplacePrevious(t, r, s)
      /\ UNCHANGED <<subscriptionVars, networkVars, reqs>>
  BY <1>1 DEF RegisterAgain
<1>3. s \in Sessions /\ s <= created /\ Null \in Sessions
  <2>1. s \in 0..created /\ created \in Nat /\ 0..created \subseteq Sessions /\ Null \in 0..created
    BY <1>1, CreatedFacts DEF RegistryTypeOK
  <2> QED
    BY <2>1
<1>4. a \in CallSet /\ a.op = "write"
  BY <1>1, <1>3, NewCalls DEF Kinds, Write
<1>5. CASE cnxs[s] = <<>>
  <2>1. (crashed' = TRUE /\ UNCHANGED todo) \/ (Then(t, <<a>>) /\ UNCHANGED crashed)
    BY <1>2, <1>5 DEF ReplacePrevious, FrontOfEmpty, Answer
  <2>2. Then(t, <<a>>) => Moves(t, <<a>>)
    BY <1>1, <1>4, OneMore
  <2> QED
    BY <1>1, <1>2, <1>3, <1>5, <2>1, <2>2
<1>6. CASE cnxs[s] # <<>>
  <2>1. e \in CallSet /\ e.op = "write"
    BY <1>3, <1>6, FrontType, NewCalls DEF Kinds, Write
  <2>2. Then(t, <<e>> \o <<a>>) /\ UNCHANGED crashed
    BY <1>2, <1>6 DEF ReplacePrevious, Answer
  <2>3. <<e>> \o <<a>> = <<e, a>>
    BY TwoInOrder
  <2>4. Moves(t, <<e, a>>)
    BY <1>1, <1>4, <2>1, <2>2, <2>3, TwoMore DEF Later
  <2> QED
    BY <1>1, <1>2, <1>3, <1>6, <2>2, <2>4
<1> QED
  BY <1>5, <1>6

LEMMA RegisterRefusedDoes ==
  ASSUME RegistryTypeOK, CallsOK, NEW t \in Threads, RegisterRefused(t)
  PROVE  /\ ~crashed /\ Now(t) \in Pend(t) /\ Now(t).op = "register" /\ Now(t).cnx \in Conns
         /\ Now(t).login \in Logins /\ Now(t).profile \in Profiles
         /\ RefuseLogin(Now(t).login, Now(t).profile)
         /\ Moves(t, <<Write(Now(t).cnx, "ERROR", Null, TRUE)>>)
         /\ UNCHANGED <<sessionVars, subscriptionVars, networkVars, reqs, crashed>>
<1> DEFINE r == Now(t)
           e == Write(r.cnx, "ERROR", Null, TRUE)
<1>1. /\ ~crashed /\ todo[t] # <<>> /\ r = Head(todo[t]) /\ r \in Pend(t) /\ r \in CallSet
      /\ r.op = "register" /\ r.cnx \in Conns /\ r.login \in Logins /\ r.profile \in Profiles
  BY RunningFacts, CallFields DEF RegisterRefused
<1>2. /\ RefuseLogin(r.login, r.profile) /\ Then(t, <<e>>)
      /\ UNCHANGED <<subscriptionVars, networkVars, reqs, crashed>>
  BY <1>1 DEF RegisterRefused, Refuse
<1>3. e \in CallSet /\ e.op = "write"
  BY <1>1, NewCalls DEF Kinds, Sessions, Write
<1>4. UNCHANGED sessionVars
  BY <1>2 DEF RefuseLogin
<1> QED
  BY <1>1, <1>2, <1>3, <1>4, OneMore

LEMMA SendToFrontDoes ==
  ASSUME RegistryTypeOK, CallsOK, NEW t \in Threads, SendToFront(t)
  PROVE  LET r == Now(t)
         IN /\ ~crashed /\ r \in Pend(t) /\ r.op = "front" /\ r.ses \in Sessions
            /\ UNCHANGED <<allVars, networkVars, reqs>>
            /\ \/ crashed' = TRUE /\ UNCHANGED todo
               \/ UNCHANGED crashed /\ Moves(t, <<>>)
               \/ /\ UNCHANGED crashed /\ cnxs[r.ses] # <<>> /\ r.ses <= created
                  /\ r.kind \in {"MESSAGE", "ACK"}
                  /\ Moves(t, <<Write(Head(cnxs[r.ses]), r.kind, r.ses, FALSE)>>)
<1> DEFINE r == Now(t)
           w == Write(Head(cnxs[r.ses]), r.kind, r.ses, FALSE)
<1>1. /\ ~crashed /\ todo[t] # <<>> /\ r = Head(todo[t]) /\ r \in Pend(t)
      /\ r.op = "front" /\ r.ses \in Sessions /\ r.kind \in {"MESSAGE", "ACK"}
      /\ r.ses <= created
  BY RunningFacts, CallFields DEF SendToFront, IdsOK
<1>2. UNCHANGED <<allVars, networkVars, reqs>>
  BY DEF SendToFront
<1>3. CASE cnxs[r.ses] = <<>>
  <2>1. (crashed' = TRUE /\ UNCHANGED todo) \/ (Then(t, <<>>) /\ UNCHANGED crashed)
    BY <1>1, <1>3 DEF SendToFront, FrontOfEmpty
  <2>2. Then(t, <<>>) => Moves(t, <<>>)
    BY <1>1, Done
  <2> QED
    BY <1>1, <1>2, <2>1, <2>2
<1>4. CASE cnxs[r.ses] # <<>>
  <2>1. w \in CallSet /\ w.op = "write"
    BY <1>1, <1>4, FrontType, NewCalls DEF Write, Kinds
  <2>2. Then(t, <<w>>) /\ UNCHANGED crashed
    BY <1>1, <1>4 DEF SendToFront
  <2>3. Moves(t, <<w>>)
    BY <1>1, <2>1, <2>2, OneMore
  <2> QED
    BY <1>1, <1>2, <1>4, <2>2, <2>3
<1> QED
  BY <1>3, <1>4

LEMMA StartCopiesDoes ==
  ASSUME RegistryTypeOK, SubscriptionTypeOK, CallsOK, NEW t \in Threads, StartCopies(t)
  PROVE  LET r == Now(t)
         IN /\ ~crashed /\ r \in Pend(t) /\ r.op = "copy" /\ r.ses \in Sessions
            /\ r.ses <= created /\ subscribers[r.ses] \subseteq 0..created
            /\ Moves(t, <<Copies(r.ses, subscribers[r.ses])>>)
            /\ UNCHANGED <<allVars, networkVars, reqs, crashed>>
<1> DEFINE r == Now(t)
<1>1. /\ ~crashed /\ todo[t] # <<>> /\ r = Head(todo[t]) /\ r \in Pend(t)
      /\ r.op = "copy" /\ r.ses \in Sessions /\ r.ses <= created
  BY RunningFacts, CallFields DEF StartCopies, IdsOK, CnxOps
<1>2. Then(t, <<Copies(r.ses, subscribers[r.ses])>>)
      /\ UNCHANGED <<allVars, networkVars, reqs, crashed>>
  BY <1>1 DEF StartCopies
<1>3. subscribers[r.ses] \subseteq 0..created /\ 0..created \subseteq Sessions
  BY <1>1, CreatedFacts DEF SubscriptionTypeOK
<1>4. /\ Copies(r.ses, subscribers[r.ses]) \in CallSet
      /\ Copies(r.ses, subscribers[r.ses]).op = "copies"
  BY <1>1, <1>3, NewCalls DEF Copies
<1> QED
  BY <1>1, <1>2, <1>3, <1>4, OneMore

LEMMA SendCopyDoes ==
  ASSUME RegistryTypeOK, CallsOK, NEW t \in Threads, SendCopy(t)
  PROVE  LET r == Now(t)
         IN /\ ~crashed /\ r \in Pend(t) /\ r.op = "copies" /\ r.ses \in Sessions
            /\ r.ses <= created /\ r.left \subseteq 0..created
            /\ UNCHANGED <<allVars, networkVars, reqs, crashed>>
            /\ \/ Moves(t, <<>>)
               \/ \E left \in SUBSET r.left :
                    \/ Moves(t, <<Copies(r.ses, left)>>)
                    \/ \E s \in 0..created :
                         Moves(t, <<ToFront(s, "MESSAGE"), Copies(r.ses, left)>>)
<1> DEFINE r == Now(t)
<1>1. /\ ~crashed /\ todo[t] # <<>> /\ r = Head(todo[t]) /\ r \in Pend(t)
      /\ r.op = "copies" /\ r.ses \in Sessions /\ r.ses <= created
      /\ r.left \subseteq 0..created /\ r.left \subseteq Sessions
  BY RunningFacts, CallFields DEF SendCopy, IdsOK
<1>2. UNCHANGED <<allVars, networkVars, reqs, crashed>>
  BY DEF SendCopy
<1>3. CASE Then(t, <<>>)
  BY <1>1, <1>2, <1>3, Done
<1>4. ASSUME NEW x \in r.left, NEW s, s = fetch_session_by_id(x),
             NEW rest, rest = Copies(r.ses, r.left \ {x}),
             Then(t, IF cnxs[s] = <<>> THEN <<rest>>
                     ELSE <<ToFront(s, "MESSAGE")>> \o <<rest>>)
      PROVE  \E left \in SUBSET r.left :
               \/ Moves(t, <<Copies(r.ses, left)>>)
               \/ \E y \in 0..created :
                    Moves(t, <<ToFront(y, "MESSAGE"), Copies(r.ses, left)>>)
  <2>1. s \in 0..created /\ s \in Sessions
    BY <1>4, FetchType, CreatedFacts
  <2>2. rest \in CallSet /\ rest.op = "copies"
    BY <1>1, <1>4, NewCalls DEF Copies
  <2>3. CASE cnxs[s] = <<>>
    <3>1. Then(t, <<rest>>)
      BY <1>4, <2>3
    <3>2. Moves(t, <<rest>>)
      BY <1>1, <2>2, <3>1, OneMore
    <3> QED
      BY <1>4, <3>2
  <2>4. CASE cnxs[s] # <<>>
    <3> DEFINE w == ToFront(s, "MESSAGE")
    <3>1. w \in CallSet /\ w.op = "front"
      BY <2>1, NewCalls DEF ToFront
    <3>2. Then(t, <<w, rest>>)
      BY <1>4, <2>4, TwoInOrder
    <3>3. Moves(t, <<w, rest>>)
      BY <1>1, <2>2, <3>1, <3>2, TwoMore DEF Later
    <3> QED
      BY <1>4, <2>1, <3>3
  <2> QED
    BY <2>3, <2>4
<1>5. \/ Then(t, <<>>)
      \/ \E x \in r.left :
           LET s == fetch_session_by_id(x)
               rest == <<Copies(r.ses, r.left \ {x})>>
           IN Then(t, IF cnxs[s] = <<>> THEN rest
                      ELSE <<ToFront(s, "MESSAGE")>> \o rest)
  BY <1>1 DEF SendCopy
<1> QED
  BY <1>1, <1>2, <1>3, <1>4, <1>5

LEMMA AskDoes ==
  ASSUME RegistryTypeOK, CallsOK, NEW t \in Threads, AskSubscription(t) \/ AskUnsubscription(t)
  PROVE  /\ ~crashed /\ Now(t) \in Pend(t) /\ Now(t).op \in {"subscribe", "unsubscribe"}
         /\ Moves(t, <<>>) /\ Request
         /\ UNCHANGED <<sessionVars, networkVars, reqs, crashed>>
<1> DEFINE r == Now(t)
<1>0. created \in Nat /\ \A s \in Sessions : s # Null /\ s <= created => s \in 1..created
  BY CreatedFacts, BoundsAssumption DEF Sessions, Sids, Null
<1>1. CASE AskSubscription(t)
  <2>1. /\ ~crashed /\ todo[t] # <<>> /\ r = Head(todo[t]) /\ r \in Pend(t)
        /\ r.op = "subscribe" /\ r.ses \in Sessions /\ r.ses <= created /\ r.ses # Null
        /\ r.type \in {"DIRECT", "REGEX"} /\ r.dest \in Patterns
        /\ r.type = "DIRECT" => Cardinality(r.dest) = 1
    BY <1>1, RunningFacts, CallFields DEF AskSubscription, IdsOK
  <2>2. /\ async_init_subscription(r.ses, r.type, r.dest) /\ Then(t, <<>>)
        /\ UNCHANGED <<sessionVars, networkVars, reqs, crashed>>
    BY <1>1, <2>1 DEF AskSubscription
  <2>3. Request
    BY <1>0, <2>1, <2>2 DEF Request
  <2> QED
    BY <2>1, <2>2, <2>3, Done
<1>2. CASE AskUnsubscription(t)
  <2>1. /\ ~crashed /\ todo[t] # <<>> /\ r = Head(todo[t]) /\ r \in Pend(t)
        /\ r.op = "unsubscribe" /\ r.ses \in Sessions /\ r.ses <= created /\ r.ses # Null
    BY <1>2, RunningFacts, CallFields DEF AskUnsubscription, IdsOK, CnxOps
  <2>2. /\ async_init_unsubscription(r.ses, TRUE) /\ Then(t, <<>>)
        /\ UNCHANGED <<sessionVars, networkVars, reqs, crashed>>
    BY <1>2, <2>1 DEF AskUnsubscription
  <2>3. Request
    BY <1>0, <2>1, <2>2 DEF Request
  <2> QED
    BY <2>1, <2>2, <2>3, Done
<1> QED
  BY <1>1, <1>2

LEMMA RereadDoes ==
  ASSUME CallsOK, NEW t \in Threads, Reread(t)
  PROVE  /\ ~crashed /\ Now(t) \in Pend(t) /\ Now(t).op = "read" /\ Now(t).cnx \in Conns
         /\ Moves(t, <<>>)
         /\ reading' = IF socket[Now(t).cnx] = "open" THEN reading \cup {Now(t).cnx} ELSE reading
         /\ UNCHANGED <<allVars, m_cnxs, socket, told, reqs, crashed>>
<1>1. /\ ~crashed /\ todo[t] # <<>> /\ Now(t) = Head(todo[t]) /\ Now(t) \in Pend(t)
      /\ Now(t).op = "read" /\ Now(t).cnx \in Conns
  BY RunningFacts, CallFields DEF Reread, CnxOps
<1> QED
  BY <1>1, Done DEF Reread

(* The writes.                                                             *)
LEMMA CloseMoves ==
  ASSUME CallsOK, NEW t \in Threads, todo[t] # <<>>, Now(t).op # "leave",
         NEW c \in Conns, Then(t, Close(c))
  PROVE  Moves(t, Close(c))
<1> DEFINE a == Call("drop", c, Null)
           b == Call("unlock", c, Null)
<1>1. a \in CallSet /\ b \in CallSet
  BY NewCalls DEF CnxOps, Sessions
<1>2. a.op = "drop" /\ b.op = "unlock"
  BY DEF Call
<1> HIDE DEF a, b
<1>3. Close(c) = <<a, b>>
  BY DEF Close, a, b
<1> QED
  BY <1>1, <1>2, <1>3, TwoMore DEF Later

LEMMA WriteFacts ==
  ASSUME CallsOK, NEW t \in Threads, Running(t, "write")
  PROVE  LET r == Now(t)
         IN /\ ~crashed /\ todo[t] # <<>> /\ r = Head(todo[t]) /\ r \in Pend(t)
            /\ r.op = "write" /\ r.cnx \in Conns /\ r.ses \in Sessions /\ r.ses <= created
            /\ r.kind \in Kinds /\ r.close \in BOOLEAN
BY RunningFacts, CallFields DEF IdsOK

LEMMA WriteDroppedDoes ==
  ASSUME CallsOK, NEW t \in Threads, WriteDropped(t)
  PROVE  /\ ~crashed /\ Now(t) \in Pend(t) /\ Now(t).op = "write" /\ Now(t).cnx \in Conns
         /\ Now(t).cnx \notin m_cnxs \/ socket[Now(t).cnx] # "open"
         /\ Moves(t, <<>>) /\ UNCHANGED <<allVars, networkVars, reqs, crashed>>
<1>1. /\ ~crashed /\ todo[t] # <<>> /\ Now(t) = Head(todo[t]) /\ Now(t) \in Pend(t)
      /\ Now(t).op = "write" /\ Now(t).cnx \in Conns
  BY WriteFacts DEF WriteDropped
<1> QED
  BY <1>1, Done DEF WriteDropped

(* A write that closes, for it must or for it fails.                       *)
WriteCloses(t) ==
  /\ socket[Now(t).cnx] = "open" /\ socket' = [socket EXCEPT ![Now(t).cnx] = "closed"]
  /\ Moves(t, Close(Now(t).cnx))

LEMMA WriteDoes ==
  ASSUME CallsOK, NEW t \in Threads, WriteOk(t) \/ WriteFails(t)
  PROVE  LET r == Now(t)
         IN /\ ~crashed /\ r \in Pend(t) /\ r.op = "write" /\ r.cnx \in Conns
            /\ r.ses \in Sessions /\ r.ses <= created /\ r.cnx \in m_cnxs
            /\ UNCHANGED <<allVars, m_cnxs, reading, reqs, crashed>>
            /\ \/ UNCHANGED told
               \/ r.kind = "CONNECTED" /\ told' = [told EXCEPT ![r.cnx] = r.ses]
            /\ \/ WriteCloses(t)
               \/ /\ UNCHANGED socket /\ Moves(t, <<>>)
                  /\ r.kind = "CONNECTED" => told' = [told EXCEPT ![r.cnx] = r.ses]
<1> DEFINE r == Now(t)
<1>1. /\ ~crashed /\ todo[t] # <<>> /\ r = Head(todo[t]) /\ r \in Pend(t) /\ r.op = "write"
      /\ r.cnx \in Conns /\ r.ses \in Sessions /\ r.ses <= created /\ r.close \in BOOLEAN
  BY WriteFacts DEF WriteOk, WriteFails
<1>2. r.cnx \in m_cnxs /\ socket[r.cnx] = "open"
  BY <1>1 DEF WriteOk, WriteFails, Reachable
<1>3. /\ Then(t, <<>>) => Moves(t, <<>>)
      /\ Then(t, Close(r.cnx)) => Moves(t, Close(r.cnx))
  BY <1>1, Done, CloseMoves
<1>4. CASE WriteOk(t)
  BY <1>1, <1>2, <1>3, <1>4 DEF WriteOk, WriteCloses
<1>5. CASE WriteFails(t)
  BY <1>1, <1>2, <1>3, <1>5 DEF WriteFails, WriteCloses
<1> QED
  BY <1>4, <1>5

LEMMA UnlockDoes ==
  ASSUME CallsOK, NEW t \in Threads, Unlock(t)
  PROVE  /\ ~crashed /\ Now(t) \in Pend(t) /\ Now(t).op = "unlock"
         /\ Moves(t, <<>>) /\ UNCHANGED <<allVars, networkVars, reqs, crashed>>
<1>1. /\ ~crashed /\ todo[t] # <<>> /\ Now(t) = Head(todo[t]) /\ Now(t) \in Pend(t)
      /\ Now(t).op = "unlock"
  BY RunningFacts DEF Unlock
<1> QED
  BY <1>1, Done DEF Unlock

LEMMA CloseThrowsDoes ==
  ASSUME CallsOK, NEW t \in Threads, CloseThrows(t)
  PROVE  /\ ~crashed /\ crashed' = TRUE /\ UNCHANGED <<allVars, networkVars, todo, reqs>>
BY DEF CloseThrows, Running

(* The end of a connection.                                                *)
LEMMA DropDoes ==
  ASSUME CallsOK, NEW t \in Threads, Drop(t)
  PROVE  LET c == Now(t).cnx
         IN /\ ~crashed /\ Now(t) \in Pend(t) /\ Now(t).op = "drop" /\ c \in Conns
            /\ m_cnxs' = m_cnxs \ {c}
            /\ UNCHANGED <<allVars, socket, reading, told, reqs, crashed>>
            /\ IF c \in m_cnxs THEN Moves(t, <<Call("end", c, Null)>>) ELSE Moves(t, <<>>)
<1> DEFINE c == Now(t).cnx
           e == Call("end", c, Null)
<1>1. /\ ~crashed /\ todo[t] # <<>> /\ Now(t) = Head(todo[t]) /\ Now(t) \in Pend(t)
      /\ Now(t).op = "drop" /\ c \in Conns
  BY RunningFacts, CallFields DEF Drop, CnxOps
<1>2. e \in CallSet
  BY <1>1, NewCalls DEF CnxOps, Sessions
<1>3. e.op = "end"
  BY DEF Call
<1>4. /\ m_cnxs' = m_cnxs \ {c} /\ Then(t, IF c \in m_cnxs THEN <<e>> ELSE <<>>)
      /\ UNCHANGED <<allVars, socket, reading, told, reqs, crashed>>
  BY <1>1 DEF Drop
<1> HIDE DEF e
<1>5. CASE c \in m_cnxs
  <2>1. Moves(t, <<e>>)
    BY <1>1, <1>2, <1>3, <1>4, <1>5, OneMore
  <2> QED
    BY <1>1, <1>4, <1>5, <2>1 DEF e
<1>6. CASE c \notin m_cnxs
  <2>1. Moves(t, <<>>)
    BY <1>1, <1>4, <1>6, Done
  <2> QED
    BY <1>1, <1>4, <1>6, <2>1
<1> QED
  BY <1>5, <1>6

LEMMA EndFetchDoes ==
  ASSUME RegistryTypeOK, CallsOK, NEW t \in Threads, EndFetch(t)
  PROVE  LET c == Now(t).cnx
         IN /\ ~crashed /\ Now(t) \in Pend(t) /\ Now(t).op = "end" /\ c \in Conns
            /\ fetch_session_by_cnx(c) \in 0..created
            /\ Moves(t, <<Call("unlink", c, fetch_session_by_cnx(c))>>)
            /\ UNCHANGED <<allVars, networkVars, reqs, crashed>>
<1> DEFINE c == Now(t).cnx
           u == Call("unlink", c, fetch_session_by_cnx(c))
<1>1. /\ ~crashed /\ todo[t] # <<>> /\ Now(t) = Head(todo[t]) /\ Now(t) \in Pend(t)
      /\ Now(t).op = "end" /\ c \in Conns
  BY RunningFacts, CallFields DEF EndFetch, CnxOps
<1>2. fetch_session_by_cnx(c) \in 0..created /\ 0..created \subseteq Sessions
  BY FetchType, CreatedFacts DEF fetch_session_by_cnx
<1>3. u \in CallSet
  BY <1>1, <1>2, NewCalls DEF CnxOps
<1>4. u.op = "unlink"
  BY DEF Call
<1>5. Then(t, <<u>>) /\ UNCHANGED <<allVars, networkVars, reqs, crashed>>
  BY <1>1 DEF EndFetch
<1> HIDE DEF u
<1>6. Moves(t, <<u>>)
  BY <1>1, <1>3, <1>4, <1>5, OneMore
<1> QED
  BY <1>1, <1>2, <1>5, <1>6 DEF u

LEMMA EndUnlinkDoes ==
  ASSUME RegistryTypeOK, CallsOK, NEW t \in Threads, EndUnlink(t)
  PROVE  LET r == Now(t)
         IN /\ ~crashed /\ r \in Pend(t) /\ r.op = "unlink" /\ r.cnx \in Conns
            /\ r.ses \in 0..created /\ UnlinkConnection(r.ses, r.cnx)
            /\ Moves(t, <<Call("check", r.cnx, r.ses)>>)
            /\ UNCHANGED <<subscriptionVars, networkVars, reqs, crashed>>
<1> DEFINE r == Now(t)
           u == Call("check", r.cnx, r.ses)
<1>1. /\ ~crashed /\ todo[t] # <<>> /\ r = Head(todo[t]) /\ r \in Pend(t)
      /\ r.op = "unlink" /\ r.cnx \in Conns /\ r.ses \in Sessions /\ r.ses <= created
  BY RunningFacts, CallFields DEF EndUnlink, CnxOps, IdsOK
<1>2. r.ses \in 0..created
  BY <1>1, CreatedFacts, BoundsAssumption DEF Sessions, Sids, Null
<1>3. u \in CallSet
  BY <1>1, NewCalls DEF CnxOps
<1>4. u.op = "check"
  BY DEF Call
<1>5. /\ UnlinkConnection(r.ses, r.cnx) /\ Then(t, <<u>>)
      /\ UNCHANGED <<subscriptionVars, networkVars, reqs, crashed>>
  BY <1>1 DEF EndUnlink
<1> HIDE DEF u
<1>6. Moves(t, <<u>>)
  BY <1>1, <1>3, <1>4, <1>5, OneMore
<1> QED
  BY <1>1, <1>2, <1>5, <1>6 DEF u

LEMMA EndCheckDoes ==
  ASSUME CallsOK, NEW t \in Threads, EndCheck(t)
  PROVE  LET r == Now(t)
         IN /\ ~crashed /\ r \in Pend(t) /\ r.op = "check" /\ r.cnx \in Conns
            /\ r.ses \in Sessions /\ r.ses <= created
            /\ UNCHANGED <<allVars, networkVars, reqs, crashed>>
            /\ IF cnxs[r.ses] = <<>>
               THEN Moves(t, <<Call("leave", r.cnx, r.ses), Call("unregister", r.cnx, r.ses)>>)
               ELSE Moves(t, <<>>)
<1> DEFINE r == Now(t)
           a == Call("leave", r.cnx, r.ses)
           b == Call("unregister", r.cnx, r.ses)
<1>1. /\ ~crashed /\ todo[t] # <<>> /\ r = Head(todo[t]) /\ r \in Pend(t)
      /\ r.op = "check" /\ r.cnx \in Conns /\ r.ses \in Sessions /\ r.ses <= created
  BY RunningFacts, CallFields DEF EndCheck, CnxOps, IdsOK
<1>2. a \in CallSet /\ b \in CallSet
  BY <1>1, NewCalls DEF CnxOps
<1>3. a.op = "leave" /\ b = Call("unregister", a.cnx, a.ses)
  BY DEF Call
<1>4. /\ Then(t, IF cnxs[r.ses] = <<>> THEN <<a, b>> ELSE <<>>)
      /\ UNCHANGED <<allVars, networkVars, reqs, crashed>>
  BY <1>1 DEF EndCheck
<1> HIDE DEF a, b
<1>5. CASE cnxs[r.ses] = <<>>
  <2>0. Then(t, <<a, b>>)
    BY <1>4, <1>5
  <2>1. Moves(t, <<a, b>>)
    BY <1>1, <1>2, <1>3, <2>0, TwoMore
  <2> QED
    BY <1>1, <1>4, <1>5, <2>1 DEF a, b
<1>6. CASE cnxs[r.ses] # <<>>
  <2>1. Moves(t, <<>>)
    BY <1>1, <1>4, <1>6, Done
  <2> QED
    BY <1>1, <1>4, <1>6, <2>1
<1> QED
  BY <1>5, <1>6

LEMMA EndLeaveDoes ==
  ASSUME RegistryTypeOK, CallsOK, NEW t \in Threads, EndLeave(t)
  PROVE  LET r == Now(t)
         IN /\ ~crashed /\ r \in Pend(t) /\ r.op = "leave" /\ r.cnx \in Conns
            /\ r.ses \in Sessions /\ r.ses <= created /\ Request
            /\ Moves(t, <<Call("unregister", r.cnx, r.ses)>>)
            /\ UNCHANGED <<sessionVars, networkVars, reqs, crashed>>
<1> DEFINE r == Now(t)
<1>1. /\ ~crashed /\ todo[t] # <<>> /\ r = Head(todo[t]) /\ r \in Pend(t)
      /\ r.op = "leave" /\ r.cnx \in Conns /\ r.ses \in Sessions /\ r.ses <= created
  BY RunningFacts, CallFields DEF EndLeave, CnxOps, IdsOK
<1>2. r.ses \in 0..created
  BY <1>1, CreatedFacts, BoundsAssumption DEF Sessions, Sids, Null
<1>3. /\ async_init_unsubscription(r.ses, FALSE) /\ Then(t, <<>>)
      /\ UNCHANGED <<sessionVars, networkVars, reqs, crashed>>
  BY <1>1 DEF EndLeave
<1>4. Request
  BY <1>2, <1>3 DEF Request
<1>5. Moves(t, <<Call("unregister", r.cnx, r.ses)>>)
  BY <1>1, <1>3, LeaveMoves
<1> QED
  BY <1>1, <1>3, <1>4, <1>5

LEMMA EndUnregisterDoes ==
  ASSUME CallsOK, NEW t \in Threads, EndUnregister(t)
  PROVE  LET r == Now(t)
         IN /\ ~crashed /\ r \in Pend(t) /\ r.op = "unregister" /\ r.cnx \in Conns
            /\ r.ses \in Sessions /\ unregister_session(r.cnx) /\ Moves(t, <<>>)
            /\ UNCHANGED <<subscriptionVars, networkVars, reqs, crashed>>
<1>1. /\ ~crashed /\ todo[t] # <<>> /\ Now(t) = Head(todo[t]) /\ Now(t) \in Pend(t)
      /\ Now(t).op = "unregister" /\ Now(t).cnx \in Conns /\ Now(t).ses \in Sessions
  BY RunningFacts, CallFields DEF EndUnregister, CnxOps
<1> QED
  BY <1>1, Done DEF EndUnregister

(* What a frame makes its thread do: the calls of its handler, then read().*)
FrameOps == {"write", "register", "front", "copy", "subscribe", "unsubscribe", "read"}
FrameCalls(c, new) ==
  /\ new # <<>> /\ Head(new).op \in FrameOps
  /\ \A r \in Range(new) : /\ IdsOK(r) /\ r.op \in FrameOps
                           /\ r.op \in AboutCnx => r.cnx = c
                           /\ r.op = "write" => r.kind # "CONNECTED"
  /\ Head(new).op = "register" => /\ Relogin \/ told[c] = Null
                                  /\ \A r \in Range(new) : r.op # "write"

HandlerCalls(c, calls) ==
  /\ calls \in Seq(CallSet) /\ AllLater(Tail(calls)) /\ calls # <<>>
  /\ \A i \in DOMAIN calls : /\ IdsOK(calls[i]) /\ calls[i].op \in FrameOps
                             /\ calls[i].op \in AboutCnx => calls[i].cnx = c
                             /\ calls[i].op = "write" => calls[i].kind # "CONNECTED"
  /\ calls[1].op = "register" => Len(calls) = 1 /\ (Relogin \/ told[c] = Null)

LEMMA ServerOfType == ASSUME NEW c \in Conns PROVE ServerOf(c) \in Threads
BY DEF ServerOf, Threads

LEMMA ReadFrameDoes ==
  ASSUME RegistryTypeOK, CallsOK, NEW c \in Conns, NEW calls, HandlerCalls(c, calls), ReadFrame(c, calls)
  PROVE  /\ ~crashed /\ c \in reading /\ socket[c] = "open" /\ Pend(ServerOf(c)) = {}
         /\ reqs < MaxReqs /\ reqs' = reqs + 1 /\ reading' = reading \ {c}
         /\ UNCHANGED <<allVars, m_cnxs, socket, crashed>>
         /\ \E new : Moves(ServerOf(c), new) /\ FrameCalls(c, new)
<1> DEFINE t == ServerOf(c)
           r == Call("read", c, Null)
           new == Append(calls, r)
<1>1. /\ ~crashed /\ todo[t] = <<>> /\ c \in reading /\ socket[c] = "open"
      /\ reqs < MaxReqs /\ reqs' = reqs + 1 /\ reading' = reading \ {c}
      /\ todo' = [todo EXCEPT ![t] = new] /\ UNCHANGED <<allVars, m_cnxs, socket, crashed>>
  BY DEF ReadFrame, Idle
<1>2. r \in CallSet
  BY NewCalls DEF CnxOps, Sessions
<1>3. r.op = "read" /\ r.cnx = c /\ r.ses = Null
  BY DEF Call
<1>4. IdsOK(r)
  BY <1>3, CreatedFacts DEF IdsOK
<1>5. t \in Threads
  BY ServerOfType
<1>6. /\ calls \in Seq(CallSet) /\ AllLater(Tail(calls)) /\ calls # <<>>
      /\ \A i \in DOMAIN calls : /\ IdsOK(calls[i]) /\ calls[i].op \in FrameOps
                                 /\ calls[i].op \in AboutCnx => calls[i].cnx = c
                                 /\ calls[i].op = "write" => calls[i].kind # "CONNECTED"
      /\ calls[1].op = "register" => Len(calls) = 1 /\ (Relogin \/ told[c] = Null)
  BY DEF HandlerCalls
<1> HIDE DEF r, t
<1>7. /\ new \in Seq(CallSet) /\ new # <<>> /\ Head(new) = calls[1] /\ Len(new) = Len(calls) + 1
      /\ \A i \in DOMAIN new : new[i] = IF i = Len(calls) + 1 THEN r ELSE calls[i]
      /\ \A i \in DOMAIN new : i = Len(calls) + 1 \/ i \in DOMAIN calls
  BY <1>2, <1>6
<1>8. Tail(new) = Append(Tail(calls), r) /\ Tail(calls) \in Seq(CallSet)
  BY <1>2, <1>6
<1>9. AllLater(Tail(new))
  <2> DEFINE z == Tail(calls)
  <2>1. z \in Seq(CallSet) /\ AllLater(z)
    BY <1>6, <1>8
  <2> HIDE DEF z
  <2>2. \A i \in DOMAIN Append(z, r) :
          Append(z, r)[i] = r \/ (i \in DOMAIN z /\ Append(z, r)[i] = z[i])
    BY <1>2, <2>1
  <2>3. AllLater(Append(z, r))
    BY <1>3, <2>1, <2>2 DEF AllLater, Later
  <2> QED
    BY <1>8, <2>3 DEF z
<1>10. Head(new).op \in FrameOps
  BY <1>6, <1>7
<1> HIDE DEF new
<1>11. Ordered(new)
  BY <1>9, <1>10 DEF Ordered, FrameOps
<1>12. Moves(t, new) /\ Pend(t) = {}
  BY <1>1, <1>5, <1>7, <1>11, IdleMoves
<1>13. ASSUME NEW x \in Range(new)
       PROVE  /\ IdsOK(x) /\ x.op \in FrameOps /\ (x.op \in AboutCnx => x.cnx = c)
              /\ x.op = "write" => x.kind # "CONNECTED"
  <2>1. PICK i \in DOMAIN new : x = new[i]
    BY DEF Range
  <2>2. CASE x = r
    BY <1>3, <1>4, <2>2 DEF FrameOps
  <2>3. CASE i \in DOMAIN calls /\ x = calls[i]
    BY <1>6, <2>3
  <2> QED
    BY <1>7, <2>1, <2>2, <2>3
<1>14. ASSUME Head(new).op = "register"
       PROVE  /\ Relogin \/ told[c] = Null
              /\ \A x \in Range(new) : x.op # "write"
  <2>1. calls[1].op = "register" /\ Len(calls) = 1 /\ (Relogin \/ told[c] = Null)
    BY <1>6, <1>7, <1>14
  <2>2. ASSUME NEW x \in Range(new) PROVE x = r \/ x = calls[1]
    BY <1>6, <1>7, <2>1 DEF Range
  <2> QED
    BY <1>3, <2>1, <2>2
<1>15. FrameCalls(c, new)
  BY <1>7, <1>10, <1>13, <1>14 DEF FrameCalls
<1> QED
  BY <1>1, <1>12, <1>15 DEF t

LEMMA OneCall ==
  ASSUME NEW c, NEW a \in CallSet, IdsOK(a), a.op \in FrameOps, a.op \in AboutCnx => a.cnx = c,
         a.op = "write" => a.kind # "CONNECTED",
         a.op = "register" => Relogin \/ told[c] = Null
  PROVE  HandlerCalls(c, <<a>>)
BY DEF HandlerCalls, AllLater

LEMMA HandlersCall ==
  ASSUME RegistryTypeOK, CallsOK, NEW c \in Conns, NEW s
  PROVE  /\ HandlerCalls(c, Refuse(c)) /\ HandlerCalls(c, <<Write(c, "ERROR", Null, FALSE)>>)
         /\ \A l \in Logins, p \in Profiles :
              Relogin \/ told[c] = Null => HandlerCalls(c, <<Register(c, l, p)>>)
         /\ \A x \in 0..created :
              /\ HandlerCalls(c, <<Write(c, "RECEIPT", x, TRUE)>>)
              /\ x # Null => HandlerCalls(c, <<Call("unsubscribe", c, x)>>)
              /\ \A d \in Patterns :
                   x # Null => /\ HandlerCalls(c, <<Subscribe(x, "REGEX", d)>>)
                               /\ Cardinality(d) = 1 =>
                                    HandlerCalls(c, <<Subscribe(x, "DIRECT", d)>>)
              /\ HandlerCalls(c, <<ToFront(x, "MESSAGE"), Call("copy", c, x),
                                   Write(c, "ACK", Null, FALSE)>>)
<1>0. 0..created \subseteq Sessions /\ Null \in 0..created /\ \A x \in 0..created : x <= created
  BY CreatedFacts
<1>1. ASSUME NEW x \in 0..created, NEW k \in {"ERROR", "RECEIPT", "ACK"}, NEW b \in BOOLEAN
      PROVE  /\ HandlerCalls(c, <<Write(c, k, x, b)>>) /\ Write(c, k, x, b) \in CallSet
             /\ IdsOK(Write(c, k, x, b)) /\ Write(c, k, x, b).op = "write"
             /\ Write(c, k, x, b).cnx = c /\ Write(c, k, x, b).kind # "CONNECTED"
  <2> DEFINE w == Write(c, k, x, b)
  <2>1. w \in CallSet
    BY <1>0, NewCalls DEF Kinds
  <2>2. w.op = "write" /\ w.cnx = c /\ w.kind = k /\ w.ses = x
    BY DEF Write
  <2> HIDE DEF w
  <2>3. IdsOK(w)
    BY <1>0, <2>2 DEF IdsOK
  <2>4. HandlerCalls(c, <<w>>)
    BY <2>1, <2>2, <2>3, OneCall DEF FrameOps
  <2> QED
    BY <2>1, <2>2, <2>3, <2>4 DEF w
<1>2. ASSUME NEW l \in Logins, NEW p \in Profiles, Relogin \/ told[c] = Null
      PROVE  HandlerCalls(c, <<Register(c, l, p)>>)
  <2> DEFINE w == Register(c, l, p)
  <2>1. w \in CallSet
    BY NewCalls
  <2>2. w.op = "register" /\ w.cnx = c
    BY DEF Register
  <2> HIDE DEF w
  <2>3. IdsOK(w)
    BY <2>2 DEF IdsOK, CnxOps
  <2>4. HandlerCalls(c, <<w>>)
    BY <1>2, <2>1, <2>2, <2>3, OneCall DEF FrameOps
  <2> QED
    BY <2>4 DEF w
<1>3. ASSUME NEW op \in {"unsubscribe", "copy"}, NEW x \in 0..created, op = "copy" \/ x # Null
      PROVE  /\ Call(op, c, x) \in CallSet /\ Call(op, c, x).op = op /\ Call(op, c, x).cnx = c
             /\ IdsOK(Call(op, c, x))
  <2> DEFINE w == Call(op, c, x)
  <2>1. w \in CallSet
    BY <1>0, NewCalls DEF CnxOps
  <2>2. w.op = op /\ w.cnx = c /\ w.ses = x
    BY DEF Call
  <2> HIDE DEF w
  <2>3. IdsOK(w)
    BY <1>0, <1>3, <2>2 DEF IdsOK
  <2> QED
    BY <2>1, <2>2, <2>3 DEF w
<1>4. ASSUME NEW x \in 0..created, x # Null PROVE HandlerCalls(c, <<Call("unsubscribe", c, x)>>)
  BY <1>3, <1>4, OneCall DEF FrameOps
<1>5. ASSUME NEW x \in 0..created, x # Null, NEW d \in Patterns, NEW y \in {"DIRECT", "REGEX"},
             y = "DIRECT" => Cardinality(d) = 1
      PROVE  HandlerCalls(c, <<Subscribe(x, y, d)>>)
  <2> DEFINE w == Subscribe(x, y, d)
  <2>1. w \in CallSet
    BY <1>0, NewCalls
  <2>2. w.op = "subscribe" /\ w.ses = x /\ w.type = y /\ w.dest = d
    BY DEF Subscribe
  <2> HIDE DEF w
  <2>3. IdsOK(w)
    BY <1>0, <1>5, <2>2 DEF IdsOK
  <2>4. HandlerCalls(c, <<w>>)
    BY <2>1, <2>2, <2>3, OneCall DEF FrameOps, AboutCnx, CnxOps
  <2> QED
    BY <2>4 DEF w
<1>6. ASSUME NEW y \in 0..created
      PROVE  HandlerCalls(c, <<ToFront(y, "MESSAGE"), Call("copy", c, y),
                               Write(c, "ACK", Null, FALSE)>>)
  <2> DEFINE a == ToFront(y, "MESSAGE")
             b == Call("copy", c, y)
             w == Write(c, "ACK", Null, FALSE)
  <2>1. a \in CallSet
    BY <1>0, NewCalls DEF Kinds
  <2>2. a.op = "front" /\ a.ses = y
    BY DEF ToFront
  <2>3. b \in CallSet /\ b.op = "copy" /\ b.cnx = c /\ IdsOK(b)
    BY <1>3
  <2>4. w \in CallSet /\ IdsOK(w) /\ w.op = "write" /\ w.cnx = c /\ w.kind # "CONNECTED"
    BY <1>0, <1>1
  <2> HIDE DEF a, b, w
  <2>5. IdsOK(a)
    BY <1>0, <2>2 DEF IdsOK
  <2> DEFINE q == <<a, b, w>>
  <2>6. /\ q \in Seq(CallSet) /\ Len(q) = 3 /\ q[1] = a /\ q[2] = b /\ q[3] = w
        /\ q # <<>> /\ Tail(q) = <<b, w>>
    BY <2>1, <2>3, <2>4
  <2>7. AllLater(<<b, w>>)
    BY <2>3, <2>4 DEF AllLater, Later
  <2> HIDE DEF q
  <2>8. \A i \in DOMAIN q : q[i] = a \/ q[i] = b \/ q[i] = w
    BY <2>6
  <2>9. HandlerCalls(c, q)
    BY <2>2, <2>3, <2>4, <2>5, <2>6, <2>7, <2>8 DEF HandlerCalls, FrameOps, AboutCnx, CnxOps
  <2> QED
    BY <2>9 DEF a, b, w, q
<1>7. HandlerCalls(c, Refuse(c))
  BY <1>0, <1>1 DEF Refuse
<1> QED
  BY <1>0, <1>1, <1>2, <1>4, <1>5, <1>6, <1>7

(* A CONNECT forgets the session the connection was told before.           *)
ForgetsTold(c) ==
  \/ told' = told
  \/ told' = [told EXCEPT ![c] = Null] /\ (Relogin \/ told[c] = Null)

LEMMA FrameDoes ==
  ASSUME RegistryTypeOK, CallsOK, NEW c \in Conns, Frame(c)
  PROVE  /\ ~crashed /\ c \in reading /\ socket[c] = "open" /\ Pend(ServerOf(c)) = {}
         /\ reqs < MaxReqs /\ reqs' = reqs + 1 /\ reading' = reading \ {c}
         /\ UNCHANGED <<allVars, m_cnxs, socket, crashed>> /\ ForgetsTold(c)
         /\ \E new : Moves(ServerOf(c), new) /\ FrameCalls(c, new)
<1>0. ASSUME NEW calls, Receive(c, calls) PROVE ReadFrame(c, calls) /\ ForgetsTold(c)
  BY <1>0 DEF Receive, ForgetsTold
<1>1. SUFFICES \E calls : HandlerCalls(c, calls) /\ ReadFrame(c, calls) /\ ForgetsTold(c)
  BY ReadFrameDoes
<1>2. \A x : /\ fetch_session_by_id(x) \in 0..created
             /\ fetch_session_by_cnx(x) \in 0..created
             /\ fetch_session_by_destination(x) \in 0..created
  BY FetchType DEF fetch_session_by_cnx, fetch_session_by_destination
<1>s. ASSUME \E calls : HandlerCalls(c, calls) /\ Receive(c, calls)
      PROVE  \E calls : HandlerCalls(c, calls) /\ ReadFrame(c, calls) /\ ForgetsTold(c)
  BY <1>0, <1>s
<1>3. CASE BadFrame(c)
  BY <1>3, <1>s, HandlersCall DEF BadFrame
<1>4. ASSUME NEW l \in Logins, NEW p \in Profiles, proccess_connect(c, l, p)
      PROVE  \E calls : HandlerCalls(c, calls) /\ ReadFrame(c, calls) /\ ForgetsTold(c)
  BY <1>4, HandlersCall DEF proccess_connect, ForgetsTold
<1>5. CASE proccess_disconnect(c)
  BY <1>2, <1>5, <1>s, HandlersCall DEF proccess_disconnect
<1>6. ASSUME NEW s, NEW d, proccess_send_message(c, s, d)
      PROVE  \E calls : HandlerCalls(c, calls) /\ Receive(c, calls)
  BY <1>2, <1>6, HandlersCall DEF proccess_send_message
<1>7. ASSUME NEW s, NEW d \in Patterns, NEW y \in {"DIRECT", "REGEX"},
             y = "DIRECT" => Cardinality(d) = 1, proccess_subscribe(c, s, y, d)
      PROVE  \E calls : HandlerCalls(c, calls) /\ Receive(c, calls)
  <2>1. CASE fetch_session_by_id(s) = Null
    BY <1>7, <2>1, HandlersCall DEF proccess_subscribe
  <2>2. CASE fetch_session_by_id(s) # Null
    BY <1>2, <1>7, <2>2, HandlersCall DEF proccess_subscribe
  <2> QED
    BY <2>1, <2>2
<1>8. ASSUME NEW s, proccess_unsubscribe(c, s)
      PROVE  \E calls : HandlerCalls(c, calls) /\ Receive(c, calls)
  BY <1>2, <1>8, HandlersCall DEF proccess_unsubscribe
<1> QED
  BY <1>3, <1>4, <1>5, <1>6, <1>7, <1>8, <1>s DEF Frame

LEMMA ReadErrorDoes ==
  ASSUME CallsOK, NEW c \in Conns, ReadError(c)
  PROVE  /\ ~crashed /\ c \in reading /\ Pend(ServerOf(c)) = {}
         /\ socket' = [socket EXCEPT ![c] = "closed"] /\ reading' = reading \ {c}
         /\ Moves(ServerOf(c), <<Call("drop", c, Null)>>)
         /\ UNCHANGED <<allVars, m_cnxs, told, reqs, crashed>>
<1> DEFINE a == Call("drop", c, Null)
<1>1. a \in CallSet
  BY NewCalls DEF CnxOps, Sessions
<1>2. a.op = "drop"
  BY DEF Call
<1>3. ServerOf(c) \in Threads
  BY ServerOfType
<1>4. /\ ~crashed /\ c \in reading /\ todo[ServerOf(c)] = <<>>
      /\ socket' = [socket EXCEPT ![c] = "closed"] /\ reading' = reading \ {c}
      /\ todo' = [todo EXCEPT ![ServerOf(c)] = <<a>>]
      /\ UNCHANGED <<allVars, m_cnxs, told, reqs, crashed>>
  BY DEF ReadError, Idle
<1> HIDE DEF a
<1>5. Moves(ServerOf(c), <<a>>) /\ Pend(ServerOf(c)) = {}
  BY <1>1, <1>2, <1>3, <1>4, Tuples, IdleMoves
<1> QED
  BY <1>4, <1>5 DEF a

LEMMA WorkerTaskDoes ==
  ASSUME WorkerTask
  PROVE  ~crashed /\ WorkerStep /\ UNCHANGED <<sessionVars, brokerVars>>
BY DEF WorkerTask, WorkerStep, Idle

LEMMA WorkerEndDoes ==
  ASSUME SubscriptionTypeOK, RegistryTypeOK, CallsOK, WorkerEnd
  PROVE  /\ ~crashed /\ Pend("worker") = {} /\ WorkerStep /\ task.owner \in Sessions
         /\ task.owner <= created
         /\ Moves("worker", <<ToFront(task.owner, "ACK")>>) \/ Moves("worker", <<>>)
         /\ UNCHANGED <<sessionVars, networkVars, reqs, crashed>>
<1> DEFINE a == ToFront(task.owner, "ACK")
<1>1. task.owner \in Sessions /\ task.owner <= created
  BY DEF SubscriptionTypeOK, Task
<1>2. a \in CallSet
  BY <1>1, NewCalls DEF Kinds
<1>3. a.op = "front"
  BY DEF ToFront
<1>4. /\ ~crashed /\ todo["worker"] = <<>> /\ EndTask
      /\ todo' = [todo EXCEPT !["worker"] = IF task.send_call_back THEN <<a>> ELSE <<>>]
      /\ UNCHANGED <<sessionVars, networkVars, reqs, crashed>>
  BY DEF WorkerEnd, Idle
<1>5. "worker" \in Threads
  BY DEF Threads
<1> HIDE DEF a
<1>6. CASE task.send_call_back
  <2>1. Moves("worker", <<a>>) /\ Pend("worker") = {}
    BY <1>2, <1>3, <1>4, <1>5, <1>6, Tuples, IdleMoves
  <2> QED
    BY <1>1, <1>4, <2>1 DEF WorkerStep, a
<1>7. CASE ~task.send_call_back
  <2>1. Moves("worker", <<>>) /\ Pend("worker") = {}
    BY <1>4, <1>5, <1>7, Tuples, IdleMoves
  <2> QED
    BY <1>1, <1>4, <2>1 DEF WorkerStep
<1> QED
  BY <1>6, <1>7

-----------------------------------------------------------------------------
(* The broker uses the managers as their specification allows.             *)
LEMMA TodoStays ==
  ASSUME CallsOK, UNCHANGED todo, created \in Nat, created' \in Nat, created <= created'
  PROVE  CallsOK'
<1>1. ASSUME NEW u \in Threads, NEW r \in Pend(u) PROVE IdsOK(r)'
  <2>1. IdsOK(r) /\ r \in CallSet
    BY <1>1 DEF CallsOK, Pend, Range
  <2>2. r.op \in CnxOps \cup {"write", "subscribe", "front", "copies"} => r.ses \in Nat
    BY <2>1, CallFields, BoundsAssumption DEF Sessions, Sids, Null
  <2> QED
    BY <2>1, <2>2 DEF IdsOK
<1> QED
  BY <1>1 DEF CallsOK, Pend

LEMMA RegistryNeedsNoCall ==
  ASSUME NEW c \in Conns, UNCHANGED subscriptionVars,
         \/ \E l \in Logins, p \in Profiles :
              \/ OpenSession(c, l, p) \/ TakeOverSession(c, l, p) \/ RefuseLogin(l, p)
         \/ unregister_session(c)
         \/ \E s \in 0..created : UnlinkConnection(s, c)
  PROVE  ManagersNext
BY DEF ManagersNext, RegistryNext, register_session

(* The calls a step adds, whose ids were handed out.                       *)
StepCalls ==
  \/ UNCHANGED todo
  \/ \E t \in Threads : \E new : Moves(t, new) /\ \A r \in Range(new) : IdsOK(r)'

LEMMA RangeOfTuples ==
  /\ Range(<<>>) = {}
  /\ \A a, r : r \in Range(<<a>>) => r = a
  /\ \A a, b, r : r \in Range(<<a, b>>) => r = a \/ r = b
BY DEF Range

LEMMA NewIdsOK ==
  ASSUME RegistryTypeOK
  PROVE  /\ \A c, k, s : \A b \in BOOLEAN : s \in Sessions /\ s <= created => IdsOK(Write(c, k, s, b))
         /\ \A op \in CnxOps \ {"unsubscribe"} : \A c, s :
              s \in Sessions /\ s <= created => IdsOK(Call(op, c, s))
         /\ \A s \in Sessions : \A k : s <= created => IdsOK(ToFront(s, k))
         /\ \A s \in Sessions : \A x : s <= created /\ x \subseteq 0..created => IdsOK(Copies(s, x))
<1>1. ASSUME NEW s \in Sessions, s <= created, NEW c, NEW k, NEW b \in BOOLEAN
      PROVE  IdsOK(Write(c, k, s, b))
  BY <1>1 DEF IdsOK, Write
<1>2. ASSUME NEW s \in Sessions, s <= created, NEW op \in CnxOps \ {"unsubscribe"}, NEW c
      PROVE  IdsOK(Call(op, c, s))
  BY <1>2 DEF IdsOK, Call, CnxOps
<1>3. ASSUME NEW s \in Sessions, s <= created, NEW k PROVE IdsOK(ToFront(s, k))
  BY <1>3 DEF IdsOK, ToFront
<1>4. ASSUME NEW s \in Sessions, s <= created, NEW x, x \subseteq 0..created
      PROVE  IdsOK(Copies(s, x))
  BY <1>4 DEF IdsOK, Copies
<1> QED
  BY <1>1, <1>2, <1>3, <1>4

LEMMA ThreadUsesManagers ==
  ASSUME RegistryTypeOK, SubscriptionTypeOK, CallsOK, NEW t \in Threads, ThreadStep(t)
  PROVE  [ManagersNext]_allVars /\ StepCalls
<1>0. created \in Nat /\ Null \in Sessions /\ Null <= created /\ 0..created \subseteq Sessions
      /\ \A s \in 0..created : s <= created
  BY CreatedFacts DEF Sessions, Null
<1>c. ASSUME created' = created,
             \/ UNCHANGED todo
             \/ Moves(t, <<>>)
             \/ \E a : Moves(t, <<a>>) /\ IdsOK(a)
             \/ \E a, b : Moves(t, <<a, b>>) /\ IdsOK(a) /\ IdsOK(b)
      PROVE  StepCalls
  <2>1. \A x : IdsOK(x) => IdsOK(x)'
    BY <1>c DEF IdsOK
  <2>2. ASSUME NEW new, Moves(t, new), \A r \in Range(new) : IdsOK(r) PROVE StepCalls
    BY <2>1, <2>2 DEF StepCalls
  <2>3. ASSUME Moves(t, <<>>) PROVE StepCalls
    BY <2>2, <2>3, RangeOfTuples
  <2>4. ASSUME NEW a, Moves(t, <<a>>), IdsOK(a) PROVE StepCalls
    <3> DEFINE q == <<a>>
    <3>1. \A r \in Range(q) : IdsOK(r)
      BY <2>4, RangeOfTuples
    <3>2. Moves(t, q)
      BY <2>4
    <3> HIDE DEF q
    <3> QED
      BY <2>2, <3>1, <3>2
  <2>5. ASSUME NEW a, NEW b, Moves(t, <<a, b>>), IdsOK(a), IdsOK(b) PROVE StepCalls
    <3> DEFINE q == <<a, b>>
    <3>1. \A r \in Range(q) : IdsOK(r)
      BY <2>5, RangeOfTuples
    <3>2. Moves(t, q)
      BY <2>5
    <3> HIDE DEF q
    <3> QED
      BY <2>2, <3>1, <3>2
  <2>6. UNCHANGED todo => StepCalls
    BY DEF StepCalls
  <2> QED
    BY <1>c, <2>3, <2>4, <2>5, <2>6
<1>1. CASE RegisterNew(t)
  <2>1. /\ Now(t).cnx \in Conns /\ Now(t).login \in Logins /\ Now(t).profile \in Profiles
        /\ NewId \in Sessions /\ UNCHANGED subscriptionVars
        /\ OpenSession(Now(t).cnx, Now(t).login, Now(t).profile)
        /\ Moves(t, <<Write(Now(t).cnx, "CONNECTED", NewId, FALSE)>>)
    BY <1>1, RegisterNewDoes
  <2>2. created' = NewId
    BY <2>1 DEF OpenSession
  <2>3. ASSUME NEW x, x = Write(Now(t).cnx, "CONNECTED", NewId, FALSE) PROVE IdsOK(x)'
    <3>1. x.op = "write" /\ x.ses = NewId
      BY <2>3 DEF Write
    <3>2. NewId = created + 1 /\ NewId <= created'
      BY <1>0, <2>2 DEF NewId
    <3> QED
      BY <3>1, <3>2 DEF IdsOK
  <2>4. ManagersNext
    BY <2>1, RegistryNeedsNoCall
  <2> QED
    BY <2>1, <2>3, <2>4, RangeOfTuples DEF StepCalls
<1>2. CASE RegisterAgain(t)
  <2> DEFINE r == Now(t)
             s == m_login_session[r.login]
             a == Write(r.cnx, "CONNECTED", s, FALSE)
             e == Write(Head(cnxs[s]), "ERROR", Null, TRUE)
  <2>1. /\ r.cnx \in Conns /\ r.login \in Logins /\ r.profile \in Profiles
        /\ s \in Sessions /\ s <= created /\ TakeOverSession(r.cnx, r.login, r.profile)
        /\ UNCHANGED subscriptionVars
        /\ UNCHANGED todo \/ Moves(t, <<a>>) \/ Moves(t, <<e, a>>)
    BY <1>2, RegisterAgainDoes
  <2>2. IdsOK(a) /\ IdsOK(e)
    BY <1>0, <2>1, NewIdsOK
  <2>3. created' = created
    BY <2>1 DEF TakeOverSession, sessionFields
  <2>4. ManagersNext
    BY <2>1, RegistryNeedsNoCall
  <2> HIDE DEF a, e
  <2>5. StepCalls
    BY <1>c, <2>1, <2>2, <2>3
  <2> QED
    BY <2>4, <2>5
<1>3. ASSUME UNCHANGED sessionVars,
             \/ UNCHANGED todo
             \/ Moves(t, <<>>)
             \/ \E a : Moves(t, <<a>>) /\ IdsOK(a)
             \/ \E a, b : Moves(t, <<a, b>>) /\ IdsOK(a) /\ IdsOK(b)
      PROVE  StepCalls
  BY <1>3, <1>c DEF sessionVars, sessionFields
<1>4. CASE RegisterRefused(t)
  <2>1. /\ Now(t).cnx \in Conns /\ Now(t).login \in Logins /\ Now(t).profile \in Profiles
        /\ RefuseLogin(Now(t).login, Now(t).profile) /\ UNCHANGED <<sessionVars, subscriptionVars>>
        /\ Moves(t, <<Write(Now(t).cnx, "ERROR", Null, TRUE)>>)
    BY <1>4, RegisterRefusedDoes
  <2>2. UNCHANGED allVars
    BY <2>1 DEF allVars
  <2> QED
    BY <1>0, <1>3, <2>1, <2>2, NewIdsOK
<1>5. ASSUME UNCHANGED allVars PROVE UNCHANGED sessionVars
  BY <1>5 DEF allVars
<1>6. CASE SendToFront(t)
  <2>1. UNCHANGED allVars
    BY <1>6, SendToFrontDoes
  <2>2. \/ UNCHANGED todo \/ Moves(t, <<>>)
        \/ /\ Now(t).ses \in Sessions /\ Now(t).ses <= created
           /\ Moves(t, <<Write(Head(cnxs[Now(t).ses]), Now(t).kind, Now(t).ses, FALSE)>>)
    BY <1>6, SendToFrontDoes
  <2> QED
    BY <1>0, <1>3, <1>5, <2>1, <2>2, NewIdsOK
<1>7. CASE StartCopies(t)
  <2>1. /\ Now(t).ses \in Sessions /\ Now(t).ses <= created /\ UNCHANGED allVars
        /\ subscribers[Now(t).ses] \subseteq 0..created
        /\ Moves(t, <<Copies(Now(t).ses, subscribers[Now(t).ses])>>)
    BY <1>7, StartCopiesDoes
  <2> QED
    BY <1>3, <1>5, <2>1, NewIdsOK
<1>8. CASE SendCopy(t)
  <2> DEFINE r == Now(t)
  <2>1. r.ses \in Sessions /\ r.ses <= created /\ r.left \subseteq 0..created /\ UNCHANGED allVars
    BY <1>8, SendCopyDoes
  <2>2. \/ Moves(t, <<>>)
        \/ \E left \in SUBSET r.left :
             \/ Moves(t, <<Copies(r.ses, left)>>)
             \/ \E s \in 0..created : Moves(t, <<ToFront(s, "MESSAGE"), Copies(r.ses, left)>>)
    BY <1>8, SendCopyDoes
  <2>3. CASE Moves(t, <<>>)
    BY <1>3, <1>5, <2>1, <2>3
  <2>4. ASSUME NEW left \in SUBSET r.left, Moves(t, <<Copies(r.ses, left)>>)
        PROVE  StepCalls
    <3>1. IdsOK(Copies(r.ses, left))
      BY <2>1, NewIdsOK
    <3> QED
      BY <1>3, <1>5, <2>1, <2>4, <3>1
  <2>5. ASSUME NEW left \in SUBSET r.left, NEW s \in 0..created,
               Moves(t, <<ToFront(s, "MESSAGE"), Copies(r.ses, left)>>)
        PROVE  StepCalls
    <3>1. IdsOK(Copies(r.ses, left)) /\ IdsOK(ToFront(s, "MESSAGE"))
      BY <1>0, <2>1, NewIdsOK
    <3> QED
      BY <1>3, <1>5, <2>1, <2>5, <3>1
  <2> QED
    BY <2>1, <2>2, <2>3, <2>4, <2>5
<1>9. CASE AskSubscription(t) \/ AskUnsubscription(t)
  <2>1. Moves(t, <<>>) /\ Request /\ UNCHANGED sessionVars
    BY <1>9, AskDoes
  <2> QED
    BY <1>3, <2>1 DEF ManagersNext
<1>10. ASSUME UNCHANGED allVars, UNCHANGED todo \/ Moves(t, <<>>)
       PROVE  [ManagersNext]_allVars /\ StepCalls
  BY <1>3, <1>5, <1>10
<1>11. CASE Reread(t)
  BY <1>10, <1>11, RereadDoes
<1>12. CASE WriteDropped(t)
  BY <1>10, <1>12, WriteDroppedDoes
<1>13. CASE Unlock(t)
  BY <1>10, <1>13, UnlockDoes
<1>14. CASE CloseThrows(t)
  BY <1>10, <1>14, CloseThrowsDoes
<1>15. CASE WriteOk(t) \/ WriteFails(t)
  <2>1. /\ UNCHANGED allVars
        /\ \/ Moves(t, <<>>)
           \/ Moves(t, <<Call("drop", Now(t).cnx, Null), Call("unlock", Now(t).cnx, Null)>>)
    BY <1>15, WriteDoes DEF WriteCloses, Close
  <2>2. /\ IdsOK(Call("drop", Now(t).cnx, Null)) /\ IdsOK(Call("unlock", Now(t).cnx, Null))
    BY <1>0, NewIdsOK DEF CnxOps
  <2> QED
    BY <1>3, <1>5, <2>1, <2>2
<1>16. CASE Drop(t)
  <2>1. /\ UNCHANGED allVars
        /\ Moves(t, <<>>) \/ Moves(t, <<Call("end", Now(t).cnx, Null)>>)
    BY <1>16, DropDoes
  <2>2. IdsOK(Call("end", Now(t).cnx, Null))
    BY <1>0, NewIdsOK DEF CnxOps
  <2> QED
    BY <1>3, <1>5, <2>1, <2>2
<1>17. CASE EndFetch(t)
  <2> DEFINE s == fetch_session_by_cnx(Now(t).cnx)
  <2>1. UNCHANGED allVars /\ s \in 0..created /\ Moves(t, <<Call("unlink", Now(t).cnx, s)>>)
    BY <1>17, EndFetchDoes
  <2>2. IdsOK(Call("unlink", Now(t).cnx, s))
    BY <1>0, <2>1, NewIdsOK DEF CnxOps
  <2> QED
    BY <1>3, <1>5, <2>1, <2>2
<1>18. CASE EndUnlink(t)
  <2> DEFINE r == Now(t)
  <2>1. /\ r.cnx \in Conns /\ r.ses \in 0..created /\ UnlinkConnection(r.ses, r.cnx)
        /\ Moves(t, <<Call("check", r.cnx, r.ses)>>) /\ UNCHANGED subscriptionVars
    BY <1>18, EndUnlinkDoes
  <2>2. created' = created
    BY <2>1 DEF UnlinkConnection, sessionFields
  <2>3. IdsOK(Call("check", r.cnx, r.ses))
    BY <1>0, <2>1, NewIdsOK DEF CnxOps
  <2>4. ManagersNext
    BY <2>1, RegistryNeedsNoCall
  <2> QED
    BY <1>c, <2>1, <2>2, <2>3, <2>4
<1>19. CASE EndCheck(t)
  <2> DEFINE r == Now(t)
  <2>1. /\ r.ses \in Sessions /\ r.ses <= created /\ UNCHANGED allVars
        /\ \/ Moves(t, <<Call("leave", r.cnx, r.ses), Call("unregister", r.cnx, r.ses)>>)
           \/ Moves(t, <<>>)
    BY <1>19, EndCheckDoes
  <2>2. IdsOK(Call("leave", r.cnx, r.ses)) /\ IdsOK(Call("unregister", r.cnx, r.ses))
    BY <2>1, NewIdsOK DEF CnxOps
  <2> QED
    BY <1>3, <1>5, <2>1, <2>2
<1>20. CASE EndLeave(t)
  <2> DEFINE r == Now(t)
  <2>1. /\ r.ses \in Sessions /\ r.ses <= created /\ UNCHANGED sessionVars /\ Request
        /\ Moves(t, <<Call("unregister", r.cnx, r.ses)>>)
    BY <1>20, EndLeaveDoes
  <2>2. IdsOK(Call("unregister", r.cnx, r.ses))
    BY <2>1, NewIdsOK DEF CnxOps
  <2> QED
    BY <1>3, <2>1, <2>2 DEF ManagersNext
<1>21. CASE EndUnregister(t)
  <2>1. /\ Now(t).cnx \in Conns /\ unregister_session(Now(t).cnx) /\ Moves(t, <<>>)
        /\ UNCHANGED subscriptionVars
    BY <1>21, EndUnregisterDoes
  <2>2. ManagersNext
    BY <2>1, RegistryNeedsNoCall
  <2> QED
    BY <2>1, <2>2, RangeOfTuples DEF StepCalls
<1> QED
  BY <1>1, <1>2, <1>4, <1>6, <1>7, <1>8, <1>9, <1>11, <1>12, <1>13, <1>14, <1>15, <1>16,
     <1>17, <1>18, <1>19, <1>20, <1>21 DEF ThreadStep

LEMMA BrokerUsesManagers ==
  ASSUME RegistryTypeOK, SubscriptionTypeOK, CallsOK, [BrokerNext]_vars
  PROVE  [ManagersNext]_allVars /\ StepCalls
<1>1. ASSUME NEW c \in Conns, Accept(c) PROVE [ManagersNext]_allVars /\ StepCalls
  BY <1>1 DEF Accept, StepCalls
<1>2. ASSUME NEW c \in Conns, ReadError(c) PROVE [ManagersNext]_allVars /\ StepCalls
  <2>1. UNCHANGED allVars /\ Moves(ServerOf(c), <<Call("drop", c, Null)>>)
    BY <1>2, ReadErrorDoes
  <2>2. created' = created
    BY <2>1 DEF allVars, sessionVars, sessionFields
  <2> DEFINE q == <<Call("drop", c, Null)>>
  <2>3. ASSUME NEW r \in Range(q) PROVE IdsOK(r)'
    <3>1. IdsOK(r)
      BY NewIdsOK, RangeOfTuples, CreatedFacts DEF CnxOps, Sessions, Null
    <3> QED
      BY <2>2, <3>1 DEF IdsOK
  <2>4. Moves(ServerOf(c), q)
    BY <2>1
  <2> HIDE DEF q
  <2> QED
    BY <2>1, <2>3, <2>4, ServerOfType DEF StepCalls
<1>3. ASSUME NEW c \in Conns, Frame(c) PROVE [ManagersNext]_allVars /\ StepCalls
  <2>1. UNCHANGED allVars /\ \E new : Moves(ServerOf(c), new) /\ FrameCalls(c, new)
    BY <1>3, FrameDoes
  <2>2. created' = created
    BY <2>1 DEF allVars, sessionVars, sessionFields
  <2>3. \A r : IdsOK(r) => IdsOK(r)'
    BY <2>2 DEF IdsOK
  <2> QED
    BY <2>1, <2>3, ServerOfType DEF StepCalls, FrameCalls
<1>4. CASE WorkerTask
  <2>1. WorkerStep /\ UNCHANGED <<sessionVars, brokerVars>>
    BY <1>4, WorkerTaskDoes
  <2> QED
    BY <2>1 DEF ManagersNext, StepCalls, brokerVars
<1>5. CASE WorkerEnd
  <2>1. /\ WorkerStep /\ UNCHANGED sessionVars /\ task.owner \in Sessions /\ task.owner <= created
        /\ Moves("worker", <<ToFront(task.owner, "ACK")>>) \/ Moves("worker", <<>>)
    BY <1>5, WorkerEndDoes
  <2>2. created' = created
    BY <2>1 DEF sessionVars, sessionFields
  <2> DEFINE q == <<ToFront(task.owner, "ACK")>>
  <2>3. ASSUME NEW r \in Range(q) PROVE IdsOK(r)'
    <3>1. IdsOK(r)
      BY <2>1, NewIdsOK, RangeOfTuples
    <3> QED
      BY <2>2, <3>1 DEF IdsOK
  <2>4. Moves("worker", q) \/ Moves("worker", <<>>)
    BY <2>1
  <2> HIDE DEF q
  <2>5. StepCalls
    BY <2>3, <2>4, RangeOfTuples DEF StepCalls, Threads
  <2> QED
    BY <2>1, <2>5 DEF ManagersNext
<1>6. CASE UNCHANGED vars
  BY <1>6 DEF vars, brokerVars, StepCalls
<1> QED
  BY <1>1, <1>2, <1>3, <1>4, <1>5, <1>6, ThreadUsesManagers DEF BrokerNext

(* The variables of the network, whose types each step keeps.              *)
LEMMA NetworkTypeStep ==
  ASSUME RegistryTypeOK, SubscriptionTypeOK, BrokerTypeOK, CallsOK, [BrokerNext]_vars,
         created <= created', created \in Nat, created' \in Nat, CallsOK'
  PROVE  BrokerTypeOK'
<1>0. /\ m_cnxs \subseteq Conns /\ reading \subseteq Conns
      /\ socket \in [Conns -> {"new", "open", "closed"}] /\ told \in [Conns -> 0..created]
      /\ reqs \in 0..MaxReqs /\ crashed \in BOOLEAN /\ 0..created \subseteq 0..created'
      /\ MaxReqs \in Nat
  BY BrokerAssumption DEF BrokerTypeOK
<1>t. DOMAIN todo' = Threads
  BY DEF CallsOK
<1>1. SUFFICES /\ m_cnxs' \subseteq Conns /\ reading' \subseteq Conns
               /\ socket' \in [Conns -> {"new", "open", "closed"}]
               /\ told' \in [Conns -> 0..created']
               /\ reqs' \in 0..MaxReqs /\ crashed' \in BOOLEAN
  BY <1>t DEF BrokerTypeOK
<1>2. told \in [Conns -> 0..created']
  BY <1>0
<1> DEFINE G == /\ m_cnxs' \subseteq Conns /\ reading' \subseteq Conns
                /\ socket' \in [Conns -> {"new", "open", "closed"}]
                /\ told' \in [Conns -> 0..created']
                /\ reqs' \in 0..MaxReqs /\ crashed' \in BOOLEAN
<1>3. ASSUME UNCHANGED <<networkVars, reqs, crashed>> PROVE G
  BY <1>0, <1>2, <1>3 DEF networkVars
<1>4. ASSUME UNCHANGED <<networkVars, reqs>>, crashed' = TRUE PROVE G
  BY <1>0, <1>2, <1>4 DEF networkVars
<1>5. ASSUME NEW c \in Conns, Accept(c) PROVE G
  BY <1>0, <1>2, <1>5 DEF Accept
<1>6. ASSUME NEW c \in Conns, ReadError(c) PROVE G
  BY <1>0, <1>2, <1>6 DEF ReadError
<1>7. ASSUME NEW c \in Conns, Frame(c) PROVE G
  <2>1. /\ reqs < MaxReqs /\ reqs' = reqs + 1 /\ reading' = reading \ {c}
        /\ UNCHANGED <<m_cnxs, socket, crashed>> /\ ForgetsTold(c)
    BY <1>7, FrameDoes
  <2>2. told' \in [Conns -> 0..created']
    <3>1. Null \in 0..created'
      BY DEF Null
    <3>2. [told EXCEPT ![c] = Null] \in [Conns -> 0..created']
      BY <1>2, <3>1
    <3> QED
      BY <1>2, <2>1, <3>2 DEF ForgetsTold
  <2>3. reqs' \in 0..MaxReqs
    BY <1>0, <2>1
  <2> QED
    BY <1>0, <2>1, <2>2, <2>3
<1>8. ASSUME NEW t \in Threads, ThreadStep(t) PROVE G
  <2>1. CASE Reread(t)
    <3>1. /\ Now(t).cnx \in Conns /\ reading' \subseteq reading \cup {Now(t).cnx}
          /\ UNCHANGED <<m_cnxs, socket, told, reqs, crashed>>
      BY <2>1, RereadDoes
    <3> QED
      BY <1>0, <1>2, <3>1
  <2>2. CASE RegisterNew(t) \/ RegisterRefused(t)
    BY <1>3, <2>2 DEF RegisterNew, RegisterRefused
  <2>3. CASE RegisterAgain(t)
    <3>1. UNCHANGED <<networkVars, reqs>> /\ (crashed' = TRUE \/ UNCHANGED crashed)
      BY <2>3, RegisterAgainDoes
    <3> QED
      BY <1>3, <1>4, <3>1
  <2>4. CASE SendToFront(t)
    <3>1. UNCHANGED <<networkVars, reqs>> /\ (crashed' = TRUE \/ UNCHANGED crashed)
      BY <2>4, SendToFrontDoes
    <3> QED
      BY <1>3, <1>4, <3>1
  <2>5. CASE StartCopies(t) \/ SendCopy(t)
    BY <1>3, <2>5 DEF StartCopies, SendCopy
  <2>6. CASE AskSubscription(t) \/ AskUnsubscription(t)
    BY <1>3, <2>6 DEF AskSubscription, AskUnsubscription
  <2>7. CASE WriteDropped(t) \/ Unlock(t)
    BY <1>3, <2>7 DEF WriteDropped, Unlock
  <2>8. CASE WriteOk(t) \/ WriteFails(t)
    <3>1. /\ Now(t).cnx \in Conns /\ Now(t).ses \in Sessions /\ Now(t).ses <= created
          /\ UNCHANGED <<m_cnxs, reading, reqs, crashed>>
          /\ UNCHANGED told \/ told' = [told EXCEPT ![Now(t).cnx] = Now(t).ses]
          /\ UNCHANGED socket \/ socket' = [socket EXCEPT ![Now(t).cnx] = "closed"]
      BY <2>8, WriteDoes DEF WriteCloses
    <3>2. Now(t).ses \in 0..created'
      BY <1>0, <3>1, BoundsAssumption DEF Sessions, Sids, Null
    <3> QED
      BY <1>0, <1>2, <3>1, <3>2
  <2>9. CASE CloseThrows(t)
    BY <1>4, <2>9 DEF CloseThrows
  <2>10. CASE Drop(t)
    <3>1. m_cnxs' \subseteq m_cnxs /\ UNCHANGED <<socket, reading, told, reqs, crashed>>
      BY <2>10 DEF Drop
    <3> QED
      BY <1>0, <1>2, <3>1
  <2>11. CASE EndFetch(t) \/ EndUnlink(t) \/ EndCheck(t)
    BY <1>3, <2>11 DEF EndFetch, EndUnlink, EndCheck
  <2>12. CASE EndLeave(t) \/ EndUnregister(t)
    BY <1>3, <2>12 DEF EndLeave, EndUnregister
  <2> QED
    BY <1>8, <2>1, <2>2, <2>3, <2>4, <2>5, <2>6, <2>7, <2>8, <2>9, <2>10, <2>11, <2>12
       DEF ThreadStep
<1>9. CASE WorkerTask
  BY <1>3, <1>9 DEF WorkerTask, brokerVars
<1>10. CASE WorkerEnd
  BY <1>3, <1>10 DEF WorkerEnd
<1>11. CASE UNCHANGED vars
  BY <1>3, <1>11 DEF vars, brokerVars
<1> QED
  BY <1>5, <1>6, <1>7, <1>8, <1>9, <1>10, <1>11 DEF BrokerNext

LEMMA BrokerInvInit == BrokerInit => BrokerInv
<1> SUFFICES ASSUME BrokerInit PROVE BrokerInv
  OBVIOUS
<1>1. RegistryTypeOK /\ SubscriptionTypeOK
  BY ManagersTypeInit DEF BrokerInit
<1>2. BrokerTypeOK
  <2>1. Null \in 0..created /\ MaxReqs \in Nat
    BY <1>1, CreatedFacts, BrokerAssumption
  <2>2. told \in [Conns -> 0..created] /\ socket \in [Conns -> {"new", "open", "closed"}]
    BY <2>1 DEF BrokerInit
  <2>3. todo = [t \in Threads |-> <<>>] /\ reqs = 0 /\ crashed = FALSE
    BY DEF BrokerInit
  <2>4. DOMAIN todo = Threads
    BY <2>3
  <2>5. reqs \in 0..MaxReqs
    BY <2>1, <2>3
  <2>6. crashed \in BOOLEAN
    BY <2>3
  <2> QED
    BY <2>2, <2>4, <2>5, <2>6 DEF BrokerInit, BrokerTypeOK
<1>3. CallsOK
  <2>1. \A t \in Threads : todo[t] = <<>>
    BY DEF BrokerInit
  <2>2. todo \in [Threads -> Seq(CallSet)]
    BY DEF BrokerInit
  <2> QED
    BY <2>1, <2>2 DEF CallsOK, Ordered, Pend, Range
<1> QED
  BY <1>1, <1>2, <1>3 DEF BrokerInv

LEMMA BrokerInvStep == BrokerInv /\ [BrokerNext]_vars => BrokerInv'
<1> SUFFICES ASSUME BrokerInv, [BrokerNext]_vars PROVE BrokerInv'
  OBVIOUS
<1>0. RegistryTypeOK /\ SubscriptionTypeOK /\ BrokerTypeOK /\ CallsOK
  BY DEF BrokerInv
<1>1. [ManagersNext]_allVars /\ StepCalls
  BY <1>0, BrokerUsesManagers
<1>2. created \in Nat /\ created' \in Nat /\ created <= created'
  BY <1>0, <1>1, IdsGrow
<1>3. CallsOK'
  BY <1>0, <1>1, <1>2, TodoStays, CallsStay DEF StepCalls
<1>4. BrokerTypeOK'
  BY <1>0, <1>2, <1>3, NetworkTypeStep
<1>5. SubscriptionTypeOK'
  BY <1>0, <1>1, SubscriptionTypeStep
<1>6. [RegistryNext]_sessionVars
  BY <1>1 DEF ManagersNext, allVars
<1>7. RegistryTypeOK'
  BY <1>0, <1>6, TypeStep
<1> QED
  BY <1>3, <1>4, <1>5, <1>7 DEF BrokerInv

(* The ids a client is told and a call carries were handed out, and only   *)
(* connections that exist are registered or read.                          *)
THEOREM BrokerTypeCorrect == BrokerSpec => []BrokerTypeOK
<1>1. BrokerInv => BrokerTypeOK
  BY DEF BrokerInv
<1> QED
  BY <1>1, BrokerInvInit, BrokerInvStep, PTL DEF BrokerSpec

(* Every step of the broker's threads is a step of the managers'           *)
(* specification or leaves them alone.                                     *)
THEOREM UsesManagersCorrect == BrokerSpec => UsesManagers
<1>1. BrokerInit => ManagersInit
  BY DEF BrokerInit
<1>2. BrokerInv /\ [BrokerNext]_vars => [ManagersNext]_allVars
  BY BrokerUsesManagers DEF BrokerInv
<1> QED
  BY <1>1, <1>2, BrokerInvInit, BrokerInvStep, PTL DEF BrokerSpec, UsesManagers, ManagersSpec

-----------------------------------------------------------------------------
(* The life of a connection: SocketsOK is inductive.                       *)
LEMMA NowCases ==
  ASSUME CallsOK, NEW t \in Threads
  PROVE  /\ Now(t) = NoCall \/ (Now(t) \in Pend(t) /\ Now(t) \in CallSet)
         /\ Now(t).op \in AboutCnx => Now(t) \in Pend(t) /\ Now(t).cnx \in Conns
         /\ Pend(t) = {} => Now(t) = NoCall
<1>1. CASE todo[t] = <<>>
  BY <1>1 DEF Now, NoCall, AboutCnx, CnxOps
<1>2. CASE todo[t] # <<>>
  BY <1>2, NowIsPending, CallFields
<1> QED
  BY <1>1, <1>2

(* A step that neither opens nor closes a socket: no connection it         *)
(* mentions is new, and an end only goes on where there was one.           *)
SameSockets(t) ==
  /\ UNCHANGED <<m_cnxs, socket>>
  /\ \A c \in reading' : socket[c] # "new"
  /\ \A s \in Sessions : \A i \in DOMAIN cnxs'[s] : socket[cnxs'[s][i]] # "new"
  /\ \A u \in Threads \ {t} : Now(u)' = Now(u)
  /\ \A u \in Threads : \A r \in Pend(u)' :
       r \in Pend(u) \/ (r.op \in AboutCnx => socket[r.cnx] # "new")
  /\ \/ Now(t)' = Now(t)
     \/ Now(t)'.op \notin ClosedOps /\ Now(t).op # "drop"
     \/ /\ Now(t).op \in ClosedOps \ {"drop"} /\ Now(t)'.cnx = Now(t).cnx
        /\ Now(t)'.op \in EndingOps => Now(t).op \in EndingOps

LEMMA SocketsStay ==
  ASSUME BrokerInv, SocketsOK, NEW t \in Threads, SameSockets(t)
  PROVE  SocketsOK'
<1>0. CallsOK /\ AcceptedOnce /\ OpenIsRegistered /\ ClosedIsDropped /\ EndsAreClosed
      /\ EndsAreUnique /\ m_cnxs' = m_cnxs /\ socket' = socket
  BY DEF SocketsOK, BrokerInv, SameSockets
<1>1. AcceptedOnce'
  <2>1. \A c \in m_cnxs' \cup reading' : socket'[c] # "new"
    BY <1>0 DEF AcceptedOnce, SameSockets
  <2>2. \A u \in Threads : \A r \in Pend(u)' : r.op \in AboutCnx => socket'[r.cnx] # "new"
    BY <1>0 DEF AcceptedOnce, SameSockets
  <2>3. \A s \in Sessions : \A i \in DOMAIN cnxs'[s] : socket'[cnxs'[s][i]] # "new"
    BY <1>0 DEF SameSockets
  <2> QED
    BY <2>1, <2>2, <2>3 DEF AcceptedOnce
<1>2. OpenIsRegistered'
  BY <1>0 DEF OpenIsRegistered
<1>3. ClosedIsDropped'
  <2>1. SUFFICES ASSUME NEW c \in m_cnxs, socket[c] = "closed"
                 PROVE  \E u \in Threads : Now(u)'.op = "drop" /\ Now(u)'.cnx = c
    BY <1>0 DEF ClosedIsDropped
  <2>2. PICK u \in Threads : Now(u).op = "drop" /\ Now(u).cnx = c
    BY <1>0, <2>1 DEF ClosedIsDropped
  <2>3. Now(u)' = Now(u)
    BY <2>2 DEF SameSockets
  <2> QED
    BY <2>2, <2>3
<1>4. EndsAreClosed'
  BY <1>0 DEF EndsAreClosed, SameSockets
<1>5. EndsAreUnique'
  <2>1. \A u \in Threads : Now(u)'.op \in EndingOps =>
          Now(u).op \in EndingOps /\ Now(u)'.cnx = Now(u).cnx
    BY <1>0 DEF SameSockets, ClosedOps
  <2> QED
    BY <1>0, <2>1 DEF EndsAreUnique
<1> QED
  BY <1>1, <1>2, <1>3, <1>4, <1>5 DEF SocketsOK

(* A connection is accepted: nobody knew it.                               *)
LEMMA AcceptSockets ==
  ASSUME BrokerInv, SocketsOK, NEW c \in Conns, Accept(c)
  PROVE  SocketsOK'
<1>0. /\ CallsOK /\ AcceptedOnce /\ OpenIsRegistered /\ ClosedIsDropped /\ EndsAreClosed
      /\ EndsAreUnique /\ socket \in [Conns -> {"new", "open", "closed"}]
      /\ m_cnxs \subseteq Conns /\ reading \subseteq Conns /\ cnxs \in [Sessions -> Seq(Conns)]
  BY DEF SocketsOK, BrokerInv, BrokerTypeOK, RegistryTypeOK
<1>1. /\ socket[c] = "new" /\ socket' = [socket EXCEPT ![c] = "open"]
      /\ m_cnxs' = m_cnxs \cup {c} /\ reading' = reading \cup {c} /\ todo' = todo /\ cnxs' = cnxs
  BY DEF Accept, allVars, sessionVars
<1>2. /\ socket'[c] = "open" /\ \A d \in Conns \ {c} : socket'[d] = socket[d]
      /\ \A d \in Conns : socket[d] # "new" => d # c /\ socket'[d] = socket[d]
  BY <1>0, <1>1
<1>3. \A u \in Threads : Now(u)' = Now(u) /\ Pend(u)' = Pend(u)
  BY <1>1 DEF Now, Pend
<1>4. \A u \in Threads : \A r \in Pend(u) : r.op \in AboutCnx => r.cnx \in Conns
  BY <1>0, CallFields DEF CallsOK, Pend, Range
<1>5. \A u \in Threads : Now(u).op \in ClosedOps =>
        Now(u).cnx \in Conns /\ Now(u).cnx # c /\ socket[Now(u).cnx] # "new"
  BY <1>0, <1>1, NowCases DEF AcceptedOnce, ClosedOps, EndingOps, AboutCnx, CnxOps
<1>6. AcceptedOnce'
  <2>1. \A d \in m_cnxs' \cup reading' : socket'[d] # "new"
    BY <1>0, <1>1, <1>2 DEF AcceptedOnce
  <2>2. \A u \in Threads : \A r \in Pend(u)' : r.op \in AboutCnx => socket'[r.cnx] # "new"
    BY <1>0, <1>2, <1>3, <1>4 DEF AcceptedOnce
  <2>3. \A s \in Sessions : \A i \in DOMAIN cnxs'[s] : socket'[cnxs'[s][i]] # "new"
    <3>1. \A s \in Sessions : \A i \in DOMAIN cnxs[s] : cnxs[s][i] \in Conns
      BY <1>0
    <3> QED
      BY <1>0, <1>1, <1>2, <3>1 DEF AcceptedOnce
  <2> QED
    BY <2>1, <2>2, <2>3 DEF AcceptedOnce
<1>7. OpenIsRegistered'
  BY <1>0, <1>1, <1>2 DEF OpenIsRegistered
<1>8. ClosedIsDropped'
  <2>1. \A d \in m_cnxs' : socket'[d] = "closed" => d \in m_cnxs /\ socket[d] = "closed"
    BY <1>0, <1>1, <1>2
  <2> QED
    BY <1>0, <1>3, <2>1 DEF ClosedIsDropped
<1>9. EndsAreClosed'
  BY <1>0, <1>2, <1>3, <1>5 DEF EndsAreClosed
<1>10. EndsAreUnique'
  <2>1. \A u \in Threads : Now(u).op \in EndingOps => Now(u).cnx # c
    BY <1>5 DEF ClosedOps
  <2> QED
    BY <1>0, <1>1, <1>3, <2>1 DEF EndsAreUnique
<1> QED
  BY <1>6, <1>7, <1>8, <1>9, <1>10 DEF SocketsOK

(* A read or a write closes the socket: the drop comes next.               *)
LEMMA CloseSockets ==
  ASSUME BrokerInv, SocketsOK, NEW t \in Threads, NEW c \in Conns, socket[c] # "new",
         socket' = [socket EXCEPT ![c] = "closed"], reading' \subseteq reading,
         UNCHANGED <<m_cnxs, cnxs>>, Now(t).op \notin ClosedOps,
         \A u \in Threads \ {t} : Now(u)' = Now(u),
         Now(t)'.op = "drop", Now(t)'.cnx = c,
         \A u \in Threads : \A r \in Pend(u)' : r \in Pend(u) \/ r.cnx = c
  PROVE  SocketsOK'
<1>0. /\ CallsOK /\ AcceptedOnce /\ OpenIsRegistered /\ ClosedIsDropped /\ EndsAreClosed
      /\ EndsAreUnique /\ socket \in [Conns -> {"new", "open", "closed"}]
      /\ m_cnxs \subseteq Conns /\ reading \subseteq Conns /\ cnxs \in [Sessions -> Seq(Conns)]
  BY DEF SocketsOK, BrokerInv, BrokerTypeOK, RegistryTypeOK
<1>1. /\ socket'[c] = "closed" /\ \A d \in Conns \ {c} : socket'[d] = socket[d]
      /\ \A d \in Conns : socket[d] # "new" => socket'[d] # "new"
      /\ \A d \in Conns : socket[d] = "closed" => socket'[d] = "closed"
  BY <1>0
<1>2. \A u \in Threads : \A r \in Pend(u) : r.op \in AboutCnx => r.cnx \in Conns
  BY <1>0, CallFields DEF CallsOK, Pend, Range
<1>3. AcceptedOnce'
  <2>1. \A d \in m_cnxs' \cup reading' : socket'[d] # "new"
    BY <1>0, <1>1 DEF AcceptedOnce
  <2>2. \A u \in Threads : \A r \in Pend(u)' : r.op \in AboutCnx => socket'[r.cnx] # "new"
    BY <1>0, <1>1, <1>2 DEF AcceptedOnce
  <2>3. \A s \in Sessions : \A i \in DOMAIN cnxs'[s] : socket'[cnxs'[s][i]] # "new"
    <3>1. \A s \in Sessions : \A i \in DOMAIN cnxs[s] : cnxs[s][i] \in Conns
      BY <1>0
    <3> QED
      BY <1>0, <1>1, <3>1 DEF AcceptedOnce
  <2> QED
    BY <2>1, <2>2, <2>3 DEF AcceptedOnce
<1>4. OpenIsRegistered'
  BY <1>0, <1>1 DEF OpenIsRegistered
<1>5. ClosedIsDropped'
  <2>1. SUFFICES ASSUME NEW d \in m_cnxs, socket'[d] = "closed"
                 PROVE  \E u \in Threads : Now(u)'.op = "drop" /\ Now(u)'.cnx = d
    BY DEF ClosedIsDropped
  <2>2. CASE d = c
    BY <2>2
  <2>3. CASE d # c
    <3>1. socket[d] = "closed"
      BY <1>0, <1>1, <2>1, <2>3
    <3>2. PICK u \in Threads : Now(u).op = "drop" /\ Now(u).cnx = d
      BY <1>0, <3>1 DEF ClosedIsDropped
    <3>3. u # t
      BY <3>2 DEF ClosedOps
    <3> QED
      BY <3>2, <3>3
  <2> QED
    BY <2>2, <2>3
<1>6. EndsAreClosed'
  <2>1. ASSUME NEW u \in Threads, u # t, Now(u).op \in ClosedOps
        PROVE  Now(u).cnx \in Conns /\ socket[Now(u).cnx] = "closed"
    BY <1>0, <2>1, NowCases DEF EndsAreClosed, ClosedOps, EndingOps, AboutCnx, CnxOps
  <2> QED
    BY <1>1, <2>1 DEF EndsAreClosed
<1>7. EndsAreUnique'
  <2>1. Now(t)'.op \notin EndingOps
    BY DEF EndingOps
  <2> QED
    BY <1>0, <2>1 DEF EndsAreUnique
<1> QED
  BY <1>3, <1>4, <1>5, <1>6, <1>7 DEF SocketsOK

(* Whoever erases the connection from m_cnxs is the one that ends it.      *)
LEMMA DropSockets ==
  ASSUME BrokerInv, SocketsOK, NEW t \in Threads, Drop(t)
  PROVE  SocketsOK'
<1> DEFINE c == Now(t).cnx
<1>0. /\ CallsOK /\ AcceptedOnce /\ OpenIsRegistered /\ ClosedIsDropped /\ EndsAreClosed
      /\ EndsAreUnique
  BY DEF SocketsOK, BrokerInv
<1>1. /\ Now(t) \in Pend(t) /\ Now(t).op = "drop" /\ c \in Conns /\ m_cnxs' = m_cnxs \ {c}
      /\ socket' = socket /\ reading' = reading /\ cnxs' = cnxs
      /\ IF c \in m_cnxs THEN Moves(t, <<Call("end", c, Null)>>) ELSE Moves(t, <<>>)
  BY <1>0, DropDoes DEF allVars, sessionVars
<1>2. socket[c] = "closed"
  BY <1>0, <1>1 DEF EndsAreClosed, ClosedOps
<1>3. /\ \A u \in Threads \ {t} : Now(u)' = Now(u)
      /\ \A u \in Threads : \A r \in Pend(u)' : r \in Pend(u) \/ r.cnx = c
      /\ \/ c \in m_cnxs /\ Now(t)'.op = "end" /\ Now(t)'.cnx = c
         \/ Now(t)'.op \in Later \cup {"none"}
  <2>1. CASE c \in m_cnxs
    <3> DEFINE q == <<Call("end", c, Null)>>
    <3>1. Moves(t, q) /\ q # <<>> /\ Head(q) = Call("end", c, Null)
      BY <1>1, <2>1
    <3>2. \A r \in Range(q) : r.cnx = c
      BY RangeOfTuples DEF Call
    <3>3. Call("end", c, Null).op = "end" /\ Call("end", c, Null).cnx = c
      BY DEF Call
    <3> HIDE DEF q
    <3> QED
      BY <2>1, <3>1, <3>2, <3>3 DEF Moves
  <2>2. CASE c \notin m_cnxs
    BY <1>1, <2>2, RangeOfTuples DEF Moves
  <2> QED
    BY <2>1, <2>2
<1>4. AcceptedOnce'
  <2>1. \A u \in Threads : \A r \in Pend(u)' : r.op \in AboutCnx => socket'[r.cnx] # "new"
    BY <1>0, <1>1, <1>2, <1>3 DEF AcceptedOnce
  <2> QED
    BY <1>0, <1>1, <2>1 DEF AcceptedOnce
<1>5. OpenIsRegistered'
  BY <1>0, <1>1, <1>2 DEF OpenIsRegistered
<1>6. ClosedIsDropped'
  <2>1. SUFFICES ASSUME NEW d \in m_cnxs, d # c, socket[d] = "closed"
                 PROVE  \E u \in Threads : Now(u)'.op = "drop" /\ Now(u)'.cnx = d
    BY <1>1 DEF ClosedIsDropped
  <2>2. PICK u \in Threads : Now(u).op = "drop" /\ Now(u).cnx = d
    BY <1>0, <2>1 DEF ClosedIsDropped
  <2> QED
    BY <1>3, <2>1, <2>2
<1>7. EndsAreClosed'
  <2>1. Now(t)'.op \in ClosedOps => Now(t)'.cnx = c
    BY <1>3 DEF ClosedOps, EndingOps, Later
  <2> QED
    BY <1>0, <1>1, <1>2, <1>3, <2>1 DEF EndsAreClosed
<1>8. EndsAreUnique'
  <2>1. Now(t)'.op \in EndingOps => c \in m_cnxs /\ Now(t)'.cnx = c
    BY <1>3 DEF EndingOps, Later
  <2>2. c \in m_cnxs => \A u \in Threads : Now(u).op \in EndingOps => Now(u).cnx # c
    BY <1>0 DEF EndsAreUnique
  <2>3. c \notin m_cnxs'
    BY <1>1
  <2> HIDE DEF c
  <2> QED
    BY <1>0, <1>1, <1>3, <2>1, <2>2, <2>3 DEF EndsAreUnique
<1> QED
  BY <1>4, <1>5, <1>6, <1>7, <1>8 DEF SocketsOK

(* What the operations of the registry do to the lists of connections.     *)
LEMMA UnlinkDoes ==
  ASSUME RegistryTypeOK, NEW s \in Sessions, NEW c \in Conns, UnlinkConnection(s, c)
  PROVE  /\ \A x \in Sessions \ {s} : cnxs'[x] = cnxs[x]
         /\ \A i \in DOMAIN cnxs'[s] : \E j \in DOMAIN cnxs[s] : cnxs'[s][i] = cnxs[s][j]
         /\ (\A i, j \in DOMAIN cnxs[s] : cnxs[s][i] = cnxs[s][j] => i = j) =>
              /\ \A i \in DOMAIN cnxs'[s] : cnxs'[s][i] # c
              /\ \A i, j \in DOMAIN cnxs'[s] : cnxs'[s][i] = cnxs'[s][j] => i = j
<1>0. cnxs \in [Sessions -> Seq(Conns)] /\ cnxs[s] \in Seq(Conns)
  BY DEF RegistryTypeOK
<1>1. CASE c \notin ToSet(cnxs[s]) /\ UNCHANGED cnxs
  <2>1. \A i \in DOMAIN cnxs[s] : cnxs[s][i] # c
    BY <1>1 DEF ToSet
  <2> QED
    BY <1>1, <2>1
<1>2. ASSUME NEW k \in DOMAIN cnxs[s], FirstAt(s, c, k),
             cnxs' = [cnxs EXCEPT ![s] = RemoveAt(@, k)]
      PROVE  /\ \A x \in Sessions \ {s} : cnxs'[x] = cnxs[x]
             /\ \A i \in DOMAIN cnxs'[s] : \E j \in DOMAIN cnxs[s] : cnxs'[s][i] = cnxs[s][j]
             /\ (\A i, j \in DOMAIN cnxs[s] : cnxs[s][i] = cnxs[s][j] => i = j) =>
                  /\ \A i \in DOMAIN cnxs'[s] : cnxs'[s][i] # c
                  /\ \A i, j \in DOMAIN cnxs'[s] : cnxs'[s][i] = cnxs'[s][j] => i = j
  <2> DEFINE q == cnxs[s]
             p == RemoveAt(q, k)
  <2>1. cnxs'[s] = p /\ \A x \in Sessions \ {s} : cnxs'[x] = cnxs[x]
    BY <1>0, <1>2
  <2>2. k \in Nat /\ q[k] = c
    BY <1>0, <1>2 DEF FirstAt
  <2>3. \A j \in DOMAIN p : \/ j < k /\ j \in DOMAIN q /\ p[j] = q[j]
                            \/ j >= k /\ j + 1 \in DOMAIN q /\ p[j] = q[j + 1]
    BY <1>0, <1>2, RemoveAtEntries
  <2>4. p \in Seq(Conns) /\ \A j \in DOMAIN p : j \in Nat
    BY <1>0, <1>2, RemoveAtType
  <2> HIDE DEF q, p
  <2>5. \A i \in DOMAIN p : \E j \in DOMAIN q : p[i] = q[j]
    BY <2>3
  <2>6. ASSUME \A i, j \in DOMAIN q : q[i] = q[j] => i = j
        PROVE  /\ \A i \in DOMAIN p : p[i] # c
               /\ \A i, j \in DOMAIN p : p[i] = p[j] => i = j
    <3>1. k \in DOMAIN q
      BY <1>2 DEF q
    <3>2. ASSUME NEW i \in DOMAIN p PROVE p[i] # c
      BY <2>2, <2>3, <2>4, <2>6, <3>1
    <3>3. ASSUME NEW i \in DOMAIN p, NEW j \in DOMAIN p, p[i] = p[j] PROVE i = j
      BY <2>2, <2>3, <2>4, <2>6, <3>3
    <3> QED
      BY <3>2, <3>3
  <2> QED
    BY <2>1, <2>5, <2>6 DEF q
<1> QED
  BY <1>1, <1>2 DEF UnlinkConnection

LEMMA OpenSessionLists ==
  ASSUME RegistryTypeOK, NEW c \in Conns, NEW l, NEW p, OpenSession(c, l, p), NewId \in Sessions
  PROVE  cnxs'[NewId] = <<c>> /\ \A x \in Sessions \ {NewId} : cnxs'[x] = cnxs[x]
<1>1. cnxs \in [Sessions -> Seq(Conns)] /\ cnxs' = [cnxs EXCEPT ![NewId] = <<c>>]
  BY DEF RegistryTypeOK, OpenSession
<1> QED
  BY <1>1

LEMMA TakeOverLists ==
  ASSUME cnxs \in [Sessions -> Seq(Conns)], NEW s \in Sessions, NEW c \in Conns,
         cnxs' = [cnxs EXCEPT ![s] = Append(@, c)]
  PROVE  /\ \A x \in Sessions \ {s} : cnxs'[x] = cnxs[x]
         /\ cnxs'[s] \in Seq(Conns) /\ Len(cnxs'[s]) = Len(cnxs[s]) + 1
         /\ cnxs'[s][Len(cnxs[s]) + 1] = c
         /\ \A i \in DOMAIN cnxs[s] : i \in DOMAIN cnxs'[s] /\ cnxs'[s][i] = cnxs[s][i]
         /\ \A i \in DOMAIN cnxs'[s] : i = Len(cnxs[s]) + 1 \/ i \in DOMAIN cnxs[s]
<1>2. cnxs[s] \in Seq(Conns) /\ cnxs'[s] = Append(cnxs[s], c)
      /\ \A x \in Sessions \ {s} : cnxs'[x] = cnxs[x]
  OBVIOUS
<1>3. \A y \in Seq(Conns) :
        /\ Append(y, c) \in Seq(Conns) /\ Len(Append(y, c)) = Len(y) + 1
        /\ Append(y, c)[Len(y) + 1] = c
        /\ \A i \in DOMAIN y : i \in DOMAIN Append(y, c) /\ Append(y, c)[i] = y[i]
        /\ \A i \in DOMAIN Append(y, c) : i = Len(y) + 1 \/ i \in DOMAIN y
  OBVIOUS
<1> QED
  BY <1>2, <1>3

(* A step that leaves m_cnxs and the sockets alone.                        *)
LEMMA MovesSame ==
  ASSUME BrokerInv, SocketsOK, NEW t \in Threads, NEW new, Moves(t, new),
         UNCHANGED <<m_cnxs, socket>>, Now(t).op # "drop",
         \A c \in reading' : socket[c] # "new",
         \A s \in Sessions : \A i \in DOMAIN cnxs'[s] : socket[cnxs'[s][i]] # "new",
         \A r \in Range(new) : r.op \in AboutCnx => socket[r.cnx] # "new",
         new # <<>> =>
           \/ Head(new).op \notin ClosedOps
           \/ /\ Now(t).op \in ClosedOps /\ Head(new).cnx = Now(t).cnx
              /\ Head(new).op \in EndingOps => Now(t).op \in EndingOps
  PROVE  SocketsOK'
<1>1. \A u \in Threads : \A r \in Pend(u)' :
        r \in Pend(u) \/ (r.op \in AboutCnx => socket[r.cnx] # "new")
  BY DEF Moves
<1>2. \A u \in Threads \ {t} : Now(u)' = Now(u)
  BY DEF Moves
<1>3. Now(t)'.op \notin ClosedOps
      \/ /\ Now(t).op \in ClosedOps \ {"drop"} /\ Now(t)'.cnx = Now(t).cnx
         /\ Now(t)'.op \in EndingOps => Now(t).op \in EndingOps
  <2>1. CASE new = <<>>
    BY <2>1 DEF Moves, Later, ClosedOps, EndingOps
  <2>2. CASE new # <<>>
    BY <2>2 DEF Moves
  <2> QED
    BY <2>1, <2>2
<1>4. SameSockets(t)
  BY <1>1, <1>2, <1>3 DEF SameSockets
<1> QED
  BY <1>4, SocketsStay

KnownCall(r) == r.op \in AboutCnx => socket[r.cnx] # "new"
GoesOn(t, a) ==
  \/ a.op \notin ClosedOps
  \/ /\ Now(t).op \in ClosedOps /\ a.cnx = Now(t).cnx
     /\ a.op \in EndingOps => Now(t).op \in EndingOps

LEMMA ShortMoves ==
  ASSUME BrokerInv, SocketsOK, NEW t \in Threads, UNCHANGED <<m_cnxs, socket>>,
         Now(t).op # "drop", \A c \in reading' : socket[c] # "new",
         \A s \in Sessions : \A i \in DOMAIN cnxs'[s] : socket[cnxs'[s][i]] # "new",
         \/ Moves(t, <<>>)
         \/ \E a : Moves(t, <<a>>) /\ KnownCall(a) /\ GoesOn(t, a)
         \/ \E a, b : Moves(t, <<a, b>>) /\ KnownCall(a) /\ KnownCall(b) /\ GoesOn(t, a)
  PROVE  SocketsOK'
<1>1. CASE Moves(t, <<>>)
  <2> DEFINE q == <<>>
  <2>1. q = <<>> /\ Moves(t, q)
    BY <1>1
  <2>2. \A r \in Range(q) : r.op \in AboutCnx => socket[r.cnx] # "new"
    BY RangeOfTuples
  <2> HIDE DEF q
  <2> QED
    BY <2>1, <2>2, MovesSame
<1>2. ASSUME NEW a, Moves(t, <<a>>), KnownCall(a), GoesOn(t, a) PROVE SocketsOK'
  <2> DEFINE q == <<a>>
  <2>1. Head(q) = a /\ Moves(t, q)
    BY <1>2
  <2>2. \A r \in Range(q) : r.op \in AboutCnx => socket[r.cnx] # "new"
    BY <1>2, RangeOfTuples DEF KnownCall
  <2> HIDE DEF q
  <2> QED
    BY <1>2, <2>1, <2>2, MovesSame DEF GoesOn
<1>3. ASSUME NEW a, NEW b, Moves(t, <<a, b>>), KnownCall(a), KnownCall(b), GoesOn(t, a)
      PROVE  SocketsOK'
  <2> DEFINE q == <<a, b>>
  <2>1. Head(q) = a /\ Moves(t, q)
    BY <1>3
  <2>2. \A r \in Range(q) : r.op \in AboutCnx => socket[r.cnx] # "new"
    BY <1>3, RangeOfTuples DEF KnownCall
  <2> HIDE DEF q
  <2> QED
    BY <1>3, <2>1, <2>2, MovesSame DEF GoesOn
<1> QED
  BY <1>1, <1>2, <1>3

LEMMA StillSockets ==
  ASSUME BrokerInv, SocketsOK, UNCHANGED <<m_cnxs, socket, reading, todo>>,
         \A s \in Sessions : \A i \in DOMAIN cnxs'[s] : socket[cnxs'[s][i]] # "new"
  PROVE  SocketsOK'
<1>1. \A u \in Threads : Pend(u)' = Pend(u) /\ Now(u)' = Now(u)
  BY DEF Pend, Now
<1>2. SameSockets("worker")
  BY <1>1 DEF SameSockets, SocketsOK, AcceptedOnce, Threads
<1> QED
  BY <1>2, SocketsStay DEF Threads

LEMMA KnownFacts ==
  ASSUME BrokerInv, SocketsOK
  PROVE  /\ RegistryTypeOK /\ SubscriptionTypeOK /\ CallsOK
         /\ \A c \in reading \cup m_cnxs : socket[c] # "new"
         /\ \A s \in Sessions : \A i \in DOMAIN cnxs[s] : socket[cnxs[s][i]] # "new"
         /\ \A t \in Threads : Now(t) \in Pend(t) /\ Now(t).op \in AboutCnx =>
              socket[Now(t).cnx] # "new"
         /\ \A s \in Sessions : cnxs[s] # <<>> => socket[Head(cnxs[s])] # "new"
         /\ \A s, x : KnownCall(Copies(s, x)) /\ KnownCall(ToFront(s, x))
<1>1. \A s \in Sessions : \A i \in DOMAIN cnxs[s] : socket[cnxs[s][i]] # "new"
  BY DEF SocketsOK, AcceptedOnce
<1>2. RegistryTypeOK /\ SubscriptionTypeOK /\ CallsOK
  BY DEF BrokerInv
<1>3. \A s \in Sessions : cnxs[s] # <<>> => socket[Head(cnxs[s])] # "new"
  BY <1>1, <1>2, FrontType
<1>4. \A s, x : KnownCall(Copies(s, x)) /\ KnownCall(ToFront(s, x))
  BY DEF KnownCall, Copies, ToFront, AboutCnx, CnxOps
<1> QED
  BY <1>1, <1>2, <1>3, <1>4 DEF SocketsOK, AcceptedOnce

LEMMA ThreadSockets ==
  ASSUME BrokerInv, SocketsOK, NEW t \in Threads, ThreadStep(t)
  PROVE  SocketsOK'
<1> DEFINE r == Now(t)
<1>0. /\ RegistryTypeOK /\ SubscriptionTypeOK /\ CallsOK
      /\ \A c \in reading \cup m_cnxs : socket[c] # "new"
      /\ \A s \in Sessions : \A i \in DOMAIN cnxs[s] : socket[cnxs[s][i]] # "new"
      /\ r \in Pend(t) /\ r.op \in AboutCnx => socket[r.cnx] # "new"
  BY KnownFacts
<1>g. ASSUME NEW x, x.op = "write", socket[x.cnx] # "new"
      PROVE  KnownCall(x) /\ GoesOn(t, x)
  BY <1>g DEF KnownCall, GoesOn, ClosedOps, EndingOps
<1>h. \A s, x : GoesOn(t, Copies(s, x)) /\ GoesOn(t, ToFront(s, x))
  BY DEF GoesOn, Copies, ToFront, ClosedOps, EndingOps
<1>i. ASSUME NEW x, x.op \in EndingOps \cup {"unregister"}, x.cnx = r.cnx,
             r \in Pend(t), r.op \in EndingOps
      PROVE  KnownCall(x) /\ GoesOn(t, x)
  <2>1. socket[r.cnx] # "new"
    BY <1>0, <1>i DEF AboutCnx, CnxOps, EndingOps
  <2> QED
    BY <1>i, <2>1 DEF KnownCall, GoesOn, ClosedOps
<1>a. ASSUME UNCHANGED <<m_cnxs, socket, reading, cnxs>>, r.op # "drop",
             \/ Moves(t, <<>>)
             \/ \E a : Moves(t, <<a>>) /\ KnownCall(a) /\ GoesOn(t, a)
             \/ \E a, b : Moves(t, <<a, b>>) /\ KnownCall(a) /\ KnownCall(b) /\ GoesOn(t, a)
      PROVE  SocketsOK'
  BY <1>0, <1>a, ShortMoves
<1>b. UNCHANGED allVars => UNCHANGED cnxs
  BY DEF allVars, sessionVars
<1>c. UNCHANGED networkVars => UNCHANGED <<m_cnxs, socket, reading>>
  BY DEF networkVars
<1>1. CASE Reread(t)
  <2>1. /\ r \in Pend(t) /\ r.op = "read" /\ Moves(t, <<>>) /\ UNCHANGED <<allVars, m_cnxs, socket>>
        /\ reading' = reading \/ reading' = reading \cup {r.cnx}
    BY <1>0, <1>1, RereadDoes
  <2>2. socket[r.cnx] # "new"
    BY <1>0, <2>1 DEF AboutCnx, CnxOps
  <2> QED
    BY <1>0, <1>b, <2>1, <2>2, ShortMoves
<1>2. CASE RegisterNew(t)
  <2> DEFINE w == Write(r.cnx, "CONNECTED", NewId, FALSE)
  <2>1. /\ r \in Pend(t) /\ r.op = "register" /\ r.cnx \in Conns /\ NewId \in Sessions
        /\ OpenSession(r.cnx, r.login, r.profile) /\ Moves(t, <<w>>) /\ UNCHANGED networkVars
    BY <1>0, <1>2, RegisterNewDoes
  <2>2. socket[r.cnx] # "new"
    BY <1>0, <2>1 DEF AboutCnx
  <2>3. cnxs'[NewId] = <<r.cnx>> /\ \A x \in Sessions \ {NewId} : cnxs'[x] = cnxs[x]
    BY <1>0, <2>1, OpenSessionLists
  <2>4. \A s \in Sessions : \A i \in DOMAIN cnxs'[s] : socket[cnxs'[s][i]] # "new"
    BY <1>0, <2>2, <2>3
  <2>5. KnownCall(w) /\ GoesOn(t, w)
    <3>1. w.op = "write" /\ w.cnx = r.cnx
      BY DEF Write
    <3> HIDE DEF w
    <3> QED
      BY <1>g, <2>2, <3>1
  <2> HIDE DEF w
  <2> QED
    BY <1>0, <1>c, <2>1, <2>4, <2>5, ShortMoves
<1>3. CASE RegisterAgain(t)
  <2> DEFINE s == m_login_session[r.login]
             w == Write(r.cnx, "CONNECTED", s, FALSE)
             e == Write(Head(cnxs[s]), "ERROR", Null, TRUE)
  <2>1. /\ r \in Pend(t) /\ r.op = "register" /\ r.cnx \in Conns /\ r.login \in Logins
        /\ s \in Sessions /\ TakeOverSession(r.cnx, r.login, r.profile) /\ UNCHANGED networkVars
        /\ \/ UNCHANGED todo \/ Moves(t, <<w>>)
           \/ cnxs[s] # <<>> /\ Moves(t, <<e, w>>)
    BY <1>0, <1>3, RegisterAgainDoes
  <2>2. socket[r.cnx] # "new"
    BY <1>0, <2>1 DEF AboutCnx
  <2>3. \A x \in Sessions : \A i \in DOMAIN cnxs'[x] : socket[cnxs'[x][i]] # "new"
    <3>0. /\ cnxs \in [Sessions -> Seq(Conns)] /\ r.cnx \in Conns /\ s \in Sessions
          /\ cnxs' = [cnxs EXCEPT ![s] = Append(@, r.cnx)]
      BY <1>0, <2>1 DEF TakeOverSession, RegistryTypeOK
    <3> HIDE DEF s, r
    <3>1. /\ \A x \in Sessions \ {s} : cnxs'[x] = cnxs[x]
          /\ cnxs'[s] \in Seq(Conns) /\ Len(cnxs'[s]) = Len(cnxs[s]) + 1
          /\ cnxs'[s][Len(cnxs[s]) + 1] = r.cnx
          /\ \A i \in DOMAIN cnxs[s] : i \in DOMAIN cnxs'[s] /\ cnxs'[s][i] = cnxs[s][i]
          /\ \A i \in DOMAIN cnxs'[s] : i = Len(cnxs[s]) + 1 \/ i \in DOMAIN cnxs[s]
      BY <3>0, TakeOverLists
    <3> QED
      BY <1>0, <2>1, <2>2, <3>1
  <2>4. KnownCall(w) /\ GoesOn(t, w)
    <3>1. w.op = "write" /\ w.cnx = r.cnx
      BY DEF Write
    <3> HIDE DEF w
    <3> QED
      BY <1>g, <2>2, <3>1
  <2>5. cnxs[s] # <<>> => KnownCall(e) /\ GoesOn(t, e)
    <3>1. e.op = "write" /\ e.cnx = Head(cnxs[s])
      BY DEF Write
    <3>2. cnxs[s] # <<>> => socket[Head(cnxs[s])] # "new"
      BY <2>1, KnownFacts
    <3> HIDE DEF e
    <3> QED
      BY <1>g, <3>1, <3>2
  <2>6. r.op # "drop"
    BY <2>1
  <2> HIDE DEF w, e, r, s
  <2>7. CASE UNCHANGED todo
    BY <1>c, <2>1, <2>3, <2>7, StillSockets
  <2>8. /\ UNCHANGED <<m_cnxs, socket>> /\ Now(t).op # "drop"
        /\ \A c \in reading' : socket[c] # "new"
    BY <1>0, <1>c, <2>1, <2>6 DEF r
  <2>9. CASE Moves(t, <<w>>)
    BY <2>3, <2>4, <2>8, <2>9, ShortMoves
  <2>10. CASE cnxs[s] # <<>> /\ Moves(t, <<e, w>>)
    BY <2>3, <2>4, <2>5, <2>8, <2>10, ShortMoves
  <2> QED
    BY <2>1, <2>7, <2>9, <2>10
<1>4. CASE RegisterRefused(t)
  <2> DEFINE e == Write(r.cnx, "ERROR", Null, TRUE)
  <2>1. /\ r \in Pend(t) /\ r.op = "register" /\ r.cnx \in Conns /\ Moves(t, <<e>>)
        /\ UNCHANGED <<sessionVars, networkVars>>
    BY <1>0, <1>4, RegisterRefusedDoes
  <2>2. KnownCall(e) /\ GoesOn(t, e)
    <3>1. e.op = "write" /\ e.cnx = r.cnx
      BY DEF Write
    <3>2. socket[r.cnx] # "new"
      BY <1>0, <2>1 DEF AboutCnx
    <3> HIDE DEF e
    <3> QED
      BY <1>g, <3>1, <3>2
  <2> HIDE DEF e
  <2> QED
    BY <1>a, <1>c, <2>1, <2>2 DEF sessionVars
<1>5. CASE SendToFront(t)
  <2> DEFINE e == Write(Head(cnxs[r.ses]), r.kind, r.ses, FALSE)
  <2>1. /\ r.op = "front" /\ r.ses \in Sessions /\ UNCHANGED <<allVars, networkVars>>
        /\ \/ UNCHANGED todo \/ Moves(t, <<>>)
           \/ cnxs[r.ses] # <<>> /\ Moves(t, <<e>>)
    BY <1>0, <1>5, SendToFrontDoes
  <2>2. cnxs[r.ses] # <<>> => KnownCall(e) /\ GoesOn(t, e)
    <3>1. e.op = "write" /\ e.cnx = Head(cnxs[r.ses])
      BY DEF Write
    <3>2. cnxs[r.ses] # <<>> => socket[Head(cnxs[r.ses])] # "new"
      BY <2>1, KnownFacts
    <3> HIDE DEF e
    <3> QED
      BY <1>g, <3>1, <3>2
  <2> HIDE DEF e
  <2>3. CASE UNCHANGED todo
    BY <1>0, <1>b, <1>c, <2>1, <2>3, StillSockets
  <2> QED
    BY <1>a, <1>b, <1>c, <2>1, <2>2, <2>3
<1>6. CASE StartCopies(t)
  <2> DEFINE e == Copies(r.ses, subscribers[r.ses])
  <2>1. r.op = "copy" /\ UNCHANGED <<allVars, networkVars>> /\ Moves(t, <<e>>)
    BY <1>0, <1>6, StartCopiesDoes
  <2>2. KnownCall(e) /\ GoesOn(t, e)
    BY <1>h DEF KnownCall, Copies, AboutCnx, CnxOps
  <2> HIDE DEF e
  <2> QED
    BY <1>a, <1>b, <1>c, <2>1, <2>2
<1>7. CASE SendCopy(t)
  <2>1. r.op = "copies" /\ UNCHANGED <<allVars, networkVars>>
    BY <1>0, <1>7, SendCopyDoes
  <2>2. \/ Moves(t, <<>>)
        \/ \E left \in SUBSET r.left :
             \/ Moves(t, <<Copies(r.ses, left)>>)
             \/ \E s \in 0..created : Moves(t, <<ToFront(s, "MESSAGE"), Copies(r.ses, left)>>)
    BY <1>0, <1>7, SendCopyDoes
  <2>3. ASSUME NEW left \in SUBSET r.left, Moves(t, <<Copies(r.ses, left)>>)
        PROVE  SocketsOK'
    <3> DEFINE e == Copies(r.ses, left)
    <3>1. KnownCall(e) /\ GoesOn(t, e) /\ Moves(t, <<e>>)
      BY <1>h, <2>3, KnownFacts
    <3> HIDE DEF e
    <3> QED
      BY <1>a, <1>b, <1>c, <2>1, <3>1
  <2>4. ASSUME NEW left \in SUBSET r.left, NEW s \in 0..created,
               Moves(t, <<ToFront(s, "MESSAGE"), Copies(r.ses, left)>>)
        PROVE  SocketsOK'
    <3> DEFINE e == Copies(r.ses, left)
               w == ToFront(s, "MESSAGE")
    <3>1. KnownCall(w) /\ KnownCall(e) /\ Moves(t, <<w, e>>)
      BY <2>4, KnownFacts
    <3>2. GoesOn(t, w)
      BY <1>h, <3>1
    <3> HIDE DEF e, w
    <3> QED
      BY <1>a, <1>b, <1>c, <2>1, <3>1, <3>2
  <2> QED
    BY <1>a, <1>b, <1>c, <2>1, <2>2, <2>3, <2>4
<1>8. CASE AskSubscription(t) \/ AskUnsubscription(t)
  <2>1. r.op # "drop" /\ Moves(t, <<>>) /\ UNCHANGED <<sessionVars, networkVars>>
    BY <1>0, <1>8, AskDoes
  <2> QED
    BY <1>a, <1>c, <2>1 DEF sessionVars
<1>9. CASE WriteDropped(t)
  <2>1. r.op # "drop" /\ Moves(t, <<>>) /\ UNCHANGED <<allVars, networkVars>>
    BY <1>0, <1>9, WriteDroppedDoes
  <2> QED
    BY <1>a, <1>b, <1>c, <2>1
<1>10. CASE Unlock(t)
  <2>1. r.op # "drop" /\ Moves(t, <<>>) /\ UNCHANGED <<allVars, networkVars>>
    BY <1>0, <1>10, UnlockDoes
  <2> QED
    BY <1>a, <1>b, <1>c, <2>1
<1>11. CASE CloseThrows(t)
  <2>1. UNCHANGED <<allVars, networkVars, todo>>
    BY <1>0, <1>11, CloseThrowsDoes
  <2> QED
    BY <1>0, <1>b, <1>c, <2>1, StillSockets
<1>12. CASE WriteOk(t) \/ WriteFails(t)
  <2>1. /\ r \in Pend(t) /\ r.op = "write" /\ r.cnx \in Conns
        /\ UNCHANGED <<allVars, m_cnxs, reading>>
        /\ WriteCloses(t) \/ (UNCHANGED socket /\ Moves(t, <<>>))
    BY <1>0, <1>12, WriteDoes
  <2>2. CASE WriteCloses(t)
    <3> DEFINE q == Close(r.cnx)
    <3>1. socket[r.cnx] = "open" /\ socket' = [socket EXCEPT ![r.cnx] = "closed"] /\ Moves(t, q)
      BY <2>2 DEF WriteCloses
    <3>2. q # <<>> /\ Head(q).op = "drop" /\ Head(q).cnx = r.cnx /\ \A x \in Range(q) : x.cnx = r.cnx
      BY RangeOfTuples DEF Close, Call
    <3> HIDE DEF q
    <3>3. /\ \A u \in Threads \ {t} : Now(u)' = Now(u)
          /\ Now(t)'.op = "drop" /\ Now(t)'.cnx = r.cnx
          /\ \A u \in Threads : \A x \in Pend(u)' : x \in Pend(u) \/ x.cnx = r.cnx
      BY <3>1, <3>2 DEF Moves
    <3>4. r.op \notin ClosedOps
      BY <2>1 DEF ClosedOps, EndingOps
    <3> HIDE DEF r
    <3>5. UNCHANGED <<m_cnxs, cnxs>> /\ reading' \subseteq reading
      BY <1>b, <2>1
    <3> QED
      BY <2>1, <3>1, <3>3, <3>4, <3>5, CloseSockets DEF r
  <2>3. CASE UNCHANGED socket /\ Moves(t, <<>>)
    BY <1>a, <1>b, <2>1, <2>3
  <2> QED
    BY <2>1, <2>2, <2>3
<1>13. CASE Drop(t)
  BY <1>13, DropSockets
<1>14. CASE EndFetch(t)
  <2> DEFINE e == Call("unlink", r.cnx, fetch_session_by_cnx(r.cnx))
  <2>1. /\ r \in Pend(t) /\ r.op = "end" /\ r.cnx \in Conns /\ UNCHANGED <<allVars, networkVars>>
        /\ Moves(t, <<e>>)
    BY <1>0, <1>14, EndFetchDoes
  <2>2. KnownCall(e) /\ GoesOn(t, e)
    <3>1. e.op \in EndingOps \cup {"unregister"} /\ e.cnx = r.cnx
      BY DEF Call, EndingOps
    <3> HIDE DEF e
    <3> QED
      BY <1>i, <2>1, <3>1 DEF EndingOps
  <2> HIDE DEF e
  <2> QED
    BY <1>a, <1>b, <1>c, <2>1, <2>2
<1>15. CASE EndUnlink(t)
  <2> DEFINE e == Call("check", r.cnx, r.ses)
  <2>1. /\ r \in Pend(t) /\ r.op = "unlink" /\ r.cnx \in Conns /\ UNCHANGED networkVars
        /\ Moves(t, <<e>>) /\ r.ses \in 0..created /\ UnlinkConnection(r.ses, r.cnx)
    BY <1>0, <1>15, EndUnlinkDoes
  <2>2. KnownCall(e) /\ GoesOn(t, e)
    <3>1. e.op \in EndingOps \cup {"unregister"} /\ e.cnx = r.cnx
      BY DEF Call, EndingOps
    <3> HIDE DEF e
    <3> QED
      BY <1>i, <2>1, <3>1 DEF EndingOps
  <2>3. r.ses \in Sessions
    BY <1>0, <2>1, CreatedFacts
  <2>4. \A s \in Sessions : \A i \in DOMAIN cnxs'[s] : socket[cnxs'[s][i]] # "new"
    <3>1. /\ \A x \in Sessions \ {r.ses} : cnxs'[x] = cnxs[x]
          /\ \A i \in DOMAIN cnxs'[r.ses] : \E j \in DOMAIN cnxs[r.ses] :
               cnxs'[r.ses][i] = cnxs[r.ses][j]
      BY <1>0, <2>1, <2>3, UnlinkDoes
    <3> QED
      BY <1>0, <2>3, <3>1
  <2> HIDE DEF e
  <2> QED
    BY <1>0, <1>c, <2>1, <2>2, <2>4, ShortMoves
<1>16. CASE EndCheck(t)
  <2> DEFINE a == Call("leave", r.cnx, r.ses)
             b == Call("unregister", r.cnx, r.ses)
  <2>1. /\ r \in Pend(t) /\ r.op = "check" /\ r.cnx \in Conns /\ UNCHANGED <<allVars, networkVars>>
        /\ Moves(t, <<a, b>>) \/ Moves(t, <<>>)
    BY <1>0, <1>16, EndCheckDoes
  <2>2. KnownCall(a) /\ KnownCall(b) /\ GoesOn(t, a)
    <3>1. /\ a.op = "leave" /\ a.cnx = r.cnx /\ b.op = "unregister" /\ b.cnx = r.cnx
      BY DEF Call
    <3> HIDE DEF a, b
    <3> QED
      BY <1>i, <2>1, <3>1 DEF EndingOps
  <2> HIDE DEF a, b
  <2> QED
    BY <1>a, <1>b, <1>c, <2>1, <2>2
<1>17. CASE EndLeave(t)
  <2> DEFINE e == Call("unregister", r.cnx, r.ses)
  <2>1. /\ r \in Pend(t) /\ r.op = "leave" /\ r.cnx \in Conns /\ UNCHANGED <<sessionVars, networkVars>>
        /\ Moves(t, <<e>>)
    BY <1>0, <1>17, EndLeaveDoes
  <2>2. KnownCall(e) /\ GoesOn(t, e)
    <3>1. e.op \in EndingOps \cup {"unregister"} /\ e.cnx = r.cnx
      BY DEF Call, EndingOps
    <3> HIDE DEF e
    <3> QED
      BY <1>i, <2>1, <3>1 DEF EndingOps
  <2> HIDE DEF e
  <2> QED
    BY <1>a, <1>c, <2>1, <2>2 DEF sessionVars
<1>18. CASE EndUnregister(t)
  <2>1. r.op # "drop" /\ UNCHANGED networkVars /\ Moves(t, <<>>) /\ unregister_session(r.cnx)
    BY <1>0, <1>18, EndUnregisterDoes
  <2>2. UNCHANGED cnxs
    BY <2>1 DEF unregister_session, ForgetSession, sessionVars
  <2> QED
    BY <1>a, <1>c, <2>1, <2>2
<1> QED
  BY <1>1, <1>2, <1>3, <1>4, <1>5, <1>6, <1>7, <1>8, <1>9, <1>10, <1>11, <1>12, <1>13,
     <1>14, <1>15, <1>16, <1>17, <1>18 DEF ThreadStep

LEMMA SocketsStep ==
  ASSUME BrokerInv, SocketsOK, [BrokerNext]_vars
  PROVE  SocketsOK'
<1>0. /\ RegistryTypeOK /\ SubscriptionTypeOK /\ CallsOK
      /\ \A c \in reading \cup m_cnxs : socket[c] # "new"
      /\ \A s \in Sessions : \A i \in DOMAIN cnxs[s] : socket[cnxs[s][i]] # "new"
  BY KnownFacts
<1>b. UNCHANGED allVars => UNCHANGED cnxs
  BY DEF allVars, sessionVars
<1>1. ASSUME NEW c \in Conns, ReadError(c) PROVE SocketsOK'
  <2> DEFINE t == ServerOf(c)
             q == <<Call("drop", c, Null)>>
  <2>1. /\ t \in Threads /\ c \in reading /\ Pend(t) = {}
        /\ socket' = [socket EXCEPT ![c] = "closed"] /\ reading' = reading \ {c}
        /\ Moves(t, q) /\ UNCHANGED <<m_cnxs, cnxs>>
    BY <1>0, <1>1, <1>b, ReadErrorDoes, ServerOfType
  <2>2. q # <<>> /\ Head(q).op = "drop" /\ Head(q).cnx = c /\ \A x \in Range(q) : x.cnx = c
    BY RangeOfTuples DEF Call
  <2> HIDE DEF q, t
  <2>3. /\ \A u \in Threads \ {t} : Now(u)' = Now(u)
        /\ Now(t)'.op = "drop" /\ Now(t)'.cnx = c
        /\ \A u \in Threads : \A x \in Pend(u)' : x \in Pend(u) \/ x.cnx = c
    BY <2>1, <2>2 DEF Moves
  <2>4. Now(t).op \notin ClosedOps
    <3>1. Now(t) = NoCall
      BY <1>0, <2>1, NowCases
    <3> QED
      BY <3>1 DEF NoCall, ClosedOps, EndingOps
  <2>5. socket[c] # "new" /\ reading' \subseteq reading
    BY <1>0, <2>1
  <2> QED
    BY <2>1, <2>3, <2>4, <2>5, CloseSockets
<1>2. ASSUME NEW c \in Conns, Frame(c) PROVE SocketsOK'
  <2> DEFINE t == ServerOf(c)
  <2>1. /\ t \in Threads /\ Pend(t) = {} /\ socket[c] = "open" /\ reading' = reading \ {c}
        /\ UNCHANGED <<m_cnxs, socket, cnxs>>
        /\ \E new : Moves(t, new) /\ FrameCalls(c, new)
    BY <1>0, <1>2, <1>b, FrameDoes, ServerOfType
  <2>2. PICK new : Moves(t, new) /\ FrameCalls(c, new)
    BY <2>1
  <2> HIDE DEF t
  <2>3. /\ \A r \in Range(new) : r.op \in AboutCnx => socket[r.cnx] # "new"
        /\ Head(new).op \notin ClosedOps
    BY <2>1, <2>2 DEF FrameCalls, FrameOps, ClosedOps, EndingOps
  <2>4. Now(t).op # "drop"
    <3>1. Now(t) = NoCall
      BY <1>0, <2>1, NowCases
    <3> QED
      BY <3>1 DEF NoCall
  <2>5. /\ \A x \in reading' : socket[x] # "new"
        /\ \A s \in Sessions : \A i \in DOMAIN cnxs'[s] : socket[cnxs'[s][i]] # "new"
    BY <1>0, <2>1
  <2> QED
    BY <2>1, <2>2, <2>3, <2>4, <2>5, MovesSame
<1>3. CASE WorkerTask
  <2>1. UNCHANGED <<sessionVars, brokerVars>>
    BY <1>3, WorkerTaskDoes
  <2> QED
    BY <1>0, <2>1, StillSockets DEF sessionVars, brokerVars, networkVars
<1>4. CASE WorkerEnd
  <2> DEFINE e == ToFront(task.owner, "ACK")
  <2>1. /\ Pend("worker") = {} /\ UNCHANGED <<sessionVars, networkVars>>
        /\ Moves("worker", <<e>>) \/ Moves("worker", <<>>)
    BY <1>0, <1>4, WorkerEndDoes
  <2>2. KnownCall(e) /\ GoesOn("worker", e)
    BY DEF KnownCall, GoesOn, ToFront, AboutCnx, CnxOps, ClosedOps, EndingOps
  <2>3. "worker" \in Threads
    BY DEF Threads
  <2>4. Now("worker").op # "drop"
    <3>1. Now("worker") = NoCall
      BY <1>0, <2>1, <2>3, NowCases
    <3> QED
      BY <3>1 DEF NoCall
  <2> HIDE DEF e
  <2>5. /\ UNCHANGED <<m_cnxs, socket>> /\ \A x \in reading' : socket[x] # "new"
        /\ \A s \in Sessions : \A i \in DOMAIN cnxs'[s] : socket[cnxs'[s][i]] # "new"
    BY <1>0, <2>1 DEF sessionVars, networkVars
  <2>6. CASE Moves("worker", <<e>>)
    BY <2>2, <2>3, <2>4, <2>5, <2>6, ShortMoves
  <2>7. CASE Moves("worker", <<>>)
    BY <2>3, <2>4, <2>5, <2>7, ShortMoves
  <2> QED
    BY <2>1, <2>6, <2>7
<1>5. CASE UNCHANGED vars
  BY <1>0, <1>5, StillSockets DEF vars, allVars, sessionVars, brokerVars, networkVars
<1> QED
  BY <1>1, <1>2, <1>3, <1>4, <1>5, AcceptSockets, ThreadSockets DEF BrokerNext

LEMMA SocketsInit == BrokerInit => SocketsOK
<1> SUFFICES ASSUME BrokerInit PROVE SocketsOK
  OBVIOUS
<1>1. /\ m_cnxs = {} /\ reading = {} /\ socket = [c \in Conns |-> "new"]
      /\ cnxs = [s \in Sessions |-> <<>>] /\ \A t \in Threads : todo[t] = <<>>
  BY DEF BrokerInit, ManagersInit, RegistryInit
<1>2. \A t \in Threads : Now(t) = NoCall /\ Pend(t) = {}
  BY <1>1 DEF Now, Pend, Range
<1>3. AcceptedOnce
  BY <1>1, <1>2 DEF AcceptedOnce
<1>4. OpenIsRegistered /\ ClosedIsDropped
  BY <1>1 DEF OpenIsRegistered, ClosedIsDropped
<1>5. EndsAreClosed /\ EndsAreUnique
  BY <1>2 DEF EndsAreClosed, EndsAreUnique, NoCall, ClosedOps, EndingOps
<1> QED
  BY <1>3, <1>4, <1>5 DEF SocketsOK

(* An end is what its thread does next: nothing of it ever waits behind    *)
(* another call.                                                           *)
LEMMA EndsAreNow ==
  ASSUME CallsOK, NEW t \in Threads, NEW i \in DOMAIN todo[t], todo[t][i].op \in EndingOps
  PROVE  i = 1 /\ Now(t) = todo[t][1]
<1> DEFINE q == todo[t]
<1>1. q \in Seq(CallSet) /\ Ordered(q) /\ i \in 1..Len(q) /\ q # <<>>
  BY DEF CallsOK
<1>2. Now(t) = q[1]
  BY <1>1 DEF Now
<1>3. ASSUME i # 1 PROVE FALSE
  <2>1. i - 1 \in DOMAIN Tail(q) /\ Tail(q)[i - 1] = q[i]
    BY <1>1, <1>3
  <2>2. q[i].op \in EndingOps /\ EndingOps \cap (Later \cup {"unregister"}) = {}
    BY DEF EndingOps, Later
  <2> DEFINE z == Tail(q)
  <2>3. z \in Seq(CallSet)
    BY <1>1
  <2>4. CASE Head(q).op # "leave"
    <3>1. AllLater(z)
      BY <1>1, <2>4 DEF Ordered
    <3> HIDE DEF z, q
    <3> QED
      BY <2>1, <2>2, <3>1 DEF AllLater, z
  <2>5. CASE Head(q).op = "leave"
    <3>1. z # <<>> /\ Head(z).op = "unregister" /\ AllLater(Tail(z))
      BY <1>1, <2>5 DEF Ordered, Call
    <3>2. q[i] = z[i - 1] /\ i - 1 \in DOMAIN z
      BY <2>1
    <3> HIDE DEF z, q
    <3>3. i - 1 = 1 \/ (i - 2 \in DOMAIN Tail(z) /\ Tail(z)[i - 2] = z[i - 1])
      BY <1>1, <2>3, <3>1, <3>2
    <3>4. z[1] = Head(z)
      BY <2>3, <3>1
    <3>5. CASE i - 1 = 1
      BY <2>2, <3>1, <3>2, <3>4, <3>5
    <3>6. CASE i - 2 \in DOMAIN Tail(z) /\ Tail(z)[i - 2] = z[i - 1]
      BY <2>2, <3>1, <3>2, <3>6 DEF AllLater
    <3> QED
      BY <3>3, <3>5, <3>6
  <2> QED
    BY <2>4, <2>5
<1> QED
  BY <1>2, <1>3

LEMMA EndsFollow == CallsOK /\ SocketsOK => OneEndPerConnection
<1> SUFFICES ASSUME CallsOK, SocketsOK, NEW c \in Conns
             PROVE  LET ends == UNION {EndsOf(c, t) : t \in Threads}
                    IN ends = {} \/ (c \notin m_cnxs /\ Cardinality(ends) = 1)
  BY DEF OneEndPerConnection
<1> DEFINE ends == UNION {EndsOf(c, t) : t \in Threads}
           E(t) == Now(t).op \in EndingOps /\ Now(t).cnx = c
<1>1. ASSUME NEW t \in Threads, NEW e \in EndsOf(c, t) PROVE e = <<t, 1>> /\ E(t)
  <2>1. PICK i \in DOMAIN todo[t] : /\ e = <<t, i>> /\ todo[t][i].op \in EndingOps
                                    /\ todo[t][i].cnx = c
    BY DEF EndsOf, EndingOps
  <2> QED
    BY <2>1, EndsAreNow
<1>2. CASE ends = {}
  BY <1>2
<1>3. CASE ends # {}
  <2>1. PICK t \in Threads : \E e \in EndsOf(c, t) : TRUE
    BY <1>3
  <2>2. <<t, 1>> \in EndsOf(c, t) /\ E(t)
    BY <1>1, <2>1
  <2>3. c \notin m_cnxs /\ \A u \in Threads \ {t} : ~E(u)
    BY <2>2 DEF SocketsOK, EndsAreUnique
  <2>4. ends = {<<t, 1>>}
    BY <1>1, <2>2, <2>3
  <2>5. Cardinality({<<t, 1>>}) = 1
    BY FS_Singleton
  <2> QED
    BY <2>3, <2>4, <2>5
<1> QED
  BY <1>2, <1>3

(* What is proved of the managers alone holds of the broker: login,        *)
(* destination and session stay in bijection, services and administrators  *)
(* have one connection, and who is linked to whom keeps to the ranks,      *)
(* whatever the connections, the writers and the worker do.                *)
THEOREM ManagersHoldInBroker ==
  BrokerSpec => [](RegistryConsistent /\ ExclusiveProfilesHoldOneConnection
                   /\ SubscribersOutrank /\ LinksAreAnswered)
<1>1. BrokerSpec => ManagersSpec
  BY UsesManagersCorrect DEF UsesManagers
<1> QED
  BY <1>1, ManagersImplyRegistry, RegistryBijective, ExclusiveProfilesCorrect,
     SubscribersOutrankCorrect, LinksAreAnsweredCorrect, PTL

(* A connection ends once, whoever of its reader, a failing writer and a   *)
(* login that replaces it comes to close it.                               *)
THEOREM OneEndCorrect == BrokerSpec => []OneEndPerConnection
<1>1. BrokerInit => BrokerInv /\ SocketsOK
  BY BrokerInvInit, SocketsInit
<1>2. BrokerInv /\ SocketsOK /\ [BrokerNext]_vars => BrokerInv' /\ SocketsOK'
  BY BrokerInvStep, SocketsStep
<1>3. BrokerInv /\ SocketsOK => OneEndPerConnection
  BY EndsFollow DEF BrokerInv
<1> QED
  BY <1>1, <1>2, <1>3, PTL DEF BrokerSpec

-----------------------------------------------------------------------------
(* The sessions: a step that leaves the registry alone.                    *)

(* A write a step adds: an answer to no CONNECT, from the server of the    *)
(* connection or to a connection that is in a list.                        *)
WritesWell(t, r) ==
  r.op = "write" =>
    /\ r.kind # "CONNECTED"
    /\ \/ t = ServerOf(r.cnx)
       \/ \E s \in Sessions : \E i \in DOMAIN cnxs[s] : cnxs[s][i] = r.cnx

(* A step that leaves the registry alone.                                  *)
KeepsSessions(t, new) ==
  /\ Moves(t, new) /\ UNCHANGED sessionVars /\ (crashed => crashed')
  /\ \A c \in Conns : /\ told'[c] = Null => told[c] = Null
                      /\ socket'[c] # "closed" => socket[c] # "closed"
  /\ \A c \in Conns : \/ told'[c] = told[c] /\ socket'[c] = socket[c]
                      \/ t = ServerOf(c)
                      \/ Now(t) \in Pend(t) /\ Now(t).op = "write" /\ Now(t).cnx = c
  /\ Now(t).op = "write" /\ Now(t).kind = "CONNECTED" =>
       told'[Now(t).cnx] # Null \/ socket'[Now(t).cnx] = "closed"
  /\ \A r \in Range(new) : WritesWell(t, r)
  /\ Now(t)'.op = "register" =>
       /\ t = ServerOf(Now(t)'.cnx)
       /\ told'[Now(t)'.cnx] = Null /\ socket'[Now(t)'.cnx] = "open"
       /\ \A r \in Pend(t)' : r.op # "write"
  /\ Now(t)'.op \in HeldOps =>
       \A s \in m_sessions : m_cnx_session[Now(t)'.cnx] = s <=> Now(t)'.ses = s
  /\ Now(t).op \in {"end", "unlink"} =>
       Now(t)'.op \in {"end", "unlink"} /\ Now(t)'.cnx = Now(t).cnx
  /\ \A c \in m_cnxs : c \in m_cnxs' \/ (Now(t)'.op \in {"end", "unlink"} /\ Now(t)'.cnx = c)
  /\ Now(t).op \in {"check", "leave", "unregister"} =>
       \A s \in m_sessions : Now(t).ses = s /\ cnxs[s] = <<>> =>
         Now(t)'.op \in {"check", "leave", "unregister"} /\ Now(t)'.ses = s

LEMMA RegisteringIsFresh ==
  ASSUME SessionsOK, ~crashed, NEW t \in Threads, Now(t).op = "register", Now(t).cnx \in Conns
  PROVE  /\ t = ServerOf(Now(t).cnx) /\ told[Now(t).cnx] = Null /\ socket[Now(t).cnx] = "open"
         /\ Fresh(Now(t).cnx) /\ \A r \in Pend(t) : r.op # "write"
<1>1. /\ t = ServerOf(Now(t).cnx) /\ told[Now(t).cnx] = Null /\ socket[Now(t).cnx] = "open"
      /\ \A r \in Pend(t) : r.op # "write"
  BY DEF SessionsOK, RegistersOnce
<1>2. ConnectedTo(Now(t).cnx) = {}
  BY <1>1 DEF ConnectedTo
<1> QED
  BY <1>1, <1>2 DEF SessionsOK, UnansweredIsFresh

LEMMA KeepsSessionsWell ==
  ASSUME BrokerInv, SessionsOK, NEW t \in Threads, NEW new, KeepsSessions(t, new)
  PROVE  SessionsOK'
<1>0. /\ UnansweredIsFresh /\ AnswersNameSession /\ RegistersOnce /\ ListsAreMapped
      /\ EndsHoldSession /\ ListedAreEnding /\ EmptyAreClosing /\ CallsOK
  BY DEF SessionsOK, BrokerInv
<1>1. UNCHANGED <<cnxs, m_sessions, m_cnx_session>> /\ (crashed => crashed')
  BY DEF KeepsSessions, sessionVars, registryMaps
<1>2. /\ \A u \in Threads \ {t} : Pend(u)' = Pend(u) /\ Now(u)' = Now(u)
      /\ \A r \in Pend(t) : r # Now(t) => r \in Pend(t)'
      /\ \A r \in Pend(t)' : r \in Range(new) \/ r \in Pend(t)
  BY DEF KeepsSessions, Moves
<1>3. \A r \in Range(new) : WritesWell(t, r)
  BY DEF KeepsSessions
<1>4. UnansweredIsFresh'
  <2>1. SUFFICES ASSUME ~crashed', NEW c \in Conns, told'[c] = Null, socket'[c] # "closed",
                        ConnectedTo(c)' = {}
                 PROVE  Fresh(c)'
    BY DEF UnansweredIsFresh
  <2>2. ~crashed /\ told[c] = Null /\ socket[c] # "closed" /\ ServerOf(c) \in Threads
    BY <1>1, <2>1, ServerOfType DEF KeepsSessions
  <2>3. ASSUME NEW r \in Pend(ServerOf(c)), r.op = "write", r.cnx = c, r.kind = "CONNECTED"
        PROVE  FALSE
    <3>1. r \notin Pend(ServerOf(c))'
      BY <2>1, <2>3 DEF ConnectedTo, ServerOf
    <3>2. t = ServerOf(c) /\ r = Now(t)
      BY <1>2, <2>2, <2>3, <3>1
    <3> QED
      BY <2>1, <2>3, <3>2 DEF KeepsSessions
  <2>4. Fresh(c)
    BY <1>0, <2>2, <2>3 DEF UnansweredIsFresh, ConnectedTo
  <2>5. ASSUME NEW u \in Threads \ {ServerOf(c)}, NEW r \in Pend(u)', r.op = "write", r.cnx = c
        PROVE  FALSE
    <3>1. r \notin Pend(u)
      BY <2>4, <2>5 DEF Fresh
    <3>2. u = t /\ r \in Range(new)
      BY <1>2, <2>5, <3>1
    <3> QED
      BY <1>3, <2>4, <2>5, <3>2 DEF WritesWell, Fresh
  <2> QED
    BY <1>1, <2>4, <2>5 DEF Fresh, ServerOf
<1>5. AnswersNameSession'
  BY <1>0, <1>2, <1>3 DEF AnswersNameSession, WritesWell
<1>6. RegistersOnce'
  <2>1. SUFFICES ASSUME ~crashed', NEW u \in Threads, Now(u)'.op = "register"
                 PROVE  /\ u = ServerOf(Now(u)'.cnx)
                        /\ told'[Now(u)'.cnx] = Null /\ socket'[Now(u)'.cnx] = "open"
                        /\ \A r \in Pend(u)' : r.op # "write"
    BY DEF RegistersOnce, ServerOf
  <2>2. CASE u = t
    BY <2>1, <2>2 DEF KeepsSessions
  <2>3. CASE u # t
    <3> DEFINE c == Now(u).cnx
    <3>1. Now(u)' = Now(u) /\ Pend(u)' = Pend(u) /\ Now(u).op = "register" /\ ~crashed
      BY <1>1, <1>2, <2>1, <2>3
    <3>2. c \in Conns
      BY <1>0, <3>1, NowCases DEF AboutCnx
    <3>3. /\ u = ServerOf(c) /\ told[c] = Null /\ socket[c] = "open" /\ Fresh(c)
          /\ \A r \in Pend(u) : r.op # "write"
      BY <3>1, <3>2, RegisteringIsFresh
    <3>4. told'[c] = told[c] /\ socket'[c] = socket[c]
      BY <2>3, <3>2, <3>3 DEF KeepsSessions, Fresh
    <3> QED
      BY <3>1, <3>3, <3>4
  <2> QED
    BY <2>2, <2>3
<1>7. ListsAreMapped'
  BY <1>0, <1>1 DEF ListsAreMapped
<1>8. EndsHoldSession'
  BY <1>0, <1>1, <1>2 DEF EndsHoldSession, KeepsSessions, HeldOps
<1>9. ListedAreEnding'
  <2>1. SUFFICES ASSUME NEW s \in m_sessions, NEW i \in DOMAIN cnxs[s]
                 PROVE  \/ cnxs[s][i] \in m_cnxs'
                        \/ \E u \in Threads : Now(u)'.op \in {"end", "unlink"}
                                              /\ Now(u)'.cnx = cnxs[s][i]
    BY <1>1 DEF ListedAreEnding
  <2>2. CASE cnxs[s][i] \in m_cnxs
    BY <2>2 DEF KeepsSessions
  <2>3. ASSUME NEW u \in Threads, Now(u).op \in {"end", "unlink"}, Now(u).cnx = cnxs[s][i]
        PROVE  Now(u)'.op \in {"end", "unlink"} /\ Now(u)'.cnx = cnxs[s][i]
    BY <1>2, <2>3 DEF KeepsSessions
  <2> QED
    BY <1>0, <2>2, <2>3 DEF ListedAreEnding
<1>10. EmptyAreClosing'
  <2>1. SUFFICES ASSUME NEW s \in m_sessions, cnxs[s] = <<>>
                 PROVE  \E u \in Threads : /\ Now(u)'.op \in {"check", "leave", "unregister"}
                                           /\ Now(u)'.ses = s
    BY <1>1 DEF EmptyAreClosing
  <2>2. ASSUME NEW u \in Threads, Now(u).op \in {"check", "leave", "unregister"}, Now(u).ses = s
        PROVE  Now(u)'.op \in {"check", "leave", "unregister"} /\ Now(u)'.ses = s
    BY <1>2, <2>1, <2>2 DEF KeepsSessions
  <2> QED
    BY <1>0, <2>1, <2>2 DEF EmptyAreClosing
<1> QED
  BY <1>4, <1>5, <1>6, <1>7, <1>8, <1>9, <1>10 DEF SessionsOK


(* A step of none of the threads, or one on which the process dies.        *)
LEMMA StillSessions ==
  ASSUME SessionsOK, UNCHANGED <<sessionVars, told, todo>>, crashed => crashed',
         \A c \in m_cnxs : c \in m_cnxs',
         \A c \in Conns : /\ socket'[c] # "closed" => socket[c] # "closed"
                          /\ socket[c] = "open" => socket'[c] = "open",
         CallsOK
  PROVE  SessionsOK'
<1>1. \A u \in Threads : Pend(u)' = Pend(u) /\ Now(u)' = Now(u)
  BY DEF Pend, Now
<1>2. UNCHANGED <<cnxs, m_sessions, m_cnx_session, told>>
  BY DEF sessionVars, registryMaps
<1>3. \A c \in Conns : ConnectedTo(c)' = ConnectedTo(c) /\ Fresh(c)' = Fresh(c)
  <2>1. ASSUME NEW c \in Conns PROVE ConnectedTo(c)' = ConnectedTo(c)
    BY <1>1, ServerOfType DEF ConnectedTo, ServerOf
  <2>2. ASSUME NEW c \in Conns PROVE Fresh(c)' = Fresh(c)
    BY <1>1, <1>2 DEF Fresh, ServerOf
  <2> QED
    BY <2>1, <2>2
<1>4. UnansweredIsFresh'
  BY <1>2, <1>3 DEF SessionsOK, UnansweredIsFresh
<1>5. AnswersNameSession' /\ ListsAreMapped' /\ EndsHoldSession' /\ EmptyAreClosing'
  BY <1>1, <1>2
     DEF SessionsOK, AnswersNameSession, ListsAreMapped, EndsHoldSession, EmptyAreClosing
<1>6. RegistersOnce'
  <2>1. \A u \in Threads : Now(u).op = "register" => Now(u).cnx \in Conns
    BY NowCases DEF AboutCnx
  <2> QED
    BY <1>1, <1>2, <2>1 DEF SessionsOK, RegistersOnce, ServerOf
<1>7. ListedAreEnding'
  BY <1>1, <1>2 DEF SessionsOK, ListedAreEnding
<1> QED
  BY <1>4, <1>5, <1>6, <1>7 DEF SessionsOK

(* A connection joins the session s of its login, which may be new: what   *)
(* the calls say of the connections that have not logged in.               *)
JoinCalls(t, c, s, new) ==
  /\ Moves(t, new) /\ new # <<>> /\ Head(new).op = "write" /\ UNCHANGED <<networkVars, crashed>>
  /\ \E r \in Range(new) : r.op = "write" /\ r.cnx = c /\ r.kind = "CONNECTED"
  /\ \A r \in Range(new) : r.op = "write" /\
       \/ r.cnx = c /\ r.ses # Null
       \/ r.kind # "CONNECTED" /\ \E i \in DOMAIN cnxs[s] : cnxs[s][i] = r.cnx
JoinLists(c, s) ==
  /\ m_cnx_session' = [m_cnx_session EXCEPT ![c] = s]
  /\ \A x \in Sessions \ {s} : cnxs'[x] = cnxs[x]
  /\ \A i \in DOMAIN cnxs'[s] : cnxs'[s][i] = c \/ (i \in DOMAIN cnxs[s] /\ cnxs'[s][i] = cnxs[s][i])

LEMMA JoinCallsWell ==
  ASSUME BrokerInv, SessionsOK, ~crashed, NEW t \in Threads, Now(t).op = "register",
         NEW c \in Conns, c = Now(t).cnx, NEW s \in Sessions, NEW new,
         JoinCalls(t, c, s, new), JoinLists(c, s)
  PROVE  UnansweredIsFresh' /\ AnswersNameSession' /\ RegistersOnce'
<1>0. /\ UnansweredIsFresh /\ AnswersNameSession /\ RegistersOnce /\ CallsOK
      /\ m_cnx_session \in [Conns -> 0..created]
  BY DEF SessionsOK, BrokerInv, RegistryTypeOK
<1>1. UNCHANGED <<told, socket, crashed>>
  BY DEF JoinCalls, networkVars
<1>2. /\ \A u \in Threads \ {t} : Pend(u)' = Pend(u) /\ Now(u)' = Now(u)
      /\ \A r \in Pend(t) : r # Now(t) => r \in Pend(t)'
      /\ \A r \in Pend(t)' : r \in Range(new) \/ r \in Pend(t)
      /\ Range(new) \subseteq Pend(t)'
      /\ Now(t)'.op = "write"
  BY DEF JoinCalls, Moves
<1>3. t = ServerOf(c)
  BY RegisteringIsFresh
<1>4. UnansweredIsFresh'
  <2>1. SUFFICES ASSUME ~crashed', NEW d \in Conns, told'[d] = Null, socket'[d] # "closed",
                        ConnectedTo(d)' = {}
                 PROVE  Fresh(d)'
    BY DEF UnansweredIsFresh
  <2>2. d # c
    BY <1>2, <1>3, <2>1 DEF ConnectedTo, JoinCalls, ServerOf
  <2>3. ASSUME NEW r \in Pend(ServerOf(d)), r.op = "write", r.cnx = d, r.kind = "CONNECTED"
        PROVE  FALSE
    <3>1. r \notin Pend(ServerOf(d))'
      BY <2>1, <2>3 DEF ConnectedTo, ServerOf
    <3> QED
      BY <1>2, <2>3, <3>1, ServerOfType
  <2>4. Fresh(d)
    BY <1>0, <1>1, <2>1, <2>3 DEF UnansweredIsFresh, ConnectedTo
  <2>5. ASSUME NEW u \in Threads \ {ServerOf(d)}, NEW r \in Pend(u)', r.op = "write", r.cnx = d
        PROVE  FALSE
    <3>1. r \notin Pend(u)
      BY <2>4, <2>5 DEF Fresh
    <3>2. u = t /\ r \in Range(new)
      BY <1>2, <2>5, <3>1
    <3>3. \A i \in DOMAIN cnxs[s] : cnxs[s][i] # d
      BY <2>4 DEF Fresh
    <3> QED
      BY <2>2, <2>5, <3>2, <3>3 DEF JoinCalls
  <2>6. \A x \in Sessions : \A i \in DOMAIN cnxs'[x] : cnxs'[x][i] # d
    BY <2>2, <2>4 DEF Fresh, JoinLists
  <2>7. m_cnx_session'[d] = Null
    BY <1>0, <2>2, <2>4 DEF Fresh, JoinLists
  <2> QED
    BY <2>5, <2>6, <2>7 DEF Fresh, ServerOf
<1>5. AnswersNameSession'
  BY <1>0, <1>2 DEF AnswersNameSession, JoinCalls
<1>6. RegistersOnce'
  BY <1>0, <1>1, <1>2 DEF RegistersOnce, ServerOf
<1> QED
  BY <1>4, <1>5, <1>6

(* And what the lists and the ends say, when the session joined is live:   *)
(* the process may die on the way.                                         *)
LEMMA JoinListsWell ==
  ASSUME BrokerInv, SocketsOK, SessionsOK, ~crashed, NEW t \in Threads, Now(t).op = "register",
         NEW c \in Conns, c = Now(t).cnx, NEW s \in Sessions, JoinLists(c, s),
         \A u \in Threads : Now(u)' = Now(u) \/ (u = t /\ Now(u)'.op = "write"),
         UNCHANGED m_cnxs, cnxs'[s] # <<>>,
         \A i, j \in DOMAIN cnxs'[s] : cnxs'[s][i] = c /\ cnxs'[s][j] = c => i = j,
         \/ UNCHANGED m_sessions
         \/ s > created /\ m_sessions' = m_sessions \cup {s} /\ \A i \in DOMAIN cnxs'[s] : cnxs'[s][i] = c
  PROVE  ListsAreMapped' /\ EndsHoldSession' /\ ListedAreEnding' /\ EmptyAreClosing'
<1>0. /\ ListsAreMapped /\ EndsHoldSession /\ ListedAreEnding /\ EmptyAreClosing /\ CallsOK
      /\ OpenIsRegistered /\ EndsAreClosed /\ m_cnx_session \in [Conns -> 0..created]
      /\ m_sessions \subseteq 1..created /\ created \in Nat /\ m_sessions \subseteq Sessions
      /\ cnxs \in [Sessions -> Seq(Conns)]
  <2>1. m_sessions \subseteq 1..created /\ created \in 0..MaxSession
    BY DEF BrokerInv, RegistryTypeOK
  <2>2. created \in Nat /\ m_sessions \subseteq Sessions
    BY <2>1, BoundsAssumption DEF Sessions, Sids
  <2> QED
    BY <2>1, <2>2 DEF SessionsOK, SocketsOK, BrokerInv, RegistryTypeOK
<1>1. Fresh(c) /\ socket[c] = "open" /\ c \in m_cnxs
  BY <1>0, RegisteringIsFresh DEF OpenIsRegistered
<1>2. /\ m_cnx_session'[c] = s
      /\ \A d \in Conns \ {c} : m_cnx_session'[d] = m_cnx_session[d]
  BY <1>0 DEF JoinLists
<1>3. m_sessions' \subseteq m_sessions \cup {s}
  OBVIOUS
<1>4. \A x \in m_sessions : \A i \in DOMAIN cnxs[x] : cnxs[x][i] \in Conns \ {c}
  BY <1>0, <1>1 DEF Fresh
<1>5. ListsAreMapped'
  <2>1. SUFFICES ASSUME NEW x \in m_sessions'
                 PROVE  /\ \A i \in DOMAIN cnxs'[x] : m_cnx_session'[cnxs'[x][i]] = x
                        /\ \A i, j \in DOMAIN cnxs'[x] : cnxs'[x][i] = cnxs'[x][j] => i = j
    BY DEF ListsAreMapped
  <2>2. CASE x # s
    <3>1. x \in m_sessions /\ cnxs'[x] = cnxs[x]
      BY <1>0, <1>3, <2>1, <2>2 DEF JoinLists
    <3> QED
      BY <1>0, <1>2, <1>4, <3>1 DEF ListsAreMapped
  <2>3. CASE x = s /\ s \in m_sessions
    <3>1. \A i \in DOMAIN cnxs'[s] :
            cnxs'[s][i] = c \/ (i \in DOMAIN cnxs[s] /\ cnxs'[s][i] = cnxs[s][i])
      BY DEF JoinLists
    <3>2. \A i \in DOMAIN cnxs[s] : m_cnx_session[cnxs[s][i]] = s /\ cnxs[s][i] \in Conns \ {c}
      BY <1>0, <1>4, <2>3 DEF ListsAreMapped
    <3>3. \A i, j \in DOMAIN cnxs[s] : cnxs[s][i] = cnxs[s][j] => i = j
      BY <1>0, <2>3 DEF ListsAreMapped
    <3>4. \A i \in DOMAIN cnxs'[x] : m_cnx_session'[cnxs'[x][i]] = x
      BY <1>2, <2>3, <3>1, <3>2
    <3>5. ASSUME NEW i \in DOMAIN cnxs'[s], NEW j \in DOMAIN cnxs'[s], cnxs'[s][i] = cnxs'[s][j]
          PROVE  i = j
      BY <3>1, <3>2, <3>3, <3>5
    <3> QED
      BY <2>3, <3>4, <3>5
  <2>4. CASE x = s /\ s \notin m_sessions
    BY <1>2, <2>1, <2>4
  <2> QED
    BY <2>2, <2>3, <2>4
<1>6. EndsHoldSession'
  <2>1. SUFFICES ASSUME NEW u \in Threads, Now(u)'.op \in HeldOps, NEW x \in m_sessions'
                 PROVE  m_cnx_session'[Now(u)'.cnx] = x <=> Now(u)'.ses = x
    BY DEF EndsHoldSession, HeldOps
  <2>2. Now(u)' = Now(u) /\ Now(u).op \in HeldOps
    BY <2>1 DEF HeldOps
  <2>3. /\ Now(u).cnx \in Conns /\ Now(u).ses <= created /\ Now(u).ses \in Sessions
    <3>1. Now(u).op \in CnxOps /\ Now(u).op \in AboutCnx
      BY <2>2 DEF HeldOps, CnxOps, AboutCnx
    <3>2. Now(u) \in Pend(u) /\ Now(u) \in CallSet
      BY <1>0, <3>1, NowCases DEF NoCall, AboutCnx, CnxOps
    <3> QED
      BY <1>0, <3>1, <3>2, CallFields DEF CallsOK, IdsOK
  <2>4. Now(u).cnx # c
    BY <1>0, <1>1, <2>2 DEF EndsAreClosed, HeldOps, ClosedOps, EndingOps
  <2>5. m_cnx_session'[Now(u).cnx] = m_cnx_session[Now(u).cnx]
        /\ m_cnx_session[Now(u).cnx] \in 0..created
    BY <1>0, <1>2, <2>3, <2>4
  <2>6. CASE x \in m_sessions
    BY <1>0, <2>2, <2>5, <2>6 DEF EndsHoldSession, HeldOps
  <2>7. CASE x \notin m_sessions
    <3>1. x = s /\ s > created
      BY <2>1, <2>7
    <3>2. s \in Nat
      BY BoundsAssumption DEF Sessions, Sids, Null
    <3>3. Now(u).ses \in Nat
      BY <2>3, BoundsAssumption DEF Sessions, Sids, Null
    <3>4. m_cnx_session[Now(u).cnx] # s /\ Now(u).ses # s
      BY <1>0, <2>3, <2>5, <3>1, <3>2, <3>3
    <3> QED
      BY <2>2, <2>5, <3>1, <3>4
  <2> QED
    BY <2>6, <2>7
<1>7. ListedAreEnding'
  <2>1. SUFFICES ASSUME NEW x \in m_sessions', NEW i \in DOMAIN cnxs'[x], cnxs'[x][i] # c
                 PROVE  \/ cnxs'[x][i] \in m_cnxs
                        \/ \E u \in Threads : Now(u)'.op \in {"end", "unlink"}
                                              /\ Now(u)'.cnx = cnxs'[x][i]
    BY <1>1 DEF ListedAreEnding
  <2>2. x \in m_sessions /\ i \in DOMAIN cnxs[x] /\ cnxs'[x][i] = cnxs[x][i]
    <3>1. CASE x = s
      BY <2>1, <3>1 DEF JoinLists
    <3>2. CASE x # s
      BY <1>0, <1>3, <2>1, <3>2 DEF JoinLists
    <3> QED
      BY <3>1, <3>2
  <2>3. ASSUME NEW u \in Threads, Now(u).op \in {"end", "unlink"} PROVE Now(u)' = Now(u)
    BY <2>3
  <2>4. CASE cnxs[x][i] \in m_cnxs
    BY <2>2, <2>4
  <2>5. CASE \E u \in Threads : Now(u).op \in {"end", "unlink"} /\ Now(u).cnx = cnxs[x][i]
    BY <2>2, <2>3, <2>5
  <2> QED
    BY <1>0, <2>2, <2>4, <2>5 DEF ListedAreEnding
<1>8. EmptyAreClosing'
  <2>1. SUFFICES ASSUME NEW x \in m_sessions', cnxs'[x] = <<>>
                 PROVE  \E u \in Threads : /\ Now(u)'.op \in {"check", "leave", "unregister"}
                                           /\ Now(u)'.ses = x
    BY DEF EmptyAreClosing
  <2>2. x \in m_sessions /\ cnxs[x] = <<>>
    BY <1>0, <1>3, <2>1 DEF JoinLists
  <2>3. PICK u \in Threads : Now(u).op \in {"check", "leave", "unregister"} /\ Now(u).ses = x
    BY <1>0, <2>2 DEF EmptyAreClosing
  <2>4. Now(u)' = Now(u)
    BY <2>3
  <2> QED
    BY <2>3, <2>4
<1> QED
  BY <1>5, <1>6, <1>7, <1>8


LEMMA LiveIsSession ==
  ASSUME RegistryTypeOK
  PROVE  /\ m_sessions \subseteq Sessions \ {Null} /\ m_sessions \subseteq 1..created
         /\ created \in Nat /\ \A s \in 0..created : s \in Sessions
<1>1. created \in 0..MaxSession /\ m_sessions \subseteq 1..created
  BY DEF RegistryTypeOK
<1> QED
  BY <1>1, BoundsAssumption DEF Sessions, Sids, Null

(* A step whose only new call is about an end: what the calls say of the   *)
(* connections that have not logged in stays, as long as no list grows and *)
(* no connection is mapped anew.                                           *)
LEMMA EndCalls ==
  ASSUME SessionsOK, CallsOK, NEW t \in Threads, NEW new, Moves(t, new),
         UNCHANGED <<networkVars, crashed>>, Now(t).op \in HeldOps,
         new = <<>> \/ Head(new).op \in HeldOps, \A r \in Range(new) : r.op \in HeldOps,
         \A x \in Sessions : \A i \in DOMAIN cnxs'[x] : \E j \in DOMAIN cnxs[x] : cnxs'[x][i] = cnxs[x][j],
         \A d \in Conns : m_cnx_session[d] = Null => m_cnx_session'[d] = Null
  PROVE  UnansweredIsFresh' /\ AnswersNameSession' /\ RegistersOnce'
<1>0. UnansweredIsFresh /\ AnswersNameSession /\ RegistersOnce
  BY DEF SessionsOK
<1>1. UNCHANGED <<told, socket, crashed>>
  BY DEF networkVars
<1>2. /\ \A u \in Threads \ {t} : Pend(u)' = Pend(u) /\ Now(u)' = Now(u)
      /\ \A r \in Pend(t) : r # Now(t) => r \in Pend(t)'
      /\ \A r \in Pend(t)' : r \in Range(new) \/ r \in Pend(t)
      /\ Now(t)'.op # "register"
  BY DEF Moves, HeldOps, Later
<1>3. \A u \in Threads : \A r \in Pend(u) : r.op = "write" => r \in Pend(u)'
  BY <1>2 DEF HeldOps
<1>4. \A u \in Threads : \A r \in Pend(u)' : r.op = "write" => r \in Pend(u)
  BY <1>2 DEF HeldOps
<1>5. UnansweredIsFresh'
  <2>1. SUFFICES ASSUME ~crashed', NEW d \in Conns, told'[d] = Null, socket'[d] # "closed",
                        ConnectedTo(d)' = {}
                 PROVE  Fresh(d)'
    BY DEF UnansweredIsFresh
  <2>2. ConnectedTo(d) = {}
    BY <1>3, <2>1, ServerOfType DEF ConnectedTo, ServerOf
  <2>3. Fresh(d)
    BY <1>0, <1>1, <2>1, <2>2 DEF UnansweredIsFresh
  <2>4. \A u \in Threads \ {ServerOf(d)} : \A r \in Pend(u)' : r.op = "write" => r.cnx # d
    BY <1>4, <2>3 DEF Fresh
  <2>5. \A x \in Sessions : \A i \in DOMAIN cnxs'[x] : cnxs'[x][i] # d
    BY <2>3 DEF Fresh
  <2>6. m_cnx_session'[d] = Null
    BY <2>3 DEF Fresh
  <2> QED
    BY <2>4, <2>5, <2>6 DEF Fresh, ServerOf
<1>6. AnswersNameSession'
  BY <1>0, <1>4 DEF AnswersNameSession
<1>7. RegistersOnce'
  BY <1>0, <1>1, <1>2, <1>4 DEF RegistersOnce, ServerOf
<1> QED
  BY <1>5, <1>6, <1>7

LEMMA UnlinkSessions ==
  ASSUME BrokerInv, SessionsOK, NEW t \in Threads, EndUnlink(t)
  PROVE  SessionsOK'
<1> DEFINE r == Now(t)
           e == Call("check", r.cnx, r.ses)
           new == <<e>>
<1>0. /\ ListsAreMapped /\ EndsHoldSession /\ ListedAreEnding /\ EmptyAreClosing
      /\ RegistryTypeOK /\ CallsOK
  BY DEF SessionsOK, BrokerInv
<1>1. /\ r \in Pend(t) /\ r.op = "unlink" /\ r.cnx \in Conns /\ r.ses \in 0..created
      /\ UnlinkConnection(r.ses, r.cnx) /\ Moves(t, new)
      /\ UNCHANGED <<networkVars, crashed>>
  BY <1>0, EndUnlinkDoes
<1>2. r.ses \in Sessions /\ m_sessions \subseteq Sessions
  BY <1>0, <1>1, LiveIsSession
<1>3. e.op = "check" /\ e.cnx = r.cnx /\ e.ses = r.ses
  BY DEF Call
<1>4. new # <<>> /\ Head(new) = e /\ \A x \in Range(new) : x = e
  BY RangeOfTuples
<1>5. /\ \A x \in Sessions \ {r.ses} : cnxs'[x] = cnxs[x]
      /\ \A i \in DOMAIN cnxs'[r.ses] : \E j \in DOMAIN cnxs[r.ses] : cnxs'[r.ses][i] = cnxs[r.ses][j]
      /\ (\A i, j \in DOMAIN cnxs[r.ses] : cnxs[r.ses][i] = cnxs[r.ses][j] => i = j) =>
           /\ \A i \in DOMAIN cnxs'[r.ses] : cnxs'[r.ses][i] # r.cnx
           /\ \A i, j \in DOMAIN cnxs'[r.ses] : cnxs'[r.ses][i] = cnxs'[r.ses][j] => i = j
  BY <1>0, <1>1, <1>2, UnlinkDoes
<1>6. UNCHANGED <<m_sessions, m_cnx_session, m_cnxs>>
  BY <1>1 DEF UnlinkConnection, registryMaps, networkVars
<1> HIDE DEF new, e
<1>7. /\ \A u \in Threads \ {t} : Now(u)' = Now(u) /\ Now(t)' = e
  BY <1>1, <1>4 DEF Moves
<1>8. \A x \in Sessions : \A i \in DOMAIN cnxs'[x] : \E j \in DOMAIN cnxs[x] : cnxs'[x][i] = cnxs[x][j]
  BY <1>5
<1>9. UnansweredIsFresh' /\ AnswersNameSession' /\ RegistersOnce'
  <2>1. Now(t).op \in HeldOps /\ Head(new).op \in HeldOps /\ \A x \in Range(new) : x.op \in HeldOps
    BY <1>1, <1>3, <1>4 DEF HeldOps
  <2> HIDE DEF r
  <2> QED
    BY <1>0, <1>1, <1>6, <1>8, <2>1, EndCalls
<1>10. Now(t)' = e
  <2>1. Now(t)' = Head(new)
    BY <1>1, <1>4 DEF Moves
  <2> QED
    BY <1>4, <2>1
<1>11. \A u \in Threads \ {t} : Now(u)' = Now(u)
  BY <1>1 DEF Moves
<1>12. ListsAreMapped'
  <2>1. SUFFICES ASSUME NEW x \in m_sessions
                 PROVE  /\ \A i \in DOMAIN cnxs'[x] : m_cnx_session[cnxs'[x][i]] = x
                        /\ \A i, j \in DOMAIN cnxs'[x] : cnxs'[x][i] = cnxs'[x][j] => i = j
    BY <1>6 DEF ListsAreMapped
  <2>2. /\ \A i \in DOMAIN cnxs[x] : m_cnx_session[cnxs[x][i]] = x
        /\ \A i, j \in DOMAIN cnxs[x] : cnxs[x][i] = cnxs[x][j] => i = j
    BY <1>0 DEF ListsAreMapped
  <2>3. \A i \in DOMAIN cnxs'[x] : m_cnx_session[cnxs'[x][i]] = x
    BY <1>2, <1>8, <2>2
  <2>4. CASE x = r.ses
    BY <1>5, <2>2, <2>3, <2>4
  <2>5. CASE x # r.ses
    BY <1>2, <1>5, <2>2, <2>3, <2>5
  <2> QED
    BY <2>4, <2>5
<1>13. EndsHoldSession'
  BY <1>0, <1>1, <1>3, <1>6, <1>10, <1>11 DEF EndsHoldSession, HeldOps
<1>14. ListedAreEnding'
  <2>1. SUFFICES ASSUME NEW x \in m_sessions, NEW i \in DOMAIN cnxs'[x], cnxs'[x][i] \notin m_cnxs
                 PROVE  \E u \in Threads : Now(u)'.op \in {"end", "unlink"} /\ Now(u)'.cnx = cnxs'[x][i]
    BY <1>6 DEF ListedAreEnding
  <2>2. PICK j \in DOMAIN cnxs[x] : cnxs'[x][i] = cnxs[x][j]
    BY <1>2, <1>8
  <2>3. PICK u \in Threads : Now(u).op \in {"end", "unlink"} /\ Now(u).cnx = cnxs'[x][i]
    BY <1>0, <2>1, <2>2 DEF ListedAreEnding
  <2>4. ASSUME u = t PROVE FALSE
    <3>1. m_cnx_session[r.cnx] = x
      BY <1>0, <2>2, <2>3, <2>4 DEF ListsAreMapped
    <3>2. r.ses = x
      BY <1>0, <1>1, <3>1 DEF EndsHoldSession, HeldOps
    <3>3. \A a, b \in DOMAIN cnxs[r.ses] : cnxs[r.ses][a] = cnxs[r.ses][b] => a = b
      BY <1>0, <3>2 DEF ListsAreMapped
    <3> QED
      BY <1>5, <2>3, <2>4, <3>2, <3>3
  <2> QED
    BY <1>11, <2>3, <2>4
<1>15. EmptyAreClosing'
  <2>1. SUFFICES ASSUME NEW x \in m_sessions, cnxs'[x] = <<>>
                 PROVE  \E u \in Threads : /\ Now(u)'.op \in {"check", "leave", "unregister"}
                                           /\ Now(u)'.ses = x
    BY <1>6 DEF EmptyAreClosing
  <2>2. CASE x = r.ses
    BY <1>3, <1>10, <2>2
  <2>3. CASE x # r.ses
    <3>1. cnxs[x] = <<>>
      BY <1>2, <1>5, <2>1, <2>3
    <3>2. PICK u \in Threads : Now(u).op \in {"check", "leave", "unregister"} /\ Now(u).ses = x
      BY <1>0, <3>1 DEF EmptyAreClosing
    <3>3. u # t
      BY <1>1, <3>2
    <3> QED
      BY <1>11, <3>2, <3>3
  <2> QED
    BY <2>2, <2>3
<1> QED
  BY <1>9, <1>12, <1>13, <1>14, <1>15 DEF SessionsOK

(* unregister_session when the connection leads to a live session: the end *)
(* under way holds that very session, so no other one loses its entries.   *)
LEMMA ForgetSessions ==
  ASSUME BrokerInv, SessionsOK, NEW t \in Threads, Now(t) \in Pend(t), Now(t).op = "unregister",
         Now(t).cnx \in Conns, ForgetSession(Now(t).cnx), Moves(t, <<>>),
         UNCHANGED <<networkVars, crashed>>
  PROVE  SessionsOK'
<1> DEFINE r == Now(t)
           z == fetch_session_by_cnx(r.cnx)
<1>0. /\ ListsAreMapped /\ EndsHoldSession /\ ListedAreEnding /\ EmptyAreClosing
      /\ RegistryTypeOK /\ CallsOK /\ cnxs \in [Sessions -> Seq(Conns)]
      /\ m_cnx_session \in [Conns -> 0..created] /\ m_sessions \subseteq Sessions \ {Null}
  BY LiveIsSession DEF SessionsOK, BrokerInv, RegistryTypeOK
<1>1. /\ z # Null /\ m_sessions' = m_sessions \ {z}
      /\ m_cnx_session' = [d \in Conns |-> IF d \in ToSet(cnxs[z]) THEN Null ELSE m_cnx_session[d]]
      /\ UNCHANGED <<cnxs, m_cnxs>>
  BY DEF ForgetSession, networkVars
<1>2. z \in m_sessions /\ m_cnx_session[r.cnx] = z
  BY <1>1 DEF fetch_session_by_cnx, fetch_session_by_id
<1>3. r.ses = z
  BY <1>0, <1>2 DEF EndsHoldSession, HeldOps
<1> HIDE DEF z
<1>4. \A u \in Threads \ {t} : Now(u)' = Now(u)
  BY DEF Moves
<1>5. Now(t)'.op \in Later \cup {"none"}
  <2> DEFINE q == <<>>
  <2>1. q = <<>> /\ Moves(t, q)
    OBVIOUS
  <2> HIDE DEF q
  <2> QED
    BY <2>1 DEF Moves
<1>6. \A d \in Conns, x \in m_sessions' : m_cnx_session'[d] = x <=> m_cnx_session[d] = x
  <2>1. TAKE d \in Conns, x \in m_sessions'
  <2>2. x \in m_sessions /\ x # z /\ x # Null
    BY <1>0, <1>1
  <2>3. d \in ToSet(cnxs[z]) => m_cnx_session[d] = z
    BY <1>0, <1>2 DEF ListsAreMapped, ToSet
  <2> QED
    BY <1>1, <2>2, <2>3
<1>7. UnansweredIsFresh' /\ AnswersNameSession' /\ RegistersOnce'
  <2> DEFINE q == <<>>
  <2>1. q = <<>> /\ Moves(t, q) /\ \A x \in Range(q) : x.op \in HeldOps
    BY RangeOfTuples
  <2>2. \A x \in Sessions : \A i \in DOMAIN cnxs'[x] : \E j \in DOMAIN cnxs[x] : cnxs'[x][i] = cnxs[x][j]
    BY <1>1
  <2>3. \A d \in Conns : m_cnx_session[d] = Null => m_cnx_session'[d] = Null
    BY <1>1
  <2>4. Now(t).op \in HeldOps
    BY DEF HeldOps
  <2> HIDE DEF q
  <2> QED
    BY <1>0, <2>1, <2>2, <2>3, <2>4, EndCalls
<1>8. ListsAreMapped'
  <2>1. \A x \in m_sessions : \A i \in DOMAIN cnxs[x] : cnxs[x][i] \in Conns
    BY <1>0
  <2> QED
    BY <1>0, <1>1, <1>6, <2>1 DEF ListsAreMapped
<1>9. EndsHoldSession'
  <2>1. SUFFICES ASSUME NEW u \in Threads, Now(u)'.op \in HeldOps, NEW x \in m_sessions'
                 PROVE  m_cnx_session'[Now(u)'.cnx] = x <=> Now(u)'.ses = x
    BY DEF EndsHoldSession, HeldOps
  <2>2. u # t
    BY <1>5, <2>1 DEF HeldOps, Later
  <2>3. Now(u)' = Now(u) /\ Now(u).op \in HeldOps
    BY <1>4, <2>1, <2>2
  <2>4. Now(u).cnx \in Conns
    BY <1>0, <2>3, NowCases DEF HeldOps, CnxOps, AboutCnx
  <2>5. x \in m_sessions
    BY <1>1
  <2> QED
    BY <1>0, <1>6, <2>3, <2>4, <2>5 DEF EndsHoldSession, HeldOps
<1>10. ListedAreEnding'
  <2>1. SUFFICES ASSUME NEW x \in m_sessions, NEW i \in DOMAIN cnxs[x], cnxs[x][i] \notin m_cnxs
                 PROVE  \E u \in Threads : Now(u)'.op \in {"end", "unlink"} /\ Now(u)'.cnx = cnxs[x][i]
    BY <1>1 DEF ListedAreEnding
  <2>2. PICK u \in Threads : Now(u).op \in {"end", "unlink"} /\ Now(u).cnx = cnxs[x][i]
    BY <1>0, <2>1 DEF ListedAreEnding
  <2> QED
    BY <1>4, <2>2
<1>11. EmptyAreClosing'
  <2>1. SUFFICES ASSUME NEW x \in m_sessions, x # z, cnxs[x] = <<>>
                 PROVE  \E u \in Threads : /\ Now(u)'.op \in {"check", "leave", "unregister"}
                                           /\ Now(u)'.ses = x
    BY <1>1 DEF EmptyAreClosing
  <2>2. PICK u \in Threads : Now(u).op \in {"check", "leave", "unregister"} /\ Now(u).ses = x
    BY <1>0, <2>1 DEF EmptyAreClosing
  <2> QED
    BY <1>3, <1>4, <2>1, <2>2
<1> QED
  BY <1>7, <1>8, <1>9, <1>10, <1>11 DEF SessionsOK

-----------------------------------------------------------------------------

(* A call that a step may add when it only writes, or waits to.            *)
PlainCall(t, a) == WritesWell(t, a) /\ a.op \notin HeldOps \cup {"register", "end"}

(* A step that leaves the connections, their sockets and the registry      *)
(* alone, and is no part of an end.                                        *)
PlainStep(t) ==
  /\ UNCHANGED <<sessionVars, m_cnxs, socket, told, crashed>>
  /\ Now(t) \in Pend(t) /\ Now(t).op \notin HeldOps \cup {"end"}
  /\ Now(t).op = "write" => Now(t).cnx \in Conns /\ (Now(t).cnx \notin m_cnxs \/ socket[Now(t).cnx] # "open")

LEMMA PlainMoves ==
  ASSUME FullInv, NEW t \in Threads, PlainStep(t), NEW new, Moves(t, new),
         \A a \in Range(new) : PlainCall(t, a), new = <<>> \/ PlainCall(t, Head(new))
  PROVE  SessionsOK'
<1>0. BrokerInv /\ SessionsOK /\ CallsOK /\ AcceptedOnce /\ OpenIsRegistered
      /\ socket \in [Conns -> {"new", "open", "closed"}]
  BY DEF FullInv, SocketsOK, BrokerInv, BrokerTypeOK
<1>1. Now(t)'.op \notin HeldOps \cup {"register", "end"}
  BY DEF Moves, PlainCall, Later, HeldOps
<1>2. Now(t).op = "write" => socket'[Now(t).cnx] = "closed"
  <2>1. SUFFICES ASSUME Now(t).op = "write" PROVE socket[Now(t).cnx] = "closed"
    BY DEF PlainStep
  <2>2. Now(t).cnx \in Conns /\ (Now(t).cnx \notin m_cnxs \/ socket[Now(t).cnx] # "open") /\ Now(t) \in Pend(t)
    BY <2>1 DEF PlainStep
  <2>3. socket[Now(t).cnx] # "new"
    BY <1>0, <2>1, <2>2 DEF AcceptedOnce, AboutCnx
  <2> QED
    BY <1>0, <2>2, <2>3 DEF OpenIsRegistered
<1>3. KeepsSessions(t, new)
  BY <1>1, <1>2 DEF KeepsSessions, PlainStep, PlainCall, HeldOps
<1> QED
  BY <1>0, <1>3, KeepsSessionsWell

LEMMA PlainSessions ==
  ASSUME FullInv, NEW t \in Threads, PlainStep(t),
         \/ Moves(t, <<>>)
         \/ \E a : Moves(t, <<a>>) /\ PlainCall(t, a)
         \/ \E a, b : Moves(t, <<a, b>>) /\ PlainCall(t, a) /\ PlainCall(t, b)
  PROVE  SessionsOK'
<1>1. CASE Moves(t, <<>>)
  <2> DEFINE q == <<>>
  <2>1. q = <<>> /\ Moves(t, q) /\ \A x \in Range(q) : PlainCall(t, x)
    BY <1>1, RangeOfTuples
  <2> HIDE DEF q
  <2> QED
    BY <2>1, PlainMoves
<1>2. ASSUME NEW a, Moves(t, <<a>>), PlainCall(t, a) PROVE SessionsOK'
  <2> DEFINE q == <<a>>
  <2>1. Head(q) = a /\ Moves(t, q) /\ \A x \in Range(q) : PlainCall(t, x)
    BY <1>2, RangeOfTuples
  <2> HIDE DEF q
  <2> QED
    BY <1>2, <2>1, PlainMoves
<1>3. ASSUME NEW a, NEW b, Moves(t, <<a, b>>), PlainCall(t, a), PlainCall(t, b) PROVE SessionsOK'
  <2> DEFINE q == <<a, b>>
  <2>1. Head(q) = a /\ Moves(t, q) /\ \A x \in Range(q) : PlainCall(t, x)
    BY <1>3, RangeOfTuples
  <2> HIDE DEF q
  <2> QED
    BY <1>3, <2>1, PlainMoves
<1> QED
  BY <1>1, <1>2, <1>3

(* The calls of the handlers, which are plain.                             *)
LEMMA PlainCalls ==
  ASSUME RegistryTypeOK, NEW t \in Threads
  PROVE  /\ \A s, x : PlainCall(t, Copies(s, x)) /\ PlainCall(t, ToFront(s, x))
         /\ \A c, k, s, b : k # "CONNECTED" /\ t = ServerOf(c) => PlainCall(t, Write(c, k, s, b))
         /\ \A y \in Sessions : \A k, s, b : k # "CONNECTED" /\ cnxs[y] # <<>> =>
              PlainCall(t, Write(Head(cnxs[y]), k, s, b))
<1>1. \A s, x : PlainCall(t, Copies(s, x)) /\ PlainCall(t, ToFront(s, x))
  BY DEF PlainCall, WritesWell, Copies, ToFront, HeldOps
<1>2. ASSUME NEW c, NEW k, NEW s, NEW b, k # "CONNECTED",
             t = ServerOf(c) \/ \E y \in Sessions : \E i \in DOMAIN cnxs[y] : cnxs[y][i] = c
      PROVE  PlainCall(t, Write(c, k, s, b))
  <2> DEFINE w == Write(c, k, s, b)
  <2>1. w.op = "write" /\ w.cnx = c /\ w.kind = k
    BY DEF Write
  <2> HIDE DEF w
  <2>2. PlainCall(t, w)
    BY <1>2, <2>1 DEF PlainCall, WritesWell, HeldOps
  <2> QED
    BY <2>2 DEF w
<1>3. ASSUME NEW y \in Sessions, cnxs[y] # <<>>
      PROVE  \E i \in DOMAIN cnxs[y] : cnxs[y][i] = Head(cnxs[y])
  BY <1>3, FrontType
<1>4. \A c, k, s, b : k # "CONNECTED" /\ t = ServerOf(c) => PlainCall(t, Write(c, k, s, b))
  BY <1>2
<1>5. \A y \in Sessions : \A k, s, b : k # "CONNECTED" /\ cnxs[y] # <<>> =>
        PlainCall(t, Write(Head(cnxs[y]), k, s, b))
  BY <1>2, <1>3
<1> QED
  BY <1>1, <1>4, <1>5

LEMMA PlainThreadSessions ==
  ASSUME FullInv, NEW t \in Threads,
         \/ Reread(t) \/ RegisterRefused(t) \/ SendToFront(t) \/ StartCopies(t) \/ SendCopy(t)
         \/ AskSubscription(t) \/ AskUnsubscription(t) \/ WriteDropped(t) \/ Unlock(t)
         \/ CloseThrows(t)
  PROVE  SessionsOK'
<1> DEFINE r == Now(t)
<1>0. /\ BrokerInv /\ RegistryTypeOK /\ SubscriptionTypeOK /\ CallsOK /\ SessionsOK
      /\ \A x \in 0..created : x \in Sessions
  BY CreatedFacts DEF FullInv, BrokerInv
<1>1. CASE Reread(t)
  <2>1. /\ r \in Pend(t) /\ r.op = "read" /\ Moves(t, <<>>)
        /\ UNCHANGED <<allVars, m_cnxs, socket, told, crashed>>
    BY <1>0, <1>1, RereadDoes
  <2>2. PlainStep(t)
    BY <2>1 DEF PlainStep, allVars, HeldOps
  <2> QED
    BY <2>1, <2>2, PlainSessions
<1>2. CASE RegisterRefused(t)
  <2> DEFINE e == Write(r.cnx, "ERROR", Null, TRUE)
  <2>1. /\ ~crashed /\ r \in Pend(t) /\ r.op = "register" /\ r.cnx \in Conns /\ Moves(t, <<e>>)
        /\ UNCHANGED <<sessionVars, networkVars, crashed>>
    BY <1>0, <1>2, RegisterRefusedDoes
  <2>2. PlainStep(t)
    BY <2>1 DEF PlainStep, networkVars, HeldOps
  <2>3. t = ServerOf(r.cnx)
    BY <1>0, <2>1, RegisteringIsFresh
  <2>4. PlainCall(t, e)
    BY <1>0, <2>3, PlainCalls
  <2> HIDE DEF e
  <2> QED
    BY <2>1, <2>2, <2>4, PlainSessions
<1>3. CASE SendToFront(t)
  <2>1. /\ ~crashed /\ r \in Pend(t) /\ r.op = "front" /\ r.ses \in Sessions
        /\ UNCHANGED <<allVars, networkVars>>
        /\ \/ crashed' = TRUE /\ UNCHANGED todo
           \/ UNCHANGED crashed /\ Moves(t, <<>>)
           \/ /\ UNCHANGED crashed /\ cnxs[r.ses] # <<>> /\ r.kind \in {"MESSAGE", "ACK"}
              /\ Moves(t, <<Write(Head(cnxs[r.ses]), r.kind, r.ses, FALSE)>>)
    BY <1>0, <1>3, SendToFrontDoes
  <2>2. CASE crashed' = TRUE /\ UNCHANGED todo
    BY <1>0, <2>1, <2>2, StillSessions DEF allVars, networkVars
  <2>3. CASE UNCHANGED crashed
    <3>1. PlainStep(t)
      BY <2>1, <2>3 DEF PlainStep, allVars, networkVars, HeldOps
    <3>2. CASE Moves(t, <<>>)
      BY <3>1, <3>2, PlainSessions
    <3>3. CASE /\ cnxs[r.ses] # <<>> /\ r.kind \in {"MESSAGE", "ACK"}
               /\ Moves(t, <<Write(Head(cnxs[r.ses]), r.kind, r.ses, FALSE)>>)
      <4>1. PlainCall(t, Write(Head(cnxs[r.ses]), r.kind, r.ses, FALSE))
        BY <1>0, <2>1, <3>3, PlainCalls
      <4> QED
        BY <3>1, <3>3, <4>1, PlainSessions
    <3>4. CASE crashed' = TRUE /\ UNCHANGED todo
      BY <2>2, <3>4
    <3> QED
      BY <2>1, <2>3, <3>2, <3>3, <3>4
  <2> QED
    BY <2>1, <2>2, <2>3
<1>4. CASE StartCopies(t)
  <2>1. /\ r \in Pend(t) /\ r.op = "copy" /\ Moves(t, <<Copies(r.ses, subscribers[r.ses])>>)
        /\ UNCHANGED <<allVars, networkVars, crashed>>
    BY <1>0, <1>4, StartCopiesDoes
  <2>2. PlainStep(t)
    BY <2>1 DEF PlainStep, allVars, networkVars, HeldOps
  <2>3. PlainCall(t, Copies(r.ses, subscribers[r.ses]))
    BY <1>0, PlainCalls
  <2> QED
    BY <2>1, <2>2, <2>3, PlainSessions
<1>5. CASE SendCopy(t)
  <2>1. /\ r \in Pend(t) /\ r.op = "copies" /\ UNCHANGED <<allVars, networkVars, crashed>>
        /\ \/ Moves(t, <<>>)
           \/ \E left \in SUBSET r.left :
                \/ Moves(t, <<Copies(r.ses, left)>>)
                \/ \E s \in 0..created : Moves(t, <<ToFront(s, "MESSAGE"), Copies(r.ses, left)>>)
    BY <1>0, <1>5, SendCopyDoes
  <2>2. PlainStep(t)
    BY <2>1 DEF PlainStep, allVars, networkVars, HeldOps
  <2>3. ASSUME NEW left, Moves(t, <<Copies(r.ses, left)>>) PROVE SessionsOK'
    <3>1. PlainCall(t, Copies(r.ses, left))
      BY <1>0, PlainCalls
    <3> QED
      BY <2>2, <2>3, <3>1, PlainSessions
  <2>4. ASSUME NEW left, NEW s,
               Moves(t, <<ToFront(s, "MESSAGE"), Copies(r.ses, left)>>)
        PROVE  SessionsOK'
    <3> DEFINE a == ToFront(s, "MESSAGE")
               b == Copies(r.ses, left)
    <3>1. PlainCall(t, a) /\ PlainCall(t, b)
      BY <1>0, PlainCalls
    <3>2. Moves(t, <<a, b>>)
      BY <2>4
    <3> HIDE DEF a, b
    <3> QED
      BY <2>2, <3>1, <3>2, PlainSessions
  <2>5. CASE Moves(t, <<>>)
    BY <2>2, <2>5, PlainSessions
  <2> QED
    BY <2>1, <2>3, <2>4, <2>5
<1>6. CASE AskSubscription(t) \/ AskUnsubscription(t)
  <2>1. /\ r \in Pend(t) /\ r.op \in {"subscribe", "unsubscribe"} /\ Moves(t, <<>>)
        /\ UNCHANGED <<sessionVars, networkVars, crashed>>
    BY <1>0, <1>6, AskDoes
  <2>2. PlainStep(t)
    BY <2>1 DEF PlainStep, networkVars, HeldOps
  <2> QED
    BY <2>1, <2>2, PlainSessions
<1>7. CASE WriteDropped(t)
  <2>1. /\ r \in Pend(t) /\ r.op = "write" /\ r.cnx \in Conns
        /\ r.cnx \notin m_cnxs \/ socket[r.cnx] # "open"
        /\ Moves(t, <<>>) /\ UNCHANGED <<allVars, networkVars, crashed>>
    BY <1>0, <1>7, WriteDroppedDoes
  <2>2. PlainStep(t)
    BY <2>1 DEF PlainStep, allVars, networkVars, HeldOps
  <2> QED
    BY <2>1, <2>2, PlainSessions
<1>8. CASE Unlock(t)
  <2>1. r \in Pend(t) /\ r.op = "unlock" /\ Moves(t, <<>>) /\ UNCHANGED <<allVars, networkVars, crashed>>
    BY <1>0, <1>8, UnlockDoes
  <2>2. PlainStep(t)
    BY <2>1 DEF PlainStep, allVars, networkVars, HeldOps
  <2> QED
    BY <2>1, <2>2, PlainSessions
<1>9. CASE CloseThrows(t)
  <2>1. ~crashed /\ crashed' = TRUE /\ UNCHANGED <<allVars, networkVars, todo>>
    BY <1>0, <1>9, CloseThrowsDoes
  <2> QED
    BY <1>0, <2>1, StillSessions DEF allVars, networkVars
<1> QED
  BY <1>1, <1>2, <1>3, <1>4, <1>5, <1>6, <1>7, <1>8, <1>9


LEMMA RegisterNewSessions ==
  ASSUME FullInv, NEW t \in Threads, RegisterNew(t)
  PROVE  SessionsOK'
<1> DEFINE c == Now(t).cnx
           s == NewId
           a == Write(c, "CONNECTED", s, FALSE)
           new == <<a>>
<1>0. BrokerInv /\ SocketsOK /\ SessionsOK /\ RegistryTypeOK /\ CallsOK /\ created \in Nat
  BY CreatedFacts DEF FullInv, BrokerInv
<1>1. /\ ~crashed /\ Now(t).op = "register" /\ c \in Conns /\ s \in Sessions
      /\ OpenSession(c, Now(t).login, Now(t).profile)
      /\ Moves(t, new) /\ UNCHANGED <<networkVars, crashed>>
  BY <1>0, RegisterNewDoes
<1>2. /\ m_sessions' = m_sessions \cup {s} /\ m_cnx_session' = [m_cnx_session EXCEPT ![c] = s]
      /\ s > created /\ s # Null
  BY <1>0, <1>1 DEF OpenSession, NewId, Null
<1>3. cnxs'[s] = <<c>> /\ \A x \in Sessions \ {s} : cnxs'[x] = cnxs[x]
  BY <1>0, <1>1, OpenSessionLists
<1>4. /\ cnxs'[s] # <<>> /\ \A i \in DOMAIN cnxs'[s] : i = 1 /\ cnxs'[s][i] = c
  BY <1>3
<1>5. JoinLists(c, s)
  BY <1>2, <1>3, <1>4 DEF JoinLists
<1>6. a.op = "write" /\ a.cnx = c /\ a.kind = "CONNECTED" /\ a.ses = s
  BY DEF Write
<1> HIDE DEF a
<1>7. new # <<>> /\ Head(new) = a /\ a \in Range(new) /\ \A x \in Range(new) : x = a
  BY RangeOfTuples DEF Range
<1> HIDE DEF new
<1>8. JoinCalls(t, c, s, new)
  BY <1>1, <1>2, <1>6, <1>7 DEF JoinCalls
<1>9. \A u \in Threads : Now(u)' = Now(u) \/ (u = t /\ Now(u)'.op = "write")
  BY <1>1, <1>6, <1>7 DEF Moves
<1>10. UNCHANGED m_cnxs
  BY <1>1 DEF networkVars
<1> HIDE DEF s
<1>11. UnansweredIsFresh' /\ AnswersNameSession' /\ RegistersOnce'
  BY <1>0, <1>1, <1>5, <1>8, JoinCallsWell
<1>12. ListsAreMapped' /\ EndsHoldSession' /\ ListedAreEnding' /\ EmptyAreClosing'
  BY <1>0, <1>1, <1>2, <1>4, <1>5, <1>9, <1>10, JoinListsWell
<1> QED
  BY <1>11, <1>12 DEF SessionsOK

LEMMA RegisterAgainSessions ==
  ASSUME FullInv, NEW t \in Threads, RegisterAgain(t)
  PROVE  SessionsOK'
<1> DEFINE r == Now(t)
           c == r.cnx
           s == m_login_session[r.login]
           a == Write(c, "CONNECTED", s, FALSE)
           e == Write(Head(cnxs[s]), "ERROR", Null, TRUE)
<1>0. /\ BrokerInv /\ SocketsOK /\ SessionsOK /\ RegistryTypeOK /\ CallsOK
      /\ cnxs \in [Sessions -> Seq(Conns)]
  BY DEF FullInv, BrokerInv, RegistryTypeOK
<1>1. /\ ~crashed /\ r.op = "register" /\ c \in Conns /\ s \in Sessions
      /\ TakeOverSession(c, r.login, r.profile) /\ UNCHANGED networkVars
      /\ \/ crashed' = TRUE /\ UNCHANGED todo
         \/ UNCHANGED crashed /\ cnxs[s] = <<>> /\ Moves(t, <<a>>)
         \/ UNCHANGED crashed /\ cnxs[s] # <<>> /\ Moves(t, <<e, a>>)
  BY <1>0, RegisterAgainDoes DEF networkVars
<1>2. /\ s # Null /\ cnxs' = [cnxs EXCEPT ![s] = Append(@, c)] /\ UNCHANGED m_sessions
      /\ m_cnx_session' = [m_cnx_session EXCEPT ![c] = s]
  BY <1>1 DEF TakeOverSession, RegisterOutcome, registryMaps
<1>3. a.op = "write" /\ a.cnx = c /\ a.kind = "CONNECTED" /\ a.ses = s
  BY DEF Write
<1>4. e.op = "write" /\ e.cnx = Head(cnxs[s]) /\ e.kind = "ERROR"
  BY DEF Write
<1>5. cnxs[s] # <<>> => \E i \in DOMAIN cnxs[s] : cnxs[s][i] = e.cnx
  BY <1>0, <1>1, <1>4, FrontType
<1> HIDE DEF a, e, s
<1>6. /\ \A x \in Sessions \ {s} : cnxs'[x] = cnxs[x]
      /\ cnxs'[s] \in Seq(Conns) /\ Len(cnxs'[s]) = Len(cnxs[s]) + 1
      /\ cnxs'[s][Len(cnxs[s]) + 1] = c
      /\ \A i \in DOMAIN cnxs[s] : i \in DOMAIN cnxs'[s] /\ cnxs'[s][i] = cnxs[s][i]
      /\ \A i \in DOMAIN cnxs'[s] : i = Len(cnxs[s]) + 1 \/ i \in DOMAIN cnxs[s]
  BY <1>0, <1>1, <1>2, TakeOverLists
<1>7. JoinLists(c, s)
  <2>1. \A i \in DOMAIN cnxs'[s] :
          cnxs'[s][i] = c \/ (i \in DOMAIN cnxs[s] /\ cnxs'[s][i] = cnxs[s][i])
    BY <1>6
  <2> QED
    BY <1>2, <1>6, <2>1 DEF JoinLists
<1>8. cnxs'[s] # <<>>
  <2>1. Len(cnxs[s]) \in Nat
    BY <1>0, <1>1
  <2> QED
    BY <1>6, <2>1
<1>9. \A i, j \in DOMAIN cnxs'[s] : cnxs'[s][i] = c /\ cnxs'[s][j] = c => i = j
  <2>1. \A i \in DOMAIN cnxs[s] : cnxs[s][i] # c
    BY <1>0, <1>1, RegisteringIsFresh DEF Fresh
  <2>2. \A i \in DOMAIN cnxs'[s] : cnxs'[s][i] = c => i = Len(cnxs[s]) + 1
    BY <1>6, <2>1
  <2> QED
    BY <2>2
<1>10. UNCHANGED m_cnxs
  BY <1>1 DEF networkVars
<1>11. ASSUME \A u \in Threads : Now(u)' = Now(u) \/ (u = t /\ Now(u)'.op = "write")
       PROVE  ListsAreMapped' /\ EndsHoldSession' /\ ListedAreEnding' /\ EmptyAreClosing'
  BY <1>0, <1>1, <1>2, <1>7, <1>8, <1>9, <1>10, <1>11, JoinListsWell
<1>12. CASE crashed' = TRUE /\ UNCHANGED todo
  <2>1. \A u \in Threads : Pend(u)' = Pend(u) /\ Now(u)' = Now(u)
    BY <1>12 DEF Pend, Now
  <2>2. UnansweredIsFresh' /\ AnswersNameSession' /\ RegistersOnce'
    BY <1>0, <1>12, <2>1
       DEF SessionsOK, UnansweredIsFresh, AnswersNameSession, RegistersOnce
  <2> QED
    BY <1>11, <2>1, <2>2 DEF SessionsOK
<1>13. ASSUME NEW new, UNCHANGED crashed, Moves(t, new), new # <<>>, Head(new).op = "write",
              a \in Range(new), \A x \in Range(new) : x = a \/ (x = e /\ cnxs[s] # <<>>)
       PROVE  SessionsOK'
  <2>1. JoinCalls(t, c, s, new)
    <3>1. \A x \in Range(new) : x.op = "write" /\
            \/ x.cnx = c /\ x.ses # Null
            \/ x.kind # "CONNECTED" /\ \E i \in DOMAIN cnxs[s] : cnxs[s][i] = x.cnx
      BY <1>2, <1>3, <1>4, <1>5, <1>13
    <3>2. \E x \in Range(new) : x.op = "write" /\ x.cnx = c /\ x.kind = "CONNECTED"
      BY <1>3, <1>13
    <3> QED
      BY <1>1, <1>13, <3>1, <3>2 DEF JoinCalls
  <2>2. \A u \in Threads : Now(u)' = Now(u) \/ (u = t /\ Now(u)'.op = "write")
    BY <1>13 DEF Moves
  <2>3. UnansweredIsFresh' /\ AnswersNameSession' /\ RegistersOnce'
    BY <1>0, <1>1, <1>7, <2>1, JoinCallsWell
  <2> QED
    BY <1>11, <2>2, <2>3 DEF SessionsOK
<1>14. CASE UNCHANGED crashed /\ cnxs[s] = <<>> /\ Moves(t, <<a>>)
  <2> DEFINE q == <<a>>
  <2>1. q # <<>> /\ Head(q) = a /\ a \in Range(q) /\ \A x \in Range(q) : x = a
    BY RangeOfTuples DEF Range
  <2>2. Moves(t, q)
    BY <1>14
  <2> HIDE DEF q
  <2> QED
    BY <1>3, <1>13, <1>14, <2>1, <2>2
<1>15. CASE UNCHANGED crashed /\ cnxs[s] # <<>> /\ Moves(t, <<e, a>>)
  <2> DEFINE q == <<e, a>>
  <2>1. q # <<>> /\ Head(q) = e /\ a \in Range(q) /\ \A x \in Range(q) : x = e \/ x = a
    BY RangeOfTuples DEF Range
  <2>2. Moves(t, q)
    BY <1>15
  <2> HIDE DEF q
  <2> QED
    BY <1>4, <1>13, <1>15, <2>1, <2>2
<1> QED
  BY <1>1, <1>12, <1>14, <1>15

LEMMA WriteSessions ==
  ASSUME FullInv, NEW t \in Threads, WriteOk(t) \/ WriteFails(t)
  PROVE  SessionsOK'
<1> DEFINE r == Now(t)
<1>0. BrokerInv /\ SessionsOK /\ CallsOK /\ AnswersNameSession
      /\ socket \in [Conns -> {"new", "open", "closed"}] /\ told \in [Conns -> 0..created]
  BY DEF FullInv, BrokerInv, BrokerTypeOK, SessionsOK
<1>1. /\ r \in Pend(t) /\ r.op = "write" /\ r.cnx \in Conns
      /\ UNCHANGED <<allVars, m_cnxs, crashed>>
      /\ \/ UNCHANGED told
         \/ r.kind = "CONNECTED" /\ told' = [told EXCEPT ![r.cnx] = r.ses]
      /\ \/ WriteCloses(t)
         \/ /\ UNCHANGED socket /\ Moves(t, <<>>)
            /\ r.kind = "CONNECTED" => told' = [told EXCEPT ![r.cnx] = r.ses]
  BY <1>0, WriteDoes
<1>2. r.kind = "CONNECTED" => r.ses # Null
  BY <1>0, <1>1 DEF AnswersNameSession
<1>3. /\ \A d \in Conns \ {r.cnx} : told'[d] = told[d]
      /\ \A d \in Conns : told'[d] = Null => told[d] = Null
  BY <1>0, <1>1, <1>2
<1> HIDE DEF r
<1>4. ASSUME NEW new, Moves(t, new),
             \/ UNCHANGED socket /\ (r.kind = "CONNECTED" => told' = [told EXCEPT ![r.cnx] = r.ses])
             \/ socket' = [socket EXCEPT ![r.cnx] = "closed"],
             \A x \in Range(new) : x.op \in {"drop", "unlock"},
             Now(t)'.op \notin HeldOps \cup {"register"}
      PROVE  SessionsOK'
  <2>1. /\ \A d \in Conns \ {r.cnx} : socket'[d] = socket[d]
        /\ \A d \in Conns : socket'[d] # "closed" => socket[d] # "closed"
    BY <1>0, <1>4
  <2>2. r.kind = "CONNECTED" => told'[r.cnx] # Null \/ socket'[r.cnx] = "closed"
    BY <1>0, <1>1, <1>2, <1>4
  <2>3. \A x \in Range(new) : WritesWell(t, x)
    BY <1>4 DEF WritesWell
  <2>4. UNCHANGED <<sessionVars, m_cnxs, crashed>>
    BY <1>1 DEF allVars
  <2>5. KeepsSessions(t, new)
    BY <1>1, <1>3, <1>4, <2>1, <2>2, <2>3, <2>4 DEF KeepsSessions, r
  <2> QED
    BY <1>0, <2>5, KeepsSessionsWell
<1>5. CASE WriteCloses(t)
  <2> DEFINE q == Close(r.cnx)
  <2>1. socket' = [socket EXCEPT ![r.cnx] = "closed"] /\ Moves(t, q)
    BY <1>5 DEF WriteCloses, r
  <2>2. q # <<>> /\ Head(q).op = "drop" /\ \A x \in Range(q) : x.op \in {"drop", "unlock"}
    BY RangeOfTuples DEF Close, Call
  <2> HIDE DEF q
  <2>3. Now(t)'.op = "drop"
    BY <2>1, <2>2 DEF Moves
  <2>4. Now(t)'.op \notin HeldOps \cup {"register"}
    BY <2>3 DEF HeldOps
  <2> QED
    BY <1>4, <2>1, <2>2, <2>4
<1>6. CASE /\ UNCHANGED socket /\ Moves(t, <<>>)
           /\ r.kind = "CONNECTED" => told' = [told EXCEPT ![r.cnx] = r.ses]
  <2> DEFINE q == <<>>
  <2>1. q = <<>> /\ Moves(t, q) /\ \A x \in Range(q) : x.op \in {"drop", "unlock"}
    BY <1>6, RangeOfTuples
  <2> HIDE DEF q
  <2>2. Now(t)'.op \notin HeldOps \cup {"register"}
    BY <2>1 DEF Moves, Later, HeldOps
  <2> QED
    BY <1>4, <1>6, <2>1, <2>2
<1> QED
  BY <1>1, <1>5, <1>6 DEF r


LEMMA DropSessions ==
  ASSUME FullInv, NEW t \in Threads, Drop(t)
  PROVE  SessionsOK'
<1> DEFINE c == Now(t).cnx
<1>0. BrokerInv /\ SessionsOK /\ CallsOK
  BY DEF FullInv, BrokerInv
<1>1. /\ Now(t).op = "drop" /\ c \in Conns /\ m_cnxs' = m_cnxs \ {c}
      /\ UNCHANGED <<sessionVars, socket, told, crashed>>
      /\ IF c \in m_cnxs THEN Moves(t, <<Call("end", c, Null)>>) ELSE Moves(t, <<>>)
  BY <1>0, DropDoes DEF allVars
<1>2. ASSUME NEW new, Moves(t, new), \A x \in Range(new) : x.op = "end",
             c \in m_cnxs => Now(t)'.op = "end" /\ Now(t)'.cnx = c,
             Now(t)'.op \notin HeldOps \cup {"register"}
      PROVE  SessionsOK'
  <2>1. \A x \in Range(new) : WritesWell(t, x)
    BY <1>2 DEF WritesWell
  <2>2. \A d \in m_cnxs : d \in m_cnxs' \/ (Now(t)'.op = "end" /\ Now(t)'.cnx = d)
    BY <1>1, <1>2
  <2>3. KeepsSessions(t, new)
    BY <1>1, <1>2, <2>1, <2>2 DEF KeepsSessions
  <2> QED
    BY <1>0, <2>3, KeepsSessionsWell
<1>3. CASE c \in m_cnxs /\ Moves(t, <<Call("end", c, Null)>>)
  <2> DEFINE e == Call("end", c, Null)
             q == <<e>>
  <2>1. e.op = "end" /\ e.cnx = c
    BY DEF Call
  <2>2. q # <<>> /\ Head(q) = e /\ \A x \in Range(q) : x = e
    BY RangeOfTuples
  <2>3. Moves(t, q)
    BY <1>3
  <2> HIDE DEF e, q
  <2>4. Now(t)' = e
    BY <2>2, <2>3 DEF Moves
  <2>5. Now(t)'.op \notin HeldOps \cup {"register"}
    BY <2>1, <2>4 DEF HeldOps
  <2> QED
    BY <1>2, <2>1, <2>2, <2>3, <2>4, <2>5
<1>4. CASE c \notin m_cnxs /\ Moves(t, <<>>)
  <2> DEFINE q == <<>>
  <2>1. q = <<>> /\ Moves(t, q) /\ \A x \in Range(q) : x.op = "end"
    BY <1>4, RangeOfTuples
  <2> HIDE DEF q
  <2>2. Now(t)'.op \notin HeldOps \cup {"register"}
    BY <2>1 DEF Moves, Later, HeldOps
  <2> QED
    BY <1>2, <1>4, <2>1, <2>2
<1> QED
  BY <1>1, <1>3, <1>4

(* A step of an end that leaves the registry alone: it goes on with a call *)
(* about the same connection.                                              *)
LEMMA EndStepSessions ==
  ASSUME FullInv, NEW t \in Threads, UNCHANGED <<sessionVars, m_cnxs, socket, told, crashed>>,
         NEW new, Moves(t, new), \A x \in Range(new) : x.op \in HeldOps,
         Now(t).op \in HeldOps \cup {"end"}, Now(t)'.op # "register",
         Now(t)'.op \in HeldOps =>
           \A s \in m_sessions : m_cnx_session[Now(t)'.cnx] = s <=> Now(t)'.ses = s,
         Now(t).op \in {"end", "unlink"} => Now(t)'.op = "unlink" /\ Now(t)'.cnx = Now(t).cnx,
         Now(t).op \in {"check", "leave", "unregister"} =>
           \A s \in m_sessions : Now(t).ses = s /\ cnxs[s] = <<>> =>
             Now(t)'.op \in {"check", "leave", "unregister"} /\ Now(t)'.ses = s
  PROVE  SessionsOK'
<1>1. \A x \in Range(new) : WritesWell(t, x)
  BY DEF WritesWell, HeldOps
<1>2. Now(t).op # "write"
  BY DEF HeldOps
<1>3. KeepsSessions(t, new)
  BY <1>1, <1>2 DEF KeepsSessions
<1> QED
  BY <1>3, KeepsSessionsWell DEF FullInv

LEMMA EndThreadSessions ==
  ASSUME FullInv, NEW t \in Threads,
         EndFetch(t) \/ EndCheck(t) \/ EndLeave(t) \/ EndUnregister(t)
  PROVE  SessionsOK'
<1> DEFINE r == Now(t)
<1>0. /\ BrokerInv /\ SessionsOK /\ RegistryTypeOK /\ CallsOK /\ EndsHoldSession
      /\ m_sessions \subseteq Sessions \ {Null}
  BY LiveIsSession DEF FullInv, BrokerInv, SessionsOK
<1>1. CASE EndFetch(t)
  <2> DEFINE e == Call("unlink", r.cnx, fetch_session_by_cnx(r.cnx))
             q == <<e>>
  <2>1. /\ r.op = "end" /\ r.cnx \in Conns /\ Moves(t, q) /\ UNCHANGED <<allVars, networkVars, crashed>>
    BY <1>0, <1>1, EndFetchDoes
  <2>2. e.op = "unlink" /\ e.cnx = r.cnx /\ e.ses = fetch_session_by_cnx(r.cnx)
    BY DEF Call
  <2>3. \A s \in m_sessions : m_cnx_session[r.cnx] = s <=> e.ses = s
    BY <1>0, <2>2 DEF fetch_session_by_cnx, fetch_session_by_id
  <2>4. q # <<>> /\ Head(q) = e /\ \A x \in Range(q) : x = e
    BY RangeOfTuples
  <2> HIDE DEF e, q
  <2>5. Now(t)' = e
    BY <2>1, <2>4 DEF Moves
  <2>6. UNCHANGED <<sessionVars, m_cnxs, socket, told, crashed>>
    BY <2>1 DEF allVars, networkVars
  <2>7. \A x \in Range(q) : x.op \in HeldOps
    BY <2>2, <2>4 DEF HeldOps
  <2>8. Now(t)'.op = "unlink" /\ Now(t)'.cnx = Now(t).cnx
        /\ \A s \in m_sessions : m_cnx_session[Now(t)'.cnx] = s <=> Now(t)'.ses = s
    BY <2>2, <2>3, <2>5
  <2> HIDE <2>2, <2>3, <2>4, <2>5
  <2> QED
    BY <2>1, <2>6, <2>7, <2>8, EndStepSessions
<1>2. CASE EndCheck(t)
  <2> DEFINE a == Call("leave", r.cnx, r.ses)
             b == Call("unregister", r.cnx, r.ses)
             q == <<a, b>>
  <2>1. /\ r.op = "check" /\ r.cnx \in Conns /\ UNCHANGED <<allVars, networkVars, crashed>>
        /\ IF cnxs[r.ses] = <<>> THEN Moves(t, q) ELSE Moves(t, <<>>)
    BY <1>0, <1>2, EndCheckDoes
  <2>2. a.op = "leave" /\ a.cnx = r.cnx /\ a.ses = r.ses /\ b.op = "unregister"
    BY DEF Call
  <2>3. \A s \in m_sessions : m_cnx_session[r.cnx] = s <=> r.ses = s
    BY <1>0, <2>1 DEF EndsHoldSession, HeldOps
  <2>4. q # <<>> /\ Head(q) = a /\ \A x \in Range(q) : x = a \/ x = b
    BY RangeOfTuples
  <2> HIDE DEF a, b, q
  <2>5. UNCHANGED <<sessionVars, m_cnxs, socket, told, crashed>>
    BY <2>1 DEF allVars, networkVars
  <2>6. CASE Moves(t, q)
    <3>1. Now(t)' = a
      BY <2>4, <2>6 DEF Moves
    <3>2. \A x \in Range(q) : x.op \in HeldOps
      BY <2>2, <2>4 DEF HeldOps
    <3>3. Now(t)'.op = "leave" /\ Now(t)'.ses = Now(t).ses
          /\ \A s \in m_sessions : m_cnx_session[Now(t)'.cnx] = s <=> Now(t)'.ses = s
      BY <2>2, <2>3, <3>1
    <3>4. Now(t).op \in HeldOps
      BY <2>1 DEF HeldOps
    <3> QED
      BY <2>1, <2>5, <2>6, <3>2, <3>3, <3>4, EndStepSessions
  <2>7. CASE cnxs[r.ses] # <<>> /\ Moves(t, <<>>)
    <3> DEFINE z == <<>>
    <3>1. z = <<>> /\ Moves(t, z) /\ \A x \in Range(z) : x.op \in HeldOps
      BY <2>7, RangeOfTuples
    <3> HIDE DEF z
    <3>2. Now(t)'.op \notin HeldOps \cup {"register"} /\ Now(t).op \in HeldOps
      BY <2>1, <3>1 DEF Moves, Later, HeldOps
    <3> QED
      BY <2>1, <2>5, <2>7, <3>1, <3>2, EndStepSessions
  <2> QED
    BY <2>1, <2>6, <2>7
<1>3. CASE EndLeave(t)
  <2> DEFINE e == Call("unregister", r.cnx, r.ses)
             q == <<e>>
  <2>1. /\ r.op = "leave" /\ r.cnx \in Conns /\ Moves(t, q) /\ UNCHANGED <<sessionVars, networkVars, crashed>>
    BY <1>0, <1>3, EndLeaveDoes
  <2>2. e.op = "unregister" /\ e.cnx = r.cnx /\ e.ses = r.ses
    BY DEF Call
  <2>3. \A s \in m_sessions : m_cnx_session[r.cnx] = s <=> r.ses = s
    BY <1>0, <2>1 DEF EndsHoldSession, HeldOps
  <2>4. q # <<>> /\ Head(q) = e /\ \A x \in Range(q) : x = e
    BY RangeOfTuples
  <2> HIDE DEF e, q
  <2>5. Now(t)' = e
    BY <2>1, <2>4 DEF Moves
  <2>6. UNCHANGED <<sessionVars, m_cnxs, socket, told, crashed>>
    BY <2>1 DEF networkVars
  <2>7. /\ \A x \in Range(q) : x.op \in HeldOps
        /\ Now(t).op \in HeldOps
    BY <2>1, <2>2, <2>4 DEF HeldOps
  <2>8. Now(t)'.op = "unregister" /\ Now(t)'.ses = Now(t).ses
        /\ \A s \in m_sessions : m_cnx_session[Now(t)'.cnx] = s <=> Now(t)'.ses = s
    BY <2>2, <2>3, <2>5
  <2> QED
    BY <2>1, <2>6, <2>7, <2>8, EndStepSessions
<1>4. CASE EndUnregister(t)
  <2>1. /\ r \in Pend(t) /\ r.op = "unregister" /\ r.cnx \in Conns
        /\ unregister_session(r.cnx) /\ Moves(t, <<>>) /\ UNCHANGED <<networkVars, crashed>>
    BY <1>0, <1>4, EndUnregisterDoes
  <2>2. CASE ForgetSession(r.cnx)
    BY <1>0, <2>1, <2>2, ForgetSessions
  <2>3. CASE fetch_session_by_cnx(r.cnx) = Null /\ UNCHANGED sessionVars
    <3> DEFINE z == <<>>
    <3>1. z = <<>> /\ Moves(t, z) /\ \A x \in Range(z) : x.op \in HeldOps
      BY <2>1, RangeOfTuples
    <3> HIDE DEF z
    <3>2. Now(t)'.op \notin HeldOps \cup {"register"} /\ Now(t).op \in HeldOps
      BY <2>1, <3>1 DEF Moves, Later, HeldOps
    <3>3. \A s \in m_sessions : r.ses # s
      <4>1. \A s \in m_sessions : m_cnx_session[r.cnx] # s
        BY <1>0, <2>3 DEF fetch_session_by_cnx, fetch_session_by_id
      <4> QED
        BY <1>0, <2>1, <4>1 DEF EndsHoldSession, HeldOps
    <3>4. UNCHANGED <<sessionVars, m_cnxs, socket, told, crashed>>
      BY <2>1, <2>3 DEF networkVars
    <3> QED
      BY <2>1, <3>1, <3>2, <3>3, <3>4, EndStepSessions
  <2> QED
    BY <2>1, <2>2, <2>3 DEF unregister_session
<1> QED
  BY <1>1, <1>2, <1>3, <1>4

(* Where a connection logs in once, there is nothing to forget.            *)
LEMMA ToldStays ==
  ASSUME ~Relogin, told \in [Conns -> 0..created], NEW c \in Conns, ForgetsTold(c)
  PROVE  told' = told
BY DEF ForgetsTold

LEMMA FrameSessions ==
  ASSUME ~Relogin, FullInv, NEW c \in Conns, Frame(c)
  PROVE  SessionsOK'
<1> DEFINE t == ServerOf(c)
<1>0. /\ BrokerInv /\ SessionsOK /\ RegistryTypeOK /\ CallsOK
      /\ told \in [Conns -> 0..created]
  BY DEF FullInv, BrokerInv, BrokerTypeOK
<1>1. /\ t \in Threads /\ socket[c] = "open" /\ Pend(t) = {}
      /\ UNCHANGED <<allVars, m_cnxs, socket, told, crashed>>
      /\ \E new : Moves(t, new) /\ FrameCalls(c, new)
  BY <1>0, FrameDoes, ToldStays, ServerOfType
<1>2. PICK new : Moves(t, new) /\ FrameCalls(c, new)
  BY <1>1
<1>3. Now(t) = NoCall
  BY <1>0, <1>1, NowCases
<1> HIDE DEF t
<1>4. Now(t)' = Head(new) /\ Head(new).op \in FrameOps /\ \A r \in Pend(t)' : r \in Range(new)
  BY <1>1, <1>2 DEF Moves, FrameCalls
<1>5. Head(new) \in Range(new) \/ Head(new).op # "register"
  <2>1. Now(t)'.op = "register" => Now(t)' \in Pend(t)'
    <3>1. ASSUME todo'[t] # <<>> PROVE Now(t)' \in Pend(t)'
      <4>1. todo'[t] \in Seq(CallSet) /\ Now(t)' = Head(todo'[t])
        BY <1>1, <1>2, <3>1 DEF Moves, Now
      <4>2. Head(todo'[t]) \in Range(todo'[t])
        BY <3>1, <4>1, HeadInRange
      <4> QED
        BY <4>1, <4>2 DEF Pend
    <3>2. ASSUME todo'[t] = <<>> PROVE Now(t)'.op # "register"
      BY <3>2 DEF Now, NoCall
    <3> QED
      BY <3>1, <3>2
  <2> QED
    BY <1>4, <2>1
<1>6. \A x \in Range(new) : WritesWell(t, x)
  BY <1>2 DEF FrameCalls, WritesWell, AboutCnx, t
<1>7. Now(t)'.op = "register" =>
        /\ t = ServerOf(Now(t)'.cnx)
        /\ told'[Now(t)'.cnx] = Null /\ socket'[Now(t)'.cnx] = "open"
        /\ \A r \in Pend(t)' : r.op # "write"
  <2>1. SUFFICES ASSUME Now(t)'.op = "register"
                 PROVE  /\ Head(new).cnx = c /\ told[c] = Null
                        /\ \A r \in Range(new) : r.op # "write"
    BY <1>1, <1>4 DEF t
  <2>2. Head(new).op = "register" /\ Head(new) \in Range(new)
    BY <1>4, <1>5, <2>1
  <2> QED
    BY <1>2, <2>2 DEF FrameCalls, AboutCnx
<1>8. Now(t)'.op \notin HeldOps
  BY <1>4 DEF FrameOps, HeldOps
<1>9. Now(t).op \notin {"write", "end", "unlink", "check", "leave", "unregister"}
  BY <1>3 DEF NoCall
<1>10. UNCHANGED sessionVars
  BY <1>1 DEF allVars
<1>11. KeepsSessions(t, new)
  BY <1>1, <1>2, <1>6, <1>7, <1>8, <1>9, <1>10 DEF KeepsSessions
<1> QED
  BY <1>0, <1>1, <1>11, KeepsSessionsWell

LEMMA ReadErrorSessions ==
  ASSUME FullInv, NEW c \in Conns, ReadError(c)
  PROVE  SessionsOK'
<1> DEFINE t == ServerOf(c)
           e == Call("drop", c, Null)
           q == <<e>>
<1>0. BrokerInv /\ SessionsOK /\ CallsOK /\ socket \in [Conns -> {"new", "open", "closed"}]
  BY DEF FullInv, BrokerInv, BrokerTypeOK
<1>1. /\ t \in Threads /\ Pend(t) = {} /\ socket' = [socket EXCEPT ![c] = "closed"]
      /\ Moves(t, q) /\ UNCHANGED <<allVars, m_cnxs, told, crashed>>
  BY <1>0, ReadErrorDoes, ServerOfType
<1>2. e.op = "drop"
  BY DEF Call
<1>3. q # <<>> /\ Head(q) = e /\ \A x \in Range(q) : x = e
  BY RangeOfTuples
<1>4. Now(t) = NoCall
  BY <1>0, <1>1, NowCases
<1> HIDE DEF e, q
<1>5. Now(t)'.op = "drop"
  BY <1>1, <1>2, <1>3 DEF Moves
<1>6. /\ \A d \in Conns : d # c => socket'[d] = socket[d]
      /\ \A d \in Conns : socket'[d] # "closed" => socket[d] # "closed"
  BY <1>0, <1>1
<1>7. \A d \in Conns : (told'[d] = told[d] /\ socket'[d] = socket[d]) \/ t = ServerOf(d)
  BY <1>1, <1>6
<1> HIDE DEF t
<1>8. Now(t).op \notin {"write", "end", "unlink", "check", "leave", "unregister"}
  BY <1>4 DEF NoCall
<1>9. \A x \in Range(q) : WritesWell(t, x)
  BY <1>2, <1>3 DEF WritesWell
<1>10. UNCHANGED sessionVars
  BY <1>1 DEF allVars
<1>11. Now(t)'.op \notin HeldOps \cup {"register"}
  BY <1>5 DEF HeldOps
<1>12. KeepsSessions(t, q)
  BY <1>1, <1>6, <1>7, <1>8, <1>9, <1>10, <1>11 DEF KeepsSessions
<1> QED
  BY <1>0, <1>1, <1>12, KeepsSessionsWell

LEMMA WorkerEndSessions ==
  ASSUME FullInv, WorkerEnd
  PROVE  SessionsOK'
<1> DEFINE t == "worker"
           a == ToFront(task.owner, "ACK")
<1>0. BrokerInv /\ SessionsOK /\ CallsOK /\ RegistryTypeOK /\ SubscriptionTypeOK
  BY DEF FullInv, BrokerInv
<1>1. /\ t \in Threads /\ Pend(t) = {} /\ UNCHANGED <<sessionVars, networkVars, crashed>>
      /\ Moves(t, <<a>>) \/ Moves(t, <<>>)
  BY <1>0, WorkerEndDoes DEF Threads
<1>2. Now(t) = NoCall
  BY <1>0, <1>1, NowCases
<1>3. a.op = "front"
  BY DEF ToFront
<1> HIDE DEF t, a
<1>4. ASSUME NEW new, Moves(t, new), new = <<>> \/ Head(new).op = "front",
             \A x \in Range(new) : x.op = "front"
      PROVE  SessionsOK'
  <2>1. Now(t)'.op \notin HeldOps \cup {"register"}
    BY <1>4 DEF Moves, HeldOps, Later
  <2>2. Now(t).op \notin {"write", "end", "unlink", "check", "leave", "unregister"}
    BY <1>2 DEF NoCall
  <2>3. \A x \in Range(new) : WritesWell(t, x)
    BY <1>4 DEF WritesWell
  <2>4. KeepsSessions(t, new)
    BY <1>1, <1>4, <2>1, <2>2, <2>3 DEF KeepsSessions, networkVars
  <2> QED
    BY <1>0, <1>1, <2>4, KeepsSessionsWell
<1>5. CASE Moves(t, <<a>>)
  <2> DEFINE q == <<a>>
  <2>1. Head(q) = a /\ \A x \in Range(q) : x = a
    BY RangeOfTuples
  <2>2. Moves(t, q)
    BY <1>5
  <2> HIDE DEF q
  <2> QED
    BY <1>3, <1>4, <2>1, <2>2
<1>6. CASE Moves(t, <<>>)
  <2> DEFINE q == <<>>
  <2>1. q = <<>> /\ Moves(t, q) /\ \A x \in Range(q) : x.op = "front"
    BY <1>6, RangeOfTuples
  <2> HIDE DEF q
  <2> QED
    BY <1>4, <2>1
<1> QED
  BY <1>1, <1>5, <1>6

LEMMA SessionsStep ==
  ASSUME ~Relogin, FullInv, [BrokerNext]_vars
  PROVE  SessionsOK'
<1>0. BrokerInv /\ SessionsOK /\ CallsOK /\ socket \in [Conns -> {"new", "open", "closed"}]
  BY DEF FullInv, BrokerInv, BrokerTypeOK
<1>1. ASSUME NEW c \in Conns, Accept(c) PROVE SessionsOK'
  <2>1. /\ socket[c] = "new" /\ socket' = [socket EXCEPT ![c] = "open"]
        /\ m_cnxs' = m_cnxs \cup {c} /\ UNCHANGED <<sessionVars, told, todo, crashed>>
    BY <1>1 DEF Accept, allVars
  <2>2. \A d \in Conns : /\ socket'[d] # "closed" => socket[d] # "closed"
                         /\ socket[d] = "open" => socket'[d] = "open"
    BY <1>0, <2>1
  <2> QED
    BY <1>0, <2>1, <2>2, StillSessions
<1>2. ASSUME NEW t \in Threads, ThreadStep(t) PROVE SessionsOK'
  <2>1. CASE RegisterNew(t)
    BY <2>1, RegisterNewSessions
  <2>2. CASE RegisterAgain(t)
    BY <2>2, RegisterAgainSessions
  <2>3. CASE WriteOk(t) \/ WriteFails(t)
    BY <2>3, WriteSessions
  <2>4. CASE Drop(t)
    BY <2>4, DropSessions
  <2>5. CASE EndUnlink(t)
    BY <1>0, <2>5, UnlinkSessions
  <2>6. CASE EndFetch(t) \/ EndCheck(t) \/ EndLeave(t) \/ EndUnregister(t)
    BY <2>6, EndThreadSessions
  <2>7. CASE \/ Reread(t) \/ RegisterRefused(t) \/ SendToFront(t) \/ StartCopies(t) \/ SendCopy(t)
             \/ AskSubscription(t) \/ AskUnsubscription(t) \/ WriteDropped(t) \/ Unlock(t)
             \/ CloseThrows(t)
    BY <2>7, PlainThreadSessions
  <2> QED
    BY <1>2, <2>1, <2>2, <2>3, <2>4, <2>5, <2>6, <2>7 DEF ThreadStep
<1>3. CASE WorkerTask
  <2>1. UNCHANGED <<sessionVars, m_cnxs, socket, told, todo, crashed>>
    BY <1>3, WorkerTaskDoes DEF brokerVars, networkVars
  <2> QED
    BY <1>0, <2>1, StillSessions
<1>4. CASE UNCHANGED vars
  <2>1. UNCHANGED <<sessionVars, m_cnxs, socket, told, todo, crashed>>
    BY <1>4 DEF vars, allVars, brokerVars, networkVars
  <2> QED
    BY <1>0, <2>1, StillSessions
<1> QED
  BY <1>1, <1>2, <1>3, <1>4, FrameSessions, ReadErrorSessions, WorkerEndSessions DEF BrokerNext

LEMMA SessionsInit == BrokerInit => SessionsOK
<1> SUFFICES ASSUME BrokerInit PROVE SessionsOK
  OBVIOUS
<1>1. /\ cnxs = [s \in Sessions |-> <<>>] /\ m_sessions = {}
      /\ m_cnx_session = [c \in Conns |-> Null] /\ \A t \in Threads : todo[t] = <<>>
  BY DEF BrokerInit, ManagersInit, RegistryInit
<1>2. \A t \in Threads : Now(t) = NoCall /\ Pend(t) = {}
  BY <1>1 DEF Now, Pend, Range
<1>3. UnansweredIsFresh /\ AnswersNameSession
  BY <1>1, <1>2 DEF UnansweredIsFresh, AnswersNameSession, Fresh
<1>4. RegistersOnce /\ ListsAreMapped /\ EndsHoldSession /\ ListedAreEnding /\ EmptyAreClosing
  BY <1>1, <1>2 DEF RegistersOnce, ListsAreMapped, EndsHoldSession, ListedAreEnding,
                    EmptyAreClosing, NoCall
<1> QED
  BY <1>3, <1>4 DEF SessionsOK

-----------------------------------------------------------------------------

LEMMA PendingNow ==
  ASSUME NEW t \in Threads, Now(t) \in Pend(t), NEW op, Now(t).op = op
  PROVE  Now(t) \in Pending(op)
BY DEF Pending, Pend

LEMMA SessionsFollow ==
  ASSUME FullInv
  PROVE  ListedConnectionsExist /\ NoAbandonedSession /\ QuietSessionsAreReachable
<1>0. /\ RegistryTypeOK /\ CallsOK /\ ListsAreMapped /\ EndsHoldSession /\ ListedAreEnding
      /\ EmptyAreClosing /\ AcceptedOnce /\ ClosedIsDropped
      /\ socket \in [Conns -> {"new", "open", "closed"}]
      /\ m_sessions \subseteq Sessions \ {Null} /\ cnxs \in [Sessions -> Seq(Conns)]
  BY LiveIsSession
     DEF FullInv, BrokerInv, SessionsOK, SocketsOK, BrokerTypeOK, RegistryTypeOK
<1>1. \A t \in Threads : Now(t).op \in AboutCnx => Now(t) \in Pend(t)
  BY <1>0, NowCases
<1>2. ListedConnectionsExist
  <2>1. SUFFICES ASSUME NEW s \in m_sessions, NEW i \in DOMAIN cnxs[s], cnxs[s][i] \notin m_cnxs
                 PROVE  Ending(cnxs[s][i])
    BY DEF ListedConnectionsExist, ToSet
  <2>2. PICK t \in Threads : Now(t).op \in {"end", "unlink"} /\ Now(t).cnx = cnxs[s][i]
    BY <1>0, <2>1 DEF ListedAreEnding
  <2>3. Now(t) \in Pending(Now(t).op)
    BY <1>1, <2>2, PendingNow DEF AboutCnx, CnxOps
  <2> QED
    BY <2>2, <2>3 DEF Ending, EndOps
<1>3. NoAbandonedSession
  <2>1. SUFFICES ASSUME NEW s \in m_sessions, cnxs[s] = <<>>
                 PROVE  Closing(s)
    BY DEF NoAbandonedSession
  <2>2. PICK t \in Threads : Now(t).op \in {"check", "leave", "unregister"} /\ Now(t).ses = s
    BY <1>0, <2>1 DEF EmptyAreClosing
  <2>3. Now(t) \in Pending(Now(t).op)
    BY <1>1, <2>2, PendingNow DEF AboutCnx, CnxOps
  <2>4. m_cnx_session[Now(t).cnx] = s
    BY <1>0, <2>2 DEF EndsHoldSession, HeldOps
  <2> QED
    BY <2>2, <2>3, <2>4 DEF Closing
<1>4. QuietSessionsAreReachable
  <2>1. SUFFICES ASSUME Quiet, NEW s \in m_sessions
                 PROVE  /\ cnxs[s] # <<>> /\ IsInjective(cnxs[s])
                        /\ \A c \in ToSet(cnxs[s]) : Reachable(c) /\ m_cnx_session[c] = s
    BY DEF QuietSessionsAreReachable
  <2>2. \A t \in Threads : Now(t).op = "none"
    BY <2>1 DEF Quiet, Now, NoCall
  <2>3. cnxs[s] # <<>>
    BY <1>0, <2>2 DEF EmptyAreClosing
  <2>4. IsInjective(cnxs[s])
    BY <1>0 DEF ListsAreMapped, IsInjective
  <2>5. ASSUME NEW i \in DOMAIN cnxs[s]
        PROVE  Reachable(cnxs[s][i]) /\ m_cnx_session[cnxs[s][i]] = s
    <3>1. cnxs[s][i] \in m_cnxs /\ cnxs[s][i] \in Conns
      BY <1>0, <2>2 DEF ListedAreEnding
    <3>2. socket[cnxs[s][i]] # "new" /\ socket[cnxs[s][i]] # "closed"
      BY <1>0, <2>2, <3>1 DEF AcceptedOnce, ClosedIsDropped
    <3> QED
      BY <1>0, <3>1, <3>2 DEF Reachable, ListsAreMapped
  <2> QED
    BY <2>3, <2>4, <2>5 DEF ToSet
<1> QED
  BY <1>2, <1>3, <1>4

LEMMA SessionsInvariant == ~Relogin => (BrokerSpec => []FullInv)
<1> SUFFICES ASSUME ~Relogin PROVE BrokerSpec => []FullInv
  OBVIOUS
<1>1. BrokerInit => FullInv
  BY BrokerInvInit, SocketsInit, SessionsInit DEF FullInv
<1>2. FullInv /\ [BrokerNext]_vars => FullInv'
  BY BrokerInvStep, SocketsStep, SessionsStep DEF FullInv
<1> QED
  BY <1>1, <1>2, PTL DEF BrokerSpec

(* Where a connection logs in once, whoever is in the list of a live       *)
(* session is registered or has its end under way: front() never gives a   *)
(* connection that is gone for good.                                       *)
THEOREM ListedConnectionsCorrect == ~Relogin => (BrokerSpec => []ListedConnectionsExist)
<1> SUFFICES ASSUME ~Relogin PROVE BrokerSpec => []ListedConnectionsExist
  OBVIOUS
<1>1. FullInv => ListedConnectionsExist
  BY SessionsFollow
<1>2. BrokerSpec => []FullInv
  BY SessionsInvariant
<1> QED
  BY <1>1, <1>2, PTL

(* Where a connection logs in once, a live session without connections has *)
(* a thread that is about to end it: no login is refused for ever.         *)
THEOREM NoAbandonedSessionCorrect == ~Relogin => (BrokerSpec => []NoAbandonedSession)
<1> SUFFICES ASSUME ~Relogin PROVE BrokerSpec => []NoAbandonedSession
  OBVIOUS
<1>1. FullInv => NoAbandonedSession
  BY SessionsFollow
<1>2. BrokerSpec => []FullInv
  BY SessionsInvariant
<1> QED
  BY <1>1, <1>2, PTL

(* Where a connection logs in once and no thread is at work, the           *)
(* connections of every live session are open, distinct and mapped to it.  *)
THEOREM QuietSessionsCorrect == ~Relogin => (BrokerSpec => []QuietSessionsAreReachable)
<1> SUFFICES ASSUME ~Relogin PROVE BrokerSpec => []QuietSessionsAreReachable
  OBVIOUS
<1>1. FullInv => QuietSessionsAreReachable
  BY SessionsFollow
<1>2. BrokerSpec => []FullInv
  BY SessionsInvariant
<1> QED
  BY <1>1, <1>2, PTL

-----------------------------------------------------------------------------
(* The answers to CONNECT.                                                 *)
Answers(r) == r.op = "write" /\ (r.kind = "CONNECTED" \/ r.close)
(* A step that puts an answer in the place of a login, and ends with an    *)
(* answer only when it is given or the connection is closed.               *)
KeepsAnswers(t, new) ==
  /\ Moves(t, new)
  /\ \A r \in Range(new) : r.op = "write" /\ r.kind = "CONNECTED" => r.ses # Null
  /\ Now(t).op = "register" => \E r \in Range(new) : Answers(r) /\ r.cnx = Now(t).cnx
  /\ Answers(Now(t)) => told'[Now(t).cnx] # Null \/ socket'[Now(t).cnx] = "closed"

AnswersStep ==
  \/ UNCHANGED todo
  \/ \E t \in Threads : \E new : KeepsAnswers(t, new)

LEMMA AnswerDueIsPending ==
  ASSUME NEW c
  PROVE  AnswerDue(c) <=> \E t \in Threads : \E r \in Pend(t) :
           r.cnx = c /\ (r.op = "register" \/ Answers(r))
BY DEF AnswerDue, Connecting, Pending, Pend, Answers

LEMMA NoAnswerIsLost ==
  ASSUME AnswersStep, NEW c \in Conns, AnswerDue(c), ~(AnswerDue(c)')
  PROVE  told'[c] # Null \/ socket'[c] = "closed"
<1>0. AnswerDue(c)' <=> \E t \in Threads : \E r \in Pend(t)' :
        r.cnx = c /\ (r.op = "register" \/ Answers(r))
  BY DEF AnswerDue, Connecting, Pending, Pend, Answers
<1>t. PICK u \in Threads : \E r \in Pend(u) : r.cnx = c /\ (r.op = "register" \/ Answers(r))
  BY AnswerDueIsPending
<1>1. PICK r \in Pend(u) : r.cnx = c /\ (r.op = "register" \/ Answers(r))
  BY <1>t
<1>2. \A v \in Threads : \A q \in Pend(v)' : ~(q.cnx = c /\ (q.op = "register" \/ Answers(q)))
  BY <1>0
<1>3. CASE UNCHANGED todo
  BY <1>1, <1>2, <1>3 DEF Pend
<1>4. ASSUME NEW t \in Threads, NEW new, KeepsAnswers(t, new)
      PROVE  told'[c] # Null \/ socket'[c] = "closed"
  <2>1. u = t /\ r = Now(t)
    BY <1>1, <1>2, <1>4 DEF KeepsAnswers, Moves
  <2>2. r.op # "register"
    BY <1>1, <1>2, <1>4, <2>1 DEF KeepsAnswers, Moves
  <2> QED
    BY <1>1, <1>4, <2>1, <2>2 DEF KeepsAnswers
<1> QED
  BY <1>3, <1>4 DEF AnswersStep

(* A step of a thread that neither logs in nor writes.                     *)
LEMMA NoAnswer ==
  ASSUME NEW t \in Threads, NEW new, Moves(t, new), Now(t).op \notin {"register", "write"},
         \A r \in Range(new) : ~(r.op = "write" /\ r.kind = "CONNECTED")
  PROVE  KeepsAnswers(t, new)
BY DEF KeepsAnswers, Answers

LEMMA NoShortAnswer ==
  ASSUME NEW t \in Threads, Now(t).op \notin {"register", "write"},
         \/ Moves(t, <<>>)
         \/ \E a : Moves(t, <<a>>) /\ (a.op = "write" => a.kind # "CONNECTED")
         \/ \E a, b : /\ Moves(t, <<a, b>>) /\ (a.op = "write" => a.kind # "CONNECTED")
                      /\ (b.op = "write" => b.kind # "CONNECTED")
  PROVE  \E new : KeepsAnswers(t, new)
<1>1. CASE Moves(t, <<>>)
  <2> DEFINE q == <<>>
  <2>1. Moves(t, q) /\ \A r \in Range(q) : ~(r.op = "write" /\ r.kind = "CONNECTED")
    BY <1>1, RangeOfTuples
  <2> HIDE DEF q
  <2> QED
    BY <2>1, NoAnswer
<1>2. ASSUME NEW a, Moves(t, <<a>>), a.op = "write" => a.kind # "CONNECTED"
      PROVE  \E new : KeepsAnswers(t, new)
  <2> DEFINE q == <<a>>
  <2>1. Moves(t, q) /\ \A r \in Range(q) : ~(r.op = "write" /\ r.kind = "CONNECTED")
    BY <1>2, RangeOfTuples
  <2> HIDE DEF q
  <2> QED
    BY <2>1, NoAnswer
<1>3. ASSUME NEW a, NEW b, Moves(t, <<a, b>>), a.op = "write" => a.kind # "CONNECTED",
             b.op = "write" => b.kind # "CONNECTED"
      PROVE  \E new : KeepsAnswers(t, new)
  <2> DEFINE q == <<a, b>>
  <2>1. Moves(t, q) /\ \A r \in Range(q) : ~(r.op = "write" /\ r.kind = "CONNECTED")
    BY <1>3, RangeOfTuples
  <2> HIDE DEF q
  <2> QED
    BY <2>1, NoAnswer
<1> QED
  BY <1>1, <1>2, <1>3

(* The writes: an answer that is written or dropped.                       *)
LEMMA WriteAnswers ==
  ASSUME BrokerInv, SocketsOK, AnswersNameSession, NEW t \in Threads,
         WriteOk(t) \/ WriteFails(t) \/ WriteDropped(t)
  PROVE  \E new : KeepsAnswers(t, new)
<1> DEFINE r == Now(t)
           c == r.cnx
<1>0. /\ CallsOK /\ AcceptedOnce /\ OpenIsRegistered /\ told \in [Conns -> 0..created]
      /\ socket \in [Conns -> {"new", "open", "closed"}]
  BY DEF BrokerInv, SocketsOK, BrokerTypeOK
<1>1. CASE WriteDropped(t)
  <2>1. /\ r \in Pend(t) /\ r.op = "write" /\ c \in Conns /\ (c \notin m_cnxs \/ socket[c] # "open")
        /\ Moves(t, <<>>) /\ UNCHANGED networkVars
    BY <1>0, <1>1, WriteDroppedDoes
  <2>2. socket[c] # "new"
    BY <1>0, <2>1 DEF AcceptedOnce, AboutCnx
  <2>3. socket'[c] = "closed"
    BY <1>0, <2>1, <2>2 DEF OpenIsRegistered, networkVars
  <2> DEFINE q == <<>>
  <2>4. Moves(t, q) /\ Range(q) = {}
    BY <2>1, RangeOfTuples
  <2> HIDE DEF q
  <2> QED
    BY <2>1, <2>3, <2>4 DEF KeepsAnswers
<1>2. CASE WriteOk(t) \/ WriteFails(t)
  <2>1. /\ r \in Pend(t) /\ r.op = "write" /\ c \in Conns
        /\ \/ WriteCloses(t)
           \/ /\ UNCHANGED socket /\ Moves(t, <<>>)
              /\ r.kind = "CONNECTED" => told' = [told EXCEPT ![c] = r.ses]
    BY <1>0, <1>2, WriteDoes
  <2>2. CASE WriteCloses(t)
    <3> DEFINE a == Call("drop", c, Null)
               b == Call("unlock", c, Null)
               q == Close(c)
    <3>1. a.op = "drop" /\ b.op = "unlock"
      BY DEF Call
    <3> HIDE DEF a, b
    <3>2. q = <<a, b>>
      BY DEF Close, a, b
    <3>3. \A x \in Range(q) : x.op # "write"
      BY <3>1, <3>2, RangeOfTuples
    <3>4. Moves(t, q) /\ socket'[c] = "closed"
      BY <1>0, <2>1, <2>2 DEF WriteCloses
    <3> HIDE DEF q
    <3> QED
      BY <2>1, <3>3, <3>4 DEF KeepsAnswers
  <2>3. CASE ~WriteCloses(t)
    <3>1. /\ UNCHANGED socket /\ Moves(t, <<>>)
          /\ r.kind = "CONNECTED" => told' = [told EXCEPT ![c] = r.ses]
      BY <2>1, <2>3
    <3>2. r.kind = "CONNECTED" => told'[c] # Null
      BY <1>0, <2>1, <3>1 DEF AnswersNameSession
    <3>3. r.close /\ r.kind # "CONNECTED" => FALSE
      <4>1. todo[t] # <<>> => r = Head(todo[t])
        BY DEF Now
      <4>2. todo[t] # <<>> /\ socket[c] = "open" /\ (WriteFails(t) \/ r.close => socket'[c] = "closed")
        BY <1>0, <1>2, <2>1, <4>1 DEF WriteOk, WriteFails, Reachable, Running
      <4>3. ~WriteFails(t) /\ ~r.close
        BY <3>1, <4>2
      <4> QED
        BY <4>3
    <3> DEFINE q == <<>>
    <3>4. Moves(t, q) /\ Range(q) = {}
      BY <3>1, RangeOfTuples
    <3> HIDE DEF q
    <3> QED
      BY <2>1, <3>2, <3>3, <3>4 DEF KeepsAnswers, Answers
  <2> QED
    BY <2>2, <2>3
<1> QED
  BY <1>1, <1>2

(* The logins: each is followed by its answer.                             *)
LEMMA RegisterAnswers ==
  ASSUME BrokerInv, NEW t \in Threads, RegisterNew(t) \/ RegisterAgain(t) \/ RegisterRefused(t)
  PROVE  UNCHANGED todo \/ \E new : KeepsAnswers(t, new)
<1> DEFINE r == Now(t)
<1>0. RegistryTypeOK /\ CallsOK
  BY DEF BrokerInv
<1>1. CASE RegisterNew(t)
  <2> DEFINE w == Write(r.cnx, "CONNECTED", NewId, FALSE)
             q == <<w>>
  <2>1. r.op = "register" /\ Moves(t, q)
    BY <1>0, <1>1, RegisterNewDoes
  <2>2. w.op = "write" /\ w.kind = "CONNECTED" /\ w.cnx = r.cnx /\ w.ses = NewId
    BY DEF Write
  <2>3. NewId # Null
    BY <1>0, CreatedFacts DEF NewId, Null
  <2> HIDE DEF w
  <2>4. w \in Range(q) /\ \A x \in Range(q) : x = w
    BY DEF Range
  <2> HIDE DEF q
  <2> QED
    BY <2>1, <2>2, <2>3, <2>4 DEF KeepsAnswers, Answers
<1>2. CASE RegisterAgain(t)
  <2> DEFINE s == m_login_session[r.login]
             w == Write(r.cnx, "CONNECTED", s, FALSE)
             e == Write(Head(cnxs[s]), "ERROR", Null, TRUE)
  <2>1. /\ r.op = "register" /\ TakeOverSession(r.cnx, r.login, r.profile)
        /\ UNCHANGED todo \/ Moves(t, <<w>>) \/ Moves(t, <<e, w>>)
    BY <1>0, <1>2, RegisterAgainDoes
  <2>2. s # Null
    BY <2>1 DEF TakeOverSession, RegisterOutcome
  <2>3. w.op = "write" /\ w.kind = "CONNECTED" /\ w.cnx = r.cnx /\ w.ses = s
    BY DEF Write
  <2>4. e.op = "write" /\ e.kind = "ERROR"
    BY DEF Write
  <2> HIDE DEF w, e, s
  <2>5. CASE Moves(t, <<w>>)
    <3> DEFINE q == <<w>>
    <3>1. w \in Range(q) /\ (\A x \in Range(q) : x = w) /\ Moves(t, q)
      BY <2>5 DEF Range
    <3> HIDE DEF q
    <3> QED
      BY <2>1, <2>2, <2>3, <3>1 DEF KeepsAnswers, Answers
  <2>6. CASE Moves(t, <<e, w>>)
    <3> DEFINE q == <<e, w>>
    <3>1. w \in Range(q) /\ (\A x \in Range(q) : x = w \/ x = e) /\ Moves(t, q)
      BY <2>6 DEF Range
    <3> HIDE DEF q
    <3> QED
      BY <2>1, <2>2, <2>3, <2>4, <3>1 DEF KeepsAnswers, Answers
  <2> QED
    BY <2>1, <2>5, <2>6
<1>3. CASE RegisterRefused(t)
  <2> DEFINE e == Write(r.cnx, "ERROR", Null, TRUE)
             q == <<e>>
  <2>1. r.op = "register" /\ Moves(t, q)
    BY <1>0, <1>3, RegisterRefusedDoes
  <2>2. e.op = "write" /\ e.kind = "ERROR" /\ e.cnx = r.cnx /\ e.close
    BY DEF Write
  <2> HIDE DEF e
  <2>3. e \in Range(q) /\ \A x \in Range(q) : x = e
    BY DEF Range
  <2> HIDE DEF q
  <2> QED
    BY <2>1, <2>2, <2>3 DEF KeepsAnswers, Answers
<1> QED
  BY <1>1, <1>2, <1>3

(* The other calls owe no answer and give none.                            *)
LEMMA OtherAnswers ==
  ASSUME BrokerInv, NEW t \in Threads,
         \/ Reread(t) \/ SendToFront(t) \/ StartCopies(t) \/ SendCopy(t)
         \/ AskSubscription(t) \/ AskUnsubscription(t) \/ CloseThrows(t) \/ Unlock(t)
         \/ Drop(t) \/ EndFetch(t) \/ EndUnlink(t) \/ EndCheck(t) \/ EndLeave(t) \/ EndUnregister(t)
  PROVE  UNCHANGED todo \/ \E new : KeepsAnswers(t, new)
<1> DEFINE r == Now(t)
<1>0. RegistryTypeOK /\ SubscriptionTypeOK /\ CallsOK
  BY DEF BrokerInv
<1>c. ASSUME NEW op, NEW c, NEW s, op # "write"
      PROVE  Call(op, c, s).op = "write" => Call(op, c, s).kind # "CONNECTED"
  BY <1>c DEF Call
<1>d. \A s, x : Copies(s, x).op = "write" => Copies(s, x).kind # "CONNECTED"
  BY DEF Copies
<1>w. ASSUME NEW c, NEW k, NEW s, NEW b, k # "CONNECTED"
      PROVE  Write(c, k, s, b).op = "write" => Write(c, k, s, b).kind # "CONNECTED"
  BY <1>w DEF Write
<1>1. CASE Reread(t) \/ Unlock(t) \/ AskSubscription(t) \/ AskUnsubscription(t) \/ EndUnregister(t)
  <2>1. r.op \notin {"register", "write"} /\ Moves(t, <<>>)
    BY <1>0, <1>1, RereadDoes, UnlockDoes, AskDoes, EndUnregisterDoes
  <2> QED
    BY <2>1, NoShortAnswer
<1>2. CASE SendToFront(t)
  <2> DEFINE w == Write(Head(cnxs[r.ses]), r.kind, r.ses, FALSE)
  <2>1. /\ r.op \notin {"register", "write"}
        /\ UNCHANGED todo \/ Moves(t, <<>>) \/ (Moves(t, <<w>>) /\ r.kind \in {"MESSAGE", "ACK"})
    BY <1>0, <1>2, SendToFrontDoes
  <2>2. r.kind \in {"MESSAGE", "ACK"} => (w.op = "write" => w.kind # "CONNECTED")
    BY <1>w
  <2> HIDE DEF w
  <2> QED
    BY <2>1, <2>2, NoShortAnswer
<1>3. CASE StartCopies(t)
  <2> DEFINE e == Copies(r.ses, subscribers[r.ses])
  <2>1. r.op \notin {"register", "write"} /\ Moves(t, <<e>>)
    BY <1>0, <1>3, StartCopiesDoes
  <2>2. e.op = "write" => e.kind # "CONNECTED"
    BY <1>d
  <2> HIDE DEF e
  <2> QED
    BY <2>1, <2>2, NoShortAnswer
<1>4. CASE SendCopy(t)
  <2>1. /\ r.op \notin {"register", "write"}
        /\ \/ Moves(t, <<>>)
           \/ \E left \in SUBSET r.left :
                \/ Moves(t, <<Copies(r.ses, left)>>)
                \/ \E s \in 0..created : Moves(t, <<ToFront(s, "MESSAGE"), Copies(r.ses, left)>>)
    BY <1>0, <1>4, SendCopyDoes
  <2>2. ASSUME NEW left, Moves(t, <<Copies(r.ses, left)>>) PROVE \E new : KeepsAnswers(t, new)
    BY <1>d, <2>1, <2>2, NoShortAnswer
  <2>3. ASSUME NEW left, NEW s, Moves(t, <<ToFront(s, "MESSAGE"), Copies(r.ses, left)>>)
        PROVE  \E new : KeepsAnswers(t, new)
    <3> DEFINE a == ToFront(s, "MESSAGE")
               b == Copies(r.ses, left)
    <3>1. (a.op = "write" => a.kind # "CONNECTED") /\ (b.op = "write" => b.kind # "CONNECTED")
      BY <1>d DEF ToFront
    <3>2. Moves(t, <<a, b>>)
      BY <2>3
    <3> HIDE DEF a, b
    <3> QED
      BY <2>1, <3>1, <3>2, NoShortAnswer
  <2>4. CASE Moves(t, <<>>)
    BY <2>1, <2>4, NoShortAnswer
  <2> QED
    BY <2>1, <2>2, <2>3, <2>4
<1>5. CASE CloseThrows(t)
  BY <1>0, <1>5, CloseThrowsDoes
<1>6. CASE Drop(t)
  <2>1. /\ r.op \notin {"register", "write"}
        /\ Moves(t, <<Call("end", r.cnx, Null)>>) \/ Moves(t, <<>>)
    BY <1>0, <1>6, DropDoes
  <2> QED
    BY <1>c, <2>1, NoShortAnswer
<1>7. CASE EndFetch(t)
  <2>1. /\ r.op \notin {"register", "write"}
        /\ Moves(t, <<Call("unlink", r.cnx, fetch_session_by_cnx(r.cnx))>>)
    BY <1>0, <1>7, EndFetchDoes
  <2> QED
    BY <1>c, <2>1, NoShortAnswer
<1>8. CASE EndUnlink(t)
  <2>1. r.op \notin {"register", "write"} /\ Moves(t, <<Call("check", r.cnx, r.ses)>>)
    BY <1>0, <1>8, EndUnlinkDoes
  <2> QED
    BY <1>c, <2>1, NoShortAnswer
<1>9. CASE EndCheck(t)
  <2> DEFINE a == Call("leave", r.cnx, r.ses)
             b == Call("unregister", r.cnx, r.ses)
  <2>1. r.op \notin {"register", "write"} /\ (Moves(t, <<a, b>>) \/ Moves(t, <<>>))
    BY <1>0, <1>9, EndCheckDoes
  <2>2. (a.op = "write" => a.kind # "CONNECTED") /\ (b.op = "write" => b.kind # "CONNECTED")
    BY <1>c
  <2> HIDE DEF a, b
  <2> QED
    BY <2>1, <2>2, NoShortAnswer
<1>10. CASE EndLeave(t)
  <2>1. r.op \notin {"register", "write"} /\ Moves(t, <<Call("unregister", r.cnx, r.ses)>>)
    BY <1>0, <1>10, EndLeaveDoes
  <2> QED
    BY <1>c, <2>1, NoShortAnswer
<1> QED
  BY <1>1, <1>2, <1>3, <1>4, <1>5, <1>6, <1>7, <1>8, <1>9, <1>10

LEMMA EveryStepAnswers ==
  ASSUME BrokerInv, SocketsOK, AnswersNameSession, [BrokerNext]_vars
  PROVE  AnswersStep
<1>0. RegistryTypeOK /\ SubscriptionTypeOK /\ CallsOK
  BY DEF BrokerInv
<1>i. ASSUME NEW t \in Threads, Pend(t) = {}
      PROVE  Now(t).op \notin {"register", "write"}
  <2>1. Now(t) = NoCall
    BY <1>0, <1>i, NowCases
  <2> QED
    BY <2>1 DEF NoCall
<1>1. ASSUME NEW c \in Conns, Accept(c) \/ ReadError(c) \/ Frame(c)
      PROVE  AnswersStep
  <2>0. ServerOf(c) \in Threads
    BY ServerOfType
  <2>1. CASE Accept(c)
    BY <2>1 DEF Accept, AnswersStep
  <2>2. CASE ReadError(c)
    <3>1. Moves(ServerOf(c), <<Call("drop", c, Null)>>) /\ Pend(ServerOf(c)) = {}
      BY <1>0, <2>2, ReadErrorDoes
    <3>2. Call("drop", c, Null).op # "write"
      BY DEF Call
    <3> QED
      BY <1>i, <2>0, <3>1, <3>2, NoShortAnswer DEF AnswersStep
  <2>3. CASE Frame(c)
    <3>1. PICK new : Moves(ServerOf(c), new) /\ FrameCalls(c, new) /\ Pend(ServerOf(c)) = {}
      BY <1>0, <2>3, FrameDoes
    <3>2. \A r \in Range(new) : ~(r.op = "write" /\ r.kind = "CONNECTED")
      BY <3>1 DEF FrameCalls
    <3> QED
      BY <1>i, <2>0, <3>1, <3>2, NoAnswer DEF AnswersStep
  <2> QED
    BY <1>1, <2>1, <2>2, <2>3
<1>2. ASSUME NEW t \in Threads, ThreadStep(t) PROVE AnswersStep
  BY <1>2, RegisterAnswers, WriteAnswers, OtherAnswers DEF ThreadStep, AnswersStep
<1>3. CASE WorkerTask
  BY <1>3, WorkerTaskDoes DEF AnswersStep, brokerVars
<1>4. CASE WorkerEnd
  <2>1. /\ Moves("worker", <<ToFront(task.owner, "ACK")>>) \/ Moves("worker", <<>>)
        /\ Pend("worker") = {} /\ "worker" \in Threads
    BY <1>0, <1>4, WorkerEndDoes DEF Threads
  <2>2. ToFront(task.owner, "ACK").op # "write"
    BY DEF ToFront
  <2> QED
    BY <1>i, <2>1, <2>2, NoShortAnswer DEF AnswersStep
<1>5. CASE UNCHANGED vars
  BY <1>5 DEF AnswersStep, vars, brokerVars
<1> QED
  BY <1>1, <1>2, <1>3, <1>4, <1>5 DEF BrokerNext

LEMMA AnswersNameStep ==
  ASSUME AnswersNameSession, AnswersStep
  PROVE  AnswersNameSession'
<1>1. CASE UNCHANGED todo
  BY <1>1 DEF AnswersNameSession, Pend
<1>2. ASSUME NEW t \in Threads, NEW new, KeepsAnswers(t, new) PROVE AnswersNameSession'
  BY <1>2 DEF AnswersNameSession, KeepsAnswers, Moves
<1> QED
  BY <1>1, <1>2 DEF AnswersStep

(* A client that asks to log in is told its session or is closed, logins   *)
(* repeated on one connection included: no thread drops the answer.        *)
THEOREM NoLoginIsLostCorrect == BrokerSpec => NoLoginIsLost
<1>1. BrokerInit => BrokerInv /\ SocketsOK /\ AnswersNameSession
  <2>1. BrokerInit => AnswersNameSession
    BY DEF BrokerInit, AnswersNameSession, Pend, Range
  <2> QED
    BY <2>1, BrokerInvInit, SocketsInit
<1>2. BrokerInv /\ SocketsOK /\ AnswersNameSession /\ [BrokerNext]_vars
        => BrokerInv' /\ SocketsOK' /\ AnswersNameSession'
  BY BrokerInvStep, SocketsStep, EveryStepAnswers, AnswersNameStep
<1>3. BrokerInv /\ SocketsOK /\ AnswersNameSession /\ [BrokerNext]_vars
        => [\A c \in Conns : AnswerDue(c) /\ ~AnswerDue(c)' =>
              told'[c] # Null \/ socket'[c] = "closed" \/ crashed']_vars
  BY EveryStepAnswers, NoAnswerIsLost
<1> QED
  BY <1>1, <1>2, <1>3, PTL DEF BrokerSpec, NoLoginIsLost

-----------------------------------------------------------------------------
(* The write mutexes.  Before it unlocks one, a thread has only the end of *)
(* the connection to deal with.                                            *)
Holding(q) ==
  \A i, j \in DOMAIN q : q[i].op = "unlock" /\ j < i => q[j].op \in ClosedOps
HoldersClose == \A t \in Threads : Holding(todo[t])

LEMMA WiderSeq ==
  ASSUME NEW S, NEW T, S \subseteq T, NEW q \in Seq(S)
  PROVE  q \in Seq(T)
<1>1. q \in [1..Len(q) -> T] /\ Len(q) \in Nat
  OBVIOUS
<1> QED
  BY <1>1

LEMMA HoldingStays ==
  ASSUME NEW S, NEW q \in Seq(S), q # <<>>, Holding(q), NEW new \in Seq(S), Holding(new),
         Head(q).op \in ClosedOps => \A i \in DOMAIN new : new[i].op \in ClosedOps
  PROVE  Holding(new \o Tail(q))
<1> DEFINE p == new \o Tail(q)
           n == Len(new)
<1>1. /\ n \in Nat /\ Len(q) \in Nat \ {0} /\ DOMAIN q = 1..Len(q) /\ DOMAIN new = 1..n
      /\ DOMAIN p = 1..(n + Len(q) - 1) /\ Head(q) = q[1]
      /\ \A i \in 1..n : p[i] = new[i]
      /\ \A i \in (n + 1)..(n + Len(q) - 1) : p[i] = q[i - n + 1]
  OBVIOUS
<1> HIDE DEF p, n
<1>2. SUFFICES ASSUME NEW i \in DOMAIN p, NEW j \in DOMAIN p, p[i].op = "unlock", j < i
               PROVE  p[j].op \in ClosedOps
  BY DEF Holding, p
<1>3. CASE i <= n
  <2>1. p[i] = new[i] /\ p[j] = new[j] /\ i \in DOMAIN new /\ j \in DOMAIN new
    BY <1>1, <1>2, <1>3
  <2> QED
    BY <1>2, <2>1 DEF Holding
<1>4. CASE i > n
  <2>1. p[i] = q[i - n + 1] /\ i - n + 1 \in DOMAIN q /\ 1 \in DOMAIN q /\ 1 < i - n + 1
    BY <1>1, <1>2, <1>4
  <2>2. q[1].op \in ClosedOps
    BY <1>2, <2>1 DEF Holding
  <2>3. CASE j <= n
    <3>1. p[j] = new[j] /\ j \in DOMAIN new
      BY <1>1, <1>2, <2>3
    <3> QED
      BY <1>1, <2>2, <3>1
  <2>4. CASE j > n
    <3>0. j \in (n + 1)..(n + Len(q) - 1) /\ i \in Int /\ n \in Nat /\ Len(q) \in Nat
      BY <1>1, <1>2, <2>4
    <3>1. p[j] = q[j - n + 1] /\ j - n + 1 \in 1..Len(q) /\ j - n + 1 < i - n + 1
      <4>1. p[j] = q[j - n + 1]
        BY <1>1, <3>0
      <4> QED
        BY <1>2, <3>0, <4>1
    <3>2. j - n + 1 \in DOMAIN q
      BY <1>1, <3>1
    <3> QED
      BY <1>2, <2>1, <3>1, <3>2 DEF Holding
  <2> QED
    BY <1>1, <1>2, <2>3, <2>4
<1> QED
  BY <1>1, <1>2, <1>3, <1>4

LEMMA ThenHolds ==
  ASSUME CallsOK, HoldersClose, NEW t \in Threads, todo[t] # <<>>,
         NEW S, NEW new \in Seq(S), Holding(new), Then(t, new),
         Head(todo[t]).op \in ClosedOps => \A i \in DOMAIN new : new[i].op \in ClosedOps
  PROVE  HoldersClose'
<1>1. todo \in [Threads -> Seq(CallSet)] /\ todo[t] \in Seq(CallSet)
  BY DEF CallsOK
<1>2. todo[t] \in Seq(S \cup CallSet) /\ new \in Seq(S \cup CallSet)
  BY <1>1, WiderSeq
<1>3. Holding(new \o Tail(todo[t]))
  BY <1>2, HoldingStays DEF HoldersClose
<1>4. todo'[t] = new \o Tail(todo[t]) /\ \A u \in Threads \ {t} : todo'[u] = todo[u]
  BY <1>1 DEF Then
<1> QED
  BY <1>3, <1>4 DEF HoldersClose

(* The forms the new calls of a thread have.                               *)
LeaveOps == {"leave", "unregister"}
NextIs(t, a) ==
  /\ Then(t, <<a>>) /\ a.op \notin LeaveOps
  /\ Head(todo[t]).op \in ClosedOps => a.op \in ClosedOps
NextAre(t, a, b) ==
  /\ Then(t, <<a, b>>) /\ (b.op = "unlock" => a.op \in ClosedOps)
  /\ Head(todo[t]).op \in ClosedOps => a.op \in ClosedOps /\ b.op \in ClosedOps
  /\ a.op \in LeaveOps => Head(todo[t]).op = "check"
ThreadMoves(t) ==
  \/ UNCHANGED todo
  \/ /\ todo[t] # <<>>
     /\ Then(t, <<>>) \/ (\E a : NextIs(t, a)) \/ \E a, b : NextAre(t, a, b)

LEMMA ShortHolds ==
  ASSUME CallsOK, HoldersClose, NEW t \in Threads, ThreadMoves(t)
  PROVE  HoldersClose'
<1>0. CASE UNCHANGED todo
  BY <1>0 DEF HoldersClose
<1>1. CASE todo[t] # <<>> /\ Then(t, <<>>)
  <2> DEFINE q == <<>>
  <2>1. q \in Seq({}) /\ DOMAIN q = {} /\ Then(t, q)
    BY <1>1
  <2> HIDE DEF q
  <2>2. Holding(q)
    BY <2>1 DEF Holding
  <2> QED
    BY <1>1, <2>1, <2>2, ThenHolds
<1>2. ASSUME todo[t] # <<>>, NEW a, NextIs(t, a) PROVE HoldersClose'
  <2> DEFINE q == <<a>>
  <2>1. q \in Seq({a}) /\ DOMAIN q = {1} /\ q[1] = a /\ Then(t, q)
    BY <1>2 DEF NextIs
  <2> HIDE DEF q
  <2>2. Holding(q)
    BY <2>1 DEF Holding
  <2> QED
    BY <1>2, <2>1, <2>2, ThenHolds DEF NextIs
<1>3. ASSUME todo[t] # <<>>, NEW a, NEW b, NextAre(t, a, b) PROVE HoldersClose'
  <2> DEFINE q == <<a, b>>
  <2>1. q \in Seq({a, b}) /\ DOMAIN q = {1, 2} /\ q[1] = a /\ q[2] = b /\ Then(t, q)
    BY <1>3 DEF NextAre
  <2> HIDE DEF q
  <2>2. Holding(q)
    BY <1>3, <2>1 DEF Holding, NextAre
  <2> QED
    BY <1>3, <2>1, <2>2, ThenHolds DEF NextAre
<1> QED
  BY <1>0, <1>1, <1>2, <1>3 DEF ThreadMoves

LEMMA OpsOfCalls ==
  /\ ClosedOps = {"end", "unlink", "check", "leave", "drop", "unregister"}
  /\ \A op, c, s : Call(op, c, s).op = op
  /\ \A c, k, s, b : Write(c, k, s, b).op = "write"
  /\ \A s, x : Copies(s, x).op = "copies"
BY DEF ClosedOps, EndingOps, Call, Write, Copies

LEMMA ThreadMovesWell ==
  ASSUME NEW t \in Threads, ThreadStep(t)
  PROVE  ThreadMoves(t)
<1> DEFINE h == Head(todo[t])
<1>1. CASE \/ Reread(t) \/ AskSubscription(t) \/ AskUnsubscription(t) \/ WriteDropped(t)
           \/ Unlock(t) \/ EndLeave(t) \/ EndUnregister(t)
  BY <1>1 DEF Reread, AskSubscription, AskUnsubscription, WriteDropped, Unlock, EndLeave,
              EndUnregister, Running, ThreadMoves
<1>2. CASE RegisterNew(t) \/ RegisterRefused(t) \/ StartCopies(t)
  <2> DEFINE a == Write(h.cnx, "CONNECTED", NewId, FALSE)
             b == Write(h.cnx, "ERROR", Null, TRUE)
             d == Copies(h.ses, subscribers[h.ses])
  <2>1. /\ todo[t] # <<>> /\ h.op \in {"register", "copy"}
        /\ Then(t, <<a>>) \/ Then(t, <<b>>) \/ Then(t, <<d>>)
    BY <1>2 DEF RegisterNew, RegisterRefused, StartCopies, Running, Answer, Refuse
  <2>2. a.op = "write" /\ b.op = "write" /\ d.op = "copies"
    BY DEF Write, Copies
  <2> HIDE DEF a, b, d
  <2> QED
    BY <2>1, <2>2, OpsOfCalls DEF ThreadMoves, NextIs, LeaveOps
<1>3. CASE RegisterAgain(t)
  <2>1. todo[t] # <<>> /\ h.op = "register" /\ ReplacePrevious(t, h, m_login_session[h.login])
    BY <1>3 DEF RegisterAgain, Running
  <2> DEFINE s == m_login_session[h.login]
             a == Write(Head(cnxs[s]), "ERROR", Null, TRUE)
             b == Write(h.cnx, "CONNECTED", s, FALSE)
  <2>2. UNCHANGED todo \/ Then(t, <<b>>) \/ Then(t, <<a>> \o <<b>>)
    BY <2>1 DEF ReplacePrevious, FrontOfEmpty, Answer
  <2>3. a.op = "write" /\ b.op = "write"
    BY DEF Write
  <2> HIDE DEF a, b, s
  <2>4. UNCHANGED todo \/ Then(t, <<b>>) \/ Then(t, <<a, b>>)
    BY <2>2, TwoInOrder
  <2> QED
    BY <2>1, <2>3, <2>4, OpsOfCalls DEF ThreadMoves, NextIs, NextAre, LeaveOps
<1>4. CASE SendToFront(t)
  <2> DEFINE a == Write(Head(cnxs[h.ses]), h.kind, h.ses, FALSE)
  <2>1. /\ todo[t] # <<>> /\ h.op = "front"
        /\ UNCHANGED todo \/ Then(t, <<>>) \/ Then(t, <<a>>)
    BY <1>4 DEF SendToFront, Running, FrontOfEmpty
  <2>2. a.op = "write"
    BY DEF Write
  <2> HIDE DEF a
  <2> QED
    BY <2>1, <2>2, OpsOfCalls DEF ThreadMoves, NextIs, LeaveOps
<1>5. CASE SendCopy(t)
  <2> DEFINE a(s) == ToFront(s, "MESSAGE")
             b(x) == Copies(h.ses, h.left \ {x})
  <2>1. /\ todo[t] # <<>> /\ h.op = "copies"
        /\ \/ Then(t, <<>>)
           \/ \E x : Then(t, <<b(x)>>)
           \/ \E x, s : Then(t, <<a(s)>> \o <<b(x)>>)
    BY <1>5 DEF SendCopy, Running
  <2>2. \A s, x : a(s).op = "front" /\ b(x).op = "copies"
    BY DEF ToFront, Copies
  <2> HIDE DEF a, b
  <2>3. ASSUME NEW x, NEW s, Then(t, <<a(s)>> \o <<b(x)>>) PROVE NextAre(t, a(s), b(x))
    BY <2>1, <2>2, <2>3, TwoInOrder, OpsOfCalls DEF NextAre, LeaveOps
  <2>4. ASSUME NEW x, Then(t, <<b(x)>>) PROVE NextIs(t, b(x))
    BY <2>1, <2>2, <2>4, OpsOfCalls DEF NextIs, LeaveOps
  <2> QED
    BY <2>1, <2>3, <2>4 DEF ThreadMoves
<1>6. CASE WriteOk(t) \/ WriteFails(t)
  <2> DEFINE a == Call("drop", h.cnx, Null)
             b == Call("unlock", h.cnx, Null)
  <2>1. todo[t] # <<>> /\ h.op = "write" /\ (Then(t, <<>>) \/ Then(t, <<a, b>>))
    BY <1>6 DEF WriteOk, WriteFails, Running, Close
  <2>2. a.op = "drop"
    BY OpsOfCalls
  <2> HIDE DEF a, b
  <2> QED
    BY <2>1, <2>2, OpsOfCalls DEF ThreadMoves, NextAre, LeaveOps
<1>7. CASE CloseThrows(t)
  BY <1>7 DEF CloseThrows, ThreadMoves
<1>8. CASE Drop(t) \/ EndFetch(t) \/ EndUnlink(t)
  <2> DEFINE a == Call("end", h.cnx, Null)
             b == Call("unlink", h.cnx, fetch_session_by_cnx(h.cnx))
             d == Call("check", h.cnx, h.ses)
  <2>1. todo[t] # <<>> /\ (Then(t, <<>>) \/ Then(t, <<a>>) \/ Then(t, <<b>>) \/ Then(t, <<d>>))
    BY <1>8 DEF Drop, EndFetch, EndUnlink, Running
  <2>2. a.op = "end" /\ b.op = "unlink" /\ d.op = "check"
    BY DEF Call
  <2> HIDE DEF a, b, d
  <2> QED
    BY <2>1, <2>2, OpsOfCalls DEF ThreadMoves, NextIs, LeaveOps
<1>9. CASE EndCheck(t)
  <2> DEFINE a == Call("leave", h.cnx, h.ses)
             b == Call("unregister", h.cnx, h.ses)
  <2>1. todo[t] # <<>> /\ h.op = "check" /\ (Then(t, <<>>) \/ Then(t, <<a, b>>))
    BY <1>9 DEF EndCheck, Running
  <2>2. a.op = "leave" /\ b.op = "unregister"
    BY OpsOfCalls
  <2> HIDE DEF a, b
  <2> QED
    BY <2>1, <2>2, OpsOfCalls DEF ThreadMoves, NextAre, LeaveOps
<1> QED
  BY <1>1, <1>2, <1>3, <1>4, <1>5, <1>6, <1>7, <1>8, <1>9 DEF ThreadStep

(* A frame is handled by a thread that had nothing to do; nothing of what  *)
(* its handler calls is an unlock.                                         *)
LEMMA FrameHolds ==
  ASSUME RegistryTypeOK, CallsOK, HoldersClose, NEW c \in Conns, Frame(c)
  PROVE  HoldersClose'
<1> DEFINE t == ServerOf(c)
<1>1. /\ t \in Threads /\ Pend(t) = {}
      /\ \E new : Moves(t, new) /\ FrameCalls(c, new)
  BY FrameDoes, ServerOfType
<1>2. PICK new : Moves(t, new) /\ FrameCalls(c, new)
  BY <1>1
<1>3. \A r \in Pend(t)' : r.op # "unlock"
  BY <1>1, <1>2 DEF Moves, FrameCalls, FrameOps
<1>4. todo' \in [Threads -> Seq(CallSet)] /\ \A u \in Threads \ {t} : todo'[u] = todo[u]
  <2>1. \E calls : ReadFrame(c, calls)
    BY DEF Frame, Receive, BadFrame, proccess_connect, proccess_disconnect, proccess_send_message,
           proccess_subscribe, proccess_unsubscribe
  <2>2. todo' \in [Threads -> Seq(CallSet)]
    BY <1>2 DEF Moves
  <2> QED
    BY <2>1, <2>2, <1>1 DEF ReadFrame, CallsOK
<1>5. Holding(todo'[t])
  <2>1. \A i \in DOMAIN todo'[t] : todo'[t][i] \in Pend(t)'
    BY DEF Pend, Range
  <2> QED
    BY <1>3, <2>1 DEF Holding
<1> QED
  BY <1>4, <1>5 DEF HoldersClose

LEMMA HoldersStep ==
  ASSUME BrokerInv, HoldersClose, [BrokerNext]_vars
  PROVE  HoldersClose'
<1>0. RegistryTypeOK /\ CallsOK /\ todo \in [Threads -> Seq(CallSet)]
  BY DEF BrokerInv, CallsOK
<1>o. ASSUME NEW t \in Threads, NEW a, todo' = [todo EXCEPT ![t] = <<a>>]
      PROVE  HoldersClose'
  <2>1. DOMAIN <<a>> = {1}
    OBVIOUS
  <2>2. Holding(<<a>>)
    BY <2>1 DEF Holding
  <2>3. todo'[t] = <<a>> /\ \A u \in Threads \ {t} : todo'[u] = todo[u]
    BY <1>0, <1>o
  <2> QED
    BY <2>2, <2>3 DEF HoldersClose
<1>1. ASSUME NEW c \in Conns, Accept(c) PROVE HoldersClose'
  BY <1>1 DEF Accept, HoldersClose
<1>2. ASSUME NEW c \in Conns, ReadError(c) PROVE HoldersClose'
  BY <1>2, <1>o, ServerOfType DEF ReadError
<1>3. ASSUME NEW c \in Conns, Frame(c) PROVE HoldersClose'
  BY <1>0, <1>3, FrameHolds
<1>4. ASSUME NEW t \in Threads, ThreadStep(t) PROVE HoldersClose'
  BY <1>0, <1>4, ThreadMovesWell, ShortHolds
<1>5. CASE WorkerTask
  BY <1>5, WorkerTaskDoes DEF HoldersClose, brokerVars
<1>6. CASE WorkerEnd
  <2>1. CASE task.send_call_back
    <3>1. todo' = [todo EXCEPT !["worker"] = <<ToFront(task.owner, "ACK")>>]
      BY <1>6, <2>1 DEF WorkerEnd
    <3> QED
      BY <1>o, <3>1 DEF Threads
  <2>2. CASE ~task.send_call_back
    <3>1. todo' = [todo EXCEPT !["worker"] = <<>>]
      BY <1>6, <2>2 DEF WorkerEnd
    <3>2. todo'["worker"] = <<>> /\ \A u \in Threads \ {"worker"} : todo'[u] = todo[u]
      BY <1>0, <3>1 DEF Threads
    <3>3. Holding(<<>>)
      BY DEF Holding
    <3> QED
      BY <3>2, <3>3 DEF HoldersClose
  <2> QED
    BY <2>1, <2>2
<1>7. CASE UNCHANGED vars
  BY <1>7 DEF HoldersClose, vars, brokerVars
<1> QED
  BY <1>1, <1>2, <1>3, <1>4, <1>5, <1>6, <1>7 DEF BrokerNext

LEMMA HoldersRun ==
  ASSUME CallsOK, HoldersClose
  PROVE  WritersWaitForRunners
<1>1. SUFFICES ASSUME NEW t \in Threads, Blocked(t), NEW c, NEW u \in m_mtx_write(c)
               PROVE  u # t /\ ~Blocked(u)
  BY DEF WritersWaitForRunners
<1>2. u \in Threads /\ Call("unlock", c, Null) \in Range(todo[u]) /\ Call("unlock", c, Null).op = "unlock"
  BY <1>1 DEF m_mtx_write, Call
<1>3. PICK i \in DOMAIN todo[u] : todo[u][i].op = "unlock"
  BY <1>2 DEF Range
<1>4. todo[u] \in Seq(CallSet)
  BY <1>2 DEF CallsOK
<1>5. 1 \in DOMAIN todo[u] /\ Head(todo[u]) = todo[u][1] /\ (i = 1 \/ 1 < i)
  BY <1>3, <1>4
<1>6. Head(todo[u]).op \in ClosedOps \cup {"unlock"}
  BY <1>2, <1>3, <1>5 DEF HoldersClose, Holding
<1>7. Head(todo[u]).op # "write"
  BY <1>6, OpsOfCalls
<1> QED
  BY <1>1, <1>7 DEF Blocked, Running

(* Threads that write to one connection never wait for each other: the one *)
(* that holds the write mutex has only the end of the connection to deal   *)
(* with, logins repeated on one connection included.                       *)
THEOREM WritersWaitForRunnersCorrect == BrokerSpec => []WritersWaitForRunners
<1>1. BrokerInit => BrokerInv /\ HoldersClose
  <2>1. BrokerInit => HoldersClose
    BY DEF BrokerInit, HoldersClose, Holding
  <2> QED
    BY <2>1, BrokerInvInit
<1>2. BrokerInv /\ HoldersClose /\ [BrokerNext]_vars => BrokerInv' /\ HoldersClose'
  BY BrokerInvStep, HoldersStep
<1>3. BrokerInv /\ HoldersClose => WritersWaitForRunners
  BY HoldersRun DEF BrokerInv
<1> QED
  BY <1>1, <1>2, <1>3, PTL DEF BrokerSpec

-----------------------------------------------------------------------------
(* The end of the exclusive sessions.  A thread that is about to remove    *)
(* one found its list empty, and nothing joins it since.                   *)
Exclusive(s) == profile[s] \in {service, admin}
EndedAreEmpty ==
  \A t \in Threads : Now(t).op \in LeaveOps =>
    \A s \in m_sessions : Now(t).ses = s /\ Exclusive(s) => cnxs[s] = <<>>

LEMMA HeadFirst ==
  ASSUME NEW S, NEW q \in Seq(S), NEW a
  PROVE  /\ <<a>> \o q # <<>> /\ Head(<<a>> \o q) = a
         /\ \A b : <<a, b>> \o q # <<>> /\ Head(<<a, b>> \o q) = a
<1>1. q \in Seq(S \cup {a})
  BY WiderSeq
<1>2. <<a>> \in Seq(S \cup {a})
  OBVIOUS
<1>3. <<a>> \o q # <<>> /\ Head(<<a>> \o q) = a
  BY <1>1, <1>2
<1>4. ASSUME NEW b PROVE <<a, b>> \o q # <<>> /\ Head(<<a, b>> \o q) = a
  <2>1. q \in Seq(S \cup {a, b})
    BY WiderSeq
  <2>2. <<a, b>> \in Seq(S \cup {a, b})
    OBVIOUS
  <2> QED
    BY <2>1, <2>2
<1> QED
  BY <1>3, <1>4

(* Only the test of on_connection_end leads to the removal of a session.   *)
LEMMA LeavesFollowChecks ==
  ASSUME CallsOK, NEW t \in Threads, ThreadStep(t), Now(t).op \notin {"check", "leave"}
  PROVE  UNCHANGED todo \/ Now(t)'.op \notin LeaveOps
<1>0. todo \in [Threads -> Seq(CallSet)] /\ (todo[t] # <<>> => Now(t) = Head(todo[t]))
  BY DEF CallsOK, Now
<1>1. ASSUME NEW a, NEW b, Then(t, <<a>>) \/ Then(t, <<a, b>>), todo[t] # <<>> PROVE Now(t)' = a
  <2>1. Tail(todo[t]) \in Seq(CallSet)
    BY <1>0, <1>1
  <2>2. todo'[t] = <<a>> \o Tail(todo[t]) \/ todo'[t] = <<a, b>> \o Tail(todo[t])
    BY <1>0, <1>1 DEF Then
  <2> QED
    BY <2>1, <2>2, HeadFirst DEF Now
<1>2. CASE todo[t] # <<>> /\ Then(t, <<>>)
  <2>1. Moves(t, <<>>)
    BY <1>2, Done
  <2> QED
    BY <2>1 DEF Moves, Later, LeaveOps
<1>3. ASSUME todo[t] # <<>>, NEW a, NextIs(t, a) PROVE Now(t)'.op \notin LeaveOps
  BY <1>1, <1>3 DEF NextIs
<1>4. ASSUME todo[t] # <<>>, NEW a, NEW b, NextAre(t, a, b) PROVE Now(t)'.op \notin LeaveOps
  BY <1>0, <1>1, <1>4 DEF NextAre
<1> QED
  BY <1>2, <1>3, <1>4, ThreadMovesWell DEF ThreadMoves

LEMMA ChecksAndLeaves ==
  ASSUME NEW t \in Threads, ThreadStep(t)
  PROVE  /\ Now(t).op = "check" => EndCheck(t)
         /\ Now(t).op = "leave" => EndLeave(t)
<1>1. ASSUME NEW op, Running(t, op) PROVE Now(t).op = op
  BY <1>1 DEF Running, Now
<1>2. \/ EndCheck(t) \/ EndLeave(t)
      \/ Now(t).op \in {"read", "register", "front", "copy", "copies", "subscribe",
                         "unsubscribe", "write", "unlock", "drop", "end", "unlink", "unregister"}
  <2>1. \/ EndCheck(t) \/ EndLeave(t)
        \/ Running(t, "read") \/ Running(t, "register") \/ Running(t, "front")
        \/ Running(t, "copy") \/ Running(t, "copies") \/ Running(t, "subscribe")
        \/ Running(t, "unsubscribe") \/ Running(t, "write") \/ Running(t, "unlock")
        \/ Running(t, "drop") \/ Running(t, "end") \/ Running(t, "unlink")
        \/ Running(t, "unregister")
    BY Zenon DEF ThreadStep, Reread, RegisterNew, RegisterAgain, RegisterRefused, SendToFront,
      StartCopies, SendCopy, AskSubscription, AskUnsubscription, WriteDropped, WriteOk,
      WriteFails, CloseThrows, Unlock, Drop, EndFetch, EndUnlink, EndUnregister
  <2> QED
    BY <1>1, <2>1
<1>3. (EndCheck(t) => Running(t, "check")) /\ (EndLeave(t) => Running(t, "leave"))
  BY DEF EndCheck, EndLeave
<1> QED
  BY <1>1, <1>2, <1>3

(* An exclusive session that is empty stays empty: its logins are refused. *)
LEMMA ExclusiveStaysEmpty ==
  ASSUME RegistryTypeOK, [RegistryNext]_sessionVars, NEW s \in 1..created, s \in m_sessions',
         Exclusive(s)'
  PROVE  s \in m_sessions /\ Exclusive(s) /\ (cnxs[s] = <<>> => cnxs'[s] = <<>>)
<1>0. /\ s \in Sessions /\ s # NewId /\ created \in Nat
      /\ cnxs \in [Sessions -> Seq(Conns)] /\ profile \in [Sessions -> empty..admin]
  <2>1. created \in 0..MaxSession /\ MaxSession \in Nat
    BY BoundsAssumption DEF RegistryTypeOK
  <2>2. s # NewId /\ s \in 1..MaxSession
    BY <2>1 DEF NewId
  <2>3. s \in Sessions /\ created \in Nat
    BY <2>1, <2>2 DEF Sessions, Sids
  <2>4. cnxs \in [Sessions -> Seq(Conns)] /\ profile \in [Sessions -> empty..admin]
    BY DEF RegistryTypeOK
  <2> QED
    BY <2>2, <2>3, <2>4
<1>1. CASE UNCHANGED sessionVars
  BY <1>1 DEF sessionVars, sessionFields, registryMaps, Exclusive
<1>2. ASSUME NEW c \in Conns, NEW l \in Logins, NEW p \in Profiles, OpenSession(c, l, p)
      PROVE  s \in m_sessions /\ Exclusive(s) /\ (cnxs[s] = <<>> => cnxs'[s] = <<>>)
  BY <1>0, <1>2 DEF OpenSession, Exclusive
<1>3. ASSUME NEW c \in Conns, NEW l \in Logins, NEW p \in Profiles, TakeOverSession(c, l, p)
      PROVE  s \in m_sessions /\ Exclusive(s) /\ (cnxs[s] = <<>> => cnxs'[s] = <<>>)
  <2>1. profile[m_login_session[l]] \in {agent, super_agent}
    BY <1>3 DEF TakeOverSession, RegisterOutcome
  <2>2. UNCHANGED <<profile, m_sessions>>
    BY <1>3 DEF TakeOverSession, sessionFields, registryMaps
  <2>3. s # m_login_session[l]
    BY <2>1, <2>2 DEF Exclusive, agent, super_agent, service, admin
  <2>4. cnxs'[s] = cnxs[s]
    BY <1>0, <1>3, <2>3 DEF TakeOverSession
  <2> QED
    BY <2>2, <2>4 DEF Exclusive
<1>4. ASSUME NEW l \in Logins, NEW p \in Profiles, RefuseLogin(l, p)
      PROVE  UNCHANGED sessionVars
  BY <1>4 DEF RefuseLogin
<1>5. ASSUME NEW c \in Conns, unregister_session(c)
      PROVE  s \in m_sessions /\ Exclusive(s) /\ (cnxs[s] = <<>> => cnxs'[s] = <<>>)
  BY <1>1, <1>5 DEF unregister_session, ForgetSession, sessionFields, Exclusive
<1>6. ASSUME NEW c \in Conns, NEW x \in 0..created, UnlinkConnection(x, c)
      PROVE  s \in m_sessions /\ Exclusive(s) /\ (cnxs[s] = <<>> => cnxs'[s] = <<>>)
  <2>1. UNCHANGED <<profile, m_sessions>>
    BY <1>6 DEF UnlinkConnection, sessionFields, registryMaps
  <2>2. CASE UNCHANGED cnxs
    BY <2>1, <2>2 DEF Exclusive
  <2>3. ASSUME NEW i \in DOMAIN cnxs[x], cnxs' = [cnxs EXCEPT ![x] = RemoveAt(@, i)]
        PROVE  s \in m_sessions /\ Exclusive(s) /\ (cnxs[s] = <<>> => cnxs'[s] = <<>>)
    <3>1. x = s => cnxs[s] # <<>>
      BY <2>3
    <3>2. x # s => cnxs'[s] = cnxs[s]
      BY <1>0, <2>3
    <3> QED
      BY <2>1, <3>1, <3>2 DEF Exclusive
  <2> QED
    BY <1>6, <2>2, <2>3 DEF UnlinkConnection
<1> QED
  BY <1>1, <1>2, <1>3, <1>4, <1>5, <1>6 DEF RegistryNext, register_session

LEMMA EmptyAreEnded ==
  ASSUME FullInv, EndedAreEmpty, [BrokerNext]_vars
  PROVE  EndedAreEmpty'
<1>0. RegistryTypeOK /\ SubscriptionTypeOK /\ CallsOK /\ created \in Nat
  BY CreatedFacts DEF FullInv, BrokerInv
<1>1. [RegistryNext]_sessionVars
  BY <1>0, BrokerUsesManagers DEF ManagersNext, allVars, FullInv, BrokerInv
<1>2. RegistryTypeOK'
  BY <1>0, <1>1, TypeStep
<1>3. SUFFICES ASSUME NEW u \in Threads, Now(u)'.op \in LeaveOps, NEW s \in m_sessions',
                      Now(u)'.ses = s, Exclusive(s)'
               PROVE  cnxs'[s] = <<>>
  BY DEF EndedAreEmpty, Exclusive
<1>4. ASSUME Now(u).op \in LeaveOps, Now(u).ses = s PROVE cnxs'[s] = <<>>
  <2>1. Now(u) \in Pend(u) /\ Now(u).op \in CnxOps
    BY <1>0, <1>4, NowCases DEF LeaveOps, AboutCnx, CnxOps
  <2>2. s <= created
    BY <1>0, <1>4, <2>1 DEF CallsOK, IdsOK
  <2>3. s \in 1..created
    <3>1. m_sessions' \subseteq 1..created'
      BY <1>2 DEF RegistryTypeOK
    <3>2. created' \in 0..MaxSession
      BY <1>2 DEF RegistryTypeOK
    <3>3. created' \in Nat
      BY <3>2, BoundsAssumption
    <3> QED
      BY <1>0, <1>3, <2>2, <3>1, <3>3
  <2>4. s \in m_sessions /\ Exclusive(s) /\ (cnxs[s] = <<>> => cnxs'[s] = <<>>)
    BY <1>0, <1>1, <1>3, <2>3, ExclusiveStaysEmpty
  <2> QED
    BY <1>4, <2>4 DEF EndedAreEmpty
<1>5. ASSUME NEW t \in Threads, ThreadStep(t), u = t PROVE cnxs'[s] = <<>>
  <2>1. CASE UNCHANGED todo
    BY <1>3, <1>4, <1>5, <2>1 DEF Now
  <2>2. CASE EndCheck(t)
    <3> DEFINE a == Call("leave", Now(t).cnx, Now(t).ses)
               b == Call("unregister", Now(t).cnx, Now(t).ses)
    <3>1. /\ UNCHANGED cnxs
          /\ \/ cnxs[Now(t).ses] = <<>> /\ Moves(t, <<a, b>>)
             \/ Moves(t, <<>>)
      BY <1>0, <2>2, EndCheckDoes DEF allVars, sessionVars
    <3>2. a.ses = Now(t).ses
      BY DEF Call
    <3> HIDE DEF a, b
    <3>3. ~Moves(t, <<>>)
      BY <1>3, <1>5 DEF Moves, Later, LeaveOps
    <3>4. Now(t)' = a
      BY <3>1, <3>3 DEF Moves
    <3> QED
      BY <1>3, <1>5, <3>1, <3>2, <3>3, <3>4
  <2>3. CASE EndLeave(t)
    <3> DEFINE a == Call("unregister", Now(t).cnx, Now(t).ses)
    <3>1. Now(t).op = "leave" /\ Moves(t, <<a>>)
      BY <1>0, <2>3, EndLeaveDoes
    <3>2. a.ses = Now(t).ses
      BY DEF Call
    <3> HIDE DEF a
    <3>3. Now(t)' = a
      BY <3>1 DEF Moves
    <3> QED
      BY <1>3, <1>4, <1>5, <3>1, <3>2, <3>3 DEF LeaveOps
  <2> QED
    BY <1>0, <1>3, <1>5, <2>1, <2>2, <2>3, LeavesFollowChecks, ChecksAndLeaves
<1>6. ASSUME NEW t \in Threads, u # t, \E new : Moves(t, new) PROVE cnxs'[s] = <<>>
  BY <1>3, <1>4, <1>6 DEF Moves
<1>7. ASSUME NEW t \in Threads, ThreadStep(t), u # t PROVE cnxs'[s] = <<>>
  <2>1. Now(u)' = Now(u)
    BY <1>0, <1>7, ThreadMovesWell DEF ThreadMoves, Then, Now, NextIs, NextAre, CallsOK
  <2> QED
    BY <1>3, <1>4, <2>1
<1>8. CASE UNCHANGED todo
  BY <1>3, <1>4, <1>8 DEF Now
<1>9. ASSUME NEW c \in Conns, ReadError(c) \/ Frame(c) PROVE cnxs'[s] = <<>>
  <2>0. ServerOf(c) \in Threads
    BY ServerOfType
  <2>1. CASE ReadError(c)
    <3>1. Moves(ServerOf(c), <<Call("drop", c, Null)>>) /\ Call("drop", c, Null).op = "drop"
      BY <1>0, <2>1, ReadErrorDoes, OpsOfCalls
    <3>2. Now(ServerOf(c))'.op = "drop"
      BY <3>1 DEF Moves
    <3> QED
      BY <1>3, <1>6, <2>0, <3>1, <3>2 DEF LeaveOps
  <2>2. CASE Frame(c)
    <3>1. PICK new : Moves(ServerOf(c), new) /\ FrameCalls(c, new)
      BY <1>0, <2>2, FrameDoes
    <3>2. Now(ServerOf(c))'.op \notin LeaveOps
      BY <3>1 DEF Moves, FrameCalls, FrameOps, LeaveOps
    <3> QED
      BY <1>3, <1>6, <2>0, <3>1, <3>2
  <2> QED
    BY <1>9, <2>1, <2>2
<1>10. CASE WorkerEnd
  <2>1. Moves("worker", <<ToFront(task.owner, "ACK")>>) \/ Moves("worker", <<>>)
    BY <1>0, <1>10, WorkerEndDoes
  <2>2. ToFront(task.owner, "ACK").op = "front"
    BY DEF ToFront
  <2>3. Now("worker")'.op \notin LeaveOps
    BY <2>1, <2>2 DEF Moves, Later, LeaveOps
  <2> QED
    BY <1>3, <1>6, <2>1, <2>3 DEF Threads
<1>11. ASSUME NEW c \in Conns, Accept(c) PROVE cnxs'[s] = <<>>
  BY <1>8, <1>11 DEF Accept
<1>12. WorkerTask \/ UNCHANGED vars => UNCHANGED todo
  BY WorkerTaskDoes DEF vars, brokerVars
<1> QED
  BY <1>5, <1>7, <1>8, <1>9, <1>10, <1>11, <1>12 DEF BrokerNext

(* Only the removal that ends a session takes it out of the registry.      *)
LEMMA RemovalsAreEnds ==
  ASSUME FullInv, EndedAreEmpty, [BrokerNext]_vars, NEW s \in m_sessions, s \notin m_sessions',
         Exclusive(s)
  PROVE  cnxs[s] = <<>>
<1>0. RegistryTypeOK /\ SubscriptionTypeOK /\ CallsOK /\ EndsHoldSession
  BY DEF FullInv, BrokerInv, SessionsOK
<1>1. PICK t \in Threads : EndUnregister(t)
  <2>1. ASSUME NEW t \in Threads, ThreadStep(t), ~EndUnregister(t) PROVE m_sessions \subseteq m_sessions'
    BY <2>1 DEF ThreadStep, Reread, RegisterNew, RegisterAgain, RegisterRefused, SendToFront,
      StartCopies, SendCopy, AskSubscription, AskUnsubscription, WriteDropped, WriteOk,
      WriteFails, CloseThrows, Unlock, Drop, EndFetch, EndUnlink, EndCheck, EndLeave,
      OpenSession, TakeOverSession, RefuseLogin, UnlinkConnection, allVars, sessionVars,
      registryMaps
  <2>2. ASSUME NEW c \in Conns, Accept(c) \/ ReadError(c) \/ \E calls : ReadFrame(c, calls)
        PROVE  m_sessions' = m_sessions
    BY <2>2 DEF Accept, ReadError, ReadFrame, allVars, sessionVars, registryMaps
  <2>3. ASSUME NEW c \in Conns, Frame(c) PROVE \E calls : ReadFrame(c, calls)
    BY <2>3 DEF Frame, Receive, BadFrame, proccess_connect, proccess_disconnect, proccess_send_message,
           proccess_subscribe, proccess_unsubscribe
  <2>4. WorkerTask \/ WorkerEnd \/ UNCHANGED vars => m_sessions' = m_sessions
    BY DEF WorkerTask, WorkerEnd, vars, allVars, sessionVars, registryMaps
  <2> QED
    BY <2>1, <2>2, <2>3, <2>4 DEF BrokerNext
<1>2. /\ Now(t).op = "unregister" /\ Now(t).cnx \in Conns /\ unregister_session(Now(t).cnx)
  BY <1>0, <1>1, EndUnregisterDoes
<1>3. m_sessions' = m_sessions \ {fetch_session_by_cnx(Now(t).cnx)}
  BY <1>2 DEF unregister_session, ForgetSession, sessionVars, registryMaps
<1>4. fetch_session_by_cnx(Now(t).cnx) = s
  BY <1>3
<1>5. m_cnx_session[Now(t).cnx] = s
  BY <1>0, <1>4, LiveIsSession DEF fetch_session_by_cnx, fetch_session_by_id
<1>6. Now(t).ses = s
  BY <1>0, <1>2, <1>5 DEF EndsHoldSession, HeldOps
<1> QED
  BY <1>2, <1>6 DEF EndedAreEmpty, LeaveOps

(* Where a connection logs in once, no thread takes the session of a       *)
(* service or an administrator from the client that holds it.  That is not *)
(* so of a session that agents share: another may join it between the test *)
(* of its list and its removal.                                            *)
THEOREM ExclusiveSessionsEndEmptyCorrect ==
  ~Relogin => (BrokerSpec => ExclusiveSessionsEndEmpty)
<1> SUFFICES ASSUME ~Relogin PROVE BrokerSpec => ExclusiveSessionsEndEmpty
  OBVIOUS
<1>1. BrokerInit => EndedAreEmpty
  BY DEF BrokerInit, ManagersInit, RegistryInit, EndedAreEmpty
<1>2. FullInv /\ EndedAreEmpty /\ [BrokerNext]_vars => EndedAreEmpty'
  BY EmptyAreEnded
<1>3. FullInv /\ EndedAreEmpty /\ [BrokerNext]_vars
        => [\A s \in m_sessions :
              s \notin m_sessions' /\ profile[s] \in {service, admin} => cnxs[s] = <<>>]_vars
  BY RemovalsAreEnds DEF Exclusive
<1>4. BrokerSpec => []FullInv
  BY SessionsInvariant
<1> QED
  BY <1>1, <1>2, <1>3, <1>4, PTL DEF BrokerSpec, ExclusiveSessionsEndEmpty

-----------------------------------------------------------------------------
(* Frames are taken to sessions.  A connection is bound to the session it was  *)
(* told, or, before that, to the one its answer will tell it; once it is   *)
(* closed it is told nothing more.                                         *)
AnswerTo(r, c) == r.op = "write" /\ r.cnx = c /\ r.kind = "CONNECTED"
Bound(c, s) ==
  /\ s # Null
  /\ \/ told[c] = s
     \/ /\ told[c] = Null
        /\ \/ socket[c] = "closed"
           \/ \E t \in Threads : \E r \in Pend(t) : AnswerTo(r, c) /\ r.ses = s
Names(r) == r.op = "write" /\ (r.ses # Null \/ r.kind = "CONNECTED")

WritesBound == \A t \in Threads : \A r \in Pend(t) : Names(r) => Bound(r.cnx, r.ses)
OneAnswer ==
  \A c \in Conns : \A t, u \in Threads : \A r \in Pend(t), q \in Pend(u) :
    AnswerTo(r, c) /\ AnswerTo(q, c) => r.ses = q.ses
Led(c, s) ==                 \* what leads from c to s and back
  \/ s # Null /\ m_cnx_session[c] = s
  \/ \E i \in DOMAIN cnxs[s] : cnxs[s][i] = c
ListsBound == ~crashed => \A c \in Conns, s \in Sessions : Led(c, s) => Bound(c, s)
FramesBound == WritesBound /\ OneAnswer /\ ListsBound

(* A step of t that keeps what binds the connections: the answer it takes  *)
(* from its calls is given, or the connection closed.                      *)
KeepsBonds(t) ==
  /\ \A u \in Threads \ {t} : Pend(u)' = Pend(u)
  /\ \A r \in Pend(t) : r # Now(t) => r \in Pend(t)'
  /\ \A c \in Conns :
       /\ socket[c] = "closed" => socket'[c] = "closed" /\ told'[c] = told[c]
       /\ \/ told'[c] = told[c]
          \/ Now(t) \in Pend(t) /\ AnswerTo(Now(t), c) /\ told'[c] = Now(t).ses
       /\ \/ Now(t) \in Pend(t)' \/ ~AnswerTo(Now(t), c)
          \/ told'[c] = Now(t).ses \/ socket'[c] = "closed"

LEMMA BondsStay ==
  ASSUME FramesBound, NEW t \in Threads, KeepsBonds(t), NEW c \in Conns, NEW s, Bound(c, s)
  PROVE  Bound(c, s)'
<1>0. /\ WritesBound /\ OneAnswer /\ s # Null
      /\ socket[c] = "closed" => socket'[c] = "closed" /\ told'[c] = told[c]
      /\ \/ told'[c] = told[c]
         \/ Now(t) \in Pend(t) /\ AnswerTo(Now(t), c) /\ told'[c] = Now(t).ses
      /\ \/ Now(t) \in Pend(t)' \/ ~AnswerTo(Now(t), c)
         \/ told'[c] = Now(t).ses \/ socket'[c] = "closed"
  BY DEF FramesBound, KeepsBonds, Bound
<1>n. Now(t) \in Pend(t) /\ AnswerTo(Now(t), c) => Bound(c, Now(t).ses)
  BY <1>0 DEF WritesBound, AnswerTo, Names
<1>1. CASE told[c] = s
  <2>1. Now(t) \in Pend(t) /\ AnswerTo(Now(t), c) => Now(t).ses = s
    BY <1>0, <1>1, <1>n DEF Bound
  <2>2. told'[c] = s
    BY <1>0, <1>1, <2>1
  <2> QED
    BY <1>0, <2>2 DEF Bound
<1>2. CASE told[c] = Null /\ socket[c] = "closed"
  BY <1>0, <1>2 DEF Bound
<1>3. CASE told[c] = Null /\ \E u \in Threads : \E r \in Pend(u) : AnswerTo(r, c) /\ r.ses = s
  <2>1. PICK u \in Threads : \E r \in Pend(u) : AnswerTo(r, c) /\ r.ses = s
    BY <1>3
  <2>2. PICK r \in Pend(u) : AnswerTo(r, c) /\ r.ses = s
    BY <2>1
  <2>3. Now(t) \in Pend(t) /\ AnswerTo(Now(t), c) => Now(t).ses = s
    BY <1>0, <2>2 DEF OneAnswer
  <2>4. told'[c] = Null \/ told'[c] = s
    BY <1>0, <1>3, <2>3
  <2>5. CASE r \in Pend(u)'
    BY <1>0, <2>2, <2>4, <2>5 DEF Bound
  <2>6. CASE r \notin Pend(u)'
    <3>1. u = t /\ r = Now(t)
      BY <2>2, <2>6 DEF KeepsBonds
    <3>2. told'[c] = s \/ socket'[c] = "closed"
      BY <1>0, <2>2, <2>6, <3>1
    <3> QED
      BY <1>0, <2>4, <3>2 DEF Bound
  <2> QED
    BY <2>5, <2>6
<1> QED
  BY <1>1, <1>2, <1>3 DEF Bound

(* Such a step whose new frames and new entries are bound.                *)
LEMMA BondsKept ==
  ASSUME FramesBound, CallsOK, NEW t \in Threads, KeepsBonds(t), crashed => crashed', OneAnswer',
         \A r \in Pend(t)' : Names(r) =>
           \/ r \in Pend(t)
           \/ r.cnx \in Conns /\ Bound(r.cnx, r.ses)
           \/ Bound(r.cnx, r.ses)',
         ~crashed' => \A c \in Conns, s \in Sessions : Led(c, s)' => Led(c, s) \/ Bound(c, s)'
  PROVE  FramesBound'
<1>0. WritesBound /\ OneAnswer /\ ListsBound
  BY DEF FramesBound
<1>1. \A u \in Threads : \A r \in Pend(u) : Names(r) => r.cnx \in Conns
  BY CallFields DEF CallsOK, Pend, Range, Names
<1>2. \A u \in Threads : u # t => Pend(u)' = Pend(u)
  BY DEF KeepsBonds
<1>3. WritesBound'
  <2>1. SUFFICES ASSUME NEW u \in Threads, NEW r \in Pend(u)', Names(r)
                 PROVE  Bound(r.cnx, r.ses)'
    BY DEF WritesBound, Names
  <2>2. Bound(r.cnx, r.ses)' \/ (Bound(r.cnx, r.ses) /\ r.cnx \in Conns)
    BY <1>0, <1>1, <1>2, <2>1 DEF WritesBound
  <2> QED
    BY <2>2, BondsStay
<1>4. ListsBound'
  <2>1. SUFFICES ASSUME ~crashed', NEW c \in Conns, NEW s \in Sessions, Led(c, s)'
                 PROVE  Bound(c, s)'
    BY DEF ListsBound
  <2>2. Bound(c, s)' \/ Bound(c, s)
    BY <1>0, <2>1 DEF ListsBound
  <2> QED
    BY <2>2, BondsStay
<1> QED
  BY <1>3, <1>4 DEF FramesBound

(* A call that a step may add: it answers no CONNECT.                      *)
WellBound(a) == Names(a) => a.kind # "CONNECTED" /\ a.cnx \in Conns /\ Bound(a.cnx, a.ses)
NotLonger == \A c \in Conns, s \in Sessions : Led(c, s)' => Led(c, s)

LEMMA MovesBonds ==
  ASSUME FramesBound, CallsOK, NEW t \in Threads, NEW new, Moves(t, new), crashed => crashed', NotLonger,
         UNCHANGED told, \A c \in Conns : socket[c] = "closed" => socket'[c] = "closed",
         Now(t).op = "write" => socket'[Now(t).cnx] = "closed",
         \A a \in Range(new) : WellBound(a)
  PROVE  FramesBound'
<1>1. KeepsBonds(t)
  <2>1. \A c \in Conns : AnswerTo(Now(t), c) => socket'[c] = "closed"
    BY DEF AnswerTo
  <2> QED
    BY <2>1 DEF KeepsBonds, Moves
<1>2. \A r \in Pend(t)' : r \in Pend(t) \/ WellBound(r)
  BY DEF Moves
<1>3. \A u \in Threads : u # t => Pend(u)' = Pend(u)
  BY DEF Moves
<1>4. OneAnswer'
  <2>1. \A u \in Threads : \A r \in Pend(u)' : r.op = "write" /\ r.kind = "CONNECTED" => r \in Pend(u)
    BY <1>2, <1>3 DEF Names, WellBound
  <2> QED
    BY <2>1 DEF OneAnswer, AnswerTo, FramesBound
<1> QED
  BY <1>1, <1>2, <1>4, BondsKept DEF WellBound, NotLonger

LEMMA ShortBonds ==
  ASSUME FramesBound, CallsOK, NEW t \in Threads, crashed => crashed', NotLonger,
         UNCHANGED told, \A c \in Conns : socket[c] = "closed" => socket'[c] = "closed",
         Now(t).op = "write" => socket'[Now(t).cnx] = "closed",
         \/ Moves(t, <<>>)
         \/ \E a : Moves(t, <<a>>) /\ WellBound(a)
         \/ \E a, b : Moves(t, <<a, b>>) /\ WellBound(a) /\ WellBound(b)
  PROVE  FramesBound'
<1>1. CASE Moves(t, <<>>)
  <2> DEFINE q == <<>>
  <2>1. Moves(t, q) /\ \A x \in Range(q) : WellBound(x)
    BY <1>1, RangeOfTuples
  <2> HIDE DEF q
  <2> QED
    BY <2>1, MovesBonds
<1>2. ASSUME NEW a, Moves(t, <<a>>), WellBound(a) PROVE FramesBound'
  <2> DEFINE q == <<a>>
  <2>1. Moves(t, q) /\ \A x \in Range(q) : WellBound(x)
    BY <1>2, RangeOfTuples
  <2> HIDE DEF q
  <2> QED
    BY <2>1, MovesBonds
<1>3. ASSUME NEW a, NEW b, Moves(t, <<a, b>>), WellBound(a), WellBound(b) PROVE FramesBound'
  <2> DEFINE q == <<a, b>>
  <2>1. Moves(t, q) /\ \A x \in Range(q) : WellBound(x)
    BY <1>3, RangeOfTuples
  <2> HIDE DEF q
  <2> QED
    BY <2>1, MovesBonds
<1> QED
  BY <1>1, <1>2, <1>3

(* A step of none of the threads, or one on which the process dies.        *)
LEMMA StillBonds ==
  ASSUME FramesBound, CallsOK, UNCHANGED <<told, todo>>,
         \A c \in Conns : socket[c] = "closed" => socket'[c] = "closed",
         crashed' \/ (UNCHANGED crashed /\ NotLonger), crashed => crashed'
  PROVE  FramesBound'
<1> DEFINE t == "ws"
<1>1. t \in Threads
  BY DEF Threads
<1>2. \A u \in Threads : Pend(u)' = Pend(u)
  BY DEF Pend
<1>3. Now(t) \in Pend(t) \/ Now(t) = NoCall
  BY <1>1, NowCases
<1> HIDE DEF t
<1>4. \A c \in Conns : Now(t) \in Pend(t)' \/ ~AnswerTo(Now(t), c)
  BY <1>1, <1>2, <1>3 DEF AnswerTo, NoCall
<1>5. KeepsBonds(t)
  BY <1>1, <1>2, <1>4 DEF KeepsBonds
<1>6. OneAnswer'
  BY <1>2 DEF OneAnswer, AnswerTo, FramesBound
<1> QED
  BY <1>1, <1>2, <1>5, <1>6, BondsKept DEF NotLonger

(* A connection logs in: until its answer is written, that answer binds it *)
(* to the session it joins, and no other thread knows it.                  *)
LEMMA RegisterBonds ==
  ASSUME FullInv, FramesBound, NEW t \in Threads, ~crashed, Now(t).op = "register",
         NEW c \in Conns, c = Now(t).cnx, NEW s \in Sessions, s # Null,
         UNCHANGED <<networkVars, crashed>>, NEW new, Moves(t, new), NEW a \in Range(new),
         AnswerTo(a, c), a.ses = s, \A r \in Range(new) : r = a \/ ~Names(r),
         \A d \in Conns, x \in Sessions : Led(d, x)' => Led(d, x) \/ (d = c /\ x = s)
  PROVE  FramesBound'
<1>0. CallsOK /\ SessionsOK /\ OneAnswer
  BY DEF FullInv, BrokerInv, FramesBound
<1>1. /\ t = ServerOf(c) /\ told[c] = Null /\ Fresh(c) /\ \A r \in Pend(t) : r.op # "write"
  BY <1>0, RegisteringIsFresh
<1>2. UNCHANGED <<told, socket>>
  BY DEF networkVars
<1>3. KeepsBonds(t)
  BY <1>2 DEF KeepsBonds, Moves, AnswerTo
<1>4. /\ a \in Pend(t)' /\ \A u \in Threads : u # t => Pend(u)' = Pend(u)
      /\ \A r \in Pend(t)' : r \in Range(new) \/ r \in Pend(t)
  BY DEF Moves
<1>5. Bound(c, s)'
  BY <1>1, <1>2, <1>4 DEF Bound
<1>6. \A u \in Threads : \A r \in Pend(u)' : AnswerTo(r, c) => r = a
  <2>1. \A u \in Threads : u # t => \A r \in Pend(u) : ~AnswerTo(r, c)
    BY <1>1 DEF Fresh, AnswerTo
  <2>2. \A r \in Pend(t)' : AnswerTo(r, c) => r = a
    BY <1>1, <1>4 DEF AnswerTo, Names
  <2> QED
    BY <1>4, <2>1, <2>2
<1>7. \A d \in Conns : d # c => \A u \in Threads : \A r \in Pend(u)' : AnswerTo(r, d) => r \in Pend(u)
  BY <1>4 DEF AnswerTo, Names
<1>8. OneAnswer'
  <2>1. SUFFICES ASSUME NEW d \in Conns, NEW u \in Threads, NEW v \in Threads,
                        NEW r \in Pend(u)', NEW q \in Pend(v)', AnswerTo(r, d), AnswerTo(q, d)
                 PROVE  r.ses = q.ses
    BY DEF OneAnswer, AnswerTo
  <2>2. CASE d = c
    BY <1>6, <2>1, <2>2
  <2>3. CASE d # c
    BY <1>0, <1>7, <2>1, <2>3 DEF OneAnswer
  <2> QED
    BY <2>2, <2>3
<1>9. \A r \in Pend(t)' : Names(r) => r \in Pend(t) \/ Bound(r.cnx, r.ses)'
  BY <1>4, <1>5 DEF AnswerTo
<1> QED
  BY <1>0, <1>3, <1>5, <1>8, <1>9, BondsKept

LEMMA RegisterNewBonds ==
  ASSUME FullInv, FramesBound, NEW t \in Threads, RegisterNew(t)
  PROVE  FramesBound'
<1> DEFINE c == Now(t).cnx
           s == NewId
           a == Write(c, "CONNECTED", s, FALSE)
           new == <<a>>
<1>0. RegistryTypeOK /\ CallsOK /\ created \in Nat /\ m_cnx_session \in [Conns -> 0..created]
  BY CreatedFacts DEF FullInv, BrokerInv, RegistryTypeOK
<1>1. /\ ~crashed /\ Now(t).op = "register" /\ c \in Conns /\ s \in Sessions
      /\ OpenSession(c, Now(t).login, Now(t).profile)
      /\ Moves(t, new) /\ UNCHANGED <<networkVars, crashed>>
  BY <1>0, RegisterNewDoes
<1>2. m_cnx_session' = [m_cnx_session EXCEPT ![c] = s] /\ s > created /\ s # Null
  BY <1>0, <1>1 DEF OpenSession, NewId, Null
<1>3. cnxs'[s] = <<c>> /\ \A x \in Sessions \ {s} : cnxs'[x] = cnxs[x]
  BY <1>0, <1>1, OpenSessionLists
<1>4. \A i \in DOMAIN cnxs'[s] : cnxs'[s][i] = c
  BY <1>3
<1>5. AnswerTo(a, c) /\ a.ses = s
  BY DEF Write, AnswerTo
<1> HIDE DEF a
<1>6. a \in Range(new) /\ \A x \in Range(new) : x = a
  BY RangeOfTuples DEF Range
<1> HIDE DEF new, s
<1>7. \A d \in Conns, x \in Sessions : Led(d, x)' => Led(d, x) \/ (d = c /\ x = s)
  BY <1>0, <1>1, <1>2, <1>3, <1>4 DEF Led
<1> QED
  BY <1>1, <1>2, <1>5, <1>6, <1>7, RegisterBonds

LEMMA RegisterAgainBonds ==
  ASSUME FullInv, FramesBound, NEW t \in Threads, RegisterAgain(t)
  PROVE  FramesBound'
<1> DEFINE r == Now(t)
           c == r.cnx
           s == m_login_session[r.login]
           a == Write(c, "CONNECTED", s, FALSE)
           e == Write(Head(cnxs[s]), "ERROR", Null, TRUE)
<1>0. /\ RegistryTypeOK /\ CallsOK /\ cnxs \in [Sessions -> Seq(Conns)]
      /\ m_cnx_session \in [Conns -> 0..created]
  BY DEF FullInv, BrokerInv, RegistryTypeOK
<1>1. /\ ~crashed /\ r.op = "register" /\ c \in Conns /\ s \in Sessions
      /\ TakeOverSession(c, r.login, r.profile) /\ UNCHANGED networkVars
      /\ \/ crashed' = TRUE /\ UNCHANGED todo
         \/ UNCHANGED crashed /\ Moves(t, <<a>>)
         \/ UNCHANGED crashed /\ Moves(t, <<e, a>>)
  BY <1>0, RegisterAgainDoes DEF networkVars
<1>2. /\ s # Null /\ cnxs' = [cnxs EXCEPT ![s] = Append(@, c)]
      /\ m_cnx_session' = [m_cnx_session EXCEPT ![c] = s]
  BY <1>1 DEF TakeOverSession, RegisterOutcome, registryMaps
<1>3. AnswerTo(a, c) /\ a.ses = s /\ ~Names(e)
  BY DEF Write, AnswerTo, Names
<1> HIDE DEF a, e, s
<1>4. /\ \A x \in Sessions \ {s} : cnxs'[x] = cnxs[x]
      /\ \A i \in DOMAIN cnxs'[s] : cnxs'[s][i] = c \/ (i \in DOMAIN cnxs[s] /\ cnxs'[s][i] = cnxs[s][i])
  <2>1. /\ \A x \in Sessions \ {s} : cnxs'[x] = cnxs[x]
        /\ cnxs'[s][Len(cnxs[s]) + 1] = c
        /\ \A i \in DOMAIN cnxs[s] : cnxs'[s][i] = cnxs[s][i]
        /\ \A i \in DOMAIN cnxs'[s] : i = Len(cnxs[s]) + 1 \/ i \in DOMAIN cnxs[s]
    BY <1>0, <1>1, <1>2, TakeOverLists
  <2> QED
    BY <2>1
<1>5. \A d \in Conns, x \in Sessions : Led(d, x)' => Led(d, x) \/ (d = c /\ x = s)
  BY <1>0, <1>1, <1>2, <1>4 DEF Led
<1>6. CASE crashed' = TRUE /\ UNCHANGED todo
  BY <1>0, <1>1, <1>6, StillBonds DEF networkVars
<1>7. CASE UNCHANGED crashed /\ Moves(t, <<a>>)
  <2> DEFINE q == <<a>>
  <2>1. a \in Range(q) /\ \A x \in Range(q) : x = a
    BY RangeOfTuples DEF Range
  <2>2. Moves(t, q)
    BY <1>7
  <2> HIDE DEF q
  <2> QED
    BY <1>1, <1>2, <1>3, <1>5, <1>7, <2>1, <2>2, RegisterBonds
<1>8. CASE UNCHANGED crashed /\ Moves(t, <<e, a>>)
  <2> DEFINE q == <<e, a>>
  <2>1. a \in Range(q) /\ \A x \in Range(q) : x = e \/ x = a
    BY RangeOfTuples DEF Range
  <2>2. Moves(t, q)
    BY <1>8
  <2> HIDE DEF q
  <2> QED
    BY <1>1, <1>2, <1>3, <1>5, <1>8, <2>1, <2>2, RegisterBonds
<1> QED
  BY <1>1, <1>6, <1>7, <1>8

(* The answer is written, or the connection closed.                        *)
LEMMA WriteBonds ==
  ASSUME FullInv, FramesBound, NEW t \in Threads, WriteOk(t) \/ WriteFails(t)
  PROVE  FramesBound'
<1> DEFINE r == Now(t)
<1>0. /\ CallsOK /\ OneAnswer
      /\ socket \in [Conns -> {"new", "open", "closed"}] /\ told \in [Conns -> 0..created]
  BY DEF FullInv, BrokerInv, BrokerTypeOK, FramesBound
<1>1. /\ r \in Pend(t) /\ r.op = "write" /\ r.cnx \in Conns /\ UNCHANGED <<allVars, crashed>>
      /\ \/ UNCHANGED told
         \/ r.kind = "CONNECTED" /\ told' = [told EXCEPT ![r.cnx] = r.ses]
      /\ \/ WriteCloses(t)
         \/ /\ UNCHANGED socket /\ Moves(t, <<>>)
            /\ r.kind = "CONNECTED" => told' = [told EXCEPT ![r.cnx] = r.ses]
  BY <1>0, WriteDoes
<1>2. socket[r.cnx] = "open"
  BY <1>0, WriteFacts DEF WriteOk, WriteFails, Reachable
<1>3. /\ \A d \in Conns : d # r.cnx => told'[d] = told[d]
      /\ told'[r.cnx] = told[r.cnx] \/ (r.kind = "CONNECTED" /\ told'[r.cnx] = r.ses)
  BY <1>0, <1>1
<1>4. NotLonger
  BY <1>1 DEF NotLonger, Led, allVars, sessionVars, registryMaps
<1> HIDE DEF r
<1>5. ASSUME NEW new, Moves(t, new), \A x \in Range(new) : x.op \in {"drop", "unlock"},
             \/ UNCHANGED socket /\ (r.kind = "CONNECTED" => told' = [told EXCEPT ![r.cnx] = r.ses])
             \/ socket' = [socket EXCEPT ![r.cnx] = "closed"]
      PROVE  FramesBound'
  <2>1. /\ \A d \in Conns : d # r.cnx => socket'[d] = socket[d]
        /\ socket'[r.cnx] = "closed" \/ (r.kind = "CONNECTED" => told'[r.cnx] = r.ses)
    BY <1>0, <1>1, <1>5
  <2>2. ASSUME NEW c \in Conns
        PROVE  /\ socket[c] = "closed" => socket'[c] = "closed" /\ told'[c] = told[c]
               /\ \/ told'[c] = told[c]
                  \/ r \in Pend(t) /\ AnswerTo(r, c) /\ told'[c] = r.ses
               /\ \/ ~AnswerTo(r, c)
                  \/ told'[c] = r.ses \/ socket'[c] = "closed"
    <3>1. CASE c = r.cnx
      BY <1>1, <1>2, <1>3, <2>1, <3>1 DEF AnswerTo
    <3>2. CASE c # r.cnx
      BY <1>3, <2>1, <3>2 DEF AnswerTo
    <3> QED
      BY <3>1, <3>2
  <2>3. KeepsBonds(t)
    BY <1>5, <2>2 DEF KeepsBonds, Moves, r
  <2>4. \A u \in Threads : \A x \in Pend(u)' : x.op = "write" => x \in Pend(u)
    BY <1>5 DEF Moves
  <2>5. OneAnswer'
    BY <1>0, <2>4 DEF OneAnswer, AnswerTo
  <2> QED
    BY <1>0, <1>1, <1>4, <2>3, <2>4, <2>5, BondsKept DEF Names, NotLonger
<1>6. CASE WriteCloses(t)
  <2> DEFINE q == Close(r.cnx)
  <2>1. socket' = [socket EXCEPT ![r.cnx] = "closed"] /\ Moves(t, q)
    BY <1>6 DEF WriteCloses, r
  <2>2. \A x \in Range(q) : x.op \in {"drop", "unlock"}
    BY RangeOfTuples DEF Close, Call
  <2> HIDE DEF q
  <2> QED
    BY <1>5, <2>1, <2>2
<1>7. CASE /\ UNCHANGED socket /\ Moves(t, <<>>)
           /\ r.kind = "CONNECTED" => told' = [told EXCEPT ![r.cnx] = r.ses]
  <2> DEFINE q == <<>>
  <2>1. Moves(t, q) /\ \A x \in Range(q) : x.op \in {"drop", "unlock"}
    BY <1>7, RangeOfTuples
  <2> HIDE DEF q
  <2> QED
    BY <1>5, <1>7, <2>1
<1> QED
  BY <1>1, <1>6, <1>7 DEF r

LEMMA WellBoundCalls ==
  /\ \A op, c, s : op # "write" => WellBound(Call(op, c, s))
  /\ \A s, x : WellBound(Copies(s, x))
  /\ \A s, k : WellBound(ToFront(s, k))
  /\ \A c, b : WellBound(Write(c, "ERROR", Null, b))
<1>1. ASSUME NEW op, NEW c, NEW s, op # "write" PROVE WellBound(Call(op, c, s))
  BY <1>1 DEF WellBound, Names, Call
<1>2. ASSUME NEW c, NEW b PROVE WellBound(Write(c, "ERROR", Null, b))
  BY DEF WellBound, Names, Write
<1> QED
  BY <1>1, <1>2 DEF WellBound, Names, Copies, ToFront

(* What is sent to the front of a list is bound to the session of the list.*)
LEMMA FrontIsBound ==
  ASSUME RegistryTypeOK, FramesBound, ~crashed, NEW s \in Sessions, cnxs[s] # <<>>,
         NEW k \in {"MESSAGE", "ACK"}, NEW b
  PROVE  WellBound(Write(Head(cnxs[s]), k, s, b))
<1> DEFINE c == Head(cnxs[s])
           w == Write(c, k, s, b)
<1>1. c \in Conns /\ 1 \in DOMAIN cnxs[s] /\ c = cnxs[s][1]
  BY FrontType
<1>2. w.op = "write" /\ w.cnx = c /\ w.kind = k /\ w.ses = s
  BY DEF Write
<1> HIDE DEF c, w
<1>3. Led(c, s)
  BY <1>1 DEF Led
<1>4. Bound(c, s)
  BY <1>1, <1>3 DEF FramesBound, ListsBound
<1>5. WellBound(w)
  BY <1>1, <1>2, <1>4 DEF WellBound
<1> QED
  BY <1>5 DEF c, w

(* The steps that leave the registry, the sockets and what was told alone. *)
LEMMA SameBonds ==
  ASSUME FramesBound, CallsOK, NEW t \in Threads, UNCHANGED <<sessionVars, networkVars, crashed>>,
         Now(t).op # "write",
         \/ Moves(t, <<>>)
         \/ \E a : Moves(t, <<a>>) /\ WellBound(a)
         \/ \E a, b : Moves(t, <<a, b>>) /\ WellBound(a) /\ WellBound(b)
  PROVE  FramesBound'
<1>1. NotLonger
  BY DEF NotLonger, Led, sessionVars, registryMaps
<1> QED
  BY <1>1, ShortBonds DEF networkVars

LEMMA SendBonds ==
  ASSUME FullInv, FramesBound, NEW t \in Threads,
         SendToFront(t) \/ StartCopies(t) \/ SendCopy(t)
  PROVE  FramesBound'
<1> DEFINE r == Now(t)
<1>0. /\ RegistryTypeOK /\ SubscriptionTypeOK /\ CallsOK
      /\ \A x \in 0..created : x \in Sessions
  BY LiveIsSession DEF FullInv, BrokerInv
<1>1. CASE SendToFront(t)
  <2> DEFINE w == Write(Head(cnxs[r.ses]), r.kind, r.ses, FALSE)
  <2>1. /\ ~crashed /\ r.op = "front" /\ r.ses \in Sessions /\ UNCHANGED <<allVars, networkVars>>
        /\ \/ crashed' = TRUE /\ UNCHANGED todo
           \/ UNCHANGED crashed /\ Moves(t, <<>>)
           \/ /\ UNCHANGED crashed /\ cnxs[r.ses] # <<>> /\ r.kind \in {"MESSAGE", "ACK"}
              /\ Moves(t, <<w>>)
    BY <1>0, <1>1, SendToFrontDoes
  <2>2. CASE crashed' = TRUE /\ UNCHANGED todo
    BY <1>0, <2>1, <2>2, StillBonds DEF networkVars
  <2>3. cnxs[r.ses] # <<>> /\ r.kind \in {"MESSAGE", "ACK"} => WellBound(w)
    BY <1>0, <2>1, FrontIsBound
  <2> HIDE DEF w
  <2>4. CASE /\ UNCHANGED crashed
             /\ Moves(t, <<>>) \/ (Moves(t, <<w>>) /\ WellBound(w))
    BY <1>0, <2>1, <2>4, SameBonds DEF allVars
  <2> QED
    BY <2>1, <2>2, <2>3, <2>4
<1>2. CASE StartCopies(t)
  <2> DEFINE e == Copies(r.ses, subscribers[r.ses])
  <2>1. r.op = "copy" /\ Moves(t, <<e>>) /\ UNCHANGED <<allVars, networkVars, crashed>>
    BY <1>0, <1>2, StartCopiesDoes
  <2>2. WellBound(e)
    BY WellBoundCalls
  <2> HIDE DEF e
  <2> QED
    BY <1>0, <2>1, <2>2, SameBonds DEF allVars
<1>3. CASE SendCopy(t)
  <2>1. /\ ~crashed /\ r.op = "copies" /\ UNCHANGED <<allVars, networkVars, crashed>>
        /\ \/ Moves(t, <<>>)
           \/ \E left \in SUBSET r.left :
                \/ Moves(t, <<Copies(r.ses, left)>>)
                \/ \E s \in 0..created : Moves(t, <<ToFront(s, "MESSAGE"), Copies(r.ses, left)>>)
    BY <1>0, <1>3, SendCopyDoes DEF SendCopy, Running
  <2>2. ASSUME NEW left, Moves(t, <<Copies(r.ses, left)>>) PROVE FramesBound'
    <3> DEFINE e == Copies(r.ses, left)
    <3>1. WellBound(e) /\ Moves(t, <<e>>)
      BY <2>2, WellBoundCalls
    <3> HIDE DEF e
    <3> QED
      BY <1>0, <2>1, <3>1, SameBonds DEF allVars
  <2>3. ASSUME NEW left, NEW s,
               Moves(t, <<ToFront(s, "MESSAGE"), Copies(r.ses, left)>>)
        PROVE  FramesBound'
    <3> DEFINE a == ToFront(s, "MESSAGE")
               b == Copies(r.ses, left)
    <3>1. Moves(t, <<a, b>>)
      BY <2>3
    <3>2. WellBound(a) /\ WellBound(b)
      BY WellBoundCalls
    <3> HIDE DEF a, b
    <3> QED
      BY <1>0, <2>1, <3>1, <3>2, SameBonds DEF allVars
  <2>4. CASE Moves(t, <<>>)
    BY <1>0, <2>1, <2>4, SameBonds DEF allVars
  <2> QED
    BY <2>1, <2>2, <2>3, <2>4
<1> QED
  BY <1>1, <1>2, <1>3

LEMMA OtherBonds ==
  ASSUME FullInv, FramesBound, NEW t \in Threads,
         \/ Reread(t) \/ RegisterRefused(t) \/ AskSubscription(t) \/ AskUnsubscription(t)
         \/ WriteDropped(t) \/ CloseThrows(t) \/ Unlock(t)
  PROVE  FramesBound'
<1> DEFINE r == Now(t)
<1>0. /\ RegistryTypeOK /\ CallsOK /\ AcceptedOnce /\ OpenIsRegistered
      /\ socket \in [Conns -> {"new", "open", "closed"}]
  BY DEF FullInv, BrokerInv, SocketsOK, BrokerTypeOK
<1>1. CASE Reread(t)
  <2>1. r.op = "read" /\ Moves(t, <<>>) /\ UNCHANGED <<allVars, m_cnxs, socket, told, crashed>>
    BY <1>0, <1>1, RereadDoes
  <2>2. NotLonger
    BY <2>1 DEF NotLonger, Led, allVars, sessionVars, registryMaps
  <2> QED
    BY <1>0, <2>1, <2>2, ShortBonds
<1>2. CASE RegisterRefused(t)
  <2> DEFINE e == Write(r.cnx, "ERROR", Null, TRUE)
  <2>1. r.op = "register" /\ Moves(t, <<e>>) /\ UNCHANGED <<sessionVars, networkVars, crashed>>
    BY <1>0, <1>2, RegisterRefusedDoes
  <2>2. WellBound(e)
    BY WellBoundCalls
  <2> HIDE DEF e
  <2> QED
    BY <1>0, <2>1, <2>2, SameBonds
<1>3. CASE AskSubscription(t) \/ AskUnsubscription(t) \/ Unlock(t)
  <2>1. r.op # "write" /\ Moves(t, <<>>) /\ UNCHANGED <<sessionVars, networkVars, crashed>>
    BY <1>0, <1>3, AskDoes, UnlockDoes DEF allVars
  <2> QED
    BY <1>0, <2>1, SameBonds
<1>4. CASE WriteDropped(t)
  <2>1. /\ r \in Pend(t) /\ r.op = "write" /\ r.cnx \in Conns
        /\ r.cnx \notin m_cnxs \/ socket[r.cnx] # "open"
        /\ Moves(t, <<>>) /\ UNCHANGED <<allVars, networkVars, crashed>>
    BY <1>0, <1>4, WriteDroppedDoes
  <2>2. socket[r.cnx] # "new"
    BY <1>0, <2>1 DEF AcceptedOnce, AboutCnx
  <2>3. socket[r.cnx] = "closed"
    BY <1>0, <2>1, <2>2 DEF OpenIsRegistered
  <2>4. NotLonger
    BY <2>1 DEF NotLonger, Led, allVars, sessionVars, registryMaps
  <2> QED
    BY <1>0, <2>1, <2>3, <2>4, ShortBonds DEF networkVars
<1>5. CASE CloseThrows(t)
  <2>1. crashed' = TRUE /\ UNCHANGED <<allVars, networkVars, todo>>
    BY <1>0, <1>5, CloseThrowsDoes
  <2> QED
    BY <1>0, <2>1, StillBonds DEF networkVars
<1> QED
  BY <1>1, <1>2, <1>3, <1>4, <1>5

LEMMA EndBonds ==
  ASSUME FullInv, FramesBound, NEW t \in Threads,
         Drop(t) \/ EndFetch(t) \/ EndUnlink(t) \/ EndCheck(t) \/ EndLeave(t) \/ EndUnregister(t)
  PROVE  FramesBound'
<1> DEFINE r == Now(t)
<1>0. /\ RegistryTypeOK /\ CallsOK /\ m_cnx_session \in [Conns -> 0..created]
      /\ \A x \in 0..created : x \in Sessions
  BY LiveIsSession DEF FullInv, BrokerInv, RegistryTypeOK
<1>1. CASE Drop(t)
  <2> DEFINE a == Call("end", r.cnx, Null)
  <2>1. /\ r.op = "drop" /\ UNCHANGED <<allVars, socket, told, crashed>>
        /\ Moves(t, <<a>>) \/ Moves(t, <<>>)
    BY <1>0, <1>1, DropDoes
  <2>2. WellBound(a)
    BY WellBoundCalls
  <2>3. NotLonger
    BY <2>1 DEF NotLonger, Led, allVars, sessionVars, registryMaps
  <2> HIDE DEF a
  <2> QED
    BY <1>0, <2>1, <2>2, <2>3, ShortBonds
<1>2. CASE EndFetch(t)
  <2> DEFINE a == Call("unlink", r.cnx, fetch_session_by_cnx(r.cnx))
  <2>1. r.op = "end" /\ Moves(t, <<a>>) /\ UNCHANGED <<allVars, networkVars, crashed>>
    BY <1>0, <1>2, EndFetchDoes
  <2>2. WellBound(a)
    BY WellBoundCalls
  <2> HIDE DEF a
  <2> QED
    BY <1>0, <2>1, <2>2, SameBonds DEF allVars
<1>3. CASE EndUnlink(t)
  <2> DEFINE a == Call("check", r.cnx, r.ses)
  <2>1. /\ r.op = "unlink" /\ r.cnx \in Conns /\ r.ses \in Sessions /\ UnlinkConnection(r.ses, r.cnx)
        /\ Moves(t, <<a>>) /\ UNCHANGED <<networkVars, crashed>>
    BY <1>0, <1>3, EndUnlinkDoes
  <2>2. WellBound(a)
    BY WellBoundCalls
  <2> HIDE DEF a
  <2>3. UNCHANGED m_cnx_session
    BY <2>1 DEF UnlinkConnection, registryMaps
  <2>4. NotLonger
    BY <1>0, <2>1, <2>3, UnlinkDoes DEF NotLonger, Led
  <2> QED
    BY <1>0, <2>1, <2>2, <2>4, ShortBonds DEF networkVars
<1>4. CASE EndCheck(t)
  <2> DEFINE a == Call("leave", r.cnx, r.ses)
             b == Call("unregister", r.cnx, r.ses)
  <2>1. /\ r.op = "check" /\ UNCHANGED <<allVars, networkVars, crashed>>
        /\ Moves(t, <<a, b>>) \/ Moves(t, <<>>)
    BY <1>0, <1>4, EndCheckDoes
  <2>2. WellBound(a) /\ WellBound(b)
    BY WellBoundCalls
  <2> HIDE DEF a, b
  <2> QED
    BY <1>0, <2>1, <2>2, SameBonds DEF allVars
<1>5. CASE EndLeave(t)
  <2> DEFINE a == Call("unregister", r.cnx, r.ses)
  <2>1. r.op = "leave" /\ Moves(t, <<a>>) /\ UNCHANGED <<sessionVars, networkVars, crashed>>
    BY <1>0, <1>5, EndLeaveDoes
  <2>2. WellBound(a)
    BY WellBoundCalls
  <2> HIDE DEF a
  <2> QED
    BY <1>0, <2>1, <2>2, SameBonds
<1>6. CASE EndUnregister(t)
  <2>1. /\ r.op = "unregister" /\ unregister_session(r.cnx) /\ Moves(t, <<>>)
        /\ UNCHANGED <<networkVars, crashed>>
    BY <1>0, <1>6, EndUnregisterDoes
  <2>2. /\ UNCHANGED cnxs
        /\ \A c \in Conns : m_cnx_session'[c] = m_cnx_session[c] \/ m_cnx_session'[c] = Null
    BY <1>0, <2>1 DEF unregister_session, ForgetSession, sessionFields, sessionVars, registryMaps
  <2>3. NotLonger
    BY <2>2 DEF NotLonger, Led
  <2> QED
    BY <1>0, <2>1, <2>3, ShortBonds DEF networkVars
<1> QED
  BY <1>1, <1>2, <1>3, <1>4, <1>5, <1>6

(* What a handler writes itself is taken to no session, but for the        *)
(* RECEIPT, which is for the session the connection is mapped to.          *)
OwnFrames(c, calls) ==
  \A i \in DOMAIN calls : Names(calls[i]) =>
    /\ calls[i].cnx = c /\ calls[i].kind # "CONNECTED"
    /\ calls[i].ses # Null /\ calls[i].ses = m_cnx_session[c]

LEMMA OwnCalls ==
  ASSUME RegistryTypeOK, NEW c \in Conns
  PROVE  /\ OwnFrames(c, Refuse(c)) /\ OwnFrames(c, <<Write(c, "ERROR", Null, FALSE)>>)
         /\ \A l, p : OwnFrames(c, <<Register(c, l, p)>>)
         /\ \A s, y, d : OwnFrames(c, <<Subscribe(s, y, d)>>)
         /\ \A s : OwnFrames(c, <<Call("unsubscribe", c, s)>>)
         /\ \A s : s # Null /\ s = m_cnx_session[c] => OwnFrames(c, <<Write(c, "RECEIPT", s, TRUE)>>)
         /\ \A y : OwnFrames(c, <<ToFront(y, "MESSAGE"), Call("copy", c, y),
                                   Write(c, "ACK", Null, FALSE)>>)
<1>1. ASSUME NEW a, ~Names(a) PROVE OwnFrames(c, <<a>>)
  BY <1>1 DEF OwnFrames
<1>2. /\ ~Names(Write(c, "ERROR", Null, TRUE)) /\ ~Names(Write(c, "ERROR", Null, FALSE))
      /\ ~Names(Write(c, "ACK", Null, FALSE))
      /\ \A l, p : ~Names(Register(c, l, p))
      /\ \A s, y, d : ~Names(Subscribe(s, y, d))
      /\ \A s, op : op # "write" => ~Names(Call(op, c, s))
      /\ \A y : ~Names(ToFront(y, "MESSAGE"))
  BY DEF Names, Write, Register, Subscribe, Call, ToFront
<1>3. ASSUME NEW s, s # Null, s = m_cnx_session[c]
      PROVE  OwnFrames(c, <<Write(c, "RECEIPT", s, TRUE)>>)
  <2> DEFINE w == Write(c, "RECEIPT", s, TRUE)
  <2>1. w.cnx = c /\ w.kind # "CONNECTED" /\ w.ses # Null /\ w.ses = m_cnx_session[c]
    BY <1>3 DEF Write
  <2> HIDE DEF w
  <2>2. OwnFrames(c, <<w>>)
    BY <2>1 DEF OwnFrames
  <2> QED
    BY <2>2 DEF w
<1>4. ASSUME NEW y
      PROVE  OwnFrames(c, <<ToFront(y, "MESSAGE"), Call("copy", c, y), Write(c, "ACK", Null, FALSE)>>)
  <2> DEFINE a == ToFront(y, "MESSAGE")
             b == Call("copy", c, y)
             w == Write(c, "ACK", Null, FALSE)
  <2>1. ~Names(a) /\ ~Names(b) /\ ~Names(w)
    BY <1>2
  <2> HIDE DEF a, b, w
  <2>2. OwnFrames(c, <<a, b, w>>)
    BY <2>1 DEF OwnFrames
  <2> QED
    BY <2>2 DEF a, b, w
<1> QED
  BY <1>1, <1>2, <1>3, <1>4 DEF Refuse

LEMMA FrameOwns ==
  ASSUME RegistryTypeOK, CallsOK, NEW c \in Conns, Frame(c)
  PROVE  \E calls : calls \in Seq(CallSet) /\ OwnFrames(c, calls) /\ ReadFrame(c, calls)
<1>0. /\ \A calls : HandlerCalls(c, calls) => calls \in Seq(CallSet)
      /\ \A x : /\ fetch_session_by_id(x) \in 0..created
                /\ fetch_session_by_cnx(x) \in 0..created
                /\ fetch_session_by_destination(x) \in 0..created
  BY FetchType DEF HandlerCalls, fetch_session_by_cnx, fetch_session_by_destination
<1>1. fetch_session_by_cnx(c) \in {m_cnx_session[c], Null}
  BY DEF fetch_session_by_id, fetch_session_by_cnx
<1> DEFINE Good(calls) == calls \in Seq(CallSet) /\ OwnFrames(c, calls)
<1>2. /\ Good(Refuse(c)) /\ Good(<<Write(c, "ERROR", Null, FALSE)>>)
      /\ \A l \in Logins, p \in Profiles :
           Relogin \/ told[c] = Null => Good(<<Register(c, l, p)>>)
      /\ \A x \in 0..created :
           /\ x # Null /\ x = m_cnx_session[c] => Good(<<Write(c, "RECEIPT", x, TRUE)>>)
           /\ x # Null => Good(<<Call("unsubscribe", c, x)>>)
           /\ \A d \in Patterns :
                x # Null => /\ Good(<<Subscribe(x, "REGEX", d)>>)
                            /\ Cardinality(d) = 1 => Good(<<Subscribe(x, "DIRECT", d)>>)
           /\ Good(<<ToFront(x, "MESSAGE"), Call("copy", c, x), Write(c, "ACK", Null, FALSE)>>)
  BY <1>0, HandlersCall, OwnCalls
<1> HIDE DEF Good
<1>3. SUFFICES \E calls : Good(calls) /\ ReadFrame(c, calls)
  BY DEF Good
<1>4. CASE BadFrame(c)
  BY <1>2, <1>4 DEF BadFrame, Receive
<1>5. ASSUME NEW l \in Logins, NEW p \in Profiles, proccess_connect(c, l, p)
      PROVE  \E calls : Good(calls) /\ ReadFrame(c, calls)
  BY <1>2, <1>5 DEF proccess_connect
<1>6. CASE proccess_disconnect(c)
  BY <1>0, <1>1, <1>2, <1>6 DEF proccess_disconnect, Receive
<1>7. ASSUME NEW s, NEW d, proccess_send_message(c, s, d)
      PROVE  \E calls : Good(calls) /\ ReadFrame(c, calls)
  BY <1>0, <1>2, <1>7 DEF proccess_send_message, Receive
<1>8. ASSUME NEW s, NEW d \in Patterns, NEW y \in {"DIRECT", "REGEX"},
             y = "DIRECT" => Cardinality(d) = 1, proccess_subscribe(c, s, y, d)
      PROVE  \E calls : Good(calls) /\ ReadFrame(c, calls)
  BY <1>0, <1>2, <1>8 DEF proccess_subscribe, Receive
<1>9. ASSUME NEW s, proccess_unsubscribe(c, s)
      PROVE  \E calls : Good(calls) /\ ReadFrame(c, calls)
  BY <1>0, <1>2, <1>9 DEF proccess_unsubscribe, Receive
<1> QED
  BY <1>4, <1>5, <1>6, <1>7, <1>8, <1>9 DEF Frame

LEMMA FrameBonds ==
  ASSUME ~Relogin, FullInv, FramesBound, NEW c \in Conns, Frame(c)
  PROVE  FramesBound'
<1> DEFINE t == ServerOf(c)
           r == Call("read", c, Null)
<1>0. /\ RegistryTypeOK /\ CallsOK /\ told \in [Conns -> 0..created]
      /\ m_cnx_session \in [Conns -> 0..created] /\ \A x \in 0..created : x \in Sessions
  BY LiveIsSession DEF FullInv, BrokerInv, BrokerTypeOK, RegistryTypeOK
<1>1. /\ t \in Threads /\ ~crashed /\ Pend(t) = {} /\ UNCHANGED <<allVars, m_cnxs, socket, told, crashed>>
  BY <1>0, FrameDoes, ToldStays, ServerOfType
<1>2. PICK new : Moves(t, new)
  BY <1>0, FrameDoes
<1>3. PICK calls : calls \in Seq(CallSet) /\ OwnFrames(c, calls) /\ ReadFrame(c, calls)
  BY <1>0, FrameOwns
<1>4. todo'[t] = Append(calls, r)
  BY <1>0, <1>1, <1>3 DEF ReadFrame, CallsOK
<1>5. r \in CallSet /\ ~Names(r)
  BY NewCalls DEF CnxOps, Sessions, Names, Call
<1> HIDE DEF r, t
<1>6. ASSUME NEW x \in Pend(t)', Names(x)
      PROVE  x.cnx = c /\ x.kind # "CONNECTED" /\ Bound(c, x.ses)
  <2>1. PICK i \in DOMAIN todo'[t] : x = todo'[t][i]
    BY <1>6 DEF Pend, Range
  <2>2. i \in DOMAIN calls /\ x = calls[i]
    BY <1>3, <1>4, <1>5, <1>6, <2>1
  <2>3. /\ x.cnx = c /\ x.kind # "CONNECTED" /\ x.ses # Null
        /\ x.ses = m_cnx_session[c]
    BY <1>3, <1>6, <2>2 DEF OwnFrames
  <2>4. Bound(c, x.ses)
    BY <1>0, <1>1, <2>3 DEF FramesBound, ListsBound, Led
  <2> QED
    BY <2>3, <2>4
<1>7. NotLonger
  BY <1>1 DEF NotLonger, Led, allVars, sessionVars, registryMaps
<1>8. Now(t).op # "write"
  <2>1. Now(t) = NoCall
    BY <1>0, <1>1, NowCases
  <2> QED
    BY <2>1 DEF NoCall
<1>9. \A a \in Range(new) : WellBound(a)
  BY <1>2, <1>6 DEF WellBound, Moves
<1> QED
  BY <1>0, <1>1, <1>2, <1>7, <1>8, <1>9, MovesBonds

LEMMA IdleBonds ==
  ASSUME FullInv, FramesBound, WorkerEnd \/ \E c \in Conns : ReadError(c)
  PROVE  FramesBound'
<1>0. /\ RegistryTypeOK /\ SubscriptionTypeOK /\ CallsOK
      /\ socket \in [Conns -> {"new", "open", "closed"}]
  BY DEF FullInv, BrokerInv, BrokerTypeOK
<1>i. ASSUME NEW t \in Threads, Pend(t) = {} PROVE Now(t).op # "write"
  <2>1. Now(t) = NoCall
    BY <1>0, <1>i, NowCases
  <2> QED
    BY <2>1 DEF NoCall
<1>1. CASE WorkerEnd
  <2> DEFINE t == "worker"
             a == ToFront(task.owner, "ACK")
  <2>1. /\ t \in Threads /\ Pend(t) = {} /\ UNCHANGED <<sessionVars, networkVars, crashed>>
        /\ Moves(t, <<a>>) \/ Moves(t, <<>>)
    BY <1>0, <1>1, WorkerEndDoes DEF Threads
  <2>2. WellBound(a)
    BY WellBoundCalls
  <2> HIDE DEF t, a
  <2> QED
    BY <1>0, <1>i, <2>1, <2>2, SameBonds
<1>2. ASSUME NEW c \in Conns, ReadError(c) PROVE FramesBound'
  <2> DEFINE t == ServerOf(c)
             a == Call("drop", c, Null)
  <2>1. /\ t \in Threads /\ Pend(t) = {} /\ socket' = [socket EXCEPT ![c] = "closed"]
        /\ Moves(t, <<a>>) /\ UNCHANGED <<allVars, told, crashed>>
    BY <1>0, <1>2, ReadErrorDoes, ServerOfType
  <2>2. WellBound(a)
    BY WellBoundCalls
  <2> HIDE DEF t, a
  <2>3. \A d \in Conns : socket[d] = "closed" => socket'[d] = "closed"
    BY <1>0, <2>1
  <2>4. NotLonger
    BY <2>1 DEF NotLonger, Led, allVars, sessionVars, registryMaps
  <2> QED
    BY <1>0, <1>i, <2>1, <2>2, <2>3, <2>4, ShortBonds
<1> QED
  BY <1>1, <1>2

LEMMA BondsStep ==
  ASSUME ~Relogin, FullInv, FramesBound, [BrokerNext]_vars
  PROVE  FramesBound'
<1>0. CallsOK /\ socket \in [Conns -> {"new", "open", "closed"}]
  BY DEF FullInv, BrokerInv, BrokerTypeOK
<1>1. ASSUME NEW c \in Conns, Accept(c) PROVE FramesBound'
  <2>1. /\ socket[c] = "new" /\ socket' = [socket EXCEPT ![c] = "open"]
        /\ UNCHANGED <<sessionVars, told, todo, crashed>>
    BY <1>1 DEF Accept, allVars
  <2>2. \A d \in Conns : socket[d] = "closed" => socket'[d] = "closed"
    BY <1>0, <2>1
  <2>3. NotLonger
    BY <2>1 DEF NotLonger, Led, sessionVars, registryMaps
  <2> QED
    BY <1>0, <2>1, <2>2, <2>3, StillBonds
<1>2. ASSUME NEW t \in Threads, ThreadStep(t) PROVE FramesBound'
  BY <1>2, RegisterNewBonds, RegisterAgainBonds, WriteBonds, SendBonds, OtherBonds, EndBonds
     DEF ThreadStep
<1>3. CASE WorkerTask \/ UNCHANGED vars
  <2>1. UNCHANGED <<sessionVars, told, socket, todo, crashed>>
    BY <1>3, WorkerTaskDoes DEF brokerVars, networkVars, vars, allVars
  <2>2. NotLonger
    BY <2>1 DEF NotLonger, Led, sessionVars, registryMaps
  <2> QED
    BY <1>0, <2>1, <2>2, StillBonds
<1> QED
  BY <1>1, <1>2, <1>3, FrameBonds, IdleBonds DEF BrokerNext

(* Where a connection logs in once, what a thread takes to a session, the  *)
(* copies of a MESSAGE included, goes to no connection that was told       *)
(* another, whosever id the sender named.                                  *)
THEOREM FramesReachTheirSessionCorrect == ~Relogin => (BrokerSpec => []FramesReachTheirSession)
<1> SUFFICES ASSUME ~Relogin PROVE BrokerSpec => []FramesReachTheirSession
  OBVIOUS
<1>1. BrokerInit => FramesBound
  <2> SUFFICES ASSUME BrokerInit PROVE FramesBound
    OBVIOUS
  <2>1. /\ cnxs = [s \in Sessions |-> <<>>] /\ m_cnx_session = [c \in Conns |-> Null]
        /\ \A t \in Threads : todo[t] = <<>>
    BY DEF BrokerInit, ManagersInit, RegistryInit
  <2>2. \A t \in Threads : Pend(t) = {}
    BY <2>1 DEF Pend, Range
  <2>3. \A c \in Conns, s \in Sessions : ~Led(c, s)
    BY <2>1 DEF Led
  <2> QED
    BY <2>2, <2>3 DEF FramesBound, WritesBound, OneAnswer, ListsBound
<1>2. FullInv /\ FramesBound /\ [BrokerNext]_vars => FramesBound'
  BY BondsStep
<1>3. FullInv /\ FramesBound => FramesReachTheirSession
  <2> SUFFICES ASSUME FramesBound, NEW t \in Threads, NEW r \in Pend(t), Names(r)
               PROVE  told[r.cnx] \in {Null, r.ses}
    BY DEF FramesReachTheirSession, Pending, Pend, Names
  <2> QED
    BY DEF FramesBound, WritesBound, Bound
<1>4. BrokerSpec => []FullInv
  BY SessionsInvariant
<1> QED
  BY <1>1, <1>2, <1>3, <1>4, PTL DEF BrokerSpec
=============================================================================
