----------------------- MODULE SessionManager_proofs ------------------------
(* The invariants of the session registry, for any set of connections and  *)
(* logins and any bounds.                                                  *)
EXTENDS SessionManager, TLAPS

(* Taking one element out of a list of connections leaves such a list.     *)
LEMMA RemoveAtType ==
  ASSUME NEW S, NEW q \in Seq(S), NEW i \in DOMAIN q
  PROVE  RemoveAt(q, i) \in Seq(S) /\ Len(RemoveAt(q, i)) = Len(q) - 1
<1>1. i \in 1..Len(q)
  OBVIOUS
<1>2. SubSeq(q, 1, i - 1) \in Seq(S) /\ Len(SubSeq(q, 1, i - 1)) = i - 1
  BY <1>1
<1>3. SubSeq(q, i + 1, Len(q)) \in Seq(S) /\ Len(SubSeq(q, i + 1, Len(q))) = Len(q) - i
  BY <1>1
<1> DEFINE a == SubSeq(q, 1, i - 1)
           b == SubSeq(q, i + 1, Len(q))
<1>4. RemoveAt(q, i) = a \o b
  BY DEF RemoveAt
<1> HIDE DEF a, b
<1>5. \A x, y \in Seq(S) : x \o y \in Seq(S) /\ Len(x \o y) = Len(x) + Len(y)
  OBVIOUS
<1>6. a \o b \in Seq(S) /\ Len(a \o b) = Len(a) + Len(b)
  BY <1>2, <1>3, <1>5 DEF a, b
<1>7. Len(a) = i - 1 /\ Len(b) = Len(q) - i /\ Len(q) \in Nat /\ i \in Nat
  BY <1>1, <1>2, <1>3 DEF a, b
<1> QED
  BY <1>4, <1>6, <1>7

(* Each entry that is left was one before, at its own place or the next.   *)
LEMMA RemoveAtEntries ==
  ASSUME NEW S, NEW q \in Seq(S), NEW i \in DOMAIN q
  PROVE  \A j \in DOMAIN RemoveAt(q, i) :
           \/ j < i /\ j \in DOMAIN q /\ RemoveAt(q, i)[j] = q[j]
           \/ j >= i /\ j + 1 \in DOMAIN q /\ RemoveAt(q, i)[j] = q[j + 1]
<1>1. i \in 1..Len(q) /\ Len(q) \in Nat
  OBVIOUS
<1>2. SubSeq(q, 1, i - 1) \in Seq(S) /\ Len(SubSeq(q, 1, i - 1)) = i - 1
      /\ \A j \in 1..i - 1 : SubSeq(q, 1, i - 1)[j] = q[j]
  BY <1>1
<1>3. SubSeq(q, i + 1, Len(q)) \in Seq(S) /\ Len(SubSeq(q, i + 1, Len(q))) = Len(q) - i
      /\ \A j \in 1..Len(q) - i : SubSeq(q, i + 1, Len(q))[j] = q[i + j]
  BY <1>1
<1> DEFINE a == SubSeq(q, 1, i - 1)
           b == SubSeq(q, i + 1, Len(q))
<1>4. RemoveAt(q, i) = a \o b
  BY DEF RemoveAt
<1>5. /\ a \in Seq(S) /\ Len(a) = i - 1 /\ \A j \in 1..i - 1 : a[j] = q[j]
      /\ b \in Seq(S) /\ Len(b) = Len(q) - i /\ \A j \in 1..Len(q) - i : b[j] = q[i + j]
  BY <1>2, <1>3
<1> HIDE DEF a, b
<1>6. \A x, y \in Seq(S) : \A j \in DOMAIN (x \o y) :
        /\ j \in Nat /\ 1 <= j /\ j <= Len(x) + Len(y)
        /\ (x \o y)[j] = IF j <= Len(x) THEN x[j] ELSE y[j - Len(x)]
  OBVIOUS
<1>7. \A j \in DOMAIN (a \o b) :
        /\ j \in Nat /\ 1 <= j /\ j <= Len(q) - 1
        /\ (a \o b)[j] = IF j <= i - 1 THEN a[j] ELSE b[j - (i - 1)]
  BY <1>1, <1>5, <1>6
<1>8. ASSUME NEW j \in DOMAIN (a \o b)
      PROVE  \/ j < i /\ j \in DOMAIN q /\ (a \o b)[j] = q[j]
             \/ j >= i /\ j + 1 \in DOMAIN q /\ (a \o b)[j] = q[j + 1]
  <2>1. CASE j <= i - 1
    <3>1. (a \o b)[j] = q[j] /\ j \in 1..Len(q)
      BY <1>1, <1>5, <1>7, <2>1
    <3> QED
      BY <1>1, <1>7, <2>1, <3>1
  <2>2. CASE ~(j <= i - 1)
    <3>1. j - (i - 1) \in 1..Len(q) - i /\ i + (j - (i - 1)) = j + 1 /\ j + 1 \in 1..Len(q) /\ j >= i
      BY <1>1, <1>7, <2>2
    <3>2. (a \o b)[j] = q[j + 1]
      BY <1>5, <1>7, <2>2, <3>1
    <3> QED
      BY <3>1, <3>2
  <2> QED
    BY <2>1, <2>2
<1> QED
  BY <1>4, <1>8

-----------------------------------------------------------------------------
(* Type correctness is inductive on its own.                               *)
LEMMA TypeInit == RegistryInit => RegistryTypeOK
<1> SUFFICES ASSUME RegistryInit
             PROVE  RegistryTypeOK
  OBVIOUS
<1>1. created \in 0..MaxSession /\ Null \in 0..created
  <2>1. created = 0
    BY DEF RegistryInit
  <2> QED
    BY <2>1, BoundsAssumption DEF Null
<1>2. empty \in empty..admin
  BY DEF empty, admin
<1>3. cnxs \in [Sessions -> Seq(Conns)]
  <2>1. <<>> \in Seq(Conns)
    OBVIOUS
  <2> QED
    BY <2>1 DEF RegistryInit
<1> QED
  BY <1>1, <1>2, <1>3 DEF RegistryInit, RegistryTypeOK

LEMMA OpenSessionType ==
  ASSUME RegistryTypeOK, NEW c \in Conns, NEW l \in Logins, NEW p \in Profiles,
         OpenSession(c, l, p)
  PROVE  RegistryTypeOK'
<1> DEFINE s == created + 1
<1>1. s \in Sids /\ s \in Sessions /\ s \in Nat /\ created \in Nat /\ s \in 0..MaxSession
  <2>1. created \in 0..MaxSession /\ created < MaxSession
    BY DEF RegistryTypeOK, OpenSession, NewId
  <2> QED
    BY <2>1, BoundsAssumption DEF Sids, Sessions
<1>2. created' = s
  BY DEF OpenSession, NewId
<1>3. 0..created \subseteq 0..created' /\ s \in 0..created'
  BY <1>1, <1>2
<1>4. login' \in [Sessions -> Logins \cup {""}]
  <2>1. login' = [login EXCEPT ![s] = l]
    BY DEF OpenSession, NewId
  <2> QED
    BY <1>1, <2>1 DEF RegistryTypeOK
<1>5. profile' \in [Sessions -> empty..admin]
  <2>1. profile' = [profile EXCEPT ![s] = p]
    BY DEF OpenSession, NewId
  <2>2. p \in empty..admin
    BY DEF Profiles, agent, empty, admin
  <2> QED
    BY <1>1, <2>1, <2>2 DEF RegistryTypeOK
<1>6. cnxs' \in [Sessions -> Seq(Conns)]
  <2>1. cnxs' = [cnxs EXCEPT ![s] = <<c>>]
    BY DEF OpenSession, NewId
  <2>2. <<c>> \in Seq(Conns)
    OBVIOUS
  <2> QED
    BY <1>1, <2>1, <2>2 DEF RegistryTypeOK
<1>7. m_sessions' \subseteq 1..created'
  <2>1. m_sessions' = m_sessions \cup {s}
    BY DEF OpenSession, NewId
  <2>2. m_sessions \subseteq 1..created
    BY DEF RegistryTypeOK
  <2>3. 1..created \subseteq 1..created' /\ s \in 1..created'
    BY <1>1, <1>2
  <2> QED
    BY <2>1, <2>2, <2>3
<1>8. m_login_session' \in [Logins -> 0..created']
  <2>1. m_login_session' = [m_login_session EXCEPT ![l] = s]
    BY DEF OpenSession, NewId
  <2> QED
    BY <1>3, <2>1 DEF RegistryTypeOK
<1>9. m_dest_session' \in [Dests -> 0..created']
  <2>1. m_dest_session' = [m_dest_session EXCEPT ![<<DestPrefix(p), l>>] = s]
    BY DEF OpenSession, NewId
  <2> QED
    BY <1>3, <2>1 DEF RegistryTypeOK
<1>10. m_cnx_session' \in [Conns -> 0..created']
  <2>1. m_cnx_session' = [m_cnx_session EXCEPT ![c] = s]
    BY DEF OpenSession, NewId
  <2> QED
    BY <1>3, <2>1 DEF RegistryTypeOK
<1> QED
  BY <1>1, <1>2, <1>4, <1>5, <1>6, <1>7, <1>8, <1>9, <1>10 DEF RegistryTypeOK

LEMMA TakeOverSessionType ==
  ASSUME RegistryTypeOK, NEW c \in Conns, NEW l \in Logins, NEW p \in Profiles,
         TakeOverSession(c, l, p)
  PROVE  RegistryTypeOK'
<1> DEFINE s == m_login_session[l]
<1>1. s \in Sessions /\ s \in 0..created
  <2>1. created \in 0..MaxSession /\ m_login_session \in [Logins -> 0..created]
    BY DEF RegistryTypeOK
  <2> QED
    BY <2>1, BoundsAssumption DEF Sessions, Sids, Null
<1>2. cnxs' \in [Sessions -> Seq(Conns)]
  <2>1. cnxs' = [cnxs EXCEPT ![s] = Append(@, c)]
    BY DEF TakeOverSession
  <2>2. cnxs \in [Sessions -> Seq(Conns)]
    BY DEF RegistryTypeOK
  <2>3. Append(cnxs[s], c) \in Seq(Conns)
    BY <1>1, <2>2
  <2> QED
    BY <1>1, <2>1, <2>2, <2>3
<1>3. m_cnx_session' \in [Conns -> 0..created]
  <2>1. m_cnx_session' = [m_cnx_session EXCEPT ![c] = s]
    BY DEF TakeOverSession
  <2>2. m_cnx_session \in [Conns -> 0..created]
    BY DEF RegistryTypeOK
  <2> QED
    BY <1>1, <2>1, <2>2
<1>4. UNCHANGED <<created, login, profile, m_sessions, m_login_session, m_dest_session>>
  BY DEF TakeOverSession, sessionFields, registryMaps
<1> QED
  BY <1>2, <1>3, <1>4 DEF RegistryTypeOK

LEMMA ForgetSessionType ==
  ASSUME RegistryTypeOK, NEW c \in Conns, ForgetSession(c)
  PROVE  RegistryTypeOK'
<1> DEFINE s == fetch_session_by_cnx(c)
<1>1. Null \in 0..created
  <2>1. created \in 0..MaxSession
    BY DEF RegistryTypeOK
  <2> QED
    BY <2>1, BoundsAssumption DEF Null
<1>2. m_login_session' \in [Logins -> 0..created]
  <2>1. m_login_session' = [m_login_session EXCEPT ![login[s]] = Null]
    BY DEF ForgetSession
  <2>2. m_login_session \in [Logins -> 0..created]
    BY DEF RegistryTypeOK
  <2> QED
    BY <1>1, <2>1, <2>2
<1>3. m_dest_session' \in [Dests -> 0..created]
  <2>1. m_dest_session' = [m_dest_session EXCEPT ![destiny_id(s)] = Null]
    BY DEF ForgetSession
  <2>2. m_dest_session \in [Dests -> 0..created]
    BY DEF RegistryTypeOK
  <2> QED
    BY <1>1, <2>1, <2>2
<1>4. m_cnx_session' \in [Conns -> 0..created]
  <2>1. m_cnx_session' = [d \in Conns |->
                            IF d \in ToSet(cnxs[s]) THEN Null ELSE m_cnx_session[d]]
    BY DEF ForgetSession
  <2>2. m_cnx_session \in [Conns -> 0..created]
    BY DEF RegistryTypeOK
  <2> QED
    BY <1>1, <2>1, <2>2
<1>5. m_sessions' \subseteq m_sessions /\ UNCHANGED <<created, login, profile, cnxs>>
  BY DEF ForgetSession, sessionFields
<1> QED
  BY <1>2, <1>3, <1>4, <1>5 DEF RegistryTypeOK

LEMMA UnlinkConnectionType ==
  ASSUME RegistryTypeOK, NEW s \in 0..created, NEW c \in Conns, UnlinkConnection(s, c)
  PROVE  RegistryTypeOK'
<1>1. cnxs' \in [Sessions -> Seq(Conns)]
  <2>1. s \in Sessions
    <3>1. created \in 0..MaxSession
      BY DEF RegistryTypeOK
    <3> QED
      BY <3>1, BoundsAssumption DEF Sessions, Sids, Null
  <2>2. CASE UNCHANGED cnxs
    BY <2>2 DEF RegistryTypeOK
  <2>3. ASSUME NEW i \in DOMAIN cnxs[s], cnxs' = [cnxs EXCEPT ![s] = RemoveAt(@, i)]
        PROVE  cnxs' \in [Sessions -> Seq(Conns)]
    <3>1. cnxs[s] \in Seq(Conns)
      BY <2>1 DEF RegistryTypeOK
    <3>2. RemoveAt(cnxs[s], i) \in Seq(Conns)
      BY <3>1, RemoveAtType
    <3> QED
      BY <2>1, <2>3, <3>2 DEF RegistryTypeOK
  <2> QED
    BY <2>2, <2>3 DEF UnlinkConnection
<1> QED
  BY <1>1 DEF UnlinkConnection, RegistryTypeOK, sessionFields, registryMaps

LEMMA StutterType == RegistryTypeOK /\ UNCHANGED sessionVars => RegistryTypeOK'
BY DEF RegistryTypeOK, sessionVars, sessionFields, registryMaps

LEMMA TypeStep == RegistryTypeOK /\ [RegistryNext]_sessionVars => RegistryTypeOK'
<1> SUFFICES ASSUME RegistryTypeOK, [RegistryNext]_sessionVars
             PROVE  RegistryTypeOK'
  OBVIOUS
<1>1. CASE UNCHANGED sessionVars
  BY <1>1, StutterType
<1>2. ASSUME NEW c \in Conns, NEW l \in Logins, NEW p \in Profiles, register_session(c, l, p)
      PROVE  RegistryTypeOK'
  BY <1>2, OpenSessionType, TakeOverSessionType, StutterType DEF register_session, RefuseLogin
<1>3. ASSUME NEW c \in Conns, unregister_session(c)
      PROVE  RegistryTypeOK'
  BY <1>3, ForgetSessionType, StutterType DEF unregister_session
<1>4. ASSUME NEW c \in Conns, NEW s \in 0..created, UnlinkConnection(s, c)
      PROVE  RegistryTypeOK'
  BY <1>4, UnlinkConnectionType
<1> QED
  BY <1>1, <1>2, <1>3, <1>4 DEF RegistryNext

(* Whatever the callers do, ids and map entries stay within the sessions    *)
(* that were created.                                                      *)
THEOREM TypeCorrect == RegistrySpec => []RegistryTypeOK
BY TypeInit, TypeStep, PTL DEF RegistrySpec

-----------------------------------------------------------------------------
(* The registry: login, destination and session stay in bijection.         *)
LEMMA RegistryInitial == RegistryInit => RegistryConsistent
BY DEF RegistryInit, RegistryConsistent, LoginsLeadToSessions, DestinationsLeadToSessions,
       SessionsAreReachable

(* Every destination m_dest_session has an entry for is a key of it.       *)
LEMMA DestinyType ==
  ASSUME NEW p \in Profiles, NEW l \in Logins
  PROVE  <<DestPrefix(p), l>> \in Dests
<1>1. DestPrefix(p) \in Profiles
  BY DEF DestPrefix, Profiles, agent, super_agent, admin
<1> QED
  BY <1>1 DEF Dests

LEMMA OpenSessionRegistry ==
  ASSUME RegistryTypeOK, RegistryConsistent,
         NEW c \in Conns, NEW l \in Logins, NEW p \in Profiles, OpenSession(c, l, p)
  PROVE  RegistryConsistent'
<1> DEFINE d == <<DestPrefix(p), l>>
<1>0. /\ login \in [Sessions -> Logins \cup {""}]
      /\ profile \in [Sessions -> empty..admin]
      /\ m_login_session \in [Logins -> 0..created]
      /\ m_dest_session \in [Dests -> 0..created]
  BY DEF RegistryTypeOK
<1>1. m_sessions \subseteq 1..created /\ created \in Nat /\ created < MaxSession
  <2>1. created \in 0..MaxSession /\ m_sessions \subseteq 1..created /\ created < MaxSession
    BY DEF RegistryTypeOK, OpenSession, NewId
  <2> QED
    BY <2>1, BoundsAssumption
<1>s. PICK s \in Nat : s = created + 1
  BY <1>1
<1>2. s \notin m_sessions /\ s # Null /\ s \in Sessions
  <2>1. s \in 1..MaxSession /\ ~(s \in 1..created)
    BY <1>1, <1>s, BoundsAssumption
  <2> QED
    BY <1>1, <1>s, <2>1 DEF Sessions, Sids, Null
<1>3. m_login_session[l] = Null
  <2>1. RegisterOutcome(l, p) = "OK"
    BY DEF OpenSession, NewId
  <2> QED
    BY <2>1 DEF RegisterOutcome
<1>4. /\ login' = [login EXCEPT ![s] = l]
      /\ profile' = [profile EXCEPT ![s] = p]
      /\ m_sessions' = m_sessions \cup {s}
      /\ m_login_session' = [m_login_session EXCEPT ![l] = s]
      /\ m_dest_session' = [m_dest_session EXCEPT ![d] = s]
  BY <1>s DEF OpenSession, NewId
<1>5. d \in Dests
  BY DestinyType
<1>6. login'[s] = l /\ profile'[s] = p /\ destiny_id(s)' = d
  <2>1. login'[s] = l
    BY <1>0, <1>2, <1>4
  <2>2. profile'[s] = p
    BY <1>0, <1>2, <1>4
  <2> QED
    BY <2>1, <2>2 DEF destiny_id
<1>7. \A t \in Sessions : t # s =>
        /\ login'[t] = login[t] /\ profile'[t] = profile[t]
        /\ destiny_id(t)' = destiny_id(t)
  BY <1>0, <1>4 DEF destiny_id
<1>8. \A t \in m_sessions : t # s /\ t \in Sessions
  <2>1. \A t \in m_sessions : t \in 1..MaxSession
    <3>1. \A t \in 1..created : t \in 1..MaxSession
      BY <1>1, BoundsAssumption
    <3> QED
      BY <1>1, <3>1
  <2> QED
    BY <1>2, <2>1 DEF Sessions, Sids
<1>9. \A t \in m_sessions : login[t] \in Logins /\ login[t] # l
  <2> TAKE t \in m_sessions
  <2>1. login[t] \in Logins /\ m_login_session[login[t]] = t
    BY DEF RegistryConsistent, SessionsAreReachable
  <2>2. t # Null
    <3>1. t \in 1..created
      BY <1>1
    <3> QED
      BY <1>1, <3>1 DEF Null
  <2> QED
    BY <1>3, <2>1, <2>2
<1>10. \A t \in m_sessions : destiny_id(t) # d
  BY <1>9 DEF destiny_id
<1>11. LoginsLeadToSessions'
  <2> SUFFICES ASSUME NEW k \in Logins, m_login_session'[k] # Null
               PROVE  m_login_session'[k] \in m_sessions' /\ login'[m_login_session'[k]] = k
    BY DEF LoginsLeadToSessions
  <2>1. CASE k = l
    BY <2>1, <1>0, <1>4, <1>6
  <2>2. CASE k # l
    <3>1. m_login_session'[k] = m_login_session[k]
      BY <2>2, <1>0, <1>4
    <3>2. m_login_session[k] \in m_sessions /\ login[m_login_session[k]] = k
      BY <3>1 DEF RegistryConsistent, LoginsLeadToSessions
    <3> QED
      BY <3>1, <3>2, <1>4, <1>7, <1>8
  <2> QED
    BY <2>1, <2>2
<1>12. DestinationsLeadToSessions'
  <2> SUFFICES ASSUME NEW e \in Dests, m_dest_session'[e] # Null
               PROVE  /\ m_dest_session'[e] \in m_sessions'
                      /\ destiny_id(m_dest_session[e])' = e
    BY DEF DestinationsLeadToSessions
  <2>1. CASE e = d
    <3>1. m_dest_session'[e] = s
      BY <2>1, <1>0, <1>4, <1>5
    <3> QED
      BY <2>1, <3>1, <1>4, <1>6 DEF destiny_id
  <2>2. CASE e # d
    <3>1. m_dest_session'[e] = m_dest_session[e]
      BY <2>2, <1>0, <1>4
    <3>2. m_dest_session[e] \in m_sessions /\ destiny_id(m_dest_session[e]) = e
      BY <3>1 DEF RegistryConsistent, DestinationsLeadToSessions
    <3> QED
      BY <3>1, <3>2, <1>4, <1>7, <1>8 DEF destiny_id
  <2> QED
    BY <2>1, <2>2
<1>13. SessionsAreReachable'
  <2> SUFFICES ASSUME NEW t \in m_sessions'
               PROVE  /\ login'[t] \in Logins /\ profile'[t] \in Profiles
                      /\ m_login_session'[login'[t]] = t
                      /\ m_dest_session'[destiny_id(t)'] = t
    BY DEF SessionsAreReachable
  <2>1. CASE t = s
    BY <2>1, <1>0, <1>4, <1>5, <1>6
  <2>2. CASE t # s
    <3>1. t \in m_sessions
      BY <2>2, <1>4
    <3>2. /\ login[t] \in Logins /\ profile[t] \in Profiles
          /\ m_login_session[login[t]] = t
          /\ m_dest_session[destiny_id(t)] = t
      BY <3>1 DEF RegistryConsistent, SessionsAreReachable
    <3>3. login'[t] = login[t] /\ profile'[t] = profile[t] /\ destiny_id(t)' = destiny_id(t)
      BY <2>2, <3>1, <1>7, <1>8
    <3>4. m_login_session'[login[t]] = m_login_session[login[t]]
      BY <3>1, <3>2, <1>0, <1>4, <1>9
    <3>5. m_dest_session'[destiny_id(t)] = m_dest_session[destiny_id(t)]
      <4>1. destiny_id(t) \in Dests
        BY <3>2, DestinyType DEF destiny_id
      <4> QED
        BY <3>1, <4>1, <1>0, <1>4, <1>10
    <3> QED
      BY <3>2, <3>3, <3>4, <3>5
  <2> QED
    BY <2>1, <2>2
<1> QED
  BY <1>11, <1>12, <1>13 DEF RegistryConsistent

LEMMA ForgetSessionRegistry ==
  ASSUME RegistryTypeOK, RegistryConsistent, NEW c \in Conns, ForgetSession(c)
  PROVE  RegistryConsistent'
<1> DEFINE s == fetch_session_by_cnx(c)
<1>1. /\ m_login_session \in [Logins -> 0..created]
      /\ m_dest_session \in [Dests -> 0..created]
  BY DEF RegistryTypeOK
<1>2. s \in m_sessions
  BY DEF ForgetSession, fetch_session_by_cnx, fetch_session_by_id
<1>3. /\ UNCHANGED <<login, profile>>
      /\ m_sessions' = m_sessions \ {s}
      /\ m_login_session' = [m_login_session EXCEPT ![login[s]] = Null]
      /\ m_dest_session' = [m_dest_session EXCEPT ![destiny_id(s)] = Null]
  BY DEF ForgetSession, sessionFields
<1> HIDE DEF s
<1>4. \A t : destiny_id(t)' = destiny_id(t)
  BY <1>3 DEF destiny_id
<1>5. \A t \in m_sessions :
        /\ login[t] \in Logins /\ profile[t] \in Profiles
        /\ m_login_session[login[t]] = t /\ m_dest_session[destiny_id(t)] = t
        /\ destiny_id(t) \in Dests
  BY DestinyType DEF RegistryConsistent, SessionsAreReachable, destiny_id
<1>6. LoginsLeadToSessions'
  <2> SUFFICES ASSUME NEW k \in Logins, m_login_session'[k] # Null
               PROVE  m_login_session'[k] \in m_sessions' /\ login'[m_login_session'[k]] = k
    BY DEF LoginsLeadToSessions
  <2>1. k # login[s] /\ m_login_session'[k] = m_login_session[k]
    BY <1>1, <1>3
  <2>2. m_login_session[k] \in m_sessions /\ login[m_login_session[k]] = k
    BY <2>1 DEF RegistryConsistent, LoginsLeadToSessions
  <2> QED
    BY <2>1, <2>2, <1>3
<1>7. DestinationsLeadToSessions'
  <2> SUFFICES ASSUME NEW e \in Dests, m_dest_session'[e] # Null
               PROVE  /\ m_dest_session'[e] \in m_sessions'
                      /\ destiny_id(m_dest_session[e])' = e
    BY DEF DestinationsLeadToSessions
  <2>1. e # destiny_id(s) /\ m_dest_session'[e] = m_dest_session[e]
    BY <1>1, <1>3
  <2>2. m_dest_session[e] \in m_sessions /\ destiny_id(m_dest_session[e]) = e
    BY <2>1 DEF RegistryConsistent, DestinationsLeadToSessions
  <2> QED
    BY <2>1, <2>2, <1>3 DEF destiny_id
<1>8. SessionsAreReachable'
  <2> SUFFICES ASSUME NEW t \in m_sessions'
               PROVE  /\ login'[t] \in Logins /\ profile'[t] \in Profiles
                      /\ m_login_session'[login'[t]] = t
                      /\ m_dest_session'[destiny_id(t)'] = t
    BY DEF SessionsAreReachable
  <2>1. t \in m_sessions /\ t # s
    BY <1>3
  <2>2. login[t] # login[s] /\ destiny_id(t) # destiny_id(s)
    BY <2>1, <1>2, <1>5
  <2> QED
    BY <2>1, <2>2, <1>1, <1>3, <1>4, <1>5
<1> QED
  BY <1>6, <1>7, <1>8 DEF RegistryConsistent

(* Steps that leave the maps and the sessions' fields alone.               *)
LEMMA RegistryUntouched ==
  RegistryConsistent /\ UNCHANGED <<sessionFields, registryMaps>> => RegistryConsistent'
BY DEF RegistryConsistent, LoginsLeadToSessions, DestinationsLeadToSessions,
       SessionsAreReachable, destiny_id, sessionFields, registryMaps

LEMMA RegistryStep ==
  RegistryTypeOK /\ RegistryConsistent /\ [RegistryNext]_sessionVars => RegistryConsistent'
<1> SUFFICES ASSUME RegistryTypeOK, RegistryConsistent, [RegistryNext]_sessionVars
             PROVE  RegistryConsistent'
  OBVIOUS
<1>1. CASE UNCHANGED sessionVars
  BY <1>1, RegistryUntouched DEF sessionVars
<1>2. ASSUME NEW c \in Conns, NEW l \in Logins, NEW p \in Profiles, register_session(c, l, p)
      PROVE  RegistryConsistent'
  BY <1>2, OpenSessionRegistry, RegistryUntouched
  DEF register_session, TakeOverSession, RefuseLogin, sessionVars
<1>3. ASSUME NEW c \in Conns, unregister_session(c)
      PROVE  RegistryConsistent'
  BY <1>3, ForgetSessionRegistry, RegistryUntouched DEF unregister_session, sessionVars
<1>4. ASSUME NEW c \in Conns, NEW s \in 0..created, UnlinkConnection(s, c)
      PROVE  RegistryConsistent'
  BY <1>4, RegistryUntouched DEF UnlinkConnection
<1> QED
  BY <1>1, <1>2, <1>3, <1>4 DEF RegistryNext

(* However logins, takeovers and ends of connections interleave, login,    *)
(* destination and live session stay in bijection: retrive_session never   *)
(* follows a login to a session that is not in m_sessions.                 *)
THEOREM RegistryBijective == RegistrySpec => []RegistryConsistent
<1>1. RegistryInit => RegistryTypeOK /\ RegistryConsistent
  BY TypeInit, RegistryInitial
<1>2. RegistryTypeOK /\ RegistryConsistent /\ [RegistryNext]_sessionVars => (RegistryTypeOK /\ RegistryConsistent)'
  BY TypeStep, RegistryStep
<1> QED
  BY <1>1, <1>2, PTL DEF RegistrySpec

-----------------------------------------------------------------------------
(* Services and administrators: one connection at a time.                  *)
LEMMA ExclusiveStep ==
  ASSUME RegistryTypeOK, ExclusiveProfilesHoldOneConnection, [RegistryNext]_sessionVars
  PROVE  ExclusiveProfilesHoldOneConnection'
<1> SUFFICES ASSUME NEW s \in Sids, profile'[s] \in {service, admin}
             PROVE  Len(cnxs'[s]) <= 1
  BY DEF ExclusiveProfilesHoldOneConnection
<1>0. /\ cnxs \in [Sessions -> Seq(Conns)] /\ s \in Sessions
      /\ profile \in [Sessions -> empty..admin]
  BY DEF RegistryTypeOK, Sessions
<1>1. ASSUME profile'[s] = profile[s], cnxs'[s] = cnxs[s]
      PROVE  Len(cnxs'[s]) <= 1
  BY <1>1 DEF ExclusiveProfilesHoldOneConnection
<1>2. CASE UNCHANGED <<profile, cnxs>>
  BY <1>1, <1>2
<1>3. ASSUME NEW c \in Conns, NEW l \in Logins, NEW p \in Profiles, OpenSession(c, l, p)
      PROVE  Len(cnxs'[s]) <= 1
  <2>1. cnxs' = [cnxs EXCEPT ![created + 1] = <<c>>] /\ profile' = [profile EXCEPT ![created + 1] = p]
    BY <1>3 DEF OpenSession, NewId
  <2>2. CASE s = created + 1
    <3>1. cnxs'[s] = <<c>>
      BY <1>0, <2>1, <2>2
    <3> QED
      BY <3>1
  <2>3. CASE s # created + 1
    BY <1>0, <1>1, <2>1, <2>3
  <2> QED
    BY <2>2, <2>3
<1>4. ASSUME NEW c \in Conns, NEW l \in Logins, NEW p \in Profiles, TakeOverSession(c, l, p)
      PROVE  Len(cnxs'[s]) <= 1
  <2>1. cnxs' = [cnxs EXCEPT ![m_login_session[l]] = Append(@, c)] /\ profile' = profile
    BY <1>4 DEF TakeOverSession, sessionFields
  <2>2. profile[m_login_session[l]] \in {agent, super_agent}
    BY <1>4 DEF TakeOverSession, RegisterOutcome
  <2>3. s # m_login_session[l]
    BY <2>1, <2>2 DEF agent, super_agent, service, admin
  <2> QED
    BY <1>0, <1>1, <2>1, <2>3
<1>5. ASSUME NEW c \in Conns, NEW t \in 0..created, UnlinkConnection(t, c)
      PROVE  Len(cnxs'[s]) <= 1
  <2>1. profile' = profile
    BY <1>5 DEF UnlinkConnection, sessionFields
  <2>2. CASE UNCHANGED cnxs
    BY <2>1, <2>2, <1>2
  <2>3. ASSUME NEW i \in DOMAIN cnxs[t], cnxs' = [cnxs EXCEPT ![t] = RemoveAt(@, i)]
        PROVE  Len(cnxs'[s]) <= 1
    <3>1. CASE s = t
      <4>1. cnxs[t] \in Seq(Conns) /\ cnxs'[s] = RemoveAt(cnxs[t], i)
        BY <1>0, <2>3, <3>1
      <4>2. Len(cnxs'[s]) = Len(cnxs[s]) - 1 /\ Len(cnxs[s]) \in Nat
        BY <3>1, <4>1, RemoveAtType
      <4>3. Len(cnxs[s]) <= 1
        BY <2>1 DEF ExclusiveProfilesHoldOneConnection
      <4> QED
        BY <4>2, <4>3
    <3>2. CASE s # t
      BY <1>0, <1>1, <2>1, <2>3, <3>2
    <3> QED
      BY <3>1, <3>2
  <2> QED
    BY <1>5, <2>2, <2>3 DEF UnlinkConnection
<1>6. ASSUME NEW c \in Conns, unregister_session(c)
      PROVE  Len(cnxs'[s]) <= 1
  BY <1>2, <1>6 DEF unregister_session, ForgetSession, sessionFields, sessionVars
<1>7. CASE UNCHANGED sessionVars
  BY <1>2, <1>7 DEF sessionVars, sessionFields
<1> QED
  BY <1>3, <1>4, <1>5, <1>6, <1>7
  DEF RegistryNext, register_session, RefuseLogin

(* A service or an administrator never holds two connections: a second     *)
(* login is refused for as long as the first connection is linked.         *)
THEOREM ExclusiveProfilesCorrect == RegistrySpec => []ExclusiveProfilesHoldOneConnection
<1>1. RegistryInit => ExclusiveProfilesHoldOneConnection
  <2>1. ASSUME RegistryInit, NEW s \in Sids
        PROVE  Len(cnxs[s]) <= 1
    <3>1. cnxs[s] = <<>>
      BY <2>1 DEF RegistryInit, Sessions
    <3> QED
      BY <3>1
  <2> QED
    BY <2>1 DEF ExclusiveProfilesHoldOneConnection
<1>2. RegistryTypeOK /\ ExclusiveProfilesHoldOneConnection /\ [RegistryNext]_sessionVars
        => ExclusiveProfilesHoldOneConnection'
  BY ExclusiveStep
<1> QED
  BY <1>1, <1>2, TypeCorrect, PTL DEF RegistrySpec

-----------------------------------------------------------------------------
(* Only OpenSession adds a session, and the number it takes was never used. *)
LEMMA RevivalStep ==
  ASSUME RegistryTypeOK, RegistryNext, NEW s \in 1..created
  PROVE  /\ s \in m_sessions' => s \in m_sessions
         /\ profile'[s] = profile[s] /\ login'[s] = login[s]
<1>0. /\ created \in Nat /\ s # created + 1
      /\ profile \in [Sessions -> empty..admin] /\ login \in [Sessions -> Logins \cup {""}]
      /\ s \in Sessions
  <2>1. created \in 0..MaxSession
    BY DEF RegistryTypeOK
  <2>2. created \in Nat /\ s # created + 1 /\ s \in 1..MaxSession
    BY <2>1, BoundsAssumption
  <2> QED
    BY <2>2 DEF RegistryTypeOK, Sessions, Sids
<1>1. ASSUME NEW c \in Conns, NEW l \in Logins, NEW p \in Profiles, OpenSession(c, l, p)
      PROVE  /\ s \in m_sessions' => s \in m_sessions
             /\ profile'[s] = profile[s] /\ login'[s] = login[s]
  <2>1. /\ m_sessions' = m_sessions \cup {created + 1}
        /\ profile' = [profile EXCEPT ![created + 1] = p]
        /\ login' = [login EXCEPT ![created + 1] = l]
    BY <1>1 DEF OpenSession, NewId
  <2> QED
    BY <1>0, <2>1
<1>2. ASSUME NEW c \in Conns, NEW l \in Logins, NEW p \in Profiles,
             TakeOverSession(c, l, p) \/ RefuseLogin(l, p)
      PROVE  UNCHANGED <<profile, login, m_sessions>>
  BY <1>2 DEF TakeOverSession, RefuseLogin, sessionVars, sessionFields, registryMaps
<1>3. ASSUME NEW c \in Conns, unregister_session(c)
      PROVE  m_sessions' \subseteq m_sessions /\ UNCHANGED <<profile, login>>
  BY <1>3 DEF unregister_session, ForgetSession, sessionVars, sessionFields, registryMaps
<1>4. ASSUME NEW c \in Conns, NEW t \in 0..created, UnlinkConnection(t, c)
      PROVE  UNCHANGED <<profile, login, m_sessions>>
  BY <1>4 DEF UnlinkConnection, sessionFields, registryMaps
<1> QED
  BY <1>1, <1>2, <1>3, <1>4 DEF RegistryNext, register_session

(* A removed session never comes back, and a session keeps the login and   *)
(* the profile it was created with: pointers held by threads stay valid.   *)
THEOREM SessionsAreNotRevivedCorrect == RegistrySpec => SessionsAreNotRevived
<1>1. RegistryTypeOK /\ [RegistryNext]_sessionVars =>
        [\A s \in 1..created :
           /\ s \in m_sessions' => s \in m_sessions
           /\ profile'[s] = profile[s] /\ login'[s] = login[s]]_sessionVars
  BY RevivalStep
<1> QED
  BY <1>1, TypeCorrect, PTL DEF RegistrySpec, SessionsAreNotRevived

=============================================================================
