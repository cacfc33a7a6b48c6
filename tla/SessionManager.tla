--------------------------- MODULE SessionManager ---------------------------
(***************************************************************************)
(* stomp_session_manager (stomp_session.cpp): the registry that maps a     *)
(* login, a destination and a connection to the one session they belong    *)
(* to.  register_session and unregister_session run under mtx_session, so   *)
(* each is one action here.  The list of connections of a session is also  *)
(* edited outside that mutex, by stomp_sever::on_connection_end: that edit  *)
(* is the action UnlinkConnection.                                         *)
(*                                                                         *)
(* A session is a number: the order of its creation.  Session 0 is          *)
(* m_null_session, which every fetch returns for "not found"; a map that    *)
(* has no entry for a key has the value 0 there.  The fields of             *)
(* stomp_session are functions of the session, so that a session pointer   *)
(* kept by a thread outlives the session's removal from m_sessions.        *)
(***************************************************************************)
EXTENDS Naturals, Sequences, SequencesExt

CONSTANTS
  Conns,        \* connection ids
  Logins,       \* login ids that appear in CONNECT frames
  MaxSession,   \* bound: sessions created in a behaviour
  MaxLinks      \* bound: connections in the list of one session

ASSUME BoundsAssumption == MaxSession \in Nat /\ MaxLinks \in Nat
ASSUME LoginAssumption == "" \notin Logins

VARIABLES
  created,          \* sessions created so far; their ids are 1..created
  login,            \* stomp_session::login_id
  profile,          \* stomp_session::profile
  cnxs,             \* stomp_session::cnxs, oldest connection first
  m_sessions,       \* the session ids that are keys of m_sessions
  m_login_session,  \* login id to session
  m_dest_session,   \* destination to session
  m_cnx_session     \* connection id to session

sessionFields == <<created, login, profile>>
registryMaps == <<m_sessions, m_login_session, m_dest_session>>
sessionVars == <<sessionFields, cnxs, registryMaps, m_cnx_session>>

-----------------------------------------------------------------------------
(* enum stomp_profile: the order of the values is the order of rights.     *)
empty == 0
agent == 1
super_agent == 2
service == 3
admin == 4
Profiles == agent..admin

Null == 0                       \* m_null_session
Sids == 1..MaxSession
Sessions == {Null} \cup Sids

(* profile_description(prof, true): super agents share the agents' prefix. *)
DestPrefix(p) == IF p = super_agent THEN agent ELSE p
Dests == Profiles \X Logins
destiny_id(s) == <<DestPrefix(profile[s]), login[s]>>

fetch_session_by_id(s) == IF s \in m_sessions THEN s ELSE Null
fetch_session_by_cnx(c) == fetch_session_by_id(m_cnx_session[c])
fetch_session_by_destination(d) == fetch_session_by_id(m_dest_session[d])

(* The stomp_errors value register_session returns for a CONNECT.          *)
RegisterOutcomeSameRights(l, p) ==   \* slip: services are taken over too
  LET s == m_login_session[l] IN
  IF s = Null THEN "OK"
  ELSE IF profile[s] # p THEN "WRONG_PROFILE_REGISTERED"
  ELSE "NEW_CONNECTION_LOGGED"

RegisterOutcome(l, p) ==
  LET s == m_login_session[l] IN
  IF s = Null THEN "OK"
  ELSE IF profile[s] \notin {agent, super_agent} THEN "LOGIN_ID_ALREADY_LOGGED"
  ELSE IF profile[s] # p THEN "WRONG_PROFILE_REGISTERED"
  ELSE "NEW_CONNECTION_LOGGED"

(* gen_session_id: the id of the next session.                             *)
NewIdSkips == created + 2                          \* slip: two numbers are taken
NewId == created + 1

-----------------------------------------------------------------------------
RegistryInit ==
  /\ created = 0
  /\ login = [s \in Sessions |-> ""]
  /\ profile = [s \in Sessions |-> empty]
  /\ cnxs = [s \in Sessions |-> <<>>]
  /\ m_sessions = {}
  /\ m_login_session = [l \in Logins |-> Null]
  /\ m_dest_session = [d \in Dests |-> Null]
  /\ m_cnx_session = [c \in Conns |-> Null]

(* register_session, the login is not in use: a session is created.        *)
OpenSession(c, l, p) ==
  /\ RegisterOutcome(l, p) = "OK"
  /\ created < MaxSession
  /\ LET s == NewId IN
     /\ created' = s
     /\ login' = [login EXCEPT ![s] = l]
     /\ profile' = [profile EXCEPT ![s] = p]
     /\ cnxs' = [cnxs EXCEPT ![s] = <<c>>]
     /\ m_sessions' = m_sessions \cup {s}
     /\ m_login_session' = [m_login_session EXCEPT ![l] = s]
     /\ m_dest_session' = [m_dest_session EXCEPT ![<<DestPrefix(p), l>>] = s]
     /\ m_cnx_session' = [m_cnx_session EXCEPT ![c] = s]

(* register_session, an agent logs in again: the connection joins the list *)
(* of the session.  The caller closes the connection that front() was.     *)
TakeOverSession(c, l, p) ==
  /\ RegisterOutcome(l, p) = "NEW_CONNECTION_LOGGED"
  /\ LET s == m_login_session[l] IN
     /\ Len(cnxs[s]) < MaxLinks
     /\ cnxs' = [cnxs EXCEPT ![s] = Append(@, c)]
     /\ m_cnx_session' = [m_cnx_session EXCEPT ![c] = s]
  /\ UNCHANGED <<sessionFields, registryMaps>>

(* register_session, the login is refused: nothing is registered.          *)
RefuseLogin(l, p) ==
  /\ RegisterOutcome(l, p) \in {"LOGIN_ID_ALREADY_LOGGED", "WRONG_PROFILE_REGISTERED"}
  /\ UNCHANGED sessionVars

register_session(c, l, p) ==
  OpenSession(c, l, p) \/ TakeOverSession(c, l, p) \/ RefuseLogin(l, p)

(* unregister_session: the session the connection leads to is forgotten.   *)
(* Only the connections still in its list lose their entry.                *)
UnregisterKeepsDestination(c) ==     \* slip: step 2 of the removal is lost
  LET s == fetch_session_by_cnx(c) IN
  /\ s # Null
  /\ m_cnx_session' = [d \in Conns |->
                         IF d \in ToSet(cnxs[s]) THEN Null ELSE m_cnx_session[d]]
  /\ m_login_session' = [m_login_session EXCEPT ![login[s]] = Null]
  /\ m_sessions' = m_sessions \ {s}
  /\ UNCHANGED <<sessionFields, cnxs, m_dest_session>>

ForgetSession(c) ==
  LET s == fetch_session_by_cnx(c) IN
  /\ s # Null
  /\ m_cnx_session' = [d \in Conns |->
                         IF d \in ToSet(cnxs[s]) THEN Null ELSE m_cnx_session[d]]
  /\ m_dest_session' = [m_dest_session EXCEPT ![destiny_id(s)] = Null]
  /\ m_login_session' = [m_login_session EXCEPT ![login[s]] = Null]
  /\ m_sessions' = m_sessions \ {s}
  /\ UNCHANGED <<sessionFields, cnxs>>

unregister_session(c) ==
  \/ ForgetSession(c)
  \/ fetch_session_by_cnx(c) = Null /\ UNCHANGED sessionVars

(* on_connection_end, the loop over session->cnxs: the first entry of the  *)
(* connection leaves the list of the session the caller fetched earlier.   *)
FirstAt(s, c, i) ==
  cnxs[s][i] = c /\ \A j \in DOMAIN cnxs[s] : cnxs[s][j] = c => i <= j

UnlinkOldest(s, c) ==        \* slip: begin() is erased instead of it
  /\ \/ c \in ToSet(cnxs[s]) /\ cnxs' = [cnxs EXCEPT ![s] = Tail(@)]
     \/ c \notin ToSet(cnxs[s]) /\ UNCHANGED cnxs
  /\ UNCHANGED <<sessionFields, registryMaps, m_cnx_session>>

UnlinkConnection(s, c) ==
  /\ \/ \E i \in DOMAIN cnxs[s] :
          FirstAt(s, c, i) /\ cnxs' = [cnxs EXCEPT ![s] = RemoveAt(@, i)]
     \/ c \notin ToSet(cnxs[s]) /\ UNCHANGED cnxs
  /\ UNCHANGED <<sessionFields, registryMaps, m_cnx_session>>

(* The callers: the threads of the two servers, in any order.              *)
RegistryNext ==
  \E c \in Conns :
    \/ \E l \in Logins, p \in Profiles : register_session(c, l, p)
    \/ unregister_session(c)
    \/ \E s \in 0..created : UnlinkConnection(s, c)

RegistrySpec == RegistryInit /\ [][RegistryNext]_sessionVars

-----------------------------------------------------------------------------
(* The shape of the state: ids are the ids handed out so far, the maps     *)
(* lead to sessions that were created.                                     *)
RegistryTypeOK ==
  /\ created \in 0..MaxSession
  /\ login \in [Sessions -> Logins \cup {""}]
  /\ profile \in [Sessions -> empty..admin]
  /\ cnxs \in [Sessions -> Seq(Conns)]
  /\ m_sessions \subseteq 1..created
  /\ m_login_session \in [Logins -> 0..created]
  /\ m_dest_session \in [Dests -> 0..created]
  /\ m_cnx_session \in [Conns -> 0..created]

(* The three maps describe one set of sessions.  retrive_session follows a  *)
(* login to m_sessions without testing for end(), and unregister_session    *)
(* erases by the session's own login and destination: both are right only  *)
(* as long as login, destination and session are in bijection.             *)
LoginsLeadToSessions ==
  \A l \in Logins : m_login_session[l] # Null =>
    /\ m_login_session[l] \in m_sessions
    /\ login[m_login_session[l]] = l
DestinationsLeadToSessions ==
  \A d \in Dests : m_dest_session[d] # Null =>
    /\ m_dest_session[d] \in m_sessions
    /\ destiny_id(m_dest_session[d]) = d
SessionsAreReachable ==
  \A s \in m_sessions :
    /\ login[s] \in Logins /\ profile[s] \in Profiles
    /\ m_login_session[login[s]] = s
    /\ m_dest_session[destiny_id(s)] = s
RegistryConsistent ==
  /\ LoginsLeadToSessions
  /\ DestinationsLeadToSessions
  /\ SessionsAreReachable

(* A service or an administrator never holds two connections at a time:    *)
(* the second login is refused and the first one kept (README.MD, the       *)
(* profiles' section), whatever ends and logins came before.               *)
ExclusiveProfilesHoldOneConnection ==
  \A s \in Sids : profile[s] \in {service, admin} => Len(cnxs[s]) <= 1

(* A session that was unregistered never comes back: a pointer to it that  *)
(* another thread still holds cannot be confused with a later session of   *)
(* the same login, and its profile and login are those of its creation.    *)
SessionsAreNotRevived ==
  [][\A s \in 1..created :
       /\ s \in m_sessions' => s \in m_sessions
       /\ profile'[s] = profile[s] /\ login'[s] = login[s]]_sessionVars
=============================================================================
