------------------------ MODULE MCSubscriptionManager -----------------------
(***************************************************************************)
(* Both managers under callers that open and forget sessions and ask for    *)
(* subscriptions at any moment.  The subscription manager never looks at   *)
(* the connections of a session: each login has a connection of its own    *)
(* here, and the registry steps that only edit lists of connections are    *)
(* left to MCBrokerLinks.  An owner in a request may be any session         *)
(* created so far and nobody looks at a task that waits, so one task,      *)
(* asked for when the worker is idle, shows what a longer queue would.     *)
(***************************************************************************)
EXTENDS SubscriptionManager

CONSTANTS alice, bob

MCLogins == {alice, bob}
(* The direct destination of an agent, and the pattern that matches all.   *)
MCPatterns == {{<<agent, alice>>}, Dests}

(* Bob is of a profile that may subscribe, Alice below, beside or above.   *)
MCProfiles(l) == IF l = bob THEN {super_agent, service} ELSE {agent, service, admin}

MCNext ==
  \/ \E l \in Logins :
       /\ (\E p \in MCProfiles(l) : OpenSession(l, l, p)) \/ ForgetSession(l)
       /\ UNCHANGED subscriptionVars
  \/ ((worker = "idle" /\ Request) \/ WorkerStep) /\ UNCHANGED sessionVars

MCSpec == ManagersInit /\ [][MCNext]_allVars
=============================================================================
