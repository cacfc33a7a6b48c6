---------------------------- MODULE MCBrokerLinks ---------------------------
(* A WebSocket and a TCP connection, two logins that may subscribe to each *)
(* other.                                                                  *)
EXTENDS Broker

CONSTANTS
  w1, t1, alice, bob,
  AliceProfiles    \* the profiles Alice may connect with

MCConns == {w1, t1}
MCWsConns == {w1}
MCLogins == {alice, bob}
MCPatterns == {{<<agent, alice>>}, Dests}
OnlyAlice == {{<<agent, alice>>}}
NoPattern == {}
OnlyAgent == {agent}
OtherThanBob == Profiles \ {service}
MCSendDests == {<<agent, alice>>}

(* Bob is a service, Alice below or above, and a direct subscription is to *)
(* one destination, a pattern to all; MCBroker has one login with several  *)
(* profiles and the frames the broker refuses.                             *)
MCFrame(c) ==
  \/ \E p \in AliceProfiles : proccess_connect(c, alice, p)
  \/ proccess_connect(c, bob, service)
  \/ proccess_disconnect(c)
  \/ \E s \in HeaderIds :
       \/ \E d \in SendDests : proccess_send_message(c, s, d)
       \/ \E d \in Patterns :
            proccess_subscribe(c, s, IF Cardinality(d) = 1 THEN "DIRECT" ELSE "REGEX", d)
       \/ proccess_unsubscribe(c, s)

MCNext ==
  \/ \E c \in Conns : Accept(c) \/ ReadError(c) \/ MCFrame(c)
  \/ \E t \in Threads : ThreadStep(t)
  \/ WorkerTask \/ WorkerEnd

MCSpec == BrokerInit /\ [][MCNext]_vars
LiveSpec == MCSpec /\ BrokerFairness
=============================================================================
