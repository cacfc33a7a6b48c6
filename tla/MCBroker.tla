------------------------------ MODULE MCBroker ------------------------------
(* One WebSocket and two TCP connections, one login.                       *)
EXTENDS Broker

CONSTANTS w1, t1, t2, alice

MCConns == {w1, t1, t2}
MCWsConns == {w1}
MCLogins == {alice}
MCPatterns == {Dests}
MCSendDests == {<<agent, alice>>}

(* To the broker a super agent is what an agent is, an administrator what  *)
(* a service is.                                                           *)
MCFrame(c) ==
  \/ BadFrame(c)
  \/ \E p \in {agent, service} : proccess_connect(c, alice, p)
  \/ proccess_disconnect(c)
  \/ \E s \in HeaderIds :
       \/ \E d \in SendDests : proccess_send_message(c, s, d)
       \/ \E d \in Patterns : proccess_subscribe(c, s, "REGEX", d)
       \/ proccess_unsubscribe(c, s)

MCNext ==
  \/ \E c \in Conns : Accept(c) \/ ReadError(c) \/ MCFrame(c)
  \/ \E t \in Threads : ThreadStep(t)
  \/ WorkerTask \/ WorkerEnd

MCSpec == BrokerInit /\ [][MCNext]_vars
Symmetric == Permutations({t1, t2})
=============================================================================
