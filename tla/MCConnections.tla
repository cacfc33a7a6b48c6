---------------------------- MODULE MCConnections ---------------------------
(* Two TCP connections from one port, and a WebSocket connection of its    *)
(* own port; the worker writes too.                                        *)
EXTENDS Connections

CONSTANTS t1, t2, w1, worker
MCCnxs == {t1, t2, w1}
MCWsCnxs == {w1}
MCOthers == {worker}
MCPorts == {1, 2}
MCPortOf == [c \in MCCnxs |-> IF c = w1 THEN 2 ELSE 1]
=============================================================================
