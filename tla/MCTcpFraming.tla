---------------------------- MODULE MCTcpFraming ----------------------------
(* Bytes of two values, so that a size of up to 7 is positive.  The        *)
(* payloads are empty, shorter than a header, and longer.                  *)
EXTENDS TcpFraming

CONSTANTS io, worker
MCWriters == {io, worker}
MCPayloads == {<<>>, <<1>>, <<1, 0>>}
MCReplies == {<<1, 1>>}
=============================================================================
