----------------------------- MODULE MCTaskQueue ----------------------------
(* Two threads that add tasks, as the two io threads do, and two that stop *)
(* the queue, the main thread and a server whose acceptor failed.          *)
EXTENDS TaskQueue

CONSTANTS ws, tcp, main, acceptor

MCAdders == {ws, tcp}
MCStoppers == {main, acceptor}
=============================================================================
