-------------------------- MODULE MCServerLifecycle -------------------------
(* The two servers, whose handlers and the worker's tasks add one task.    *)
EXTENDS ServerLifecycle

MCAdders == {"ws", "tcp"}
MCStoppers == {"main stops ws", "main stops tcp", "ws stops", "tcp stops"}
=============================================================================
