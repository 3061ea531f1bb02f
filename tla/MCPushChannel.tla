----------------------------- MODULE MCPushChannel -----------------------------
(* PushChannel for TLC: model values for the threads and the worker. *)
EXTENDS PushChannel

CONSTANTS t1, t2, w

MCThreads == {t1, t2}
=============================================================================
