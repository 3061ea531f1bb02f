--------------------------- MODULE MCServerLifecycle ---------------------------
(* ServerLifecycle for TLC: model values for the threads. *)
EXTENDS ServerLifecycle

CONSTANTS main, t1, t2

MCOthers == {t1, t2}
MCNobody == {}
=============================================================================
