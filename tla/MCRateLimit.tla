------------------------------ MODULE MCRateLimit ------------------------------
(* RateLimit for TLC: model values for the threads and the keys. *)
EXTENDS RateLimit, TLC

CONSTANTS t1, t2, a, b

MCThreads == {t1, t2}
MCKeys    == {a, b}
MCSymmetry == Permutations(MCThreads) \cup Permutations(MCKeys)
=============================================================================
