------------------------------- MODULE MCRooms -------------------------------
(* Rooms for TLC: interchangeable threads, channels, addresses, streams. *)
EXTENDS Rooms, TLC

MCWorkerOf == [c \in Chans |-> "worker"]

MCSymmetry == Permutations(Threads) \cup Permutations(Chans) \cup Permutations(Addrs) \cup Permutations(Streams)
=============================================================================
