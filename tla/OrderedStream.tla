----------------------------- MODULE OrderedStream -----------------------------
(***************************************************************************)
(* What a push handle (sse::Session or pulse::Channel) promises to the     *)
(* code that holds it: a send that returned true puts its frame at the end *)
(* of one stream, and the peer's connection receives that stream in order, *)
(* without a gap, a repeat or a frame nobody sent, until the connection is *)
(* gone.  Once it is gone nothing is accepted and nothing is delivered.    *)
(***************************************************************************)
EXTENDS Naturals, Sequences

CONSTANT Frame      (* everything that can be put on a stream *)

VARIABLES
  accepted,         (* frames whose send returned true, in the order accepted *)
  delivered,        (* frames the kernel took for the peer *)
  open              (* the connection behind the handle still exists *)

vars == <<accepted, delivered, open>>

Init ==
  /\ accepted \in [1 .. 1 -> Frame]     \* the head of the upgrade response
  /\ delivered = <<>>
  /\ open = TRUE

Accept(f) ==
  /\ open
  /\ accepted' = Append(accepted, f)
  /\ UNCHANGED <<delivered, open>>

Deliver ==
  /\ open
  /\ Len(delivered) < Len(accepted)
  /\ delivered' = Append(delivered, accepted[Len(delivered) + 1])
  /\ UNCHANGED <<accepted, open>>

Close ==
  /\ open
  /\ open' = FALSE
  /\ UNCHANGED <<accepted, delivered>>

Next ==
  \/ \E f \in Frame : Accept(f)
  \/ Deliver
  \/ Close

Spec == Init /\ [][Next]_vars

(* A peer that keeps reading gets everything that was accepted, unless the *)
(* connection goes away first.                                             *)
LiveSpec == Spec /\ WF_vars(Deliver)
=============================================================================
