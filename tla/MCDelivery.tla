----------------------------- MODULE MCDelivery -----------------------------
(* Instances of Delivery for TLC. *)
EXTENDS Delivery, TLC

\* Every client can take part in a host transfer.
Capable == {[sync_protocol_version |-> 1, host_transfer_capable |-> TRUE]}

CONSTANT Lead  \* the connection that sends most

\* One message each, and one more from the lead.
LeadTwice == [c \in Conns |-> IF c = Lead THEN 2 ELSE 1]

\* The lead is told from the others.
Symmetry == Permutations(Conns \ {Lead}) \cup Permutations(PeerIds)
=============================================================================
