---------------------------- MODULE MCDurability ----------------------------
(* Instances of Durability for TLC. *)
EXTENDS Durability, TLC

\* Every connection comes from the same address, which is not the empty key.
OneIp == [c \in Conns |-> CHOOSE i \in Ips \ {NoIp} : TRUE]

Capable == {[sync_protocol_version |-> 1, host_transfer_capable |-> TRUE]}

Symmetry == Permutations(Conns) \cup Permutations(Handles)
              \cup Permutations(Tokens) \cup Permutations(PeerIds)

\* A bound: main shuts the writer down, or the clock ticks, but not both.
ShutdownOrTick ==
  now = 0 \/ ~(flushing \/ writer_pc = "stopped" \/ \E i \in DOMAIN cmds : cmds[i] = FlushAndStop)
=============================================================================
