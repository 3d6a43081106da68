------------------------------ MODULE MCRelay -------------------------------
(* Instances of Relay for TLC. *)
EXTENDS RelayIdentities, TLC

\* Every connection comes from the same address.
OneIp == [c \in Conns |-> CHOOSE i \in Ips : TRUE]

\* One connection comes from another address than the rest.
Lone == CHOOSE c \in Conns : TRUE
TwoIps == LET i == CHOOSE i \in Ips : TRUE
          IN  [c \in Conns |-> IF c = Lone THEN i ELSE CHOOSE j \in Ips : j # i]

\* Every client can take part in a host transfer.
Capable == {[sync_protocol_version |-> 1, host_transfer_capable |-> TRUE]}

\* Clients of two sync versions, and one that cannot follow a transfer.
Mixed == Capable \cup
  {[sync_protocol_version |-> 1, host_transfer_capable |-> FALSE],
   [sync_protocol_version |-> 2, host_transfer_capable |-> TRUE]}

Symmetry == Permutations(Conns) \cup Permutations(Handles)
              \cup Permutations(Tokens) \cup Permutations(PeerIds)

\* TwoIps tells Lone from the other connections.
RegistrySymmetry == Permutations(Conns \ {Lone}) \cup Permutations(Handles)
                      \cup Permutations(Sessions) \cup Permutations(Tokens)
=============================================================================
