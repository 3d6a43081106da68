---------------------------- MODULE HostTransfer ----------------------------
(***************************************************************************)
(* The host-transfer eligibility algorithm (src/src/host_transfer.rs): a   *)
(* pure function of the connected roster.  "peers" is the list of PeerInfo *)
(* records, as a function from the connected peer ids to                   *)
(* [sync_protocol_version, host_transfer_capable]; "reserved" is the set   *)
(* of ids for which the code's is_reserved callback answers true.          *)
(***************************************************************************)
EXTENDS Integers

\* The connected host may hand its role over at all: every connected peer has
\* a positive version and nobody at the host's version lacks the capability.
EligibleHost(host, peers) ==
  /\ host \in DOMAIN peers
  /\ peers[host].sync_protocol_version > 0
  /\ peers[host].host_transfer_capable
  /\ \A p \in DOMAIN peers :
        /\ peers[p].sync_protocol_version > 0
        /\ peers[p].sync_protocol_version = peers[host].sync_protocol_version
             => peers[p].host_transfer_capable

\* Variant of IsValidTarget: a newer sync version is accepted too.
IsValidTargetAtLeast(host, peers, reserved, target) ==
  /\ target # host
  /\ EligibleHost(host, peers)
  /\ target \in DOMAIN peers
  /\ target \in reserved
  /\ peers[target].host_transfer_capable
  /\ peers[target].sync_protocol_version >= peers[host].sync_protocol_version

IsValidTarget(host, peers, reserved, target) ==
  /\ target # host
  /\ EligibleHost(host, peers)
  /\ target \in DOMAIN peers
  /\ target \in reserved
  /\ peers[target].host_transfer_capable
  /\ peers[target].sync_protocol_version = peers[host].sync_protocol_version

\* compute_eligibility: who is notified, and which targets they are offered.
\* The code's None is the empty set of recipients.
ComputeEligibility(host, peers, reserved) ==
  [recipients |-> {p \in DOMAIN peers : peers[p].host_transfer_capable},
   targets    |-> {p \in DOMAIN peers : IsValidTarget(host, peers, reserved, p)}]
=============================================================================
