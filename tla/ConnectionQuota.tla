-------------------------- MODULE ConnectionQuota ---------------------------
(***************************************************************************)
(* Admission to GET /relay: ws_handler (src/src/ws.rs) and the             *)
(* ConnectionQuota of src/src/quotas.rs that it charges, through the life  *)
(* of the WebSocket.  The quota's map is a function that is 0 where the    *)
(* map has no entry.  The connect limiter is the governor crate's and      *)
(* refuses whenever it likes; the upgrade is axum's and hyper's, which run *)
(* the callback only once the socket is there.                             *)
(***************************************************************************)
EXTENDS Naturals, FiniteSets

CONSTANTS
  Sockets,           \* requests for an upgrade
  Ips,               \* resolved client addresses
  IpOf,              \* the address of every request
  MAX_GLOBAL_CONNS,  \* quotas.rs: 100
  MAX_CONNS_PER_IP   \* quotas.rs: 5

VARIABLES
  global,   \* ConnectionQuotaInner.global
  per_ip,   \* ConnectionQuotaInner.per_ip
  socket    \* how far every request has got

quotaVars == <<global, per_ip, socket>>

ASSUME QuotaConstants ==
  /\ IsFiniteSet(Sockets)
  /\ IpOf \in [Sockets -> Ips]
  /\ MAX_GLOBAL_CONNS \in Nat /\ MAX_CONNS_PER_IP \in Nat

\* "lost" is an upgrade that failed after the request was admitted.
Stages == {"new", "admitted", "running", "refused", "closed", "lost"}

QuotaInit ==
  /\ global = 0
  /\ per_ip = [i \in Ips |-> 0]
  /\ socket = [s \in Sockets |-> "new"]

Move(s, from, to) == socket[s] = from /\ socket' = [socket EXCEPT ![s] = to]

\* Variant of MayConnect: each cap is off by one.
MayConnectAtCap(ip) == global <= MAX_GLOBAL_CONNS /\ per_ip[ip] <= MAX_CONNS_PER_IP

\* ConnectionQuota::try_connect would admit ip.
MayConnect(ip) == global < MAX_GLOBAL_CONNS /\ per_ip[ip] < MAX_CONNS_PER_IP

Admit(s) ==
  /\ Move(s, "new", "admitted") /\ MayConnect(IpOf[s])
  /\ per_ip' = [per_ip EXCEPT ![IpOf[s]] = @ + 1]
  /\ global' = global + 1

\* The address cannot be resolved, the connect limiter refuses, or the quota
\* is used up: no slot is taken.
Refuse(s) == Move(s, "new", "refused") /\ UNCHANGED <<global, per_ip>>

\* on_upgrade's callback starts connection::run.
Upgraded(s) == Move(s, "admitted", "running") /\ UNCHANGED <<global, per_ip>>

\* The client goes away during the upgrade: the callback is dropped.
UpgradeFails(s) == Move(s, "admitted", "lost") /\ UNCHANGED <<global, per_ip>>

\* Variant of Disconnect: the last connection of an address, whose entry goes,
\* does not give back the global slot.
DisconnectKeepingGlobal(s) ==
  LET ip == IpOf[s]
  IN  /\ Move(s, "running", "closed")
      /\ per_ip' = [per_ip EXCEPT ![ip] = IF @ > 0 THEN @ - 1 ELSE @]
      /\ global' = IF per_ip'[ip] > 0 /\ global > 0 THEN global - 1 ELSE global

\* connection::run has returned: ConnectionQuota::disconnect.
Disconnect(s) ==
  LET ip == IpOf[s]
  IN  /\ Move(s, "running", "closed")
      /\ per_ip' = [per_ip EXCEPT ![ip] = IF @ > 0 THEN @ - 1 ELSE @]
      /\ global' = IF per_ip[ip] > 0 /\ global > 0 THEN global - 1 ELSE global

SocketStep(s) ==
  Admit(s) \/ Refuse(s) \/ Upgraded(s) \/ UpgradeFails(s) \/ Disconnect(s)

QuotaNext == \E s \in Sockets : SocketStep(s)

QuotaSpec == QuotaInit /\ [][QuotaNext]_quotaVars
-----------------------------------------------------------------------------
(* Properties *)

QuotaTypeOK ==
  /\ global \in Nat
  /\ per_ip \in [Ips -> Nat]
  /\ socket \in [Sockets -> Stages]

At(stages) == {s \in Sockets : socket[s] \in stages}

From(S, ip) == {s \in S : IpOf[s] = ip}

\* The requests that have taken a slot and not given it back.
Charged == At({"admitted", "running", "lost"})

\* Both counters count the same slots, and neither the refusal of one cap nor
\* the saturating decrements ever make them differ from the requests that
\* hold one.
CountersExact ==
  /\ global = Cardinality(Charged)
  /\ \A ip \in Ips : per_ip[ip] = Cardinality(From(Charged, ip))

\* Never more open sockets than the caps allow, of one address and in all.
ConnectionsCapped ==
  /\ Cardinality(At({"running"})) <= MAX_GLOBAL_CONNS
  /\ \A ip \in Ips : Cardinality(From(At({"running"}), ip)) <= MAX_CONNS_PER_IP
=============================================================================
