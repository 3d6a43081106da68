------------------------------ MODULE ClientIp ------------------------------
(***************************************************************************)
(* The resolution of a client's address that every quota is keyed by:      *)
(* ClientIpResolver (src/src/client_ip.rs), the header values it is given  *)
(* (forwarded_for, src/src/logs.rs) and the proxies main lets it trust     *)
(* (src/src/main.rs).  One behaviour resolves one request.                 *)
(*                                                                         *)
(* An address is its kind, its network (an IPv4 address, or an IPv6 /64)   *)
(* and the interface bits below it; "mapped" is an IPv4 address written as *)
(* ::ffff:a.b.c.d.  A network of the setting is the set of addresses it    *)
(* contains.  A header value is its comma-separated elements and its       *)
(* length; an element that is blank or is no address is Malformed.         *)
(***************************************************************************)
EXTENDS Naturals, Sequences, FiniteSets

CONSTANTS
  Nets, Hosts,        \* networks, and interface bits (0 is all zeroes)
  Malformed,          \* an element or a setting entry that does not parse
  Undecodable,        \* a header value that is not visible ASCII
  Error,              \* ClientIpError
  Pending,            \* no result yet
  MAX_FORWARDED_FOR_BYTES, MAX_FORWARDED_FOR_HOPS,
  Headers,            \* X-Forwarded-For headers, in wire order
  Settings            \* values of TRUSTED_PROXY_CIDRS

VARIABLES
  peer,               \* the TCP peer
  setting,            \* TRUSTED_PROXY_CIDRS
  trusted_proxies,    \* ClientIpResolver.trusted_proxies
  forwarded_for,      \* the values resolve is given
  pc, v, e,           \* where resolve is: value and element
  total_bytes, hop_count, selected, use_forwarded_hop,
  result

ipVars == <<peer, setting, trusted_proxies, forwarded_for, pc, v, e, total_bytes,
            hop_count, selected, use_forwarded_hop, result>>

IpAddrs == [kind : {"v4", "mapped"}, net : Nets, host : {0}]
             \cup [kind : {"v6"}, net : Nets, host : Hosts]

Elements == IpAddrs \cup {Malformed}

Values == [elements : Seq(Elements) \ {<<>>}, bytes : Nat]

\* forwarded_for: a value that does not decode is left out.
Decodes(value) == value # Undecodable

Forwarded(header) == SelectSeq(header, Decodes)

ASSUME ClientIpConstants ==
  /\ 0 \in Hosts
  /\ Malformed \notin IpAddrs /\ Error \notin IpAddrs /\ Pending \notin IpAddrs
  /\ Error # Pending
  /\ MAX_FORWARDED_FOR_BYTES \in Nat /\ MAX_FORWARDED_FOR_HOPS \in Nat
  /\ \A h \in Headers : Forwarded(h) \in Seq(Values)
  /\ \A s \in Settings : \A i \in DOMAIN s : s[i] # Malformed => s[i] \subseteq IpAddrs

\* parse_trusted_proxy_cidrs, and main, which goes on with no proxies when one
\* entry is malformed.
ParseTrusted(s) ==
  IF \E i \in DOMAIN s : s[i] = Malformed THEN {} ELSE {s[i] : i \in DOMAIN s}

unmap(a) == IF a.kind = "mapped" THEN [a EXCEPT !.kind = "v4"] ELSE a

normalize(a) == IF a.kind = "v6" THEN [a EXCEPT !.host = 0] ELSE a

trusted(a) == \E net \in trusted_proxies : unmap(a) \in net

IpInit ==
  /\ peer \in IpAddrs
  /\ setting \in Settings /\ trusted_proxies = ParseTrusted(setting)
  /\ \E h \in Headers : forwarded_for = Forwarded(h)
  /\ pc = "start" /\ v = 1 /\ e = 0
  /\ total_bytes = 0 /\ hop_count = 0
  /\ selected = unmap(peer) /\ use_forwarded_hop = TRUE
  /\ result = Pending

inputs == <<peer, setting, trusted_proxies, forwarded_for>>

Return(r) == pc' = "done" /\ result' = r

\* The header is not consulted.
Start ==
  /\ pc = "start"
  /\ IF ~trusted(unmap(peer)) \/ forwarded_for = <<>>
     THEN Return(normalize(unmap(peer)))
     ELSE pc' = "measure" /\ UNCHANGED result
  /\ UNCHANGED <<inputs, v, e, total_bytes, hop_count, selected, use_forwarded_hop>>

\* Variant of Measure: hops are not counted over all values.
MeasureEach ==
  /\ pc = "measure"
  /\ total_bytes' = total_bytes + forwarded_for[v].bytes
  /\ hop_count' = Len(forwarded_for[v].elements)
  /\ IF total_bytes' > MAX_FORWARDED_FOR_BYTES \/ hop_count' > MAX_FORWARDED_FOR_HOPS
     THEN Return(Error) /\ UNCHANGED <<v, e>>
     ELSE /\ IF v < Len(forwarded_for) THEN v' = v + 1 /\ UNCHANGED <<pc, e>>
             ELSE pc' = "walk" /\ e' = Len(forwarded_for[v].elements) /\ UNCHANGED v
          /\ UNCHANGED result
  /\ UNCHANGED <<inputs, selected, use_forwarded_hop>>

\* One value of the first loop.
Measure ==
  /\ pc = "measure"
  /\ total_bytes' = total_bytes + forwarded_for[v].bytes
  /\ hop_count' = hop_count + Len(forwarded_for[v].elements)
  /\ IF total_bytes' > MAX_FORWARDED_FOR_BYTES \/ hop_count' > MAX_FORWARDED_FOR_HOPS
     THEN Return(Error) /\ UNCHANGED <<v, e>>
     ELSE /\ IF v < Len(forwarded_for) THEN v' = v + 1 /\ UNCHANGED <<pc, e>>
             ELSE pc' = "walk" /\ e' = Len(forwarded_for[v].elements) /\ UNCHANGED v
          /\ UNCHANGED result
  /\ UNCHANGED <<inputs, selected, use_forwarded_hop>>

\* The element to the left: of the same value, else the last of the value before.
StepLeft ==
  IF e > 1 THEN e' = e - 1 /\ UNCHANGED v
  ELSE /\ v > 1
       /\ v' = v - 1 /\ e' = Len(forwarded_for[v - 1].elements)

AtFirst == v = 1 /\ e = 1

\* Variant of Hop: the walk goes on past an untrusted hop.
HopAnyway(addr) ==
  /\ selected' = IF trusted(addr) THEN selected ELSE unmap(addr)
  /\ use_forwarded_hop' = use_forwarded_hop

\* The body of the second loop for an element that is an address.
Hop(addr) ==
  IF use_forwarded_hop /\ trusted(selected)
  THEN selected' = unmap(addr) /\ UNCHANGED use_forwarded_hop
  ELSE use_forwarded_hop' = FALSE /\ UNCHANGED selected

\* One element of the second loop.
Walk ==
  LET element == forwarded_for[v].elements[e]
  IN  /\ pc = "walk"
      /\ \/ /\ element = Malformed
            /\ Return(Error) /\ UNCHANGED <<v, e, selected, use_forwarded_hop>>
         \/ /\ element # Malformed /\ Hop(element)
            /\ \/ AtFirst /\ Return(normalize(selected')) /\ UNCHANGED <<v, e>>
               \/ ~AtFirst /\ StepLeft /\ UNCHANGED <<pc, result>>
      /\ UNCHANGED <<inputs, total_bytes, hop_count>>

IpNext == Start \/ Measure \/ Walk

IpSpec == IpInit /\ [][IpNext]_ipVars
-----------------------------------------------------------------------------
(* Properties *)

Positions ==
  UNION {{<<i, j>> : j \in DOMAIN forwarded_for[i].elements} : i \in DOMAIN forwarded_for}

ElementAt(p) == forwarded_for[p[1]].elements[p[2]]

\* q is nearer to the relay than p.
Nearer(q, p) == q[1] > p[1] \/ (q[1] = p[1] /\ q[2] > p[2])

\* The operator's setting covers a, however a is written.
Covered(a) ==
  /\ \A i \in DOMAIN setting : setting[i] # Malformed
  /\ \E i \in DOMAIN setting : unmap(a) \in setting[i]

Consulted == Covered(peer) /\ forwarded_for # <<>>

\* "rightmost untrusted hop": every hop nearer than p is covered, and p is not,
\* or there is none farther.
IsClient(p) ==
  /\ \A q \in Positions : Nearer(q, p) => Covered(ElementAt(q))
  /\ ~Covered(ElementAt(p)) \/ \A q \in Positions : ~Nearer(p, q)

\* An address that resolve returns is the peer's own when the peer is no proxy
\* of ours or sent no header, and otherwise that of the hop nearest to the relay
\* that is not one of our proxies: nothing written to the left of that hop can
\* change it.  IPv6 addresses are given by their /64, IPv4 ones are unmapped.
ResolvesNearest ==
  result \in IpAddrs =>
    \/ ~Consulted /\ result = normalize(unmap(peer))
    \/ /\ Consulted
       /\ \E p \in Positions : /\ ElementAt(p) # Malformed
                               /\ IsClient(p)
                               /\ result = normalize(unmap(ElementAt(p)))

\* The length of the first n values.
BytesOf[n \in Nat] == IF n = 0 THEN 0 ELSE BytesOf[n - 1] + forwarded_for[n].bytes

\* A header that is consulted is refused exactly when it is too long, when its
\* values together have too many hops, or when any element is malformed, also
\* one to the left of the hop that decides.
RefusesExactly ==
  pc = "done" =>
    (result = Error <=>
       /\ Consulted
       /\ \/ BytesOf[Len(forwarded_for)] > MAX_FORWARDED_FOR_BYTES
          \/ Cardinality(Positions) > MAX_FORWARDED_FOR_HOPS
          \/ \E p \in Positions : ElementAt(p) = Malformed)
=============================================================================
