-------------------------- MODULE RelayInvariants ---------------------------
(***************************************************************************)
(* The inductive invariants of the relay, and what a step of one task      *)
(* leaves of the others.                                                   *)
(***************************************************************************)
EXTENDS Relay, RoomInvariants

\* What the proofs use of finite sets and of how many elements they have.
Counting ==
  /\ IsFiniteSet({}) /\ Cardinality({}) = 0
  /\ \A S : IsFiniteSet(S) => Cardinality(S) \in Nat
  /\ \A S, x : IsFiniteSet(S) =>
       /\ IsFiniteSet(S \cup {x})
       /\ Cardinality(S \cup {x}) = IF x \in S THEN Cardinality(S) ELSE Cardinality(S) + 1
  /\ \A S, x : IsFiniteSet(S) =>
       /\ IsFiniteSet(S \ {x})
       /\ Cardinality(S \ {x}) = IF x \in S THEN Cardinality(S) - 1 ELSE Cardinality(S)
  /\ \A S, T : IsFiniteSet(T) /\ S \subseteq T =>
       IsFiniteSet(S) /\ Cardinality(S) <= Cardinality(T)
  /\ \A S, f : IsFiniteSet(S) /\ (\A x, y \in S : f[x] = f[y] => x = y) =>
       IsFiniteSet({f[x] : x \in S}) /\ Cardinality({f[x] : x \in S}) = Cardinality(S)
-----------------------------------------------------------------------------
(* Rooms, registry, handlers and cleanup task *)

EndSteps == {"end_remove", "end_release", "end_finish"}

RoomTableOK(rms) ==
  /\ rms \in [Handles -> Rooms \cup {None}]
  /\ \A a \in Handles : rms[a] # None => RoomOK(rms[a])

RegistryOK(rms, reg) ==
  /\ reg \in [Sessions -> Handles \cup {None}]
  /\ \A s \in Sessions : reg[s] # None =>
       rms[reg[s]] # None /\ rms[reg[s]].session_id = s
  /\ \A a \in Handles : rms[a] # None /\ ~rms[a].closing => reg[rms[a].session_id] = a

\* What a handler that was suspended at an await still relies on.
ConnOK(cs, rms, reg) ==
  /\ cs.pc \in CreateSteps \cup {"join"} =>
       /\ cs.request \in Requests
       /\ cs.handle \in Handles /\ rms[cs.handle] # None
  /\ cs.pc \in CreateSteps =>
       cs.request.token \in Tokens /\ reg[cs.request.session_id] = cs.handle
  /\ cs.seat # None => rms[cs.seat.room] # None
  /\ cs.pc \in EndSteps \cup {"leave"} => cs.seat # None
  /\ cs.pc \in EndSteps => rms[cs.seat.room].closing

\* At most one connection is inside create's critical section.
Exclusive(conns) ==
  \A c, d \in Conns :
    conns[c].pc \in CreateSteps /\ conns[d].pc \in CreateSteps => c = d

ConnsOK(conns, rms, reg) ==
  /\ conns \in [Conns -> ConnStates]
  /\ \A c \in Conns : ConnOK(conns[c], rms, reg)
  /\ Exclusive(conns)

SweepOK(sw, rms) ==
  /\ sw \in SweepStates
  /\ \A a \in sw.todo : rms[a] # None
  /\ sw.pc \in {"remove", "finish"} =>
       /\ sw.handle \in Handles /\ rms[sw.handle] # None /\ rms[sw.handle].closing

\* What is inductive on its own.
IndInv ==
  /\ RoomTableOK(rooms)
  /\ RegistryOK(rooms, registry)
  /\ rooms_per_ip \in [Ips -> Nat]
  /\ ConnsOK(conn, rooms, registry)
  /\ SweepOK(sweep, rooms)
  /\ now \in Nat

\* The capacity, inductive together with IndInv.
FitsInv == \A a \in Handles : rooms[a] # None => Fits(rooms[a])
-----------------------------------------------------------------------------
(* Seats and leaves *)

\* The sweep has this seat on the list of those it will cancel.
Doomed(c, seat, sw) ==
  /\ sw.handle = seat.room
  /\ \E o \in sw.evict : o.conn = c /\ o.conn_id = seat.conn_id

\* A seat's conn_id was given out by its room, to this connection only; the
\* entry is still there, or the connection is cancelled or about to be.
SeatOK(c, cs, rms, sw) ==
  cs.seat # None =>
    LET r == rms[cs.seat.room]
        k == cs.seat.conn_id
    IN  /\ k < r.next_conn_id
        /\ \A p \in PeerIds : IsCurrent(r, p, k) => r.peers[p].conn = c
        /\ \/ \E p \in PeerIds : IsCurrent(r, p, k)
           \/ cs.cancelled
           \/ Doomed(c, cs.seat, sw)

Unseated(cs) == cs.pc \in CreateSteps \cup {"join"} => cs.seat = None

Leaver(cs, a) == cs.pc = "leave" /\ cs.seat.room = a

\* In an open room the pending leaves are those of the connections at the
\* await of Room::leave, each on the entry it was given.
LeavesOK(a, r, conns) ==
  ~r.closing =>
    /\ \A c \in Conns : Leaver(conns[c], a) =>
         /\ conns[c].seat.peer_id \in Pending(r)
         /\ IsCurrent(r, conns[c].seat.peer_id, conns[c].seat.conn_id)
    /\ \A p \in Pending(r) :
         /\ r.peers[p] # None
         /\ \E c \in Conns : /\ conns[c].pc = "leave"
                             /\ conns[c].seat = Seat(a, p, r.peers[p].conn_id)

SeatsInv ==
  /\ \A c \in Conns : SeatOK(c, conn[c], rooms, sweep) /\ Unseated(conn[c])
  /\ sweep.pc \in {"idle", "visit"} => sweep.evict = {}

LeavesInv == \A a \in Handles : rooms[a] # None => LeavesOK(a, rooms[a], conn)

\* Inductive together with IndInv.
SeatInv == SeatsInv /\ LeavesInv
-----------------------------------------------------------------------------
(* Quota slots *)

\* The rooms of ip that the registry has.
OwnedIn(rms, reg, ip) ==
  {a \in Handles : (\E s \in Sessions : reg[s] = a) /\ rms[a].owner_ip_key = ip}

\* The handlers of end_session that are about to release a slot of ip.
ReleasingIn(rms, conns, ip) ==
  {c \in Conns : conns[c].pc = "end_release" /\ rms[conns[c].seat.room].owner_ip_key = ip}

\* The sweep is about to release a slot of ip.
SweptIn(rms, sw, ip) ==
  IF sw.pc = "finish" /\ sw.removed /\ rms[sw.handle].owner_ip_key = ip THEN 1 ELSE 0

\* What ip is charged for is accounted for.
SlotOK(rms, reg, quota, conns, sw, ip) ==
  /\ IsFiniteSet(OwnedIn(rms, reg, ip))
  /\ IsFiniteSet(ReleasingIn(rms, conns, ip))
  /\ quota[ip] <= Cardinality(OwnedIn(rms, reg, ip))
                    + (Cardinality(ReleasingIn(rms, conns, ip)) + SweptIn(rms, sw, ip))

Slots(rms, reg, quota, conns, sw) ==
  \A ip \in Ips : SlotOK(rms, reg, quota, conns, sw, ip)

\* Inductive together with IndInv.
SlotsInv == Slots(rooms, registry, rooms_per_ip, conn, sweep)
-----------------------------------------------------------------------------
(* Steps *)

\* Rooms are never taken back, renamed or reopened; a new one has no guest and
\* is charged to an address.
Evolves(rms, rms2) ==
  \A a \in Handles :
    /\ rms[a] # None => rms2[a] # None /\ SameRoom(rms[a], rms2[a])
    /\ rms[a] = None /\ rms2[a] # None =>
         Reserved(rms2[a]) = {} /\ rms2[a].owner_ip_key # NoIp

\* A connection somebody else's step may cancel, and nothing else.
Follows(cs, cs2) ==
  cs2.pc = cs.pc /\ cs2.seat = cs.seat /\ (cs.cancelled => cs2.cancelled)

\* Everybody but M stays where it is.
OthersStay(M) == \A d \in Conns \ M : Follows(conn[d], conn'[d])

\* Nobody is given an identity.
OwnersKept(r, s) == \A p \in PeerIds : Owner(s, p) \in {Owner(r, p), None}

\* A reservation that is neither being released nor past its grace period.
LiveClaim(r, p, t) ==
  /\ p \in Transferable(r)
  /\ \/ r.reservations[p].absent_since = None
     \/ Since(t, r.reservations[p].absent_since) < PEER_RESERVATION_GRACE

\* Between times t and u the room has the same host and no new live claim.
Steady(r, s, t, u) ==
  /\ s.host_peer_id = r.host_peer_id /\ s.host_verifier = r.host_verifier
  /\ \A p \in PeerIds : LiveClaim(s, p, u) =>
       LiveClaim(r, p, t) /\ s.reservations[p].verifier = r.reservations[p].verifier

\* Nobody is given an identity of a room that exists.
Owned == \A a \in Handles : rooms[a] # None => OwnersKept(rooms[a], rooms'[a])

\* A registered room that is closing was so before.
ClosesNothing ==
  \A s \in Sessions : registry'[s] # None /\ rooms'[registry'[s]].closing =>
    registry'[s] = registry[s] /\ rooms[registry[s]].closing

\* An open registered room was so before and has no new live claim.
Calm ==
  \A s \in Sessions : registry'[s] # None /\ ~rooms'[registry'[s]].closing =>
    /\ registry'[s] = registry[s] /\ ~rooms[registry[s]].closing
    /\ Steady(rooms[registry[s]], rooms'[registry[s]], now, now')

\* A step of c.
Frame(c) == Evolves(rooms, rooms') /\ OthersStay({c}) /\ UNCHANGED <<sweep, now>>

\* No handler of end_session comes to the release of a quota slot or past it.
SameReleases(conns, conns2) ==
  \A c \in Conns :
    /\ conns2[c].pc = "end_release" <=> conns[c].pc = "end_release"
    /\ conns[c].pc = "end_release" => conns2[c].seat = conns[c].seat

\* No handle is taken for a new room.
OpensNothing == \A a \in Handles : rooms[a] = None => rooms'[a] = None

\* A step of the rooms and the handlers that opens, removes and releases
\* nothing.
Quiet ==
  /\ Evolves(rooms, rooms') /\ OpensNothing /\ SameReleases(conn, conn')
  /\ UNCHANGED <<registry, rooms_per_ip, sweep>>

\* The steps that may do one of these.
Loud ==
  \/ SweepStep \/ Tick
  \/ \E c \in Conns :
       \/ CreateReclaim(c) \/ EndRemove(c) \/ EndRelease(c)
       \/ \E m \in Requests : CreateNew(c, m)
-----------------------------------------------------------------------------
(* What the handlers rely on, a consequence of IndInv *)

\* The seat of a connection is in a room that exists and is well-formed.
SeatKnown(c) ==
  conn[c].seat # None =>
    /\ conn[c] \in ConnStates
    /\ conn[c].seat \in Seats
    /\ conn[c].seat.room \in Handles
    /\ conn[c].seat.peer_id \in PeerIds
    /\ conn[c].seat.conn_id \in Nat
    /\ rooms[conn[c].seat.room] # None
    /\ rooms[conn[c].seat.room] \in Rooms
    /\ RoomOK(rooms[conn[c].seat.room])

\* So is the room that the handler of a request has looked up.
RequestKnown(c) ==
  conn[c].pc \in CreateSteps \cup {"join"} =>
    /\ conn[c] \in ConnStates
    /\ conn[c].request \in Requests
    /\ conn[c].request.session_id \in Sessions
    /\ conn[c].request.peer_id \in PeerIds
    /\ conn[c].request.meta \in Metas
    /\ conn[c].handle \in Handles
    /\ rooms[conn[c].handle] # None
    /\ rooms[conn[c].handle] \in Rooms
    /\ RoomOK(rooms[conn[c].handle])

\* A room that is reclaimed is registered; with it closed and its entry taken
\* out, the table and the registry are those a new room may be put in.
ReclaimKnown(c) ==
  conn[c].pc = "reclaim" =>
    LET a == conn[c].handle
        m == conn[c].request
        rms == [rooms EXCEPT ![a].closing = TRUE]
        reg == [registry EXCEPT ![m.session_id] = None]
    IN  /\ a \in Handles /\ rooms[a] # None
        /\ m \in Requests /\ m.session_id \in Sessions /\ m.token \in Tokens
        /\ registry[m.session_id] = a /\ reg[m.session_id] = None
        /\ RoomTableOK(rms) /\ RegistryOK(rms, registry) /\ RegistryOK(rms, reg)
        /\ Evolves(rooms, rms) /\ \A b \in Handles : rooms[b] = None => rms[b] = None
        /\ Release(rooms_per_ip, rooms[a].owner_ip_key) \in [Ips -> Nat]
        /\ rooms[a].owner_ip_key \in Ips
        /\ \A d \in Conns \ {c} : conn[d].pc \notin CreateSteps

\* What taking up a request leaves of the connection.
SendKnown(c) ==
  \A m \in Requests, pc \in ConnSteps, a \in Handles \cup {None} :
    LET cs == Send(c, m, pc, a)
    IN  /\ cs \in ConnStates /\ cs.pc = pc /\ cs.seat = conn[c].seat
        /\ cs.request = m /\ cs.handle = a

Basics ==
  \A c \in Conns :
    /\ SeatKnown(c) /\ RequestKnown(c) /\ ReclaimKnown(c) /\ SendKnown(c)
    /\ \A meta \in Metas : Admission(c, meta) \in Admissions
=============================================================================
