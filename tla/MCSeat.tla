---- MODULE MCSeat ----
EXTENDS MCRelay
EvictionPendingFor(c, seat, sw) ==
  /\ sw.handle = seat.room
  /\ \E o \in sw.evict : o.conn = c /\ o.conn_id = seat.conn_id

Holds(r, k) == \E p \in PeerIds : IsCurrent(r, p, k)

SeatOK(c, cs, rms, sw) ==
  cs.seat # None =>
    LET r == rms[cs.seat.room]
        k == cs.seat.conn_id
    IN  /\ k < r.next_conn_id
        /\ \A p \in PeerIds : IsCurrent(r, p, k) => r.peers[p].conn = c
        /\ Holds(r, k) \/ cs.cancelled \/ EvictionPendingFor(c, cs.seat, sw)
Pending(r) == {p \in Reserved(r) : r.reservations[p].release_pending}
LeavesOK(a, r, conns) ==
  ~r.closing =>
    /\ \A c \in Conns : conns[c].pc = "leave" /\ conns[c].seat.room = a =>
         conns[c].seat.peer_id \in Pending(r) /\ IsCurrent(r, conns[c].seat.peer_id, conns[c].seat.conn_id)
    /\ \A p \in Pending(r) : 
         /\ r.peers[p] # None
         /\ \E c \in Conns : conns[c].pc = "leave" /\ conns[c].seat = Seat(a, p, r.peers[p].conn_id)
SeatInv ==
  /\ \A c \in Conns : SeatOK(c, conn[c], rooms, sweep)
  /\ \A c \in Conns : conn[c].pc \in CreateSteps \cup {"join"} => conn[c].seat = None
  /\ \A a \in Handles : rooms[a] # None => LeavesOK(a, rooms[a], conn)
  /\ sweep.pc \in {"idle", "visit"} => sweep.evict = {}
====
