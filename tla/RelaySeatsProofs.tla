-------------------------- MODULE RelaySeatsProofs --------------------------
(***************************************************************************)
(* What a connection believes about its seat agrees with the room, or the  *)
(* connection has been told; and a leave that awaits the snapshotter finds *)
(* its identity as it left it.  For any number of connections, rooms,      *)
(* identities and tokens.                                                  *)
(***************************************************************************)
EXTENDS RelayInvariants, RoomStateProofs

\* Cancelling moves nobody, and reaches the seats of the evicted entries.
LEMMA CancelFollows ==
  ASSUME NEW conns \in [Conns -> ConnStates], NEW a, NEW evict, NEW c \in Conns
  PROVE  LET cs2 == Cancel(conns, a, evict)[c]
         IN  /\ Follows(conns[c], cs2)
             /\ /\ conns[c].seat # None /\ conns[c].seat.room = a
                /\ \E o \in evict : o.conn = c /\ o.conn_id = conns[c].seat.conn_id
                => cs2.cancelled
<1> DEFINE cs2 == Cancel(conns, a, evict)[c]
           hit == /\ conns[c].seat # None /\ conns[c].seat.room = a
                  /\ \E o \in evict : o.conn = c /\ o.conn_id = conns[c].seat.conn_id
<1>1. cs2 = IF hit THEN [conns[c] EXCEPT !.cancelled = TRUE] ELSE conns[c]
  BY Zenon DEF Cancel
<1>2. conns[c] \in ConnStates
  BY Zenon
<1> HIDE DEF cs2, hit
<1>3. Follows(conns[c], cs2) /\ (hit => cs2.cancelled)
  BY Zenon, <1>1, <1>2 DEF Follows, ConnStates
<1> QED
  BY Zenon, <1>3 DEF cs2, hit

\* Only c moves.
LEMMA OthersFollow ==
  ASSUME NEW conns \in [Conns -> ConnStates], NEW c \in Conns, NEW cs
  PROVE  LET conns2 == [conns EXCEPT ![c] = cs]
         IN  /\ conns2[c] = cs
             /\ \A d \in Conns \ {c} : conns2[d] = conns[d] /\ Follows(conns[d], conns2[d])
BY Zenon DEF Follows
-----------------------------------------------------------------------------
(* Connections that do not move *)

\* Whoever loses its entry is told, or the sweep has it on its list.
Covered(c, cs, cs2, rms, rms2, sw, sw2) ==
  LET a == cs.seat.room
      told == cs2.cancelled \/ Doomed(c, cs.seat, sw2)
  IN  /\ \A p \in PeerIds :
           /\ IsCurrent(rms[a], p, cs.seat.conn_id) /\ rms[a].peers[p].conn = c
           /\ rms2[a].peers[p] # rms[a].peers[p]
           => told
      /\ Doomed(c, cs.seat, sw) => told

\* A seat stays good when its room evolves and its connection is covered.
LEMMA SeatEvolves ==
  ASSUME NEW c, NEW cs \in ConnStates, NEW cs2, NEW rms, NEW rms2, NEW sw, NEW sw2,
         SeatOK(c, cs, rms, sw), cs2.seat = cs.seat, cs.cancelled => cs2.cancelled,
         cs.seat # None => /\ EntriesEvolve(rms[cs.seat.room], rms2[cs.seat.room])
                           /\ Covered(c, cs, cs2, rms, rms2, sw, sw2)
  PROVE  SeatOK(c, cs2, rms2, sw2)
<1> SUFFICES ASSUME cs.seat # None PROVE SeatOK(c, cs2, rms2, sw2)
  BY Zenon DEF SeatOK
<1> DEFINE r == rms[cs.seat.room]
           s == rms2[cs.seat.room]
           k == cs.seat.conn_id
           told == cs2.cancelled \/ Doomed(c, cs.seat, sw2)
<1>1. /\ k \in Nat /\ k < r.next_conn_id
      /\ \A p \in PeerIds : IsCurrent(r, p, k) => r.peers[p].conn = c
      /\ (\E p \in PeerIds : IsCurrent(r, p, k)) \/ cs.cancelled \/ Doomed(c, cs.seat, sw)
  BY Zenon DEF SeatOK, ConnStates, Seats
<1>2. /\ EntriesEvolve(r, s) /\ cs2.seat = cs.seat /\ (cs.cancelled => cs2.cancelled)
      /\ \A p \in PeerIds : IsCurrent(r, p, k) /\ s.peers[p] # r.peers[p] => told
      /\ Doomed(c, cs.seat, sw) => told
  BY Zenon, <1>1 DEF Covered
<1> HIDE DEF r, s, k, told
<1>3. k < s.next_conn_id
  BY <1>1, <1>2 DEF EntriesEvolve
<1>4. ASSUME NEW p \in PeerIds, IsCurrent(s, p, k) PROVE s.peers[p].conn = c
  <2>1. s.peers[p] = r.peers[p]
    BY <1>1, <1>2, <1>4 DEF EntriesEvolve, IsCurrent
  <2> QED
    BY Zenon, <1>1, <1>4, <2>1 DEF IsCurrent
<1>5. (\E p \in PeerIds : IsCurrent(s, p, k)) \/ told
  BY Zenon, <1>1, <1>2 DEF IsCurrent, told
<1> QED
  BY Zenon, <1>2, <1>3, <1>4, <1>5 DEF SeatOK, s, k, told

\* Leaves of a room whose marks are kept and whose leavers do not move.
LEMMA LeavesKept ==
  ASSUME NEW a, NEW r, NEW s, NEW conns, NEW conns2, LeavesOK(a, r, conns),
         r.closing => s.closing, MarksKept(r, s),
         \A c \in Conns : \/ /\ conns2[c].pc = conns[c].pc
                             /\ conns2[c].seat = conns[c].seat
                          \/ ~Leaver(conns[c], a) /\ ~Leaver(conns2[c], a)
  PROVE  LeavesOK(a, s, conns2)
<1> SUFFICES ASSUME ~s.closing, ~r.closing PROVE LeavesOK(a, s, conns2)
  BY Zenon DEF LeavesOK
<1>1. Pending(s) = Pending(r) /\ \A p \in Pending(r) : s.peers[p] = r.peers[p]
  BY Zenon DEF MarksKept
<1>2. \A c \in Conns : Leaver(conns2[c], a) =>
        /\ conns2[c].seat.peer_id \in Pending(s)
        /\ IsCurrent(s, conns2[c].seat.peer_id, conns2[c].seat.conn_id)
  BY Zenon, <1>1 DEF LeavesOK, Leaver, IsCurrent
<1>3. ASSUME NEW p \in Pending(s)
      PROVE  /\ s.peers[p] # None
             /\ \E c \in Conns : /\ conns2[c].pc = "leave"
                                 /\ conns2[c].seat = Seat(a, p, s.peers[p].conn_id)
  <2>1. r.peers[p] # None /\ s.peers[p] = r.peers[p] /\ p \in Pending(r)
    BY Zenon, <1>1, <1>3 DEF LeavesOK
  <2>2. PICK c \in Conns : /\ conns[c].pc = "leave"
                           /\ conns[c].seat = Seat(a, p, r.peers[p].conn_id)
    BY Zenon, <2>1 DEF LeavesOK
  <2>3. Leaver(conns[c], a)
    BY <2>2 DEF Leaver, Seat
  <2> QED
    BY Zenon, <2>1, <2>2, <2>3
<1> QED
  BY Zenon, <1>2, <1>3 DEF LeavesOK

-----------------------------------------------------------------------------
(* What a step has to show *)

\* A connection that moves itself: not from, into or within a leave.
Moves(c) ==
  /\ conn[c].pc # "leave" /\ conn'[c].pc # "leave"
  /\ SeatOK(c, conn'[c], rooms', sweep') /\ Unseated(conn'[c])

\* The rooms evolve; every connection not in M follows and is covered.
SeatsStep(M) ==
  /\ \A a \in Handles : rooms[a] # None =>
       /\ rooms'[a] # None /\ (rooms[a].closing => rooms'[a].closing)
       /\ EntriesEvolve(rooms[a], rooms'[a])
  /\ \A a \in Handles : rooms[a] = None /\ rooms'[a] # None => Pending(rooms'[a]) = {}
  /\ \A d \in Conns \ M :
       /\ Follows(conn[d], conn'[d])
       /\ conn[d].seat # None =>
            Covered(d, conn[d], conn'[d], rooms, rooms', sweep, sweep')
  /\ sweep'.pc \in {"idle", "visit"} => sweep'.evict = {}

\* Then the seats are good after the step if those of M are.
LEMMA SeatsAfter ==
  ASSUME IndInv, Basics, SeatsInv, NEW M, SeatsStep(M),
         \A c \in M : SeatOK(c, conn'[c], rooms', sweep') /\ Unseated(conn'[c])
  PROVE  SeatsInv'
<1>1. ASSUME NEW d \in Conns \ M
      PROVE  SeatOK(d, conn'[d], rooms', sweep') /\ Unseated(conn'[d])
  <2>1. /\ conn[d] \in ConnStates /\ SeatOK(d, conn[d], rooms, sweep) /\ Unseated(conn[d])
        /\ Follows(conn[d], conn'[d])
    BY Zenon, <1>1 DEF IndInv, ConnsOK, SeatsInv, SeatsStep
  <2>2. ASSUME conn[d].seat # None
        PROVE  /\ EntriesEvolve(rooms[conn[d].seat.room], rooms'[conn[d].seat.room])
               /\ Covered(d, conn[d], conn'[d], rooms, rooms', sweep, sweep')
    <3>1. conn[d].seat.room \in Handles /\ rooms[conn[d].seat.room] # None
      BY Zenon, <2>2 DEF Basics, SeatKnown
    <3> QED
      BY Zenon, <1>1, <2>2, <3>1 DEF SeatsStep
  <2>3. SeatOK(d, conn'[d], rooms', sweep')
    BY Zenon, <2>1, <2>2, SeatEvolves DEF Follows
  <2>4. Unseated(conn'[d])
    BY Zenon, <2>1 DEF Unseated, Follows
  <2> QED
    BY Zenon, <2>3, <2>4
<1>2. \A d \in Conns : SeatOK(d, conn'[d], rooms', sweep') /\ Unseated(conn'[d])
  BY Zenon, <1>1
<1>3. sweep'.pc \in {"idle", "visit"} => sweep'.evict = {}
  BY Zenon DEF SeatsStep
<1> QED
  BY Zenon, <1>2, <1>3 DEF SeatsInv

\* And the leaves of room a are good if its marks are kept and nobody in M is
\* leaving it, neither before nor after.
LEMMA LeavesAfter ==
  ASSUME IndInv, Basics, LeavesInv, NEW M, SeatsStep(M), NEW a \in Handles, rooms'[a] # None,
         rooms[a] # None => MarksKept(rooms[a], rooms'[a]),
         \A c \in M : ~Leaver(conn[c], a) /\ ~Leaver(conn'[c], a)
  PROVE  LeavesOK(a, rooms'[a], conn')
<1>1. \A d \in Conns : \/ conn'[d].pc = conn[d].pc /\ conn'[d].seat = conn[d].seat
                       \/ ~Leaver(conn[d], a) /\ ~Leaver(conn'[d], a)
  BY Zenon DEF SeatsStep, Follows
<1>2. CASE rooms[a] # None
  <2>1. LeavesOK(a, rooms[a], conn) /\ (rooms[a].closing => rooms'[a].closing)
    BY Zenon, <1>2 DEF LeavesInv, SeatsStep
  <2>2. MarksKept(rooms[a], rooms'[a])
    BY Zenon, <1>2
  <2> QED
    BY Zenon, <1>1, <2>1, <2>2, LeavesKept
<1>3. CASE rooms[a] = None
  <2>1. Pending(rooms'[a]) = {}
    BY Zenon, <1>3 DEF SeatsStep
  <2>2. \A d \in Conns : ~Leaver(conn[d], a)
    BY Zenon, <1>3 DEF IndInv, ConnsOK, ConnOK, Leaver
  <2>3. \A d \in Conns : ~Leaver(conn'[d], a)
    BY Zenon, <1>1, <2>2 DEF Leaver
  <2> QED
    BY Zenon, <2>1, <2>3 DEF LeavesOK
<1> QED
  BY Zenon, <1>2, <1>3

\* The usual step: marks are kept, and whoever moves does not leave.
LEMMA SeatStep ==
  ASSUME IndInv, Basics, SeatInv, NEW M, SeatsStep(M), \A c \in M : Moves(c),
         \A a \in Handles : rooms[a] # None => MarksKept(rooms[a], rooms'[a])
  PROVE  SeatInv'
<1>1. SeatsInv'
  BY Zenon, SeatsAfter DEF SeatInv, Moves
<1>2. \A a \in Handles : rooms'[a] # None => LeavesOK(a, rooms'[a], conn')
  BY Zenon, LeavesAfter DEF SeatInv, Moves, Leaver
<1> QED
  BY Zenon, <1>1, <1>2 DEF SeatInv, LeavesInv

Told(d) == conn'[d].cancelled \/ Doomed(d, conn[d].seat, sweep')

\* Whom the sweep had on its list it still has, or has told; the list is
\* empty between two rooms.
ListKept(M) ==
  /\ \A d \in Conns \ M : Doomed(d, conn[d].seat, sweep) /\ conn[d].seat # None => Told(d)
  /\ sweep'.pc \in {"idle", "visit"} => sweep'.evict = {}

\* A step that is not the sweep's keeps the list.
LEMMA SameList ==
  ASSUME SeatInv, sweep' = sweep, NEW M
  PROVE  ListKept(M)
BY Zenon DEF SeatInv, SeatsInv, ListKept, Told

\* Everybody but M who loses its entry in room a, which becomes s, is told.
LosersTold(M, a, s) ==
  \A d \in Conns \ M, p \in PeerIds :
    /\ conn[d].seat # None /\ conn[d].seat.room = a
    /\ IsCurrent(rooms[a], p, conn[d].seat.conn_id)
    /\ rooms[a].peers[p].conn = d /\ s.peers[p] # rooms[a].peers[p]
    => Told(d)

\* A change of room a that leaves its entries alone.
LEMMA NobodyLoses ==
  ASSUME NEW M, NEW a, NEW s, rooms[a] \in Rooms, KeepsEntries(rooms[a], s)
  PROVE  LosersTold(M, a, s) /\ EntriesEvolve(rooms[a], s)
<1>1. s.peers = rooms[a].peers /\ s.next_conn_id = rooms[a].next_conn_id
  BY Zenon DEF KeepsEntries
<1>2. rooms[a].next_conn_id \in Nat
  BY Zenon DEF Rooms
<1>3. rooms[a].next_conn_id <= s.next_conn_id
  BY <1>1, <1>2
<1> QED BY Zenon, <1>1, <1>2, <1>3 DEF LosersTold, EntriesEvolve

\* A step of M that changes room a and tells whoever loses an entry there.
LEMMA MethodSeats ==
  ASSUME IndInv, Basics, SeatsInv, NEW M, NEW a \in Handles, rooms[a] # None,
         NEW s, RoomOK(s), SameRoom(rooms[a], s), EntriesEvolve(rooms[a], s),
         rooms' = [rooms EXCEPT ![a] = s], ListKept(M),
         OthersStay(M), LosersTold(M, a, s)
  PROVE  /\ SeatsStep(M)
         /\ \A b \in Handles : rooms[b] # None /\ b # a => MarksKept(rooms[b], rooms'[b])
         /\ rooms'[a] = s
<1>1. rooms \in [Handles -> Rooms \cup {None}] /\ s # None
  BY Zenon, RelayConstants DEF IndInv, RoomTableOK, RoomOK
<1>2. rooms'[a] = s /\ \A b \in Handles : b # a => rooms'[b] = rooms[b]
  BY Zenon, <1>1
<1>3. ASSUME NEW b \in Handles, rooms[b] # None
      PROVE  /\ rooms'[b] # None /\ (rooms[b].closing => rooms'[b].closing)
             /\ EntriesEvolve(rooms[b], rooms'[b])
  <2>1. CASE b = a
    BY Zenon, <1>1, <1>2, <2>1 DEF SameRoom
  <2>2. CASE b # a
    <3>1. rooms[b] \in Rooms
      BY Zenon, <1>1, <1>3
    <3>2. EntriesEvolve(rooms[b], rooms[b])
      BY <3>1 DEF EntriesEvolve, Rooms
    <3> QED
      BY Zenon, <1>2, <1>3, <2>2, <3>2
  <2> QED
    BY Zenon, <2>1, <2>2
<1>4. \A b \in Handles : rooms[b] = None => rooms'[b] = None
  BY Zenon, <1>2
<1>5. ASSUME NEW d \in Conns \ M, conn[d].seat # None
      PROVE  Covered(d, conn[d], conn'[d], rooms, rooms', sweep, sweep')
  <2>1. conn[d].seat.room \in Handles
    BY Zenon, <1>5 DEF Basics, SeatKnown
  <2>2. \A p \in PeerIds :
          /\ IsCurrent(rooms[conn[d].seat.room], p, conn[d].seat.conn_id)
          /\ rooms[conn[d].seat.room].peers[p].conn = d
          /\ rooms'[conn[d].seat.room].peers[p] # rooms[conn[d].seat.room].peers[p]
          => Told(d)
    <3>1. CASE conn[d].seat.room = a
      BY <1>2, <1>5, <3>1 DEF LosersTold
    <3>2. CASE conn[d].seat.room # a
      BY Zenon, <1>2, <2>1, <3>2
    <3> QED
      BY Zenon, <3>1, <3>2
  <2>3. Doomed(d, conn[d].seat, sweep) => Told(d)
    BY Zenon, <1>5 DEF ListKept
  <2> QED
    BY Zenon, <2>2, <2>3 DEF Covered, Told
<1>6. sweep'.pc \in {"idle", "visit"} => sweep'.evict = {}
  BY Zenon DEF ListKept
<1>7. SeatsStep(M)
  BY Zenon, <1>3, <1>4, <1>5, <1>6 DEF SeatsStep, OthersStay
<1>8. \A b \in Handles : rooms[b] # None /\ b # a => MarksKept(rooms[b], rooms'[b])
  BY Zenon, <1>2 DEF MarksKept
<1> QED
  BY Zenon, <1>2, <1>7, <1>8

\* A step of M that leaves the rooms alone.
LEMMA QuietSeats ==
  ASSUME IndInv, Basics, SeatsInv, NEW M, rooms' = rooms, ListKept(M), OthersStay(M)
  PROVE  /\ SeatsStep(M)
         /\ \A b \in Handles : rooms[b] # None => MarksKept(rooms[b], rooms'[b])
<1>1. \A b \in Handles : rooms[b] # None => rooms[b] \in Rooms
  BY Zenon DEF IndInv, RoomTableOK
<1>2. \A b \in Handles : rooms[b] # None => EntriesEvolve(rooms[b], rooms[b])
  BY <1>1 DEF EntriesEvolve, Rooms
<1>3. \A d \in Conns \ M : conn[d].seat # None =>
        Covered(d, conn[d], conn'[d], rooms, rooms', sweep, sweep')
  BY Zenon DEF Covered, ListKept, Told
<1>4. SeatsStep(M)
  BY Zenon, <1>2, <1>3 DEF SeatsStep, ListKept, OthersStay
<1> QED
  BY Zenon, <1>4 DEF MarksKept

\* A connection with no seat has nothing to lose.
LEMMA NoSeat ==
  ASSUME NEW c, NEW cs, cs.seat = None, NEW rms, NEW sw
  PROVE  SeatOK(c, cs, rms, sw) /\ Unseated(cs)
BY Zenon DEF SeatOK, Unseated
-----------------------------------------------------------------------------
(* The steps *)

\* Admission to room a under p: the caller's seat is the new entry, which
\* nobody else can mistake for its own, and whoever was there is cancelled.
LEMMA AdmittedSeats ==
  ASSUME IndInv, Basics, SeatInv, NEW c \in Conns, conn[c].pc # "leave",
         NEW a \in Handles, rooms[a] # None, NEW s, RoomOK(s), SameRoom(rooms[a], s),
         NEW p \in PeerIds, NEW meta \in Metas,
         Admits(rooms[a], s, p, Admission(c, meta)), MarksKept(rooms[a], s),
         NEW x \in PeerIds, NEW eff, eff.assigned_conn_id = rooms[a].next_conn_id,
         eff.evict = Replaced(rooms[a], p),
         rooms' = [rooms EXCEPT ![a] = s], sweep' = sweep,
         conn' = AfterAdmission(c, a, x, eff)
  PROVE  SeatInv'
<1> DEFINE r == rooms[a]
           adm == Admission(c, meta)
           k == r.next_conn_id
           seat == Seat(a, x, k)
           cs == Resume(conn[c], seat)
           conns == [conn EXCEPT ![c] = cs]
<1>1. /\ r \in Rooms /\ RoomOK(r) /\ s \in Rooms /\ k \in Nat /\ adm \in Admissions
      /\ conn \in [Conns -> ConnStates]
  BY Zenon DEF Basics, IndInv, RoomTableOK, RoomOK, ConnsOK, Rooms
<1>2. k # None
  BY Zenon, <1>1, NoneIsNoValue
<1>3. conn' = Cancel(conns, a, eff.evict)
  BY Zenon, <1>1, <1>2 DEF AfterAdmission
<1>4. seat \in Seats /\ seat # None /\ seat.room = a /\ seat.conn_id = k
  BY <1>1, RelayConstants DEF Seats, Seat
<1>5. cs \in ConnStates /\ cs.pc = "idle" /\ cs.seat = seat
  BY ZenonT(40), <1>1, <1>4 DEF Resume, ConnStates, ConnSteps
<1> HIDE DEF cs, seat
<1>6. /\ conns \in [Conns -> ConnStates] /\ conns[c] = cs
      /\ \A d \in Conns \ {c} : conns[d] = conn[d]
  BY Zenon, <1>1, <1>5
<1> HIDE DEF conns
<1>7. \A d \in Conns : Follows(conns[d], conn'[d])
  BY Zenon, <1>3, <1>6, CancelFollows
<1>8. OthersStay({c})
  BY Zenon, <1>6, <1>7 DEF OthersStay
<1>9. LosersTold({c}, a, s)
  <2> SUFFICES ASSUME NEW d \in Conns \ {c}, NEW q \in PeerIds,
                      conn[d].seat # None, conn[d].seat.room = a,
                      IsCurrent(r, q, conn[d].seat.conn_id),
                      r.peers[q].conn = d, s.peers[q] # r.peers[q]
               PROVE  conn'[d].cancelled
    BY Zenon DEF LosersTold, Told
  <2>1. q = p
    BY Zenon, <1>1 DEF Admits, Rooms
  <2>2. r.peers[q] \in eff.evict /\ r.peers[q].conn_id = conn[d].seat.conn_id
    BY Zenon, <2>1 DEF Replaced, IsCurrent
  <2>3. \E o \in eff.evict : o.conn = d /\ o.conn_id = conn[d].seat.conn_id
    BY Zenon, <2>2
  <2>4. /\ conns \in [Conns -> ConnStates] /\ d \in Conns
        /\ conns[d].seat # None /\ conns[d].seat.room = a
        /\ \E o \in eff.evict : o.conn = d /\ o.conn_id = conns[d].seat.conn_id
    BY Zenon, <1>6, <2>3
  <2>5. Cancel(conns, a, eff.evict)[d].cancelled
    BY Zenon, <2>4, CancelFollows
  <2> QED
    BY Zenon, <1>3, <2>5
<1>10. EntriesEvolve(r, s)
  BY Zenon, <1>1, Evolutions
<1>11. /\ SeatsStep({c}) /\ rooms'[a] = s
       /\ \A b \in Handles : rooms[b] # None /\ b # a => MarksKept(rooms[b], rooms'[b])
  BY Zenon, <1>8, <1>9, <1>10, SameList, MethodSeats DEF SeatInv
<1>12. conn'[c].pc = "idle" /\ conn'[c].seat = seat
  BY Zenon, <1>5, <1>6, <1>7 DEF Follows
<1>13. SeatOK(c, conn'[c], rooms', sweep')
  <2>1. k < s.next_conn_id
    BY <1>1 DEF Admits
  <2>2. s.peers[p].conn_id = k /\ s.peers[p].conn = c /\ s.peers[p] # None
    <3>1. s.peers[p] = Occupant(adm, k)
      BY Zenon, <1>1 DEF Admits, Rooms
    <3>2. Occupant(adm, k).conn_id = k /\ Occupant(adm, k).conn = c
      BY Zenon DEF Occupant, Admission
    <3>3. Occupant(adm, k) # None
      BY Zenon, <1>1, OccupantType, NoneIsNoValue
    <3> QED
      BY Zenon, <3>1, <3>2, <3>3
  <2>3. IsCurrent(s, p, k)
    BY Zenon, <2>2 DEF IsCurrent
  <2>4. ASSUME NEW q \in PeerIds, IsCurrent(s, q, k) PROVE s.peers[q].conn = c
    <3>1. CASE q = p
      BY Zenon, <2>2, <3>1
    <3>2. CASE q # p
      <4>1. s.peers[q] = r.peers[q]
        BY Zenon, <1>1, <3>2 DEF Admits, Rooms
      <4>2. q \in Connected(r)
        BY Zenon, <2>4, <4>1 DEF IsCurrent, Connected
      <4>3. r.peers[q].conn_id < k
        BY Zenon, <1>1, <4>2 DEF RoomOK, EntriesOK
      <4> QED
        BY SMTT(30), <1>1, <2>4, <4>1, <4>3 DEF IsCurrent
    <3> QED
      BY Zenon, <3>1, <3>2
  <2> HIDE DEF k
  <2> QED
    BY Zenon, <1>4, <1>11, <1>12, <2>1, <2>3, <2>4 DEF SeatOK
<1>14. Moves(c)
  BY Zenon, <1>12, <1>13 DEF Moves, Unseated, CreateSteps
<1>15. \A b \in Handles : rooms[b] # None => MarksKept(rooms[b], rooms'[b])
  BY Zenon, <1>11
<1> QED
  BY Zenon, <1>11, <1>14, <1>15, SeatStep

\* A step of c that leaves every entry and mark of room a alone.  The seat of
\* c stays what it was, or is given up.
LEMMA CallerSeats ==
  ASSUME IndInv, Basics, SeatInv, NEW c \in Conns, conn[c].pc # "leave",
         NEW a \in Handles, rooms[a] # None, NEW s, RoomOK(s), SameRoom(rooms[a], s),
         KeepsEntries(rooms[a], s), MarksKept(rooms[a], s),
         rooms' = [rooms EXCEPT ![a] = s], sweep' = sweep,
         NEW cs \in ConnStates, conn' = [conn EXCEPT ![c] = cs],
         cs.pc \notin CreateSteps \cup {"join", "leave"},
         \/ cs.seat = None
         \/ cs.seat = conn[c].seat /\ cs.cancelled = conn[c].cancelled
  PROVE  SeatInv'
<1>1. rooms[a] \in Rooms /\ s \in Rooms /\ conn \in [Conns -> ConnStates]
  BY Zenon DEF IndInv, RoomTableOK, ConnsOK, RoomOK
<1>2. EntriesEvolve(rooms[a], s)
  BY <1>1 DEF KeepsEntries, EntriesEvolve, Rooms
<1>3. conn'[c] = cs /\ OthersStay({c})
  BY Zenon, <1>1, OthersFollow DEF OthersStay
<1>4. s.peers = rooms[a].peers /\ LosersTold({c}, a, s)
  BY Zenon DEF KeepsEntries, LosersTold
<1>5. /\ SeatsStep({c}) /\ rooms'[a] = s
      /\ \A b \in Handles : rooms[b] # None /\ b # a => MarksKept(rooms[b], rooms'[b])
  BY Zenon, <1>2, <1>3, <1>4, SameList, MethodSeats DEF SeatInv
<1>6. \A b \in Handles : rooms[b] # None => MarksKept(rooms[b], rooms'[b])
  BY Zenon, <1>5
<1>7. SeatOK(c, cs, rooms', sweep')
  <2>1. CASE cs.seat = None
    BY Zenon, <2>1, NoSeat
  <2>2. CASE conn[c].seat # None /\ cs.seat = conn[c].seat /\ cs.cancelled = conn[c].cancelled
    <3>1. conn[c].seat.room \in Handles /\ rooms[conn[c].seat.room] # None
      BY Zenon, <2>2 DEF Basics, SeatKnown
    <3> DEFINE b == conn[c].seat.room
    <3> HIDE DEF b
    <3>2. rooms'[b].peers = rooms[b].peers
      <4>1. rooms' = [rooms EXCEPT ![a] = s] /\ rooms \in [Handles -> Rooms \cup {None}] /\ b \in Handles
        BY Zenon, <3>1 DEF IndInv, RoomTableOK, b
      <4>2. CASE b = a
        BY Zenon, <1>4, <1>5, <4>2
      <4>3. CASE b # a
        BY Zenon, <4>1, <4>3
      <4> QED
        BY Zenon, <4>2, <4>3
    <3> USE DEF b
    <3>3. EntriesEvolve(rooms[conn[c].seat.room], rooms'[conn[c].seat.room])
      BY Zenon, <1>5, <3>1 DEF SeatsStep
    <3>4. Covered(c, conn[c], cs, rooms, rooms', sweep, sweep')
      BY Zenon, <2>2, <3>2 DEF Covered
    <3>5. SeatOK(c, conn[c], rooms, sweep) /\ conn[c] \in ConnStates
      BY Zenon, <1>1 DEF SeatInv, SeatsInv
    <3> QED
      BY Zenon, <2>2, <3>3, <3>4, <3>5, SeatEvolves
  <2> QED
    BY Zenon, <2>1, <2>2
<1>8. Moves(c)
  BY Zenon, <1>3, <1>7 DEF Moves, Unseated
<1> QED
  BY Zenon, <1>5, <1>6, <1>8, SeatStep

\* A step of c alone: its seat stays what it was, or it has none.
LEMMA ConnOnlySeats ==
  ASSUME IndInv, Basics, SeatInv, NEW c \in Conns, conn[c].pc # "leave",
         rooms' = rooms, sweep' = sweep, NEW cs, conn' = [conn EXCEPT ![c] = cs],
         cs.pc # "leave",
         \/ cs.seat = None
         \/ /\ cs.pc \notin CreateSteps \cup {"join"}
            /\ cs.seat = conn[c].seat /\ cs.cancelled = conn[c].cancelled
  PROVE  SeatInv'
<1>1. conn \in [Conns -> ConnStates]
  BY Zenon DEF IndInv, ConnsOK
<1>2. conn'[c] = cs /\ OthersStay({c})
  BY Zenon, <1>1, OthersFollow DEF OthersStay
<1>3. /\ SeatsStep({c})
      /\ \A b \in Handles : rooms[b] # None => MarksKept(rooms[b], rooms'[b])
  BY Zenon, <1>2, SameList, QuietSeats DEF SeatInv
<1>4. SeatOK(c, cs, rooms, sweep) /\ Unseated(cs)
  <2>1. SeatOK(c, conn[c], rooms, sweep)
    BY Zenon DEF SeatInv, SeatsInv
  <2> QED
    BY Zenon, <2>1, NoSeat DEF SeatOK, Unseated
<1>5. Moves(c)
  BY Zenon, <1>2, <1>4 DEF Moves
<1> QED
  BY Zenon, <1>3, <1>5, SeatStep

\* Nobody moves, and neither the rooms nor the sweep change.
LEMMA NobodySeats ==
  ASSUME IndInv, Basics, SeatInv, rooms' = rooms, conn' = conn, sweep' = sweep
  PROVE  SeatInv'
BY Zenon DEF SeatInv, SeatsInv, LeavesInv

\* Idempotent re-create: the host's old connection is cancelled.
LEMMA CreateReconnectSeats ==
  ASSUME IndInv, Basics, SeatInv, NEW c \in Conns, CreateReconnect(c)
  PROVE  SeatInv'
<1> DEFINE a == conn[c].handle
           m == conn[c].request
           adm == Admission(c, m.meta)
           h == rooms[a].host_peer_id
           res == ReconnectHost(rooms[a], adm)
<1>1. conn[c].pc = "reconnect" /\ conn[c].pc \in CreateSteps \cup {"join"}
  BY Zenon DEF CreateReconnect, CreateSteps
<1>2. /\ a \in Handles /\ rooms[a] # None /\ rooms[a] \in Rooms /\ RoomOK(rooms[a])
      /\ m.peer_id \in PeerIds /\ m.meta \in Metas
  BY Zenon, <1>1 DEF Basics, RequestKnown
<1>3. adm \in Admissions /\ h \in PeerIds
  BY Zenon, <1>2 DEF Basics, Rooms
<1>4. /\ rooms' = [rooms EXCEPT ![a] = res.room] /\ sweep' = sweep
      /\ conn' = AfterAdmission(c, a, m.peer_id, res.eff)
  BY Zenon DEF CreateReconnect
<1> HIDE DEF a, m
<1>5. RoomOK(res.room) /\ SameRoom(rooms[a], res.room)
  BY Zenon, <1>2, <1>3, ReconnectHostOK, ReconnectHostSame
<1>6. /\ Admits(rooms[a], res.room, h, adm) /\ MarksKept(rooms[a], res.room)
      /\ res.eff.evict = Replaced(rooms[a], h)
      /\ res.eff.assigned_conn_id = rooms[a].next_conn_id
  BY Zenon, <1>2, <1>3, ReconnectHostEntries
<1>7. conn[c].pc # "leave"
  BY Zenon, <1>1
<1> HIDE DEF res, h
<1> QED
  BY Zenon, <1>2, <1>3, <1>4, <1>5, <1>6, <1>7, AdmittedSeats

\* join and resume: whoever held the identity is cancelled.
LEMMA JoinEnterSeats ==
  ASSUME IndInv, Basics, SeatInv, NEW c \in Conns, JoinEnter(c)
  PROVE  SeatInv'
<1> DEFINE a == conn[c].handle
           m == conn[c].request
           adm == Admission(c, m.meta)
           resume_only == m.type = "resume"
           res == JoinOrResume(rooms[a], m.peer_id, m.token, adm, resume_only, now)
<1>1. conn[c].pc = "join" /\ conn[c].pc \in CreateSteps \cup {"join"}
  BY Zenon DEF JoinEnter, CreateSteps
<1>2. /\ a \in Handles /\ rooms[a] # None /\ rooms[a] \in Rooms /\ RoomOK(rooms[a])
      /\ m.peer_id \in PeerIds /\ m.meta \in Metas
  BY Zenon, <1>1 DEF Basics, RequestKnown
<1>3. adm \in Admissions /\ now \in Nat /\ resume_only \in BOOLEAN
  BY Zenon, <1>2 DEF Basics, IndInv
<1>4. /\ rooms' = [rooms EXCEPT ![a] = res.room] /\ sweep' = sweep
      /\ conn' = AfterAdmission(c, a, m.peer_id, res.eff)
  BY Zenon DEF JoinEnter
<1> HIDE DEF a, m, resume_only
<1>5. RoomOK(res.room) /\ SameRoom(rooms[a], res.room)
  BY Zenon, <1>2, <1>3, JoinOrResumeOK, JoinOrResumeSame
<1>6. MarksKept(rooms[a], res.room) /\ Attempt(rooms[a], res, m.peer_id, adm)
  BY Zenon, <1>2, <1>3, JoinEntries
<1>7. conn[c].pc # "leave"
  BY Zenon, <1>1
<1>8. CASE Admits(rooms[a], res.room, m.peer_id, adm)
           /\ res.eff.evict = Replaced(rooms[a], m.peer_id)
           /\ res.eff.assigned_conn_id = rooms[a].next_conn_id
  <2> HIDE DEF res
  <2> QED
    BY Zenon, <1>2, <1>3, <1>4, <1>5, <1>6, <1>7, <1>8, AdmittedSeats
<1>9. CASE /\ KeepsEntries(rooms[a], res.room)
           /\ res.eff.evict = {} /\ res.eff.assigned_conn_id = None
  <2> DEFINE cs == Resume(conn[c], None)
  <2>2. conn \in [Conns -> ConnStates]
    BY Zenon DEF IndInv, ConnsOK
  <2>3. cs \in ConnStates /\ cs.pc = "idle" /\ cs.seat = None
    BY ZenonT(40), <2>2 DEF Resume, ConnStates, ConnSteps
  <2> HIDE DEF res
  <2>4. conn' = Cancel([conn EXCEPT ![c] = cs], a, {})
    BY Zenon, <1>4, <1>9, <2>2 DEF AfterAdmission
  <2> HIDE DEF cs
  <2>5. conn' = [conn EXCEPT ![c] = cs]
    BY Zenon, <2>2, <2>4 DEF Cancel
  <2>6. cs.pc \notin CreateSteps \cup {"join", "leave"}
    BY Zenon, <2>3 DEF CreateSteps
  <2> QED
    BY Zenon, <1>2, <1>4, <1>5, <1>6, <1>7, <1>9, <2>3, <2>5, <2>6, CallerSeats
<1> QED
  BY Zenon, <1>6, <1>8, <1>9 DEF Attempt

\* create finds a room and takes the registry's lock.
LEMMA CreateExistingSeats ==
  ASSUME IndInv, Basics, SeatInv, NEW c \in Conns, NEW m \in Requests, CreateExisting(c, m)
  PROVE  SeatInv'
<1> DEFINE a == registry[m.session_id]
           pc == IF Idempotent(rooms[a], m) THEN "reconnect" ELSE "check"
           cs == Send(c, m, pc, a)
<1>1. a \in Handles \cup {None}
  BY Zenon DEF Requests, IndInv, RegistryOK
<1>2. pc \in ConnSteps /\ pc # "leave"
  BY Zenon DEF CreateSteps, ConnSteps
<1>3. /\ conn' = [conn EXCEPT ![c] = cs] /\ rooms' = rooms /\ sweep' = sweep
      /\ conn[c].seat = None /\ conn[c].pc = "idle"
  BY Zenon DEF CreateExisting, MaySend
<1> HIDE DEF pc, a
<1>4. cs.pc = pc /\ cs.seat = None
  BY SMTT(30), <1>1, <1>2, <1>3 DEF Basics, SendKnown
<1> HIDE DEF cs
<1>5. cs.pc # "leave" /\ conn[c].pc # "leave"
  BY Zenon, <1>2, <1>3, <1>4
<1> QED
  BY Zenon, <1>3, <1>4, <1>5, ConnOnlySeats

\* Registry::get hands out a handle.
LEMMA JoinLookupSeats ==
  ASSUME IndInv, Basics, SeatInv, NEW c \in Conns, NEW m \in Requests, JoinLookup(c, m)
  PROVE  SeatInv'
<1> DEFINE a == registry[m.session_id]
           cs == Send(c, m, "join", a)
<1>1. a \in Handles \cup {None} /\ "join" \in ConnSteps
  BY Zenon DEF Requests, IndInv, RegistryOK, ConnSteps
<1>2. /\ conn' = [conn EXCEPT ![c] = cs] /\ rooms' = rooms /\ sweep' = sweep
      /\ conn[c].seat = None /\ conn[c].pc = "idle"
  BY Zenon DEF JoinLookup, MaySend
<1> HIDE DEF a
<1>3. cs.pc = "join" /\ cs.seat = None
  BY <1>1, <1>2 DEF Basics, SendKnown
<1> HIDE DEF cs
<1>4. cs.pc # "leave" /\ conn[c].pc # "leave"
  BY Zenon, <1>2, <1>3
<1> QED
  BY Zenon, <1>2, <1>3, <1>4, ConnOnlySeats

\* A handler that returns to the read loop without a seat.
LEMMA ForgetSeats ==
  ASSUME IndInv, Basics, SeatInv, NEW c \in Conns, conn[c].pc # "leave",
         rooms' = rooms, sweep' = sweep,
         NEW pc \in {"idle", "closed"},
         conn' = [conn EXCEPT ![c] = [Resume(conn[c], None) EXCEPT !.pc = pc]]
  PROVE  SeatInv'
<1> DEFINE cs == [Resume(conn[c], None) EXCEPT !.pc = pc]
<1>1. conn[c] \in ConnStates
  BY Zenon DEF IndInv, ConnsOK
<1>2. cs.pc = pc /\ cs.seat = None
  BY Zenon, <1>1 DEF Resume, ConnStates
<1>3. conn' = [conn EXCEPT ![c] = cs]
  BY Zenon
<1> HIDE DEF cs
<1>4. cs.pc # "leave"
  BY Zenon, <1>2
<1> QED
  BY Zenon, <1>2, <1>3, <1>4, ConnOnlySeats

\* Back to the read loop is one way to end there.
LEMMA ResumeIdle ==
  ASSUME NEW cs \in ConnStates
  PROVE  Resume(cs, None) = [Resume(cs, None) EXCEPT !.pc = "idle"]
BY Zenon DEF Resume, ConnStates

\* The reclaimability check.
LEMMA CreateCheckSeats ==
  ASSUME IndInv, Basics, SeatInv, NEW c \in Conns, CreateCheck(c)
  PROVE  SeatInv'
<1> DEFINE cs == Goto(conn[c], "reclaim")
<1>1. conn \in [Conns -> ConnStates] /\ Unseated(conn[c])
  BY Zenon DEF IndInv, ConnsOK, SeatInv, SeatsInv
<1>2. conn[c].pc = "check" /\ conn[c].seat = None /\ rooms' = rooms /\ sweep' = sweep
  BY Zenon, <1>1 DEF CreateCheck, CreateSteps, Unseated
<1>3. cs.pc = "reclaim" /\ cs.seat = None
  BY Zenon, <1>1, <1>2 DEF Goto, ConnStates
<1>4. \/ conn' = [conn EXCEPT ![c] = cs]
      \/ conn' = [conn EXCEPT ![c] = Resume(conn[c], None)]
  BY Zenon DEF CreateCheck
<1> HIDE DEF cs
<1>5. CASE conn' = [conn EXCEPT ![c] = cs]
  <2>1. cs.pc # "leave" /\ conn[c].pc # "leave"
    BY Zenon, <1>2, <1>3
  <2> QED
    BY Zenon, <1>2, <1>3, <1>5, <2>1, ConnOnlySeats
<1>6. CASE conn' = [conn EXCEPT ![c] = Resume(conn[c], None)]
  <2>1. conn' = [conn EXCEPT ![c] = [Resume(conn[c], None) EXCEPT !.pc = "idle"]]
    BY Zenon, <1>1, <1>6, ResumeIdle
  <2>2. conn[c].pc # "leave" /\ "idle" \in {"idle", "closed"}
    BY Zenon, <1>2
  <2> QED
    BY Zenon, <1>2, <2>1, <2>2, ForgetSeats
<1> QED
  BY Zenon, <1>4, <1>5, <1>6

\* A refused endSession: the connection forgets its seat, the room does not.
LEMMA EndRefusedSeats ==
  ASSUME IndInv, Basics, SeatInv, NEW c \in Conns, NEW token, NEW version_ok,
         EndRefused(c, token, version_ok)
  PROVE  SeatInv'
<1>1. conn \in [Conns -> ConnStates]
  BY Zenon DEF IndInv, ConnsOK
<1>2. /\ conn' = [conn EXCEPT ![c] = Resume(conn[c], None)]
      /\ rooms' = rooms /\ sweep' = sweep /\ conn[c].pc = "idle"
  BY Zenon DEF EndRefused, InRoom
<1>3. conn' = [conn EXCEPT ![c] = [Resume(conn[c], None) EXCEPT !.pc = "idle"]]
  BY Zenon, <1>1, <1>2, ResumeIdle
<1>4. conn[c].pc # "leave" /\ "idle" \in {"idle", "closed"}
  BY Zenon, <1>2
<1> QED
  BY Zenon, <1>2, <1>3, <1>4, ForgetSeats

\* The sections of end_session that touch no room.
LEMMA EndGoesOnSeats ==
  ASSUME IndInv, Basics, SeatInv, NEW c \in Conns, EndRemove(c) \/ EndRelease(c)
  PROVE  SeatInv'
<1>1. conn[c] \in ConnStates
  BY Zenon DEF IndInv, ConnsOK
<1>2. PICK pc \in {"end_release", "end_finish"} : conn' = [conn EXCEPT ![c] = Goto(conn[c], pc)]
  BY Zenon DEF EndRemove, EndRelease
<1> DEFINE cs == Goto(conn[c], pc)
<1>3. cs.pc = pc /\ cs.seat = conn[c].seat /\ cs.cancelled = conn[c].cancelled
  BY Zenon, <1>1 DEF Goto, ConnStates
<1>4. /\ conn[c].pc # "leave" /\ pc # "leave" /\ pc \notin CreateSteps \cup {"join"}
      /\ rooms' = rooms /\ sweep' = sweep
  BY Zenon DEF EndRemove, EndRelease, CreateSteps
<1>5. conn' = [conn EXCEPT ![c] = cs]
  BY Zenon, <1>2
<1> HIDE DEF cs
<1>6. cs.pc # "leave" /\ cs.pc \notin CreateSteps \cup {"join"}
  BY Zenon, <1>3, <1>4
<1> QED
  BY Zenon, <1>3, <1>4, <1>5, <1>6, ConnOnlySeats

\* The first section of end_session closes the room and nothing else.
LEMMA EndBeginSeats ==
  ASSUME IndInv, Basics, SeatInv, NEW c \in Conns, NEW token, NEW version_ok,
         EndBegin(c, token, version_ok)
  PROVE  SeatInv'
<1> DEFINE seat == conn[c].seat
           r == rooms[seat.room]
           s == [r EXCEPT !.closing = TRUE]
           cs == Goto(conn[c], "end_remove")
<1>1. seat # None /\ conn[c].pc = "idle"
  BY Zenon DEF EndBegin, InRoom
<1>2. /\ conn[c] \in ConnStates /\ seat.room \in Handles
      /\ r # None /\ r \in Rooms /\ RoomOK(r)
  BY Zenon, <1>1 DEF Basics, SeatKnown
<1>3. RoomOK(s) /\ SameRoom(r, s) /\ KeepsEntries(r, s) /\ MarksKept(r, s)
  BY Zenon, <1>2, ClosingOK, ClosingSame, ClosingMarks
<1>4. /\ rooms' = [rooms EXCEPT ![seat.room] = s] /\ conn' = [conn EXCEPT ![c] = cs]
      /\ sweep' = sweep
  BY Zenon DEF EndBegin, BeginEndSession
<1>5. /\ cs \in ConnStates /\ cs.pc = "end_remove"
      /\ cs.seat = seat /\ cs.cancelled = conn[c].cancelled
  BY Zenon, <1>2 DEF Goto, ConnStates, ConnSteps
<1> HIDE DEF s, cs
<1>6. conn[c].pc # "leave" /\ cs.pc \notin CreateSteps \cup {"join", "leave"}
  BY Zenon, <1>1, <1>5 DEF CreateSteps
<1> QED
  BY Zenon, <1>2, <1>3, <1>4, <1>5, <1>6, CallerSeats

\* transferHost, broadcast and sendTo leave entries and pending leaves alone.
LEMMA CallSeats ==
  ASSUME IndInv, Basics, SeatInv, NEW c \in Conns, NEW s, Call(c, s),
         conn[c].seat # None =>
           LET r == rooms[conn[c].seat.room]
           IN  RoomOK(s) /\ SameRoom(r, s) /\ KeepsEntries(r, s) /\ MarksKept(r, s)
  PROVE  SeatInv'
<1> DEFINE seat == conn[c].seat
           r == rooms[seat.room]
<1>1. seat # None /\ conn[c].pc = "idle"
  BY Zenon DEF Call, InRoom
<1>2. conn[c] \in ConnStates /\ seat.room \in Handles /\ r # None
  BY Zenon, <1>1 DEF Basics, SeatKnown
<1>3. rooms' = [rooms EXCEPT ![seat.room] = s] /\ sweep' = sweep
  BY Zenon DEF Call
<1>4. conn' = [conn EXCEPT ![c] = conn[c]]
  BY Zenon DEF Call, IndInv, ConnsOK
<1>5. conn[c].pc # "leave" /\ conn[c].pc \notin CreateSteps \cup {"join", "leave"}
  BY Zenon, <1>1 DEF CreateSteps
<1>6. RoomOK(s) /\ SameRoom(r, s) /\ KeepsEntries(r, s) /\ MarksKept(r, s)
  BY Zenon, <1>1
<1> QED
  BY Zenon, <1>2, <1>3, <1>4, <1>5, <1>6, CallerSeats

\* transferHost.
LEMMA TransferHostSeats ==
  ASSUME IndInv, Basics, SeatInv, NEW c \in Conns, NEW version_ok \in BOOLEAN,
         NEW target \in PeerIds, CallTransferHost(c, version_ok, target)
  PROVE  SeatInv'
<1> DEFINE seat == conn[c].seat
           r == rooms[seat.room]
           s == TransferHost(r, seat.peer_id, seat.conn_id, version_ok, target).room
<1>1. Call(c, s)
  BY Zenon DEF CallTransferHost
<1>2. ASSUME seat # None
      PROVE  RoomOK(s) /\ SameRoom(r, s) /\ KeepsEntries(r, s) /\ MarksKept(r, s)
  <2>1. RoomOK(r) /\ r \in Rooms /\ seat.peer_id \in PeerIds
    BY Zenon, <1>2 DEF Basics, SeatKnown
  <2> QED
    BY Zenon, <2>1, TransferHostOK, TransferHostSame, TransferMarks
<1> QED
  BY Zenon, <1>1, <1>2, CallSeats

\* broadcast and sendTo.
LEMMA TrafficSeats ==
  ASSUME IndInv, Basics, SeatInv, NEW c \in Conns, NEW target \in PeerIds,
         CallBroadcast(c) \/ CallSendTo(c, target)
  PROVE  SeatInv'
<1> DEFINE seat == conn[c].seat
           r == rooms[seat.room]
           b == Broadcast(r, seat.peer_id, seat.conn_id, now).room
           s == SendTo(r, seat.peer_id, seat.conn_id, target, now).room
<1>1. Call(c, b) \/ Call(c, s)
  BY Zenon DEF CallBroadcast, CallSendTo
<1>2. ASSUME seat # None
      PROVE  /\ RoomOK(b) /\ SameRoom(r, b) /\ KeepsEntries(r, b) /\ MarksKept(r, b)
             /\ RoomOK(s) /\ SameRoom(r, s) /\ KeepsEntries(r, s) /\ MarksKept(r, s)
  <2>1. RoomOK(r) /\ r \in Rooms /\ now \in Nat
    BY Zenon, <1>2 DEF Basics, SeatKnown, IndInv
  <2> QED
    BY Zenon, <2>1, BroadcastOK, SendToOK, TrafficSame, TrafficMarks
<1> QED
  BY Zenon, <1>1, <1>2, CallSeats

\* An entry belongs to one connection: two seats on it are the same one's.
LEMMA OwnEntry ==
  ASSUME SeatInv, NEW c \in Conns, NEW d \in Conns, NEW a, NEW p \in PeerIds, NEW k,
         conn[c].seat # None, conn[c].seat.room = a, conn[c].seat.conn_id = k,
         conn[d].seat # None, conn[d].seat.room = a, conn[d].seat.conn_id = k,
         IsCurrent(rooms[a], p, k)
  PROVE  c = d /\ rooms[a].peers[p].conn = c
<1>1. SeatOK(c, conn[c], rooms, sweep) /\ SeatOK(d, conn[d], rooms, sweep)
  BY Zenon DEF SeatInv, SeatsInv
<1> QED
  BY Zenon, <1>1 DEF SeatOK

\* A connection that is not leaving has no leave pending on its entry.
LEMMA NotPending ==
  ASSUME IndInv, Basics, SeatInv, NEW c \in Conns, conn[c].seat # None, conn[c].pc # "leave",
         NEW a, a = conn[c].seat.room, ~rooms[a].closing,
         NEW p \in PeerIds, IsCurrent(rooms[a], p, conn[c].seat.conn_id)
  PROVE  p \notin Pending(rooms[a])
<1> SUFFICES ASSUME p \in Pending(rooms[a]) PROVE FALSE
  BY Zenon
<1>1. a \in Handles /\ rooms[a] # None
  BY Zenon DEF Basics, SeatKnown
<1>2. LeavesOK(a, rooms[a], conn)
  BY Zenon, <1>1 DEF SeatInv, LeavesInv
<1>3. PICK d \in Conns : /\ conn[d].pc = "leave"
                         /\ conn[d].seat = Seat(a, p, rooms[a].peers[p].conn_id)
  BY Zenon, <1>2 DEF LeavesOK
<1>4. conn[d].seat # None
  BY Zenon, <1>3 DEF IndInv, ConnsOK, ConnOK
<1>5. conn[d].seat.room = a /\ conn[d].seat.conn_id = conn[c].seat.conn_id
  <2> DEFINE k == rooms[a].peers[p].conn_id
             s == Seat(a, p, k)
  <2>1. s.room = a /\ s.conn_id = k
    BY Zenon DEF Seat
  <2>2. k = conn[c].seat.conn_id
    BY Zenon DEF IsCurrent
  <2>3. conn[d].seat = s
    BY Zenon, <1>3
  <2> HIDE DEF s, k
  <2> QED BY Zenon, <2>1, <2>2, <2>3
<1>6. c = d
  BY Zenon, <1>4, <1>5, OwnEntry
<1> QED
  BY Zenon, <1>3, <1>6

\* A connection drops its own entry, which costs nobody else a seat.
LEMMA DropOwn ==
  ASSUME IndInv, Basics, SeatInv, NEW c \in Conns, conn[c].seat # None,
         NEW a, a = conn[c].seat.room, NEW p \in PeerIds, NEW s,
         IsCurrent(rooms[a], p, conn[c].seat.conn_id), Drops(rooms[a], s, p)
  PROVE  LosersTold({c}, a, s) /\ EntriesEvolve(rooms[a], s)
<1>1. a \in Handles /\ rooms[a] \in Rooms
  BY Zenon DEF Basics, SeatKnown
<1>2. \A q \in PeerIds : s.peers[q] # rooms[a].peers[q] => q = p
  BY Zenon, <1>1 DEF Drops, Rooms
<1>3. rooms[a].peers[p].conn = c
  BY ZenonT(40), OwnEntry
<1>4. LosersTold({c}, a, s)
  BY Zenon, <1>2, <1>3 DEF LosersTold
<1>5. EntriesEvolve(rooms[a], s)
  <2> DEFINE r == rooms[a]
  <2>1. /\ r.next_conn_id \in Nat /\ r.peers \in [PeerIds -> ConnectedPeers \cup {None}]
    BY Zenon, <1>1 DEF Rooms
  <2>2. s.peers = [r.peers EXCEPT ![p] = None] /\ s.next_conn_id = r.next_conn_id
    BY Zenon DEF Drops
  <2> HIDE DEF r
  <2>3. \A q \in PeerIds : s.peers[q] = r.peers[q] \/ s.peers[q] = None
    BY Zenon, <2>1, <2>2
  <2>4. s.next_conn_id \in Nat /\ r.next_conn_id <= s.next_conn_id
    BY SMTT(30), <2>1, <2>2
  <2> QED
    BY Zenon, <2>1, <2>3, <2>4 DEF EntriesEvolve, r
<1> QED
  BY Zenon, <1>4, <1>5

\* The end of a connection takes its own entry, or none.
LEMMA CloseSeats ==
  ASSUME IndInv, Basics, SeatInv, NEW c \in Conns, Close(c)
  PROVE  SeatInv'
<1> DEFINE seat == conn[c].seat
           a == seat.room
           r == rooms[a]
           s == HandleDisconnect(r, seat.peer_id, seat.conn_id, now).room
           cs == [Resume(conn[c], None) EXCEPT !.pc = "closed"]
<1>1. conn \in [Conns -> ConnStates] /\ rooms \in [Handles -> Rooms \cup {None}] /\ now \in Nat
  BY Zenon DEF IndInv, ConnsOK, RoomTableOK
<1>2. /\ conn[c].pc = "idle" /\ conn[c].pc # "leave"
      /\ conn' = [conn EXCEPT ![c] = cs] /\ sweep' = sweep
  BY Zenon DEF Close
<1>3. cs \in ConnStates /\ cs.pc = "closed" /\ cs.seat = None
  BY ZenonT(40), <1>1 DEF Resume, ConnStates, ConnSteps
<1>4. cs.pc # "leave" /\ cs.pc \notin CreateSteps \cup {"join", "leave"}
  BY Zenon, <1>3 DEF CreateSteps
<1> HIDE DEF cs
<1>5. CASE seat = None
  <2>1. rooms' = rooms
    BY Zenon, <1>5 DEF Close
  <2> QED
    BY Zenon, <1>2, <1>3, <1>4, <2>1, ConnOnlySeats
<1>6. CASE seat # None
  <2>1. /\ a \in Handles /\ seat.peer_id \in PeerIds /\ r # None /\ r \in Rooms /\ RoomOK(r)
    BY Zenon, <1>6 DEF Basics, SeatKnown
  <2>2. rooms' = [rooms EXCEPT ![a] = s]
    BY Zenon, <1>6 DEF Close
  <2>3. RoomOK(s) /\ SameRoom(r, s)
    BY Zenon, <1>1, <2>1, HandleDisconnectOK, HandleDisconnectSame
  <2>4. \/ s = r
        \/ /\ ~r.closing /\ IsCurrent(r, seat.peer_id, seat.conn_id)
           /\ Drops(r, s, seat.peer_id)
           /\ seat.peer_id \notin Pending(r) => MarksKept(r, s)
    BY Zenon, <1>1, <2>1, DisconnectMarks
  <2> HIDE DEF s
  <2>5. CASE s = r
    <3>1. KeepsEntries(r, s) /\ MarksKept(r, s)
      BY Zenon, <2>5 DEF KeepsEntries, MarksKept
    <3> QED
      BY Zenon, <1>2, <1>3, <1>4, <2>1, <2>2, <2>3, <3>1, CallerSeats
  <2>6. CASE /\ ~r.closing /\ IsCurrent(r, seat.peer_id, seat.conn_id)
             /\ Drops(r, s, seat.peer_id)
             /\ seat.peer_id \notin Pending(r) => MarksKept(r, s)
    <3>1. LosersTold({c}, a, s) /\ EntriesEvolve(r, s)
      BY Zenon, <1>6, <2>1, <2>6, DropOwn
    <3>2. seat.peer_id \notin Pending(r)
      BY Zenon, <1>2, <1>6, <2>1, <2>6, NotPending
    <3>3. conn'[c] = cs /\ OthersStay({c})
      BY Zenon, <1>1, <1>2, OthersFollow DEF OthersStay
    <3>4. /\ SeatsStep({c}) /\ rooms'[a] = s
          /\ \A b \in Handles : rooms[b] # None /\ b # a => MarksKept(rooms[b], rooms'[b])
      BY Zenon, <1>2, <2>1, <2>2, <2>3, <3>1, <3>3, SameList, MethodSeats DEF SeatInv
    <3>5. MarksKept(r, s)
      BY Zenon, <2>6, <3>2
    <3>6. \A b \in Handles : rooms[b] # None => MarksKept(rooms[b], rooms'[b])
      BY Zenon, <3>4, <3>5
    <3>7. Moves(c)
      BY Zenon, <1>2, <1>3, <1>4, <3>3, NoSeat DEF Moves
    <3> QED
      BY Zenon, <3>4, <3>6, <3>7, SeatStep
  <2> QED
    BY Zenon, <2>4, <2>5, <2>6
<1> QED
  BY Zenon, <1>5, <1>6

\* Whoever loses an entry that is on the list of those to cancel is cancelled.
LEMMA CancelTells ==
  ASSUME NEW conns \in [Conns -> ConnStates], NEW a, NEW evict, NEW s, NEW M,
         conn' = Cancel(conns, a, evict), \A d \in Conns \ M : conns[d] = conn[d],
         \A p \in PeerIds : /\ rooms[a].peers[p] # None
                            /\ s.peers[p] # rooms[a].peers[p]
                            => rooms[a].peers[p] \in evict
  PROVE  OthersStay(M) /\ LosersTold(M, a, s)
<1>1. OthersStay(M)
  BY Zenon, CancelFollows DEF OthersStay
<1>2. LosersTold(M, a, s)
  <2> SUFFICES ASSUME NEW d \in Conns \ M, NEW q \in PeerIds,
                      conn[d].seat # None, conn[d].seat.room = a,
                      IsCurrent(rooms[a], q, conn[d].seat.conn_id),
                      rooms[a].peers[q].conn = d, s.peers[q] # rooms[a].peers[q]
               PROVE  conn'[d].cancelled
    BY Zenon DEF LosersTold, Told
  <2>1. /\ conns[d].seat # None /\ conns[d].seat.room = a /\ d \in Conns
        /\ \E o \in evict : o.conn = d /\ o.conn_id = conns[d].seat.conn_id
    BY Zenon DEF IsCurrent
  <2> QED
    BY Zenon, <2>1, CancelFollows
<1> QED
  BY Zenon, <1>1, <1>2

\* The last section of end_session evicts every entry it drops.
LEMMA EndFinishSeats ==
  ASSUME IndInv, Basics, SeatInv, NEW c \in Conns, NEW persisted \in BOOLEAN,
         EndFinish(c, persisted)
  PROVE  SeatInv'
<1> DEFINE seat == conn[c].seat
           a == seat.room
           r == rooms[a]
           res == FinishEndSession(r, {}, persisted)
           s == res.room
           evict == res.eff.evict
           cs == Resume(conn[c], None)
           conns == [conn EXCEPT ![c] = cs]
<1>1. seat # None /\ r.closing /\ conn[c].pc = "end_finish" /\ conn[c].pc # "leave"
  BY Zenon DEF EndFinish, IndInv, ConnsOK, ConnOK, EndSteps
<1>2. conn \in [Conns -> ConnStates] /\ rooms \in [Handles -> Rooms \cup {None}]
  BY Zenon DEF IndInv, ConnsOK, RoomTableOK
<1>3. a \in Handles /\ r # None /\ r \in Rooms /\ RoomOK(r)
  BY Zenon, <1>1 DEF Basics, SeatKnown
<1>4. cs \in ConnStates /\ cs.pc = "idle" /\ cs.seat = None
  BY ZenonT(40), <1>2 DEF Resume, ConnStates, ConnSteps
<1>5. /\ rooms' = [rooms EXCEPT ![a] = s] /\ sweep' = sweep
      /\ conn' = Cancel(conns, a, evict)
  BY Zenon DEF EndFinish
<1>6. RoomOK(s) /\ SameRoom(r, s)
  BY Zenon, <1>3, FinishEndSessionOK, FinishEndSessionSame
<1>7. Clears(r, s) /\ MarksKept(r, s) /\ evict = {r.peers[p] : p \in Connected(r)}
  BY Zenon, <1>1, <1>3, FinishEndMarks
<1> HIDE DEF res, cs
<1>8. /\ conns \in [Conns -> ConnStates] /\ conns[c] = cs
      /\ \A d \in Conns \ {c} : conns[d] = conn[d]
  BY Zenon, <1>2, <1>4
<1> HIDE DEF conns, s, evict
<1>9. \A p \in PeerIds : r.peers[p] # None /\ s.peers[p] # r.peers[p] => r.peers[p] \in evict
  BY Zenon, <1>7 DEF Connected
<1>10. OthersStay({c}) /\ LosersTold({c}, a, s)
  BY Zenon, <1>5, <1>8, <1>9, CancelTells
<1>11. EntriesEvolve(r, s)
  <2>1. r.next_conn_id \in Nat
    BY Zenon, <1>3 DEF Rooms
  <2>2. Clears(r, s)
    BY Zenon, <1>7
  <2> QED BY Zenon, <2>1, <2>2, ClearsEvolves
<1>12. /\ SeatsStep({c}) /\ rooms'[a] = s
       /\ \A b \in Handles : rooms[b] # None /\ b # a => MarksKept(rooms[b], rooms'[b])
  BY ZenonT(60), <1>3, <1>5, <1>6, <1>10, <1>11, SameList, MethodSeats DEF SeatInv
<1>13. \A b \in Handles : rooms[b] # None => MarksKept(rooms[b], rooms'[b])
  BY Zenon, <1>7, <1>12
<1>14. Follows(cs, conn'[c])
  BY Zenon, <1>5, <1>8, CancelFollows
<1>15. conn'[c].pc # "leave" /\ conn'[c].seat = None
  BY Zenon, <1>4, <1>14 DEF Follows
<1>16. Moves(c)
  BY Zenon, <1>1, <1>15, NoSeat DEF Moves
<1> QED
  BY Zenon, <1>12, <1>13, <1>16, SeatStep
-----------------------------------------------------------------------------
(* The sweep *)

\* The sweep goes on to the next room with an empty list.
LEMMA SweepNextList ==
  ASSUME NEW todo, NEW started
  PROVE  SweepNext(todo, started).evict = {}
BY Zenon DEF SweepNext, SweepIdle

\* Between two rooms the sweep has nobody on its list.
LEMMA NobodyDoomed ==
  ASSUME SeatInv, sweep.pc \in {"idle", "visit"}, NEW d, NEW seat
  PROVE  ~Doomed(d, seat, sweep)
BY Zenon DEF SeatInv, SeatsInv, Doomed

\* The sections of the sweep that touch no room: its list is kept, and at the
\* end everybody on it is cancelled.
LEMMA SweepQuietSeats ==
  ASSUME IndInv, Basics, SeatInv, SweepBegin \/ SweepRemove \/ SweepFinish
  PROVE  SeatInv'
<1>1. conn \in [Conns -> ConnStates] /\ sweep \in SweepStates
  BY Zenon DEF IndInv, ConnsOK, SweepOK
<1>2. CASE SweepBegin
  <2>1. sweep.pc \in {"idle", "visit"} /\ sweep' = SweepNext(Registered, now) /\ conn' = conn
    BY Zenon, <1>2 DEF SweepBegin
  <2>2. sweep'.evict = {}
    BY Zenon, <2>1, SweepNextList
  <2>3. ListKept({}) /\ OthersStay({})
    BY Zenon, <2>1, <2>2, NobodyDoomed DEF ListKept, OthersStay, Follows
  <2> QED
    BY Zenon, <1>2, <2>3, QuietSeats, SeatStep DEF SweepBegin, SeatInv
<1>3. CASE SweepRemove
  <2>1. conn' = conn /\ rooms' = rooms
    BY Zenon, <1>3 DEF SweepRemove
  <2>2. /\ sweep'.pc = "finish" /\ sweep'.evict = sweep.evict
        /\ sweep'.handle = sweep.handle
    BY Zenon, <1>1, <1>3 DEF SweepRemove, SweepStates
  <2>3. OthersStay({})
    BY Zenon, <2>1 DEF OthersStay, Follows
  <2>4. ListKept({})
    BY Zenon, <2>2 DEF ListKept, Told, Doomed
  <2> QED
    BY Zenon, <2>1, <2>3, <2>4, QuietSeats, SeatStep DEF SeatInv
<1>4. CASE SweepFinish
  <2>1. /\ conn' = Cancel(conn, sweep.handle, sweep.evict) /\ rooms' = rooms
        /\ sweep' = SweepNext(sweep.todo, sweep.now)
    BY Zenon, <1>4 DEF SweepFinish
  <2>2. sweep'.evict = {}
    BY Zenon, <2>1, SweepNextList
  <2>3. OthersStay({})
    BY Zenon, <1>1, <2>1, CancelFollows DEF OthersStay
  <2>4. \A d \in Conns : Doomed(d, conn[d].seat, sweep) /\ conn[d].seat # None
                           => conn'[d].cancelled
    BY Zenon, <1>1, <2>1, CancelFollows DEF Doomed
  <2>5. ListKept({})
    BY Zenon, <2>2, <2>4 DEF ListKept, Told
  <2> QED
    BY Zenon, <2>1, <2>3, <2>5, QuietSeats, SeatStep DEF SeatInv
<1> QED
  BY Zenon, <1>2, <1>3, <1>4

\* The section of the sweep under a room's lock: whose entry it drops is on
\* its list.
LEMMA SweepVisitSeats ==
  ASSUME IndInv, Basics, SeatInv, NEW a \in Handles, SweepVisit(a)
  PROVE  SeatInv'
<1> DEFINE r == rooms[a]
           res == SweepState(r, sweep.now, now)
           s == res.room
           todo == sweep.todo \ {a}
<1>1. /\ sweep \in SweepStates /\ r # None /\ r \in Rooms /\ RoomOK(r) /\ now \in Nat
  BY Zenon DEF SweepVisit, IndInv, SweepOK, RoomTableOK
<1>2. /\ sweep.pc \in {"idle", "visit"} /\ conn' = conn
      /\ rooms' = [rooms EXCEPT ![a] = s]
      /\ sweep' = IF res.remove
                  THEN [sweep EXCEPT !.pc = "remove", !.todo = todo, !.handle = a,
                                     !.evict = res.evict]
                  ELSE SweepNext(todo, sweep.now)
  BY Zenon DEF SweepVisit
<1>3. RoomOK(s) /\ SameRoom(r, s)
  BY Zenon, <1>1, SweepStateOK, SweepStateSame
<1>4. /\ MarksKept(r, s)
      /\ res.remove => Clears(r, s) /\ res.evict = {r.peers[p] : p \in Connected(r)}
      /\ ~res.remove => KeepsEntries(r, s)
  BY Zenon, <1>1, SweepMarks
<1> HIDE DEF res, s, todo
<1>5. res.remove => /\ sweep'.pc = "remove" /\ sweep'.handle = a
                    /\ sweep'.evict = {r.peers[p] : p \in Connected(r)}
  BY Zenon, <1>1, <1>2, <1>4 DEF SweepStates
<1>6. ~res.remove => sweep'.evict = {}
  BY Zenon, <1>2, SweepNextList
<1>7. OthersStay({})
  BY Zenon, <1>2 DEF OthersStay, Follows
<1>8. ListKept({})
  <2>1. sweep'.pc \in {"idle", "visit"} => sweep'.evict = {}
    BY Zenon, <1>5, <1>6
  <2> QED
    BY Zenon, <1>2, <2>1, NobodyDoomed DEF ListKept
<1>9. LosersTold({}, a, s)
  <2> SUFFICES ASSUME NEW d \in Conns, NEW q \in PeerIds, conn[d].seat.room = a,
                      IsCurrent(r, q, conn[d].seat.conn_id),
                      r.peers[q].conn = d, s.peers[q] # r.peers[q]
               PROVE  Doomed(d, conn[d].seat, sweep')
    BY Zenon DEF LosersTold, Told
  <2>1. res.remove
    BY Zenon, <1>4 DEF KeepsEntries
  <2>2. r.peers[q] \in sweep'.evict /\ r.peers[q].conn_id = conn[d].seat.conn_id
    BY Zenon, <1>5, <2>1 DEF IsCurrent, Connected
  <2> QED
    BY Zenon, <1>5, <2>1, <2>2 DEF Doomed
<1>10. EntriesEvolve(r, s)
  <2>1. r.next_conn_id \in Nat
    BY Zenon, <1>1 DEF Rooms
  <2> QED
    BY SMTT(30), <1>4, <2>1 DEF Clears, KeepsEntries, EntriesEvolve
<1>11. /\ SeatsStep({}) /\ rooms'[a] = s
       /\ \A b \in Handles : rooms[b] # None /\ b # a => MarksKept(rooms[b], rooms'[b])
  BY Zenon, <1>1, <1>2, <1>3, <1>7, <1>8, <1>9, <1>10, MethodSeats DEF SeatInv
<1>12. \A b \in Handles : rooms[b] # None => MarksKept(rooms[b], rooms'[b])
  BY Zenon, <1>4, <1>11
<1> QED
  BY Zenon, <1>11, <1>12, SeatStep

\* A step of c that changes no entry of a room that was there.
LEMMA TableSeats ==
  ASSUME IndInv, Basics, SeatInv, NEW c \in Conns, sweep' = sweep, OthersStay({c}), Moves(c),
         \A b \in Handles : rooms[b] # None =>
           /\ rooms'[b] # None /\ (rooms[b].closing => rooms'[b].closing)
           /\ KeepsEntries(rooms[b], rooms'[b]) /\ MarksKept(rooms[b], rooms'[b]),
         \A b \in Handles : rooms[b] = None /\ rooms'[b] # None => Pending(rooms'[b]) = {}
  PROVE  SeatInv'
<1>1. ASSUME NEW b \in Handles, rooms[b] # None
      PROVE  EntriesEvolve(rooms[b], rooms'[b])
  <2>1. rooms[b].next_conn_id \in Nat
    BY ZenonT(30), <1>1 DEF IndInv, RoomTableOK, Rooms
  <2>2. KeepsEntries(rooms[b], rooms'[b])
    BY Zenon, <1>1
  <2> QED
    BY SMTT(30), <2>1, <2>2 DEF KeepsEntries, EntriesEvolve
<1>2. ASSUME NEW d \in Conns \ {c}, conn[d].seat # None
      PROVE  Covered(d, conn[d], conn'[d], rooms, rooms', sweep, sweep')
  <2>1. conn[d].seat.room \in Handles /\ rooms[conn[d].seat.room] # None
    BY Zenon, <1>2 DEF Basics, SeatKnown
  <2>2. rooms'[conn[d].seat.room].peers = rooms[conn[d].seat.room].peers
    BY Zenon, <2>1 DEF KeepsEntries
  <2> QED
    BY ZenonT(30), <2>2 DEF Covered
<1>3. SeatsStep({c})
  BY Zenon, <1>1, <1>2 DEF SeatsStep, OthersStay, SeatInv, SeatsInv
<1> QED
  BY Zenon, <1>3, SeatStep

\* The only entry is that of c, under p and with the first conn_id.
FirstEntry(r, p, c) ==
  /\ Pending(r) = {} /\ r.next_conn_id = 2 /\ IsCurrent(r, p, 1)
  /\ \A q \in PeerIds : r.peers[q] # None => r.peers[q].conn = c

\* new_room has the host's entry only.
LEMMA NewRoomSeats ==
  ASSUME Basics, NEW session, NEW p \in PeerIds, NEW v, NEW ip, NEW c \in Conns,
         NEW meta \in Metas, NEW t
  PROVE  FirstEntry(NewRoom(session, p, v, ip, Admission(c, meta), t).room, p, c)
<1> DEFINE r == NewRoom(session, p, v, ip, Admission(c, meta), t).room
           adm == Admission(c, meta)
           o == Occupant(adm, 1)
<1>1. o \in ConnectedPeers /\ o.conn = c /\ o.conn_id = 1
  <2>1. adm \in Admissions
    BY Zenon DEF Basics
  <2>2. o \in ConnectedPeers
    BY Zenon, <2>1, OccupantType
  <2> QED
    BY Zenon, <2>2 DEF Occupant, Admission
<1>2. /\ r.peers = [q \in PeerIds |-> IF q = p THEN o ELSE None]
      /\ r.reservations = [q \in PeerIds |-> None] /\ r.next_conn_id = 2
  BY Zenon DEF NewRoom
<1> HIDE DEF r, o
<1>3. Pending(r) = {}
  BY Zenon, <1>2 DEF Pending, Reserved
<1>4. IsCurrent(r, p, 1)
  BY Zenon, <1>1, <1>2, NoneIsNoValue DEF IsCurrent
<1>5. \A q \in PeerIds : r.peers[q] # None => r.peers[q].conn = c
  BY Zenon, <1>1, <1>2
<1> QED
  BY Zenon, <1>2, <1>3, <1>4, <1>5 DEF FirstEntry, r

\* The rooms as a reclaim may have left them: one more may be closing.
TableKept(rms) ==
  /\ rms \in [Handles -> Rooms \cup {None}]
  /\ \A b \in Handles : rooms[b] # None =>
       /\ rms[b] # None /\ (rooms[b].closing => rms[b].closing)
       /\ KeepsEntries(rooms[b], rms[b]) /\ MarksKept(rooms[b], rms[b])
  /\ \A b \in Handles : rooms[b] = None => rms[b] = None

\* The last part of create: the caller gets a seat in a room nobody else has
\* ever been in, or none.
LEMMA OpenRoomSeats ==
  ASSUME IndInv, Basics, SeatInv, NEW c \in Conns, conn[c].pc # "leave", NEW m \in Requests,
         m.token \in Tokens, NEW rms, TableKept(rms), NEW reg, NEW quota,
         NEW conns \in [Conns -> ConnStates], \A d \in Conns \ {c} : conns[d] = conn[d],
         OpenRoom(c, m, rms, reg, quota, conns), sweep' = sweep
  PROVE  SeatInv'
<1> DEFINE ip == IpOf[c]
           new == NewRoom(m.session_id, m.peer_id, FromToken(m.token), ip,
                          Admission(c, m.meta), now).room
           p == m.peer_id
<1>1. p \in PeerIds /\ m.meta \in Metas /\ conn \in [Conns -> ConnStates]
  BY Zenon DEF Requests, IndInv, ConnsOK
<1>2. FirstEntry(new, p, c)
  BY Zenon, <1>1, NewRoomSeats
<1>3. \A x : [conns EXCEPT ![c] = x] = [conn EXCEPT ![c] = x]
  BY Zenon, <1>1
<1> HIDE DEF new
<1> USE DEF FirstEntry
<1>4. CASE rooms' = rms /\ conn' = [conns EXCEPT ![c] = Resume(@, None)]
  <2> DEFINE cs == Resume(conns[c], None)
  <2>1. conn' = [conn EXCEPT ![c] = cs]
    BY Zenon, <1>3, <1>4
  <2>2. cs.pc = "idle" /\ cs.seat = None
    BY Zenon DEF Resume, ConnStates
  <2> HIDE DEF cs
  <2>3. conn'[c] = cs /\ OthersStay({c})
    BY Zenon, <1>1, <2>1, OthersFollow DEF OthersStay
  <2>4. Moves(c)
    <3>1. conn'[c].pc # "leave" /\ conn'[c].seat = None
      BY Zenon, <2>2, <2>3
    <3> QED
      BY Zenon, <3>1, NoSeat DEF Moves
  <2> QED
    BY Zenon, <1>4, <2>3, <2>4, TableSeats DEF TableKept
<1>5. CASE \E a \in Unused :
             /\ rooms' = [rms EXCEPT ![a] = new]
             /\ conn' = [conns EXCEPT ![c] = Resume(@, Seat(a, p, 1))]
  <2>1. PICK a \in Unused : /\ rooms' = [rms EXCEPT ![a] = new]
                            /\ conn' = [conns EXCEPT ![c] = Resume(@, Seat(a, p, 1))]
    BY Zenon, <1>5
  <2> DEFINE seat == Seat(a, p, 1)
             cs == Resume(conns[c], seat)
  <2>2. a \in Handles /\ rooms[a] = None
    BY Zenon DEF Unused
  <2>3. conn' = [conn EXCEPT ![c] = cs]
    BY Zenon, <1>3, <2>1
  <2>4. seat.room = a /\ seat.conn_id = 1 /\ seat \in Seats /\ seat # None
    BY <1>1, <2>2, RelayConstants DEF Seat, Seats
  <2> HIDE DEF seat
  <2>5. cs.pc = "idle" /\ cs.seat = seat
    BY Zenon DEF Resume, ConnStates
  <2> HIDE DEF cs
  <2>6. conn'[c] = cs /\ OthersStay({c})
    BY Zenon, <1>1, <2>3, OthersFollow DEF OthersStay
  <2>7. rooms'[a] = new /\ \A b \in Handles : b # a => rooms'[b] = rms[b]
    BY Zenon, <2>1, <2>2 DEF TableKept
  <2>8. SeatOK(c, cs, rooms', sweep')
    <3>1. rooms'[cs.seat.room] = new /\ cs.seat.conn_id = 1
      BY Zenon, <2>4, <2>5, <2>7
    <3>2. \A q \in PeerIds : IsCurrent(new, q, 1) => new.peers[q].conn = c
      BY Zenon, <1>2 DEF IsCurrent
    <3>3. 1 < new.next_conn_id
      BY <1>2
    <3> QED
      BY Zenon, <1>1, <1>2, <3>1, <3>2, <3>3 DEF SeatOK
  <2>9. Moves(c)
    <3>1. conn'[c].pc # "leave" /\ Unseated(conn'[c])
      BY Zenon, <2>5, <2>6 DEF Unseated, CreateSteps
    <3> QED
      BY Zenon, <2>6, <2>8, <3>1 DEF Moves
  <2>10. \A b \in Handles : rooms[b] # None =>
           /\ rooms'[b] # None /\ (rooms[b].closing => rooms'[b].closing)
           /\ KeepsEntries(rooms[b], rooms'[b]) /\ MarksKept(rooms[b], rooms'[b])
    BY Zenon, <2>2, <2>7 DEF TableKept
  <2>11. \A b \in Handles : rooms[b] = None /\ rooms'[b] # None => Pending(rooms'[b]) = {}
    BY Zenon, <1>2, <2>7 DEF TableKept
  <2> QED
    BY Zenon, <2>6, <2>9, <2>10, <2>11, TableSeats
<1> QED
  BY Zenon, <1>4, <1>5 DEF OpenRoom, new

\* create under a free session id.
LEMMA CreateNewSeats ==
  ASSUME IndInv, Basics, SeatInv, NEW c \in Conns, NEW m \in Requests, CreateNew(c, m)
  PROVE  SeatInv'
<1> DEFINE conns == [conn EXCEPT ![c] = Send(c, m, "idle", None)]
<1>1. conn \in [Conns -> ConnStates] /\ "idle" \in ConnSteps
  BY Zenon DEF IndInv, ConnsOK, ConnSteps
<1>2. Send(c, m, "idle", None) \in ConnStates
  BY Zenon, <1>1 DEF Basics, SendKnown
<1>3. conns \in [Conns -> ConnStates] /\ \A d \in Conns \ {c} : conns[d] = conn[d]
  BY Zenon, <1>1, <1>2
<1>4. /\ m.token \in Tokens /\ conn[c].pc = "idle" /\ sweep' = sweep
      /\ OpenRoom(c, m, rooms, registry, rooms_per_ip, conns)
  BY Zenon DEF CreateNew, FromToken, MaySend
<1> HIDE DEF conns
<1>5. TableKept(rooms) /\ conn[c].pc # "leave"
  BY Zenon, <1>4 DEF IndInv, RoomTableOK, TableKept, KeepsEntries, MarksKept
<1> QED
  BY Zenon, <1>3, <1>4, <1>5, OpenRoomSeats

\* A reclaim closes the old room and leaves its entries alone.
LEMMA CreateReclaimSeats ==
  ASSUME IndInv, Basics, SeatInv, NEW c \in Conns, CreateReclaim(c)
  PROVE  SeatInv'
<1> DEFINE a == conn[c].handle
           m == conn[c].request
           s == [rooms[a] EXCEPT !.closing = TRUE]
           rms == [rooms EXCEPT ![a] = s]
           reg == [registry EXCEPT ![m.session_id] = None]
           quota == Release(rooms_per_ip, rooms[a].owner_ip_key)
<1>1. conn[c].pc \in CreateSteps /\ conn[c].pc # "leave"
  BY Zenon DEF CreateReclaim, CreateSteps
<1>2. /\ a \in Handles /\ rooms[a] # None /\ rooms[a] \in Rooms /\ RoomOK(rooms[a])
      /\ m \in Requests
  BY Zenon, <1>1 DEF Basics, RequestKnown
<1>3. m.token \in Tokens
  BY Zenon, <1>1 DEF IndInv, ConnsOK, ConnOK
<1>4. conn \in [Conns -> ConnStates] /\ rooms \in [Handles -> Rooms \cup {None}]
  BY Zenon DEF IndInv, ConnsOK, RoomTableOK
<1>5. /\ OpenRoom(c, m, rms, reg, quota, conn) /\ sweep' = sweep
  <2>1. [rooms EXCEPT ![a].closing = TRUE] = rms
    BY Zenon, <1>2 DEF IndInv, RoomTableOK
  <2> QED
    BY Zenon, <2>1 DEF CreateReclaim
<1> HIDE DEF a, m
<1>6. /\ RoomOK(s) /\ KeepsEntries(rooms[a], s) /\ MarksKept(rooms[a], s)
      /\ s.closing /\ s \in Rooms /\ s # None
  BY ZenonT(40), <1>2, ClosingOK, ClosingMarks, RelayConstants DEF Rooms
<1> HIDE DEF s, reg, quota
<1>7. /\ rms \in [Handles -> Rooms \cup {None}] /\ rms[a] = s
      /\ \A b \in Handles : b # a => rms[b] = rooms[b]
  BY Zenon, <1>2, <1>4, <1>6
<1> HIDE DEF rms
<1>8. \A b \in Handles : KeepsEntries(rooms[b], rooms[b]) /\ MarksKept(rooms[b], rooms[b])
  BY Zenon DEF KeepsEntries, MarksKept
<1>9. TableKept(rms)
  BY Zenon, <1>2, <1>6, <1>7, <1>8 DEF TableKept
<1> QED
  BY Zenon, <1>1, <1>2, <1>3, <1>4, <1>5, <1>9, OpenRoomSeats

\* A step from, into or within the leave of c from room a.
LEMMA LeaveStep ==
  ASSUME IndInv, Basics, SeatInv, NEW c \in Conns, NEW a, conn[c].seat.room = a,
         conn'[c].pc = "leave" => conn'[c].seat = conn[c].seat,
         SeatsStep({c}), SeatOK(c, conn'[c], rooms', sweep'), Unseated(conn'[c]),
         \A b \in Handles : rooms[b] # None /\ b # a => MarksKept(rooms[b], rooms'[b]),
         LeavesOK(a, rooms'[a], conn')
  PROVE  SeatInv'
<1>1. SeatsInv'
  BY Zenon, SeatsAfter DEF SeatInv
<1>2. ASSUME NEW b \in Handles, rooms'[b] # None PROVE LeavesOK(b, rooms'[b], conn')
  <2>1. CASE b = a
    BY Zenon, <2>1
  <2>2. CASE b # a
    <3>1. \A d \in {c} : ~Leaver(conn[d], b) /\ ~Leaver(conn'[d], b)
      BY Zenon, <2>2 DEF Leaver
    <3>2. rooms[b] # None => MarksKept(rooms[b], rooms'[b])
      BY Zenon, <2>2
    <3> DEFINE M == {c}
    <3>3. SeatsStep(M) /\ \A d \in M : ~Leaver(conn[d], b) /\ ~Leaver(conn'[d], b)
      BY Zenon, <3>1
    <3> HIDE DEF M
    <3> QED
      BY Zenon, <1>2, <3>2, <3>3, LeavesAfter DEF SeatInv
  <2> QED
    BY Zenon, <2>1, <2>2
<1> QED
  BY Zenon, <1>1, <1>2 DEF SeatInv, LeavesInv

\* begin_leave marks the caller's own reservation, on the caller's own entry.
LEMMA LeaveBeginSeats ==
  ASSUME IndInv, Basics, SeatInv, NEW c \in Conns, NEW token, NEW version_ok,
         LeaveBegin(c, token, version_ok)
  PROVE  SeatInv'
<1> DEFINE seat == conn[c].seat
           a == seat.room
           p == seat.peer_id
           r == rooms[a]
           s == BeginLeave(r, p)
           cs == Goto(conn[c], "leave")
<1>1. seat # None /\ conn[c].pc = "idle"
  BY Zenon DEF LeaveBegin, InRoom
<1>2. /\ conn[c] \in ConnStates /\ seat \in Seats /\ a \in Handles /\ p \in PeerIds
      /\ r # None /\ r \in Rooms /\ RoomOK(r)
  BY Zenon, <1>1 DEF Basics, SeatKnown
<1>3. r.reservations[p] # None /\ ~r.closing /\ IsCurrent(r, p, seat.conn_id)
  BY Zenon DEF LeaveBegin, MayBeginLeave
<1>4. RoomOK(s) /\ SameRoom(r, s) /\ KeepsEntries(r, s) /\ Pending(s) = Pending(r) \cup {p}
  BY Zenon, <1>2, <1>3, BeginLeaveOK, BeginLeaveSame, BeginLeaveMarks
<1>5. conn \in [Conns -> ConnStates] /\ rooms \in [Handles -> Rooms \cup {None}]
  BY Zenon DEF IndInv, ConnsOK, RoomTableOK
<1>6. /\ rooms' = [rooms EXCEPT ![a] = s] /\ conn' = [conn EXCEPT ![c] = cs]
      /\ sweep' = sweep
  BY Zenon, <1>5 DEF LeaveBegin
<1>7. /\ cs \in ConnStates /\ cs.pc = "leave" /\ cs.seat = seat
      /\ cs.cancelled = conn[c].cancelled
  BY Zenon, <1>2 DEF Goto, ConnStates, ConnSteps
<1>8. seat = Seat(a, p, seat.conn_id)
  BY Zenon, <1>2 DEF Seat, Seats
<1> HIDE DEF s, cs
<1>9. conn'[c] = cs /\ OthersStay({c}) /\ \A d \in Conns \ {c} : conn'[d] = conn[d]
  BY Zenon, <1>5, <1>6, OthersFollow DEF OthersStay
<1>10. LosersTold({c}, a, s) /\ EntriesEvolve(r, s)
  BY Zenon, <1>2, <1>4, NobodyLoses
<1>11. /\ SeatsStep({c}) /\ rooms'[a] = s
       /\ \A b \in Handles : rooms[b] # None /\ b # a => MarksKept(rooms[b], rooms'[b])
  BY ZenonT(40), <1>2, <1>4, <1>6, <1>9, <1>10, SameList, MethodSeats DEF SeatInv
<1>12. SeatOK(c, cs, rooms', sweep')
  <2>1. Covered(c, conn[c], cs, rooms, rooms', sweep, sweep')
    BY Zenon, <1>4, <1>6, <1>7, <1>11 DEF Covered, KeepsEntries
  <2>2. SeatOK(c, conn[c], rooms, sweep) /\ EntriesEvolve(rooms[a], rooms'[a])
    BY Zenon, <1>10, <1>11 DEF SeatInv, SeatsInv
  <2> QED
    BY Zenon, <1>2, <1>7, <2>1, <2>2, SeatEvolves
<1>13. LeavesOK(a, s, conn')
  <2>1. LeavesOK(a, r, conn)
    BY Zenon, <1>2 DEF SeatInv, LeavesInv
  <2>2. s.peers = r.peers
    BY Zenon, <1>4 DEF KeepsEntries
  <2>3. ASSUME NEW d \in Conns, Leaver(conn'[d], a)
        PROVE  /\ conn'[d].seat.peer_id \in Pending(s)
               /\ IsCurrent(s, conn'[d].seat.peer_id, conn'[d].seat.conn_id)
    <3>1. CASE d = c
      BY Zenon, <1>3, <1>4, <1>7, <1>9, <2>2, <3>1 DEF IsCurrent
    <3>2. CASE d # c
      <4>1. conn'[d] = conn[d] /\ Leaver(conn[d], a)
        BY Zenon, <1>9, <2>3, <3>2
      <4>2. /\ conn[d].seat.peer_id \in Pending(r)
            /\ IsCurrent(r, conn[d].seat.peer_id, conn[d].seat.conn_id)
        BY Zenon, <1>3, <2>1, <4>1 DEF LeavesOK
      <4> QED
        BY Zenon, <1>4, <2>2, <4>1, <4>2 DEF IsCurrent
    <3> QED
      BY Zenon, <3>1, <3>2
  <2>4. ASSUME NEW q \in Pending(s)
        PROVE  /\ s.peers[q] # None
               /\ \E d \in Conns : /\ conn'[d].pc = "leave"
                                   /\ conn'[d].seat = Seat(a, q, s.peers[q].conn_id)
    <3>1. CASE q = p
      <4>1. s.peers[p] # None /\ s.peers[p].conn_id = seat.conn_id
        BY Zenon, <1>3, <2>2 DEF IsCurrent
      <4>2. conn'[c].pc = "leave" /\ conn'[c].seat = Seat(a, p, s.peers[p].conn_id)
        BY Zenon, <1>7, <1>8, <1>9, <4>1
      <4> QED
        BY Zenon, <3>1, <4>1, <4>2
    <3>2. CASE q # p
      <4>1. q \in Pending(r)
        BY Zenon, <1>4, <2>4, <3>2
      <4>2. r.peers[q] # None
        BY Zenon, <1>3, <2>1, <4>1 DEF LeavesOK
      <4>3. PICK d \in Conns : /\ conn[d].pc = "leave"
                               /\ conn[d].seat = Seat(a, q, r.peers[q].conn_id)
        BY Zenon, <1>3, <2>1, <4>1 DEF LeavesOK
      <4>4. d # c
        BY Zenon, <1>1, <4>3
      <4> QED
        BY Zenon, <1>9, <2>2, <4>2, <4>3, <4>4
    <3> QED
      BY Zenon, <3>1, <3>2
  <2> QED
    BY Zenon, <2>3, <2>4 DEF LeavesOK
<1>14. Unseated(cs)
  BY Zenon, <1>7 DEF Unseated, CreateSteps
<1> QED
  BY Zenon, <1>7, <1>9, <1>11, <1>12, <1>13, <1>14, LeaveStep

\* finish_leave commits or rolls back the caller's own leave and nobody
\* else's; it does nothing only when the room is closing.
LEMMA LeaveFinishSeats ==
  ASSUME IndInv, Basics, SeatInv, NEW c \in Conns, NEW persisted \in BOOLEAN,
         LeaveFinish(c, persisted)
  PROVE  SeatInv'
<1> DEFINE seat == conn[c].seat
           a == seat.room
           p == seat.peer_id
           k == seat.conn_id
           r == rooms[a]
           res == FinishLeave(r, p, k, persisted, now)
           s == res.room
           next == IF Failed(res.eff) THEN seat ELSE None
           cs == Resume(conn[c], next)
<1>1. seat # None /\ conn[c].pc = "leave" /\ now \in Nat
  BY Zenon DEF LeaveFinish, IndInv, ConnsOK, ConnOK, EndSteps
<1>2. /\ conn[c] \in ConnStates /\ seat \in Seats /\ a \in Handles /\ p \in PeerIds
      /\ r # None /\ r \in Rooms /\ RoomOK(r)
  BY Zenon, <1>1 DEF Basics, SeatKnown
<1>3. RoomOK(s) /\ SameRoom(r, s)
  BY Zenon, <1>1, <1>2, FinishLeaveOK, FinishLeaveSame
<1>4. \/ ~StillOwns(r, p, k) /\ s = r
      \/ /\ StillOwns(r, p, k) /\ Pending(s) = Pending(r) \ {p}
         /\ KeepsEntries(r, s) \/ (Drops(r, s, p) /\ ~Failed(res.eff))
  <2>1. LeaveSettles(r, p, k, res)
    BY Zenon, <1>1, <1>2, FinishLeaveMarks
  <2> QED BY Zenon, <2>1 DEF LeaveSettles
<1>5. conn \in [Conns -> ConnStates] /\ rooms \in [Handles -> Rooms \cup {None}]
  BY Zenon DEF IndInv, ConnsOK, RoomTableOK
<1>6. /\ rooms' = [rooms EXCEPT ![a] = s] /\ conn' = [conn EXCEPT ![c] = cs]
      /\ sweep' = sweep
  BY Zenon, <1>5 DEF LeaveFinish
<1>7. /\ cs.pc = "idle" /\ cs.seat = next
      /\ next # None => cs.cancelled = conn[c].cancelled
  BY Zenon, <1>2 DEF Resume, ConnStates
<1>8. next = None \/ (next = seat /\ Failed(res.eff))
  BY Zenon
<1> HIDE DEF res, cs, next
<1>9. conn'[c] = cs /\ OthersStay({c}) /\ \A d \in Conns \ {c} : conn'[d] = conn[d]
  BY Zenon, <1>5, <1>6, OthersFollow DEF OthersStay
<1> HIDE DEF s
<1>10. \/ s.peers = r.peers /\ s.next_conn_id = r.next_conn_id
       \/ Drops(r, s, p) /\ IsCurrent(r, p, k) /\ next = None
  BY Zenon, <1>4, <1>8 DEF KeepsEntries, StillOwns
<1>11. LosersTold({c}, a, s) /\ EntriesEvolve(r, s)
  <2>1. CASE s.peers = r.peers /\ s.next_conn_id = r.next_conn_id
    BY Zenon, <1>2, <2>1, NobodyLoses DEF KeepsEntries
  <2>2. CASE Drops(r, s, p) /\ IsCurrent(r, p, k)
    BY Zenon, <1>1, <1>2, <2>2, DropOwn
  <2> QED
    BY Zenon, <1>10, <2>1, <2>2
<1>12. /\ SeatsStep({c}) /\ rooms'[a] = s
       /\ \A b \in Handles : rooms[b] # None /\ b # a => MarksKept(rooms[b], rooms'[b])
  BY ZenonT(40), <1>2, <1>3, <1>6, <1>9, <1>11, SameList, MethodSeats DEF SeatInv
<1>13. SeatOK(c, cs, rooms', sweep')
  <2>1. CASE next = None
    BY Zenon, <1>7, <2>1, NoSeat
  <2>2. CASE next # None
    <3>1. s.peers = r.peers /\ cs.seat = seat /\ cs.cancelled = conn[c].cancelled
      BY Zenon, <1>7, <1>8, <1>10, <2>2
    <3>2. Covered(c, conn[c], cs, rooms, rooms', sweep, sweep')
      BY Zenon, <1>6, <1>12, <3>1 DEF Covered
    <3>3. SeatOK(c, conn[c], rooms, sweep) /\ EntriesEvolve(rooms[a], rooms'[a])
      BY Zenon, <1>11, <1>12 DEF SeatInv, SeatsInv
    <3> QED
      BY ZenonT(30), <1>2, <3>1, <3>2, <3>3, SeatEvolves
  <2> QED
    BY Zenon, <2>1, <2>2
<1>14. LeavesOK(a, s, conn')
  <2> SUFFICES ASSUME ~s.closing PROVE LeavesOK(a, s, conn')
    BY ZenonT(30) DEF LeavesOK
  <2>1. ~r.closing /\ LeavesOK(a, r, conn)
    BY Zenon, <1>2, <1>3 DEF SameRoom, SeatInv, LeavesInv
  <2>2. StillOwns(r, p, k) /\ IsCurrent(r, p, k)
    <3>1. p \in Pending(r) /\ IsCurrent(r, p, k)
      BY Zenon, <1>1, <2>1 DEF LeavesOK, Leaver
    <3> QED
      BY Zenon, <3>1 DEF StillOwns, Pending, Reserved
  <2>3. Pending(s) = Pending(r) \ {p}
    BY Zenon, <1>4, <2>2
  <2>4. \A q \in PeerIds \ {p} : s.peers[q] = r.peers[q]
    BY Zenon, <1>2, <1>10 DEF Drops, Rooms
  <2>5. Pending(r) \subseteq PeerIds
    BY Zenon DEF Pending, Reserved
  <2>6. ASSUME NEW d \in Conns, Leaver(conn'[d], a)
        PROVE  /\ conn'[d].seat.peer_id \in Pending(s)
               /\ IsCurrent(s, conn'[d].seat.peer_id, conn'[d].seat.conn_id)
    <3>1. d # c
      BY Zenon, <1>7, <1>9, <2>6 DEF Leaver
    <3>2. conn'[d] = conn[d] /\ Leaver(conn[d], a)
      BY Zenon, <1>9, <2>6, <3>1
    <3>3. /\ conn[d].seat.peer_id \in Pending(r)
          /\ IsCurrent(r, conn[d].seat.peer_id, conn[d].seat.conn_id)
      BY Zenon, <2>1, <3>2 DEF LeavesOK
    <3>4. conn[d].seat.peer_id # p
      <4> SUFFICES ASSUME conn[d].seat.peer_id = p PROVE FALSE
        BY Zenon
      <4>1. conn[d].seat.conn_id = k /\ conn[d].seat.room = a
        BY Zenon, <2>2, <3>2, <3>3 DEF IsCurrent, Leaver
      <4>2. conn[d].seat # None
        BY Zenon, <3>2 DEF Leaver, IndInv, ConnsOK, ConnOK
      <4>3. c = d
        BY Zenon, <1>1, <1>2, <2>2, <4>1, <4>2, OwnEntry
      <4> QED
        BY Zenon, <3>1, <4>3
    <3> QED
      BY Zenon, <2>3, <2>4, <2>5, <3>2, <3>3, <3>4 DEF IsCurrent
  <2>7. ASSUME NEW q \in Pending(s)
        PROVE  /\ s.peers[q] # None
               /\ \E d \in Conns : /\ conn'[d].pc = "leave"
                                   /\ conn'[d].seat = Seat(a, q, s.peers[q].conn_id)
    <3>1. q \in Pending(r) /\ q # p /\ s.peers[q] = r.peers[q]
      BY Zenon, <2>3, <2>4, <2>5, <2>7
    <3>2. r.peers[q] # None
      BY Zenon, <2>1, <3>1 DEF LeavesOK
    <3>3. PICK d \in Conns : /\ conn[d].pc = "leave"
                             /\ conn[d].seat = Seat(a, q, r.peers[q].conn_id)
      BY Zenon, <2>1, <3>1 DEF LeavesOK
    <3>4. d # c
      BY SMTT(30), <3>1, <3>3 DEF Seat
    <3> QED
      BY Zenon, <1>9, <3>1, <3>2, <3>3, <3>4
  <2> QED
    BY Zenon, <2>6, <2>7 DEF LeavesOK
<1>15. Unseated(cs) /\ cs.pc # "leave"
  BY Zenon, <1>7 DEF Unseated, CreateSteps
<1> QED
  BY Zenon, <1>9, <1>12, <1>13, <1>14, <1>15, LeaveStep

\* Every step keeps seats and leaves.
LEMMA NextSeats ==
  ASSUME IndInv, Basics, SeatInv, Next
  PROVE  SeatInv'
<1>1. CASE SweepStep
  BY Zenon, <1>1, SweepQuietSeats, SweepVisitSeats DEF SweepStep
<1>2. CASE Tick
  BY Zenon, <1>2, NobodySeats DEF Tick
<1>3. ASSUME NEW c \in Conns, HandlerStep(c) PROVE SeatInv'
  BY Zenon, <1>3, CreateReconnectSeats, CreateCheckSeats, CreateReclaimSeats,
     JoinEnterSeats, LeaveFinishSeats, EndFinishSeats, EndGoesOnSeats DEF HandlerStep
<1>4. ASSUME NEW c \in Conns, ClientStep(c) PROVE SeatInv'
  <2>1. ASSUME CallBroadcast(c) PROVE SeatInv'
    <3>1. \E target : target \in PeerIds
      <4>1. conn[c].seat # None
        BY Zenon, <2>1 DEF CallBroadcast, Call, InRoom
      <4> QED
        BY Zenon, <4>1 DEF Basics, SeatKnown
    <3> QED
      BY Zenon, <2>1, <3>1, TrafficSeats
  <2> QED
    BY Zenon, <1>4, <2>1, CreateNewSeats, CreateExistingSeats, JoinLookupSeats,
       LeaveBeginSeats, EndBeginSeats, EndRefusedSeats, TransferHostSeats, TrafficSeats,
       CloseSeats DEF ClientStep, SocketClosed
<1>5. ASSUME NEW c \in Conns, Evicted(c) PROVE SeatInv'
  BY Zenon, <1>5, CloseSeats DEF Evicted
<1> QED
  BY Zenon, <1>1, <1>2, <1>3, <1>4, <1>5 DEF Next
-----------------------------------------------------------------------------
(* Every step, on seats and leaves *)

\* Nobody has a seat in the empty server.
LEMMA SeatsInit == Init => SeatInv
<1> SUFFICES ASSUME Init PROVE SeatInv
  BY Zenon
<1>1. \A c \in Conns : conn[c] = Fresh
  BY Zenon DEF Init
<1>2. Fresh.seat = None /\ SweepIdle.evict = {}
  BY Zenon DEF Fresh, SweepIdle
<1>3. SeatsInv
  BY Zenon, <1>1, <1>2, NoSeat DEF Init, SeatsInv
<1>4. LeavesInv
  BY Zenon DEF Init, LeavesInv
<1> QED
  BY Zenon, <1>3, <1>4 DEF SeatInv

\* Seats and leaves are inductive, on top of IndInv.
LEMMA SeatsNext == IndInv /\ Basics /\ SeatInv /\ [Next]_vars => SeatInv'
<1> SUFFICES ASSUME IndInv, Basics, SeatInv, [Next]_vars PROVE SeatInv'
  BY Zenon
<1>1. CASE UNCHANGED vars
  BY Zenon, <1>1, NobodySeats DEF vars
<1> QED
  BY Zenon, <1>1, NextSeats

\* A seat of the invariant is held, or its connection cancelled or on the list.
LEMMA SeatsAccounted == IndInv /\ SeatInv => SeatLostIsCancelled
BY Zenon DEF SeatInv, SeatsInv, SeatOK, Doomed, SeatLostIsCancelled, HoldsSeat, EvictionPending

\* What the invariant says of a pending leave in an open room.
LEMMA LeavesGuarded == IndInv /\ SeatInv => PendingLeaveProtected
<1> SUFFICES ASSUME IndInv, SeatInv, NEW a \in Handles, Open(a)
             PROVE  /\ \A c \in Conns : Leaver(conn[c], a) =>
                         /\ StillOwns(rooms[a], conn[c].seat.peer_id, conn[c].seat.conn_id)
                         /\ conn[c].seat.peer_id # rooms[a].host_peer_id
                    /\ \A p \in Pending(rooms[a]) :
                         /\ rooms[a].peers[p] # None
                         /\ \E c \in Conns :
                              /\ conn[c].pc = "leave"
                              /\ conn[c].seat = Seat(a, p, rooms[a].peers[p].conn_id)
  BY Zenon DEF PendingLeaveProtected, Leaver, Pending
<1>1. /\ LeavesOK(a, rooms[a], conn) /\ ~rooms[a].closing
      /\ rooms[a].host_peer_id \notin Reserved(rooms[a])
  BY Zenon DEF Open, SeatInv, LeavesInv, IndInv, RoomTableOK, RoomOK, RosterOK
<1> QED
  BY Zenon, <1>1 DEF LeavesOK, StillOwns, Pending, Reserved
=============================================================================
