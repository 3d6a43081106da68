---------------------------- MODULE RelayProofs -----------------------------
(***************************************************************************)
(* The relay keeps its types and the coherence of its registry, for any    *)
(* number of connections, rooms, sessions and addresses.  The last part    *)
(* says of each step whom it moves, which rooms it closes and whose claims *)
(* it may add.                                                             *)
(***************************************************************************)
EXTENDS RelayInvariants, RoomStateProofs

-----------------------------------------------------------------------------
(* The room table *)

\* A method of one room keeps the table and the registry coherent.
LEMMA UpdateRoom ==
  ASSUME NEW rms, NEW reg, RoomTableOK(rms), RegistryOK(rms, reg),
         NEW a \in Handles, rms[a] # None,
         NEW s, RoomOK(s), SameRoom(rms[a], s)
  PROVE  LET rms2 == [rms EXCEPT ![a] = s]
         IN  RoomTableOK(rms2) /\ RegistryOK(rms2, reg) /\ Evolves(rms, rms2)
<1> DEFINE rms2 == [rms EXCEPT ![a] = s]
<1>1. s \in Rooms /\ s # None /\ RoomOK(s)
  BY Zenon, RelayConstants DEF RoomOK
<1>2. rms2 \in [Handles -> Rooms \cup {None}]
  BY Zenon, <1>1 DEF RoomTableOK
<1>3. \A b \in Handles : rms2[b] = IF b = a THEN s ELSE rms[b]
  BY Zenon DEF RoomTableOK
<1>4. \A b \in Handles : rms[b] # None => rms[b] \in Rooms
  BY Zenon DEF RoomTableOK
<1> HIDE DEF rms2
<1>5. RoomTableOK(rms2)
  BY Zenon, <1>1, <1>2, <1>3 DEF RoomTableOK
<1>6. Evolves(rms, rms2)
  BY Zenon, <1>1, <1>3 DEF Evolves, SameRoom, Turnover
<1>7. RegistryOK(rms2, reg)
  <2>1. \A x \in Sessions : reg[x] # None => rms2[reg[x]] # None /\ rms2[reg[x]].session_id = x
    BY <1>1, <1>3 DEF RegistryOK, SameRoom
  <2>2. \A b \in Handles : rms2[b] # None /\ ~rms2[b].closing => reg[rms2[b].session_id] = b
    BY <1>1, <1>3 DEF RegistryOK, SameRoom
  <2> QED
    BY Zenon, <2>1, <2>2 DEF RegistryOK
<1> QED
  BY Zenon, <1>5, <1>6, <1>7 DEF rms2

\* A suspended handler is not disturbed by what others do to the rooms.
LEMMA ConnEvolves ==
  ASSUME NEW rms, NEW rms2, NEW reg, NEW reg2, NEW cs \in ConnStates,
         ConnOK(cs, rms, reg), Evolves(rms, rms2),
         cs.pc \in CreateSteps => reg2 = reg
  PROVE  ConnOK(cs, rms2, reg2)
<1>1. cs.seat # None => cs.seat.room \in Handles
  BY Zenon DEF ConnStates, Seats
<1>2. cs.pc \in CreateSteps \cup {"join"} => cs.handle \in Handles /\ rms2[cs.handle] # None
  BY Zenon DEF ConnOK, Evolves
<1>3. cs.seat # None => rms2[cs.seat.room] # None
  BY Zenon, <1>1 DEF ConnOK, Evolves
<1>4. cs.pc \in EndSteps => rms2[cs.seat.room].closing
  <2> SUFFICES ASSUME cs.pc \in EndSteps PROVE rms2[cs.seat.room].closing
    BY Zenon
  <2>1. cs.seat # None /\ rms[cs.seat.room] # None /\ rms[cs.seat.room].closing
    BY Zenon DEF ConnOK
  <2>2. cs.seat.room \in Handles
    BY Zenon, <1>1, <2>1
  <2> QED
    BY Zenon, <2>1, <2>2 DEF Evolves, SameRoom
<1> QED
  BY Zenon, <1>2, <1>3, <1>4 DEF ConnOK

\* Nor is the cleanup task.
LEMMA SweepEvolves ==
  ASSUME NEW rms, NEW rms2, NEW sw, SweepOK(sw, rms), Evolves(rms, rms2)
  PROVE  SweepOK(sw, rms2)
<1>1. \A a \in sw.todo : a \in Handles
  BY Zenon DEF SweepOK, SweepStates
<1> QED
  BY Zenon, <1>1 DEF SweepOK, Evolves, SameRoom

\* A step that leaves the rooms alone.
LEMMA NothingEvolves ==
  ASSUME NEW rms
  PROVE  Evolves(rms, rms)
BY Zenon DEF Evolves, SameRoom, Turnover
-----------------------------------------------------------------------------
(* The connections *)

\* A handler that returns to its read loop relies on its seat only.
LEMMA ResumeOK ==
  ASSUME NEW cs \in ConnStates, NEW seat \in Seats \cup {None}, NEW rms, NEW reg,
         seat # None => rms[seat.room] # None
  PROVE  LET r == Resume(cs, seat)
         IN  r \in ConnStates /\ ConnOK(r, rms, reg) /\ r.pc = "idle"
<1> DEFINE r == Resume(cs, seat)
<1>1. r \in ConnStates /\ r.pc = "idle" /\ r.seat = seat
  BY Zenon DEF Resume, ConnStates, ConnSteps
<1> HIDE DEF r
<1> QED
  BY Zenon, <1>1 DEF ConnOK, CreateSteps, EndSteps, r

\* A handler that goes on to its next await keeps its locals.
LEMMA GotoType ==
  ASSUME NEW cs \in ConnStates, NEW pc \in ConnSteps
  PROVE  LET g == Goto(cs, pc)
         IN  /\ g \in ConnStates /\ g.pc = pc /\ g.seat = cs.seat
             /\ g.request = cs.request /\ g.handle = cs.handle
BY Zenon DEF Goto, ConnStates

\* One connection moves on; the others keep what they rely on, because the
\* registry changes only when none of them is inside create.
LEMMA MoveConn ==
  ASSUME NEW conns, NEW rms, NEW rms2, NEW reg, NEW reg2,
         ConnsOK(conns, rms, reg), Evolves(rms, rms2),
         NEW c \in Conns, NEW cs \in ConnStates, ConnOK(cs, rms2, reg2),
         \A d \in Conns \ {c} : conns[d].pc \in CreateSteps => reg2 = reg,
         cs.pc \in CreateSteps => \A d \in Conns \ {c} : conns[d].pc \notin CreateSteps
  PROVE  ConnsOK([conns EXCEPT ![c] = cs], rms2, reg2)
<1> DEFINE new == [conns EXCEPT ![c] = cs]
<1>1. conns \in [Conns -> ConnStates]
  BY Zenon DEF ConnsOK
<1>2. /\ new \in [Conns -> ConnStates] /\ new[c] = cs
      /\ \A d \in Conns \ {c} : new[d] = conns[d]
  BY Zenon, <1>1
<1> HIDE DEF new
<1>3. \A d \in Conns : ConnOK(new[d], rms2, reg2)
  <2> TAKE d \in Conns
  <2>1. CASE d = c
    BY Zenon, <1>2, <2>1
  <2>2. CASE d # c
    <3>1. conns[d] \in ConnStates /\ ConnOK(conns[d], rms, reg)
      BY Zenon, <1>1 DEF ConnsOK
    <3>2. conns[d].pc \in CreateSteps => reg2 = reg
      BY <2>2
    <3>3. ConnOK(conns[d], rms2, reg2)
      BY Zenon, <3>1, <3>2, ConnEvolves
    <3> QED
      BY Zenon, <1>2, <2>2, <3>3
  <2> QED
    BY Zenon, <2>1, <2>2
<1>4. Exclusive(new)
  BY Zenon, <1>2 DEF ConnsOK, Exclusive
<1> QED
  BY Zenon, <1>2, <1>3, <1>4 DEF ConnsOK, new

\* Connections that do not move keep what they rely on.
LEMMA KeepConns ==
  ASSUME NEW conns, NEW rms, NEW rms2, NEW reg, ConnsOK(conns, rms, reg),
         Evolves(rms, rms2)
  PROVE  ConnsOK(conns, rms2, reg)
<1>1. \A c \in Conns : ConnOK(conns[c], rms2, reg)
  BY Zenon, ConnEvolves DEF ConnsOK
<1> QED
  BY Zenon, <1>1 DEF ConnsOK

\* Cancelling tokens changes nothing a handler relies on.
LEMMA CancelOK ==
  ASSUME NEW conns, NEW rms, NEW reg, ConnsOK(conns, rms, reg), NEW a, NEW evict
  PROVE  ConnsOK(Cancel(conns, a, evict), rms, reg)
<1> DEFINE new == Cancel(conns, a, evict)
<1>1. conns \in [Conns -> ConnStates]
  BY Zenon DEF ConnsOK
<1>2. \A c \in Conns : new[c] = conns[c] \/ new[c] = [conns[c] EXCEPT !.cancelled = TRUE]
  BY Zenon DEF Cancel
<1>3. \A c \in Conns :
        /\ new[c] \in ConnStates
        /\ new[c].pc = conns[c].pc /\ new[c].seat = conns[c].seat
        /\ new[c].request = conns[c].request /\ new[c].handle = conns[c].handle
  BY ZenonT(60), <1>1, <1>2 DEF ConnStates
<1>4. new \in [Conns -> ConnStates]
  BY Zenon, <1>3 DEF Cancel
<1> HIDE DEF new
<1>5. \A c \in Conns : ConnOK(new[c], rms, reg)
  BY ZenonT(40), <1>3 DEF ConnsOK, ConnOK
<1>6. Exclusive(new)
  BY Zenon, <1>3 DEF ConnsOK, Exclusive
<1> QED
  BY Zenon, <1>4, <1>5, <1>6 DEF ConnsOK, new

\* release_room_quota never takes a count below zero.
LEMMA ReleaseType ==
  ASSUME NEW quota \in [Ips -> Nat], NEW ip \in Ips
  PROVE  Release(quota, ip) \in [Ips -> Nat]
<1> DEFINE k == IF quota[ip] > 0 THEN quota[ip] - 1 ELSE quota[ip]
<1>1. k \in Nat
  OBVIOUS
<1>2. Release(quota, ip) = [quota EXCEPT ![ip] = k]
  BY Zenon DEF Release
<1> HIDE DEF k
<1> QED
  BY Zenon, <1>1, <1>2

\* The Admission handle_message builds from a request.
LEMMA AdmissionType ==
  ASSUME NEW c \in Conns, NEW meta \in Metas
  PROVE  Admission(c, meta) \in Admissions
BY Zenon, RelayConstants DEF Admission, Admissions

\* What a step may use of a connection that sits in a room.
LEMMA SeatFacts ==
  ASSUME IndInv, NEW c \in Conns, conn[c].seat # None
  PROVE  /\ conn[c] \in ConnStates
         /\ conn[c].seat \in Seats
         /\ conn[c].seat.room \in Handles
         /\ conn[c].seat.peer_id \in PeerIds
         /\ conn[c].seat.conn_id \in Nat
         /\ rooms[conn[c].seat.room] # None
         /\ rooms[conn[c].seat.room] \in Rooms
         /\ RoomOK(rooms[conn[c].seat.room])
<1>1. conn[c] \in ConnStates /\ ConnOK(conn[c], rooms, registry)
  BY Zenon DEF IndInv, ConnsOK
<1>2. conn[c].seat \in Seats
  BY Zenon, <1>1 DEF ConnStates
<1>3. /\ conn[c].seat.room \in Handles /\ conn[c].seat.peer_id \in PeerIds
      /\ conn[c].seat.conn_id \in Nat
  BY Zenon, <1>2 DEF Seats
<1>4. rooms[conn[c].seat.room] # None
  BY Zenon, <1>1 DEF ConnOK
<1>5. rooms[conn[c].seat.room] \in Rooms
  BY Zenon, <1>3, <1>4 DEF IndInv, RoomTableOK
<1>6. RoomOK(rooms[conn[c].seat.room])
  BY Zenon, <1>3, <1>4 DEF IndInv, RoomTableOK
<1> QED
  BY Zenon, <1>1, <1>2, <1>3, <1>4, <1>5, <1>6

\* What a step may use of a handler suspended in create, join or resume.
LEMMA RequestFacts ==
  ASSUME IndInv, NEW c \in Conns, conn[c].pc \in CreateSteps \cup {"join"}
  PROVE  /\ conn[c] \in ConnStates
         /\ conn[c].request \in Requests
         /\ conn[c].request.session_id \in Sessions
         /\ conn[c].request.peer_id \in PeerIds
         /\ conn[c].request.meta \in Metas
         /\ conn[c].handle \in Handles
         /\ rooms[conn[c].handle] # None
         /\ rooms[conn[c].handle] \in Rooms
         /\ RoomOK(rooms[conn[c].handle])
<1>1. conn[c] \in ConnStates /\ ConnOK(conn[c], rooms, registry)
  BY Zenon DEF IndInv, ConnsOK
<1>2. /\ conn[c].request \in Requests
      /\ conn[c].handle \in Handles /\ rooms[conn[c].handle] # None
  BY Zenon, <1>1 DEF ConnOK
<1>3. /\ conn[c].request.session_id \in Sessions /\ conn[c].request.peer_id \in PeerIds
      /\ conn[c].request.meta \in Metas
  BY Zenon, <1>2 DEF Requests
<1>4. rooms[conn[c].handle] \in Rooms /\ RoomOK(rooms[conn[c].handle])
  BY Zenon, <1>2 DEF IndInv, RoomTableOK
<1> QED
  BY Zenon, <1>1, <1>2, <1>3, <1>4

\* A handler that moves between other awaits.
LEMMA MoveReleases ==
  ASSUME NEW conns \in [Conns -> ConnStates], NEW c \in Conns, NEW cs,
         conns[c].pc # "end_release", cs.pc # "end_release"
  PROVE  SameReleases(conns, [conns EXCEPT ![c] = cs])
BY Zenon DEF SameReleases

\* Cancelling tokens moves no handler.
LEMMA CancelReleases ==
  ASSUME NEW conns, NEW conns2 \in [Conns -> ConnStates], SameReleases(conns, conns2),
         NEW a, NEW evict
  PROVE  SameReleases(conns, Cancel(conns2, a, evict))
<1> DEFINE new == Cancel(conns2, a, evict)
<1>1. \A c \in Conns : new[c] = conns2[c] \/ new[c] = [conns2[c] EXCEPT !.cancelled = TRUE]
  BY Zenon DEF Cancel
<1>2. \A c \in Conns : new[c].pc = conns2[c].pc /\ new[c].seat = conns2[c].seat
  BY ZenonT(40), <1>1 DEF ConnStates
<1> HIDE DEF new
<1> QED
  BY Zenon, <1>2 DEF SameReleases, new
-----------------------------------------------------------------------------
(* The steps *)

\* A step that applies a method to one room and leaves the registry, the quota
\* and the cleanup task alone.
LEMMA RoomMethodStep ==
  ASSUME IndInv, NEW a \in Handles, rooms[a] # None,
         NEW s, RoomOK(s), SameRoom(rooms[a], s), rooms' = [rooms EXCEPT ![a] = s],
         UNCHANGED <<registry, rooms_per_ip, sweep, now>>,
         ConnsOK(conn', [rooms EXCEPT ![a] = s], registry), SameReleases(conn, conn')
  PROVE  IndInv' /\ Quiet
<1> DEFINE rms2 == [rooms EXCEPT ![a] = s]
<1>1. RoomTableOK(rms2) /\ RegistryOK(rms2, registry) /\ Evolves(rooms, rms2)
  BY Zenon, UpdateRoom DEF IndInv
<1> HIDE DEF rms2
<1>2. SweepOK(sweep, rms2)
  BY Zenon, <1>1, SweepEvolves DEF IndInv
<1>3. rooms' = rms2 /\ ConnsOK(conn', rms2, registry)
  BY Zenon DEF rms2
<1>4. OpensNothing
  BY Zenon, <1>3 DEF OpensNothing, IndInv, RoomTableOK, rms2
<1> QED
  BY Zenon, <1>1, <1>2, <1>3, <1>4 DEF IndInv, Quiet

\* The same, when the connection c that made the call ends up in state cs.
LEMMA CallerStep ==
  ASSUME IndInv, NEW a \in Handles, rooms[a] # None,
         NEW s, RoomOK(s), SameRoom(rooms[a], s), rooms' = [rooms EXCEPT ![a] = s],
         UNCHANGED <<registry, rooms_per_ip, sweep, now>>,
         NEW c \in Conns, NEW cs \in ConnStates, cs.pc \notin CreateSteps,
         conn[c].pc # "end_release", cs.pc # "end_release",
         ConnOK(cs, [rooms EXCEPT ![a] = s], registry),
         NEW evict,
         \/ conn' = [conn EXCEPT ![c] = cs]
         \/ conn' = Cancel([conn EXCEPT ![c] = cs], a, evict)
  PROVE  IndInv' /\ Quiet
<1> DEFINE rms2 == [rooms EXCEPT ![a] = s]
           conns == [conn EXCEPT ![c] = cs]
<1>1. Evolves(rooms, rms2)
  BY Zenon, UpdateRoom DEF IndInv
<1>2. ConnOK(cs, rms2, registry)
  BY Zenon
<1> HIDE DEF rms2
<1>3. ConnsOK(conns, rms2, registry)
  BY Zenon, <1>1, <1>2, MoveConn DEF IndInv
<1>4. conn \in [Conns -> ConnStates] /\ conns \in [Conns -> ConnStates]
  BY Zenon, <1>3 DEF IndInv, ConnsOK
<1>5. SameReleases(conn, conns)
  BY Zenon, <1>4, MoveReleases
<1> HIDE DEF conns
<1>6. SameReleases(conn, Cancel(conns, a, evict))
  BY Zenon, <1>4, <1>5, CancelReleases
<1>7. SameReleases(conn, conn')
  BY Zenon, <1>5, <1>6 DEF conns
<1>8. ConnsOK(Cancel(conns, a, evict), rms2, registry)
  BY Zenon, <1>3, CancelOK
<1>9. ConnsOK(conn', rms2, registry)
  BY Zenon, <1>3, <1>8 DEF conns
<1> QED
  BY Zenon, <1>9, <1>7, RoomMethodStep DEF rms2

\* An admission attempt: the caller gets a seat in the room, or none.
LEMMA AdmissionStep ==
  ASSUME IndInv, NEW c \in Conns, conn[c].pc # "end_release", NEW a \in Handles, rooms[a] # None,
         NEW s, RoomOK(s), SameRoom(rooms[a], s), rooms' = [rooms EXCEPT ![a] = s],
         UNCHANGED <<registry, rooms_per_ip, sweep, now>>,
         NEW p \in PeerIds, NEW eff, eff.assigned_conn_id \in Nat \cup {None},
         conn' = AfterAdmission(c, a, p, eff)
  PROVE  IndInv' /\ Quiet
<1> DEFINE seat == IF eff.assigned_conn_id = None THEN None
                   ELSE Seat(a, p, eff.assigned_conn_id)
           cs == Resume(conn[c], seat)
           rms2 == [rooms EXCEPT ![a] = s]
<1>1. seat \in Seats \cup {None} /\ (seat # None => seat.room = a)
  BY Zenon DEF Seats, Seat
<1>2. rms2[a] # None
  BY Zenon, RelayConstants DEF RoomOK, IndInv, RoomTableOK
<1>3. conn \in [Conns -> ConnStates]
  BY Zenon DEF IndInv, ConnsOK
<1>4. conn' = Cancel([conn EXCEPT ![c] = cs], a, eff.evict)
  BY Zenon, <1>3 DEF AfterAdmission
<1> HIDE DEF seat, rms2
<1>5. cs \in ConnStates /\ ConnOK(cs, rms2, registry) /\ cs.pc = "idle"
  BY Zenon, <1>1, <1>2, <1>3, ResumeOK
<1>6. cs.pc \notin CreateSteps /\ cs.pc # "end_release"
  BY Zenon, <1>5 DEF CreateSteps
<1> HIDE DEF cs
<1> QED
  BY Zenon, <1>4, <1>5, <1>6, CallerStep DEF rms2

\* The empty server satisfies the invariant.
LEMMA InitOK == Init => IndInv
<1> SUFFICES ASSUME Init PROVE IndInv
  BY Zenon
<1> USE DEF Init
<1>1. RoomTableOK(rooms)
  BY Zenon DEF RoomTableOK
<1>2. RegistryOK(rooms, registry)
  BY Zenon DEF RegistryOK
<1>3. Fresh \in ConnStates /\ Fresh.pc = "idle" /\ Fresh.seat = None
  BY Zenon DEF Fresh, ConnStates, ConnSteps
<1>4. ConnsOK(conn, rooms, registry)
  BY Zenon, <1>3 DEF ConnsOK, ConnOK, Exclusive, CreateSteps, EndSteps
<1>5. SweepOK(sweep, rooms)
  BY Zenon DEF SweepOK, SweepIdle, SweepStates
<1> QED
  BY Zenon, <1>1, <1>2, <1>4, <1>5 DEF IndInv

\* Idempotent re-create (Registry::create, reconnect_host) keeps the invariant.
LEMMA CreateReconnectStep ==
  ASSUME IndInv, NEW c \in Conns, CreateReconnect(c)
  PROVE  IndInv' /\ Quiet
<1> DEFINE a == conn[c].handle
           m == conn[c].request
           adm == Admission(c, m.meta)
           res == ReconnectHost(rooms[a], adm)
<1>1. conn[c].pc \in CreateSteps \cup {"join"} /\ conn[c].pc # "end_release"
  BY Zenon DEF CreateReconnect, CreateSteps
<1>2. /\ a \in Handles /\ rooms[a] # None /\ rooms[a] \in Rooms /\ RoomOK(rooms[a])
      /\ m.peer_id \in PeerIds /\ m.meta \in Metas
  BY Zenon, <1>1, RequestFacts
<1>3. adm \in Admissions
  BY Zenon, <1>2, AdmissionType
<1>4. /\ rooms' = [rooms EXCEPT ![a] = res.room]
      /\ conn' = AfterAdmission(c, a, m.peer_id, res.eff)
      /\ UNCHANGED <<registry, rooms_per_ip, sweep, now>>
  BY Zenon DEF CreateReconnect
<1> HIDE DEF a, m, adm
<1>5. RoomOK(res.room) /\ SameRoom(rooms[a], res.room)
  BY Zenon, <1>2, <1>3, ReconnectHostOK, ReconnectHostSame
<1>6. res.eff.assigned_conn_id \in Nat \cup {None}
  <2>1. rooms[a].next_conn_id \in Nat
    BY Zenon, <1>2 DEF Rooms
  <2> QED
    BY Zenon, <2>1 DEF ReconnectHost, Effects
<1> HIDE DEF res
<1> QED
  BY Zenon, <1>1, <1>2, <1>4, <1>5, <1>6, AdmissionStep

\* join and resume keep the invariant.
LEMMA JoinEnterStep ==
  ASSUME IndInv, NEW c \in Conns, JoinEnter(c)
  PROVE  IndInv' /\ Quiet
<1> DEFINE a == conn[c].handle
           m == conn[c].request
           adm == Admission(c, m.meta)
           resume_only == m.type = "resume"
           res == JoinOrResume(rooms[a], m.peer_id, m.token, adm, resume_only, now)
<1>1. conn[c].pc \in CreateSteps \cup {"join"} /\ conn[c].pc # "end_release"
  BY Zenon DEF JoinEnter, CreateSteps
<1>2. /\ a \in Handles /\ rooms[a] # None /\ rooms[a] \in Rooms /\ RoomOK(rooms[a])
      /\ m.peer_id \in PeerIds /\ m.meta \in Metas
  BY Zenon, <1>1, RequestFacts
<1>3. adm \in Admissions /\ now \in Nat /\ resume_only \in BOOLEAN
  BY Zenon, <1>2, AdmissionType DEF IndInv
<1>4. /\ rooms' = [rooms EXCEPT ![a] = res.room]
      /\ conn' = AfterAdmission(c, a, m.peer_id, res.eff)
      /\ UNCHANGED <<registry, rooms_per_ip, sweep, now>>
  BY Zenon DEF JoinEnter
<1> HIDE DEF a, m, adm, resume_only
<1>5. RoomOK(res.room)
  BY Zenon, <1>2, <1>3, JoinOrResumeOK
<1>6. SameRoom(rooms[a], res.room)
  BY Zenon, <1>2, <1>3, JoinOrResumeSame
<1>7. res.eff.assigned_conn_id \in Nat \cup {None}
  <2>1. PruneExpiredReservations(rooms[a], now).next_conn_id \in Nat
    BY Zenon, <1>2, PruneFields DEF Rooms
  <2> QED
    BY Zenon, <2>1 DEF JoinOrResume, Effects, Error
<1> HIDE DEF res
<1> QED
  BY Zenon, <1>1, <1>2, <1>4, <1>5, <1>6, <1>7, AdmissionStep

\* A step that only moves one connection.
LEMMA ConnOnlyStep ==
  ASSUME IndInv, NEW c \in Conns, NEW cs \in ConnStates,
         ConnOK(cs, rooms, registry),
         conn[c].pc # "end_release", cs.pc # "end_release",
         cs.pc \in CreateSteps => \A d \in Conns \ {c} : conn[d].pc \notin CreateSteps,
         conn' = [conn EXCEPT ![c] = cs],
         UNCHANGED <<rooms, registry, rooms_per_ip, sweep, now>>
  PROVE  IndInv' /\ Quiet
<1>1. ConnsOK([conn EXCEPT ![c] = cs], rooms, registry)
  BY Zenon, NothingEvolves, MoveConn DEF IndInv
<1>2. SameReleases(conn, conn')
  BY Zenon, MoveReleases DEF IndInv, ConnsOK
<1> QED
  BY Zenon, <1>1, <1>2, NothingEvolves DEF IndInv, Quiet, OpensNothing

\* The reclaimability check of Registry::create keeps the invariant.
LEMMA CreateCheckStep ==
  ASSUME IndInv, NEW c \in Conns, CreateCheck(c)
  PROVE  IndInv' /\ Quiet
<1> DEFINE cs == IF IsReclaimable(rooms[conn[c].handle])
                 THEN Goto(conn[c], "reclaim") ELSE Resume(conn[c], None)
<1>1. conn \in [Conns -> ConnStates] /\ ConnOK(conn[c], rooms, registry)
  BY Zenon DEF IndInv, ConnsOK
<1>2. conn[c].pc \in CreateSteps /\ conn[c].pc # "end_release" /\ "reclaim" \in ConnSteps
  BY Zenon DEF CreateCheck, CreateSteps, ConnSteps
<1>3. conn' = [conn EXCEPT ![c] = cs] /\ UNCHANGED <<rooms, registry, rooms_per_ip, sweep, now>>
  BY Zenon, <1>1 DEF CreateCheck
<1>4. CASE cs = Goto(conn[c], "reclaim")
  <2>1. /\ cs \in ConnStates /\ cs.pc = "reclaim" /\ cs.seat = conn[c].seat
        /\ cs.request = conn[c].request /\ cs.handle = conn[c].handle
    BY SMTT(30), <1>1, <1>2, <1>4, GotoType
  <2>2. ConnOK(cs, rooms, registry)
    BY Zenon, <1>1, <1>2, <2>1 DEF ConnOK, CreateSteps, EndSteps
  <2>3. \A d \in Conns \ {c} : conn[d].pc \notin CreateSteps
    BY Zenon, <1>2 DEF IndInv, ConnsOK, Exclusive
  <2>4. cs.pc # "end_release"
    BY Zenon, <2>1
  <2> HIDE DEF cs
  <2> QED
    BY Zenon, <1>2, <1>3, <2>1, <2>2, <2>3, <2>4, ConnOnlyStep
<1>5. CASE cs = Resume(conn[c], None)
  <2>1. cs \in ConnStates /\ ConnOK(cs, rooms, registry) /\ cs.pc = "idle"
    BY Zenon, <1>1, <1>5, ResumeOK
  <2>2. cs.pc \notin CreateSteps /\ cs.pc # "end_release"
    BY Zenon, <2>1 DEF CreateSteps
  <2> HIDE DEF cs
  <2> QED
    BY Zenon, <1>2, <1>3, <2>1, <2>2, ConnOnlyStep
<1> QED
  BY Zenon, <1>4, <1>5

\* The handler of c takes up request m.
LEMMA SendType ==
  ASSUME IndInv, NEW c \in Conns, NEW m \in Requests, NEW pc \in ConnSteps,
         NEW a \in Handles \cup {None}
  PROVE  LET cs == Send(c, m, pc, a)
         IN  /\ cs \in ConnStates /\ cs.pc = pc /\ cs.seat = conn[c].seat
             /\ cs.request = m /\ cs.handle = a
<1>1. conn[c] \in ConnStates
  BY Zenon DEF IndInv, ConnsOK
<1> DEFINE k == conn[c].sent + 1
<1>2. k \in Nat
  BY <1>1 DEF ConnStates
<1>3. Send(c, m, pc, a) =
        [conn[c] EXCEPT !.pc = pc, !.request = m, !.handle = a, !.sent = k]
  BY Zenon, <1>1 DEF Send
<1> HIDE DEF k
<1> QED
  BY Zenon, <1>1, <1>2, <1>3 DEF ConnStates

\* create finds a room: it takes the registry's lock, alone.
LEMMA CreateExistingStep ==
  ASSUME IndInv, NEW c \in Conns, NEW m \in Requests, CreateExisting(c, m)
  PROVE  IndInv' /\ Quiet
<1> DEFINE a == registry[m.session_id]
           pc == IF Idempotent(rooms[a], m) THEN "reconnect" ELSE "check"
           cs == Send(c, m, pc, a)
<1>1. m.session_id \in Sessions
  BY Zenon DEF Requests
<1>2. a \in Handles /\ rooms[a] # None
  BY ZenonT(40), <1>1 DEF CreateExisting, IndInv, RegistryOK
<1>3. pc \in CreateSteps /\ pc \in ConnSteps /\ pc # "end_release"
  BY Zenon DEF CreateSteps, ConnSteps
<1>4. m.token \in Tokens
  BY Zenon DEF CreateExisting, FromToken
<1>5. conn' = [conn EXCEPT ![c] = cs] /\ UNCHANGED <<rooms, registry, rooms_per_ip, sweep, now>>
  BY Zenon DEF CreateExisting
<1>6. \A d \in Conns : conn[d].pc \notin CreateSteps
  BY Zenon DEF CreateExisting, RegistryFree
<1>7. conn[c].seat = None /\ conn[c].pc # "end_release"
  BY Zenon DEF CreateExisting, MaySend
<1> HIDE DEF pc
<1>8. /\ cs \in ConnStates /\ cs.pc = pc /\ cs.seat = conn[c].seat
      /\ cs.request = m /\ cs.handle = a
  BY SMTT(30), <1>2, <1>3, SendType
<1> HIDE DEF cs
<1>9. ConnOK(cs, rooms, registry)
  BY Zenon, <1>2, <1>3, <1>4, <1>7, <1>8 DEF ConnOK, CreateSteps, EndSteps
<1> QED
  BY Zenon, <1>3, <1>5, <1>6, <1>7, <1>8, <1>9, ConnOnlyStep

\* Registry::get hands out a handle of an existing room.
LEMMA JoinLookupStep ==
  ASSUME IndInv, NEW c \in Conns, NEW m \in Requests, JoinLookup(c, m)
  PROVE  IndInv' /\ Quiet
<1> DEFINE a == registry[m.session_id]
           cs == Send(c, m, "join", a)
<1>1. m.session_id \in Sessions
  BY Zenon DEF Requests
<1>2. a \in Handles /\ rooms[a] # None
  BY ZenonT(40), <1>1 DEF JoinLookup, IndInv, RegistryOK
<1>3. conn' = [conn EXCEPT ![c] = cs] /\ UNCHANGED <<rooms, registry, rooms_per_ip, sweep, now>>
  BY Zenon DEF JoinLookup
<1>4. conn[c].seat = None /\ conn[c].pc # "end_release" /\ "join" \in ConnSteps
  BY Zenon DEF JoinLookup, MaySend, ConnSteps
<1>5. /\ cs \in ConnStates /\ cs.pc = "join" /\ cs.seat = conn[c].seat
      /\ cs.request = m /\ cs.handle = a
  BY SMTT(30), <1>2, <1>4, SendType
<1> HIDE DEF cs
<1>6. ConnOK(cs, rooms, registry) /\ cs.pc \notin CreateSteps /\ cs.pc # "end_release"
  BY Zenon, <1>2, <1>4, <1>5 DEF ConnOK, CreateSteps, EndSteps
<1> QED
  BY Zenon, <1>3, <1>4, <1>5, <1>6, ConnOnlyStep

\* A new room behind an unused handle, registered under a free session.
LEMMA InsertRoom ==
  ASSUME NEW rms, NEW reg, RoomTableOK(rms), RegistryOK(rms, reg),
         NEW a \in Handles, rms[a] = None, NEW s \in Sessions, reg[s] = None,
         NEW r, RoomOK(r), r.session_id = s, r.owner_ip_key # NoIp, Reserved(r) = {}
  PROVE  LET rms2 == [rms EXCEPT ![a] = r]
         IN  /\ RoomTableOK(rms2) /\ RegistryOK(rms2, [reg EXCEPT ![s] = a])
             /\ Evolves(rms, rms2) /\ rms2[a] # None
             /\ \A b \in Handles \ {a} : rms2[b] = rms[b]
<1> DEFINE rms2 == [rms EXCEPT ![a] = r]
           reg2 == [reg EXCEPT ![s] = a]
<1>1. r \in Rooms /\ r # None /\ RoomOK(r) /\ a # None
  BY Zenon, RelayConstants DEF RoomOK
<1>2. /\ rms2 \in [Handles -> Rooms \cup {None}]
      /\ \A b \in Handles : rms2[b] = IF b = a THEN r ELSE rms[b]
  BY Zenon, <1>1 DEF RoomTableOK
<1>3. /\ reg2 \in [Sessions -> Handles \cup {None}]
      /\ \A x \in Sessions : reg2[x] = IF x = s THEN a ELSE reg[x]
  BY Zenon DEF RegistryOK
<1>4. \A b \in Handles : rms[b] # None => rms[b].session_id \in Sessions
  BY Zenon DEF RoomTableOK, Rooms
<1> HIDE DEF rms2, reg2
<1>5. RoomTableOK(rms2)
  BY Zenon, <1>1, <1>2 DEF RoomTableOK
<1>6. Evolves(rms, rms2) /\ \A b \in Handles \ {a} : rms2[b] = rms[b]
  BY Zenon, <1>1, <1>2 DEF Evolves, SameRoom, Turnover
<1>7. \A x \in Sessions : reg2[x] # None => rms2[reg2[x]] # None /\ rms2[reg2[x]].session_id = x
  BY SMTT(30), <1>1, <1>2, <1>3 DEF RegistryOK
<1>8. \A b \in Handles : rms2[b] # None /\ ~rms2[b].closing => reg2[rms2[b].session_id] = b
  <2> SUFFICES ASSUME NEW b \in Handles, rms2[b] # None, ~rms2[b].closing
               PROVE  reg2[rms2[b].session_id] = b
    BY Zenon
  <2>1. CASE b = a
    BY Zenon, <1>2, <1>3, <2>1
  <2>2. CASE b # a
    <3>1. rms2[b] = rms[b] /\ reg[rms[b].session_id] = b /\ rms[b].session_id \in Sessions
      BY Zenon, <1>2, <1>4, <2>2 DEF RegistryOK
    <3>2. b # None
      BY Zenon, RelayConstants
    <3> QED
      BY Zenon, <1>3, <3>1, <3>2
  <2> QED
    BY Zenon, <2>1, <2>2
<1>9. RegistryOK(rms2, reg2)
  BY Zenon, <1>3, <1>7, <1>8 DEF RegistryOK
<1>10. rms2[a] # None
  BY Zenon, <1>1, <1>2
<1> QED
  BY Zenon, <1>5, <1>6, <1>9, <1>10 DEF rms2, reg2

\* The last part of create, which c runs alone under the registry's lock.
LEMMA OpenRoomStep ==
  ASSUME IndInv, NEW c \in Conns, NEW m \in Requests, m.token \in Tokens,
         NEW rms, NEW reg, NEW quota \in [Ips -> Nat],
         NEW conns \in [Conns -> ConnStates],
         RoomTableOK(rms), RegistryOK(rms, reg), Evolves(rooms, rms),
         \A a \in Handles : rooms[a] = None => rms[a] = None,
         reg[m.session_id] = None,
         \A d \in Conns \ {c} : conns[d] = conn[d] /\ conn[d].pc \notin CreateSteps,
         OpenRoom(c, m, rms, reg, quota, conns),
         UNCHANGED <<sweep, now>>
  PROVE  IndInv' /\ Evolves(rooms, rooms')
<1> DEFINE ip == IpOf[c]
           adm == Admission(c, m.meta)
           new == NewRoom(m.session_id, m.peer_id, FromToken(m.token), ip, adm, now).room
           full == \/ Cardinality({s \in Sessions : reg[s] # None}) >= MAX_RETAINED_ROOMS
                   \/ quota[ip] >= MAX_ROOMS_PER_IP
<1>1. /\ m.session_id \in Sessions /\ m.peer_id \in PeerIds /\ m.meta \in Metas
      /\ ip \in Ips /\ now \in Nat /\ FromToken(m.token) \in Verifiers
  BY Zenon, RelayConstants DEF Requests, IndInv, FromToken, Verifiers
<1>2. adm \in Admissions
  BY Zenon, <1>1, AdmissionType
<1>3. /\ RoomOK(new) /\ new.session_id = m.session_id
      /\ new.owner_ip_key # NoIp /\ Reserved(new) = {}
  <2>1. RoomOK(new)
    BY Zenon, <1>1, <1>2, NewRoomOK
  <2>2. new.session_id = m.session_id /\ new.owner_ip_key = ip /\ Reserved(new) = {}
    BY Zenon DEF NewRoom, Reserved
  <2> HIDE DEF new
  <2> QED
    BY Zenon, <2>1, <2>2, RelayConstants
<1>4. conn \in [Conns -> ConnStates]
  BY Zenon DEF IndInv, ConnsOK
<1>5. \A x : [conns EXCEPT ![c] = x] = [conn EXCEPT ![c] = x]
  BY Zenon, <1>4
<1> HIDE DEF new, full
<1>6. CASE /\ full
           /\ rooms' = rms /\ registry' = reg /\ rooms_per_ip' = quota
           /\ conn' = [conns EXCEPT ![c] = Resume(@, None)]
  <2> DEFINE cs == Resume(conns[c], None)
  <2>1. conn' = [conn EXCEPT ![c] = cs]
    BY Zenon, <1>5, <1>6
  <2>2. cs \in ConnStates /\ ConnOK(cs, rms, reg) /\ cs.pc = "idle"
    BY Zenon, ResumeOK
  <2>3. cs.pc \notin CreateSteps
    BY Zenon, <2>2 DEF CreateSteps
  <2> HIDE DEF cs
  <2>4. ConnsOK(conn', rms, reg)
    BY Zenon, <2>1, <2>2, <2>3, MoveConn DEF IndInv
  <2>5. SweepOK(sweep, rms)
    BY Zenon, SweepEvolves DEF IndInv
  <2> QED
    BY Zenon, <1>6, <2>4, <2>5 DEF IndInv
<1>7. CASE /\ ~full
           /\ \E a \in Unused :
                /\ rooms' = [rms EXCEPT ![a] = new]
                /\ registry' = [reg EXCEPT ![m.session_id] = a]
                /\ conn' = [conns EXCEPT ![c] = Resume(@, Seat(a, m.peer_id, 1))]
           /\ rooms_per_ip' = [quota EXCEPT ![ip] = @ + 1]
  <2>1. PICK a \in Unused :
          /\ rooms' = [rms EXCEPT ![a] = new]
          /\ registry' = [reg EXCEPT ![m.session_id] = a]
          /\ conn' = [conns EXCEPT ![c] = Resume(@, Seat(a, m.peer_id, 1))]
    BY Zenon, <1>7
  <2> DEFINE cs == Resume(conns[c], Seat(a, m.peer_id, 1))
             rms2 == [rms EXCEPT ![a] = new]
             reg2 == [reg EXCEPT ![m.session_id] = a]
  <2>2. a \in Handles /\ rms[a] = None
    BY Zenon DEF Unused
  <2>3. /\ RoomTableOK(rms2) /\ RegistryOK(rms2, reg2)
        /\ Evolves(rms, rms2) /\ rms2[a] # None
        /\ \A b \in Handles \ {a} : rms2[b] = rms[b]
    BY SMTT(30), <1>1, <1>3, <2>2, InsertRoom
  <2> HIDE DEF rms2, reg2
  <2>4. Evolves(rooms, rms2)
    <3>1. rooms[a] = None
      BY Zenon, <2>2 DEF Unused
    <3> QED
      BY Zenon, <2>2, <2>3, <3>1 DEF Evolves
  <2>5. Seat(a, m.peer_id, 1) \in Seats /\ Seat(a, m.peer_id, 1).room = a
    BY Zenon, <1>1, <2>2 DEF Seat, Seats
  <2>6. cs \in ConnStates /\ ConnOK(cs, rms2, reg2) /\ cs.pc = "idle"
    BY SMTT(30), <2>3, <2>5, ResumeOK
  <2>7. cs.pc \notin CreateSteps
    BY Zenon, <2>6 DEF CreateSteps
  <2>8. conn' = [conn EXCEPT ![c] = cs]
    BY Zenon, <1>5, <2>1
  <2> HIDE DEF cs
  <2>9. ConnsOK(conn', rms2, reg2)
    BY Zenon, <2>4, <2>6, <2>7, <2>8, MoveConn DEF IndInv
  <2>10. SweepOK(sweep, rms2)
    BY Zenon, <2>4, SweepEvolves DEF IndInv
  <2>11. rooms_per_ip' \in [Ips -> Nat]
    <3>1. quota[ip] + 1 \in Nat
      BY SMTT(30), <1>1
    <3> QED
      BY Zenon, <1>7, <3>1
  <2>12. rooms' = rms2 /\ registry' = reg2
    BY Zenon, <2>1 DEF rms2, reg2
  <2> QED
    BY Zenon, <2>3, <2>4, <2>9, <2>10, <2>11, <2>12 DEF IndInv
<1> QED
  BY Zenon, <1>6, <1>7 DEF OpenRoom, new, full

\* create under a free session id keeps the invariant.
LEMMA CreateNewStep ==
  ASSUME IndInv, NEW c \in Conns, NEW m \in Requests, CreateNew(c, m)
  PROVE  IndInv' /\ Evolves(rooms, rooms')
<1> DEFINE conns == [conn EXCEPT ![c] = Send(c, m, "idle", None)]
<1>1. conn \in [Conns -> ConnStates] /\ "idle" \in ConnSteps
  BY Zenon DEF IndInv, ConnsOK, ConnSteps
<1>2. Send(c, m, "idle", None) \in ConnStates
  BY Zenon, <1>1, SendType
<1>3. conns \in [Conns -> ConnStates] /\ \A d \in Conns \ {c} : conns[d] = conn[d]
  BY Zenon, <1>1, <1>2
<1>4. /\ m.token \in Tokens /\ registry[m.session_id] = None
      /\ \A d \in Conns : conn[d].pc \notin CreateSteps
      /\ UNCHANGED <<sweep, now>>
      /\ OpenRoom(c, m, rooms, registry, rooms_per_ip, conns)
  BY Zenon DEF CreateNew, FromToken, RegistryFree
<1> HIDE DEF conns
<1>5. /\ RoomTableOK(rooms) /\ RegistryOK(rooms, registry) /\ Evolves(rooms, rooms)
      /\ rooms_per_ip \in [Ips -> Nat]
  BY Zenon, NothingEvolves DEF IndInv
<1> QED
  BY Zenon, <1>3, <1>4, <1>5, OpenRoomStep

\* Only the entry of a room that is already closing is ever removed.
LEMMA Unregister ==
  ASSUME NEW rms, NEW reg, RoomTableOK(rms), RegistryOK(rms, reg),
         NEW a \in Handles, rms[a] # None, rms[a].closing, NEW s \in Sessions
  PROVE  RegistryOK(rms, [reg EXCEPT ![s] = IF @ = a THEN None ELSE @])
<1> DEFINE reg2 == [reg EXCEPT ![s] = IF @ = a THEN None ELSE @]
<1>1. reg \in [Sessions -> Handles \cup {None}]
  BY Zenon DEF RegistryOK
<1>2. /\ reg2 \in [Sessions -> Handles \cup {None}]
      /\ \A x \in Sessions : reg2[x] = reg[x] \/ (reg[x] = a /\ reg2[x] = None)
  BY Zenon, <1>1
<1> HIDE DEF reg2
<1>3. \A b \in Handles : rms[b] # None => rms[b].session_id \in Sessions
  BY Zenon DEF RoomTableOK, Rooms
<1>4. \A x \in Sessions : reg2[x] # None => rms[reg2[x]] # None /\ rms[reg2[x]].session_id = x
  BY Zenon, <1>2 DEF RegistryOK
<1>5. \A b \in Handles : rms[b] # None /\ ~rms[b].closing => reg2[rms[b].session_id] = b
  BY ZenonT(40), <1>2, <1>3 DEF RegistryOK
<1> QED
  BY Zenon, <1>2, <1>4, <1>5 DEF RegistryOK, reg2

\* In particular when it is known to be there.
LEMMA UnregisterOwn ==
  ASSUME NEW rms, NEW reg, RoomTableOK(rms), RegistryOK(rms, reg),
         NEW a \in Handles, rms[a] # None, rms[a].closing, NEW s \in Sessions, reg[s] = a
  PROVE  RegistryOK(rms, [reg EXCEPT ![s] = None])
<1> DEFINE reg2 == [reg EXCEPT ![s] = IF @ = a THEN None ELSE @]
<1>1. [reg EXCEPT ![s] = None] = reg2
  BY Zenon DEF RegistryOK
<1>2. RegistryOK(rms, reg2)
  BY Zenon, Unregister
<1> QED
  BY Zenon, <1>1, <1>2

\* A reclaim closes the old room before its entry is replaced: what the
\* section that opens the new room finds.
LEMMA ReclaimFacts ==
  ASSUME IndInv, NEW c \in Conns, conn[c].pc = "reclaim", NEW rms, NEW reg,
         rms = [rooms EXCEPT ![conn[c].handle].closing = TRUE],
         reg = [registry EXCEPT ![conn[c].request.session_id] = None]
  PROVE  LET a == conn[c].handle
             m == conn[c].request
             quota == Release(rooms_per_ip, rooms[a].owner_ip_key)
         IN  /\ a \in Handles /\ rooms[a] # None
             /\ m \in Requests /\ m.session_id \in Sessions /\ m.token \in Tokens
             /\ registry[m.session_id] = a /\ reg[m.session_id] = None
             /\ RoomTableOK(rms) /\ RegistryOK(rms, registry) /\ RegistryOK(rms, reg)
             /\ Evolves(rooms, rms) /\ \A b \in Handles : rooms[b] = None => rms[b] = None
             /\ quota \in [Ips -> Nat] /\ rooms[a].owner_ip_key \in Ips
             /\ \A d \in Conns \ {c} : conn[d].pc \notin CreateSteps
<1> DEFINE a == conn[c].handle
           m == conn[c].request
           s == [rooms[a] EXCEPT !.closing = TRUE]
           quota == Release(rooms_per_ip, rooms[a].owner_ip_key)
<1>1. conn[c].pc \in CreateSteps
  BY Zenon DEF CreateSteps
<1>2. /\ a \in Handles /\ rooms[a] # None /\ rooms[a] \in Rooms /\ RoomOK(rooms[a])
      /\ m \in Requests /\ m.session_id \in Sessions
  BY Zenon, <1>1, RequestFacts
<1>3. m.token \in Tokens /\ registry[m.session_id] = a
  BY Zenon, <1>1 DEF IndInv, ConnsOK, ConnOK
<1>4. \A d \in Conns \ {c} : conn[d].pc \notin CreateSteps
  BY Zenon, <1>1 DEF IndInv, ConnsOK, Exclusive
<1>5. registry \in [Sessions -> Handles \cup {None}]
  BY Zenon DEF IndInv, RegistryOK
<1>6. rms = [rooms EXCEPT ![a] = s]
  BY Zenon, <1>2 DEF IndInv, RoomTableOK
<1>7. reg = [registry EXCEPT ![m.session_id] = None]
  BY Zenon
<1> HIDE DEF a, m
<1>8. quota \in [Ips -> Nat] /\ rooms[a].owner_ip_key \in Ips
  BY Zenon, <1>2, ReleaseType DEF IndInv, Rooms
<1>9. RoomOK(s) /\ SameRoom(rooms[a], s) /\ s.closing
  BY Zenon, <1>2, ClosingOK, ClosingSame
<1> HIDE DEF s, quota
<1>10. /\ RoomTableOK(rms) /\ RegistryOK(rms, registry) /\ Evolves(rooms, rms)
  <2> DEFINE t == [rooms EXCEPT ![a] = s]
  <2>1. RoomTableOK(t) /\ RegistryOK(t, registry) /\ Evolves(rooms, t)
    BY Zenon, <1>2, <1>9, UpdateRoom DEF IndInv
  <2> QED
    BY Zenon, <1>6, <2>1
<1>11. /\ \A b \in Handles : rooms[b] = None => rms[b] = None
       /\ rms[a] # None /\ rms[a].closing
  BY ZenonT(40), <1>2, <1>6, <1>9, RelayConstants DEF IndInv, RoomTableOK, RoomOK
<1>12. /\ RegistryOK(rms, reg) /\ reg[m.session_id] = None
  <2>1. RegistryOK(rms, [registry EXCEPT ![m.session_id] = None])
    BY Zenon, <1>2, <1>3, <1>10, <1>11, UnregisterOwn
  <2>2. reg[m.session_id] = None
    BY Zenon, <1>2, <1>5, <1>7
  <2> QED
    BY Zenon, <1>7, <2>1, <2>2
<1> QED
  BY Zenon, <1>2, <1>3, <1>4, <1>8, <1>10, <1>11, <1>12 DEF a, m, quota

\* create that reclaims a room keeps the invariant.
LEMMA CreateReclaimStep ==
  ASSUME IndInv, NEW c \in Conns, CreateReclaim(c)
  PROVE  IndInv' /\ Evolves(rooms, rooms')
<1> DEFINE m == conn[c].request
           rms == [rooms EXCEPT ![conn[c].handle].closing = TRUE]
           reg == [registry EXCEPT ![m.session_id] = None]
           quota == Release(rooms_per_ip, rooms[conn[c].handle].owner_ip_key)
<1>1. conn \in [Conns -> ConnStates] /\ UNCHANGED <<sweep, now>>
  BY Zenon DEF IndInv, ConnsOK, CreateReclaim
<1>2. /\ m \in Requests /\ m.token \in Tokens /\ reg[m.session_id] = None
      /\ RoomTableOK(rms) /\ RegistryOK(rms, reg) /\ Evolves(rooms, rms)
      /\ \A b \in Handles : rooms[b] = None => rms[b] = None
      /\ quota \in [Ips -> Nat] /\ \A d \in Conns \ {c} : conn[d].pc \notin CreateSteps
      /\ OpenRoom(c, m, rms, reg, quota, conn)
  BY Zenon, ReclaimFacts DEF CreateReclaim
<1> HIDE DEF m, rms, reg, quota
<1> QED
  BY Zenon, <1>1, <1>2, OpenRoomStep

\* The first half of Room::leave keeps the invariant.
LEMMA LeaveBeginStep ==
  ASSUME IndInv, NEW c \in Conns, NEW token, NEW version_ok \in BOOLEAN,
         LeaveBegin(c, token, version_ok)
  PROVE  IndInv' /\ Quiet
<1> DEFINE seat == conn[c].seat
           r == rooms[seat.room]
           s == BeginLeave(r, seat.peer_id)
           cs == Goto(conn[c], "leave")
<1>1. seat # None /\ conn[c].pc # "end_release"
  BY Zenon DEF LeaveBegin, InRoom
<1>2. /\ conn[c] \in ConnStates /\ seat.room \in Handles /\ seat.peer_id \in PeerIds
      /\ r # None /\ r \in Rooms /\ RoomOK(r)
  BY Zenon, <1>1, SeatFacts
<1>3. r.reservations[seat.peer_id] # None
  BY Zenon DEF LeaveBegin, MayBeginLeave
<1>4. RoomOK(s) /\ SameRoom(r, s)
  BY Zenon, <1>2, <1>3, BeginLeaveOK, BeginLeaveSame
<1>5. conn \in [Conns -> ConnStates] /\ rooms \in [Handles -> Rooms \cup {None}]
  BY Zenon DEF IndInv, ConnsOK, RoomTableOK
<1>6. /\ rooms' = [rooms EXCEPT ![seat.room] = s] /\ conn' = [conn EXCEPT ![c] = cs]
      /\ UNCHANGED <<registry, rooms_per_ip, sweep, now>>
  BY Zenon, <1>5 DEF LeaveBegin
<1>7. cs \in ConnStates /\ cs.pc = "leave" /\ cs.seat = seat
  BY Zenon, <1>2, GotoType DEF ConnSteps
<1> HIDE DEF cs, s
<1>8. [rooms EXCEPT ![seat.room] = s][seat.room] # None
  BY Zenon, <1>2, <1>4, <1>5, RelayConstants DEF RoomOK
<1>9. /\ ConnOK(cs, [rooms EXCEPT ![seat.room] = s], registry) /\ cs.pc \notin CreateSteps
      /\ cs.pc # "end_release"
  BY Zenon, <1>1, <1>7, <1>8 DEF ConnOK, CreateSteps, EndSteps
<1> QED
  BY Zenon, <1>1, <1>2, <1>4, <1>6, <1>7, <1>9, CallerStep

\* The second half of Room::leave keeps the invariant.
LEMMA LeaveFinishStep ==
  ASSUME IndInv, NEW c \in Conns, NEW persisted \in BOOLEAN, LeaveFinish(c, persisted)
  PROVE  IndInv' /\ Quiet
<1> DEFINE seat == conn[c].seat
           r == rooms[seat.room]
           res == FinishLeave(r, seat.peer_id, seat.conn_id, persisted, now)
           s == res.room
           next == IF Failed(res.eff) THEN seat ELSE None
           cs == Resume(conn[c], next)
<1>1. seat # None /\ conn[c].pc # "end_release"
  BY Zenon DEF LeaveFinish, IndInv, ConnsOK, ConnOK, EndSteps
<1>2. /\ conn[c] \in ConnStates /\ seat \in Seats /\ seat.room \in Handles
      /\ seat.peer_id \in PeerIds /\ r # None /\ r \in Rooms /\ RoomOK(r)
  BY Zenon, <1>1, SeatFacts
<1>3. RoomOK(s) /\ SameRoom(r, s)
  BY Zenon, <1>2, FinishLeaveOK, FinishLeaveSame DEF IndInv
<1>4. conn \in [Conns -> ConnStates] /\ rooms \in [Handles -> Rooms \cup {None}]
  BY Zenon DEF IndInv, ConnsOK, RoomTableOK
<1>5. /\ rooms' = [rooms EXCEPT ![seat.room] = s] /\ conn' = [conn EXCEPT ![c] = cs]
      /\ UNCHANGED <<registry, rooms_per_ip, sweep, now>>
  BY Zenon, <1>4 DEF LeaveFinish
<1>6. next \in Seats \cup {None} /\ (next # None => next.room = seat.room)
  BY Zenon, <1>2
<1> HIDE DEF s, next, res
<1>7. [rooms EXCEPT ![seat.room] = s][seat.room] # None
  BY Zenon, <1>2, <1>3, <1>4, RelayConstants DEF RoomOK
<1>8. /\ cs \in ConnStates /\ cs.pc = "idle"
      /\ ConnOK(cs, [rooms EXCEPT ![seat.room] = s], registry)
  BY Zenon, <1>2, <1>6, <1>7, ResumeOK
<1>9. cs.pc \notin CreateSteps /\ cs.pc # "end_release"
  BY Zenon, <1>8 DEF CreateSteps
<1> HIDE DEF cs
<1> QED
  BY Zenon, <1>1, <1>2, <1>3, <1>5, <1>8, <1>9, CallerStep

\* The first section of Registry::end_session closes the room.
LEMMA EndBeginStep ==
  ASSUME IndInv, NEW c \in Conns, NEW token, NEW version_ok \in BOOLEAN,
         EndBegin(c, token, version_ok)
  PROVE  IndInv' /\ Quiet
<1> DEFINE seat == conn[c].seat
           r == rooms[seat.room]
           s == [r EXCEPT !.closing = TRUE]
           cs == Goto(conn[c], "end_remove")
<1>1. seat # None /\ conn[c].pc # "end_release"
  BY Zenon DEF EndBegin, InRoom
<1>2. /\ conn[c] \in ConnStates /\ seat.room \in Handles
      /\ r # None /\ r \in Rooms /\ RoomOK(r)
  BY Zenon, <1>1, SeatFacts
<1>3. RoomOK(s) /\ SameRoom(r, s) /\ s.closing
  BY Zenon, <1>2, ClosingOK, ClosingSame
<1>4. conn \in [Conns -> ConnStates] /\ rooms \in [Handles -> Rooms \cup {None}]
  BY Zenon DEF IndInv, ConnsOK, RoomTableOK
<1>5. /\ rooms' = [rooms EXCEPT ![seat.room] = s] /\ conn' = [conn EXCEPT ![c] = cs]
      /\ UNCHANGED <<registry, rooms_per_ip, sweep, now>>
  BY Zenon, <1>4 DEF EndBegin, BeginEndSession
<1>6. cs \in ConnStates /\ cs.pc = "end_remove" /\ cs.seat = seat
  BY Zenon, <1>2, GotoType DEF ConnSteps
<1> HIDE DEF cs, s
<1>7. /\ [rooms EXCEPT ![seat.room] = s][seat.room] = s /\ s # None
  BY Zenon, <1>2, <1>3, <1>4, RelayConstants DEF RoomOK
<1>8. /\ ConnOK(cs, [rooms EXCEPT ![seat.room] = s], registry) /\ cs.pc \notin CreateSteps
      /\ cs.pc # "end_release"
  BY Zenon, <1>1, <1>3, <1>6, <1>7 DEF ConnOK, CreateSteps, EndSteps
<1> QED
  BY Zenon, <1>1, <1>2, <1>3, <1>5, <1>6, <1>8, CallerStep

\* A refused endSession keeps the invariant.
LEMMA EndRefusedStep ==
  ASSUME IndInv, NEW c \in Conns, NEW token, NEW version_ok \in BOOLEAN,
         EndRefused(c, token, version_ok)
  PROVE  IndInv' /\ Quiet
<1> DEFINE cs == Resume(conn[c], None)
<1>1. conn \in [Conns -> ConnStates] /\ conn[c].pc # "end_release"
  BY Zenon DEF IndInv, ConnsOK, EndRefused, InRoom
<1>2. conn' = [conn EXCEPT ![c] = cs] /\ UNCHANGED <<rooms, registry, rooms_per_ip, sweep, now>>
  BY Zenon, <1>1 DEF EndRefused
<1>3. cs \in ConnStates /\ ConnOK(cs, rooms, registry) /\ cs.pc = "idle"
  BY Zenon, <1>1, ResumeOK
<1>4. cs.pc \notin CreateSteps /\ cs.pc # "end_release"
  BY Zenon, <1>3 DEF CreateSteps
<1> HIDE DEF cs
<1> QED
  BY Zenon, <1>1, <1>2, <1>3, <1>4, ConnOnlyStep

\* A handler that is past begin_end_session goes on to its next await.
LEMMA EndGoto ==
  ASSUME IndInv, NEW c \in Conns, conn[c].pc \in EndSteps, NEW pc \in EndSteps, NEW reg
  PROVE  LET cs == Goto(conn[c], pc)
         IN  cs \in ConnStates /\ ConnOK(cs, rooms, reg) /\ cs.pc \notin CreateSteps
<1> DEFINE cs == Goto(conn[c], pc)
<1>1. conn[c] \in ConnStates /\ ConnOK(conn[c], rooms, registry)
  BY Zenon DEF IndInv, ConnsOK
<1>2. pc \in ConnSteps /\ pc \notin CreateSteps \cup {"join"}
  BY Zenon DEF EndSteps, ConnSteps, CreateSteps
<1>3. cs \in ConnStates /\ cs.pc = pc /\ cs.seat = conn[c].seat
  BY Zenon, <1>1, <1>2, GotoType
<1> HIDE DEF cs
<1>4. ConnOK(cs, rooms, reg)
  BY Zenon, <1>1, <1>2, <1>3 DEF ConnOK
<1> QED
  BY Zenon, <1>2, <1>3, <1>4 DEF cs

\* end_session removes the entry of a room that is already closing.
LEMMA EndRemoveStep ==
  ASSUME IndInv, NEW c \in Conns, EndRemove(c)
  PROVE  IndInv'
<1> DEFINE a == conn[c].seat.room
           id == rooms[a].session_id
           reg2 == [registry EXCEPT ![id] = IF @ = a THEN None ELSE @]
           cs == Goto(conn[c], "end_release")
<1>1. conn[c].pc \in EndSteps /\ "end_release" \in EndSteps
  BY Zenon DEF EndRemove, EndSteps
<1>2. conn[c].seat # None /\ rooms[a].closing
  BY Zenon, <1>1 DEF IndInv, ConnsOK, ConnOK
<1>3. a \in Handles /\ rooms[a] # None /\ id \in Sessions
  BY Zenon, <1>2, SeatFacts DEF Rooms
<1>4. RegistryOK(rooms, reg2)
  BY ZenonT(40), <1>2, <1>3, Unregister DEF IndInv
<1>5. conn \in [Conns -> ConnStates] /\ \A d \in Conns : conn[d].pc \notin CreateSteps
  BY Zenon DEF EndRemove, RegistryFree, IndInv, ConnsOK
<1>6. /\ registry' = reg2 /\ conn' = [conn EXCEPT ![c] = cs]
      /\ UNCHANGED <<rooms, rooms_per_ip, sweep, now>>
  BY Zenon, <1>5 DEF EndRemove
<1> HIDE DEF reg2
<1>7. cs \in ConnStates /\ ConnOK(cs, rooms, reg2) /\ cs.pc \notin CreateSteps
  BY Zenon, <1>1, EndGoto
<1> HIDE DEF cs
<1>8. ConnsOK(conn', rooms, reg2)
  BY Zenon, <1>5, <1>6, <1>7, NothingEvolves, MoveConn DEF IndInv
<1> QED
  BY Zenon, <1>4, <1>6, <1>8 DEF IndInv

\* end_session releases the owner's slot.
LEMMA EndReleaseStep ==
  ASSUME IndInv, NEW c \in Conns, EndRelease(c)
  PROVE  IndInv'
<1> DEFINE a == conn[c].seat.room
           cs == Goto(conn[c], "end_finish")
<1>1. conn[c].pc \in EndSteps /\ "end_finish" \in EndSteps
  BY Zenon DEF EndRelease, EndSteps
<1>2. conn[c].seat # None
  BY Zenon, <1>1 DEF IndInv, ConnsOK, ConnOK
<1>3. rooms[a].owner_ip_key \in Ips
  BY Zenon, <1>2, SeatFacts DEF Rooms
<1>4. rooms_per_ip' \in [Ips -> Nat]
  BY Zenon, <1>3, ReleaseType DEF EndRelease, IndInv
<1>5. conn \in [Conns -> ConnStates]
  BY Zenon DEF IndInv, ConnsOK
<1>6. conn' = [conn EXCEPT ![c] = cs] /\ UNCHANGED <<rooms, registry, sweep, now>>
  BY Zenon, <1>5 DEF EndRelease
<1>7. cs \in ConnStates /\ ConnOK(cs, rooms, registry) /\ cs.pc \notin CreateSteps
  BY Zenon, <1>1, EndGoto
<1> HIDE DEF cs
<1>8. ConnsOK(conn', rooms, registry)
  BY Zenon, <1>6, <1>7, NothingEvolves, MoveConn DEF IndInv
<1> QED
  BY Zenon, <1>4, <1>6, <1>8 DEF IndInv

\* The last section of Registry::end_session keeps the invariant.
LEMMA EndFinishStep ==
  ASSUME IndInv, NEW c \in Conns, NEW persisted \in BOOLEAN, EndFinish(c, persisted)
  PROVE  IndInv' /\ Quiet
<1> DEFINE a == conn[c].seat.room
           res == FinishEndSession(rooms[a], {}, persisted)
           s == res.room
           cs == Resume(conn[c], None)
<1>1. conn[c].seat # None /\ conn[c].pc # "end_release"
  BY Zenon DEF EndFinish, IndInv, ConnsOK, ConnOK, EndSteps
<1>2. a \in Handles /\ rooms[a] # None /\ rooms[a] \in Rooms /\ RoomOK(rooms[a])
  BY Zenon, <1>1, SeatFacts
<1>3. RoomOK(s) /\ SameRoom(rooms[a], s)
  BY Zenon, <1>2, FinishEndSessionOK, FinishEndSessionSame
<1>4. conn \in [Conns -> ConnStates]
  BY Zenon DEF IndInv, ConnsOK
<1>5. /\ rooms' = [rooms EXCEPT ![a] = s]
      /\ conn' = Cancel([conn EXCEPT ![c] = cs], a, res.eff.evict)
      /\ UNCHANGED <<registry, rooms_per_ip, sweep, now>>
  BY Zenon, <1>4 DEF EndFinish
<1> HIDE DEF s, res
<1>6. /\ cs \in ConnStates /\ cs.pc = "idle"
      /\ ConnOK(cs, [rooms EXCEPT ![a] = s], registry)
  BY Zenon, <1>4, ResumeOK
<1>7. cs.pc \notin CreateSteps /\ cs.pc # "end_release"
  BY Zenon, <1>6 DEF CreateSteps
<1> HIDE DEF cs
<1> QED
  BY Zenon, <1>1, <1>2, <1>3, <1>5, <1>6, <1>7, CallerStep

\* A one-section call on the caller's room.
LEMMA CallStep ==
  ASSUME IndInv, NEW c \in Conns, InRoom(c), NEW s,
         RoomOK(s), SameRoom(rooms[conn[c].seat.room], s),
         rooms' = [rooms EXCEPT ![conn[c].seat.room] = s],
         UNCHANGED <<registry, rooms_per_ip, conn, sweep, now>>
  PROVE  IndInv' /\ Quiet
<1> DEFINE a == conn[c].seat.room
           rms2 == [rooms EXCEPT ![a] = s]
<1>1. a \in Handles /\ rooms[a] # None
  BY Zenon, SeatFacts DEF InRoom
<1>2. Evolves(rooms, rms2)
  BY Zenon, <1>1, UpdateRoom DEF IndInv
<1> HIDE DEF rms2
<1>3. ConnsOK(conn, rms2, registry)
  BY Zenon, <1>2, KeepConns DEF IndInv
<1>4. SameReleases(conn, conn')
  BY Zenon DEF SameReleases
<1> QED
  BY Zenon, <1>1, <1>3, <1>4, RoomMethodStep DEF rms2

\* transferHost keeps the invariant.
LEMMA CallTransferHostStep ==
  ASSUME IndInv, NEW c \in Conns, NEW version_ok \in BOOLEAN, NEW target \in PeerIds,
         CallTransferHost(c, version_ok, target)
  PROVE  IndInv' /\ Quiet
<1> DEFINE seat == conn[c].seat
           r == rooms[seat.room]
           s == TransferHost(r, seat.peer_id, seat.conn_id, version_ok, target).room
<1>1. InRoom(c) /\ UNCHANGED <<registry, rooms_per_ip, conn, sweep, now>>
  BY Zenon DEF CallTransferHost, Call
<1>2. seat.room \in Handles /\ r \in Rooms /\ RoomOK(r)
  BY Zenon, <1>1, SeatFacts DEF InRoom
<1>3. rooms' = [rooms EXCEPT ![seat.room] = s]
  BY Zenon, <1>2 DEF CallTransferHost, Call, IndInv, RoomTableOK
<1>4. RoomOK(s) /\ SameRoom(r, s)
  BY Zenon, <1>2, TransferHostOK, TransferHostSame
<1> HIDE DEF s
<1> QED
  BY Zenon, <1>1, <1>3, <1>4, CallStep

\* broadcast keeps the invariant.
LEMMA CallBroadcastStep ==
  ASSUME IndInv, NEW c \in Conns, CallBroadcast(c)
  PROVE  IndInv' /\ Quiet
<1> DEFINE seat == conn[c].seat
           r == rooms[seat.room]
           s == Broadcast(r, seat.peer_id, seat.conn_id, now).room
<1>1. InRoom(c) /\ UNCHANGED <<registry, rooms_per_ip, conn, sweep, now>>
  BY Zenon DEF CallBroadcast, Call
<1>2. seat.room \in Handles /\ r \in Rooms /\ RoomOK(r)
  BY Zenon, <1>1, SeatFacts DEF InRoom
<1>3. rooms' = [rooms EXCEPT ![seat.room] = s]
  BY Zenon, <1>2 DEF CallBroadcast, Call, IndInv, RoomTableOK
<1>4. RoomOK(s) /\ SameRoom(r, s)
  BY Zenon, <1>2, BroadcastOK, TrafficSame DEF IndInv
<1> HIDE DEF s
<1> QED
  BY Zenon, <1>1, <1>3, <1>4, CallStep

\* sendTo keeps the invariant.
LEMMA CallSendToStep ==
  ASSUME IndInv, NEW c \in Conns, NEW target \in PeerIds, CallSendTo(c, target)
  PROVE  IndInv' /\ Quiet
<1> DEFINE seat == conn[c].seat
           r == rooms[seat.room]
           s == SendTo(r, seat.peer_id, seat.conn_id, target, now).room
<1>1. InRoom(c) /\ UNCHANGED <<registry, rooms_per_ip, conn, sweep, now>>
  BY Zenon DEF CallSendTo, Call
<1>2. seat.room \in Handles /\ r \in Rooms /\ RoomOK(r)
  BY Zenon, <1>1, SeatFacts DEF InRoom
<1>3. rooms' = [rooms EXCEPT ![seat.room] = s]
  BY Zenon, <1>2 DEF CallSendTo, Call, IndInv, RoomTableOK
<1>4. RoomOK(s) /\ SameRoom(r, s)
  BY Zenon, <1>2, SendToOK, TrafficSame DEF IndInv
<1> HIDE DEF s
<1> QED
  BY Zenon, <1>1, <1>3, <1>4, CallStep

\* The end of a connection keeps the invariant.
LEMMA CloseStep ==
  ASSUME IndInv, NEW c \in Conns, Close(c)
  PROVE  IndInv' /\ Quiet
<1> DEFINE seat == conn[c].seat
           cs == [Resume(conn[c], None) EXCEPT !.pc = "closed"]
<1>1. conn \in [Conns -> ConnStates] /\ conn[c].pc # "end_release"
  BY Zenon DEF IndInv, ConnsOK, Close
<1>2. conn' = [conn EXCEPT ![c] = cs] /\ UNCHANGED <<registry, rooms_per_ip, sweep, now>>
  BY Zenon, <1>1 DEF Close
<1>3. cs \in ConnStates /\ cs.pc = "closed" /\ cs.seat = None
  BY ZenonT(40), <1>1 DEF Resume, ConnStates, ConnSteps
<1> HIDE DEF cs
<1>4. cs.pc \notin CreateSteps /\ cs.pc # "end_release" /\ \A rms : ConnOK(cs, rms, registry)
  BY Zenon, <1>3 DEF ConnOK, CreateSteps, EndSteps
<1>5. CASE seat = None
  <2>1. rooms' = rooms
    BY Zenon, <1>5 DEF Close
  <2> QED
    BY Zenon, <1>1, <1>2, <1>3, <1>4, <2>1, ConnOnlyStep
<1>6. CASE seat # None
  <2> DEFINE r == rooms[seat.room]
             s == HandleDisconnect(r, seat.peer_id, seat.conn_id, now).room
  <2>1. /\ seat.room \in Handles /\ seat.peer_id \in PeerIds
        /\ r # None /\ r \in Rooms /\ RoomOK(r)
    BY Zenon, <1>6, SeatFacts
  <2>2. rooms' = [rooms EXCEPT ![seat.room] = s]
    BY Zenon, <1>6, <2>1 DEF Close, IndInv, RoomTableOK
  <2>3. RoomOK(s) /\ SameRoom(r, s)
    BY Zenon, <2>1, HandleDisconnectOK, HandleDisconnectSame DEF IndInv
  <2> HIDE DEF s
  <2> QED
    BY Zenon, <1>1, <1>2, <1>3, <1>4, <2>1, <2>2, <2>3, CallerStep
<1> QED
  BY Zenon, <1>5, <1>6
-----------------------------------------------------------------------------
(* The cleanup task *)

\* The sweep goes on to the next room of its list.
LEMMA SweepNextOK ==
  ASSUME NEW todo \in SUBSET Handles, NEW started \in Nat, NEW rms,
         \A a \in todo : rms[a] # None
  PROVE  SweepOK(SweepNext(todo, started), rms)
<1>1. SweepIdle \in SweepStates /\ SweepIdle.todo = {} /\ SweepIdle.pc = "idle"
  BY Zenon DEF SweepIdle, SweepStates
<1>2. CASE todo = {}
  BY Zenon, <1>1, <1>2 DEF SweepNext, SweepOK
<1>3. CASE todo # {}
  <2> DEFINE sw == [SweepIdle EXCEPT !.pc = "visit", !.now = started, !.todo = todo]
  <2>1. sw \in SweepStates /\ sw.pc = "visit" /\ sw.todo = todo
    BY Zenon, <1>1 DEF SweepStates
  <2> QED
    BY Zenon, <1>3, <2>1 DEF SweepNext, SweepOK
<1> QED
  BY Zenon, <1>2, <1>3

\* The sweep lists the registered rooms.
LEMMA SweepBeginStep ==
  ASSUME IndInv, SweepBegin
  PROVE  IndInv'
<1>1. \A a \in Registered : a \in Handles /\ rooms[a] # None
  BY Zenon, RelayConstants DEF Registered, IndInv, RegistryOK
<1>2. SweepOK(SweepNext(Registered, now), rooms)
  BY Zenon, <1>1, SweepNextOK DEF IndInv
<1> QED
  BY Zenon, <1>2 DEF SweepBegin, IndInv

\* The sweep's section under a room's lock keeps the invariant.
LEMMA SweepVisitStep ==
  ASSUME IndInv, NEW a \in Handles, SweepVisit(a)
  PROVE  IndInv' /\ Evolves(rooms, rooms') /\ OpensNothing
<1> DEFINE res == SweepState(rooms[a], sweep.now, now)
           s == res.room
           todo == sweep.todo \ {a}
           rms2 == [rooms EXCEPT ![a] = s]
           sw == [sweep EXCEPT !.pc = "remove", !.todo = todo, !.handle = a,
                               !.evict = res.evict]
<1>1. SweepOK(sweep, rooms) /\ sweep \in SweepStates
  BY Zenon DEF IndInv, SweepOK
<1>2. /\ sweep.todo \subseteq Handles /\ sweep.now \in Nat
      /\ rooms[a] # None /\ \A b \in sweep.todo : rooms[b] # None
  BY Zenon, <1>1 DEF SweepVisit, SweepOK, SweepStates
<1>3. rooms[a] \in Rooms /\ RoomOK(rooms[a])
  BY Zenon, <1>2 DEF IndInv, RoomTableOK, RoomOK
<1>4. /\ RoomOK(s) /\ res.evict \in SUBSET ConnectedPeers
      /\ SameRoom(rooms[a], s) /\ (res.remove => s.closing)
  BY Zenon, <1>3, SweepStateOK, SweepStateSame
<1>5. /\ rooms' = rms2
      /\ sweep' = IF res.remove THEN sw ELSE SweepNext(todo, sweep.now)
      /\ UNCHANGED <<registry, rooms_per_ip, conn, now>>
  BY Zenon DEF SweepVisit
<1> HIDE DEF s, res
<1>6. RoomTableOK(rms2) /\ RegistryOK(rms2, registry) /\ Evolves(rooms, rms2)
  BY Zenon, <1>2, <1>4, UpdateRoom DEF IndInv
<1>7. rms2[a] = s /\ s # None
  BY Zenon, <1>4, RelayConstants DEF IndInv, RoomTableOK, RoomOK
<1>o. OpensNothing
  BY Zenon, <1>2, <1>5 DEF OpensNothing, IndInv, RoomTableOK
<1> HIDE DEF rms2
<1>8. ConnsOK(conn, rms2, registry)
  BY Zenon, <1>6, KeepConns DEF IndInv
<1>9. todo \in SUBSET Handles /\ \A b \in todo : rms2[b] # None
  BY Zenon, <1>2, <1>6 DEF Evolves
<1> HIDE DEF todo
<1>10. SweepOK(SweepNext(todo, sweep.now), rms2)
  BY Zenon, <1>2, <1>9, SweepNextOK
<1>11. res.remove => SweepOK(sw, rms2)
  <2>1. sw \in SweepStates /\ sw.todo = todo /\ sw.handle = a
    BY Zenon, <1>1, <1>4, <1>9 DEF SweepStates
  <2> HIDE DEF sw
  <2> QED
    BY Zenon, <1>4, <1>7, <1>9, <2>1 DEF SweepOK
<1> QED
  BY Zenon, <1>5, <1>6, <1>8, <1>10, <1>11, <1>o DEF IndInv

\* remove_if_current removes the entry of a room that is already closing.
LEMMA SweepRemoveStep ==
  ASSUME IndInv, SweepRemove
  PROVE  IndInv'
<1> DEFINE a == sweep.handle
           id == rooms[a].session_id
           reg2 == [registry EXCEPT ![id] = IF @ = a THEN None ELSE @]
           sw == [sweep EXCEPT !.pc = "finish", !.removed = registry[id] = a]
<1>1. sweep \in SweepStates /\ SweepOK(sweep, rooms)
  BY Zenon DEF IndInv, SweepOK
<1>2. a \in Handles /\ rooms[a] # None /\ rooms[a].closing
  BY Zenon, <1>1 DEF SweepRemove, SweepOK
<1>3. id \in Sessions
  BY Zenon, <1>2 DEF IndInv, RoomTableOK, Rooms
<1>4. RegistryOK(rooms, reg2)
  BY ZenonT(40), <1>2, <1>3, Unregister DEF IndInv
<1>5. /\ registry' = reg2 /\ sweep' = sw /\ UNCHANGED <<rooms, rooms_per_ip, conn, now>>
  BY Zenon DEF SweepRemove
<1> HIDE DEF reg2
<1>6. ConnsOK(conn, rooms, reg2)
  <2>1. \A c \in Conns : ConnOK(conn[c], rooms, reg2)
    <3> TAKE c \in Conns
    <3>1. conn[c] \in ConnStates /\ ConnOK(conn[c], rooms, registry)
      BY Zenon DEF IndInv, ConnsOK
    <3>2. conn[c].pc \notin CreateSteps
      BY Zenon DEF SweepRemove, RegistryFree
    <3> QED
      BY Zenon, <3>1, <3>2, NothingEvolves, ConnEvolves
  <2> QED
    BY Zenon, <2>1 DEF IndInv, ConnsOK
<1>7. SweepOK(sw, rooms)
  <2>1. /\ sw \in SweepStates /\ sw.todo = sweep.todo /\ sw.handle = a
    BY Zenon, <1>1 DEF SweepStates
  <2> HIDE DEF sw
  <2> QED
    BY Zenon, <1>1, <1>2, <2>1 DEF SweepOK
<1> QED
  BY Zenon, <1>4, <1>5, <1>6, <1>7 DEF IndInv

\* The sweep releases the slot and cancels the evicted connections.
LEMMA SweepFinishStep ==
  ASSUME IndInv, SweepFinish
  PROVE  IndInv'
<1>1. sweep \in SweepStates /\ SweepOK(sweep, rooms)
  BY Zenon DEF IndInv, SweepOK
<1>2. sweep.handle \in Handles /\ rooms[sweep.handle] # None
  BY Zenon, <1>1 DEF SweepFinish, SweepOK
<1>3. rooms[sweep.handle].owner_ip_key \in Ips
  BY Zenon, <1>2 DEF IndInv, RoomTableOK, Rooms
<1>4. rooms_per_ip' \in [Ips -> Nat]
  BY Zenon, <1>3, ReleaseType DEF SweepFinish, IndInv
<1>5. ConnsOK(Cancel(conn, sweep.handle, sweep.evict), rooms, registry)
  BY Zenon, CancelOK DEF IndInv
<1>6. SweepOK(SweepNext(sweep.todo, sweep.now), rooms)
  BY Zenon, <1>1, SweepNextOK DEF SweepOK, SweepStates
<1> QED
  BY Zenon, <1>4, <1>5, <1>6 DEF SweepFinish, IndInv
-----------------------------------------------------------------------------
(* The theorems *)

\* Every step of the system keeps the invariant, and the rooms.
LEMMA NextOK ==
  ASSUME IndInv, Next
  PROVE  IndInv' /\ Evolves(rooms, rooms')
<1>0. UNCHANGED rooms => Evolves(rooms, rooms')
  BY Zenon, NothingEvolves
<1>1. CASE SweepStep
  <2>1. IndInv'
    BY Zenon, <1>1, SweepBeginStep, SweepVisitStep, SweepRemoveStep, SweepFinishStep DEF SweepStep
  <2>2. Evolves(rooms, rooms')
    BY Zenon, <1>0, <1>1, SweepVisitStep DEF SweepStep, SweepBegin, SweepRemove, SweepFinish
  <2> QED
    BY Zenon, <2>1, <2>2
<1>2. CASE Tick
  <2>1. now' \in Nat
    <3>1. now \in Nat /\ now' = now + 1
      BY Zenon, <1>2 DEF Tick, IndInv
    <3> QED
      BY SMT, <3>1
  <2> QED
    BY Zenon, <1>0, <1>2, <2>1 DEF Tick, IndInv
<1>3. ASSUME NEW c \in Conns, HandlerStep(c) PROVE IndInv' /\ Evolves(rooms, rooms')
  BY Zenon, <1>0, <1>3, CreateReconnectStep, CreateCheckStep, CreateReclaimStep, JoinEnterStep,
     LeaveFinishStep, EndFinishStep, EndRemoveStep, EndReleaseStep
     DEF HandlerStep, EndRemove, EndRelease, Quiet
<1>4. ASSUME NEW c \in Conns, ClientStep(c) PROVE IndInv' /\ Evolves(rooms, rooms')
  BY Zenon, <1>4, CreateNewStep, CreateExistingStep, JoinLookupStep, LeaveBeginStep,
     EndBeginStep, EndRefusedStep, CallTransferHostStep, CallSendToStep,
     CallBroadcastStep, CloseStep DEF ClientStep, SocketClosed, Quiet
<1>5. ASSUME NEW c \in Conns, Evicted(c) PROVE IndInv' /\ Evolves(rooms, rooms')
  BY Zenon, <1>5, CloseStep DEF Evicted, Quiet
<1> QED
  BY Zenon, <1>1, <1>2, <1>3, <1>4, <1>5 DEF Next

\* What the handlers rely on follows from the invariant.
LEMMA BasicFacts == IndInv => Basics
<1> SUFFICES ASSUME IndInv, NEW c \in Conns
             PROVE  /\ SeatKnown(c) /\ RequestKnown(c) /\ ReclaimKnown(c) /\ SendKnown(c)
                    /\ \A meta \in Metas : Admission(c, meta) \in Admissions
  BY Zenon DEF Basics
<1>1. SeatKnown(c)
  BY Zenon, SeatFacts DEF SeatKnown
<1>2. RequestKnown(c)
  BY Zenon, RequestFacts DEF RequestKnown
<1>3. ReclaimKnown(c)
  BY Zenon, ReclaimFacts DEF ReclaimKnown
<1>4. SendKnown(c)
  BY Zenon, SendType DEF SendKnown
<1> QED
  BY Zenon, <1>1, <1>2, <1>3, <1>4, AdmissionType

\* A step that opens, removes or releases something is one of a few.
LEMMA NextQuiet ==
  ASSUME IndInv, Next
  PROVE  Quiet \/ Loud
<1>1. ASSUME NEW c \in Conns, HandlerStep(c) PROVE Quiet \/ Loud
  BY Zenon, <1>1, CreateReconnectStep, CreateCheckStep, JoinEnterStep, LeaveFinishStep,
     EndFinishStep DEF HandlerStep, Loud
<1>2. ASSUME NEW c \in Conns, ClientStep(c) PROVE Quiet \/ Loud
  BY Zenon, <1>2, CreateExistingStep, JoinLookupStep, LeaveBeginStep, EndBeginStep,
     EndRefusedStep, CallTransferHostStep, CallSendToStep, CallBroadcastStep, CloseStep
     DEF ClientStep, SocketClosed, Loud
<1>3. ASSUME NEW c \in Conns, Evicted(c) PROVE Quiet
  BY Zenon, <1>3, CloseStep DEF Evicted
<1> QED
  BY Zenon, <1>1, <1>2, <1>3 DEF Next, Loud

\* The invariant is inductive: it holds initially and every step keeps it.
THEOREM Inductive == Spec => []IndInv
<1>1. Init => IndInv
  BY Zenon, InitOK
<1>2. IndInv /\ [Next]_vars => IndInv'
  <2> SUFFICES ASSUME IndInv, [Next]_vars PROVE IndInv'
    BY Zenon
  <2>1. CASE Next
    BY Zenon, <2>1, NextOK
  <2>2. CASE UNCHANGED vars
    BY Zenon, <2>2 DEF vars, IndInv
  <2> QED
    BY Zenon, <2>1, <2>2
<1> QED
  BY <1>1, <1>2, PTL DEF Spec

\* Every field of every room, connection and task keeps its type, whatever the
\* interleaving of handlers: in particular a quota never goes below zero and no
\* handler resumes with a room or a request it does not have.
THEOREM TypeCorrect == Spec => []TypeOK
<1>1. IndInv => TypeOK
  BY Zenon DEF IndInv, RoomTableOK, RegistryOK, ConnsOK, SweepOK, TypeOK
<1> QED
  BY <1>1, Inductive, PTL

\* Every room was opened by a connection and is charged to its address: none
\* was restored.
NoneRestored == \A a \in Handles : rooms[a] # None => rooms[a].owner_ip_key # NoIp

\* Grace clocks are stopped by an admission and started by a disconnection
\* only, and a transfer or a leave moves the two together: in an open room
\* they run exactly for the guests that are away.
THEOREM GraceClock == Spec => []GraceClockRuns
<1>1. Init => NoneRestored
  BY Zenon DEF Init, NoneRestored
<1>2. IndInv /\ NoneRestored /\ [Next]_vars => NoneRestored'
  <2> SUFFICES ASSUME IndInv, NoneRestored, [Next]_vars PROVE NoneRestored'
    BY Zenon
  <2>1. CASE Next
    <3>1. Evolves(rooms, rooms')
      BY Zenon, <2>1, NextOK
    <3> QED
      BY Zenon, <3>1 DEF NoneRestored, Evolves, SameRoom
  <2>2. CASE UNCHANGED vars
    BY Zenon, <2>2 DEF NoneRestored, vars
  <2> QED
    BY Zenon, <2>1, <2>2
<1>3. IndInv /\ NoneRestored => GraceClockRuns
  BY Zenon DEF IndInv, RoomTableOK, RoomOK, EntriesOK, NoneRestored, GraceClockRuns, Open
<1> QED
  BY <1>1, <1>2, <1>3, Inductive, PTL DEF Spec

\* A host transfer that the room would accept can be handed straight back, in
\* every reachable state, and that restores the room to the last field.
THEOREM Reversible == Spec => []TransferReversible
<1>1. IndInv => TransferReversible
  <2> SUFFICES ASSUME IndInv, NEW a \in Handles, Open(a)
               PROVE  LET r == rooms[a]
                          h == r.host_peer_id
                      IN  \A x \in Connected(r) :
                            h \in Connected(r)
                              /\ TransferError(r, h, r.peers[h].conn_id, TRUE, x) = None
                            => LET s == SwapHost(r, x)
                               IN  /\ TransferError(s, x, s.peers[x].conn_id, TRUE, h) = None
                                   /\ SwapHost(s, h) = r
    BY Zenon DEF TransferReversible
  <2>1. RoomOK(rooms[a]) /\ ~rooms[a].closing
    BY Zenon DEF IndInv, RoomTableOK, Open
  <2> QED
    BY Zenon, <2>1, TransferBack
<1> QED
  BY <1>1, Inductive, PTL

\* The registry of the invariant is the one the property asks for.
LEMMA RegistryMatches == IndInv => RegistryCoherent
<1> SUFFICES ASSUME IndInv PROVE RegistryCoherent
  BY Zenon
<1>1. \A a \in Handles : Open(a) => rooms[a].session_id \in Sessions
  BY Zenon DEF Open, IndInv, RoomTableOK, Rooms
<1> QED
  BY Zenon, <1>1 DEF IndInv, RegistryOK, RegistryCoherent, Registered, Open

\* Whatever create, endSession and the sweep do to the registry concurrently,
\* an open room is always the one registered under its session id.
THEOREM Coherence == Spec => []RegistryCoherent
BY RegistryMatches, Inductive, PTL
-----------------------------------------------------------------------------
(* Who owns the identities of a room, and for how long *)

\* Reservations that are dropped, or change in other respects.
LEMMA DropsOwners ==
  ASSUME NEW r, NEW s, s.host_peer_id = r.host_peer_id, s.host_verifier = r.host_verifier,
         \A p \in PeerIds : s.reservations[p] # None =>
           r.reservations[p] # None /\ s.reservations[p].verifier = r.reservations[p].verifier
  PROVE  OwnersKept(r, s)
BY Zenon DEF OwnersKept, Owner

\* Reservations that are dropped or stay as they are.
LEMMA DropsSteady ==
  ASSUME NEW r, NEW s, s.host_peer_id = r.host_peer_id, s.host_verifier = r.host_verifier,
         \A p \in PeerIds : s.reservations[p] \in {r.reservations[p], None}, NEW t
  PROVE  OwnersKept(r, s) /\ Steady(r, s, t, t)
<1>1. OwnersKept(r, s)
  BY Zenon, DropsOwners
<1>2. Steady(r, s, t, t)
  BY Zenon DEF Steady, LiveClaim, Transferable, Reserved
<1> QED BY Zenon, <1>1, <1>2

\* A room that does not change at all.
LEMMA SameSteady ==
  ASSUME NEW r, NEW t
  PROVE  OwnersKept(r, r) /\ Steady(r, r, t, t)
BY Zenon, DropsSteady

\* As time goes on claims only lapse.
LEMMA TimeSteady ==
  ASSUME NEW r \in Rooms, NEW t \in Nat
  PROVE  Steady(r, r, t, t + 1)
<1> SUFFICES ASSUME NEW p \in PeerIds, LiveClaim(r, p, t + 1) PROVE LiveClaim(r, p, t)
  BY Zenon DEF Steady
<1>1. p \in Transferable(r) /\ r.reservations[p] # None
  BY Zenon DEF LiveClaim, Transferable, Reserved
<1>2. r.reservations[p].absent_since \in Nat \cup {None}
  BY Zenon, <1>1 DEF Rooms, Reservations
<1> DEFINE x == r.reservations[p].absent_since
<1> HIDE DEF x
<1>3. x \in Nat => (Since(t + 1, x) < PEER_RESERVATION_GRACE => Since(t, x) < PEER_RESERVATION_GRACE)
  BY RoomConstants DEF Since
<1> QED BY Zenon, <1>1, <1>2, <1>3 DEF LiveClaim, x

\* Setting closing changes nobody's ownership.
LEMMA ClosingOwners ==
  ASSUME NEW r \in Rooms
  PROVE  OwnersKept(r, [r EXCEPT !.closing = TRUE])
BY Zenon DEF OwnersKept, Owner, Rooms

\* Every identity keeps its owner, and a room that closes stays closing.
Retains(r, s) == OwnersKept(r, s) /\ s.closing = r.closing

\* What finish_leave makes of the identity p that is given up.
LeaveOutcome(r, s, p, persisted) ==
  \/ s = r
  \/ ~persisted /\ s.reservations[p] # None
  \/ persisted /\ r.reservations[p] # None /\ s.reservations[p] = None

\* Traffic only marks the room as active.
LEMMA TrafficOwners ==
  ASSUME NEW r \in Rooms, NEW p, NEW k, NEW target, NEW t
  PROVE  /\ Retains(r, Broadcast(r, p, k, t).room)
         /\ Steady(r, Broadcast(r, p, k, t).room, t, t)
         /\ Retains(r, SendTo(r, p, k, target, t).room)
         /\ Steady(r, SendTo(r, p, k, target, t).room, t, t)
<1> DEFINE x == [r EXCEPT !.last_activity_at = t]
<1>1. /\ x.host_peer_id = r.host_peer_id /\ x.host_verifier = r.host_verifier
      /\ x.reservations = r.reservations /\ x.closing = r.closing
  BY Zenon DEF Rooms
<1>2. OwnersKept(r, x) /\ Steady(r, x, t, t)
  BY Zenon, <1>1, DropsSteady
<1>3. Broadcast(r, p, k, t).room \in {r, x} /\ SendTo(r, p, k, target, t).room \in {r, x}
  BY Zenon DEF Broadcast, SendTo
<1> HIDE DEF x
<1>4. Retains(r, r) /\ Steady(r, r, t, t) /\ Retains(r, x)
  BY Zenon, <1>1, <1>2, SameSteady DEF Retains
<1> QED BY Zenon, <1>2, <1>3, <1>4

\* A prune drops what is past its grace period.
LEMMA PruneSteady ==
  ASSUME NEW r \in Rooms, NEW t
  PROVE  LET q == PruneExpiredReservations(r, t)
         IN  OwnersKept(r, q) /\ Steady(r, q, t, t) /\ q.closing = r.closing
<1> DEFINE q == PruneExpiredReservations(r, t)
<1>1. /\ q.host_peer_id = r.host_peer_id /\ q.host_verifier = r.host_verifier
      /\ q.closing = r.closing
      /\ q.reservations = [p \in PeerIds |->
           IF p \in Expired(r, t) THEN None ELSE r.reservations[p]]
  BY ZenonT(30), PruneFields
<1> HIDE DEF q
<1>2. \A p \in PeerIds : q.reservations[p] \in {r.reservations[p], None}
  BY Zenon, <1>1
<1>3. OwnersKept(r, q) /\ Steady(r, q, t, t)
  BY Zenon, <1>1, <1>2, DropsSteady
<1> QED BY Zenon, <1>1, <1>3 DEF q

\* A join or resume leaves an open room open; one that is refused prunes.
LEMMA JoinSteady ==
  ASSUME NEW r \in Rooms, NEW p \in PeerIds, NEW token, NEW adm \in Admissions,
         NEW resume_only \in BOOLEAN, NEW t \in Nat
  PROVE  LET res == JoinOrResume(r, p, token, adm, resume_only, t)
         IN  /\ res.room.closing = r.closing
             /\ res.eff.assigned_conn_id = None => Steady(r, res.room, t, t)
<1> DEFINE q == PruneExpiredReservations(r, t)
           s == Enter(q, p, FromToken(token), adm, t)
           res == JoinOrResume(r, p, token, adm, resume_only, t)
<1>1. /\ q \in Rooms /\ q.closing = r.closing /\ Steady(r, q, t, t) /\ Steady(r, r, t, t)
      /\ q.next_conn_id \in Nat
  BY Zenon, PruneFields, PruneSteady, SameSteady DEF Rooms
<1>2. s.closing = q.closing
  BY Zenon, <1>1 DEF Enter, Reserve, Admit, Rooms
<1>3. \/ res.room \in {r, q}
      \/ res.room = s /\ res.eff.assigned_conn_id = q.next_conn_id
  BY Zenon DEF JoinOrResume, Effects
<1> HIDE DEF q, s, res
<1>4. q.next_conn_id # None
  BY Zenon, <1>1, NoneIsNoValue
<1> QED BY Zenon, <1>1, <1>2, <1>3, <1>4 DEF res

\* reconnect_host always admits, and leaves an open room open.
LEMMA ReconnectAdmits ==
  ASSUME NEW r \in Rooms, NEW adm \in Admissions
  PROVE  LET res == ReconnectHost(r, adm)
         IN  res.room.closing = r.closing /\ res.eff.assigned_conn_id # None
<1>1. r.host_peer_id \in PeerIds /\ r.next_conn_id \in Nat
  BY Zenon DEF Rooms
<1>2. Admit(r, r.host_peer_id, adm).closing = r.closing
  BY Zenon, <1>1, AdmitFields
<1>3. /\ ReconnectHost(r, adm).room = Admit(r, r.host_peer_id, adm)
      /\ ReconnectHost(r, adm).eff.assigned_conn_id = r.next_conn_id
  BY Zenon DEF ReconnectHost, Effects
<1> QED BY Zenon, <1>1, <1>2, <1>3, NoneIsNoValue

\* begin_leave only marks the reservation.
LEMMA BeginLeaveOwners ==
  ASSUME NEW r \in Rooms, NEW p \in PeerIds, r.reservations[p] # None
  PROVE  LET s == BeginLeave(r, p)
         IN  OwnersKept(r, s) /\ s.closing = r.closing
<1> DEFINE s == BeginLeave(r, p)
<1>1. /\ s.host_peer_id = r.host_peer_id /\ s.host_verifier = r.host_verifier
      /\ s.closing = r.closing
      /\ s.reservations = [r.reservations EXCEPT ![p].release_pending = TRUE]
  BY Zenon DEF BeginLeave, Rooms
<1>2. r.reservations \in [PeerIds -> Reservations \cup {None}] /\ r.reservations[p] \in Reservations
  BY Zenon DEF Rooms
<1> HIDE DEF s
<1>3. s.reservations[p].verifier = r.reservations[p].verifier
  BY Zenon, <1>1, <1>2 DEF Reservations
<1>4. \A q \in PeerIds \ {p} : s.reservations[q] = r.reservations[q]
  BY Zenon, <1>1, <1>2
<1>5. \A q \in PeerIds : s.reservations[q] # None =>
        r.reservations[q] # None /\ s.reservations[q].verifier = r.reservations[q].verifier
  BY Zenon, <1>3, <1>4
<1>6. OwnersKept(r, s)
  BY Zenon, <1>1, <1>5 DEF OwnersKept, Owner
<1> QED BY Zenon, <1>1, <1>6 DEF s

\* finish_leave frees the identity, rolls back, or finds nothing to do.
LEMMA FinishLeaveOwners ==
  ASSUME NEW r \in Rooms, NEW p \in PeerIds, NEW k, NEW persisted \in BOOLEAN, NEW t
  PROVE  /\ Retains(r, FinishLeave(r, p, k, persisted, t).room)
         /\ LeaveOutcome(r, FinishLeave(r, p, k, persisted, t).room, p, persisted)
<1> DEFINE s == FinishLeave(r, p, k, persisted, t).room
           gone == [r EXCEPT !.peers[p] = None, !.reservations[p] = None,
                             !.last_activity_at = t]
           back == [r EXCEPT !.reservations[p].release_pending = FALSE]
<1>1. \/ s = r
      \/ ~persisted /\ r.reservations[p] # None /\ s = back
      \/ persisted /\ r.reservations[p] # None /\ s = gone
  BY Zenon DEF FinishLeave, StillOwns
<1> HIDE DEF s
<1> SUFFICES Retains(r, s) /\ LeaveOutcome(r, s, p, persisted)
  BY Zenon DEF s
<1> USE DEF Retains, LeaveOutcome
<1>2. CASE s = r
  BY Zenon, <1>2, SameSteady
<1>3. CASE ~persisted /\ r.reservations[p] # None /\ s = back
  <2>1. /\ s.host_peer_id = r.host_peer_id /\ s.host_verifier = r.host_verifier
        /\ s.closing = r.closing
        /\ s.reservations = [r.reservations EXCEPT ![p].release_pending = FALSE]
    BY Zenon, <1>3 DEF Rooms
  <2>2. r.reservations \in [PeerIds -> Reservations \cup {None}] /\ r.reservations[p] \in Reservations
    BY Zenon, <1>3 DEF Rooms
  <2>3. /\ s.reservations[p].verifier = r.reservations[p].verifier
        /\ s.reservations[p] \in Reservations
    BY Zenon, <2>1, <2>2 DEF Reservations
  <2>4. \A q \in PeerIds \ {p} : s.reservations[q] = r.reservations[q]
    BY Zenon, <2>1, <2>2
  <2>5. \A q \in PeerIds : s.reservations[q] # None =>
          r.reservations[q] # None /\ s.reservations[q].verifier = r.reservations[q].verifier
    BY Zenon, <1>3, <2>3, <2>4
  <2>6. OwnersKept(r, s)
    BY Zenon, <2>1, <2>5 DEF OwnersKept, Owner
  <2> QED BY Zenon, <1>3, <2>1, <2>3, <2>6, NoneIsNoValue
<1>4. CASE persisted /\ r.reservations[p] # None /\ s = gone
  <2>1. /\ s.host_peer_id = r.host_peer_id /\ s.host_verifier = r.host_verifier
        /\ s.closing = r.closing
        /\ s.reservations = [r.reservations EXCEPT ![p] = None]
    BY Zenon, <1>4 DEF Rooms
  <2>2. \A q \in PeerIds : s.reservations[q] \in {r.reservations[q], None}
    BY Zenon, <2>1 DEF Rooms
  <2>3. s.reservations[p] = None
    BY Zenon, <2>1 DEF Rooms
  <2> QED BY Zenon, <1>4, <2>1, <2>2, <2>3, DropsSteady
<1> QED BY Zenon, <1>1, <1>2, <1>3, <1>4

\* finish_end_session frees the guests' identities.
LEMMA FinishEndOwners ==
  ASSUME NEW r \in Rooms, NEW guests, NEW persisted \in BOOLEAN
  PROVE  LET s == FinishEndSession(r, guests, persisted).room
         IN  OwnersKept(r, s) /\ s.closing = r.closing
<1> DEFINE s == FinishEndSession(r, guests, persisted).room
<1>1. /\ s.host_peer_id = r.host_peer_id /\ s.host_verifier = r.host_verifier
      /\ s.closing = r.closing
      /\ s.reservations = [p \in PeerIds |-> None]
  BY ZenonT(30) DEF FinishEndSession, Rooms
<1> HIDE DEF s
<1>2. OwnersKept(r, s)
  BY <1>1, DropsOwners
<1> QED BY Zenon, <1>1, <1>2 DEF s

\* transfer_host moves the role and leaves every identity with its owner.
LEMMA TransferOwners ==
  ASSUME NEW r \in Rooms, NEW p, NEW k, NEW version_ok \in BOOLEAN, NEW target \in PeerIds
  PROVE  Retains(r, TransferHost(r, p, k, version_ok, target).room)
<1> DEFINE x == SwapHost(r, target)
           h == r.host_peer_id
<1>1. CASE TransferError(r, p, k, version_ok, target) # None
  BY ZenonT(30), <1>1, SameSteady DEF TransferHost, Retains
<1>2. CASE TransferError(r, p, k, version_ok, target) = None
  <2>0. target # h /\ target \in Transferable(r)
    BY Zenon, <1>2, TransferAllowed
  <2>1. r.reservations[target] # None /\ target # h /\ h \in PeerIds
    BY Zenon, <2>0 DEF Transferable, Reserved, Rooms
  <2>2. /\ x.reservations = [r.reservations EXCEPT ![target] = None, ![h] =
             [verifier |-> r.host_verifier, absent_since |-> None, release_pending |-> FALSE]]
        /\ x.host_peer_id = target /\ x.host_verifier = r.reservations[target].verifier
        /\ x.closing = r.closing
    BY Zenon, <2>1, SwapHostFields
  <2>3. r.reservations \in [PeerIds -> Reservations \cup {None}]
    BY Zenon DEF Rooms
  <2> HIDE DEF x
  <2>4. /\ x.reservations[h] # None /\ x.reservations[h].verifier = r.host_verifier
        /\ \A q \in PeerIds \ {h, target} : x.reservations[q] = r.reservations[q]
    <3>1. r.host_verifier \in Verifiers
      BY Zenon DEF Rooms
    <3>2. [verifier |-> r.host_verifier, absent_since |-> None, release_pending |-> FALSE] # None
      BY Zenon, <3>1, ReservationType, NoneIsNoValue
    <3> QED BY SMTT(30), <2>1, <2>2, <2>3, <3>2
  <2>5. OwnersKept(r, x)
    BY Zenon, <2>1, <2>2, <2>4 DEF OwnersKept, Owner
  <2> QED BY Zenon, <1>2, <2>2, <2>5 DEF TransferHost, x, Retains
<1> QED BY Zenon, <1>1, <1>2

\* A disconnect starts a clock.
LEMMA DisconnectOwners ==
  ASSUME NEW r \in Rooms, NEW p \in PeerIds, NEW k, NEW t \in Nat
  PROVE  LET s == HandleDisconnect(r, p, k, t).room
         IN  OwnersKept(r, s) /\ s.closing = r.closing
<1> DEFINE x == Vacate(r, p, t)
<1>1. /\ x.host_peer_id = r.host_peer_id /\ x.host_verifier = r.host_verifier
      /\ x.closing = r.closing
      /\ \/ x.reservations = r.reservations
         \/ /\ r.reservations[p] # None
            /\ x.reservations = [r.reservations EXCEPT ![p] =
                                   [r.reservations[p] EXCEPT !.absent_since = t]]
  BY ZenonT(30), VacateFields
<1>2. r.reservations \in [PeerIds -> Reservations \cup {None}]
  BY Zenon DEF Rooms
<1> HIDE DEF x
<1>3. \A q \in PeerIds : x.reservations[q] # None =>
        r.reservations[q] # None /\ x.reservations[q].verifier = r.reservations[q].verifier
  BY <1>1, <1>2 DEF Reservations
<1>4. OwnersKept(r, x)
  BY <1>1, <1>3, DropsOwners
<1>5. HandleDisconnect(r, p, k, t).room \in {r, x}
  BY Zenon DEF HandleDisconnect, x
<1> QED BY Zenon, <1>1, <1>4, <1>5, SameSteady

\* The sweep prunes, and closes what it removes.
LEMMA SweepOwners ==
  ASSUME NEW r \in Rooms, NEW started, NEW t
  PROVE  LET res == SweepState(r, started, t)
         IN  OwnersKept(r, res.room) /\ (~res.remove => res.room.closing = r.closing)
<1> DEFINE q == PruneExpiredReservations(r, t)
           x == [q EXCEPT !.closing = TRUE, !.peers = [p \in PeerIds |-> None]]
           res == SweepState(r, started, t)
<1>1. q \in Rooms /\ OwnersKept(r, q) /\ q.closing = r.closing
  BY Zenon, PruneFields, PruneSteady
<1>2. res.room = IF res.remove THEN x ELSE q
  BY Zenon DEF SweepState
<1> HIDE DEF q, res
<1>3. OwnersKept(r, x)
  BY Zenon, <1>1 DEF OwnersKept, Owner, Rooms
<1> QED BY Zenon, <1>1, <1>2, <1>3 DEF res
-----------------------------------------------------------------------------
(* What a step may do to whom *)

\* A cancellation moves nobody.
LEMMA CancelStays ==
  ASSUME NEW conns \in [Conns -> ConnStates], NEW a, NEW evict
  PROVE  \A d \in Conns : Follows(conns[d], Cancel(conns, a, evict)[d])
<1> TAKE d \in Conns
<1> DEFINE cs == Cancel(conns, a, evict)[d]
<1>1. cs = conns[d] \/ cs = [conns[d] EXCEPT !.cancelled = TRUE]
  BY Zenon DEF Cancel
<1>2. conns[d] \in ConnStates
  BY Zenon
<1> HIDE DEF cs
<1>3. Follows(conns[d], cs)
  BY Zenon, <1>1, <1>2 DEF Follows, ConnStates
<1> QED BY Zenon, <1>3 DEF cs

\* A step that leaves the rooms alone.
LEMMA SameRoomsFrame ==
  ASSUME IndInv, UNCHANGED <<rooms, registry, now>>
  PROVE  Evolves(rooms, rooms') /\ Owned /\ ClosesNothing /\ Calm
<1>1. Owned
  BY Zenon, SameSteady DEF Owned
<1>2. ClosesNothing
  BY Zenon DEF ClosesNothing
<1>3. Calm
  BY Zenon, SameSteady DEF Calm
<1> QED BY Zenon, <1>1, <1>2, <1>3, NothingEvolves

\* A step that applies a method to one room.
LEMMA MethodFrame ==
  ASSUME IndInv, NEW a \in Handles, rooms[a] # None, NEW s, RoomOK(s),
         SameRoom(rooms[a], s), rooms' = [rooms EXCEPT ![a] = s],
         UNCHANGED <<registry, now>>
  PROVE  /\ Evolves(rooms, rooms')
         /\ OwnersKept(rooms[a], s) => Owned
         /\ s.closing = rooms[a].closing => ClosesNothing
         /\ s.closing \/ Steady(rooms[a], s, now, now) => Calm
<1>1. /\ rooms \in [Handles -> Rooms \cup {None}]
      /\ \A x \in Sessions : registry[x] # None => registry[x] \in Handles
  BY Zenon DEF IndInv, RoomTableOK, RegistryOK
<1>2. rooms'[a] = s /\ \A b \in Handles : b # a => rooms'[b] = rooms[b]
  BY Zenon, <1>1
<1>3. Evolves(rooms, rooms')
  BY Zenon, UpdateRoom DEF IndInv
<1>4. ASSUME OwnersKept(rooms[a], s) PROVE Owned
  BY Zenon, <1>2, <1>4, SameSteady DEF Owned
<1>5. ASSUME s.closing = rooms[a].closing PROVE ClosesNothing
  BY Zenon, <1>1, <1>2, <1>5 DEF ClosesNothing
<1>6. ASSUME s.closing \/ Steady(rooms[a], s, now, now) PROVE Calm
  <2> SUFFICES ASSUME NEW x \in Sessions, registry[x] # None, ~rooms'[registry[x]].closing
               PROVE  /\ ~rooms[registry[x]].closing
                      /\ Steady(rooms[registry[x]], rooms'[registry[x]], now, now)
    BY Zenon DEF Calm
  <2>1. CASE registry[x] = a
    BY ZenonT(30), <1>2, <1>6, <2>1 DEF SameRoom
  <2>2. CASE registry[x] # a
    BY Zenon, <1>1, <1>2, <2>2, SameSteady
  <2> QED BY ZenonT(30), <2>1, <2>2
<1> QED BY Zenon, <1>3, <1>4, <1>5, <1>6

\* Only c moves, and whoever it evicts is cancelled.
LEMMA ConnFrame ==
  ASSUME IndInv, NEW c \in Conns, NEW cs \in ConnStates, NEW a, NEW evict,
         \/ conn' = [conn EXCEPT ![c] = cs]
         \/ conn' = Cancel([conn EXCEPT ![c] = cs], a, evict)
  PROVE  OthersStay({c}) /\ conn'[c].pc = cs.pc /\ conn'[c].seat = cs.seat
<1> DEFINE conns == [conn EXCEPT ![c] = cs]
<1>1. /\ conns \in [Conns -> ConnStates] /\ conns[c] = cs
      /\ \A d \in Conns \ {c} : conns[d] = conn[d]
  BY Zenon DEF IndInv, ConnsOK
<1> HIDE DEF conns
<1>2. \A d \in Conns : Follows(conns[d], conns[d])
  BY Zenon DEF Follows
<1>3. \A d \in Conns : Follows(conns[d], Cancel(conns, a, evict)[d])
  BY Zenon, <1>1, CancelStays
<1>4. conn' = conns \/ conn' = Cancel(conns, a, evict)
  BY Zenon DEF conns
<1>5. \A d \in Conns : Follows(conns[d], conn'[d])
  BY Zenon, <1>2, <1>3, <1>4
<1>6. OthersStay({c})
  BY Zenon, <1>1, <1>5 DEF OthersStay
<1> QED BY Zenon, <1>1, <1>5, <1>6 DEF Follows

\* An admission, by reconnect_host or by join_or_resume.
LEMMA AdmissionFrame ==
  ASSUME IndInv, NEW c \in Conns, CreateReconnect(c) \/ JoinEnter(c)
  PROVE  Frame(c) /\ ClosesNothing /\ (conn'[c].seat = None => Calm)
<1> DEFINE a == conn[c].handle
           m == conn[c].request
           adm == Admission(c, m.meta)
           resume_only == m.type = "resume"
           r == rooms[a]
           res == IF conn[c].pc = "reconnect" THEN ReconnectHost(r, adm)
                  ELSE JoinOrResume(r, m.peer_id, m.token, adm, resume_only, now)
           eff == res.eff
           seat == IF eff.assigned_conn_id = None THEN None
                   ELSE Seat(a, m.peer_id, eff.assigned_conn_id)
           cs == Resume(conn[c], seat)
<1>1. conn[c].pc \in CreateSteps \cup {"join"}
  BY Zenon DEF CreateReconnect, JoinEnter, CreateSteps
<1>2. /\ a \in Handles /\ r # None /\ r \in Rooms /\ RoomOK(r) /\ conn[c] \in ConnStates
      /\ m.peer_id \in PeerIds /\ m.meta \in Metas /\ now \in Nat
  BY Zenon, <1>1, RequestFacts DEF IndInv
<1>3. adm \in Admissions /\ resume_only \in BOOLEAN
  BY Zenon, <1>2, AdmissionType
<1>4. /\ rooms' = [rooms EXCEPT ![a] = res.room]
      /\ conn' = AfterAdmission(c, a, m.peer_id, eff)
      /\ UNCHANGED <<registry, sweep, now>>
  BY Zenon DEF CreateReconnect, JoinEnter
<1> HIDE DEF a, m, adm, resume_only
<1>5. RoomOK(res.room) /\ SameRoom(r, res.room)
  <2>1. /\ RoomOK(ReconnectHost(r, adm).room) /\ SameRoom(r, ReconnectHost(r, adm).room)
    BY Zenon, <1>2, <1>3, ReconnectHostOK, ReconnectHostSame
  <2>2. LET s == JoinOrResume(r, m.peer_id, m.token, adm, resume_only, now).room
        IN  RoomOK(s) /\ SameRoom(r, s)
    BY Zenon, <1>2, <1>3, JoinOrResumeOK, JoinOrResumeSame
  <2> QED BY Zenon, <2>1, <2>2
<1>6. res.room.closing = r.closing /\ (eff.assigned_conn_id = None => Steady(r, res.room, now, now))
  <2>1. LET x == ReconnectHost(r, adm)
        IN  x.room.closing = r.closing /\ x.eff.assigned_conn_id # None
    BY Zenon, <1>2, <1>3, ReconnectAdmits
  <2>2. LET x == JoinOrResume(r, m.peer_id, m.token, adm, resume_only, now)
        IN  /\ x.room.closing = r.closing
            /\ x.eff.assigned_conn_id = None => Steady(r, x.room, now, now)
    BY Zenon, <1>2, <1>3, JoinSteady
  <2> QED BY Zenon, <2>1, <2>2
<1>7. eff.assigned_conn_id \in Nat \cup {None}
  <2>1. PruneExpiredReservations(r, now).next_conn_id \in Nat /\ r.next_conn_id \in Nat
    BY Zenon, <1>2, PruneFields DEF Rooms
  <2> QED BY Zenon, <2>1 DEF JoinOrResume, ReconnectHost, Effects, Error
<1> HIDE DEF res
<1>8. seat \in Seats \cup {None} /\ (seat = None => eff.assigned_conn_id = None)
  <2>1. eff.assigned_conn_id # None => seat \in Seats
    BY Zenon, <1>2, <1>7 DEF Seat, Seats
  <2> QED BY Zenon, <2>1, RelayConstants
<1>9. conn' = Cancel([conn EXCEPT ![c] = cs], a, eff.evict)
  BY Zenon, <1>4 DEF AfterAdmission, IndInv, ConnsOK
<1> HIDE DEF seat, eff
<1>10. cs \in ConnStates /\ cs.seat = seat
  BY Zenon, <1>2, <1>8 DEF Resume, ConnStates, ConnSteps
<1> HIDE DEF cs
<1>11. OthersStay({c}) /\ conn'[c].seat = seat
  BY Zenon, <1>9, <1>10, ConnFrame
<1>12. /\ Evolves(rooms, rooms') /\ ClosesNothing
       /\ Steady(r, res.room, now, now) => Calm
  BY Zenon, <1>2, <1>4, <1>5, <1>6, MethodFrame
<1> QED BY Zenon, <1>4, <1>6, <1>8, <1>11, <1>12 DEF Frame, eff

\* Room by room, the table and the registry are those given, with an open
\* room more if c was seated.
OpenedBy(c, rms, reg) ==
  /\ \A x \in Sessions : registry'[x] # None /\ rooms'[registry'[x]].closing =>
       registry'[x] = reg[x] /\ rooms'[reg[x]] = rms[reg[x]]
  /\ conn'[c].seat = None => rooms' = rms /\ registry' = reg

\* The last part of create opens a room or changes nothing.
LEMMA OpenRoomFrame ==
  ASSUME IndInv, NEW c \in Conns, NEW m \in Requests, m.token \in Tokens,
         NEW rms, NEW reg, NEW quota, NEW conns \in [Conns -> ConnStates],
         RoomTableOK(rms), RegistryOK(rms, reg), Evolves(rooms, rms),
         \A a \in Handles : rooms[a] = None => rms[a] = None,
         \A d \in Conns \ {c} : conns[d] = conn[d],
         OpenRoom(c, m, rms, reg, quota, conns)
  PROVE  Evolves(rooms, rooms') /\ OthersStay({c}) /\ OpenedBy(c, rms, reg)
<1> DEFINE new == NewRoom(m.session_id, m.peer_id, FromToken(m.token), IpOf[c],
                          Admission(c, m.meta), now).room
<1>1. /\ conn \in [Conns -> ConnStates] /\ m.peer_id \in PeerIds
      /\ rms \in [Handles -> Rooms \cup {None}]
      /\ reg \in [Sessions -> Handles \cup {None}]
      /\ \A x \in Sessions : reg[x] # None => rms[reg[x]] # None
  BY Zenon DEF Requests, IndInv, ConnsOK, RoomTableOK, RegistryOK
<1>2. \A x : [conns EXCEPT ![c] = x] = [conn EXCEPT ![c] = x]
  BY Zenon, <1>1
<1>3. ~new.closing /\ new.owner_ip_key # NoIp /\ Reserved(new) = {}
  <2>1. ~new.closing /\ new.owner_ip_key = IpOf[c] /\ new.reservations = [p \in PeerIds |-> None]
    BY ZenonT(30) DEF NewRoom
  <2> HIDE DEF new
  <2>2. Reserved(new) = {}
    BY Zenon, <2>1 DEF Reserved
  <2> QED BY Zenon, <2>1, <2>2, RelayConstants
<1>4. \A cs : conn' = [conn EXCEPT ![c] = cs] => OthersStay({c}) /\ conn'[c] = cs
  BY Zenon, <1>1 DEF OthersStay, Follows
<1> HIDE DEF new
<1>5. CASE /\ rooms' = rms /\ registry' = reg
           /\ conn' = [conns EXCEPT ![c] = Resume(@, None)]
  <2>1. conn' = [conn EXCEPT ![c] = Resume(conns[c], None)]
    BY Zenon, <1>2, <1>5
  <2> QED BY Zenon, <1>4, <1>5, <2>1 DEF OpenedBy
<1>6. CASE \E a \in Unused :
             /\ rooms' = [rms EXCEPT ![a] = new]
             /\ registry' = [reg EXCEPT ![m.session_id] = a]
             /\ conn' = [conns EXCEPT ![c] = Resume(@, Seat(a, m.peer_id, 1))]
  <2>1. PICK a \in Unused :
             /\ rooms' = [rms EXCEPT ![a] = new]
             /\ registry' = [reg EXCEPT ![m.session_id] = a]
             /\ conn' = [conns EXCEPT ![c] = Resume(@, Seat(a, m.peer_id, 1))]
    BY Zenon, <1>6
  <2> DEFINE seat == Seat(a, m.peer_id, 1)
             cs == Resume(conns[c], seat)
  <2>2. a \in Handles /\ rooms[a] = None /\ rms[a] = None
    BY Zenon DEF Unused
  <2>3. conn' = [conn EXCEPT ![c] = cs]
    BY Zenon, <1>2, <2>1
  <2>4. seat # None
    BY SMTT(30), <1>1, <2>2, RelayConstants DEF Seat, Seats
  <2> HIDE DEF seat
  <2>5. cs.seat = seat
    BY Zenon DEF Resume, ConnStates
  <2> HIDE DEF cs
  <2>6. OthersStay({c}) /\ conn'[c].seat # None
    BY ZenonT(30), <1>4, <2>3, <2>4, <2>5
  <2>7. rooms'[a] = new /\ \A b \in Handles : b # a => rooms'[b] = rms[b]
    BY Zenon, <1>1, <2>1, <2>2
  <2>8. Evolves(rooms, rooms')
    <3> SUFFICES ASSUME NEW b \in Handles
                 PROVE  /\ rooms[b] # None => rooms'[b] # None /\ SameRoom(rooms[b], rooms'[b])
                        /\ rooms[b] = None /\ rooms'[b] # None =>
                             Reserved(rooms'[b]) = {} /\ rooms'[b].owner_ip_key # NoIp
      BY Zenon DEF Evolves
    <3>1. CASE b = a
      BY Zenon, <1>3, <2>2, <2>7, <3>1
    <3>2. CASE b # a
      BY ZenonT(30), <2>2, <2>7, <3>2 DEF Evolves
    <3> QED BY Zenon, <3>1, <3>2
  <2>9. \A x \in Sessions : registry'[x] = a \/ registry'[x] = reg[x]
    BY Zenon, <1>1, <2>1
  <2>10. ASSUME NEW x \in Sessions, registry'[x] # None, rooms'[registry'[x]].closing
         PROVE  registry'[x] = reg[x] /\ rooms'[reg[x]] = rms[reg[x]]
    <3>1. registry'[x] # a
      BY Zenon, <1>3, <2>7, <2>10
    <3> QED BY ZenonT(30), <1>1, <2>7, <2>9, <2>10, <3>1
  <2> QED BY Zenon, <2>6, <2>8, <2>10 DEF OpenedBy
<1> QED BY Zenon, <1>5, <1>6 DEF OpenRoom, new

\* create, of a room that is new or takes the place of an empty one.
LEMMA OpeningFrame ==
  ASSUME IndInv, NEW c \in Conns,
         CreateReclaim(c) \/ \E m \in Requests : CreateNew(c, m)
  PROVE  Frame(c) /\ ClosesNothing /\ (conn'[c].seat = None => Calm)
<1>0. UNCHANGED <<sweep, now>>
  BY Zenon DEF CreateReclaim, CreateNew
<1>1. ASSUME NEW m \in Requests, CreateNew(c, m)
      PROVE  Frame(c) /\ ClosesNothing /\ (conn'[c].seat = None => Calm)
  <2> DEFINE conns == [conn EXCEPT ![c] = Send(c, m, "idle", None)]
  <2>1. conn \in [Conns -> ConnStates] /\ "idle" \in ConnSteps
    BY Zenon DEF IndInv, ConnsOK, ConnSteps
  <2>2. Send(c, m, "idle", None) \in ConnStates
    BY Zenon, <2>1, SendType
  <2>3. conns \in [Conns -> ConnStates] /\ \A d \in Conns \ {c} : conns[d] = conn[d]
    BY Zenon, <2>1, <2>2
  <2>4. m.token \in Tokens /\ OpenRoom(c, m, rooms, registry, rooms_per_ip, conns)
    BY Zenon, <1>1 DEF CreateNew, FromToken
  <2> HIDE DEF conns
  <2>5. /\ RoomTableOK(rooms) /\ RegistryOK(rooms, registry) /\ Evolves(rooms, rooms)
        /\ \A a \in Handles : rooms[a] = None => rooms[a] = None
    BY Zenon, NothingEvolves DEF IndInv
  <2>6. Evolves(rooms, rooms') /\ OthersStay({c}) /\ OpenedBy(c, rooms, registry)
    BY Zenon, <2>3, <2>4, <2>5, OpenRoomFrame
  <2>7. ClosesNothing
    BY Zenon, <2>6 DEF ClosesNothing, OpenedBy
  <2>8. conn'[c].seat = None => Calm
    BY Zenon, <1>0, <2>6, SameRoomsFrame DEF OpenedBy
  <2> QED BY Zenon, <1>0, <2>6, <2>7, <2>8 DEF Frame
<1>2. CASE CreateReclaim(c)
  <2> DEFINE a == conn[c].handle
             m == conn[c].request
             rms == [rooms EXCEPT ![a].closing = TRUE]
             reg == [registry EXCEPT ![m.session_id] = None]
             quota == Release(rooms_per_ip, rooms[a].owner_ip_key)
  <2>1. conn \in [Conns -> ConnStates] /\ rooms \in [Handles -> Rooms \cup {None}]
    BY Zenon DEF IndInv, ConnsOK, RoomTableOK
  <2>2. /\ m \in Requests /\ m.token \in Tokens /\ m.session_id \in Sessions
        /\ registry[m.session_id] = a
        /\ RoomTableOK(rms) /\ RegistryOK(rms, reg) /\ Evolves(rooms, rms)
        /\ \A b \in Handles : rooms[b] = None => rms[b] = None
        /\ OpenRoom(c, m, rms, reg, quota, conn)
    <3>1. conn[c].pc = "reclaim" /\ OpenRoom(c, m, rms, reg, quota, conn)
      BY Zenon, <1>2 DEF CreateReclaim
    <3> QED BY Zenon, <3>1, ReclaimFacts
  <2>3. \A b \in Handles : b # a => rms[b] = rooms[b]
    BY Zenon, <2>1
  <2>4. registry \in [Sessions -> Handles \cup {None}]
    BY Zenon DEF IndInv, RegistryOK
  <2>5. \A x \in Sessions : reg[x] # None => reg[x] = registry[x] /\ x # m.session_id
    BY Zenon, <2>2, <2>4
  <2> HIDE DEF a, m, rms, reg, quota
  <2>6. \A x \in Sessions : reg[x] # None => reg[x] = registry[x] /\ rms[reg[x]] = rooms[reg[x]]
    <3> SUFFICES ASSUME NEW x \in Sessions, reg[x] # None
                 PROVE  reg[x] = registry[x] /\ rms[reg[x]] = rooms[reg[x]]
      BY Zenon
    <3>1. reg[x] = registry[x] /\ x # m.session_id /\ reg[x] \in Handles
      BY Zenon, <2>4, <2>5
    <3>2. reg[x] # a
      BY SMTT(30), <2>2, <3>1 DEF IndInv, RegistryOK
    <3> QED BY Zenon, <2>3, <3>1, <3>2
  <2>7. Evolves(rooms, rooms') /\ OthersStay({c}) /\ OpenedBy(c, rms, reg)
    BY Zenon, <2>1, <2>2, OpenRoomFrame
  <2>8. ClosesNothing
    BY SMTT(30), <2>6, <2>7 DEF ClosesNothing, OpenedBy
  <2>9. conn'[c].seat = None => Calm
    BY Zenon, <1>0, <2>6, <2>7, SameSteady DEF Calm, OpenedBy
  <2> QED BY Zenon, <1>0, <2>7, <2>8, <2>9 DEF Frame
<1> QED BY Zenon, <1>1, <1>2

\* transferHost, and the end of a connection.
LEMMA ChangingFrame ==
  ASSUME IndInv, NEW c \in Conns,
         \/ \E version_ok \in BOOLEAN, target \in PeerIds : CallTransferHost(c, version_ok, target)
         \/ Close(c)
  PROVE  Frame(c) /\ Owned /\ ClosesNothing /\ (rooms' = rooms => Calm)
<1> DEFINE seat == conn[c].seat
           r == rooms[seat.room]
<1>0. UNCHANGED <<registry, sweep, now>> /\ now \in Nat /\ (rooms' = rooms => Calm)
  <2>1. UNCHANGED <<registry, sweep, now>> /\ now \in Nat
    BY Zenon DEF CallTransferHost, Call, Close, IndInv
  <2> QED BY Zenon, <2>1, SameRoomsFrame
<1>1. ASSUME NEW version_ok \in BOOLEAN, NEW target \in PeerIds,
             CallTransferHost(c, version_ok, target)
      PROVE  Frame(c) /\ Owned /\ ClosesNothing
  <2> DEFINE s == TransferHost(r, seat.peer_id, seat.conn_id, version_ok, target).room
  <2>1. seat # None /\ conn' = conn /\ rooms' = [rooms EXCEPT ![seat.room] = s]
    BY Zenon, <1>1 DEF CallTransferHost, Call, InRoom
  <2>2. /\ seat.room \in Handles /\ seat.peer_id \in PeerIds
        /\ r # None /\ r \in Rooms /\ RoomOK(r)
    BY Zenon, <2>1, SeatFacts
  <2>3. RoomOK(s) /\ SameRoom(r, s)
    BY Zenon, <2>2, TransferHostOK, TransferHostSame
  <2>4. OwnersKept(r, s) /\ s.closing = r.closing
    <3>1. Retains(r, s)
      BY Zenon, <2>2, TransferOwners
    <3> QED BY Zenon, <3>1 DEF Retains
  <2> HIDE DEF s
  <2>5. Evolves(rooms, rooms') /\ Owned /\ ClosesNothing
    BY Zenon, <1>0, <2>1, <2>2, <2>3, <2>4, MethodFrame
  <2>6. OthersStay({c})
    BY Zenon, <2>1 DEF OthersStay, Follows
  <2> QED BY Zenon, <1>0, <2>5, <2>6 DEF Frame
<1>2. CASE Close(c)
  <2> DEFINE cs == [Resume(conn[c], None) EXCEPT !.pc = "closed"]
  <2>1. conn \in [Conns -> ConnStates] /\ conn' = [conn EXCEPT ![c] = cs]
    BY Zenon, <1>2 DEF Close, IndInv, ConnsOK
  <2>2. cs \in ConnStates
    BY ZenonT(40), <2>1 DEF Resume, ConnStates, ConnSteps
  <2> HIDE DEF cs
  <2>3. OthersStay({c})
    BY Zenon, <2>1, <2>2, ConnFrame
  <2>4. CASE seat = None
    <3>1. rooms' = rooms
      BY Zenon, <1>2, <2>4 DEF Close
    <3> QED BY Zenon, <1>0, <2>3, <3>1, SameRoomsFrame DEF Frame
  <2>5. CASE seat # None
    <3> DEFINE s == HandleDisconnect(r, seat.peer_id, seat.conn_id, now).room
    <3>1. /\ seat.room \in Handles /\ seat.peer_id \in PeerIds
          /\ r # None /\ r \in Rooms /\ RoomOK(r)
      BY Zenon, <2>5, SeatFacts
    <3>2. rooms' = [rooms EXCEPT ![seat.room] = s]
      BY Zenon, <1>2, <2>5, <3>1 DEF Close, IndInv, RoomTableOK
    <3>3. RoomOK(s) /\ SameRoom(r, s)
      BY Zenon, <1>0, <3>1, HandleDisconnectOK, HandleDisconnectSame
    <3>4. OwnersKept(r, s) /\ s.closing = r.closing
      BY Zenon, <1>0, <3>1, DisconnectOwners
    <3> HIDE DEF s
    <3>5. Evolves(rooms, rooms') /\ Owned /\ ClosesNothing
      BY Zenon, <1>0, <3>1, <3>2, <3>3, <3>4, MethodFrame
    <3> QED BY Zenon, <1>0, <2>3, <3>5 DEF Frame
  <2> QED BY Zenon, <2>4, <2>5
<1> QED BY Zenon, <1>0, <1>1, <1>2

\* Steps that only move c.
LEMMA MovingFrame ==
  ASSUME IndInv, NEW c \in Conns, NEW cs \in ConnStates, conn' = [conn EXCEPT ![c] = cs],
         UNCHANGED <<rooms, registry, sweep, now>>
  PROVE  Frame(c) /\ Owned /\ ClosesNothing /\ Calm
<1>1. OthersStay({c})
  BY Zenon, ConnFrame
<1> QED BY Zenon, <1>1, SameRoomsFrame DEF Frame

\* Traffic, look-ups and refusals.
LEMMA SilentFrame ==
  ASSUME IndInv, NEW c \in Conns,
         \/ CreateCheck(c)
         \/ \E m \in Requests : CreateExisting(c, m) \/ JoinLookup(c, m)
         \/ \E token \in Tokens \cup {BadToken}, version_ok \in BOOLEAN :
              EndRefused(c, token, version_ok)
         \/ \E target \in PeerIds : CallSendTo(c, target)
         \/ CallBroadcast(c)
  PROVE  Frame(c) /\ Owned /\ ClosesNothing /\ Calm
<1>1. conn \in [Conns -> ConnStates] /\ registry \in [Sessions -> Handles \cup {None}] /\ now \in Nat
  BY Zenon DEF IndInv, ConnsOK, RegistryOK
<1>2. Resume(conn[c], None) \in ConnStates /\ Goto(conn[c], "reclaim") \in ConnStates
  BY Zenon, <1>1 DEF Resume, Goto, ConnStates, ConnSteps, CreateSteps
<1>3. CASE CreateCheck(c)
  <2> DEFINE cs == IF IsReclaimable(rooms[conn[c].handle]) THEN Goto(conn[c], "reclaim")
                   ELSE Resume(conn[c], None)
  <2>1. conn' = [conn EXCEPT ![c] = cs] /\ UNCHANGED <<rooms, registry, sweep, now>>
    BY Zenon, <1>1, <1>3 DEF CreateCheck
  <2>2. cs \in ConnStates
    BY Zenon, <1>2
  <2> HIDE DEF cs
  <2> QED BY Zenon, <2>1, <2>2, MovingFrame
<1>4. ASSUME NEW m \in Requests, CreateExisting(c, m) \/ JoinLookup(c, m)
      PROVE  Frame(c) /\ Owned /\ ClosesNothing /\ Calm
  <2>1. PICK pc \in ConnSteps : conn' = [conn EXCEPT ![c] = Send(c, m, pc, registry[m.session_id])]
    BY ZenonT(30), <1>4 DEF CreateExisting, JoinLookup, ConnSteps, CreateSteps
  <2>2. registry[m.session_id] \in Handles /\ UNCHANGED <<rooms, registry, sweep, now>>
    BY Zenon, <1>1, <1>4 DEF CreateExisting, JoinLookup, Requests
  <2>3. Send(c, m, pc, registry[m.session_id]) \in ConnStates
    BY ZenonT(30), <1>1, <2>2, SendType
  <2> QED BY Zenon, <2>1, <2>2, <2>3, MovingFrame
<1>5. ASSUME NEW token, NEW version_ok, EndRefused(c, token, version_ok)
      PROVE  Frame(c) /\ Owned /\ ClosesNothing /\ Calm
  <2>1. conn' = [conn EXCEPT ![c] = Resume(conn[c], None)] /\ UNCHANGED <<rooms, registry, sweep, now>>
    BY Zenon, <1>1, <1>5 DEF EndRefused
  <2> QED BY Zenon, <1>2, <2>1, MovingFrame
<1>6. ASSUME NEW target, CallSendTo(c, target) \/ CallBroadcast(c)
      PROVE  Frame(c) /\ Owned /\ ClosesNothing /\ Calm
  <2> DEFINE seat == conn[c].seat
             r == rooms[seat.room]
             u == SendTo(r, seat.peer_id, seat.conn_id, target, now).room
             v == Broadcast(r, seat.peer_id, seat.conn_id, now).room
  <2>1. /\ seat # None /\ conn' = conn /\ UNCHANGED <<registry, sweep, now>>
        /\ rooms' = [rooms EXCEPT ![seat.room] = u] \/ rooms' = [rooms EXCEPT ![seat.room] = v]
    BY Zenon, <1>6 DEF CallSendTo, CallBroadcast, Call, InRoom
  <2>2. /\ seat.room \in Handles /\ seat.peer_id \in PeerIds
        /\ r # None /\ r \in Rooms /\ RoomOK(r)
    BY Zenon, <2>1, SeatFacts
  <2>3. RoomOK(u) /\ SameRoom(r, u) /\ RoomOK(v) /\ SameRoom(r, v)
    BY Zenon, <1>1, <2>2, SendToOK, BroadcastOK, TrafficSame
  <2>4. /\ OwnersKept(r, u) /\ u.closing = r.closing /\ Steady(r, u, now, now)
        /\ OwnersKept(r, v) /\ v.closing = r.closing /\ Steady(r, v, now, now)
    <3>1. Retains(r, u) /\ Retains(r, v) /\ Steady(r, u, now, now) /\ Steady(r, v, now, now)
      BY Zenon, <2>2, TrafficOwners
    <3> HIDE DEF u, v
    <3> QED BY Zenon, <3>1 DEF Retains
  <2> HIDE DEF u, v
  <2>5. Evolves(rooms, rooms') /\ Owned /\ ClosesNothing /\ Calm
    BY Zenon, <2>1, <2>2, <2>3, <2>4, MethodFrame
  <2>6. OthersStay({c})
    BY Zenon, <2>1 DEF OthersStay, Follows
  <2> QED BY Zenon, <2>1, <2>5, <2>6 DEF Frame
<1> QED BY Zenon, <1>3, <1>4, <1>5, <1>6

\* The first half of a leave, and the release that precedes the await of
\* end_session.
LEMMA TerminatingFrame ==
  ASSUME IndInv, NEW c \in Conns,
         \/ \E token, version_ok : LeaveBegin(c, token, version_ok)
         \/ EndRelease(c)
  PROVE  /\ Frame(c) /\ Owned /\ ClosesNothing
         /\ conn'[c].pc \in {"leave", "end_finish"}
         /\ conn[c].pc \in {"idle", "end_release"}
<1>1. conn \in [Conns -> ConnStates] /\ rooms \in [Handles -> Rooms \cup {None}]
  BY Zenon DEF IndInv, ConnsOK, RoomTableOK
<1>2. CASE EndRelease(c)
  <2> DEFINE cs == Goto(conn[c], "end_finish")
  <2>1. cs \in ConnStates /\ cs.pc = "end_finish"
    BY Zenon, <1>1, GotoType DEF ConnSteps
  <2>2. /\ conn' = [conn EXCEPT ![c] = cs] /\ UNCHANGED <<rooms, registry, sweep, now>>
        /\ conn[c].pc = "end_release"
    BY Zenon, <1>1, <1>2 DEF EndRelease
  <2> HIDE DEF cs
  <2>3. conn'[c].pc = "end_finish"
    BY Zenon, <1>1, <2>1, <2>2
  <2> QED BY Zenon, <2>1, <2>2, <2>3, MovingFrame
<1>3. ASSUME NEW token, NEW version_ok, LeaveBegin(c, token, version_ok)
      PROVE  /\ Frame(c) /\ Owned /\ ClosesNothing
             /\ conn'[c].pc = "leave" /\ conn[c].pc = "idle"
  <2> DEFINE seat == conn[c].seat
             r == rooms[seat.room]
             s == BeginLeave(r, seat.peer_id)
             cs == Goto(conn[c], "leave")
  <2>1. seat # None /\ conn[c].pc = "idle" /\ r.reservations[seat.peer_id] # None
    BY Zenon, <1>3 DEF LeaveBegin, InRoom, MayBeginLeave
  <2>2. /\ seat.room \in Handles /\ seat.peer_id \in PeerIds
        /\ r # None /\ r \in Rooms /\ RoomOK(r)
    BY Zenon, <2>1, SeatFacts
  <2>3. RoomOK(s) /\ SameRoom(r, s)
    BY Zenon, <2>1, <2>2, BeginLeaveOK, BeginLeaveSame
  <2>4. OwnersKept(r, s) /\ s.closing = r.closing
    BY Zenon, <2>1, <2>2, BeginLeaveOwners
  <2>5. /\ rooms' = [rooms EXCEPT ![seat.room] = s] /\ conn' = [conn EXCEPT ![c] = cs]
        /\ UNCHANGED <<registry, sweep, now>>
    BY Zenon, <1>1, <1>3 DEF LeaveBegin
  <2>6. cs \in ConnStates /\ cs.pc = "leave"
    BY Zenon, <1>1, GotoType DEF ConnSteps
  <2> HIDE DEF cs, s
  <2>7. Evolves(rooms, rooms') /\ Owned /\ ClosesNothing
    BY Zenon, <2>2, <2>3, <2>4, <2>5, MethodFrame
  <2>8. OthersStay({c}) /\ conn'[c].pc = "leave"
    BY Zenon, <2>5, <2>6, ConnFrame
  <2> QED BY Zenon, <2>1, <2>5, <2>7, <2>8 DEF Frame
<1> QED BY Zenon, <1>2, <1>3

\* The first section of end_session closes c's room.
LEMMA EndBeginFrame ==
  ASSUME IndInv, NEW c \in Conns, NEW token, NEW version_ok, EndBegin(c, token, version_ok)
  PROVE  /\ Frame(c) /\ Owned /\ Calm /\ registry' = registry /\ conn[c].pc = "idle"
         /\ conn'[c].pc = "end_remove" /\ conn'[c].seat = conn[c].seat
         /\ \A b \in Handles : b # conn[c].seat.room => rooms'[b] = rooms[b]
<1> DEFINE seat == conn[c].seat
           r == rooms[seat.room]
           s == [r EXCEPT !.closing = TRUE]
           cs == Goto(conn[c], "end_remove")
<1>1. conn \in [Conns -> ConnStates] /\ rooms \in [Handles -> Rooms \cup {None}]
  BY Zenon DEF IndInv, ConnsOK, RoomTableOK
<1>2. seat # None /\ conn[c].pc = "idle"
  BY Zenon DEF EndBegin, InRoom
<1>3. seat.room \in Handles /\ r # None /\ r \in Rooms /\ RoomOK(r)
  BY Zenon, <1>2, SeatFacts
<1>4. RoomOK(s) /\ SameRoom(r, s) /\ s.closing
  BY Zenon, <1>3, ClosingOK, ClosingSame
<1>5. OwnersKept(r, s)
  BY Zenon, <1>3, ClosingOwners
<1>6. /\ rooms' = [rooms EXCEPT ![seat.room] = s] /\ conn' = [conn EXCEPT ![c] = cs]
      /\ UNCHANGED <<registry, sweep, now>>
  BY Zenon, <1>1 DEF EndBegin, BeginEndSession
<1>7. cs \in ConnStates /\ cs.pc = "end_remove" /\ cs.seat = seat
  BY Zenon, <1>1, GotoType DEF ConnSteps
<1> HIDE DEF cs, s
<1>8. Evolves(rooms, rooms') /\ Owned /\ Calm
  BY Zenon, <1>3, <1>4, <1>5, <1>6, MethodFrame
<1>9. OthersStay({c}) /\ conn'[c].pc = "end_remove" /\ conn'[c].seat = seat
  BY Zenon, <1>6, <1>7, ConnFrame
<1>10. \A b \in Handles : b # seat.room => rooms'[b] = rooms[b]
  BY Zenon, <1>1, <1>6
<1> QED BY Zenon, <1>2, <1>6, <1>8, <1>9, <1>10 DEF Frame

\* A room that is closing is taken out of the registry, and no other.
LEMMA UnregisterFrame ==
  ASSUME IndInv, NEW a \in Handles, rooms[a] # None, rooms[a].closing,
         registry' = [registry EXCEPT ![rooms[a].session_id] = IF @ = a THEN None ELSE @],
         UNCHANGED <<rooms, now>>
  PROVE  /\ Evolves(rooms, rooms') /\ Owned /\ ClosesNothing /\ Calm
         /\ \A x \in Sessions : registry'[x] # a
<1>1. /\ registry \in [Sessions -> Handles \cup {None}] /\ rooms[a].session_id \in Sessions
      /\ \A x \in Sessions : registry[x] = a => x = rooms[a].session_id
  <2>1. rooms[a] \in Rooms /\ a # None
    BY Zenon, RelayConstants DEF IndInv, RoomTableOK
  <2> QED BY Zenon, <2>1 DEF IndInv, RegistryOK, Rooms
<1>2. \A x \in Sessions : registry'[x] = registry[x] \/ registry'[x] = None
  BY Zenon, <1>1
<1>3. \A x \in Sessions : registry'[x] # a
  BY Zenon, <1>1, RelayConstants
<1>4. Evolves(rooms, rooms') /\ Owned
  BY Zenon, SameSteady, NothingEvolves DEF Owned
<1>5. ClosesNothing
  BY Zenon, <1>2 DEF ClosesNothing
<1>6. Calm
  BY Zenon, <1>2, SameSteady DEF Calm
<1> QED BY Zenon, <1>3, <1>4, <1>5, <1>6

\* end_session removes its room from the registry.
LEMMA EndRemoveFrame ==
  ASSUME IndInv, NEW c \in Conns, EndRemove(c)
  PROVE  /\ Frame(c) /\ Owned /\ ClosesNothing /\ Calm
         /\ conn[c].pc = "end_remove" /\ conn'[c].pc = "end_release"
         /\ \A x \in Sessions : registry'[x] # conn[c].seat.room
<1> DEFINE a == conn[c].seat.room
           cs == Goto(conn[c], "end_release")
<1>1. conn \in [Conns -> ConnStates] /\ conn[c].pc = "end_remove"
  BY Zenon DEF IndInv, ConnsOK, EndRemove
<1>2. conn[c].seat # None /\ rooms[a].closing
  BY Zenon, <1>1 DEF IndInv, ConnsOK, ConnOK, EndSteps
<1>3. a \in Handles /\ rooms[a] # None
  BY Zenon, <1>2, SeatFacts
<1>4. /\ registry' = [registry EXCEPT ![rooms[a].session_id] = IF @ = a THEN None ELSE @]
      /\ conn' = [conn EXCEPT ![c] = cs] /\ UNCHANGED <<rooms, sweep, now>>
  BY Zenon, <1>1 DEF EndRemove
<1>5. cs \in ConnStates /\ cs.pc = "end_release"
  BY Zenon, <1>1, GotoType DEF ConnSteps
<1> HIDE DEF cs, a
<1>6. /\ Evolves(rooms, rooms') /\ Owned /\ ClosesNothing /\ Calm
      /\ \A x \in Sessions : registry'[x] # a
  BY Zenon, <1>2, <1>3, <1>4, UnregisterFrame
<1>7. OthersStay({c}) /\ conn'[c].pc = "end_release"
  BY Zenon, <1>4, <1>5, ConnFrame
<1> QED BY Zenon, <1>1, <1>4, <1>6, <1>7 DEF Frame, a

\* The second half of a leave: what it did, by what the writer answered.
LEMMA LeaveFinishFrame ==
  ASSUME IndInv, NEW c \in Conns, NEW persisted \in BOOLEAN, LeaveFinish(c, persisted)
  PROVE  /\ Frame(c) /\ Owned /\ ClosesNothing
         /\ conn[c].pc = "leave" /\ conn'[c].pc = "idle"
         /\ conn[c].seat # None
         /\ LET s == conn[c].seat
                old == rooms[s.room].reservations[s.peer_id]
                new == rooms'[s.room].reservations[s.peer_id]
            IN  \/ Calm /\ new = old
                \/ ~persisted /\ new # None
                \/ persisted /\ old # None /\ new = None
<1> DEFINE seat == conn[c].seat
           p == seat.peer_id
           r == rooms[seat.room]
           res == FinishLeave(r, p, seat.conn_id, persisted, now)
           s == res.room
           cs == Resume(conn[c], IF Failed(res.eff) THEN seat ELSE None)
<1>1. /\ conn \in [Conns -> ConnStates] /\ rooms \in [Handles -> Rooms \cup {None}]
      /\ now \in Nat
  BY Zenon DEF IndInv, ConnsOK, RoomTableOK
<1>2. conn[c].pc = "leave" /\ seat # None
  BY Zenon DEF LeaveFinish, IndInv, ConnsOK, ConnOK
<1>3. /\ seat.room \in Handles /\ p \in PeerIds /\ seat \in Seats
      /\ r # None /\ r \in Rooms /\ RoomOK(r)
  BY Zenon, <1>2, SeatFacts
<1>4. RoomOK(s) /\ SameRoom(r, s)
  BY Zenon, <1>1, <1>3, FinishLeaveOK, FinishLeaveSame
<1>5. /\ OwnersKept(r, s) /\ s.closing = r.closing
      /\ \/ s = r
         \/ ~persisted /\ s.reservations[p] # None
         \/ persisted /\ r.reservations[p] # None /\ s.reservations[p] = None
  <2>1. Retains(r, s) /\ LeaveOutcome(r, s, p, persisted)
    BY Zenon, <1>3, FinishLeaveOwners
  <2> HIDE DEF s
  <2> QED BY Zenon, <2>1 DEF Retains, LeaveOutcome
<1>6. /\ rooms' = [rooms EXCEPT ![seat.room] = s] /\ conn' = [conn EXCEPT ![c] = cs]
      /\ UNCHANGED <<registry, sweep, now>>
  BY Zenon, <1>1 DEF LeaveFinish
<1>7. cs \in ConnStates /\ cs.pc = "idle"
  BY ZenonT(30), <1>1, <1>3 DEF Resume, ConnStates, ConnSteps
<1> HIDE DEF cs, s
<1>8. Evolves(rooms, rooms') /\ Owned /\ ClosesNothing
  BY Zenon, <1>3, <1>4, <1>5, <1>6, MethodFrame
<1>9. s = r => Calm
  <2>1. Steady(r, r, now, now)
    BY Zenon, SameSteady
  <2> QED BY Zenon, <1>3, <1>4, <1>6, <2>1, MethodFrame
<1>10. OthersStay({c}) /\ conn'[c].pc = "idle"
  BY Zenon, <1>6, <1>7, ConnFrame
<1>11. rooms'[seat.room] = s
  BY Zenon, <1>1, <1>3, <1>6
<1>12. \/ Calm /\ s.reservations[p] = r.reservations[p]
       \/ ~persisted /\ s.reservations[p] # None
       \/ persisted /\ r.reservations[p] # None /\ s.reservations[p] = None
  BY Zenon, <1>5, <1>9
<1> QED BY Zenon, <1>2, <1>6, <1>8, <1>10, <1>11, <1>12 DEF Frame

\* The end of end_session, in a room that stays closed.
LEMMA EndFinishFrame ==
  ASSUME IndInv, NEW c \in Conns, NEW persisted \in BOOLEAN, EndFinish(c, persisted)
  PROVE  /\ Frame(c) /\ Owned /\ ClosesNothing /\ Calm
         /\ conn[c].pc = "end_finish" /\ conn'[c].pc = "idle"
         /\ conn[c].seat.room \in Handles /\ rooms'[conn[c].seat.room] # None
         /\ rooms'[conn[c].seat.room].closing
<1> DEFINE a == conn[c].seat.room
           r == rooms[a]
           res == FinishEndSession(r, {}, persisted)
           s == res.room
           cs == Resume(conn[c], None)
<1>1. conn \in [Conns -> ConnStates] /\ rooms \in [Handles -> Rooms \cup {None}]
  BY Zenon DEF IndInv, ConnsOK, RoomTableOK
<1>2. conn[c].pc = "end_finish" /\ conn[c].seat # None /\ r.closing
  BY Zenon DEF EndFinish, IndInv, ConnsOK, ConnOK, EndSteps
<1>3. a \in Handles /\ r # None /\ r \in Rooms /\ RoomOK(r)
  BY Zenon, <1>2, SeatFacts
<1>4. RoomOK(s) /\ SameRoom(r, s) /\ s # None
  <2>1. RoomOK(s) /\ SameRoom(r, s)
    BY Zenon, <1>3, FinishEndSessionOK, FinishEndSessionSame
  <2>2. s # None
    BY Zenon, <2>1, RelayConstants DEF RoomOK
  <2> QED BY Zenon, <2>1, <2>2
<1>5. OwnersKept(r, s) /\ s.closing = r.closing
  BY Zenon, <1>3, FinishEndOwners
<1>6. /\ rooms' = [rooms EXCEPT ![a] = s]
      /\ conn' = Cancel([conn EXCEPT ![c] = cs], a, res.eff.evict)
      /\ UNCHANGED <<registry, sweep, now>>
  BY Zenon, <1>1 DEF EndFinish
<1>7. cs \in ConnStates /\ cs.pc = "idle"
  BY Zenon, <1>1 DEF Resume, ConnStates, ConnSteps
<1> HIDE DEF cs, s, res
<1>8. Evolves(rooms, rooms') /\ Owned /\ ClosesNothing /\ Calm
  BY Zenon, <1>2, <1>3, <1>4, <1>5, <1>6, MethodFrame
<1>9. OthersStay({c}) /\ conn'[c].pc = "idle"
  BY Zenon, <1>6, <1>7, ConnFrame
<1>10. rooms'[a] = s
  BY Zenon, <1>1, <1>3, <1>6
<1> QED BY Zenon, <1>2, <1>3, <1>4, <1>5, <1>6, <1>8, <1>9, <1>10 DEF Frame

\* The cleanup task moves no connection.
LEMMA SweepFrame ==
  ASSUME IndInv, SweepStep
  PROVE  /\ Evolves(rooms, rooms') /\ OthersStay({}) /\ now' = now /\ Owned
         /\ \/ ClosesNothing
            \/ /\ registry' = registry /\ sweep.pc = "visit" /\ sweep'.pc = "remove"
               /\ \A b \in Handles : b # sweep'.handle => rooms'[b] = rooms[b]
         /\ sweep.pc = "remove" => \A x \in Sessions : registry'[x] # sweep.handle
         /\ sweep'.pc = "remove" \/ rooms' = rooms => Calm
<1> USE DEF OthersStay, Follows
<1>1. CASE SweepBegin
  <2>1. /\ sweep.pc = "idle" /\ UNCHANGED <<rooms, registry, conn, now>>
    BY Zenon, <1>1 DEF SweepBegin
  <2> QED BY Zenon, <2>1, SameRoomsFrame
<1>2. CASE SweepFinish
  <2>1. /\ sweep.pc = "finish" /\ UNCHANGED <<rooms, registry, now>>
        /\ conn' = Cancel(conn, sweep.handle, sweep.evict) /\ conn \in [Conns -> ConnStates]
    BY Zenon, <1>2 DEF SweepFinish, IndInv, ConnsOK
  <2>2. \A d \in Conns : Follows(conn[d], conn'[d])
    <3> DEFINE cs2 == Cancel(conn, sweep.handle, sweep.evict)
    <3>1. \A d \in Conns : Follows(conn[d], cs2[d])
      BY Zenon, <2>1, CancelStays DEF Follows
    <3>2. conn' = cs2
      BY Zenon, <2>1
    <3> HIDE DEF cs2
    <3> QED BY Zenon, <3>1, <3>2
  <2> QED BY Zenon, <2>1, <2>2, SameRoomsFrame
<1>3. CASE SweepRemove
  <2> DEFINE a == sweep.handle
  <2>1. a \in Handles /\ rooms[a] # None /\ rooms[a].closing
    BY Zenon, <1>3 DEF SweepRemove, IndInv, SweepOK
  <2>2. /\ registry' = [registry EXCEPT ![rooms[a].session_id] = IF @ = a THEN None ELSE @]
        /\ UNCHANGED <<rooms, conn, now>>
    BY Zenon, <1>3 DEF SweepRemove
  <2>3. /\ Evolves(rooms, rooms') /\ Owned /\ ClosesNothing /\ Calm
        /\ \A x \in Sessions : registry'[x] # a
    BY Zenon, <2>1, <2>2, UnregisterFrame
  <2> QED BY Zenon, <2>2, <2>3
<1>4. ASSUME NEW a \in Handles, SweepVisit(a)
      PROVE  /\ Evolves(rooms, rooms') /\ Owned /\ sweep.pc = "visit"
             /\ UNCHANGED <<registry, conn, now>>
             /\ \/ ClosesNothing
                \/ /\ sweep'.pc = "remove"
                   /\ \A b \in Handles : b # sweep'.handle => rooms'[b] = rooms[b]
             /\ sweep'.pc = "remove" \/ rooms' = rooms => Calm
  <2> DEFINE res == SweepState(rooms[a], sweep.now, now)
             s == res.room
             todo == sweep.todo \ {a}
             sw == [sweep EXCEPT !.pc = "remove", !.todo = todo, !.handle = a,
                                 !.evict = res.evict]
  <2>1. /\ sweep \in SweepStates /\ rooms[a] # None /\ sweep.pc = "visit"
        /\ rooms \in [Handles -> Rooms \cup {None}]
    BY Zenon, <1>4 DEF SweepVisit, IndInv, SweepOK, RoomTableOK
  <2>2. rooms[a] \in Rooms /\ RoomOK(rooms[a])
    BY Zenon, <2>1 DEF IndInv, RoomTableOK, RoomOK
  <2>3. RoomOK(s) /\ SameRoom(rooms[a], s) /\ (res.remove => s.closing)
    BY Zenon, <2>2, SweepStateOK, SweepStateSame
  <2>4. OwnersKept(rooms[a], s) /\ (~res.remove => s.closing = rooms[a].closing)
    BY Zenon, <2>2, SweepOwners
  <2>5. /\ rooms' = [rooms EXCEPT ![a] = s]
        /\ sweep' = IF res.remove THEN sw ELSE SweepNext(todo, sweep.now)
        /\ UNCHANGED <<registry, conn, now>>
    BY Zenon, <1>4 DEF SweepVisit
  <2> HIDE DEF s, res, todo
  <2>6. sw.pc = "remove" /\ sw.handle = a /\ SweepNext(todo, sweep.now).pc # "remove"
    BY Zenon, <2>1 DEF SweepStates, SweepNext, SweepIdle
  <2> HIDE DEF sw
  <2>7. Evolves(rooms, rooms') /\ Owned
    BY Zenon, <2>1, <2>3, <2>4, <2>5, MethodFrame
  <2>8. ~res.remove => ClosesNothing
    BY Zenon, <2>1, <2>3, <2>4, <2>5, MethodFrame
  <2>9. res.remove => Calm
    BY Zenon, <2>1, <2>3, <2>5, MethodFrame
  <2>10. rooms' = rooms => Calm
    BY Zenon, <2>5, SameRoomsFrame
  <2>11. \A b \in Handles : b # a => rooms'[b] = rooms[b]
    BY Zenon, <2>1, <2>5
  <2> QED BY Zenon, <2>1, <2>5, <2>6, <2>7, <2>8, <2>9, <2>10, <2>11
<1>5. CASE \E a \in Handles : SweepVisit(a)
  <2>1. OthersStay({}) /\ sweep.pc = "visit"
    BY Zenon, <1>4, <1>5
  <2> QED BY Zenon, <1>4, <1>5, <2>1
<1> QED BY Zenon, <1>1, <1>2, <1>3, <1>5 DEF SweepStep

\* The clock only makes claims lapse.
LEMMA TickFrame ==
  ASSUME IndInv, Tick
  PROVE  /\ Evolves(rooms, rooms') /\ Owned /\ ClosesNothing /\ Calm
         /\ UNCHANGED <<conn, sweep>>
<1>1. now \in Nat /\ now' = now + 1 /\ UNCHANGED <<rooms, registry, conn, sweep>>
  BY Zenon DEF Tick, IndInv
<1>2. Owned /\ Evolves(rooms, rooms') /\ ClosesNothing
  BY Zenon, <1>1, SameSteady, NothingEvolves DEF Owned, ClosesNothing
<1>3. \A x \in Sessions : registry[x] # None => rooms[registry[x]] \in Rooms
  BY DEF IndInv, RegistryOK, RoomTableOK
<1>4. Calm
  BY Zenon, <1>1, <1>3, TimeSteady DEF Calm
<1> QED BY Zenon, <1>1, <1>2, <1>4
=============================================================================
