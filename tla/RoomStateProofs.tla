-------------------------- MODULE RoomStateProofs ---------------------------
(***************************************************************************)
(* Every method of RoomState keeps a room well typed, its roster within    *)
(* the capacity, its conn_ids fresh and its grace clocks right, for any    *)
(* set of peers and any MAX_ROOM_SIZE.                                     *)
(***************************************************************************)
EXTENDS RoomInvariants, TLAPS

-----------------------------------------------------------------------------
(* Types of the records the methods build *)

\* admit builds a ConnectedPeer that carries the conn_id it was given.
LEMMA OccupantType ==
  ASSUME NEW adm \in Admissions, NEW k \in Nat
  PROVE  Occupant(adm, k) \in ConnectedPeers /\ Occupant(adm, k).conn_id = k
BY Zenon DEF Occupant, Admissions, ConnectedPeers

\* The reservation join_or_resume and transfer_host insert is a PeerReservation.
LEMMA ReservationType ==
  ASSUME NEW v \in Verifiers
  PROVE  [verifier |-> v, absent_since |-> None, release_pending |-> FALSE]
           \in Reservations
BY Zenon DEF Reservations

\* Verifier::from_token yields a verifier whenever it yields anything.
LEMMA TokenType ==
  ASSUME NEW token
  PROVE  FromToken(token) # None => FromToken(token) \in Verifiers
BY Zenon DEF FromToken, Verifiers

\* Replacing a peer entry and the conn_id counter keeps the type.
LEMMA SetPeerType ==
  ASSUME NEW r \in Rooms, NEW p \in PeerIds, NEW o \in ConnectedPeers, NEW k \in Nat
  PROVE  [r EXCEPT !.peers[p] = o, !.next_conn_id = k] \in Rooms
BY Zenon DEF Rooms

\* What admit does to a room, field by field.
LEMMA AdmitFields ==
  ASSUME NEW r \in Rooms, NEW p \in PeerIds, NEW adm \in Admissions
  PROVE  LET s == Admit(r, p, adm)
         IN  /\ s \in Rooms
             /\ s.peers = [r.peers EXCEPT ![p] = Occupant(adm, r.next_conn_id)]
             /\ s.next_conn_id = r.next_conn_id + 1
             /\ s.reservations = r.reservations
             /\ s.host_peer_id = r.host_peer_id
             /\ s.host_verifier = r.host_verifier
             /\ s.session_id = r.session_id
             /\ s.owner_ip_key = r.owner_ip_key
             /\ s.closing = r.closing
             /\ Occupant(adm, r.next_conn_id) # None
<1>1. r.next_conn_id \in Nat /\ r.next_conn_id + 1 \in Nat
  BY DEF Rooms
<1>2. Occupant(adm, r.next_conn_id) \in ConnectedPeers
  BY Zenon, <1>1, OccupantType
<1>3. Admit(r, p, adm) \in Rooms
  BY Zenon, <1>1, <1>2, SetPeerType DEF Admit
<1>4. Occupant(adm, r.next_conn_id) # None
  BY Zenon, <1>2, NoneIsNoValue
<1> QED
  BY Zenon, <1>3, <1>4 DEF Admit, Rooms

\* A method that leaves the entries alone and drops or marks reservations.
LEMMA EntriesKept ==
  ASSUME NEW r, NEW s, EntriesOK(r), s.peers = r.peers,
         s.next_conn_id = r.next_conn_id, s.closing = r.closing,
         s.owner_ip_key = r.owner_ip_key,
         \A p \in Reserved(s) : /\ p \in Reserved(r)
                               /\ s.reservations[p].absent_since
                                    = r.reservations[p].absent_since
  PROVE  EntriesOK(s)
<1>1. Connected(s) = Connected(r)
  BY Zenon DEF Connected
<1> QED
  BY Zenon, <1>1 DEF EntriesOK
-----------------------------------------------------------------------------
(* The methods *)

\* new_room: a fresh room holds its host and no reservation.
LEMMA NewRoomOK ==
  ASSUME NEW s \in Sessions, NEW h \in PeerIds, NEW v \in Verifiers, NEW ip \in Ips,
         NEW adm \in Admissions, NEW t \in Nat
  PROVE  LET r == NewRoom(s, h, v, ip, adm, t).room
         IN  RoomOK(r) /\ r.session_id = s /\ r.owner_ip_key = ip
<1> DEFINE r == NewRoom(s, h, v, ip, adm, t).room
<1>1. r \in Rooms
  BY Zenon, OccupantType DEF NewRoom, Rooms
<1>2. Reserved(r) = {}
  BY Zenon DEF NewRoom, Reserved
<1>3. Connected(r) \subseteq {h} /\ r.host_peer_id = h
  BY Zenon DEF NewRoom, Connected
<1>4. r.session_id = s /\ r.owner_ip_key = ip
  BY Zenon DEF NewRoom
<1>5. EntriesOK(r)
  <2>1. r.peers[h].conn_id = 1 /\ r.next_conn_id = 2
    BY Zenon DEF NewRoom, Occupant
  <2> HIDE DEF r
  <2> QED
    BY <1>2, <1>3, <2>1 DEF EntriesOK
<1> QED
  BY Zenon, <1>1, <1>2, <1>3, <1>4, <1>5 DEF RoomOK, RosterOK

\* An admission at p: the new entry has the conn_id the counter had, and p is
\* the host or its grace clock is stopped.
LEMMA AdmittedEntries ==
  ASSUME NEW r \in Rooms, RosterOK(r), EntriesOK(r), NEW s, NEW p \in PeerIds,
         NEW adm \in Admissions,
         s.peers = [r.peers EXCEPT ![p] = Occupant(adm, r.next_conn_id)],
         s.next_conn_id = r.next_conn_id + 1, s.closing = r.closing,
         s.owner_ip_key = r.owner_ip_key,
         Connected(s) = Connected(r) \cup {p},
         \/ p = r.host_peer_id /\ s.reservations = r.reservations
         \/ \E res \in Reservations : /\ s.reservations = [r.reservations EXCEPT ![p] = res]
                                      /\ res.absent_since = None
  PROVE  EntriesOK(s)
<1>1. r.next_conn_id \in Nat /\ Occupant(adm, r.next_conn_id).conn_id = r.next_conn_id
  BY Zenon, OccupantType DEF Rooms
<1>2. \A q \in Connected(s) : s.peers[q].conn_id < s.next_conn_id
  <2> SUFFICES ASSUME NEW q \in Connected(s) PROVE s.peers[q].conn_id < s.next_conn_id
    BY Zenon
  <2>1. CASE q = p
    BY <1>1, <2>1 DEF Rooms
  <2>2. CASE q # p
    <3>1. q \in Connected(r) /\ s.peers[q] = r.peers[q] /\ r.peers[q] \in ConnectedPeers
      BY Zenon, <2>2 DEF Connected, Rooms
    <3>2. r.peers[q].conn_id < r.next_conn_id /\ r.peers[q].conn_id \in Nat
      BY Zenon, <3>1 DEF EntriesOK, ConnectedPeers
    <3> QED
      BY <1>1, <3>1, <3>2
  <2> QED
    BY Zenon, <2>1, <2>2
<1>3. ASSUME ~s.closing, NEW q \in Reserved(s)
      PROVE  /\ q \in Connected(s) => s.reservations[q].absent_since = None
             /\ s.owner_ip_key # NoIp /\ s.reservations[q].absent_since = None
                  => q \in Connected(s)
  <2>1. CASE q = p
    BY Zenon, <2>1, <1>3 DEF RosterOK, Reserved, Rooms
  <2>2. CASE q # p
    <3>1. s.reservations[q] = r.reservations[q] /\ q \in Reserved(r)
      BY Zenon, <1>3, <2>2 DEF Reserved, Rooms
    <3> QED
      BY Zenon, <1>3, <2>2, <3>1 DEF EntriesOK
  <2> QED
    BY Zenon, <2>1, <2>2
<1> QED
  BY Zenon, <1>2, <1>3 DEF EntriesOK

\* reconnect_host keeps the roster within the capacity: it only fills the host's
\* own place.
LEMMA ReconnectHostOK ==
  ASSUME NEW r, RoomOK(r), NEW adm \in Admissions
  PROVE  RoomOK(ReconnectHost(r, adm).room)
<1> DEFINE s == ReconnectHost(r, adm).room
<1>1. r \in Rooms /\ RosterOK(r) /\ EntriesOK(r)
  BY Zenon DEF RoomOK
<1>2. r.host_peer_id \in PeerIds
  BY Zenon, <1>1 DEF Rooms
<1>3. s = Admit(r, r.host_peer_id, adm)
  BY Zenon DEF ReconnectHost
<1>4. /\ s \in Rooms /\ s.host_peer_id = r.host_peer_id
      /\ s.reservations = r.reservations
      /\ s.peers = [r.peers EXCEPT ![r.host_peer_id] = Occupant(adm, r.next_conn_id)]
      /\ s.next_conn_id = r.next_conn_id + 1 /\ s.closing = r.closing
      /\ s.owner_ip_key = r.owner_ip_key
      /\ Occupant(adm, r.next_conn_id) # None
  BY <1>1, <1>2, <1>3, AdmitFields
<1>5. Reserved(s) = Reserved(r)
  BY Zenon, <1>4 DEF Reserved
<1>6. Connected(s) = Connected(r) \cup {r.host_peer_id}
  BY Zenon, <1>1, <1>2, <1>4 DEF Connected, Rooms
<1>7. EntriesOK(s)
  BY Zenon, <1>1, <1>2, <1>4, <1>6, AdmittedEntries
<1> QED
  BY Zenon, <1>1, <1>4, <1>5, <1>6, <1>7 DEF RoomOK, RosterOK

\* A roster that only shrinks, with the host unchanged, stays well formed.
LEMMA SmallerRoster ==
  ASSUME NEW r, NEW s, RosterOK(r), s.host_peer_id = r.host_peer_id,
         Reserved(s) \subseteq Reserved(r),
         Connected(s) \subseteq Reserved(s) \cup {s.host_peer_id}
  PROVE  RosterOK(s)
BY Zenon DEF RosterOK

\* Pruning only drops reservations, never one whose identity is connected or
\* whose leave is pending.
LEMMA PruneFields ==
  ASSUME NEW r \in Rooms, NEW t
  PROVE  LET q == PruneExpiredReservations(r, t)
         IN  /\ q \in Rooms
             /\ q.peers = r.peers
             /\ q.reservations = [p \in PeerIds |->
                  IF p \in Expired(r, t) THEN None ELSE r.reservations[p]]
             /\ q.next_conn_id = r.next_conn_id
             /\ q.host_peer_id = r.host_peer_id
             /\ q.host_verifier = r.host_verifier
             /\ q.session_id = r.session_id
             /\ q.owner_ip_key = r.owner_ip_key
             /\ q.closing = r.closing
             /\ Connected(q) = Connected(r)
             /\ Reserved(q) = Reserved(r) \ Expired(r, t)
             /\ Expired(r, t) \cap Connected(r) = {}
<1> DEFINE res == [p \in PeerIds |->
                     IF p \in Expired(r, t) THEN None ELSE r.reservations[p]]
           q == PruneExpiredReservations(r, t)
<1>1. res \in [PeerIds -> Reservations \cup {None}]
  BY Zenon DEF Rooms
<1>2. q = [r EXCEPT !.reservations = res]
  BY Zenon DEF PruneExpiredReservations
<1>3. q.reservations = res
  BY Zenon, <1>2 DEF Rooms
<1> HIDE DEF res
<1>4. q \in Rooms
  BY Zenon, <1>1, <1>2 DEF Rooms
<1>5. /\ q.peers = r.peers /\ q.next_conn_id = r.next_conn_id
      /\ q.host_peer_id = r.host_peer_id /\ q.host_verifier = r.host_verifier
      /\ q.session_id = r.session_id /\ q.owner_ip_key = r.owner_ip_key
      /\ q.closing = r.closing
  BY Zenon, <1>2 DEF Rooms
<1>6. Connected(q) = Connected(r)
  BY Zenon, <1>5 DEF Connected
<1>7. Reserved(q) = Reserved(r) \ Expired(r, t)
  BY Zenon, <1>3 DEF Reserved, res
<1>8. Expired(r, t) \cap Connected(r) = {}
  BY Zenon DEF Expired
<1> QED
  BY Zenon, <1>3, <1>4, <1>5, <1>6, <1>7, <1>8 DEF res

\* prune_expired_reservations keeps the roster well formed: whoever is connected
\* keeps its reservation.
LEMMA PruneOK ==
  ASSUME NEW r, RoomOK(r), NEW t
  PROVE  RoomOK(PruneExpiredReservations(r, t))
<1> DEFINE q == PruneExpiredReservations(r, t)
<1>1. r \in Rooms /\ RosterOK(r) /\ EntriesOK(r)
  BY Zenon DEF RoomOK
<1>2. /\ q \in Rooms /\ q.host_peer_id = r.host_peer_id
      /\ Connected(q) = Connected(r)
      /\ Reserved(q) = Reserved(r) \ Expired(r, t)
      /\ Expired(r, t) \cap Connected(r) = {}
  BY Zenon, <1>1, PruneFields
<1>3. Connected(q) \subseteq Reserved(q) \cup {q.host_peer_id}
  BY Zenon, <1>1, <1>2 DEF RosterOK
<1>4. EntriesOK(q)
  <2>1. /\ q.peers = r.peers /\ q.next_conn_id = r.next_conn_id /\ q.closing = r.closing
        /\ q.owner_ip_key = r.owner_ip_key
        /\ q.reservations = [p \in PeerIds |->
                               IF p \in Expired(r, t) THEN None ELSE r.reservations[p]]
    BY ZenonT(40), <1>1, PruneFields
  <2> HIDE DEF q
  <2>2. \A p \in Reserved(q) : p \in Reserved(r) /\ q.reservations[p] = r.reservations[p]
    BY Zenon, <1>2, <2>1 DEF Reserved
  <2> QED
    BY Zenon, <1>1, <2>1, <2>2, EntriesKept
<1> HIDE DEF q
<1>5. RosterOK(q)
  BY Zenon, <1>1, <1>2, <1>3, SmallerRoster
<1> QED
  BY Zenon, <1>2, <1>4, <1>5 DEF RoomOK, q

\* What an admission through join_or_resume does to a room, field by field.
LEMMA EnterFields ==
  ASSUME NEW r \in Rooms, NEW p \in PeerIds, NEW v \in Verifiers,
         NEW adm \in Admissions, NEW t \in Nat
  PROVE  LET s == Enter(r, p, v, adm, t)
             new == [verifier |-> v, absent_since |-> None, release_pending |-> FALSE]
         IN  /\ s \in Rooms
             /\ s.peers = [r.peers EXCEPT ![p] = Occupant(adm, r.next_conn_id)]
             /\ s.next_conn_id = r.next_conn_id + 1
             /\ p = r.host_peer_id => s.reservations = r.reservations
             /\ p # r.host_peer_id
                  => s.reservations = [r.reservations EXCEPT ![p] = new]
             /\ s.host_peer_id = r.host_peer_id
             /\ s.host_verifier = r.host_verifier
             /\ s.session_id = r.session_id
             /\ s.owner_ip_key = r.owner_ip_key
             /\ s.closing = r.closing
             /\ Occupant(adm, r.next_conn_id) # None
             /\ new # None
<1> DEFINE new == [verifier |-> v, absent_since |-> None, release_pending |-> FALSE]
           a == Admit(r, p, adm)
           b == Reserve(a, p, v)
           s == Enter(r, p, v, adm, t)
<1>1. new \in Reservations /\ new # None
  BY Zenon, ReservationType, NoneIsNoValue
<1>2. /\ a \in Rooms
      /\ a.peers = [r.peers EXCEPT ![p] = Occupant(adm, r.next_conn_id)]
      /\ a.next_conn_id = r.next_conn_id + 1
      /\ a.reservations = r.reservations
      /\ a.host_peer_id = r.host_peer_id
      /\ a.host_verifier = r.host_verifier
      /\ a.session_id = r.session_id
      /\ a.owner_ip_key = r.owner_ip_key
      /\ a.closing = r.closing
      /\ Occupant(adm, r.next_conn_id) # None
  BY Zenon, AdmitFields
<1>3. b = IF p = a.host_peer_id THEN a ELSE [a EXCEPT !.reservations[p] = new]
  BY Zenon DEF Reserve
<1>4. s = [b EXCEPT !.last_activity_at = t]
  BY Zenon DEF Enter
<1> HIDE DEF a, b, s, new
<1>5. /\ b \in Rooms
      /\ b.reservations = IF p = a.host_peer_id THEN a.reservations
                          ELSE [a.reservations EXCEPT ![p] = new]
      /\ b.peers = a.peers /\ b.next_conn_id = a.next_conn_id
      /\ b.host_peer_id = a.host_peer_id /\ b.host_verifier = a.host_verifier
      /\ b.session_id = a.session_id /\ b.owner_ip_key = a.owner_ip_key
      /\ b.closing = a.closing
  BY Zenon, <1>1, <1>2, <1>3 DEF Rooms
<1>6. /\ s \in Rooms /\ s.reservations = b.reservations
      /\ s.peers = b.peers /\ s.next_conn_id = b.next_conn_id
      /\ s.host_peer_id = b.host_peer_id /\ s.host_verifier = b.host_verifier
      /\ s.session_id = b.session_id /\ s.owner_ip_key = b.owner_ip_key
      /\ s.closing = b.closing
  BY Zenon, <1>4, <1>5 DEF Rooms
<1>7. s.reservations = IF p = r.host_peer_id THEN r.reservations
                       ELSE [r.reservations EXCEPT ![p] = new]
  BY Zenon, <1>2, <1>5, <1>6
<1> QED
  BY Zenon, <1>1, <1>2, <1>5, <1>6, <1>7 DEF new, s

\* The admission at the end of join_or_resume: the capacity check before it is
\* what leaves room for a new reservation.
LEMMA EnterOK ==
  ASSUME NEW r, RoomOK(r), NEW p \in PeerIds, NEW v \in Verifiers,
         NEW adm \in Admissions, NEW t \in Nat, ~RoomFull(r, p)
  PROVE  RoomOK(Enter(r, p, v, adm, t))
<1> DEFINE s == Enter(r, p, v, adm, t)
           o == Occupant(adm, r.next_conn_id)
           new == [verifier |-> v, absent_since |-> None, release_pending |-> FALSE]
<1>1. r \in Rooms /\ RosterOK(r) /\ EntriesOK(r)
  BY Zenon DEF RoomOK
<1>2. /\ s \in Rooms /\ s.host_peer_id = r.host_peer_id
      /\ s.peers = [r.peers EXCEPT ![p] = o]
      /\ p = r.host_peer_id => s.reservations = r.reservations
      /\ p # r.host_peer_id => s.reservations = [r.reservations EXCEPT ![p] = new]
      /\ o # None /\ new # None
      /\ s.next_conn_id = r.next_conn_id + 1 /\ s.closing = r.closing
      /\ s.owner_ip_key = r.owner_ip_key
  BY <1>1, EnterFields
<1>r. new \in Reservations /\ new.absent_since = None
  BY Zenon, ReservationType
<1> HIDE DEF s, new
<1>3. Connected(s) = Connected(r) \cup {p}
  BY Zenon, <1>1, <1>2 DEF Connected, Rooms
<1>e. EntriesOK(s)
  BY Zenon, <1>1, <1>2, <1>r, <1>3, AdmittedEntries
<1> HIDE DEF o
<1>4. CASE p = r.host_peer_id
  <2>1. Reserved(s) = Reserved(r)
    BY Zenon, <1>2, <1>4 DEF Reserved
  <2> QED
    BY Zenon, <1>1, <1>2, <1>3, <1>e, <1>4, <2>1 DEF RoomOK, RosterOK, s
<1>5. CASE p # r.host_peer_id
  <2>1. Reserved(s) = Reserved(r) \cup {p}
    BY Zenon, <1>1, <1>2, <1>5 DEF Reserved, Rooms
  <2> QED
    BY Zenon, <1>1, <1>2, <1>3, <1>e, <1>5, <2>1 DEF RoomOK, RosterOK, s
<1> QED
  BY Zenon, <1>4, <1>5

\* join_or_resume keeps the roster well formed, whichever way it ends.
LEMMA JoinOrResumeOK ==
  ASSUME NEW r, RoomOK(r), NEW p \in PeerIds, NEW token, NEW adm \in Admissions,
         NEW resume_only \in BOOLEAN, NEW t \in Nat
  PROVE  RoomOK(JoinOrResume(r, p, token, adm, resume_only, t).room)
<1> DEFINE q == PruneExpiredReservations(r, t)
           v == FromToken(token)
<1>1. RoomOK(q)
  BY Zenon, PruneOK
<1>2. Authorized(q, p, v, resume_only) => v \in Verifiers
  BY Zenon, TokenType DEF Authorized
<1>3. Authorized(q, p, v, resume_only) /\ ~RoomFull(q, p)
        => RoomOK(Enter(q, p, v, adm, t))
  BY Zenon, <1>1, <1>2, EnterOK
<1> HIDE DEF q, v
<1> QED
  BY Zenon, <1>1, <1>3 DEF JoinOrResume, q, v

\* begin_leave only marks the reservation.
LEMMA BeginLeaveOK ==
  ASSUME NEW r, RoomOK(r), NEW p \in PeerIds, r.reservations[p] # None
  PROVE  RoomOK(BeginLeave(r, p))
<1> DEFINE s == BeginLeave(r, p)
           res == [r.reservations[p] EXCEPT !.release_pending = TRUE]
<1>1. r \in Rooms /\ RosterOK(r) /\ EntriesOK(r)
  BY Zenon DEF RoomOK
<1>2. r.reservations[p] \in Reservations
  BY Zenon, <1>1 DEF Rooms
<1>3. res \in Reservations /\ res # None
  BY Zenon, <1>2, NoneIsNoValue DEF Reservations
<1>4. s = [r EXCEPT !.reservations[p] = res]
  BY Zenon DEF BeginLeave
<1> HIDE DEF res, s
<1>5. /\ s \in Rooms /\ s.reservations = [r.reservations EXCEPT ![p] = res]
      /\ s.peers = r.peers /\ s.host_peer_id = r.host_peer_id
      /\ s.next_conn_id = r.next_conn_id /\ s.closing = r.closing
      /\ s.owner_ip_key = r.owner_ip_key
  BY Zenon, <1>1, <1>3, <1>4 DEF Rooms
<1>6. Reserved(s) = Reserved(r) /\ Connected(s) = Connected(r)
  BY Zenon, <1>1, <1>3, <1>5 DEF Reserved, Connected, Rooms
<1>7. EntriesOK(s)
  <2>1. res.absent_since = r.reservations[p].absent_since
    BY Zenon, <1>2 DEF res, Reservations
  <2>2. \A q \in Reserved(s) :
          s.reservations[q].absent_since = r.reservations[q].absent_since
    BY Zenon, <1>1, <1>5, <2>1 DEF Reserved, Rooms
  <2> QED
    BY Zenon, <1>1, <1>5, <1>6, <2>2, EntriesKept
<1> QED
  BY Zenon, <1>1, <1>5, <1>6, <1>7 DEF RoomOK, RosterOK, s

\* An identity that gives up both its entry and its reservation.
LEMMA FinishLeaveOK ==
  ASSUME NEW r, RoomOK(r), NEW p \in PeerIds, NEW k, NEW persisted \in BOOLEAN,
         NEW t \in Nat
  PROVE  RoomOK(FinishLeave(r, p, k, persisted, t).room)
<1> DEFINE s == [r EXCEPT !.peers[p] = None, !.reservations[p] = None,
                          !.last_activity_at = t]
           res == [r.reservations[p] EXCEPT !.release_pending = FALSE]
           b == [r EXCEPT !.reservations[p] = res]
<1>1. r \in Rooms /\ RosterOK(r) /\ EntriesOK(r)
  BY Zenon DEF RoomOK
<1>2. RoomOK(s)
  <2>1. /\ s \in Rooms /\ s.host_peer_id = r.host_peer_id
        /\ s.peers = [r.peers EXCEPT ![p] = None]
        /\ s.reservations = [r.reservations EXCEPT ![p] = None]
        /\ s.next_conn_id = r.next_conn_id /\ s.closing = r.closing
        /\ s.owner_ip_key = r.owner_ip_key
    BY Zenon, <1>1 DEF Rooms
  <2> HIDE DEF s
  <2>2. Reserved(s) = Reserved(r) \ {p} /\ Connected(s) = Connected(r) \ {p}
    BY Zenon, <1>1, <2>1 DEF Reserved, Connected, Rooms
  <2>3. Connected(s) \subseteq Reserved(s) \cup {s.host_peer_id}
    BY Zenon, <1>1, <2>1, <2>2 DEF RosterOK
  <2>4. \A q \in PeerIds \ {p} : /\ s.peers[q] = r.peers[q]
                                /\ s.reservations[q] = r.reservations[q]
    BY Zenon, <1>1, <2>1 DEF Rooms
  <2>5. Reserved(s) \subseteq PeerIds /\ Connected(s) \subseteq PeerIds
    BY Zenon DEF Reserved, Connected
  <2>6. EntriesOK(s)
    BY Zenon, <1>1, <2>1, <2>2, <2>4, <2>5 DEF EntriesOK
  <2> QED
    BY Zenon, <1>1, <2>1, <2>2, <2>3, <2>6, SmallerRoster DEF RoomOK
<1>3. StillOwns(r, p, k) => RoomOK(b)
  <2> SUFFICES ASSUME StillOwns(r, p, k) PROVE RoomOK(b)
    BY Zenon
  <2>1. r.reservations[p] \in Reservations /\ r.reservations[p] # None
    BY Zenon, <1>1 DEF StillOwns, Rooms
  <2>2. res \in Reservations /\ res # None
    BY Zenon, <2>1, NoneIsNoValue DEF Reservations
  <2> HIDE DEF res
  <2>3. /\ b \in Rooms /\ b.reservations = [r.reservations EXCEPT ![p] = res]
        /\ b.peers = r.peers /\ b.host_peer_id = r.host_peer_id
        /\ b.next_conn_id = r.next_conn_id /\ b.closing = r.closing
        /\ b.owner_ip_key = r.owner_ip_key
    BY Zenon, <1>1, <2>2 DEF Rooms
  <2> HIDE DEF b
  <2>4. Reserved(b) = Reserved(r) /\ Connected(b) = Connected(r)
    BY Zenon, <1>1, <2>1, <2>2, <2>3 DEF Reserved, Connected, Rooms
  <2>5. EntriesOK(b)
    <3>1. res.absent_since = r.reservations[p].absent_since
      BY Zenon, <2>1 DEF res, Reservations
    <3>2. \A q \in Reserved(b) :
            b.reservations[q].absent_since = r.reservations[q].absent_since
      BY Zenon, <1>1, <2>3, <3>1 DEF Reserved, Rooms
    <3> QED
      BY Zenon, <1>1, <2>3, <2>4, <3>2, EntriesKept
  <2> QED
    BY Zenon, <1>1, <2>3, <2>4, <2>5 DEF RoomOK, RosterOK
<1> HIDE DEF s
<1> QED
  BY Zenon, <1>2, <1>3 DEF FinishLeave, s

\* Closing a room (begin_end_session, a reclaim, the sweep) keeps its roster.
LEMMA ClosingOK ==
  ASSUME NEW r, RoomOK(r)
  PROVE  RoomOK([r EXCEPT !.closing = TRUE])
<1> DEFINE s == [r EXCEPT !.closing = TRUE]
<1>1. r \in Rooms /\ RosterOK(r) /\ EntriesOK(r)
  BY Zenon DEF RoomOK
<1>2. /\ s \in Rooms /\ s.peers = r.peers /\ s.reservations = r.reservations
      /\ s.host_peer_id = r.host_peer_id
      /\ s.next_conn_id = r.next_conn_id /\ s.closing = TRUE
  BY Zenon, <1>1 DEF Rooms
<1> HIDE DEF s
<1>3. Reserved(s) = Reserved(r) /\ Connected(s) = Connected(r)
  BY Zenon, <1>2 DEF Reserved, Connected
<1>4. EntriesOK(s)
  BY Zenon, <1>1, <1>2, <1>3 DEF EntriesOK
<1> QED
  BY Zenon, <1>1, <1>2, <1>3, <1>4 DEF RoomOK, RosterOK, s

\* finish_end_session empties the room.
LEMMA FinishEndSessionOK ==
  ASSUME NEW r, RoomOK(r), NEW guests, NEW persisted \in BOOLEAN
  PROVE  RoomOK(FinishEndSession(r, guests, persisted).room)
<1> DEFINE none == [p \in PeerIds |-> None]
           s == [r EXCEPT !.peers = none, !.reservations = none]
<1>1. r \in Rooms /\ RosterOK(r) /\ EntriesOK(r)
  BY Zenon DEF RoomOK
<1>2. none \in [PeerIds -> {None}]
  BY Zenon
<1> HIDE DEF none
<1>3. /\ s \in Rooms /\ s.peers = none /\ s.reservations = none
      /\ s.host_peer_id = r.host_peer_id
  BY Zenon, <1>1, <1>2 DEF Rooms
<1> HIDE DEF s
<1>4. Reserved(s) = {} /\ Connected(s) = {}
  BY Zenon, <1>2, <1>3 DEF Reserved, Connected
<1>5. RoomOK(s)
  <2>1. EntriesOK(s)
    BY Zenon, <1>4 DEF EntriesOK
  <2> QED
    BY Zenon, <1>1, <1>3, <1>4, <2>1, SmallerRoster DEF RoomOK
<1> QED
  BY Zenon, <1>5 DEF FinishEndSession, s, none

\* What a successful transfer requires.
LEMMA TransferAllowed ==
  ASSUME NEW r \in Rooms, NEW p, NEW k, NEW version_ok \in BOOLEAN, NEW target,
         TransferError(r, p, k, version_ok, target) = None
  PROVE  /\ ~r.closing /\ p = r.host_peer_id /\ target # p
         /\ target \in Connected(r) /\ target \in Transferable(r)
         /\ IsCurrent(r, p, k)
<1>1. /\ None # "peer_id_unavailable" /\ None # "not_host"
      /\ None # "peer_not_found" /\ None # "host_transfer_unavailable"
  BY Zenon, NoneIsNoValue DEF ErrorCodes
<1> DEFINE A == r.closing \/ ~IsCurrent(r, p, k) \/ ~version_ok
           C == target = p \/ target \notin Connected(r) \cap Transferable(r)
<1>2. ~A /\ p = r.host_peer_id /\ ~C
  <2> HIDE DEF A, C
  <2>1. ~A
    BY Zenon, <1>1 DEF TransferError, A
  <2>2. p = r.host_peer_id
    BY Zenon, <1>1, <2>1 DEF TransferError, A
  <2>3. ~C
    BY Zenon, <1>1, <2>1, <2>2 DEF TransferError, A, C
  <2> QED
    BY Zenon, <2>1, <2>2, <2>3
<1> QED
  BY Zenon, <1>2

\* What swapping the roles does to a room, field by field.
LEMMA SwapHostFields ==
  ASSUME NEW r \in Rooms, NEW target \in PeerIds, r.reservations[target] # None,
         target # r.host_peer_id
  PROVE  LET s == SwapHost(r, target)
             h == r.host_peer_id
             old == [verifier |-> r.host_verifier, absent_since |-> None,
                     release_pending |-> FALSE]
         IN  /\ s \in Rooms
             /\ s.peers = r.peers
             /\ s.next_conn_id = r.next_conn_id
             /\ s.reservations = [r.reservations EXCEPT ![target] = None, ![h] = old]
             /\ s.host_peer_id = target
             /\ s.host_verifier = r.reservations[target].verifier
             /\ s.session_id = r.session_id
             /\ s.owner_ip_key = r.owner_ip_key
             /\ s.closing = r.closing
             /\ Reserved(s) = (Reserved(r) \ {target}) \cup {h}
             /\ Connected(s) = Connected(r)
<1> DEFINE s == SwapHost(r, target)
           h == r.host_peer_id
           old == [verifier |-> r.host_verifier, absent_since |-> None,
                   release_pending |-> FALSE]
           res == [r.reservations EXCEPT ![target] = None, ![h] = old]
           v == r.reservations[target].verifier
<1>1. old \in Reservations /\ old # None
  BY Zenon, ReservationType, NoneIsNoValue DEF Rooms
<1>2. v \in Verifiers
  BY Zenon DEF Rooms, Reservations
<1> HIDE DEF old, v
<1>3. res \in [PeerIds -> Reservations \cup {None}]
  BY Zenon, <1>1 DEF Rooms
<1>4. s = [r EXCEPT !.reservations = res, !.host_verifier = v, !.host_peer_id = target]
  BY Zenon DEF SwapHost, old, v, Rooms
<1>5. \A q \in PeerIds : res[q] # None <=> (q = h \/ (q # target /\ r.reservations[q] # None))
  BY Zenon, <1>1 DEF Rooms
<1> HIDE DEF res, s
<1>6. /\ s \in Rooms /\ s.reservations = res /\ s.host_verifier = v
      /\ s.host_peer_id = target /\ s.peers = r.peers
      /\ s.next_conn_id = r.next_conn_id /\ s.session_id = r.session_id
      /\ s.owner_ip_key = r.owner_ip_key /\ s.closing = r.closing
  BY Zenon, <1>2, <1>3, <1>4 DEF Rooms
<1>7. Reserved(s) = (Reserved(r) \ {target}) \cup {h}
  BY Zenon, <1>5, <1>6 DEF Reserved, Rooms
<1>8. Connected(s) = Connected(r)
  BY Zenon, <1>6 DEF Connected
<1> QED
  BY Zenon, <1>6, <1>7, <1>8 DEF s, res, v, old

\* transfer_host swaps one reservation for another: the target's for the old
\* host's, so their number stays.
LEMMA TransferHostOK ==
  ASSUME NEW r, RoomOK(r), NEW p, NEW k, NEW version_ok \in BOOLEAN,
         NEW target \in PeerIds
  PROVE  RoomOK(TransferHost(r, p, k, version_ok, target).room)
<1> DEFINE code == TransferError(r, p, k, version_ok, target)
           s == SwapHost(r, target)
           h == r.host_peer_id
<1>1. r \in Rooms /\ RosterOK(r) /\ EntriesOK(r)
  BY Zenon DEF RoomOK
<1>2. ASSUME code = None PROVE RoomOK(s)
  <2>1. target # h /\ target \in Reserved(r) /\ r.reservations[target] # None
    BY Zenon, <1>1, <1>2, TransferAllowed DEF Transferable, Reserved
  <2>2. /\ s \in Rooms /\ s.host_peer_id = target /\ Connected(s) = Connected(r)
        /\ Reserved(s) = (Reserved(r) \ {target}) \cup {h}
        /\ s.peers = r.peers /\ s.next_conn_id = r.next_conn_id
        /\ s.closing = r.closing /\ s.owner_ip_key = r.owner_ip_key
    BY Zenon, <1>1, <2>1, SwapHostFields
  <2>e. EntriesOK(s)
    <3> DEFINE old == [verifier |-> r.host_verifier, absent_since |-> None,
                       release_pending |-> FALSE]
    <3>1. s.reservations = [r.reservations EXCEPT ![target] = None, ![h] = old]
      BY Zenon, <1>1, <2>1, SwapHostFields
    <3>2. old.absent_since = None
      BY Zenon
    <3> HIDE DEF s, old
    <3>3. h \in Connected(r)
      BY Zenon, <1>1, <1>2, TransferAllowed DEF IsCurrent, Connected, Rooms
    <3>4. \A q \in Reserved(s) : q # h =>
            q \in Reserved(r) /\ s.reservations[q] = r.reservations[q]
      BY Zenon, <1>1, <2>2, <3>1 DEF Reserved, Rooms
    <3>5. s.reservations[h].absent_since = None
      BY Zenon, <1>1, <3>1, <3>2 DEF Rooms
    <3> QED
      BY Zenon, <1>1, <2>2, <3>3, <3>4, <3>5 DEF EntriesOK
  <2> HIDE DEF s
  <2>8. Connected(s) \subseteq Reserved(s) \cup {target} /\ target \notin Reserved(s)
    BY Zenon, <1>1, <2>1, <2>2 DEF RosterOK
  <2> QED
    BY Zenon, <2>2, <2>e, <2>8 DEF RoomOK, RosterOK
<1> HIDE DEF code, s
<1> QED
  BY Zenon, <1>2 DEF TransferHost, code, s

\* What else a successful transfer requires: is_valid_target.
LEMMA TransferEligible ==
  ASSUME NEW r \in Rooms, NEW p, NEW k, NEW version_ok \in BOOLEAN, NEW target,
         TransferError(r, p, k, version_ok, target) = None
  PROVE  IsValidTarget(r.host_peer_id, PeerInfos(r), Transferable(r), target)
<1>1. /\ ~r.closing /\ p = r.host_peer_id /\ target # p /\ IsCurrent(r, p, k)
      /\ target \in Connected(r) /\ target \in Transferable(r)
  BY Zenon, TransferAllowed
<1>2. /\ None # "peer_id_unavailable" /\ None # "host_transfer_unavailable"
  BY Zenon, NoneIsNoValue DEF ErrorCodes
<1> QED
  BY Zenon, <1>1, <1>2 DEF TransferError

\* Eligibility is symmetric: it compares the two versions for equality and
\* asks the same of both.
LEMMA EligibilitySymmetric ==
  ASSUME NEW h, NEW x, NEW infos, NEW reserved, NEW reserved2,
         IsValidTarget(h, infos, reserved, x), h \in reserved2
  PROVE  IsValidTarget(x, infos, reserved2, h)
BY Zenon DEF IsValidTarget, EligibleHost

\* A transfer can be handed straight back, and handing it back undoes it: the
\* target is connected, so its reservation had nothing but its verifier.
LEMMA TransferBack ==
  ASSUME NEW r, RoomOK(r), ~r.closing, NEW x \in Connected(r),
         TransferError(r, r.host_peer_id, r.peers[r.host_peer_id].conn_id, TRUE, x) = None
  PROVE  LET s == SwapHost(r, x)
         IN  /\ TransferError(s, x, s.peers[x].conn_id, TRUE, r.host_peer_id) = None
             /\ SwapHost(s, r.host_peer_id) = r
<1> DEFINE h == r.host_peer_id
           s == SwapHost(r, x)
           old == [verifier |-> r.host_verifier, absent_since |-> None,
                   release_pending |-> FALSE]
<1>1. r \in Rooms /\ RosterOK(r) /\ EntriesOK(r) /\ h \in PeerIds /\ x \in PeerIds
  BY Zenon DEF RoomOK, Rooms, Connected
<1>2. /\ x # h /\ x \in Reserved(r) /\ r.reservations[x] # None
      /\ ~r.reservations[x].release_pending
      /\ IsCurrent(r, h, r.peers[h].conn_id)
  BY ZenonT(40), <1>1, TransferAllowed DEF Transferable, Reserved
<1>3. IsValidTarget(h, PeerInfos(r), Transferable(r), x)
  BY Zenon, <1>1, TransferEligible
<1>4. /\ s \in Rooms /\ s.peers = r.peers /\ s.next_conn_id = r.next_conn_id
      /\ s.reservations = [r.reservations EXCEPT ![x] = None, ![h] = old]
      /\ s.host_peer_id = x /\ s.host_verifier = r.reservations[x].verifier
      /\ s.session_id = r.session_id /\ s.owner_ip_key = r.owner_ip_key
      /\ s.closing = r.closing
      /\ Reserved(s) = (Reserved(r) \ {x}) \cup {h} /\ Connected(s) = Connected(r)
  BY ZenonT(40), <1>1, <1>2, SwapHostFields
<1>5. /\ s.created_at = r.created_at /\ s.last_activity_at = r.last_activity_at
  BY Zenon, <1>1 DEF SwapHost, Rooms
<1>6. /\ old \in Reservations /\ old # None /\ old.verifier = r.host_verifier
      /\ old.release_pending = FALSE
  BY Zenon, <1>1, ReservationType, NoneIsNoValue DEF Rooms
<1> HIDE DEF old
<1>7. s.reservations[h] = old
  BY Zenon, <1>1, <1>4 DEF Rooms
<1>8. TransferError(s, x, s.peers[x].conn_id, TRUE, h) = None
  <2> HIDE DEF s
  <2>1. h \in Transferable(s)
    BY Zenon, <1>4, <1>6, <1>7 DEF Transferable
  <2>2. PeerInfos(s) = PeerInfos(r)
    BY Zenon, <1>4 DEF PeerInfos
  <2>3. IsValidTarget(s.host_peer_id, PeerInfos(s), Transferable(s), h)
    BY Zenon, <1>3, <1>4, <2>1, <2>2, EligibilitySymmetric
  <2>4. IsCurrent(s, x, s.peers[x].conn_id)
    BY Zenon, <1>4 DEF IsCurrent, Connected
  <2>5. h \in Connected(s)
    BY Zenon, <1>1, <1>2, <1>4 DEF IsCurrent, Connected
  <2> QED
    BY Zenon, <1>2, <1>4, <2>1, <2>3, <2>4, <2>5 DEF TransferError
<1>9. SwapHost(s, h) = r
  <2> DEFINE u == SwapHost(s, h)
             new == [verifier |-> s.host_verifier, absent_since |-> None,
                     release_pending |-> FALSE]
  <2>1. r.reservations[x] = new
    <3>1. r.reservations[x].absent_since = None /\ r.reservations[x] \in Reservations
      BY Zenon, <1>1, <1>2 DEF EntriesOK, Rooms
    <3>2. r.reservations[x].release_pending = FALSE
      BY Zenon, <1>2, <3>1 DEF Reservations
    <3> HIDE DEF s
    <3> QED
      BY Zenon, <1>4, <3>1, <3>2 DEF Reservations
  <2> HIDE DEF s
  <2>2. /\ u \in Rooms /\ u.peers = s.peers /\ u.next_conn_id = s.next_conn_id
        /\ u.reservations = [s.reservations EXCEPT ![h] = None, ![x] = new]
        /\ u.host_peer_id = h /\ u.host_verifier = s.reservations[h].verifier
        /\ u.session_id = s.session_id /\ u.owner_ip_key = s.owner_ip_key
        /\ u.closing = s.closing
    <3>1. /\ s.reservations[h] # None /\ h # s.host_peer_id
          /\ s \in Rooms /\ h \in PeerIds
      BY Zenon, <1>1, <1>2, <1>4, <1>6, <1>7
    <3> HIDE DEF h
    <3>2. /\ u \in Rooms /\ u.peers = s.peers /\ u.next_conn_id = s.next_conn_id
          /\ u.reservations = [s.reservations EXCEPT ![h] = None, ![s.host_peer_id] = new]
          /\ u.host_peer_id = h /\ u.host_verifier = s.reservations[h].verifier
          /\ u.session_id = s.session_id /\ u.owner_ip_key = s.owner_ip_key
          /\ u.closing = s.closing
      BY ZenonT(40), <3>1, SwapHostFields
    <3> QED
      BY Zenon, <1>4, <3>2
  <2>3. u.created_at = s.created_at /\ u.last_activity_at = s.last_activity_at
    BY Zenon, <1>4 DEF SwapHost, Rooms
  <2>4. r.reservations[h] = None
    BY Zenon, <1>1 DEF RosterOK, Reserved
  <2> HIDE DEF u, new
  <2>5. u.reservations = r.reservations
    BY <1>1, <1>2, <1>4, <2>1, <2>2, <2>4 DEF Rooms
  <2>6. u = r
    BY <1>1, <1>4, <1>5, <1>6, <1>7, <2>2, <2>3, <2>5 DEF Rooms
  <2> QED
    BY Zenon, <2>6 DEF u
<1> QED
  BY Zenon, <1>8, <1>9

\* Traffic only touches the activity time.
LEMMA ActivityOK ==
  ASSUME NEW r, RoomOK(r), NEW t \in Nat
  PROVE  RoomOK([r EXCEPT !.last_activity_at = t])
<1> DEFINE s == [r EXCEPT !.last_activity_at = t]
<1>1. r \in Rooms /\ RosterOK(r) /\ EntriesOK(r)
  BY Zenon DEF RoomOK
<1>2. /\ s \in Rooms /\ s.peers = r.peers /\ s.reservations = r.reservations
      /\ s.host_peer_id = r.host_peer_id
      /\ s.next_conn_id = r.next_conn_id /\ s.closing = r.closing
      /\ s.owner_ip_key = r.owner_ip_key
  BY Zenon, <1>1 DEF Rooms
<1> HIDE DEF s
<1>3. Reserved(s) = Reserved(r) /\ Connected(s) = Connected(r)
  BY Zenon, <1>2 DEF Reserved, Connected
<1>4. EntriesOK(s)
  BY Zenon, <1>1, <1>2, <1>3, EntriesKept
<1> QED
  BY Zenon, <1>1, <1>2, <1>3, <1>4 DEF RoomOK, RosterOK, s

\* broadcast leaves the roster alone.
LEMMA BroadcastOK ==
  ASSUME NEW r, RoomOK(r), NEW p, NEW k, NEW t \in Nat
  PROVE  RoomOK(Broadcast(r, p, k, t).room)
BY Zenon, ActivityOK DEF Broadcast

\* send_to leaves the roster alone.
LEMMA SendToOK ==
  ASSUME NEW r, RoomOK(r), NEW p, NEW k, NEW target, NEW t \in Nat
  PROVE  RoomOK(SendTo(r, p, k, target, t).room)
BY Zenon, ActivityOK DEF SendTo

\* What a disconnection does to a room, field by field.
LEMMA VacateFields ==
  ASSUME NEW r \in Rooms, NEW p \in PeerIds, NEW t \in Nat
  PROVE  LET s == Vacate(r, p, t)
         IN  /\ s \in Rooms
             /\ s.peers = [r.peers EXCEPT ![p] = None]
             /\ s.next_conn_id = r.next_conn_id
             /\ p = r.host_peer_id \/ r.reservations[p] = None
                  => s.reservations = r.reservations
             /\ p # r.host_peer_id /\ r.reservations[p] # None
                  => s.reservations = [r.reservations EXCEPT ![p] =
                                         [r.reservations[p] EXCEPT !.absent_since = t]]
             /\ s.host_peer_id = r.host_peer_id
             /\ s.host_verifier = r.host_verifier
             /\ s.session_id = r.session_id
             /\ s.owner_ip_key = r.owner_ip_key
             /\ s.closing = r.closing
             /\ Reserved(s) = Reserved(r)
             /\ Connected(s) = Connected(r) \ {p}
<1> DEFINE a == [r EXCEPT !.peers[p] = None, !.last_activity_at = t]
           s == Vacate(r, p, t)
           res == [r.reservations[p] EXCEPT !.absent_since = t]
           free == p = r.host_peer_id \/ r.reservations[p] = None
<1>1. /\ a \in Rooms /\ a.peers = [r.peers EXCEPT ![p] = None]
      /\ a.next_conn_id = r.next_conn_id /\ a.reservations = r.reservations
      /\ a.host_peer_id = r.host_peer_id /\ a.host_verifier = r.host_verifier
      /\ a.session_id = r.session_id /\ a.owner_ip_key = r.owner_ip_key
      /\ a.closing = r.closing
  BY Zenon DEF Rooms
<1>2. s = IF free THEN a
          ELSE [a EXCEPT !.reservations[p] = [@ EXCEPT !.absent_since = t]]
  BY Zenon DEF Vacate
<1> HIDE DEF a, s
<1>3. ~free => res \in Reservations /\ res # None
  <2>1. ~free => r.reservations[p] \in Reservations
    BY Zenon DEF Rooms
  <2> QED
    BY Zenon, <2>1, NoneIsNoValue DEF Reservations
<1>4. s = IF free THEN a ELSE [a EXCEPT !.reservations[p] = res]
  BY Zenon, <1>1, <1>2 DEF Rooms
<1> HIDE DEF res, free
<1>5. /\ s \in Rooms /\ s.peers = a.peers
      /\ s.reservations = IF free THEN r.reservations
                          ELSE [r.reservations EXCEPT ![p] = res]
      /\ s.next_conn_id = a.next_conn_id
      /\ s.host_peer_id = a.host_peer_id /\ s.host_verifier = a.host_verifier
      /\ s.session_id = a.session_id /\ s.owner_ip_key = a.owner_ip_key
      /\ s.closing = a.closing
  BY Zenon, <1>1, <1>3, <1>4 DEF Rooms
<1>6. Reserved(s) = Reserved(r)
  BY Zenon, <1>3, <1>5 DEF Reserved, Rooms, free
<1>7. Connected(s) = Connected(r) \ {p}
  BY <1>1, <1>5 DEF Connected, Rooms
<1> QED
  BY Zenon, <1>1, <1>5, <1>6, <1>7 DEF s, free, res

\* handle_disconnect drops the entry and keeps the reservation.
LEMMA HandleDisconnectOK ==
  ASSUME NEW r, RoomOK(r), NEW p \in PeerIds, NEW k, NEW t \in Nat
  PROVE  RoomOK(HandleDisconnect(r, p, k, t).room)
<1> DEFINE s == Vacate(r, p, t)
<1>1. r \in Rooms /\ RosterOK(r) /\ EntriesOK(r)
  BY Zenon DEF RoomOK
<1>2. /\ s \in Rooms /\ s.host_peer_id = r.host_peer_id
      /\ Reserved(s) = Reserved(r) /\ Connected(s) = Connected(r) \ {p}
      /\ s.peers = [r.peers EXCEPT ![p] = None]
      /\ s.next_conn_id = r.next_conn_id /\ s.closing = r.closing
      /\ s.owner_ip_key = r.owner_ip_key
  BY ZenonT(40), <1>1, VacateFields
<1>e. EntriesOK(s)
  <2> DEFINE res == [r.reservations[p] EXCEPT !.absent_since = t]
  <2>1. /\ p = r.host_peer_id \/ r.reservations[p] = None
             => s.reservations = r.reservations
        /\ p # r.host_peer_id /\ r.reservations[p] # None
             => s.reservations = [r.reservations EXCEPT ![p] = res]
    BY ZenonT(40), <1>1, VacateFields
  <2>2. p \in Reserved(r) => res.absent_since # None
    BY Zenon, <1>1, NoneIsNoValue DEF Reserved, Rooms, Reservations
  <2> HIDE DEF s, res
  <2>3. p \in Reserved(s) => s.reservations[p].absent_since # None
    BY <1>1, <1>2, <2>1, <2>2 DEF RosterOK, Reserved, Rooms
  <2>4. \A q \in Reserved(s) : q # p =>
          q \in Reserved(r) /\ s.reservations[q] = r.reservations[q]
    BY Zenon, <1>1, <1>2, <2>1 DEF Reserved, Rooms
  <2>5. \A q \in Connected(s) : q \in Connected(r) /\ s.peers[q] = r.peers[q]
    BY Zenon, <1>1, <1>2 DEF Connected, Rooms
  <2> QED
    BY Zenon, <1>1, <1>2, <2>3, <2>4, <2>5 DEF EntriesOK
<1> HIDE DEF s
<1>3. RoomOK(s)
  BY Zenon, <1>1, <1>2, <1>e DEF RoomOK, RosterOK
<1> QED
  BY Zenon, <1>3 DEF HandleDisconnect, s

\* The cleanup sweep may also close the room and drop every entry.
LEMMA SweepStateOK ==
  ASSUME NEW r, RoomOK(r), NEW started, NEW t
  PROVE  LET res == SweepState(r, started, t)
         IN  /\ RoomOK(res.room)
             /\ res.evict \in SUBSET ConnectedPeers
             /\ res.remove \in BOOLEAN
<1> DEFINE q == PruneExpiredReservations(r, t)
           none == [p \in PeerIds |-> None]
           s == [q EXCEPT !.closing = TRUE, !.peers = none]
<1>1. RoomOK(q)
  BY Zenon, PruneOK
<1>2. none \in [PeerIds -> {None}]
  BY Zenon
<1> HIDE DEF q, none
<1>3. q \in Rooms /\ RosterOK(q)
  BY Zenon, <1>1 DEF RoomOK
<1>4. /\ s \in Rooms /\ s.peers = none /\ s.reservations = q.reservations
      /\ s.host_peer_id = q.host_peer_id /\ s.closing = TRUE
  BY Zenon, <1>2, <1>3 DEF Rooms
<1> HIDE DEF s
<1>5. Reserved(s) = Reserved(q) /\ Connected(s) = {}
  BY Zenon, <1>2, <1>4 DEF Reserved, Connected
<1>6. RoomOK(s)
  <2>1. EntriesOK(s)
    BY Zenon, <1>4, <1>5 DEF EntriesOK
  <2> QED
    BY Zenon, <1>3, <1>4, <1>5, <2>1 DEF RoomOK, RosterOK
<1>7. {q.peers[p] : p \in Connected(q)} \subseteq ConnectedPeers
  BY Zenon, <1>3 DEF Connected, Rooms
<1>8. SweepRemoves(q, started) \in BOOLEAN
  BY Zenon DEF SweepRemoves
<1> QED
  BY Zenon, <1>1, <1>6, <1>7, <1>8 DEF SweepState, q, s, none
-----------------------------------------------------------------------------
(* No method changes which room this is, none reopens it, and the guests    *)
(* change as Turnover says.                                                *)

\* A method that gives nobody a reservation.
LEMMA SameReserved ==
  ASSUME NEW r, NEW s, s.reservations = r.reservations
  PROVE  Turnover(Reserved(r), Reserved(s)) /\ Reserved(s) = Reserved(r)
BY Zenon DEF Turnover, Reserved

\* reconnect_host neither renames the room nor reopens it.
LEMMA ReconnectHostSame ==
  ASSUME NEW r \in Rooms, NEW adm \in Admissions
  PROVE  SameRoom(r, ReconnectHost(r, adm).room)
<1>1. r.host_peer_id \in PeerIds
  BY Zenon DEF Rooms
<1>2. SameRoom(r, Admit(r, r.host_peer_id, adm))
  BY Zenon, <1>1, AdmitFields, SameReserved DEF SameRoom
<1> QED
  BY Zenon, <1>2 DEF ReconnectHost

\* The same room, with p for a guest where the capacity check finds room.
SameButFor(r, s, p) ==
  /\ s.session_id = r.session_id /\ s.owner_ip_key = r.owner_ip_key
  /\ s.closing = r.closing
  /\ \/ Reserved(s) = Reserved(r)
     \/ /\ Reserved(s) = Reserved(r) \cup {p}
        /\ ~(Cardinality(Reserved(r)) >= MAX_ROOM_SIZE - 1)

\* An admission neither renames the room nor reopens it; it makes one guest at
\* most, where the capacity check finds room.
LEMMA EnterSame ==
  ASSUME NEW r, RoomOK(r), NEW p \in PeerIds, NEW v \in Verifiers,
         NEW adm \in Admissions, NEW t \in Nat, ~RoomFull(r, p)
  PROVE  SameButFor(r, Enter(r, p, v, adm, t), p)
<1> DEFINE s == Enter(r, p, v, adm, t)
           o == Occupant(adm, r.next_conn_id)
           new == [verifier |-> v, absent_since |-> None, release_pending |-> FALSE]
<1>1. r \in Rooms /\ RosterOK(r)
  BY Zenon DEF RoomOK
<1>2. /\ s.peers = [r.peers EXCEPT ![p] = o] /\ o # None
      /\ s.session_id = r.session_id /\ s.owner_ip_key = r.owner_ip_key
      /\ s.closing = r.closing
      /\ p = r.host_peer_id => s.reservations = r.reservations
      /\ p # r.host_peer_id => s.reservations = [r.reservations EXCEPT ![p] = new]
      /\ new # None
  BY <1>1, EnterFields
<1> HIDE DEF s, new
<1>3. CASE p = r.host_peer_id
  BY Zenon, <1>2, <1>3 DEF Reserved, SameButFor, s
<1>4. CASE p # r.host_peer_id
  <2>1. Reserved(s) = Reserved(r) \cup {p}
    BY Zenon, <1>1, <1>2, <1>4 DEF Reserved, Rooms
  <2>2. p \notin Reserved(r) => r.peers[p] = None /\ r.reservations[p] = None
    BY Zenon, <1>1, <1>4 DEF RosterOK, Connected, Reserved
  <2>3. p \in Reserved(r) \/ ~(Cardinality(Reserved(r)) >= MAX_ROOM_SIZE - 1)
    BY Zenon, <1>4, <2>2 DEF RoomFull
  <2>4. p \in Reserved(r) => Reserved(s) = Reserved(r)
    BY Zenon, <2>1
  <2> QED
    BY Zenon, <1>2, <2>1, <2>3, <2>4 DEF s, SameButFor
<1> QED
  BY Zenon, <1>3, <1>4

\* join_or_resume neither renames the room nor reopens it.
LEMMA JoinOrResumeSame ==
  ASSUME NEW r, RoomOK(r), NEW p \in PeerIds, NEW token, NEW adm \in Admissions,
         NEW resume_only \in BOOLEAN, NEW t \in Nat
  PROVE  SameRoom(r, JoinOrResume(r, p, token, adm, resume_only, t).room)
<1> DEFINE q == PruneExpiredReservations(r, t)
           v == FromToken(token)
           s == Enter(q, p, v, adm, t)
<1>1. /\ RoomOK(q)
      /\ q.session_id = r.session_id /\ q.owner_ip_key = r.owner_ip_key
      /\ q.closing = r.closing /\ Reserved(q) = Reserved(r) \ Expired(r, t)
  BY ZenonT(30), PruneFields, PruneOK DEF RoomOK
<1>2. Authorized(q, p, v, resume_only) => v \in Verifiers
  BY Zenon, TokenType DEF Authorized
<1> HIDE DEF q, v
<1>3. ASSUME v \in Verifiers, ~RoomFull(q, p)
      PROVE  SameButFor(q, s, p)
  BY Zenon, <1>1, <1>3, EnterSame
<1> HIDE DEF s
<1>4. Reserved(q) \subseteq Reserved(r) /\ SameRoom(r, q) /\ SameRoom(r, r)
  BY Zenon, <1>1 DEF SameRoom, Turnover
<1>5. v \in Verifiers /\ ~RoomFull(q, p) => SameRoom(r, s)
  <2> SUFFICES ASSUME v \in Verifiers, ~RoomFull(q, p)
               PROVE  SameRoom(r, s)
    BY Zenon
  <2>1. Turnover(Reserved(r), Reserved(s))
    BY Zenon, <1>3, <1>4 DEF Turnover, SameButFor
  <2> QED
    BY Zenon, <1>1, <1>3, <2>1 DEF SameRoom, SameButFor
<1> DEFINE j == JoinOrResume(r, p, token, adm, resume_only, t).room
<1>6. j = r \/ j = q \/ (Authorized(q, p, v, resume_only) /\ ~RoomFull(q, p) /\ j = s)
  BY Zenon DEF JoinOrResume, q, v, s
<1> HIDE DEF j
<1>7. SameRoom(r, j)
  BY Zenon, <1>2, <1>4, <1>5, <1>6
<1> QED
  BY Zenon, <1>7 DEF j

\* begin_leave neither renames the room nor reopens it.
LEMMA BeginLeaveSame ==
  ASSUME NEW r \in Rooms, NEW p \in PeerIds, r.reservations[p] # None
  PROVE  SameRoom(r, BeginLeave(r, p))
<1> DEFINE s == BeginLeave(r, p)
<1>1. /\ s.session_id = r.session_id /\ s.owner_ip_key = r.owner_ip_key
      /\ s.closing = r.closing
  BY Zenon DEF BeginLeave, Rooms
<1>2. Reserved(s) \subseteq Reserved(r)
  BY Zenon DEF BeginLeave, Reserved, Rooms
<1> QED
  BY Zenon, <1>1, <1>2 DEF SameRoom, Turnover

\* finish_leave neither renames the room nor reopens it.
LEMMA FinishLeaveSame ==
  ASSUME NEW r \in Rooms, NEW p, NEW k, NEW persisted \in BOOLEAN, NEW t
  PROVE  SameRoom(r, FinishLeave(r, p, k, persisted, t).room)
<1> DEFINE s == [r EXCEPT !.peers[p] = None, !.reservations[p] = None,
                          !.last_activity_at = t]
           b == [r EXCEPT !.reservations[p].release_pending = FALSE]
<1>1. SameRoom(r, r)
  BY Zenon DEF SameRoom, Turnover
<1>2. SameRoom(r, s)
  <2>1. Reserved(s) \subseteq Reserved(r)
    BY Zenon DEF Reserved, Rooms
  <2> QED
    BY Zenon, <2>1 DEF SameRoom, Turnover, Rooms
<1>3. StillOwns(r, p, k) => SameRoom(r, b)
  <2> SUFFICES ASSUME StillOwns(r, p, k) PROVE SameRoom(r, b)
    BY Zenon
  <2>1. Reserved(b) \subseteq Reserved(r)
    BY Zenon DEF Reserved, Rooms, StillOwns
  <2> QED
    BY Zenon, <2>1 DEF SameRoom, Turnover, Rooms
<1> QED
  BY Zenon, <1>1, <1>2, <1>3 DEF FinishLeave

\* Setting closing closes the room and changes nothing else.
LEMMA ClosingSame ==
  ASSUME NEW r \in Rooms
  PROVE  LET s == [r EXCEPT !.closing = TRUE] IN SameRoom(r, s) /\ s.closing
BY Zenon, SameReserved DEF SameRoom, Rooms

\* finish_end_session leaves the room closed, even when persisting failed.
LEMMA FinishEndSessionSame ==
  ASSUME NEW r \in Rooms, NEW guests, NEW persisted \in BOOLEAN
  PROVE  SameRoom(r, FinishEndSession(r, guests, persisted).room)
<1> DEFINE s == FinishEndSession(r, guests, persisted).room
<1>1. /\ s.session_id = r.session_id /\ s.owner_ip_key = r.owner_ip_key
      /\ s.closing = r.closing /\ s.reservations = [p \in PeerIds |-> None]
  BY Zenon DEF FinishEndSession, Rooms
<1> HIDE DEF s
<1>2. Turnover(Reserved(r), Reserved(s))
  BY Zenon, <1>1 DEF Reserved, Turnover
<1> QED
  BY Zenon, <1>1, <1>2 DEF SameRoom, s

\* transfer_host neither renames the room nor reopens it.
LEMMA TransferHostSame ==
  ASSUME NEW r \in Rooms, NEW p, NEW k, NEW version_ok \in BOOLEAN,
         NEW target \in PeerIds
  PROVE  SameRoom(r, TransferHost(r, p, k, version_ok, target).room)
<1> DEFINE s == SwapHost(r, target)
<1>1. SameRoom(r, r)
  BY Zenon DEF SameRoom, Turnover
<1>2. ASSUME TransferError(r, p, k, version_ok, target) = None
      PROVE  SameRoom(r, s)
  <2>1. /\ target # r.host_peer_id /\ target \in Reserved(r)
        /\ r.reservations[target] # None
    BY Zenon, <1>2, TransferAllowed DEF Transferable, Reserved
  <2>2. /\ Reserved(s) = (Reserved(r) \ {target}) \cup {r.host_peer_id}
        /\ s.session_id = r.session_id /\ s.owner_ip_key = r.owner_ip_key
        /\ s.closing = r.closing
    BY Zenon, <2>1, SwapHostFields
  <2>3. r.host_peer_id \in PeerIds
    BY Zenon DEF Rooms
  <2> HIDE DEF s
  <2>4. Turnover(Reserved(r), Reserved(s))
    BY Zenon, <2>1, <2>2, <2>3 DEF Turnover
  <2> QED
    BY Zenon, <2>2, <2>4 DEF SameRoom
<1> HIDE DEF s
<1> QED
  BY Zenon, <1>1, <1>2 DEF TransferHost, s

\* broadcast and send_to neither rename the room nor reopen it.
LEMMA TrafficSame ==
  ASSUME NEW r \in Rooms, NEW p, NEW k, NEW target, NEW t
  PROVE  /\ SameRoom(r, Broadcast(r, p, k, t).room)
         /\ SameRoom(r, SendTo(r, p, k, target, t).room)
<1>1. SameRoom(r, [r EXCEPT !.last_activity_at = t])
  BY Zenon, SameReserved DEF SameRoom, Rooms
<1>2. SameRoom(r, r)
  BY Zenon DEF SameRoom, Turnover
<1> QED
  BY Zenon, <1>1, <1>2 DEF Broadcast, SendTo

\* handle_disconnect neither renames the room nor reopens it.
LEMMA HandleDisconnectSame ==
  ASSUME NEW r \in Rooms, NEW p \in PeerIds, NEW k, NEW t \in Nat
  PROVE  SameRoom(r, HandleDisconnect(r, p, k, t).room)
<1>1. SameRoom(r, Vacate(r, p, t))
  BY ZenonT(40), VacateFields DEF SameRoom, Turnover
<1>2. SameRoom(r, r)
  BY Zenon DEF SameRoom, Turnover
<1> QED
  BY Zenon, <1>1, <1>2 DEF HandleDisconnect

\* The sweep never reopens a room, and closes the one it removes.
LEMMA SweepStateSame ==
  ASSUME NEW r \in Rooms, NEW started, NEW t
  PROVE  LET res == SweepState(r, started, t)
         IN  SameRoom(r, res.room) /\ (res.remove => res.room.closing)
<1> DEFINE q == PruneExpiredReservations(r, t)
           s == [q EXCEPT !.closing = TRUE, !.peers = [p \in PeerIds |-> None]]
<1>1. /\ q \in Rooms
      /\ q.session_id = r.session_id /\ q.owner_ip_key = r.owner_ip_key
      /\ q.closing = r.closing /\ Reserved(q) = Reserved(r) \ Expired(r, t)
  BY ZenonT(30), PruneFields
<1> HIDE DEF q
<1>2. SameRoom(r, q)
  BY Zenon, <1>1 DEF SameRoom, Turnover
<1>3. /\ s.session_id = q.session_id /\ s.owner_ip_key = q.owner_ip_key
      /\ s.closing /\ s.reservations = q.reservations
  BY Zenon, <1>1 DEF Rooms
<1> HIDE DEF s
<1>4. Reserved(s) = Reserved(q)
  BY Zenon, <1>3, SameReserved
<1>5. SameRoom(r, s)
  BY Zenon, <1>2, <1>3, <1>4 DEF SameRoom
<1> QED
  BY Zenon, <1>2, <1>3, <1>5 DEF SweepState, q, s
-----------------------------------------------------------------------------
(* How a method changes the entries of a room, and its pending leaves *)

KeepsEntries(r, s) == s.peers = r.peers /\ s.next_conn_id = r.next_conn_id

Admits(r, s, p, adm) ==
  /\ s.peers = [r.peers EXCEPT ![p] = Occupant(adm, r.next_conn_id)]
  /\ s.next_conn_id = r.next_conn_id + 1

Drops(r, s, p) ==
  /\ s.peers = [r.peers EXCEPT ![p] = None]
  /\ s.next_conn_id = r.next_conn_id

Clears(r, s) ==
  /\ s.peers = [p \in PeerIds |-> None]
  /\ s.next_conn_id = r.next_conn_id

\* Any of the four: an entry changes only by going or by a new conn_id.
EntriesEvolve(r, s) ==
  /\ r.next_conn_id \in Nat /\ s.next_conn_id \in Nat
  /\ r.next_conn_id <= s.next_conn_id
  /\ \A p \in PeerIds : \/ s.peers[p] = r.peers[p]
                        \/ s.peers[p] = None
                        \/ s.peers[p].conn_id = r.next_conn_id

MarksKept(r, s) ==
  ~s.closing => /\ Pending(s) = Pending(r)
                /\ \A p \in Pending(r) : s.peers[p] = r.peers[p]

\* A room that is cleared gives out no conn_id.
LEMMA ClearsEvolves ==
  ASSUME NEW r, NEW s, r.next_conn_id \in Nat, Clears(r, s)
  PROVE  EntriesEvolve(r, s)
BY DEF Clears, EntriesEvolve

\* The four ways are ways to evolve.
LEMMA Evolutions ==
  ASSUME NEW r \in Rooms, NEW s \in Rooms, NEW p \in PeerIds, NEW adm \in Admissions,
         KeepsEntries(r, s) \/ Admits(r, s, p, adm) \/ Drops(r, s, p) \/ Clears(r, s)
  PROVE  EntriesEvolve(r, s)
<1>1. /\ r.next_conn_id \in Nat /\ s.next_conn_id \in Nat
      /\ r.peers \in [PeerIds -> ConnectedPeers \cup {None}]
  BY Zenon DEF Rooms
<1>2. Occupant(adm, r.next_conn_id).conn_id = r.next_conn_id
  BY Zenon, <1>1, OccupantType
<1> DEFINE o == Occupant(adm, r.next_conn_id)
<1> HIDE DEF o
<1>3. CASE KeepsEntries(r, s)
  BY <1>1, <1>3 DEF KeepsEntries, EntriesEvolve
<1>4. CASE Admits(r, s, p, adm)
  BY <1>1, <1>2, <1>4 DEF Admits, EntriesEvolve, o
<1>5. CASE Drops(r, s, p)
  BY <1>1, <1>5 DEF Drops, EntriesEvolve
<1>6. CASE Clears(r, s)
  BY <1>1, <1>6 DEF Clears, EntriesEvolve
<1> QED
  BY Zenon, <1>3, <1>4, <1>5, <1>6

\* Methods that leave entries and reservations alone.
LEMMA SameMarks ==
  ASSUME NEW r, NEW s, s.peers = r.peers, s.reservations = r.reservations
  PROVE  MarksKept(r, s) /\ Pending(s) = Pending(r)
BY Zenon DEF MarksKept, Pending, Reserved

\* reconnect_host replaces the host's entry, and no guest's.
LEMMA ReconnectHostEntries ==
  ASSUME NEW r, RoomOK(r), NEW adm \in Admissions
  PROVE  LET res == ReconnectHost(r, adm)
         IN  /\ Admits(r, res.room, r.host_peer_id, adm)
             /\ MarksKept(r, res.room)
             /\ res.eff.evict = Replaced(r, r.host_peer_id)
             /\ res.eff.assigned_conn_id = r.next_conn_id
<1> DEFINE h == r.host_peer_id
           s == Admit(r, h, adm)
<1>1. r \in Rooms /\ h \in PeerIds /\ h \notin Reserved(r)
  BY Zenon DEF RoomOK, RosterOK, Rooms
<1>2. /\ s.peers = [r.peers EXCEPT ![h] = Occupant(adm, r.next_conn_id)]
      /\ s.next_conn_id = r.next_conn_id + 1
      /\ s.reservations = r.reservations
  BY Zenon, <1>1, AdmitFields
<1>3. /\ ReconnectHost(r, adm).room = s
      /\ ReconnectHost(r, adm).eff.evict = Replaced(r, h)
      /\ ReconnectHost(r, adm).eff.assigned_conn_id = r.next_conn_id
  BY Zenon DEF ReconnectHost, Effects
<1> HIDE DEF s
<1>4. MarksKept(r, s)
  <2>1. Pending(s) = Pending(r)
    BY Zenon, <1>2 DEF Pending, Reserved
  <2>2. \A p \in Pending(r) : p \in PeerIds /\ p # h
    BY Zenon, <1>1 DEF Pending, Reserved
  <2>3. \A p \in Pending(r) : s.peers[p] = r.peers[p]
    BY Zenon, <1>1, <1>2, <2>2 DEF Rooms
  <2> QED
    BY Zenon, <2>1, <2>3 DEF MarksKept
<1> QED
  BY Zenon, <1>2, <1>3, <1>4 DEF Admits

\* Pruning takes neither an entry nor a reservation whose leave is pending.
LEMMA PruneMarks ==
  ASSUME NEW r \in Rooms, NEW t
  PROVE  LET q == PruneExpiredReservations(r, t)
         IN  /\ KeepsEntries(r, q) /\ MarksKept(r, q) /\ Pending(q) = Pending(r)
             /\ q.closing = r.closing
<1> DEFINE q == PruneExpiredReservations(r, t)
<1>1. /\ q.peers = r.peers /\ q.next_conn_id = r.next_conn_id /\ q.closing = r.closing
      /\ q.reservations = [p \in PeerIds |->
                             IF p \in Expired(r, t) THEN None ELSE r.reservations[p]]
  BY ZenonT(40), PruneFields
<1> HIDE DEF q
<1>2. \A p \in Pending(r) : p \in PeerIds /\ p \notin Expired(r, t)
  BY Zenon DEF Pending, Reserved, Expired
<1>3. Pending(q) = Pending(r)
  BY Zenon, <1>1, <1>2 DEF Pending, Reserved
<1> QED
  BY Zenon, <1>1, <1>3 DEF KeepsEntries, MarksKept, q

\* An admission replaces the entry of an identity that may be entered, which
\* is none whose leave is pending.
LEMMA EnterMarks ==
  ASSUME NEW q, RoomOK(q), NEW p \in PeerIds, NEW v \in Verifiers,
         NEW adm \in Admissions, NEW t \in Nat, p \notin Pending(q)
  PROVE  LET s == Enter(q, p, v, adm, t)
         IN  Admits(q, s, p, adm) /\ MarksKept(q, s)
<1> DEFINE s == Enter(q, p, v, adm, t)
           new == [verifier |-> v, absent_since |-> None, release_pending |-> FALSE]
<1>1. q \in Rooms
  BY Zenon DEF RoomOK
<1>2. /\ s.peers = [q.peers EXCEPT ![p] = Occupant(adm, q.next_conn_id)]
      /\ s.next_conn_id = q.next_conn_id + 1
      /\ p = q.host_peer_id => s.reservations = q.reservations
      /\ p # q.host_peer_id => s.reservations = [q.reservations EXCEPT ![p] = new]
  BY <1>1, EnterFields
<1>3. ~new.release_pending
  BY Zenon
<1>4. /\ q.peers \in [PeerIds -> ConnectedPeers \cup {None}]
      /\ q.reservations \in [PeerIds -> Reservations \cup {None}]
  BY Zenon, <1>1 DEF Rooms
<1> HIDE DEF s, new
<1>5. Pending(s) = Pending(q)
  <2>1. CASE p = q.host_peer_id
    BY Zenon, <1>2, <2>1 DEF Pending, Reserved
  <2>2. CASE p # q.host_peer_id
    BY Zenon, <1>2, <1>3, <1>4, <2>2 DEF Pending, Reserved
  <2> QED
    BY Zenon, <2>1, <2>2
<1>6. \A x \in Pending(q) : x \in PeerIds /\ x # p
  BY Zenon DEF Pending, Reserved
<1>7. \A x \in Pending(q) : s.peers[x] = q.peers[x]
  BY Zenon, <1>2, <1>4, <1>6
<1> QED
  BY Zenon, <1>2, <1>5, <1>7 DEF Admits, MarksKept, s

\* What an attempt to enter under p does: refused, it leaves every entry
\* alone; admitted, it takes the next conn_id and evicts whoever was there.
Attempt(r, res, p, adm) ==
  \/ /\ KeepsEntries(r, res.room)
     /\ res.eff.evict = {} /\ res.eff.assigned_conn_id = None
  \/ /\ Admits(r, res.room, p, adm)
     /\ res.eff.evict = Replaced(r, p) /\ res.eff.assigned_conn_id = r.next_conn_id

\* join_or_resume is such an attempt, and disturbs no pending leave.
LEMMA JoinEntries ==
  ASSUME NEW r, RoomOK(r), NEW p \in PeerIds, NEW token, NEW adm \in Admissions,
         NEW resume_only \in BOOLEAN, NEW t \in Nat
  PROVE  LET res == JoinOrResume(r, p, token, adm, resume_only, t)
         IN  MarksKept(r, res.room) /\ Attempt(r, res, p, adm)
<1> DEFINE q == PruneExpiredReservations(r, t)
           v == FromToken(token)
           s == Enter(q, p, v, adm, t)
           res == JoinOrResume(r, p, token, adm, resume_only, t)
           auth == Authorized(q, p, v, resume_only)
<1>1. r \in Rooms /\ RoomOK(q)
  BY Zenon, PruneOK DEF RoomOK
<1>2. KeepsEntries(r, q) /\ MarksKept(r, q) /\ Pending(q) = Pending(r)
  BY Zenon, <1>1, PruneMarks
<1>3. auth => v \in Verifiers /\ p \notin Pending(q)
  <2>1. q.host_peer_id \notin Reserved(q)
    BY Zenon, <1>1 DEF RoomOK, RosterOK
  <2>2. auth => p = q.host_peer_id \/ q.reservations[p] = None \/ ~q.reservations[p].release_pending
    BY Zenon DEF Authorized
  <2> HIDE DEF q
  <2> QED
    BY Zenon, <2>1, <2>2, TokenType DEF Authorized, Pending, Reserved
<1> HIDE DEF q, v
<1>4. auth => Admits(q, s, p, adm) /\ MarksKept(q, s)
  BY Zenon, <1>1, <1>3, EnterMarks
<1>5. \/ res.room = r /\ res.eff.evict = {} /\ res.eff.assigned_conn_id = None
      \/ res.room = q /\ res.eff.evict = {} /\ res.eff.assigned_conn_id = None
      \/ /\ auth /\ res.room = s
         /\ res.eff.assigned_conn_id = q.next_conn_id /\ res.eff.evict = Replaced(q, p)
  BY Zenon DEF JoinOrResume, Effects, Error, q, v
<1> HIDE DEF res, s, auth
<1>6. CASE res.room = r /\ res.eff.evict = {} /\ res.eff.assigned_conn_id = None
  BY Zenon, <1>6, SameMarks DEF KeepsEntries, Attempt, res
<1>7. CASE res.room = q /\ res.eff.evict = {} /\ res.eff.assigned_conn_id = None
  BY Zenon, <1>2, <1>7 DEF Attempt, res
<1>8. CASE /\ auth /\ res.room = s
           /\ res.eff.assigned_conn_id = q.next_conn_id /\ res.eff.evict = Replaced(q, p)
  <2>1. Admits(r, s, p, adm) /\ Replaced(q, p) = Replaced(r, p)
    BY Zenon, <1>2, <1>4, <1>8 DEF Admits, KeepsEntries, Replaced
  <2>2. MarksKept(r, s)
    BY Zenon, <1>2, <1>4, <1>8 DEF MarksKept, KeepsEntries
  <2> QED
    BY Zenon, <1>2, <1>8, <2>1, <2>2 DEF KeepsEntries, Attempt, res
<1> QED
  BY Zenon, <1>5, <1>6, <1>7, <1>8

\* begin_leave marks one reservation more.
LEMMA BeginLeaveMarks ==
  ASSUME NEW r \in Rooms, NEW p \in PeerIds, r.reservations[p] # None
  PROVE  LET s == BeginLeave(r, p)
         IN  KeepsEntries(r, s) /\ Pending(s) = Pending(r) \cup {p}
<1> DEFINE s == BeginLeave(r, p)
           res == [r.reservations[p] EXCEPT !.release_pending = TRUE]
<1>1. r.reservations \in [PeerIds -> Reservations \cup {None}] /\ r.reservations[p] \in Reservations
  BY Zenon DEF Rooms
<1>2. res \in Reservations /\ res # None /\ res.release_pending
  BY Zenon, <1>1, NoneIsNoValue DEF Reservations
<1>3. s = [r EXCEPT !.reservations[p] = res]
  BY Zenon DEF BeginLeave
<1> HIDE DEF res, s
<1>4. /\ s.peers = r.peers /\ s.next_conn_id = r.next_conn_id
      /\ s.reservations = [r.reservations EXCEPT ![p] = res]
  BY Zenon, <1>3 DEF Rooms
<1>5. Pending(s) = Pending(r) \cup {p}
  BY Zenon, <1>1, <1>2, <1>4 DEF Pending, Reserved
<1> QED
  BY Zenon, <1>4, <1>5 DEF KeepsEntries, s

\* Result f of a finish_leave: nothing, or the reservation it still owns is
\* unmarked, and the entry dropped with it or kept.
LeaveSettles(r, p, k, f) ==
  \/ ~StillOwns(r, p, k) /\ f.room = r
  \/ /\ StillOwns(r, p, k)
     /\ Pending(f.room) = Pending(r) \ {p}
     /\ KeepsEntries(r, f.room) \/ (Drops(r, f.room, p) /\ ~Failed(f.eff))

\* finish_leave unmarks the reservation it still owns: it drops the entry with
\* it, or rolls back and keeps the entry.
LEMMA FinishLeaveMarks ==
  ASSUME NEW r \in Rooms, NEW p \in PeerIds, NEW k, NEW persisted \in BOOLEAN, NEW t \in Nat
  PROVE  LeaveSettles(r, p, k, FinishLeave(r, p, k, persisted, t))
<1> DEFINE f == FinishLeave(r, p, k, persisted, t)
           s == [r EXCEPT !.peers[p] = None, !.reservations[p] = None,
                          !.last_activity_at = t]
           res == [r.reservations[p] EXCEPT !.release_pending = FALSE]
           b == [r EXCEPT !.reservations[p] = res]
<1>1. /\ r.reservations \in [PeerIds -> Reservations \cup {None}]
      /\ r.peers \in [PeerIds -> ConnectedPeers \cup {None}]
  BY Zenon DEF Rooms
<1>2. CASE ~StillOwns(r, p, k)
  BY Zenon, <1>2 DEF FinishLeave, LeaveSettles
<1>3. CASE StillOwns(r, p, k) /\ persisted
  <2>1. f.room = s /\ f.eff.reply = Reply("left")
    BY Zenon, <1>3 DEF FinishLeave, Effects
  <2>2. /\ s.peers = [r.peers EXCEPT ![p] = None] /\ s.next_conn_id = r.next_conn_id
        /\ s.reservations = [r.reservations EXCEPT ![p] = None]
    BY Zenon DEF Rooms
  <2> HIDE DEF s
  <2>3. Pending(s) = Pending(r) \ {p}
    BY Zenon, <1>1, <2>2 DEF Pending, Reserved
  <2>4. ~Failed(f.eff)
    BY <2>1 DEF Failed, Reply
  <2> QED
    BY Zenon, <1>3, <2>1, <2>2, <2>3, <2>4 DEF Drops, LeaveSettles
<1>4. CASE StillOwns(r, p, k) /\ ~persisted
  <2>1. f.room = b
    BY Zenon, <1>4 DEF FinishLeave
  <2>2. r.reservations[p] \in Reservations
    BY Zenon, <1>1, <1>4 DEF StillOwns
  <2>3. res \in Reservations /\ ~res.release_pending
    BY Zenon, <2>2 DEF Reservations
  <2> HIDE DEF res
  <2>4. /\ b.peers = r.peers /\ b.next_conn_id = r.next_conn_id
        /\ b.reservations = [r.reservations EXCEPT ![p] = res]
    BY Zenon DEF Rooms
  <2> HIDE DEF b
  <2>5. Pending(b) = Pending(r) \ {p}
    BY Zenon, <1>1, <2>3, <2>4, NoneIsNoValue DEF Pending, Reserved
  <2> QED
    BY Zenon, <1>4, <2>1, <2>4, <2>5 DEF KeepsEntries, LeaveSettles
<1> QED
  BY Zenon, <1>2, <1>3, <1>4

\* transfer_host gives a role to a guest whose leave is not pending.
LEMMA TransferMarks ==
  ASSUME NEW r, RoomOK(r), NEW p, NEW k, NEW version_ok \in BOOLEAN, NEW target \in PeerIds
  PROVE  LET s == TransferHost(r, p, k, version_ok, target).room
         IN  KeepsEntries(r, s) /\ MarksKept(r, s)
<1> DEFINE code == TransferError(r, p, k, version_ok, target)
           s == SwapHost(r, target)
           h == r.host_peer_id
           old == [verifier |-> r.host_verifier, absent_since |-> None,
                   release_pending |-> FALSE]
<1>1. r \in Rooms /\ h \in PeerIds /\ h \notin Reserved(r)
  BY Zenon DEF RoomOK, RosterOK, Rooms
<1>2. ASSUME code = None PROVE KeepsEntries(r, s) /\ MarksKept(r, s)
  <2>1. /\ target # h /\ target \in Reserved(r) /\ r.reservations[target] # None
        /\ target \notin Pending(r)
    BY Zenon, <1>1, <1>2, TransferAllowed DEF Transferable, Reserved, Pending
  <2>2. /\ s.peers = r.peers /\ s.next_conn_id = r.next_conn_id
        /\ s.reservations = [r.reservations EXCEPT ![target] = None, ![h] = old]
    BY Zenon, <1>1, <2>1, SwapHostFields
  <2>3. ~old.release_pending
    BY Zenon
  <2>4. r.reservations \in [PeerIds -> Reservations \cup {None}]
    BY Zenon, <1>1 DEF Rooms
  <2> HIDE DEF s, old
  <2>5. Pending(s) = Pending(r)
    BY Zenon, <1>1, <2>1, <2>2, <2>3, <2>4 DEF Pending, Reserved
  <2> QED
    BY Zenon, <2>2, <2>5 DEF KeepsEntries, MarksKept
<1>3. KeepsEntries(r, r) /\ MarksKept(r, r)
  BY Zenon DEF KeepsEntries, MarksKept
<1> HIDE DEF code, s
<1> QED
  BY Zenon, <1>2, <1>3 DEF TransferHost, code, s

\* broadcast and send_to only touch the activity time.
LEMMA TrafficMarks ==
  ASSUME NEW r \in Rooms, NEW p, NEW k, NEW target, NEW t
  PROVE  LET b == Broadcast(r, p, k, t).room
             s == SendTo(r, p, k, target, t).room
         IN  /\ KeepsEntries(r, b) /\ MarksKept(r, b)
             /\ KeepsEntries(r, s) /\ MarksKept(r, s)
<1> DEFINE x == [r EXCEPT !.last_activity_at = t]
<1>1. /\ x.peers = r.peers /\ x.reservations = r.reservations
      /\ x.next_conn_id = r.next_conn_id
  BY Zenon DEF Rooms
<1> HIDE DEF x
<1>2. KeepsEntries(r, x) /\ MarksKept(r, x)
  BY Zenon, <1>1, SameMarks DEF KeepsEntries
<1>3. KeepsEntries(r, r) /\ MarksKept(r, r)
  BY Zenon DEF KeepsEntries, MarksKept
<1> QED
  BY Zenon, <1>2, <1>3 DEF Broadcast, SendTo, x

\* Closing a room keeps its entries; a closed room has no leave to protect.
LEMMA ClosingMarks ==
  ASSUME NEW r \in Rooms
  PROVE  LET s == [r EXCEPT !.closing = TRUE] IN KeepsEntries(r, s) /\ MarksKept(r, s)
BY Zenon DEF KeepsEntries, MarksKept, Rooms

\* handle_disconnect drops the caller's own entry, if it is still current.
LEMMA DisconnectMarks ==
  ASSUME NEW r \in Rooms, NEW p \in PeerIds, NEW k, NEW t \in Nat
  PROVE  LET s == HandleDisconnect(r, p, k, t).room
         IN  \/ s = r
             \/ /\ ~r.closing /\ IsCurrent(r, p, k) /\ Drops(r, s, p)
                /\ p \notin Pending(r) => MarksKept(r, s)
<1> DEFINE s == Vacate(r, p, t)
           res == [r.reservations[p] EXCEPT !.absent_since = t]
<1>1. /\ s.peers = [r.peers EXCEPT ![p] = None] /\ s.next_conn_id = r.next_conn_id
      /\ p = r.host_peer_id \/ r.reservations[p] = None
           => s.reservations = r.reservations
      /\ p # r.host_peer_id /\ r.reservations[p] # None
           => s.reservations = [r.reservations EXCEPT ![p] = res]
  BY VacateFields
<1>2. r.reservations[p] # None =>
        res.release_pending = r.reservations[p].release_pending /\ res # None
  BY Zenon, NoneIsNoValue DEF Rooms, Reservations
<1>3. /\ r.reservations \in [PeerIds -> Reservations \cup {None}]
      /\ r.peers \in [PeerIds -> ConnectedPeers \cup {None}]
  BY Zenon DEF Rooms
<1> HIDE DEF s, res
<1>4. Pending(s) = Pending(r)
  BY Zenon, <1>1, <1>2, <1>3 DEF Pending, Reserved
<1>5. p \notin Pending(r) => \A x \in Pending(r) : s.peers[x] = r.peers[x]
  BY Zenon, <1>1, <1>3 DEF Pending, Reserved
<1>6. Drops(r, s, p) /\ (p \notin Pending(r) => MarksKept(r, s))
  BY Zenon, <1>1, <1>4, <1>5 DEF Drops, MarksKept
<1> QED
  BY Zenon, <1>6 DEF HandleDisconnect, s

\* finish_end_session drops every entry and evicts it; the room is closed.
LEMMA FinishEndMarks ==
  ASSUME NEW r \in Rooms, r.closing, NEW guests, NEW persisted \in BOOLEAN
  PROVE  LET res == FinishEndSession(r, guests, persisted)
         IN  /\ Clears(r, res.room) /\ MarksKept(r, res.room)
             /\ res.eff.evict = {r.peers[p] : p \in Connected(r)}
<1> DEFINE res == FinishEndSession(r, guests, persisted)
           none == [p \in PeerIds |-> None]
           s == [r EXCEPT !.peers = none, !.reservations = none]
<1>1. res.room = s /\ res.eff.evict = {r.peers[p] : p \in Connected(r)}
  BY Zenon DEF FinishEndSession, Effects, Error
<1>2. s.peers = none /\ s.next_conn_id = r.next_conn_id /\ s.closing = r.closing
  BY Zenon DEF Rooms
<1> HIDE DEF res, s
<1> QED
  BY Zenon, <1>1, <1>2 DEF Clears, MarksKept, res

\* The sweep drops and evicts every entry of a room it removes, and no entry
\* of one it keeps.
LEMMA SweepMarks ==
  ASSUME NEW r \in Rooms, NEW started, NEW t
  PROVE  LET res == SweepState(r, started, t)
         IN  /\ MarksKept(r, res.room)
             /\ res.remove => /\ Clears(r, res.room)
                              /\ res.evict = {r.peers[p] : p \in Connected(r)}
             /\ ~res.remove => KeepsEntries(r, res.room)
<1> DEFINE res == SweepState(r, started, t)
           q == PruneExpiredReservations(r, t)
           none == [p \in PeerIds |-> None]
           s == [q EXCEPT !.closing = TRUE, !.peers = none]
<1>1. q \in Rooms /\ KeepsEntries(r, q) /\ MarksKept(r, q)
  BY Zenon, PruneFields, PruneMarks
<1>2. /\ res.room = (IF res.remove THEN s ELSE q)
      /\ res.remove => res.evict = {q.peers[p] : p \in Connected(q)}
  BY Zenon DEF SweepState
<1> HIDE DEF q, res
<1>3. s.peers = none /\ s.next_conn_id = q.next_conn_id /\ s.closing
  BY Zenon, <1>1 DEF Rooms
<1>4. {q.peers[p] : p \in Connected(q)} = {r.peers[p] : p \in Connected(r)}
  BY Zenon, <1>1 DEF KeepsEntries, Connected
<1> HIDE DEF s
<1>5. Clears(r, s) /\ MarksKept(r, s)
  BY Zenon, <1>1, <1>3 DEF Clears, MarksKept, KeepsEntries
<1> QED
  BY Zenon, <1>1, <1>2, <1>4, <1>5 DEF res
-----------------------------------------------------------------------------
(* Every method of a room, on its view *)

\* A view shows the fields of the room it is a view of.
LEMMA ViewFields ==
  ASSUME NEW r \in Rooms
  PROVE  /\ View(r) = Shown(r.host_peer_id, [p \in PeerIds |-> Owner(r, p)], Connected(r))
         /\ View(r).host = r.host_peer_id
         /\ View(r).owner = [p \in PeerIds |-> Owner(r, p)]
         /\ View(r).present = Connected(r)
         /\ View(r).owner \in Owners
<1>1. \A p \in PeerIds : Owner(r, p) \in Verifiers \cup {None}
  BY Zenon DEF Owner, Rooms, Reservations
<1>2. [p \in PeerIds |-> Owner(r, p)] \in Owners
  BY Zenon, <1>1 DEF Owners
<1> QED BY Zenon, <1>2 DEF View, Shown

\* Two rooms that agree on host, owners and presence look the same.
LEMMA SameView ==
  ASSUME NEW r, NEW h, NEW o \in Owners, NEW c,
         r.host_peer_id = h, \A p \in PeerIds : Owner(r, p) = o[p], Connected(r) = c
  PROVE  View(r) = Shown(h, o, c)
<1>1. [p \in PeerIds |-> Owner(r, p)] = o
  BY Zenon DEF Owners
<1> QED BY Zenon, <1>1 DEF View, Shown

\* The identities that are taken are the host's and the reserved ones.
LEMMA OwnerFacts ==
  ASSUME NEW r \in Rooms
  PROVE  \A p \in PeerIds :
           /\ p = r.host_peer_id => Owner(r, p) = r.host_verifier /\ Owner(r, p) # None
           /\ p # r.host_peer_id /\ r.reservations[p] # None =>
                Owner(r, p) = r.reservations[p].verifier /\ Owner(r, p) # None
           /\ p # r.host_peer_id /\ r.reservations[p] = None => Owner(r, p) = None
<1>1. \A p \in PeerIds : r.reservations[p] # None => r.reservations[p].verifier \in Verifiers
  BY Zenon DEF Rooms, Reservations
<1>2. r.host_verifier \in Verifiers
  BY Zenon DEF Rooms
<1> QED BY Zenon, <1>1, <1>2, NoneIsNoValue DEF Owner

\* join_or_resume prunes what has expired and may then let the caller in.
LEMMA LapsedView ==
  ASSUME NEW r, RoomOK(r), NEW t
  PROVE  LET q == PruneExpiredReservations(r, t)
             o == Unlapsed(View(r), Expired(r, t))
         IN  /\ Expired(r, t) \in SUBSET MayLapse(View(r))
             /\ o \in Owners
             /\ \A p \in PeerIds : Owner(q, p) = o[p]
             /\ View(q) = Shown(View(r).host, o, View(r).present)
<1> DEFINE q == PruneExpiredReservations(r, t)
           o == Unlapsed(View(r), Expired(r, t))
<1>1. /\ r \in Rooms /\ r.host_peer_id \notin Reserved(r)
      /\ View(r).owner = [p \in PeerIds |-> Owner(r, p)] /\ View(r).owner \in Owners
      /\ View(r).host = r.host_peer_id /\ View(r).present = Connected(r)
  BY Zenon, ViewFields DEF RoomOK, RosterOK
<1>2. /\ q.host_peer_id = r.host_peer_id /\ q.host_verifier = r.host_verifier
      /\ q.reservations = [p \in PeerIds |->
                             IF p \in Expired(r, t) THEN None ELSE r.reservations[p]]
      /\ Connected(q) = Connected(r)
  BY <1>1, PruneFields
<1> HIDE DEF q
<1>3. Expired(r, t) \subseteq Reserved(r) \ Connected(r)
  BY Zenon DEF Expired
<1>4. Expired(r, t) \in SUBSET MayLapse(View(r))
  <2>1. \A p \in Reserved(r) : p \in PeerIds /\ View(r).owner[p] # None
    BY <1>1, OwnerFacts DEF Reserved
  <2> QED BY Zenon, <1>1, <1>3, <2>1 DEF MayLapse
<1>5. o \in Owners
  BY Zenon, <1>1 DEF Owners, Unlapsed
<1>6. \A p \in PeerIds : Owner(q, p) = o[p]
  BY <1>1, <1>2, <1>3 DEF Owner, Reserved, Unlapsed
<1> HIDE DEF o
<1>7. View(q) = Shown(View(r).host, o, View(r).present)
  BY <1>1, <1>2, <1>5, <1>6, SameView
<1> QED BY Zenon, <1>4, <1>5, <1>6, <1>7 DEF o, q

\* What an admission does to the view.
LEMMA EnterView ==
  ASSUME NEW q, RoomOK(q), NEW p \in PeerIds, NEW k \in Verifiers,
         NEW adm \in Admissions, NEW t \in Nat,
         p = q.host_peer_id => k = q.host_verifier
  PROVE  LET s == Enter(q, p, k, adm, t)
             o == [x \in PeerIds |-> Owner(q, x)]
         IN  View(s) = Shown(q.host_peer_id, [o EXCEPT ![p] = k], Connected(q) \cup {p})
<1> DEFINE s == Enter(q, p, k, adm, t)
           o == [x \in PeerIds |-> Owner(q, x)]
           new == [verifier |-> k, absent_since |-> None, release_pending |-> FALSE]
           occ == Occupant(adm, q.next_conn_id)
<1>1. q \in Rooms /\ o \in Owners
  BY Zenon, ViewFields DEF RoomOK
<1>2. /\ s.peers = [q.peers EXCEPT ![p] = occ] /\ occ # None /\ new # None
      /\ p = q.host_peer_id => s.reservations = q.reservations
      /\ p # q.host_peer_id => s.reservations = [q.reservations EXCEPT ![p] = new]
      /\ s.host_peer_id = q.host_peer_id /\ s.host_verifier = q.host_verifier
  BY <1>1, EnterFields
<1>3. /\ q.peers \in [PeerIds -> ConnectedPeers \cup {None}]
      /\ q.reservations \in [PeerIds -> Reservations \cup {None}]
  BY Zenon, <1>1 DEF Rooms
<1>4. new.verifier = k
  BY Zenon
<1> HIDE DEF s, new, occ
<1>5. Connected(s) = Connected(q) \cup {p}
  BY Zenon, <1>2, <1>3 DEF Connected
<1>6. \A x \in PeerIds : Owner(s, x) = [o EXCEPT ![p] = k][x]
  <2>1. CASE p = q.host_peer_id
    BY Zenon, <1>2, <2>1 DEF Owner
  <2>2. CASE p # q.host_peer_id
    BY Zenon, <1>2, <1>3, <1>4, <2>2 DEF Owner
  <2> QED BY Zenon, <2>1, <2>2
<1>7. [o EXCEPT ![p] = k] \in Owners
  BY Zenon, <1>1 DEF Owners
<1> DEFINE o2 == [o EXCEPT ![p] = k]
<1>8. o2 \in Owners /\ \A x \in PeerIds : Owner(s, x) = o2[x]
  BY Zenon, <1>6, <1>7
<1> HIDE DEF o2
<1>9. View(s) = Shown(q.host_peer_id, o2, Connected(q) \cup {p})
  BY <1>2, <1>5, <1>8, SameView
<1> QED BY Zenon, <1>9 DEF s, o2

\* join_or_resume lets what has expired lapse, and the caller in or not.
LEMMA JoinView ==
  ASSUME NEW r, RoomOK(r), NEW p \in PeerIds, NEW token,
         NEW adm \in Admissions, NEW resume_only \in BOOLEAN, NEW t \in Nat
  PROVE  Permitted(View(r), View(JoinOrResume(r, p, token, adm, resume_only, t).room),
                   Expired(r, t), {})
<1> DEFINE q == PruneExpiredReservations(r, t)
           k == FromToken(token)
           s == Enter(q, p, k, adm, t)
           v == View(r)
           o == Unlapsed(v, Expired(r, t))
           w == JoinOrResume(r, p, token, adm, resume_only, t).room
           enters == Authorized(q, p, k, resume_only) /\ ~RoomFull(q, p)
<1>1. RoomOK(q) /\ q \in Rooms
  BY Zenon, PruneOK DEF RoomOK
<1>2. /\ Expired(r, t) \in SUBSET MayLapse(v) /\ o \in Owners
      /\ \A x \in PeerIds : Owner(q, x) = o[x]
      /\ View(q) = Shown(v.host, o, v.present)
  BY Zenon, LapsedView
<1>3. v.host = r.host_peer_id /\ v.present = Connected(r)
  BY Zenon, ViewFields DEF RoomOK
<1>4. q.host_peer_id = r.host_peer_id /\ Connected(q) = Connected(r)
  BY Zenon, PruneFields DEF RoomOK
<1>5. IF r.closing THEN w = r ELSE w = IF enters THEN s ELSE q
  <2> HIDE DEF q, s
  <2> QED BY Zenon DEF JoinOrResume, q, s
<1>6. enters => k \in Verifiers
  BY Zenon, TokenType DEF Authorized
<1> HIDE DEF q, k, v, w
<1>0. CASE r.closing
  BY Zenon, <1>0, <1>5 DEF Permitted, v, w
<1>7. CASE ~r.closing /\ ~enters
  <2>1. View(w) = Shown(v.host, o, v.present)
    BY Zenon, <1>2, <1>5, <1>7
  <2>2. LapseOrEnter(v, View(w), Expired(r, t))
    BY Zenon, <2>1 DEF LapseOrEnter
  <2> QED BY Zenon, <1>2, <2>2 DEF Permitted, v, w
<1>8. CASE ~r.closing /\ enters
  <2>0. k \in Verifiers /\ (p = q.host_peer_id => k = q.host_verifier)
    BY Zenon, <1>6, <1>8 DEF Authorized
  <2>1. [x \in PeerIds |-> Owner(q, x)] = o
    BY Zenon, <1>2 DEF Owners
  <2> HIDE DEF o
  <2>2. View(w) = Shown(v.host, [o EXCEPT ![p] = k], v.present \cup {p})
    <3>1. View(s) = Shown(q.host_peer_id, [[x \in PeerIds |-> Owner(q, x)] EXCEPT ![p] = k],
                          Connected(q) \cup {p})
      BY Zenon, <1>1, <2>0, EnterView
    <3> HIDE DEF s, enters
    <3> QED BY Zenon, <1>3, <1>4, <1>5, <1>8, <2>1, <3>1
  <2>3. o[p] # k =>
          /\ o[p] = None
          /\ ~(Cardinality({x \in PeerIds : o[x] # None} \ {v.host}) >= MAX_ROOM_SIZE - 1)
    <3> SUFFICES ASSUME o[p] # k
                 PROVE  /\ o[p] = None
                        /\ ~(Cardinality({x \in PeerIds : o[x] # None} \ {v.host})
                               >= MAX_ROOM_SIZE - 1)
      BY Zenon
    <3>1. p # q.host_peer_id /\ q.reservations[p] = None /\ q.peers[p] = None
      BY <1>1, <1>2, <1>8, OwnerFacts DEF Authorized
    <3>2. o[p] = None
      BY Zenon, <1>1, <1>2, <3>1, OwnerFacts
    <3>3. ~(Cardinality(Reserved(q)) >= MAX_ROOM_SIZE - 1)
      BY Zenon, <1>8, <3>1 DEF RoomFull
    <3>4. q.host_peer_id \notin Reserved(q) /\ q.host_peer_id = v.host
      BY Zenon, <1>1, <1>3, <1>4 DEF RoomOK, RosterOK
    <3>5. {x \in PeerIds : o[x] # None} \ {v.host} = Reserved(q)
      BY <1>1, <1>2, <3>4, OwnerFacts DEF Reserved
    <3> QED BY Zenon, <3>2, <3>3, <3>5
  <2>4. LapseOrEnter(v, View(w), Expired(r, t))
    BY Zenon, <2>0, <2>2, <2>3 DEF LapseOrEnter, o
  <2> QED BY Zenon, <1>2, <2>4 DEF Permitted, v, w
<1> QED BY Zenon, <1>0, <1>7, <1>8 DEF v, w

\* reconnect_host brings the host back, on its own identity.
LEMMA ReconnectView ==
  ASSUME NEW r, RoomOK(r), NEW adm \in Admissions, NEW gone
  PROVE  Permitted(View(r), View(ReconnectHost(r, adm).room), gone, {})
<1> DEFINE h == r.host_peer_id
           s == Admit(r, h, adm)
           v == View(r)
           o == Unlapsed(v, {})
<1>1. r \in Rooms /\ h \in PeerIds /\ r.host_verifier \in Verifiers
  BY Zenon DEF RoomOK, Rooms
<1>2. /\ s.peers = [r.peers EXCEPT ![h] = Occupant(adm, r.next_conn_id)]
      /\ s.reservations = r.reservations
      /\ s.host_peer_id = h /\ s.host_verifier = r.host_verifier
      /\ Occupant(adm, r.next_conn_id) # None
  BY Zenon, <1>1, AdmitFields
<1>3. /\ v.host = h /\ v.present = Connected(r) /\ v.owner = [p \in PeerIds |-> Owner(r, p)]
      /\ v.owner \in Owners
  BY Zenon, <1>1, ViewFields
<1> HIDE DEF s, v
<1>4. o = v.owner /\ o \in Owners
  BY Zenon, <1>3 DEF Unlapsed, Owners
<1>5. o[h] = r.host_verifier /\ [o EXCEPT ![h] = r.host_verifier] = o
  BY <1>1, <1>3, <1>4, OwnerFacts DEF Owners
<1>6. Connected(s) = v.present \cup {h}
  BY Zenon, <1>1, <1>2, <1>3 DEF Connected, Rooms
<1>7. \A p \in PeerIds : Owner(s, p) = o[p]
  BY <1>2, <1>3, <1>4 DEF Owner
<1> HIDE DEF o
<1>8. View(s) = Shown(v.host, [o EXCEPT ![h] = r.host_verifier], v.present \cup {h})
  <2>0. s.host_peer_id = h /\ o \in Owners
    BY Zenon, <1>2, <1>4
  <2>1. View(s) = Shown(h, o, v.present \cup {h})
    BY Zenon, <2>0, <1>6, <1>7, SameView
  <2> QED BY Zenon, <1>3, <1>5, <2>1
<1>9. LapseOrEnter(v, View(s), {})
  BY Zenon, <1>1, <1>5, <1>8 DEF LapseOrEnter, o
<1>10. Permitted(v, View(s), gone, {})
  BY Zenon, <1>9 DEF Permitted
<1> QED BY Zenon, <1>10 DEF ReconnectHost, v, s

\* begin_leave only marks the reservation.
LEMMA BeginLeaveView ==
  ASSUME NEW r \in Rooms, NEW p \in PeerIds, r.reservations[p] # None
  PROVE  View(BeginLeave(r, p)) = View(r)
<1> DEFINE s == BeginLeave(r, p)
<1>1. r.reservations[p] \in Reservations /\ r.reservations \in [PeerIds -> Reservations \cup {None}]
  BY Zenon DEF Rooms
<1>2. /\ s.host_peer_id = r.host_peer_id /\ s.host_verifier = r.host_verifier
      /\ s.peers = r.peers
      /\ s.reservations = [r.reservations EXCEPT ![p] = [@ EXCEPT !.release_pending = TRUE]]
  BY Zenon DEF BeginLeave, Rooms
<1> DEFINE res == [r.reservations[p] EXCEPT !.release_pending = TRUE]
<1>3. res \in Reservations /\ res.verifier = r.reservations[p].verifier
  BY Zenon, <1>1 DEF Reservations
<1>4. res # None
  BY Zenon, <1>3, NoneIsNoValue
<1> HIDE DEF s, res
<1>5. Connected(s) = Connected(r)
  BY Zenon, <1>2 DEF Connected
<1>6. \A x \in PeerIds : Owner(s, x) = Owner(r, x)
  BY Zenon, <1>1, <1>2, <1>3, <1>4 DEF Owner, res
<1> QED BY Zenon, <1>2, <1>5, <1>6 DEF View, s

\* finish_leave frees the identity of a guest that is present, or nothing.
LEMMA FinishLeaveView ==
  ASSUME NEW r, RoomOK(r), NEW p \in PeerIds, NEW k, NEW persisted \in BOOLEAN, NEW t \in Nat,
         NEW gone
  PROVE  Permitted(View(r), View(FinishLeave(r, p, k, persisted, t).room), gone, {p})
<1> DEFINE v == View(r)
<1>1. /\ r \in Rooms /\ r.host_peer_id \notin Reserved(r)
      /\ v.host = r.host_peer_id /\ v.present = Connected(r)
      /\ v.owner = [x \in PeerIds |-> Owner(r, x)] /\ v.owner \in Owners
  BY Zenon, ViewFields DEF RoomOK, RosterOK
<1>2. CASE ~StillOwns(r, p, k)
  BY Zenon, <1>2 DEF FinishLeave, Permitted
<1>3. CASE StillOwns(r, p, k) /\ ~persisted
  <2> DEFINE s == [r EXCEPT !.reservations[p].release_pending = FALSE]
             res == [r.reservations[p] EXCEPT !.release_pending = FALSE]
  <2>1. r.reservations[p] \in Reservations /\ r.reservations \in [PeerIds -> Reservations \cup {None}]
    BY Zenon, <1>1, <1>3 DEF Rooms, StillOwns
  <2>2. /\ s.host_peer_id = r.host_peer_id /\ s.host_verifier = r.host_verifier
        /\ s.peers = r.peers /\ s.reservations = [r.reservations EXCEPT ![p] = res]
    BY Zenon, <1>1 DEF Rooms
  <2>3. res \in Reservations /\ res.verifier = r.reservations[p].verifier /\ res # None
    BY Zenon, <2>1, NoneIsNoValue DEF Reservations
  <2> HIDE DEF s, res
  <2>4. Connected(s) = Connected(r)
    BY Zenon, <2>2 DEF Connected
  <2>5. \A x \in PeerIds : Owner(s, x) = Owner(r, x)
    BY Zenon, <1>3, <2>1, <2>2, <2>3 DEF Owner, StillOwns
  <2>6. View(s) = View(r)
    BY Zenon, <2>2, <2>4, <2>5 DEF View
  <2> QED BY Zenon, <1>3, <2>6 DEF FinishLeave, Permitted, s
<1>4. CASE StillOwns(r, p, k) /\ persisted
  <2> DEFINE s == [r EXCEPT !.peers[p] = None, !.reservations[p] = None, !.last_activity_at = t]
             o == [v.owner EXCEPT ![p] = None]
  <2>1. p \in Connected(r) /\ p \in Reserved(r) /\ p # r.host_peer_id
    BY Zenon, <1>1, <1>4 DEF StillOwns, IsCurrent, Connected, Reserved
  <2>2. /\ s.host_peer_id = r.host_peer_id /\ s.host_verifier = r.host_verifier
        /\ s.peers = [r.peers EXCEPT ![p] = None]
        /\ s.reservations = [r.reservations EXCEPT ![p] = None]
        /\ r.peers \in [PeerIds -> ConnectedPeers \cup {None}]
        /\ r.reservations \in [PeerIds -> Reservations \cup {None}]
    BY Zenon, <1>1 DEF Rooms
  <2> HIDE DEF s, v
  <2>3. Connected(s) = v.present \ {p}
    BY Zenon, <1>1, <2>2 DEF Connected
  <2>4. o \in Owners /\ \A x \in PeerIds : Owner(s, x) = o[x]
    <3>1. o \in Owners /\ \A x \in PeerIds : o[x] = IF x = p THEN None ELSE Owner(r, x)
      BY Zenon, <1>1 DEF Owners
    <3>2. \A x \in PeerIds : Owner(s, x) = IF x = p THEN None ELSE Owner(r, x)
      BY Zenon, <2>1, <2>2 DEF Owner
    <3> QED BY Zenon, <3>1, <3>2
  <2> HIDE DEF o
  <2>5. View(s) = Shown(v.host, o, v.present \ {p})
    <3>1. s.host_peer_id = v.host
      BY Zenon, <1>1, <2>2
    <3> QED BY ZenonT(60), <2>3, <2>4, <3>1, SameView
  <2>6. p \in {p} /\ p \in v.present /\ p # v.host
    BY Zenon, <1>1, <2>1
  <2>7. Permitted(v, View(s), gone, {p})
    BY Zenon, <2>5, <2>6 DEF Permitted, o
  <2> QED BY Zenon, <1>4, <2>7 DEF FinishLeave, s, v
<1> QED BY Zenon, <1>2, <1>3, <1>4

\* transfer_host moves the role and nothing else, or does nothing.
LEMMA TransferView ==
  ASSUME NEW r, RoomOK(r), NEW p \in PeerIds, NEW k, NEW version_ok \in BOOLEAN,
         NEW target \in PeerIds, NEW gone
  PROVE  Permitted(View(r), View(TransferHost(r, p, k, version_ok, target).room), gone, {})
<1> DEFINE v == View(r)
           s == SwapHost(r, target)
           old == [verifier |-> r.host_verifier, absent_since |-> None, release_pending |-> FALSE]
           code == TransferError(r, p, k, version_ok, target)
<1>1. /\ r \in Rooms /\ v.host = r.host_peer_id /\ v.present = Connected(r)
      /\ v.owner = [x \in PeerIds |-> Owner(r, x)] /\ v.owner \in Owners
      /\ r.host_peer_id \in PeerIds /\ r.host_verifier \in Verifiers
  BY Zenon, ViewFields DEF RoomOK, Rooms
<1>2. CASE code # None
  BY ZenonT(30), <1>2 DEF TransferHost, Permitted
<1>3. CASE code = None
  <2>1. /\ p = r.host_peer_id /\ target # p /\ target \in Connected(r)
        /\ r.reservations[target] # None
    BY ZenonT(40), <1>1, <1>3, TransferAllowed DEF Transferable, Reserved
  <2>2. p \in Connected(r)
    <3>1. None # "peer_id_unavailable"
      BY Zenon, NoneIsNoValue DEF ErrorCodes
    <3>2. IsCurrent(r, p, k)
      BY Zenon, <1>3, <3>1 DEF TransferError
    <3> QED BY Zenon, <3>2 DEF IsCurrent, Connected
  <2>3. /\ s.reservations = [r.reservations EXCEPT ![target] = None, ![r.host_peer_id] = old]
        /\ s.host_peer_id = target /\ s.host_verifier = r.reservations[target].verifier
        /\ Connected(s) = Connected(r)
    BY Zenon, <1>1, <2>1, SwapHostFields
  <2>4. old # None /\ old.verifier = r.host_verifier
    <3>1. old \in Reservations
      BY Zenon, <1>1, ReservationType
    <3>2. old.verifier = r.host_verifier
      BY Zenon
    <3> HIDE DEF old
    <3> QED BY Zenon, <3>1, <3>2, NoneIsNoValue
  <2>5. r.reservations \in [PeerIds -> Reservations \cup {None}]
    BY Zenon, <1>1 DEF Rooms
  <2> HIDE DEF s, old, v
  <2>6. \A x \in PeerIds : Owner(s, x) = Owner(r, x)
    BY Zenon, <1>1, <2>1, <2>3, <2>4, <2>5 DEF Owner
  <2>7. \A x \in PeerIds : Owner(s, x) = v.owner[x]
    BY Zenon, <1>1, <2>6
  <2>8. View(s) = Shown(target, v.owner, v.present)
    BY <1>1, <2>3, <2>7, SameView
  <2>9. v.owner[target] # None
    BY <1>1, <2>1, OwnerFacts
  <2>10. Permitted(v, View(s), gone, {})
    BY Zenon, <1>1, <2>1, <2>2, <2>8, <2>9 DEF Permitted
  <2> QED BY Zenon, <1>3, <2>10 DEF TransferHost, s, v
<1> QED BY Zenon, <1>2, <1>3

\* broadcast and send_to change nothing that shows.
LEMMA TrafficView ==
  ASSUME NEW r \in Rooms, NEW p, NEW k, NEW target, NEW t
  PROVE  /\ View(Broadcast(r, p, k, t).room) = View(r)
         /\ View(SendTo(r, p, k, target, t).room) = View(r)
<1> DEFINE s == [r EXCEPT !.last_activity_at = t]
<1>1. /\ s.host_peer_id = r.host_peer_id /\ s.host_verifier = r.host_verifier
      /\ s.peers = r.peers /\ s.reservations = r.reservations
  BY Zenon DEF Rooms
<1> HIDE DEF s
<1>2. View(s) = View(r)
  BY Zenon, <1>1 DEF View, Owner, Connected
<1> QED BY Zenon, <1>2 DEF Broadcast, SendTo, s

\* handle_disconnect takes the caller off the roster and keeps its identity.
LEMMA DisconnectView ==
  ASSUME NEW r, RoomOK(r), NEW p \in PeerIds, NEW k, NEW t \in Nat, NEW gone
  PROVE  Permitted(View(r), View(HandleDisconnect(r, p, k, t).room), gone, {})
<1> DEFINE v == View(r)
           s == Vacate(r, p, t)
           res == [r.reservations[p] EXCEPT !.absent_since = t]
<1>1. /\ r \in Rooms /\ v.host = r.host_peer_id /\ v.present = Connected(r)
      /\ v.owner = [x \in PeerIds |-> Owner(r, x)] /\ v.owner \in Owners
  BY Zenon, ViewFields DEF RoomOK
<1>2. CASE r.closing \/ ~IsCurrent(r, p, k)
  BY ZenonT(30), <1>2 DEF HandleDisconnect, Permitted
<1>3. CASE ~(r.closing \/ ~IsCurrent(r, p, k))
  <2>1. p \in Connected(r)
    BY Zenon, <1>3 DEF IsCurrent, Connected
  <2>2. /\ p = r.host_peer_id \/ r.reservations[p] = None => s.reservations = r.reservations
        /\ p # r.host_peer_id /\ r.reservations[p] # None
             => s.reservations = [r.reservations EXCEPT ![p] = res]
        /\ s.host_peer_id = r.host_peer_id /\ s.host_verifier = r.host_verifier
        /\ Connected(s) = Connected(r) \ {p}
    <3>1. s.host_peer_id = r.host_peer_id /\ s.host_verifier = r.host_verifier
      BY ZenonT(40), <1>1, VacateFields
    <3>2. Connected(s) = Connected(r) \ {p}
      <4>1. s.peers = [r.peers EXCEPT ![p] = None]
        BY ZenonT(60), <1>1, VacateFields
      <4> HIDE DEF s
      <4> QED BY Zenon, <1>1, <4>1 DEF Connected, Rooms
    <3>3. p = r.host_peer_id \/ r.reservations[p] = None => s.reservations = r.reservations
      BY Zenon, <1>1 DEF Vacate, Rooms
    <3>4. p # r.host_peer_id /\ r.reservations[p] # None
            => s.reservations = [r.reservations EXCEPT ![p] = res]
      BY ZenonT(60), <1>1, VacateFields
    <3> QED BY Zenon, <3>1, <3>2, <3>3, <3>4
  <2>3. r.reservations \in [PeerIds -> Reservations \cup {None}]
    BY Zenon, <1>1 DEF Rooms
  <2>4. r.reservations[p] # None => res # None /\ res.verifier = r.reservations[p].verifier
    BY Zenon, <2>3, NoneIsNoValue DEF Reservations
  <2> HIDE DEF s, res, v
  <2>5. \A x \in PeerIds : Owner(s, x) = Owner(r, x)
    BY Zenon, <2>2, <2>3, <2>4 DEF Owner
  <2>6. \A x \in PeerIds : Owner(s, x) = v.owner[x]
    BY Zenon, <1>1, <2>5
  <2>7. View(s) = Shown(v.host, v.owner, v.present \ {p})
    <3>1. s.host_peer_id = v.host /\ Connected(s) = v.present \ {p}
      BY Zenon, <1>1, <2>2
    <3> DEFINE o == v.owner
    <3>2. o \in Owners /\ \A x \in PeerIds : Owner(s, x) = o[x]
      BY Zenon, <1>1, <2>6
    <3> HIDE DEF o
    <3>3. View(s) = Shown(v.host, o, v.present \ {p})
      BY ZenonT(60), <3>1, <3>2, SameView
    <3> QED BY Zenon, <3>3 DEF o
  <2>8. Permitted(v, View(s), gone, {})
    BY Zenon, <1>1, <2>1, <2>7 DEF Permitted
  <2> QED BY Zenon, <1>3, <2>8 DEF HandleDisconnect, s, v
<1> QED BY Zenon, <1>2, <1>3

\* The sweep lets absent guests lapse, or closes the room.
LEMMA SweepView ==
  ASSUME NEW r, RoomOK(r), NEW started, NEW t
  PROVE  LET s == SweepState(r, started, t).room
         IN  s.closing \/ Permitted(View(r), View(s), Expired(r, t), {})
<1> DEFINE q == PruneExpiredReservations(r, t)
           res == SweepState(r, started, t)
           v == View(r)
<1>1. res.remove => res.room.closing
  BY Zenon, SweepStateSame DEF RoomOK
<1>2. ~res.remove => res.room = q
  BY Zenon DEF SweepState
<1>3. /\ Expired(r, t) \in SUBSET MayLapse(v)
      /\ View(q) = Shown(v.host, Unlapsed(v, Expired(r, t)), v.present)
  BY Zenon, LapsedView
<1> HIDE DEF q, v, res
<1>4. LapseOrEnter(v, View(q), Expired(r, t))
  BY Zenon, <1>3 DEF LapseOrEnter
<1>5. Permitted(v, View(q), Expired(r, t), {})
  BY Zenon, <1>3, <1>4 DEF Permitted
<1> QED BY Zenon, <1>1, <1>2, <1>5 DEF v, res

\* What a new room shows.
LEMMA NewRoomView ==
  ASSUME NEW x \in Sessions, NEW h \in PeerIds, NEW k \in Verifiers, NEW ip \in Ips,
         NEW adm \in Admissions, NEW t \in Nat
  PROVE  LET r == NewRoom(x, h, k, ip, adm, t).room
             o == [p \in PeerIds |-> IF p = h THEN k ELSE None]
         IN  ~r.closing /\ View(r) = Shown(h, o, {h})
<1> DEFINE r == NewRoom(x, h, k, ip, adm, t).room
           o == [p \in PeerIds |-> IF p = h THEN k ELSE None]
<1>1. /\ r.host_peer_id = h /\ r.host_verifier = k /\ ~r.closing
      /\ r.peers = [p \in PeerIds |-> IF p = h THEN Occupant(adm, 1) ELSE None]
      /\ r.reservations = [p \in PeerIds |-> None]
  BY Zenon DEF NewRoom
<1>2. Occupant(adm, 1) # None
  <2>1. 1 \in Nat
    BY Zenon
  <2>2. Occupant(adm, 1) \in ConnectedPeers
    BY Zenon, <2>1, OccupantType
  <2> QED BY Zenon, <2>2, NoneIsNoValue
<1>3. o \in Owners
  BY Zenon DEF Owners
<1> HIDE DEF r
<1>4. Connected(r) = {h}
  BY Zenon, <1>1, <1>2 DEF Connected
<1>5. \A p \in PeerIds : Owner(r, p) = o[p]
  BY Zenon, <1>1 DEF Owner
<1>6. View(r) = Shown(h, o, {h})
  <2>1. [p \in PeerIds |-> Owner(r, p)] = o
    BY Zenon, <1>5
  <2> QED BY Zenon, <1>1, <1>4, <2>1 DEF View, Shown
<1> QED BY Zenon, <1>1, <1>6 DEF r, o

\* What Identities permits keeps every owner but of what lapsed or was given up.
LEMMA PermittedKeeps ==
  ASSUME NEW r \in Rooms, NEW s \in Rooms, NEW gone, NEW left,
         Permitted(View(r), View(s), gone, left)
  PROVE  OwnersContinue(r, s, gone, left)
<1> DEFINE v == View(r)
           w == View(s)
<1>1. /\ v.owner = [x \in PeerIds |-> Owner(r, x)] /\ v.owner \in Owners
      /\ w.owner = [x \in PeerIds |-> Owner(s, x)]
  BY Zenon, ViewFields
<1> HIDE DEF v, w
<1>2. \A h, o, c : Shown(h, o, c).owner = o
  BY Zenon DEF Shown
<1>3. \A x \in PeerIds : \/ v.owner[x] = None
                         \/ w.owner[x] = v.owner[x]
                         \/ x \in gone
                         \/ x \in left /\ w.owner[x] = None
  <2>1. CASE w = v
    BY Zenon, <2>1
  <2>2. ASSUME NEW p \in PeerIds, p \in left, NEW c,
               w = Shown(v.host, [v.owner EXCEPT ![p] = None], c)
        PROVE  <1>3!:
    BY <1>1, <1>2, <2>2 DEF Owners
  <2>3. ASSUME NEW h, NEW c, w = Shown(h, v.owner, c)
        PROVE  <1>3!:
    BY <1>2, <2>3
  <2>4. ASSUME NEW lapsed, lapsed \subseteq gone, LapseOrEnter(v, w, lapsed)
        PROVE  <1>3!:
    <3> DEFINE o == Unlapsed(v, lapsed)
    <3>1. o \in Owners /\ \A x \in PeerIds : o[x] = v.owner[x] \/ x \in gone
      BY Zenon, <1>1, <2>4 DEF Unlapsed, Owners
    <3> HIDE DEF o
    <3>2. CASE w = Shown(v.host, o, v.present)
      BY <1>2, <3>1, <3>2
    <3>3. ASSUME NEW p \in PeerIds, NEW k \in Verifiers, o[p] # k => o[p] = None,
                 w = Shown(v.host, [o EXCEPT ![p] = k], v.present \cup {p})
          PROVE  <1>3!:
      <4>1. w.owner = [o EXCEPT ![p] = k]
        BY <1>2, <3>3
      <4> QED BY Zenon, <3>1, <3>3, <4>1 DEF Owners
    <3> QED BY Zenon, <2>4, <3>2, <3>3 DEF LapseOrEnter, o
  <2> QED BY Zenon, <2>1, <2>2, <2>3, <2>4 DEF Permitted, v, w
<1> QED BY <1>1, <1>3 DEF OwnersContinue
=============================================================================
