--------------------------- MODULE RoomInvariants ---------------------------
(***************************************************************************)
(* What the methods of RoomState keep of a room, between any two of them.  *)
(***************************************************************************)
EXTENDS RoomState

\* The host has no reservation, and whoever is connected is the host or a guest.
RosterOK(r) ==
  /\ r.host_peer_id \notin Reserved(r)
  /\ Connected(r) \subseteq Reserved(r) \cup {r.host_peer_id}

\* The guests fit.
Fits(r) ==
  IsFiniteSet(Reserved(r)) /\ Cardinality(Reserved(r)) <= MAX_ROOM_SIZE - 1

\* An entry's conn_id was given out before; in an open room the grace clock
\* of a guest runs exactly while the guest has no entry, except that restore
\* leaves it stopped for the guests that were connected when the file was
\* written.
EntriesOK(r) ==
  /\ \A p \in Connected(r) : r.peers[p].conn_id < r.next_conn_id
  /\ ~r.closing => \A p \in Reserved(r) :
       /\ p \in Connected(r) => r.reservations[p].absent_since = None
       /\ r.owner_ip_key # NoIp /\ r.reservations[p].absent_since = None
            => p \in Connected(r)

RoomOK(r) == r \in Rooms /\ RosterOK(r) /\ EntriesOK(r)

\* How the guests of a room may change: some leave; one comes in where the
\* capacity check finds room, after some may have left; or one is swapped for
\* the host.
Turnover(R, S) ==
  \/ S \subseteq R
  \/ \E Q \in SUBSET R, p \in PeerIds :
       S = Q \cup {p} /\ ~(Cardinality(Q) >= MAX_ROOM_SIZE - 1)
  \/ \E p \in R, h \in PeerIds : S = (R \ {p}) \cup {h}

\* The same room, not reopened.
SameRoom(r, s) ==
  /\ s.session_id = r.session_id
  /\ s.owner_ip_key = r.owner_ip_key
  /\ r.closing => s.closing
  /\ Turnover(Reserved(r), Reserved(s))

\* The guests whose leave is pending.
Pending(r) == {p \in Reserved(r) : r.reservations[p].release_pending}
-----------------------------------------------------------------------------
(* The room as its clients may know it *)

Owners == [PeerIds -> Verifiers \cup {None}]

Shown(h, o, c) == [host |-> h, owner |-> o, present |-> c]

\* The guests whose identity may lapse.
MayLapse(v) == {p \in PeerIds : v.owner[p] # None} \ (v.present \cup {v.host})

\* Who owns what once those that lapsed do not.
Unlapsed(v, lapsed) == [p \in PeerIds |-> IF p \in lapsed THEN None ELSE v.owner[p]]

\* Identities lapse and somebody may enter.
LapseOrEnter(v, w, lapsed) ==
  LET o == Unlapsed(v, lapsed)
  IN  \/ w = Shown(v.host, o, v.present)
      \/ \E p \in PeerIds, k \in Verifiers :
           /\ o[p] # k =>
                /\ o[p] = None
                /\ ~(Cardinality({q \in PeerIds : o[q] # None} \ {v.host}) >= MAX_ROOM_SIZE - 1)
           /\ w = Shown(v.host, [o EXCEPT ![p] = k], v.present \cup {p})

\* What Identities lets a live room become, short of closing it, when only
\* identities in gone may lapse and only those in left be given up.
Permitted(v, w, gone, left) ==
  \/ w = v
  \/ \E p \in PeerIds :
       /\ p \in left /\ p \in v.present /\ p # v.host
       /\ w = Shown(v.host, [v.owner EXCEPT ![p] = None], v.present \ {p})
  \/ \E p \in PeerIds : p \in v.present /\ w = Shown(v.host, v.owner, v.present \ {p})
  \/ /\ v.host \in v.present
     /\ \E p \in PeerIds :
          /\ p \in v.present /\ v.owner[p] # None /\ p # v.host
          /\ w = Shown(p, v.owner, v.present)
  \/ \E lapsed \in SUBSET MayLapse(v) :
       lapsed \subseteq gone /\ LapseOrEnter(v, w, lapsed)

\* From room r to room s, identities that are neither in gone nor in left keep
\* their owners, and those in left are freed.
OwnersContinue(r, s, gone, left) ==
  \A x \in PeerIds : \/ Owner(r, x) = None
                     \/ Owner(s, x) = Owner(r, x)
                     \/ x \in gone
                     \/ x \in left /\ Owner(s, x) = None
=============================================================================
