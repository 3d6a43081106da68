----------------------------- MODULE Identities -----------------------------
(***************************************************************************)
(* What the relay promises about its rooms, whatever the handlers, locks,  *)
(* handles and tokens behind them: a map from session ids to live rooms.   *)
(* A live room has a host, an owner for every identity that is taken, and  *)
(* the identities that are present.  Each operation is one step.           *)
(***************************************************************************)
EXTENDS Integers, FiniteSets

CONSTANTS Sessions, PeerIds, Verifiers, None, MAX_ROOM_SIZE

VARIABLE live

LiveRooms ==
  [host : PeerIds, owner : [PeerIds -> Verifiers \cup {None}],
   present : SUBSET PeerIds]

Room(host, owner, present) ==
  [host |-> host, owner |-> owner, present |-> present]

Owned(v) == {p \in PeerIds : v.owner[p] # None}

\* The guests whose identity may lapse.
Absent(v) == Owned(v) \ (v.present \cup {v.host})

\* Who owns what once those that lapsed do not.
Owners(v, lapsed) == [p \in PeerIds |-> IF p \in lapsed THEN None ELSE v.owner[p]]

Init == live = [s \in Sessions |-> None]

Become(s, v) == live' = [live EXCEPT ![s] = v]
-----------------------------------------------------------------------------
(* A session id that is not in use is opened, for its host alone.  One that *)
(* is in use may be opened anew, which replaces its room.                   *)
Open(s, p, k) ==
  Become(s, Room(p, [q \in PeerIds |-> IF q = p THEN k ELSE None], {p}))

\* Guests that are absent lose their identities.
Lapse(s, v, lapsed) == Become(s, Room(v.host, Owners(v, lapsed), v.present))

\* An identity is entered by its owner, or by anyone if it is free and the
\* room is not full; identities that have lapsed are freed first.
Enter(s, v, lapsed, p, k) ==
  LET owner == Owners(v, lapsed)
  IN  /\ owner[p] # k =>
           owner[p] = None /\ Cardinality({q \in PeerIds : owner[q] # None}) < MAX_ROOM_SIZE
      /\ Become(s, Room(v.host, [owner EXCEPT ![p] = k], v.present \cup {p}))

\* A guest that is present gives its identity up.
Leave(s, v, p) ==
  /\ p \in v.present /\ p # v.host
  /\ Become(s, Room(v.host, [v.owner EXCEPT ![p] = None], v.present \ {p}))

\* Somebody is gone and keeps the identity.
Depart(s, v, p) ==
  /\ p \in v.present
  /\ Become(s, Room(v.host, v.owner, v.present \ {p}))

\* The role of host passes to a guest.  Both are present and keep what they own.
Transfer(s, v, p) ==
  /\ v.host \in v.present
  /\ p \in v.present \cap Owned(v) /\ p # v.host
  /\ Become(s, Room(p, v.owner, v.present))

Close(s) == Become(s, None)

\* What may become of a live room v.
Change(s, v) ==
  \/ Close(s)
  \/ \E p \in PeerIds : Leave(s, v, p) \/ Depart(s, v, p) \/ Transfer(s, v, p)
  \/ \E lapsed \in SUBSET Absent(v) :
       \/ Lapse(s, v, lapsed)
       \/ \E p \in PeerIds, k \in Verifiers : Enter(s, v, lapsed, p, k)

Next ==
  \E s \in Sessions :
    \/ \E p \in PeerIds, k \in Verifiers : Open(s, p, k)
    \/ live[s] # None /\ Change(s, live[s])

Spec == Init /\ [][Next]_live
=============================================================================
