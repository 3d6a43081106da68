------------------------ MODULE RelayHoldingsProofs -------------------------
(***************************************************************************)
(* What rooms, connections and addresses hold.  The roster of a room fits  *)
(* its capacity; its identities change hands by the operations of          *)
(* Identities alone, and only after their guest left or its grace period   *)
(* ran out; and an address is charged for no more than the rooms it has,   *)
(* those whose slot a handler is about to release and the one the sweep is *)
(* about to release.  For any number of connections, rooms, sessions,      *)
(* identities, tokens and addresses.                                       *)
(***************************************************************************)
EXTENDS RelayIdentities, RelayInvariants, RoomStateProofs

(* Finite sets *)

\* The empty set is finite and has no elements.
LEMMA CountEmpty == Counting => IsFiniteSet({}) /\ Cardinality({}) = 0
BY Zenon DEF Counting

\* Finite sets have a natural number of elements.
LEMMA CountType ==
  ASSUME Counting, NEW S, IsFiniteSet(S)
  PROVE  Cardinality(S) \in Nat
BY Zenon DEF Counting

\* One element more.
LEMMA CountAdd ==
  ASSUME Counting, NEW S, NEW x, IsFiniteSet(S)
  PROVE  /\ IsFiniteSet(S \cup {x})
         /\ Cardinality(S \cup {x}) = IF x \in S THEN Cardinality(S) ELSE Cardinality(S) + 1
BY Zenon DEF Counting

\* One element less.
LEMMA CountRemove ==
  ASSUME Counting, NEW S, NEW x, IsFiniteSet(S)
  PROVE  /\ IsFiniteSet(S \ {x})
         /\ Cardinality(S \ {x}) = IF x \in S THEN Cardinality(S) - 1 ELSE Cardinality(S)
BY Zenon DEF Counting

\* Part of a finite set is no larger.
LEMMA CountSubset ==
  ASSUME Counting, NEW T, IsFiniteSet(T), NEW S \in SUBSET T
  PROVE  IsFiniteSet(S) /\ Cardinality(S) <= Cardinality(T)
BY Zenon DEF Counting
-----------------------------------------------------------------------------
(* The capacity of a room *)

\* The guests still fit after any change that Turnover allows: what comes in
\* was let in by the capacity check, and a swap does not add to their number.
LEMMA TurnoverFits ==
  ASSUME Counting, NEW r, NEW s, Fits(r), Turnover(Reserved(r), Reserved(s))
  PROVE  Fits(s)
<1> DEFINE R == Reserved(r)
           S == Reserved(s)
<1>1. IsFiniteSet(R) /\ Cardinality(R) \in Nat /\ Cardinality(R) <= MAX_ROOM_SIZE - 1
  BY Zenon, CountType DEF Fits
<1>2. \/ S \subseteq R
      \/ \E Q \in SUBSET R, p \in PeerIds :
           S = Q \cup {p} /\ ~(Cardinality(Q) >= MAX_ROOM_SIZE - 1)
      \/ \E p \in R, h \in PeerIds : S = (R \ {p}) \cup {h}
  BY Zenon DEF Turnover
<1> SUFFICES IsFiniteSet(S) /\ Cardinality(S) <= MAX_ROOM_SIZE - 1
  BY Zenon DEF Fits
<1> HIDE DEF R, S
<1>3. ASSUME NEW Q \in SUBSET R
      PROVE  IsFiniteSet(Q) /\ Cardinality(Q) \in Nat /\ Cardinality(Q) <= Cardinality(R)
  BY Zenon, <1>1, CountSubset, CountType
<1>4. ASSUME NEW Q, IsFiniteSet(Q), NEW p
      PROVE  /\ IsFiniteSet(Q \cup {p}) /\ Cardinality(Q \cup {p}) \in Nat
             /\ \/ Cardinality(Q \cup {p}) = Cardinality(Q)
                \/ Cardinality(Q \cup {p}) = Cardinality(Q) + 1
  <2>1. IsFiniteSet(Q \cup {p})
    BY Zenon, <1>4, CountAdd
  <2>2. \/ Cardinality(Q \cup {p}) = Cardinality(Q)
        \/ Cardinality(Q \cup {p}) = Cardinality(Q) + 1
    BY Zenon, <1>4, CountAdd
  <2> QED
    BY Zenon, <2>1, <2>2, CountType
<1>5. CASE S \subseteq R
  BY <1>1, <1>3, <1>5, RoomConstants
<1>6. ASSUME NEW Q \in SUBSET R, NEW p \in PeerIds, S = Q \cup {p},
             ~(Cardinality(Q) >= MAX_ROOM_SIZE - 1)
      PROVE  IsFiniteSet(S) /\ Cardinality(S) <= MAX_ROOM_SIZE - 1
  <2>1. IsFiniteSet(Q) /\ Cardinality(Q) \in Nat
    BY Zenon, <1>3
  <2>2. /\ IsFiniteSet(S) /\ Cardinality(S) \in Nat
        /\ Cardinality(S) = Cardinality(Q) \/ Cardinality(S) = Cardinality(Q) + 1
    BY Zenon, <1>4, <1>6, <2>1
  <2> QED
    BY SMTT(30), <1>6, <2>1, <2>2, RoomConstants
<1>7. ASSUME NEW p \in R, NEW h \in PeerIds, S = (R \ {p}) \cup {h}
      PROVE  IsFiniteSet(S) /\ Cardinality(S) <= MAX_ROOM_SIZE - 1
  <2> DEFINE Q == R \ {p}
  <2>1. IsFiniteSet(Q) /\ Cardinality(Q) = Cardinality(R) - 1
    BY Zenon, <1>1, CountRemove
  <2> HIDE DEF Q
  <2>2. /\ IsFiniteSet(S)
        /\ Cardinality(S) = Cardinality(Q) \/ Cardinality(S) = Cardinality(Q) + 1
    BY Zenon, <1>4, <1>7, <2>1 DEF Q
  <2> QED
    BY SMTT(30), <1>1, <2>1, <2>2, RoomConstants
<1> QED
  BY Zenon, <1>2, <1>5, <1>6, <1>7

\* Every step keeps the guests of every room within the capacity.
LEMMA FitsKept ==
  ASSUME Counting, FitsInv, Evolves(rooms, rooms')
  PROVE  FitsInv'
<1> SUFFICES ASSUME NEW a \in Handles, rooms'[a] # None PROVE Fits(rooms'[a])
  BY Zenon DEF FitsInv
<1>1. CASE rooms[a] = None
  <2>1. Reserved(rooms'[a]) = {}
    BY Zenon, <1>1 DEF Evolves
  <2>2. IsFiniteSet({}) /\ Cardinality({}) = 0
    BY Zenon, CountEmpty
  <2> QED
    BY <2>1, <2>2, RoomConstants DEF Fits
<1>2. CASE rooms[a] # None
  BY Zenon, <1>2, TurnoverFits DEF FitsInv, Evolves, SameRoom
<1> QED
  BY Zenon, <1>1, <1>2

\* There is no room at first.
LEMMA FitsInit == Init => FitsInv
BY Zenon DEF Init, FitsInv

\* The capacity is inductive, on top of IndInv.
LEMMA FitsNext ==
  ASSUME Counting, FitsInv, Evolves(rooms, rooms') \/ UNCHANGED vars
  PROVE  FitsInv'
<1>1. CASE Evolves(rooms, rooms')
  BY Zenon, <1>1, FitsKept
<1>2. CASE UNCHANGED vars
  BY Zenon, <1>2 DEF vars, FitsInv
<1> QED
  BY Zenon, <1>1, <1>2

\* The roster of a well-formed room fits: the host, and the guests that have
\* reservations.
LEMMA RosterFits == Counting /\ IndInv /\ FitsInv => RosterBounded
<1>1. ASSUME Counting, NEW r, RosterOK(r), Fits(r)
      PROVE  /\ IsFiniteSet(Connected(r)) /\ Cardinality(Connected(r)) <= MAX_ROOM_SIZE
  <2> DEFINE h == r.host_peer_id
             roster == Reserved(r) \cup {h}
  <2>1. IsFiniteSet(Reserved(r)) /\ h \notin Reserved(r)
    BY Zenon, <1>1 DEF RosterOK, Fits
  <2>2. IsFiniteSet(roster) /\ Cardinality(roster) = Cardinality(Reserved(r)) + 1
    BY Zenon, <1>1, <2>1, CountAdd
  <2>3. Connected(r) \in SUBSET roster
    BY Zenon, <1>1 DEF RosterOK
  <2> HIDE DEF roster
  <2>4. IsFiniteSet(Connected(r)) /\ Cardinality(Connected(r)) <= Cardinality(roster)
    BY Zenon, <1>1, <2>2, <2>3, CountSubset
  <2>5. /\ Cardinality(Connected(r)) \in Nat /\ Cardinality(Reserved(r)) \in Nat
    BY Zenon, <1>1, <2>1, <2>4, CountType
  <2>6. Cardinality(Reserved(r)) <= MAX_ROOM_SIZE - 1
    BY Zenon, <1>1 DEF Fits
  <2>7. Cardinality(Connected(r)) <= MAX_ROOM_SIZE
    BY SMT, <2>2, <2>4, <2>5, <2>6, RoomConstants
  <2> QED
    BY Zenon, <2>4, <2>7
<1>2. IndInv /\ FitsInv =>
        \A a \in Handles : rooms[a] # None => RosterOK(rooms[a]) /\ Fits(rooms[a])
  BY Zenon DEF IndInv, FitsInv, RoomTableOK, RoomOK
<1> QED
  BY Zenon, <1>1, <1>2 DEF RosterBounded, RosterOK, Fits
-----------------------------------------------------------------------------
(* Quota slots *)

\* A room table that stays evolves.
LEMMA SameEvolves == Evolves(rooms, rooms)
BY Zenon DEF Evolves, SameRoom, Turnover

\* A cancellation brings no handler to the release of a slot or past it.
LEMMA CancelSame ==
  ASSUME NEW conns \in [Conns -> ConnStates], NEW a, NEW evict
  PROVE  SameReleases(conns, Cancel(conns, a, evict))
<1> DEFINE new == Cancel(conns, a, evict)
<1>1. \A c \in Conns : new[c] = conns[c] \/ new[c] = [conns[c] EXCEPT !.cancelled = TRUE]
  BY Zenon DEF Cancel
<1>2. \A c \in Conns : new[c].pc = conns[c].pc /\ new[c].seat = conns[c].seat
  BY ZenonT(40), <1>1 DEF ConnStates
<1> HIDE DEF new
<1> QED
  BY Zenon, <1>2 DEF SameReleases, new

\* The registered rooms of an address are the same in a room table that evolved.
LEMMA OwnedEvolves ==
  ASSUME NEW rms, NEW rms2, NEW reg, RegistryOK(rms, reg), Evolves(rms, rms2), NEW ip
  PROVE  OwnedIn(rms2, reg, ip) = OwnedIn(rms, reg, ip)
<1>1. \A a \in Handles : (\E s \in Sessions : reg[s] = a) => rms[a] # None
  BY Zenon, RelayConstants DEF RegistryOK
<1>2. \A a \in Handles : (\E s \in Sessions : reg[s] = a) =>
        rms2[a].owner_ip_key = rms[a].owner_ip_key
  BY Zenon, <1>1 DEF Evolves, SameRoom
<1> QED
  BY Zenon, <1>2 DEF OwnedIn

\* So are the releases under way.
LEMMA ReleasingEvolves ==
  ASSUME NEW rms, NEW rms2, NEW reg, NEW conns, NEW conns2, ConnsOK(conns, rms, reg),
         Evolves(rms, rms2), SameReleases(conns, conns2), NEW ip
  PROVE  ReleasingIn(rms2, conns2, ip) = ReleasingIn(rms, conns, ip)
<1>1. \A c \in Conns : conns[c].pc = "end_release" =>
        conns[c].seat.room \in Handles /\ rms[conns[c].seat.room] # None
  BY Zenon DEF ConnsOK, ConnOK, EndSteps, ConnStates, Seats
<1>2. \A c \in Conns : conns[c].pc = "end_release" =>
        rms2[conns2[c].seat.room].owner_ip_key = rms[conns[c].seat.room].owner_ip_key
  BY Zenon, <1>1 DEF Evolves, SameRoom, SameReleases
<1> QED
  BY Zenon, <1>2 DEF ReleasingIn, SameReleases

\* And the release the sweep is about to make.
LEMMA SweptEvolves ==
  ASSUME NEW rms, NEW rms2, NEW sw, SweepOK(sw, rms), Evolves(rms, rms2), NEW ip
  PROVE  SweptIn(rms2, sw, ip) = SweptIn(rms, sw, ip)
<1>1. sw.pc = "finish" => rms2[sw.handle].owner_ip_key = rms[sw.handle].owner_ip_key
  BY Zenon DEF SweepOK, Evolves, SameRoom
<1> QED
  BY Zenon, <1>1 DEF SweptIn

\* Steps of rooms and handlers that open, remove and release nothing.
LEMMA SlotsKept ==
  ASSUME NEW rms, NEW rms2, NEW reg, NEW quota, NEW conns, NEW conns2, NEW sw,
         RegistryOK(rms, reg), ConnsOK(conns, rms, reg), SweepOK(sw, rms),
         Evolves(rms, rms2), SameReleases(conns, conns2),
         Slots(rms, reg, quota, conns, sw)
  PROVE  Slots(rms2, reg, quota, conns2, sw)
<1> SUFFICES ASSUME NEW ip \in Ips PROVE SlotOK(rms2, reg, quota, conns2, sw, ip)
  BY Zenon DEF Slots
<1>1. OwnedIn(rms2, reg, ip) = OwnedIn(rms, reg, ip)
  BY OwnedEvolves
<1>2. ReleasingIn(rms2, conns2, ip) = ReleasingIn(rms, conns, ip)
  BY ReleasingEvolves
<1>3. SweptIn(rms2, sw, ip) = SweptIn(rms, sw, ip)
  BY SweptEvolves
<1>4. SlotOK(rms, reg, quota, conns, sw, ip)
  BY Zenon DEF Slots
<1> QED
  BY Zenon, <1>1, <1>2, <1>3, <1>4 DEF SlotOK

\* Counting one element less.
LEMMA OneLess ==
  ASSUME Counting, NEW S, IsFiniteSet(S), NEW x
  PROVE  /\ IsFiniteSet(S \ {x})
         /\ Cardinality(S) \in Nat /\ Cardinality(S \ {x}) \in Nat
         /\ Cardinality(S) <= Cardinality(S \ {x}) + 1
<1>1. /\ IsFiniteSet(S \ {x})
      /\ Cardinality(S \ {x}) = IF x \in S THEN Cardinality(S) - 1 ELSE Cardinality(S)
  BY Zenon, CountRemove
<1>2. Cardinality(S) \in Nat /\ Cardinality(S \ {x}) \in Nat
  BY Zenon, <1>1, CountType
<1> QED
  BY SMT, <1>1, <1>2

\* Counting one element more.
LEMMA OneAdded ==
  ASSUME Counting, NEW S, IsFiniteSet(S), NEW x, x \notin S
  PROVE  /\ IsFiniteSet(S \cup {x})
         /\ Cardinality(S) \in Nat
         /\ Cardinality(S \cup {x}) = Cardinality(S) + 1
<1>1. /\ IsFiniteSet(S \cup {x})
      /\ Cardinality(S \cup {x}) = Cardinality(S) + 1
  BY Zenon, CountAdd
<1>2. Cardinality(S) \in Nat
  BY Zenon, CountType
<1> QED
  BY Zenon, <1>1, <1>2

\* T is S and x, or S, as mine says.
Gains(S, T, x, mine) == x \notin S /\ T = IF mine THEN S \cup {x} ELSE S

\* T is S without x, and S itself unless mine.
Loses(S, T, x, mine) == T = S \ {x} /\ (~mine => T = S)

\* The releases under way are the same.
DueKept(rms, conns, rms2, conns2, sw) ==
  \A ip \in Ips : /\ ReleasingIn(rms2, conns2, ip) = ReleasingIn(rms, conns, ip)
                  /\ SweptIn(rms2, sw, ip) = SweptIn(rms, sw, ip)

\* One more room is charged to owner.
Charged(quota, quota2, owner) == quota2 = [quota EXCEPT ![owner] = @ + 1]

\* A new room under a free session id is one more room of its owner's address.
LEMMA OwnedMore ==
  ASSUME NEW rms, NEW reg, RoomTableOK(rms), RegistryOK(rms, reg),
         NEW a \in Handles, rms[a] = None, NEW s \in Sessions, reg[s] = None,
         NEW r, NEW ip
  PROVE  Gains(OwnedIn(rms, reg, ip), OwnedIn([rms EXCEPT ![a] = r], [reg EXCEPT ![s] = a], ip),
               a, r.owner_ip_key = ip)
<1> DEFINE rms2 == [rms EXCEPT ![a] = r]
           reg2 == [reg EXCEPT ![s] = a]
           Old(b) == \E x \in Sessions : reg[x] = b
           New(b) == \E x \in Sessions : reg2[x] = b
<1>1. /\ rms2[a] = r /\ \A b \in Handles \ {a} : rms2[b] = rms[b]
      /\ reg2[s] = a /\ \A x \in Sessions \ {s} : reg2[x] = reg[x]
  BY Zenon DEF RoomTableOK, RegistryOK
<1>2. \A b \in Handles : Old(b) => rms[b] # None
  BY Zenon, RelayConstants DEF RegistryOK
<1> HIDE DEF rms2, reg2
<1>3. ~Old(a) /\ New(a)
  BY Zenon, <1>1, <1>2
<1>4. \A b \in Handles \ {a} : New(b) <=> Old(b)
  <2> SUFFICES ASSUME NEW b \in Handles \ {a} PROVE New(b) <=> Old(b)
    BY Zenon
  <2>1. ASSUME New(b) PROVE Old(b)
    BY Zenon, <1>1, <2>1
  <2>2. ASSUME Old(b) PROVE New(b)
    <3>1. PICK x \in Sessions : reg[x] = b
      BY Zenon, <2>2
    <3>2. x # s
      BY Zenon, <3>1, RelayConstants
    <3> QED
      BY Zenon, <1>1, <3>1, <3>2
  <2> QED
    BY Zenon, <2>1, <2>2
<1>5. /\ OwnedIn(rms, reg, ip) = {b \in Handles : Old(b) /\ rms[b].owner_ip_key = ip}
      /\ OwnedIn(rms2, reg2, ip) = {b \in Handles : New(b) /\ rms2[b].owner_ip_key = ip}
  BY Zenon DEF OwnedIn
<1> HIDE DEF Old, New
<1>6. a \notin OwnedIn(rms, reg, ip)
  BY Zenon, <1>3, <1>5
<1>7. r.owner_ip_key = ip => OwnedIn(rms2, reg2, ip) = OwnedIn(rms, reg, ip) \cup {a}
  BY SMTT(30), <1>1, <1>3, <1>4, <1>5
<1>8. r.owner_ip_key # ip => OwnedIn(rms2, reg2, ip) = OwnedIn(rms, reg, ip)
  BY SMTT(30), <1>1, <1>3, <1>4, <1>5
<1> QED
  BY Zenon, <1>6, <1>7, <1>8 DEF Gains, rms2, reg2

\* The entry of session s is removed if it is that of room a.
Removed(reg, reg2, s, a) == reg2 = [reg EXCEPT ![s] = IF @ = a THEN None ELSE @]

\* Removing the entry of room a takes a, and no other room, from its owner: a
\* room is registered under its own session id only.
LEMMA OwnedLess ==
  ASSUME NEW rms, NEW reg, RegistryOK(rms, reg), NEW a \in Handles,
         NEW s \in Sessions, rms[a].session_id = s,
         NEW reg2, Removed(reg, reg2, s, a), NEW ip
  PROVE  Loses(OwnedIn(rms, reg, ip), OwnedIn(rms, reg2, ip),
               a, reg[s] = a /\ rms[a].owner_ip_key = ip)
<1> DEFINE Old(b) == \E x \in Sessions : reg[x] = b
           New(b) == \E x \in Sessions : reg2[x] = b
<1>1. /\ reg2[s] = (IF reg[s] = a THEN None ELSE reg[s])
      /\ \A x \in Sessions \ {s} : reg2[x] = reg[x]
  BY Zenon DEF RegistryOK, Removed
<1>2. \A x \in Sessions : reg[x] = a => x = s
  BY Zenon, RelayConstants DEF RegistryOK
<1>3. a # None
  BY Zenon, RelayConstants
<1>4. \A x \in Sessions : reg2[x] # a
  BY Zenon, <1>1, <1>2, <1>3
<1>5. \A b \in Handles \ {a} : New(b) <=> Old(b)
  <2> SUFFICES ASSUME NEW b \in Handles \ {a} PROVE New(b) <=> Old(b)
    BY Zenon
  <2>1. b # None /\ b # a
    BY Zenon, RelayConstants
  <2>2. \A x \in Sessions : reg2[x] = b <=> reg[x] = b
    BY Zenon, <1>1, <2>1
  <2> QED
    BY Zenon, <2>2
<1>6. /\ OwnedIn(rms, reg, ip) = {b \in Handles : Old(b) /\ rms[b].owner_ip_key = ip}
      /\ OwnedIn(rms, reg2, ip) = {b \in Handles : New(b) /\ rms[b].owner_ip_key = ip}
  BY Zenon DEF OwnedIn
<1>7. ~New(a) /\ (reg[s] # a => ~Old(a))
  BY Zenon, <1>2, <1>4
<1> HIDE DEF Old, New
<1>8. OwnedIn(rms, reg2, ip) = OwnedIn(rms, reg, ip) \ {a}
  BY Zenon, <1>5, <1>6, <1>7
<1>9. /\ rms[a].owner_ip_key # ip => OwnedIn(rms, reg2, ip) = OwnedIn(rms, reg, ip)
      /\ reg[s] # a => OwnedIn(rms, reg2, ip) = OwnedIn(rms, reg, ip)
  BY Zenon, <1>6, <1>7, <1>8
<1> QED
  BY Zenon, <1>8, <1>9 DEF Loses

\* A room that ip opens is paid for with one slot.
LEMMA SlotTaken ==
  ASSUME Counting, NEW rms, NEW reg, NEW quota \in [Ips -> Nat], NEW conns, NEW sw,
         RoomTableOK(rms), RegistryOK(rms, reg), Slots(rms, reg, quota, conns, sw),
         NEW a \in Handles, rms[a] = None, NEW s \in Sessions, reg[s] = None,
         NEW r, NEW owner \in Ips, r.owner_ip_key = owner,
         NEW rms2, NEW reg2, NEW quota2, NEW conns2, rms2 = [rms EXCEPT ![a] = r],
         reg2 = [reg EXCEPT ![s] = a], Charged(quota, quota2, owner),
         DueKept(rms, conns, rms2, conns2, sw)
  PROVE  Slots(rms2, reg2, quota2, conns2, sw)
<1> SUFFICES ASSUME NEW ip \in Ips PROVE SlotOK(rms2, reg2, quota2, conns2, sw, ip)
  BY Zenon DEF Slots
<1>1. SlotOK(rms, reg, quota, conns, sw, ip)
  BY Zenon DEF Slots
<1>2. Gains(OwnedIn(rms, reg, ip), OwnedIn(rms2, reg2, ip), a, owner = ip)
  BY Zenon, OwnedMore
<1>3. /\ owner = ip => quota2[ip] = quota[ip] + 1
      /\ owner # ip => quota2[ip] = quota[ip]
  BY Zenon DEF Charged
<1>4. /\ a \notin OwnedIn(rms, reg, ip)
      /\ owner = ip => OwnedIn(rms2, reg2, ip) = OwnedIn(rms, reg, ip) \cup {a}
      /\ owner # ip => OwnedIn(rms2, reg2, ip) = OwnedIn(rms, reg, ip)
  BY Zenon, <1>2 DEF Gains
<1>5. /\ ReleasingIn(rms2, conns2, ip) = ReleasingIn(rms, conns, ip)
      /\ SweptIn(rms2, sw, ip) = SweptIn(rms, sw, ip)
  BY Zenon DEF DueKept
<1>6. CASE owner # ip
  BY Zenon, <1>1, <1>3, <1>4, <1>5, <1>6 DEF SlotOK
<1>7. CASE owner = ip
  <2> DEFINE O == OwnedIn(rms, reg, ip)
             k == Cardinality(ReleasingIn(rms, conns, ip))
             w == SweptIn(rms, sw, ip)
  <2>1. IsFiniteSet(O) /\ IsFiniteSet(ReleasingIn(rms, conns, ip))
        /\ quota[ip] <= Cardinality(O) + (k + w)
    BY Zenon, <1>1 DEF SlotOK
  <2>2. /\ IsFiniteSet(O \cup {a}) /\ Cardinality(O) \in Nat
        /\ Cardinality(O \cup {a}) = Cardinality(O) + 1
    BY Zenon, <1>4, <2>1, OneAdded
  <2>3. k \in Nat /\ w \in Nat
    BY Zenon, <2>1, CountType DEF SweptIn
  <2>4. quota2[ip] = quota[ip] + 1 /\ OwnedIn(rms2, reg2, ip) = O \cup {a}
    BY Zenon, <1>3, <1>4, <1>7
  <2> HIDE DEF O, k, w
  <2>5. quota2[ip] <= Cardinality(O \cup {a}) + (k + w)
    BY SMT, <2>1, <2>2, <2>3, <2>4
  <2> QED
    BY Zenon, <1>5, <2>1, <2>2, <2>4, <2>5 DEF SlotOK, O, k, w
<1> QED
  BY Zenon, <1>6, <1>7

\* release_room_quota takes one from the count of its address, if it is not zero.
LEMMA ReleaseOne ==
  ASSUME NEW quota \in [Ips -> Nat], NEW owner \in Ips, NEW ip \in Ips, NEW n \in Nat,
         quota[ip] <= n + 1, owner # ip => quota[ip] <= n
  PROVE  Release(quota, owner)[ip] <= n
<1>1. /\ owner # ip => Release(quota, owner)[ip] = quota[ip]
      /\ owner = ip => Release(quota, owner)[ip] =
                         IF quota[ip] > 0 THEN quota[ip] - 1 ELSE quota[ip]
  BY Zenon DEF Release
<1>2. quota[ip] \in Nat
  BY Zenon
<1> QED
  BY SMT, <1>1, <1>2

\* The reclaim of create: the old room goes, and its slot with it.
LEMMA SlotReclaimed ==
  ASSUME Counting, NEW rms, NEW reg, NEW quota \in [Ips -> Nat], NEW conns, NEW sw,
         RegistryOK(rms, reg), Slots(rms, reg, quota, conns, sw),
         NEW a \in Handles, NEW s \in Sessions, rms[a].session_id = s, reg[s] = a,
         rms[a].owner_ip_key \in Ips
  PROVE  Slots(rms, [reg EXCEPT ![s] = None],
               Release(quota, rms[a].owner_ip_key), conns, sw)
<1> DEFINE reg2 == [reg EXCEPT ![s] = None]
           quota2 == Release(quota, rms[a].owner_ip_key)
<1> SUFFICES ASSUME NEW ip \in Ips PROVE SlotOK(rms, reg2, quota2, conns, sw, ip)
  BY Zenon DEF Slots
<1>1. Removed(reg, reg2, s, a)
  BY Zenon DEF RegistryOK, Removed
<1> HIDE DEF reg2
<1>2. Loses(OwnedIn(rms, reg, ip), OwnedIn(rms, reg2, ip),
            a, reg[s] = a /\ rms[a].owner_ip_key = ip)
  BY Zenon, <1>1, OwnedLess
<1> DEFINE O == OwnedIn(rms, reg, ip)
           k == Cardinality(ReleasingIn(rms, conns, ip))
           w == SweptIn(rms, sw, ip)
<1>3. /\ OwnedIn(rms, reg2, ip) = O \ {a}
      /\ rms[a].owner_ip_key # ip => O \ {a} = O
  BY Zenon, <1>1, <1>2 DEF Loses
<1>4. IsFiniteSet(O) /\ IsFiniteSet(ReleasingIn(rms, conns, ip))
      /\ quota[ip] <= Cardinality(O) + (k + w)
  BY Zenon DEF SlotOK, Slots
<1>5. /\ IsFiniteSet(O \ {a}) /\ Cardinality(O) \in Nat /\ Cardinality(O \ {a}) \in Nat
      /\ Cardinality(O) <= Cardinality(O \ {a}) + 1
  BY Zenon, <1>4, OneLess
<1>6. k \in Nat /\ w \in Nat
  BY Zenon, <1>4, CountType DEF SweptIn
<1> DEFINE n == Cardinality(O \ {a}) + (k + w)
<1>7. quota[ip] \in Nat
  BY Zenon
<1> HIDE DEF O, k, w
<1>8. n \in Nat /\ quota[ip] <= n + 1
  BY SMT, <1>4, <1>5, <1>6, <1>7
<1>9. rms[a].owner_ip_key # ip => quota[ip] <= n
  BY Zenon, <1>3, <1>4
<1> HIDE DEF n
<1>10. quota2[ip] <= n
  BY Zenon, <1>8, <1>9, ReleaseOne
<1> QED
  BY Zenon, <1>3, <1>4, <1>5, <1>10 DEF SlotOK, O, k, w, n, reg2

\* A handler of end_session takes the entry out of the registry: it is then
\* about to release the slot, whether or not the room was still registered.
LEMMA SlotDue ==
  ASSUME Counting, NEW rms, NEW reg, NEW quota \in [Ips -> Nat], NEW conns \in [Conns -> ConnStates],
         NEW sw, RegistryOK(rms, reg), Slots(rms, reg, quota, conns, sw),
         NEW c \in Conns, conns[c].pc # "end_release", NEW cs, cs.pc = "end_release",
         NEW a \in Handles, cs.seat.room = a,
         NEW s \in Sessions, rms[a].session_id = s, NEW reg2, Removed(reg, reg2, s, a)
  PROVE  Slots(rms, reg2, quota, [conns EXCEPT ![c] = cs], sw)
<1> DEFINE conns2 == [conns EXCEPT ![c] = cs]
<1> SUFFICES ASSUME NEW ip \in Ips PROVE SlotOK(rms, reg2, quota, conns2, sw, ip)
  BY Zenon DEF Slots
<1> DEFINE O == OwnedIn(rms, reg, ip)
           R == ReleasingIn(rms, conns, ip)
           w == SweptIn(rms, sw, ip)
           mine == rms[a].owner_ip_key = ip
<1>1. Loses(O, OwnedIn(rms, reg2, ip), a, reg[s] = a /\ mine)
  BY SMTT(30), OwnedLess
<1>2. conns2[c] = cs /\ \A d \in Conns \ {c} : conns2[d] = conns[d]
  BY Zenon
<1>3. IsFiniteSet(O) /\ IsFiniteSet(R) /\ quota[ip] <= Cardinality(O) + (Cardinality(R) + w)
  BY Zenon DEF SlotOK, Slots
<1> HIDE DEF conns2, O
<1>4. Gains(R, ReleasingIn(rms, conns2, ip), c, mine)
  BY Zenon, <1>2 DEF Gains, ReleasingIn
<1> HIDE DEF R
<1>5. w \in Nat /\ quota[ip] \in Nat
  BY Zenon DEF SweptIn
<1> HIDE DEF w
<1>6. CASE ~mine
  <2>1. OwnedIn(rms, reg2, ip) = O /\ ReleasingIn(rms, conns2, ip) = R
    BY Zenon, <1>1, <1>4, <1>6 DEF Loses, Gains
  <2> QED
    BY Zenon, <1>3, <2>1 DEF SlotOK, w
<1>7. CASE mine
  <2>1. OwnedIn(rms, reg2, ip) = O \ {a} /\ ReleasingIn(rms, conns2, ip) = R \cup {c} /\ c \notin R
    BY Zenon, <1>1, <1>4, <1>7 DEF Loses, Gains
  <2>2. /\ IsFiniteSet(O \ {a}) /\ Cardinality(O) \in Nat /\ Cardinality(O \ {a}) \in Nat
        /\ Cardinality(O) <= Cardinality(O \ {a}) + 1
    BY Zenon, <1>3, OneLess
  <2>3. /\ IsFiniteSet(R \cup {c}) /\ Cardinality(R) \in Nat
        /\ Cardinality(R \cup {c}) = Cardinality(R) + 1
    BY Zenon, <1>3, <2>1, OneAdded
  <2>4. quota[ip] <= Cardinality(O \ {a}) + (Cardinality(R \cup {c}) + w)
    BY SMT, <1>3, <1>5, <2>2, <2>3
  <2> QED
    BY Zenon, <2>1, <2>2, <2>3, <2>4 DEF SlotOK, w
<1> QED
  BY Zenon, <1>6, <1>7 DEF conns2

\* The handler of end_session releases the slot.
LEMMA SlotReleased ==
  ASSUME Counting, NEW rms, NEW reg, NEW quota \in [Ips -> Nat], NEW conns \in [Conns -> ConnStates],
         NEW sw, Slots(rms, reg, quota, conns, sw),
         NEW c \in Conns, conns[c].pc = "end_release", NEW cs, cs.pc # "end_release",
         NEW owner \in Ips, rms[conns[c].seat.room].owner_ip_key = owner
  PROVE  Slots(rms, reg, Release(quota, owner), [conns EXCEPT ![c] = cs], sw)
<1> DEFINE quota2 == Release(quota, owner)
           conns2 == [conns EXCEPT ![c] = cs]
<1> SUFFICES ASSUME NEW ip \in Ips PROVE SlotOK(rms, reg, quota2, conns2, sw, ip)
  BY Zenon DEF Slots
<1> DEFINE O == OwnedIn(rms, reg, ip)
           R == ReleasingIn(rms, conns, ip)
           w == SweptIn(rms, sw, ip)
<1>1. conns2[c] = cs /\ \A d \in Conns \ {c} : conns2[d] = conns[d]
  BY Zenon
<1>2. IsFiniteSet(O) /\ IsFiniteSet(R) /\ quota[ip] <= Cardinality(O) + (Cardinality(R) + w)
  BY Zenon DEF SlotOK, Slots
<1> HIDE DEF conns2, O
<1>3. /\ ReleasingIn(rms, conns2, ip) = R \ {c}
      /\ owner # ip => R \ {c} = R
  BY Zenon, <1>1 DEF ReleasingIn
<1> HIDE DEF R
<1>4. w \in Nat /\ quota[ip] \in Nat
  BY Zenon DEF SweptIn
<1>5. /\ IsFiniteSet(R \ {c}) /\ Cardinality(R) \in Nat /\ Cardinality(R \ {c}) \in Nat
      /\ Cardinality(R) <= Cardinality(R \ {c}) + 1
  BY Zenon, <1>2, OneLess
<1>6. Cardinality(O) \in Nat
  BY Zenon, <1>2, CountType
<1> DEFINE n == Cardinality(O) + (Cardinality(R \ {c}) + w)
<1> HIDE DEF w
<1>7. n \in Nat /\ quota[ip] <= n + 1
  BY SMT, <1>2, <1>4, <1>5, <1>6
<1>8. owner # ip => quota[ip] <= n
  BY Zenon, <1>2, <1>3
<1> HIDE DEF n
<1>9. quota2[ip] <= n
  BY Zenon, <1>7, <1>8, ReleaseOne
<1> QED
  BY Zenon, <1>2, <1>3, <1>5, <1>9 DEF SlotOK, O, n, w, conns2

\* remove_if_current takes the entry out, and the sweep knows whether it did.
LEMMA SlotSwept ==
  ASSUME Counting, NEW rms, NEW reg, NEW quota \in [Ips -> Nat], NEW conns, NEW sw, NEW sw2,
         RegistryOK(rms, reg), Slots(rms, reg, quota, conns, sw),
         NEW a \in Handles, NEW s \in Sessions, rms[a].session_id = s,
         sw.pc = "remove", sw2.pc = "finish", sw2.handle = a, sw2.removed <=> reg[s] = a,
         NEW reg2, Removed(reg, reg2, s, a)
  PROVE  Slots(rms, reg2, quota, conns, sw2)
<1> SUFFICES ASSUME NEW ip \in Ips PROVE SlotOK(rms, reg2, quota, conns, sw2, ip)
  BY Zenon DEF Slots
<1> DEFINE O == OwnedIn(rms, reg, ip)
           R == ReleasingIn(rms, conns, ip)
           mine == reg[s] = a /\ rms[a].owner_ip_key = ip
<1>1. Loses(O, OwnedIn(rms, reg2, ip), a, mine)
  BY SMTT(30), OwnedLess
<1>2. SweptIn(rms, sw, ip) = 0 /\ SweptIn(rms, sw2, ip) = IF mine THEN 1 ELSE 0
  BY Zenon DEF SweptIn
<1>3. IsFiniteSet(O) /\ IsFiniteSet(R) /\ quota[ip] <= Cardinality(O) + (Cardinality(R) + 0)
  BY Zenon, <1>2 DEF SlotOK, Slots
<1> HIDE DEF O, R
<1>4. Cardinality(R) \in Nat /\ quota[ip] \in Nat
  BY Zenon, <1>3, CountType
<1>5. /\ IsFiniteSet(O \ {a}) /\ Cardinality(O) \in Nat /\ Cardinality(O \ {a}) \in Nat
      /\ Cardinality(O) <= Cardinality(O \ {a}) + 1
  BY Zenon, <1>3, OneLess
<1>6. /\ OwnedIn(rms, reg2, ip) = O \ {a}
      /\ ~mine => O \ {a} = O
  BY Zenon, <1>1 DEF Loses
<1> HIDE DEF mine
<1>7. quota[ip] <= Cardinality(O \ {a}) + (Cardinality(R) + SweptIn(rms, sw2, ip))
  <2>1. CASE mine
    BY SMT, <1>2, <1>3, <1>4, <1>5, <2>1
  <2>2. CASE ~mine
    BY Zenon, <1>2, <1>3, <1>6, <2>2
  <2> QED
    BY Zenon, <2>1, <2>2
<1> QED
  BY Zenon, <1>3, <1>5, <1>6, <1>7 DEF SlotOK, R

\* Nobody is charged for anything in the empty server.
LEMMA SlotsInit == Counting /\ Init => SlotsInv
<1> SUFFICES ASSUME Counting, Init, NEW ip \in Ips
             PROVE  SlotOK(rooms, registry, rooms_per_ip, conn, sweep, ip)
  BY Zenon DEF SlotsInv, Slots
<1>1. rooms_per_ip[ip] = 0
  BY Zenon DEF Init
<1>2. OwnedIn(rooms, registry, ip) = {}
  BY Zenon, RelayConstants DEF Init, OwnedIn
<1>3. ReleasingIn(rooms, conn, ip) = {}
  BY Zenon DEF Init, Fresh, ReleasingIn
<1>4. SweptIn(rooms, sweep, ip) = 0
  BY Zenon DEF Init, SweepIdle, SweptIn
<1>5. IsFiniteSet({}) /\ Cardinality({}) = 0
  BY Zenon, CountEmpty
<1> QED
  BY SMT, <1>1, <1>2, <1>3, <1>4, <1>5 DEF SlotOK

\* A quiet step keeps the accounts.
LEMMA QuietSlots ==
  ASSUME IndInv, Basics, SlotsInv, Quiet
  PROVE  SlotsInv'
<1>1. Slots(rooms', registry, rooms_per_ip, conn', sweep)
  BY Zenon, SlotsKept DEF IndInv, SlotsInv, Quiet
<1> QED
  BY Zenon, <1>1 DEF SlotsInv, Quiet

\* The sweep's own state counts only when it is about to release a slot.
LEMMA SweepNextSlots ==
  ASSUME NEW rms, NEW reg, NEW quota, NEW conns, NEW sw, NEW sw2,
         Slots(rms, reg, quota, conns, sw),
         sw.pc # "finish" \/ ~sw.removed, sw2.pc # "finish"
  PROVE  Slots(rms, reg, quota, conns, sw2)
<1> SUFFICES ASSUME NEW ip \in Ips PROVE SlotOK(rms, reg, quota, conns, sw2, ip)
  BY Zenon DEF Slots
<1>1. SweptIn(rms, sw2, ip) = SweptIn(rms, sw, ip)
  BY Zenon DEF SweptIn
<1> QED
  BY Zenon, <1>1 DEF Slots, SlotOK

\* The sweep lists and visits rooms.
LEMMA SweepVisitSlots ==
  ASSUME IndInv, Basics, SlotsInv, Evolves(rooms, rooms'),
         SweepBegin \/ \E a \in Handles : SweepVisit(a)
  PROVE  SlotsInv'
<1>1. /\ Evolves(rooms, rooms') /\ UNCHANGED <<registry, rooms_per_ip, conn>>
      /\ sweep.pc # "finish" /\ sweep'.pc # "finish"
  <2>1. \A todo, started : SweepNext(todo, started).pc # "finish"
    BY Zenon DEF SweepNext, SweepIdle
  <2>2. CASE SweepBegin
    BY Zenon, <2>1, <2>2 DEF SweepBegin
  <2>3. ASSUME NEW a \in Handles, SweepVisit(a)
        PROVE  /\ UNCHANGED <<registry, rooms_per_ip, conn>>
               /\ sweep.pc # "finish" /\ sweep'.pc # "finish"
    <3>1. sweep \in SweepStates
      BY Zenon DEF IndInv, SweepOK
    <3>2. sweep.pc # "finish" /\ UNCHANGED <<registry, rooms_per_ip, conn>>
      BY Zenon, <2>3 DEF SweepVisit
    <3>3. sweep'.pc # "finish"
      BY Zenon, <2>1, <2>3, <3>1 DEF SweepVisit, SweepStates
    <3> QED
      BY Zenon, <3>2, <3>3
  <2> QED
    BY Zenon, <2>2, <2>3
<1>2. SameReleases(conn, conn)
  BY Zenon DEF SameReleases
<1>3. Slots(rooms', registry, rooms_per_ip, conn, sweep)
  BY Zenon, <1>1, <1>2, SlotsKept DEF IndInv, SlotsInv
<1>4. Slots(rooms', registry, rooms_per_ip, conn, sweep')
  BY Zenon, <1>1, <1>3, SweepNextSlots
<1> QED
  BY Zenon, <1>1, <1>4 DEF SlotsInv

\* remove_if_current: the slot of a room that is removed is released next.
LEMMA SweepRemoveSlots ==
  ASSUME Counting, IndInv, Basics, SlotsInv, SweepRemove
  PROVE  SlotsInv'
<1> DEFINE a == sweep.handle
           id == rooms[a].session_id
<1>1. sweep \in SweepStates /\ SweepOK(sweep, rooms)
  BY Zenon DEF IndInv, SweepOK
<1>2. a \in Handles /\ rooms[a] # None
  BY Zenon, <1>1 DEF SweepRemove, SweepOK
<1>3. id \in Sessions
  BY Zenon, <1>2 DEF IndInv, RoomTableOK, Rooms
<1>4. /\ Removed(registry, registry', id, a)
      /\ sweep.pc = "remove" /\ UNCHANGED <<rooms, rooms_per_ip, conn>>
  BY Zenon DEF SweepRemove, Removed
<1>5. sweep'.pc = "finish" /\ sweep'.handle = a /\ (sweep'.removed <=> registry[id] = a)
  BY Zenon, <1>1 DEF SweepRemove, SweepStates
<1>6. RegistryOK(rooms, registry) /\ rooms_per_ip \in [Ips -> Nat]
      /\ Slots(rooms, registry, rooms_per_ip, conn, sweep)
  BY Zenon DEF IndInv, SlotsInv
<1>7. Slots(rooms, registry', rooms_per_ip, conn, sweep')
  BY Zenon, <1>2, <1>3, <1>4, <1>5, <1>6, SlotSwept
<1> QED
  BY Zenon, <1>4, <1>7 DEF SlotsInv

\* The sweep releases the slot of a room that it removed.
LEMMA SlotGone ==
  ASSUME Counting, NEW rms, NEW reg, NEW quota \in [Ips -> Nat], NEW conns, NEW sw, NEW sw2,
         Slots(rms, reg, quota, conns, sw), sw.pc = "finish", sw.removed, sw2.pc # "finish",
         NEW owner \in Ips, rms[sw.handle].owner_ip_key = owner
  PROVE  Slots(rms, reg, Release(quota, owner), conns, sw2)
<1> DEFINE quota2 == Release(quota, owner)
<1> SUFFICES ASSUME NEW ip \in Ips PROVE SlotOK(rms, reg, quota2, conns, sw2, ip)
  BY Zenon DEF Slots
<1> DEFINE o == Cardinality(OwnedIn(rms, reg, ip))
           k == Cardinality(ReleasingIn(rms, conns, ip))
           n == o + (k + 0)
<1>1. /\ SweptIn(rms, sw, ip) = IF owner = ip THEN 1 ELSE 0
      /\ SweptIn(rms, sw2, ip) = 0
  BY Zenon DEF SweptIn
<1>2. /\ IsFiniteSet(OwnedIn(rms, reg, ip)) /\ IsFiniteSet(ReleasingIn(rms, conns, ip))
      /\ quota[ip] <= o + (k + SweptIn(rms, sw, ip))
  BY Zenon DEF Slots, SlotOK
<1>3. o \in Nat /\ k \in Nat
  BY Zenon, <1>2, CountType
<1>4. quota[ip] \in Nat
  BY Zenon
<1> HIDE DEF o, k
<1>5. n \in Nat /\ quota[ip] <= n + 1 /\ (owner # ip => quota[ip] <= n)
  BY SMT, <1>1, <1>2, <1>3, <1>4
<1> HIDE DEF n
<1>6. quota2[ip] <= n
  BY Zenon, <1>5, ReleaseOne
<1> QED
  BY Zenon, <1>1, <1>2, <1>6 DEF SlotOK, n, o, k

\* The last section of the sweep for a room.
LEMMA SweepFinishSlots ==
  ASSUME Counting, IndInv, Basics, SlotsInv, SweepFinish
  PROVE  SlotsInv'
<1> DEFINE owner == rooms[sweep.handle].owner_ip_key
           conns == Cancel(conn, sweep.handle, sweep.evict)
<1>1. /\ sweep.pc = "finish" /\ conn' = conns
      /\ sweep' = SweepNext(sweep.todo, sweep.now) /\ UNCHANGED <<rooms, registry>>
      /\ rooms_per_ip' = IF sweep.removed THEN Release(rooms_per_ip, owner) ELSE rooms_per_ip
  BY Zenon DEF SweepFinish
<1>2. sweep.handle \in Handles /\ rooms[sweep.handle] # None
  BY Zenon, <1>1 DEF IndInv, SweepOK
<1>3. owner \in Ips /\ rooms_per_ip \in [Ips -> Nat]
  BY Zenon, <1>2 DEF IndInv, RoomTableOK, Rooms
<1>4. sweep'.pc # "finish"
  BY Zenon, <1>1 DEF SweepNext, SweepIdle
<1>5. SameReleases(conn, conns)
  BY Zenon, CancelSame DEF IndInv, ConnsOK
<1> HIDE DEF conns
<1>6. Slots(rooms, registry, rooms_per_ip, conns, sweep)
  BY Zenon, <1>5, SameEvolves, SlotsKept DEF IndInv, SlotsInv
<1>7. CASE sweep.removed
  <2>1. Slots(rooms, registry, Release(rooms_per_ip, owner), conns, sweep')
    BY Zenon, <1>1, <1>3, <1>4, <1>6, <1>7, SlotGone
  <2>2. rooms_per_ip' = Release(rooms_per_ip, owner)
    BY Zenon, <1>1, <1>7
  <2> QED
    BY Zenon, <1>1, <2>1, <2>2 DEF SlotsInv
<1>8. CASE ~sweep.removed
  <2>1. Slots(rooms, registry, rooms_per_ip, conns, sweep')
    BY Zenon, <1>4, <1>6, <1>8, SweepNextSlots
  <2>2. rooms_per_ip' = rooms_per_ip
    BY Zenon, <1>1, <1>8
  <2> QED
    BY Zenon, <1>1, <2>1, <2>2 DEF SlotsInv
<1> QED
  BY Zenon, <1>7, <1>8

\* end_session removes the entry: the slot is released next.
LEMMA EndRemoveSlots ==
  ASSUME Counting, IndInv, Basics, SlotsInv, NEW c \in Conns, EndRemove(c)
  PROVE  SlotsInv'
<1> DEFINE a == conn[c].seat.room
           id == rooms[a].session_id
           cs == Goto(conn[c], "end_release")
<1>1. conn[c].pc \in EndSteps /\ conn[c].pc # "end_release"
  BY Zenon DEF EndRemove, EndSteps
<1>2. conn[c].seat # None
  BY Zenon, <1>1 DEF IndInv, ConnsOK, ConnOK
<1>3. conn[c] \in ConnStates /\ a \in Handles /\ id \in Sessions
  BY Zenon, <1>2 DEF Basics, SeatKnown, Rooms
<1>4. cs.pc = "end_release" /\ cs.seat.room = a
  BY Zenon, <1>3 DEF Goto, ConnStates
<1>5. /\ RegistryOK(rooms, registry) /\ rooms_per_ip \in [Ips -> Nat]
      /\ conn \in [Conns -> ConnStates]
      /\ Slots(rooms, registry, rooms_per_ip, conn, sweep)
  BY Zenon DEF IndInv, ConnsOK, SlotsInv
<1>6. /\ Removed(registry, registry', id, a)
      /\ conn' = [conn EXCEPT ![c] = cs] /\ UNCHANGED <<rooms, rooms_per_ip, sweep>>
  BY Zenon, <1>5 DEF EndRemove, Removed
<1> HIDE DEF cs
<1>7. Slots(rooms, registry', rooms_per_ip, [conn EXCEPT ![c] = cs], sweep)
  BY Zenon, <1>1, <1>3, <1>4, <1>5, <1>6, SlotDue
<1> QED
  BY Zenon, <1>6, <1>7 DEF SlotsInv

\* end_session releases the slot.
LEMMA EndReleaseSlots ==
  ASSUME Counting, IndInv, Basics, SlotsInv, NEW c \in Conns, EndRelease(c)
  PROVE  SlotsInv'
<1> DEFINE owner == rooms[conn[c].seat.room].owner_ip_key
           cs == Goto(conn[c], "end_finish")
<1>1. conn[c].pc \in EndSteps /\ conn[c].pc = "end_release"
  BY Zenon DEF EndRelease, EndSteps
<1>2. conn[c].seat # None
  BY Zenon, <1>1 DEF IndInv, ConnsOK, ConnOK
<1>3. conn[c] \in ConnStates /\ owner \in Ips
  BY Zenon, <1>2 DEF Basics, SeatKnown, Rooms
<1>4. cs.pc # "end_release"
  BY Zenon, <1>3 DEF Goto, ConnStates
<1>5. /\ rooms_per_ip \in [Ips -> Nat] /\ conn \in [Conns -> ConnStates]
      /\ Slots(rooms, registry, rooms_per_ip, conn, sweep)
  BY Zenon DEF IndInv, ConnsOK, SlotsInv
<1>6. /\ rooms_per_ip' = Release(rooms_per_ip, owner)
      /\ conn' = [conn EXCEPT ![c] = cs] /\ UNCHANGED <<rooms, registry, sweep>>
  BY Zenon, <1>5 DEF EndRelease
<1> HIDE DEF cs
<1>7. Slots(rooms, registry, Release(rooms_per_ip, owner), [conn EXCEPT ![c] = cs], sweep)
  BY Zenon, <1>1, <1>3, <1>4, <1>5, SlotReleased
<1> QED
  BY Zenon, <1>6, <1>7 DEF SlotsInv

\* The releases under way are the same in a room table that evolved.
LEMMA SameDue ==
  ASSUME IndInv, Basics, NEW rms, Evolves(rooms, rms), NEW conns, SameReleases(conn, conns), NEW ip
  PROVE  /\ ReleasingIn(rms, conns, ip) = ReleasingIn(rooms, conn, ip)
         /\ SweptIn(rms, sweep, ip) = SweptIn(rooms, sweep, ip)
<1>1. ConnsOK(conn, rooms, registry) /\ SweepOK(sweep, rooms)
  BY Zenon DEF IndInv
<1>2. ReleasingIn(rms, conns, ip) = ReleasingIn(rooms, conn, ip)
  BY SMTT(30), <1>1, ReleasingEvolves
<1>3. SweptIn(rms, sweep, ip) = SweptIn(rooms, sweep, ip)
  BY SMTT(30), <1>1, SweptEvolves
<1> QED
  BY Zenon, <1>2, <1>3

\* The last section of create charges the address for the room it opens, and
\* for nothing when a cap refuses it.
LEMMA OpenRoomSlots ==
  ASSUME Counting, IndInv, Basics, NEW c \in Conns, conn[c].pc # "end_release",
         NEW m \in Requests, m.token \in Tokens,
         NEW rms, NEW reg, NEW quota \in [Ips -> Nat],
         NEW conns \in [Conns -> ConnStates],
         RoomTableOK(rms), RegistryOK(rms, reg), Evolves(rooms, rms),
         \A a \in Handles : rooms[a] = None => rms[a] = None,
         reg[m.session_id] = None,
         \A d \in Conns \ {c} : conns[d] = conn[d],
         OpenRoom(c, m, rms, reg, quota, conns), UNCHANGED sweep,
         Slots(rms, reg, quota, conn, sweep)
  PROVE  SlotsInv'
<1> DEFINE ip == IpOf[c]
           new == NewRoom(m.session_id, m.peer_id, FromToken(m.token), ip,
                          Admission(c, m.meta), now).room
           full == \/ Cardinality({s \in Sessions : reg[s] # None}) >= MAX_RETAINED_ROOMS
                   \/ quota[ip] >= MAX_ROOMS_PER_IP
<1>1. m.session_id \in Sessions /\ ip \in Ips
  BY Zenon, RelayConstants DEF Requests
<1>2. new.owner_ip_key = ip /\ ip # NoIp /\ Reserved(new) = {}
  <2>1. new.owner_ip_key = ip /\ Reserved(new) = {}
    BY Zenon DEF NewRoom, Reserved
  <2> QED
    BY Zenon, <2>1, RelayConstants
<1>3. conn \in [Conns -> ConnStates]
  BY Zenon DEF IndInv, ConnsOK
<1>4. \A x : [conns EXCEPT ![c] = x] = [conn EXCEPT ![c] = x]
  BY Zenon, <1>3
<1>5. \A x : x.pc = "idle" => SameReleases(conn, [conn EXCEPT ![c] = x])
  BY Zenon, <1>3 DEF SameReleases
<1>6. \A x : Resume(conns[c], x).pc = "idle"
  BY DEF Resume, ConnStates
<1>7. SameReleases(conn, conn)
  BY Zenon DEF SameReleases
<1>8. \A o : /\ ReleasingIn(rms, conn, o) = ReleasingIn(rooms, conn, o)
             /\ SweptIn(rms, sweep, o) = SweptIn(rooms, sweep, o)
  BY Zenon, <1>7, SameDue
<1> HIDE DEF ip, new, full
<1>9. CASE /\ rooms' = rms /\ registry' = reg /\ rooms_per_ip' = quota
           /\ conn' = [conns EXCEPT ![c] = Resume(@, None)]
  <2>1. conn' = [conn EXCEPT ![c] = Resume(conns[c], None)]
    BY Zenon, <1>4, <1>9
  <2>2. SameReleases(conn, conn')
    BY Zenon, <1>5, <1>6, <2>1
  <2>3. \A o : /\ ReleasingIn(rms, conn', o) = ReleasingIn(rooms, conn, o)
               /\ SweptIn(rms, sweep, o) = SweptIn(rooms, sweep, o)
    BY Zenon, <2>2, SameDue
  <2>4. Slots(rms, reg, quota, conn', sweep)
    BY Zenon, <1>8, <2>3 DEF Slots, SlotOK
  <2> QED
    BY Zenon, <1>9, <2>4 DEF SlotsInv
<1>10. CASE /\ \E a \in Unused :
                 /\ rooms' = [rms EXCEPT ![a] = new]
                 /\ registry' = [reg EXCEPT ![m.session_id] = a]
                 /\ conn' = [conns EXCEPT ![c] = Resume(@, Seat(a, m.peer_id, 1))]
            /\ rooms_per_ip' = [quota EXCEPT ![ip] = @ + 1]
  <2>1. PICK a \in Unused :
          /\ rooms' = [rms EXCEPT ![a] = new]
          /\ registry' = [reg EXCEPT ![m.session_id] = a]
          /\ conn' = [conns EXCEPT ![c] = Resume(@, Seat(a, m.peer_id, 1))]
    BY Zenon, <1>10
  <2>2. a \in Handles /\ rooms[a] = None /\ rms[a] = None
    BY Zenon DEF Unused
  <2>3. conn' = [conn EXCEPT ![c] = Resume(conns[c], Seat(a, m.peer_id, 1))]
    BY Zenon, <1>4, <2>1
  <2>4. SameReleases(conn, conn')
    BY Zenon, <1>5, <1>6, <2>3
  <2>5. Evolves(rooms, rooms')
    <3>1. \A b \in Handles : rooms'[b] = IF b = a THEN new ELSE rms[b]
      BY Zenon, <2>1, <2>2 DEF RoomTableOK
    <3> QED
      BY Zenon, <1>2, <2>2, <3>1 DEF Evolves
  <2>6. \A o : /\ ReleasingIn(rooms', conn', o) = ReleasingIn(rooms, conn, o)
               /\ SweptIn(rooms', sweep, o) = SweptIn(rooms, sweep, o)
    BY Zenon, <2>4, <2>5, SameDue
  <2>7. DueKept(rms, conn, rooms', conn', sweep)
    BY Zenon, <1>8, <2>6 DEF DueKept
  <2>8. Charged(quota, rooms_per_ip', ip)
    BY Zenon, <1>10 DEF Charged
  <2>9. Slots(rooms', registry', rooms_per_ip', conn', sweep)
    BY Zenon, <1>1, <1>2, <2>1, <2>2, <2>7, <2>8, SlotTaken
  <2> QED
    BY Zenon, <2>9 DEF SlotsInv
<1> QED
  BY Zenon, <1>9, <1>10 DEF OpenRoom, ip, new

\* create under a free session id keeps the accounts.
LEMMA CreateNewSlots ==
  ASSUME Counting, IndInv, Basics, SlotsInv, NEW c \in Conns, NEW m \in Requests, CreateNew(c, m)
  PROVE  SlotsInv'
<1> DEFINE conns == [conn EXCEPT ![c] = Send(c, m, "idle", None)]
<1>1. conn \in [Conns -> ConnStates] /\ "idle" \in ConnSteps
  BY Zenon DEF IndInv, ConnsOK, ConnSteps
<1>2. Send(c, m, "idle", None) \in ConnStates
  BY Zenon, <1>1 DEF Basics, SendKnown
<1>3. conns \in [Conns -> ConnStates] /\ \A d \in Conns \ {c} : conns[d] = conn[d]
  BY Zenon, <1>1, <1>2
<1>4. conn[c].pc # "end_release"
  BY Zenon DEF CreateNew, MaySend
<1>5. /\ m.token \in Tokens /\ registry[m.session_id] = None /\ UNCHANGED sweep
      /\ OpenRoom(c, m, rooms, registry, rooms_per_ip, conns)
  BY Zenon DEF CreateNew, FromToken
<1> HIDE DEF conns
<1>6. /\ RoomTableOK(rooms) /\ RegistryOK(rooms, registry) /\ Evolves(rooms, rooms)
      /\ rooms_per_ip \in [Ips -> Nat]
  BY Zenon, SameEvolves DEF IndInv
<1>7. Slots(rooms, registry, rooms_per_ip, conn, sweep)
  BY Zenon DEF SlotsInv
<1> QED
  BY Zenon, <1>3, <1>4, <1>5, <1>6, <1>7, OpenRoomSlots

\* A reclaim gives the slot of the old room back and takes one for the new.
LEMMA CreateReclaimSlots ==
  ASSUME Counting, IndInv, Basics, SlotsInv, NEW c \in Conns, CreateReclaim(c)
  PROVE  SlotsInv'
<1> DEFINE a == conn[c].handle
           m == conn[c].request
           id == m.session_id
           rms == [rooms EXCEPT ![a].closing = TRUE]
           reg == [registry EXCEPT ![id] = None]
           quota == Release(rooms_per_ip, rooms[a].owner_ip_key)
<1>1. /\ conn \in [Conns -> ConnStates] /\ rooms_per_ip \in [Ips -> Nat]
      /\ RegistryOK(rooms, registry) /\ ConnsOK(conn, rooms, registry) /\ SweepOK(sweep, rooms)
      /\ UNCHANGED sweep
  BY Zenon DEF IndInv, ConnsOK, CreateReclaim
<1>2. conn[c].pc # "end_release"
  BY Zenon DEF CreateReclaim
<1>3. /\ a \in Handles /\ rooms[a] # None
      /\ m \in Requests /\ id \in Sessions /\ m.token \in Tokens
      /\ registry[id] = a /\ reg[id] = None
      /\ RoomTableOK(rms) /\ RegistryOK(rms, registry) /\ RegistryOK(rms, reg)
      /\ Evolves(rooms, rms) /\ \A b \in Handles : rooms[b] = None => rms[b] = None
      /\ quota \in [Ips -> Nat] /\ rooms[a].owner_ip_key \in Ips
      /\ OpenRoom(c, m, rms, reg, quota, conn)
  BY Zenon DEF Basics, ReclaimKnown, CreateReclaim
<1> HIDE DEF a, m, id, rms
<1>4. /\ SameRoom(rooms[a], rms[a]) /\ registry[id] # None
      /\ rms[a].owner_ip_key = rooms[a].owner_ip_key
  BY Zenon, <1>3, RelayConstants DEF Evolves, SameRoom
<1>5. rms[a].session_id = id
  BY Zenon, <1>3, <1>4 DEF RegistryOK
<1>6. SameReleases(conn, conn)
  BY Zenon DEF SameReleases
<1>7. Slots(rms, registry, rooms_per_ip, conn, sweep)
  BY Zenon, <1>1, <1>3, <1>6, SlotsKept DEF SlotsInv
<1>8. Slots(rms, [registry EXCEPT ![id] = None], Release(rooms_per_ip, rms[a].owner_ip_key), conn, sweep)
  BY Zenon, <1>1, <1>3, <1>4, <1>5, <1>7, SlotReclaimed
<1>9. Slots(rms, reg, quota, conn, sweep)
  BY Zenon, <1>4, <1>8
<1>10. reg[m.session_id] = None
  BY Zenon, <1>3 DEF id
<1> HIDE DEF reg, quota
<1> QED
  BY Zenon, <1>1, <1>2, <1>3, <1>9, <1>10, OpenRoomSlots

-----------------------------------------------------------------------------
(* Every step, on the accounts *)

\* The accounts are inductive, on top of IndInv.
LEMMA SlotsNext ==
  ASSUME Counting, IndInv, Basics, SlotsInv,
         (Evolves(rooms, rooms') /\ (Quiet \/ Loud)) \/ UNCHANGED vars
  PROVE  SlotsInv'
<1>1. CASE Evolves(rooms, rooms') /\ SweepStep
  BY Zenon, <1>1, SweepVisitSlots, SweepRemoveSlots, SweepFinishSlots DEF SweepStep
<1>2. CASE Tick \/ UNCHANGED vars
  BY Zenon, <1>2 DEF Tick, vars, SlotsInv
<1>3. ASSUME NEW c \in Conns,
             \/ CreateReclaim(c) \/ EndRemove(c) \/ EndRelease(c)
             \/ \E m \in Requests : CreateNew(c, m)
      PROVE  SlotsInv'
  BY Zenon, <1>3, CreateReclaimSlots, EndRemoveSlots, EndReleaseSlots, CreateNewSlots
<1> QED
  BY Zenon, <1>1, <1>2, <1>3, QuietSlots DEF Loud

\* The slots of the invariant are those the property counts.
LEMMA SlotsCounted == SlotsInv => QuotaNeverLeaks
<1> SUFFICES ASSUME SlotsInv, NEW ip \in Ips
             PROVE  rooms_per_ip[ip] <= Cardinality(OwnedBy(ip)) + Unreleased(ip)
  BY Zenon DEF QuotaNeverLeaks
<1>1. SlotOK(rooms, registry, rooms_per_ip, conn, sweep, ip)
  BY Zenon DEF SlotsInv, Slots
<1>2. OwnedBy(ip) = OwnedIn(rooms, registry, ip)
  BY Zenon DEF OwnedBy, Registered, OwnedIn
<1>3. Unreleased(ip) = Cardinality(ReleasingIn(rooms, conn, ip)) + SweptIn(rooms, sweep, ip)
  BY Zenon DEF Unreleased, ReleasingIn, SweptIn
<1> QED
  BY Zenon, <1>1, <1>2, <1>3 DEF SlotOK

-----------------------------------------------------------------------------
(* The identities *)

\* The leave of the guest with identity p ends with this step.
GivesUp(a, p) ==
  \E c \in Conns :
    /\ conn[c].pc = "leave" /\ conn'[c].pc = "idle"
    /\ conn[c].seat.room = a /\ conn[c].seat.peer_id = p

GivenUp(a, left) == \A p \in left : GivesUp(a, p)

\* What IdentityContinuity says of a step.
Continues ==
  \A a \in Handles, p \in PeerIds :
    Open(a) /\ Open(a)' =>
      \/ Owner(rooms[a], p) = None
      \/ Owner(rooms'[a], p) = Owner(rooms[a], p)
      \/ p \in Expired(rooms[a], now)
      \/ Owner(rooms'[a], p) = None /\ GivesUp(a, p)

\* A step of Identities, or one that shows nothing, that respects ownership.
Refines == [Abstract!Next]_live /\ Continues
-----------------------------------------------------------------------------
(* Every step of the relay, on the live rooms *)

\* Identities counts as this module does.
LEMMA SameCardinality == \A S : Cardinality(S) = Abstract!Cardinality(S)
BY Zenon DEF Cardinality, Abstract!Cardinality

\* Identities says of a live room what RoomInvariants says of a view.
LEMMA SameTerms ==
  /\ \A host, o, c : Shown(host, o, c) = Abstract!Room(host, o, c)
  /\ \A v : MayLapse(v) = Abstract!Absent(v)
  /\ \A v, lapsed : Unlapsed(v, lapsed) = Abstract!Owners(v, lapsed)
BY Zenon DEF Shown, Abstract!Room, MayLapse, Abstract!Absent, Abstract!Owned, Unlapsed,
             Abstract!Owners

\* A view is a live room.
LEMMA ViewLives ==
  ASSUME NEW r \in Rooms
  PROVE  View(r) # None
<1>1. [p \in PeerIds |-> Owner(r, p)] \in Owners
  BY Zenon, ViewFields
<1>2. r.host_peer_id \in PeerIds /\ Connected(r) \in SUBSET PeerIds
  BY Zenon DEF Rooms, Connected
<1>3. View(r) \in Abstract!LiveRooms
  BY Zenon, <1>1, <1>2 DEF View, Owners, Abstract!LiveRooms
<1> QED BY Zenon, <1>3, NoneIsNoRoom

\* Where the capacity check lets a guest in, the identities taken are fewer
\* than the room may have.
LEMMA EnterFits ==
  ASSUME Counting, NEW r, RoomOK(r), Fits(r), NEW lapsed \in SUBSET MayLapse(View(r)),
         NEW o, o = Unlapsed(View(r), lapsed),
         ~(Cardinality({q \in PeerIds : o[q] # None} \ {View(r).host}) >= MAX_ROOM_SIZE - 1)
  PROVE  Cardinality({q \in PeerIds : o[q] # None}) < MAX_ROOM_SIZE
<1> DEFINE host == r.host_peer_id
           owned == {q \in PeerIds : o[q] # None}
           guests == owned \ {host}
<1>1. /\ r \in Rooms /\ host \in PeerIds /\ View(r).host = host
      /\ View(r).owner = [p \in PeerIds |-> Owner(r, p)] /\ IsFiniteSet(Reserved(r))
  BY Zenon, ViewFields DEF RoomOK, Rooms, Fits
<1>2. \A q \in PeerIds : o[q] = IF q \in lapsed THEN None ELSE Owner(r, q)
  BY Zenon, <1>1 DEF Unlapsed
<1>3. host \notin lapsed
  BY Zenon, <1>1 DEF MayLapse
<1>4. guests \in SUBSET Reserved(r) /\ o[host] # None
  BY <1>1, <1>2, <1>3, OwnerFacts DEF Reserved
<1>5. owned = guests \cup {host} /\ host \notin guests
  BY Zenon, <1>1, <1>4
<1>6. ~(Cardinality(guests) >= MAX_ROOM_SIZE - 1)
  BY Zenon, <1>1
<1> HIDE DEF owned, guests
<1>7. IsFiniteSet(guests) /\ Cardinality(guests) \in Nat
  BY Zenon, <1>1, <1>4, CountSubset, CountType
<1>8. Cardinality(guests \cup {host}) = Cardinality(guests) + 1
  BY Zenon, <1>5, <1>7, CountAdd
<1>9. Cardinality(owned) < MAX_ROOM_SIZE
  BY <1>5, <1>6, <1>7, <1>8, RoomConstants
<1> QED BY Zenon, <1>9 DEF owned

\* A room becomes something Identities permits.
LEMMA ChangeStep ==
  ASSUME Counting, NEW x \in Sessions, live[x] # None,
         NEW r, RoomOK(r), Fits(r), live[x] = View(r),
         NEW w, NEW gone, NEW left, Permitted(live[x], w, gone, left),
         live' = [live EXCEPT ![x] = w]
  PROVE  [Abstract!Next]_live
<1> DEFINE v == live[x]
<1>1. CASE w = v
  <2>1. live' = live
    BY Zenon, <1>1 DEF live
  <2> QED BY Zenon, <2>1
<1>2. ASSUME Abstract!Change(x, v) PROVE Abstract!Next
  BY Zenon, <1>2 DEF Abstract!Next
<1>0. v = View(r)
  BY Zenon
<1> HIDE DEF v
<1>3. Abstract!Become(x, w)
  BY Zenon DEF Abstract!Become
<1>4. CASE \E p \in PeerIds :
             /\ p \in v.present /\ p # v.host
             /\ w = Shown(v.host, [v.owner EXCEPT ![p] = None], v.present \ {p})
  BY Zenon, <1>2, <1>3, <1>4, SameTerms DEF Abstract!Change, Abstract!Leave
<1>5. CASE \E p \in PeerIds :
             p \in v.present /\ w = Shown(v.host, v.owner, v.present \ {p})
  BY Zenon, <1>2, <1>3, <1>5, SameTerms DEF Abstract!Change, Abstract!Depart
<1>6. CASE /\ v.host \in v.present
           /\ \E p \in PeerIds : /\ p \in v.present /\ v.owner[p] # None /\ p # v.host
                                 /\ w = Shown(p, v.owner, v.present)
  <2>1. PICK p \in PeerIds : /\ p \in v.present /\ v.owner[p] # None /\ p # v.host
                             /\ w = Abstract!Room(p, v.owner, v.present)
    BY Zenon, <1>6, SameTerms
  <2>2. p \in v.present \cap Abstract!Owned(v)
    BY Zenon, <2>1 DEF Abstract!Owned
  <2>3. Abstract!Transfer(x, v, p)
    BY Zenon, <1>3, <1>6, <2>1, <2>2 DEF Abstract!Transfer
  <2> QED BY Zenon, <1>2, <2>3 DEF Abstract!Change
<1>7. ASSUME NEW lapsed \in SUBSET MayLapse(v), LapseOrEnter(v, w, lapsed)
      PROVE  Abstract!Next
  <2> DEFINE o == Unlapsed(v, lapsed)
  <2>1. lapsed \in SUBSET Abstract!Absent(v) /\ o = Abstract!Owners(v, lapsed)
    BY Zenon, SameTerms
  <2>2. CASE w = Shown(v.host, o, v.present)
    <3>1. Abstract!Lapse(x, v, lapsed)
      BY Zenon, <1>3, <2>1, <2>2, SameTerms DEF Abstract!Lapse
    <3> QED BY Zenon, <1>2, <2>1, <3>1 DEF Abstract!Change
  <2>3. ASSUME NEW p \in PeerIds, NEW k \in Verifiers,
               o[p] # k =>
                 /\ o[p] = None
                 /\ ~(Cardinality({q \in PeerIds : o[q] # None} \ {v.host}) >= MAX_ROOM_SIZE - 1),
               w = Shown(v.host, [o EXCEPT ![p] = k], v.present \cup {p})
        PROVE  Abstract!Next
    <3>1. o[p] # k => o[p] = None /\ Cardinality({q \in PeerIds : o[q] # None}) < MAX_ROOM_SIZE
      BY Zenon, <1>0, <2>3, EnterFits
    <3>2. Abstract!Become(x, Abstract!Room(v.host, [o EXCEPT ![p] = k], v.present \cup {p}))
      BY Zenon, <1>3, <2>3, SameTerms
    <3> HIDE DEF o
    <3>3. Abstract!Enter(x, v, lapsed, p, k)
      BY Zenon, <2>1, <3>1, <3>2, SameCardinality DEF Abstract!Enter
    <3> QED BY Zenon, <1>2, <2>1, <3>3 DEF Abstract!Change
  <2> QED BY Zenon, <1>7, <2>2, <2>3 DEF LapseOrEnter
<1> QED BY Zenon, <1>1, <1>2, <1>4, <1>5, <1>6, <1>7 DEF Permitted, v

\* A step that touches the room of one session only.
LEMMA OneSession ==
  ASSUME NEW x \in Sessions, NEW w, LiveRoom(rooms', registry'[x]) = w,
         \A y \in Sessions \ {x} : LiveRoom(rooms', registry'[y]) = LiveRoom(rooms, registry[y])
  PROVE  live' = [live EXCEPT ![x] = w] /\ live[x] = LiveRoom(rooms, registry[x])
BY Zenon DEF live

\* A step that touches none.
LEMMA NoSession ==
  ASSUME \A y \in Sessions : LiveRoom(rooms', registry'[y]) = LiveRoom(rooms, registry[y])
  PROVE  [Abstract!Next]_live
<1>1. live' = live
  BY Zenon DEF live
<1> QED BY Zenon, <1>1

\* A live room that is closed.
LEMMA CloseLive ==
  ASSUME NEW x \in Sessions, live' = [live EXCEPT ![x] = None]
  PROVE  [Abstract!Next]_live
<1>1. CASE live[x] = None
  <2>1. live' = live
    BY Zenon, <1>1 DEF live
  <2> QED BY Zenon, <2>1
<1>2. CASE live[x] # None
  BY Zenon, <1>2 DEF Abstract!Next, Abstract!Change, Abstract!Close, Abstract!Become
<1> QED BY Zenon, <1>1, <1>2

\* A step that leaves the rooms and the registry alone.
LEMMA NothingRefines ==
  ASSUME rooms' = rooms, registry' = registry
  PROVE  Refines
BY Zenon, NoSession DEF Refines, Continues

\* A method that does to one room what Identities permits respects ownership.
LEMMA MethodContinues ==
  ASSUME IndInv, NEW a \in Handles, rooms[a] # None, NEW s, RoomOK(s),
         rooms' = [rooms EXCEPT ![a] = s], NEW left, GivenUp(a, left),
         ~rooms[a].closing =>
           s.closing \/ Permitted(View(rooms[a]), View(s), Expired(rooms[a], now), left)
  PROVE  Continues
<1>1. /\ rooms[a] \in Rooms /\ s \in Rooms
      /\ \A b \in Handles : rooms'[b] = IF b = a THEN s ELSE rooms[b]
  BY Zenon DEF IndInv, RoomTableOK, RoomOK
<1>2. ~rooms[a].closing /\ ~s.closing => OwnersContinue(rooms[a], s, Expired(rooms[a], now), left)
  BY Zenon, <1>1, PermittedKeeps
<1> SUFFICES ASSUME NEW b \in Handles, NEW p \in PeerIds, Open(b), Open(b)'
             PROVE  \/ Owner(rooms[b], p) = None
                    \/ Owner(rooms'[b], p) = Owner(rooms[b], p)
                    \/ p \in Expired(rooms[b], now)
                    \/ Owner(rooms'[b], p) = None /\ GivesUp(b, p)
  BY Zenon DEF Continues
<1>3. CASE b # a
  BY Zenon, <1>1, <1>3
<1>4. CASE b = a
  <2>1. rooms'[a] = s /\ OwnersContinue(rooms[a], s, Expired(rooms[a], now), left)
    BY Zenon, <1>1, <1>2, <1>4 DEF Open
  <2> QED BY Zenon, <1>4, <2>1 DEF OwnersContinue, GivenUp
<1> QED BY Zenon, <1>3, <1>4

\* A method of one room.
LEMMA MethodRefines ==
  ASSUME Counting, IndInv, FitsInv, NEW a \in Handles, rooms[a] # None,
         NEW s, RoomOK(s), SameRoom(rooms[a], s),
         rooms' = [rooms EXCEPT ![a] = s], registry' = registry,
         NEW left, GivenUp(a, left),
         ~rooms[a].closing =>
           s.closing \/ Permitted(View(rooms[a]), View(s), Expired(rooms[a], now), left)
  PROVE  Refines
<1> SUFFICES [Abstract!Next]_live
  BY Zenon, MethodContinues DEF Refines
<1> DEFINE r == rooms[a]
           x == r.session_id
<1>1. /\ r \in Rooms /\ x \in Sessions /\ a # None
      /\ \A b \in Handles : rooms'[b] = IF b = a THEN s ELSE rooms[b]
      /\ registry \in [Sessions -> Handles \cup {None}]
  <2>1. rooms \in [Handles -> Rooms \cup {None}] /\ registry \in [Sessions -> Handles \cup {None}]
    BY Zenon DEF IndInv, RoomTableOK, RegistryOK
  <2>2. r \in Rooms /\ a # None
    BY Zenon, <2>1, RelayConstants
  <2>3. x \in Sessions
    BY Zenon, <2>2 DEF Rooms
  <2> HIDE DEF r, x
  <2> QED BY Zenon, <2>1, <2>2, <2>3
<1>2. \A y \in Sessions : registry[y] # a =>
        LiveRoom(rooms', registry'[y]) = LiveRoom(rooms, registry[y])
  BY SMTT(30), <1>1 DEF LiveRoom
<1>3. CASE r.closing
  <2>1. s.closing
    BY Zenon, <1>3 DEF SameRoom
  <2>2. LiveRoom(rooms', a) = None /\ LiveRoom(rooms, a) = None
    BY Zenon, <1>1, <1>3, <2>1 DEF LiveRoom
  <2>3. \A y \in Sessions : LiveRoom(rooms', registry'[y]) = LiveRoom(rooms, registry[y])
    <3> TAKE y \in Sessions
    <3>1. registry'[y] = registry[y]
      BY Zenon
    <3> QED BY Zenon, <1>2, <2>2, <3>1
  <2> QED BY Zenon, <2>3, NoSession
<1>4. CASE ~r.closing
  <2>1. registry[x] = a /\ \A y \in Sessions \ {x} : registry[y] # a
    BY Zenon, <1>1, <1>4 DEF IndInv, RegistryOK
  <2>2. LiveRoom(rooms, a) = View(r) /\ LiveRoom(rooms', a) = IF s.closing THEN None ELSE View(s)
    BY SMTT(30), <1>1, <1>4 DEF LiveRoom
  <2> DEFINE w == IF s.closing THEN None ELSE View(s)
  <2>3. LiveRoom(rooms', registry'[x]) = w
    BY Zenon, <2>1, <2>2
  <2>4. \A y \in Sessions \ {x} :
          LiveRoom(rooms', registry'[y]) = LiveRoom(rooms, registry[y])
    BY Zenon, <1>2, <2>1
  <2> HIDE DEF w, x, r
  <2>5. live' = [live EXCEPT ![x] = w] /\ live[x] = View(r)
    BY Zenon, <1>1, <2>1, <2>2, <2>3, <2>4, OneSession
  <2>6. CASE s.closing
    BY Zenon, <1>1, <2>5, <2>6, CloseLive DEF w
  <2>7. CASE ~s.closing
    <3>1. w = View(s) /\ Permitted(View(r), w, Expired(r, now), left) /\ View(r) # None
      BY Zenon, <1>1, <1>4, <2>7, ViewLives DEF w, r
    <3>2. live[x] # None /\ Permitted(live[x], w, Expired(r, now), left)
      BY Zenon, <2>5, <3>1
    <3>3. RoomOK(r) /\ Fits(r)
      BY Zenon DEF IndInv, RoomTableOK, FitsInv, r
    <3> QED BY Zenon, <1>1, <2>5, <3>2, <3>3, ChangeStep
  <2> QED BY Zenon, <2>6, <2>7
<1> QED BY Zenon, <1>3, <1>4

\* A step that gives up nothing.
LEMMA NothingGivenUp == \A a : GivenUp(a, {})
BY Zenon DEF GivenUp

\* Removing the entry of a room that is already closing.
LEMMA RemovalRefines ==
  ASSUME IndInv, NEW a \in Handles, rooms[a] # None, rooms[a].closing,
         registry' = [registry EXCEPT ![rooms[a].session_id] = IF @ = a THEN None ELSE @],
         rooms' = rooms
  PROVE  Refines
<1>1. registry \in [Sessions -> Handles \cup {None}] /\ a # None
  BY Zenon, RelayConstants DEF IndInv, RegistryOK
<1>2. \A y \in Sessions : registry'[y] = registry[y] \/ (registry[y] = a /\ registry'[y] = None)
  BY Zenon, <1>1
<1>3. LiveRoom(rooms, a) = None /\ LiveRoom(rooms, None) = None
  BY Zenon, <1>1 DEF LiveRoom
<1>4. \A y \in Sessions : LiveRoom(rooms', registry'[y]) = LiveRoom(rooms, registry[y])
  <2> TAKE y \in Sessions
  <2>1. rooms' = rooms
    BY Zenon
  <2> QED BY Zenon, <1>2, <1>3, <2>1
<1> QED BY Zenon, <1>4, NoSession DEF Refines, Continues

\* The last part of create opens the session, or leaves it closed.
LEMMA OpenRoomRefines ==
  ASSUME IndInv, Basics, NEW c \in Conns, NEW m \in Requests, m.token \in Tokens,
         NEW rms, NEW reg, NEW quota, NEW conns,
         RoomTableOK(rms), RegistryOK(rms, reg),
         \A a \in Handles : \/ rms[a] = rooms[a]
                            \/ rooms[a] # None /\ rms[a] # None /\ rms[a].closing,
         reg[m.session_id] = None,
         \A y \in Sessions \ {m.session_id} : LiveRoom(rms, reg[y]) = LiveRoom(rooms, registry[y]),
         OpenRoom(c, m, rms, reg, quota, conns)
  PROVE  Refines
<1> DEFINE x == m.session_id
           k == FromToken(m.token)
           adm == Admission(c, m.meta)
           new == NewRoom(x, m.peer_id, k, IpOf[c], adm, now).room
           o == [p \in PeerIds |-> IF p = m.peer_id THEN k ELSE None]
           w == Abstract!Room(m.peer_id, o, {m.peer_id})
<1>1. /\ x \in Sessions /\ m.peer_id \in PeerIds /\ m.meta \in Metas
      /\ IpOf[c] \in Ips /\ now \in Nat /\ k \in Verifiers
  BY Zenon, RelayConstants DEF Requests, IndInv, FromToken, Verifiers
<1>2. adm \in Admissions
  BY Zenon, <1>1 DEF Basics
<1>3. ~new.closing /\ View(new) = w
  BY ZenonT(40), <1>1, <1>2, NewRoomView, SameTerms
<1>4. reg \in [Sessions -> Handles \cup {None}] /\ rms \in [Handles -> Rooms \cup {None}]
  BY Zenon DEF RegistryOK, RoomTableOK
<1> HIDE DEF x, k, adm, new, w
<1>5. CASE rooms' = rms /\ registry' = reg
  <2>1. LiveRoom(rooms', registry'[x]) = None
    BY ZenonT(30), <1>5 DEF LiveRoom, x
  <2>2. \A y \in Sessions \ {x} : LiveRoom(rooms', registry'[y]) = LiveRoom(rooms, registry[y])
    BY ZenonT(30), <1>5 DEF x
  <2>3. live' = [live EXCEPT ![x] = None]
    BY Zenon, <1>1, <2>1, <2>2, OneSession
  <2>4. Continues
    BY ZenonT(30), <1>5 DEF Continues, Open
  <2> QED BY Zenon, <1>1, <2>3, <2>4, CloseLive DEF Refines
<1>6. ASSUME NEW a \in Unused, rooms' = [rms EXCEPT ![a] = new], registry' = [reg EXCEPT ![x] = a]
      PROVE  Refines
  <2>1. a \in Handles /\ rms[a] = None /\ a # None
    BY Zenon, RelayConstants DEF Unused
  <2>2. /\ \A b \in Handles : rooms'[b] = IF b = a THEN new ELSE rms[b]
        /\ \A y \in Sessions : registry'[y] = IF y = x THEN a ELSE reg[y]
    BY Zenon, <1>1, <1>4, <1>6, <2>1
  <2>3. LiveRoom(rooms', registry'[x]) = w
    BY ZenonT(30), <1>1, <1>3, <2>1, <2>2 DEF LiveRoom
  <2>4. \A y \in Sessions \ {x} : LiveRoom(rooms', registry'[y]) = LiveRoom(rms, reg[y])
    BY SMTT(30), <1>4, <2>1, <2>2 DEF LiveRoom, RegistryOK
  <2>5. \A y \in Sessions \ {x} : LiveRoom(rooms', registry'[y]) = LiveRoom(rooms, registry[y])
    BY Zenon, <2>4 DEF x
  <2>6. live' = [live EXCEPT ![x] = w]
    BY Zenon, <1>1, <2>3, <2>5, OneSession
  <2>7. Abstract!Open(x, m.peer_id, k)
    BY Zenon, <2>6 DEF Abstract!Open, Abstract!Become, w
  <2>8. \A b \in Handles : Open(b) /\ Open(b)' => rooms'[b] = rooms[b]
    BY Zenon, <2>1, <2>2 DEF Open
  <2>9. Continues
    BY Zenon, <2>8 DEF Continues
  <2> QED BY ZenonT(30), <1>1, <2>7, <2>9 DEF Abstract!Next, Refines
<1> QED BY Zenon, <1>5, <1>6 DEF OpenRoom, x, k, adm, new

-----------------------------------------------------------------------------
(* The steps *)

\* create for a session id that is not registered.
LEMMA CreateNewRefines ==
  ASSUME IndInv, Basics, NEW c \in Conns, NEW m \in Requests, CreateNew(c, m)
  PROVE  Refines
<1>1. /\ m.token \in Tokens /\ registry[m.session_id] = None
      /\ OpenRoom(c, m, rooms, registry, rooms_per_ip,
                  [conn EXCEPT ![c] = Send(c, m, "idle", None)])
  BY Zenon DEF CreateNew, FromToken
<1>2. RoomTableOK(rooms) /\ RegistryOK(rooms, registry)
  BY Zenon DEF IndInv
<1> QED BY Zenon, <1>1, <1>2, OpenRoomRefines

\* create in the place of a room that is reclaimed.
LEMMA CreateReclaimRefines ==
  ASSUME IndInv, Basics, NEW c \in Conns, CreateReclaim(c)
  PROVE  Refines
<1> DEFINE a == conn[c].handle
           m == conn[c].request
           quota == Release(rooms_per_ip, rooms[a].owner_ip_key)
           rms == [rooms EXCEPT ![a].closing = TRUE]
           reg == [registry EXCEPT ![m.session_id] = None]
<1>1. /\ a \in Handles /\ rooms[a] # None
      /\ m \in Requests /\ m.session_id \in Sessions /\ m.token \in Tokens
      /\ registry[m.session_id] = a /\ reg[m.session_id] = None
      /\ RoomTableOK(rms) /\ RegistryOK(rms, reg)
      /\ OpenRoom(c, m, rms, reg, quota, conn)
  BY Zenon DEF Basics, ReclaimKnown, CreateReclaim
<1>2. /\ registry \in [Sessions -> Handles \cup {None}] /\ a # None
      /\ rooms \in [Handles -> Rooms \cup {None}] /\ rooms[a] \in Rooms
      /\ \A y \in Sessions : registry[y] = a => y = m.session_id
  <2>1. a # None
    BY Zenon, <1>1, RelayConstants
  <2>2. RegistryOK(rooms, registry) /\ RoomTableOK(rooms)
    BY Zenon DEF IndInv
  <2> HIDE DEF a, m, rms, reg, quota
  <2>3. \A y \in Sessions : registry[y] = a => y = rooms[a].session_id
    BY Zenon, <2>1, <2>2 DEF RegistryOK
  <2>4. m.session_id = rooms[a].session_id
    BY Zenon, <1>1, <2>3
  <2>5. rooms \in [Handles -> Rooms \cup {None}] /\ registry \in [Sessions -> Handles \cup {None}]
    BY Zenon, <2>2 DEF RegistryOK, RoomTableOK
  <2> QED BY Zenon, <1>1, <2>1, <2>3, <2>4, <2>5
<1> HIDE DEF a, m, quota
<1>3. /\ \A b \in Handles \ {a} : rms[b] = rooms[b]
      /\ rms[a].closing
      /\ \A y \in Sessions \ {m.session_id} : reg[y] = registry[y]
  BY Zenon, <1>1, <1>2 DEF Rooms
<1>4. rms[a] # None
  <2>1. rms \in [Handles -> Rooms \cup {None}] /\ rms[a] = [rooms[a] EXCEPT !.closing = TRUE]
    BY Zenon, <1>1, <1>2 DEF RoomTableOK
  <2>2. RoomOK([rooms[a] EXCEPT !.closing = TRUE])
    BY Zenon, <1>1, <1>2, ClosingOK DEF IndInv, RoomTableOK
  <2> QED BY Zenon, <2>1, <2>2, RelayConstants DEF RoomOK
<1> HIDE DEF rms, reg
<1>5. \A b \in Handles : \/ rms[b] = rooms[b]
                         \/ rooms[b] # None /\ rms[b] # None /\ rms[b].closing
  BY Zenon, <1>1, <1>3, <1>4
<1>6. \A y \in Sessions \ {m.session_id} : LiveRoom(rms, reg[y]) = LiveRoom(rooms, registry[y])
  BY <1>2, <1>3 DEF LiveRoom
<1> QED BY Zenon, <1>1, <1>5, <1>6, OpenRoomRefines

\* A host that comes back, and join or resume.
LEMMA AdmissionRefines ==
  ASSUME Counting, IndInv, Basics, FitsInv, NEW c \in Conns, CreateReconnect(c) \/ JoinEnter(c)
  PROVE  Refines
<1> DEFINE a == conn[c].handle
           m == conn[c].request
           adm == Admission(c, m.meta)
           resume_only == m.type = "resume"
           back == ReconnectHost(rooms[a], adm).room
           in == JoinOrResume(rooms[a], m.peer_id, m.token, adm, resume_only, now).room
<1>1. conn[c].pc \in CreateSteps \cup {"join"}
  BY Zenon DEF CreateReconnect, JoinEnter, CreateSteps
<1>2. /\ a \in Handles /\ rooms[a] # None /\ rooms[a] \in Rooms /\ RoomOK(rooms[a])
      /\ m.peer_id \in PeerIds /\ m.meta \in Metas
  BY Zenon, <1>1 DEF Basics, RequestKnown
<1>3. adm \in Admissions /\ now \in Nat /\ resume_only \in BOOLEAN
  BY Zenon, <1>2 DEF Basics, IndInv
<1>4. /\ CreateReconnect(c) => rooms' = [rooms EXCEPT ![a] = back]
      /\ JoinEnter(c) => rooms' = [rooms EXCEPT ![a] = in]
      /\ registry' = registry
  BY Zenon DEF CreateReconnect, JoinEnter
<1> HIDE DEF a, m, adm, resume_only
<1>5. /\ RoomOK(back) /\ SameRoom(rooms[a], back)
      /\ Permitted(View(rooms[a]), View(back), Expired(rooms[a], now), {})
  BY Zenon, <1>2, <1>3, ReconnectHostOK, ReconnectHostSame, ReconnectView
<1>6. /\ RoomOK(in) /\ SameRoom(rooms[a], in)
      /\ Permitted(View(rooms[a]), View(in), Expired(rooms[a], now), {})
  BY Zenon, <1>2, <1>3, JoinOrResumeOK, JoinOrResumeSame, JoinView
<1> HIDE DEF back, in
<1> QED BY Zenon, <1>2, <1>4, <1>5, <1>6, NothingGivenUp, MethodRefines

\* The two sections of leave: the first shows nothing, the second frees the
\* identity or nothing.
LEMMA LeaveRefines ==
  ASSUME Counting, IndInv, Basics, FitsInv, NEW c \in Conns, NEW token, NEW version_ok \in BOOLEAN, NEW persisted \in BOOLEAN,
         LeaveBegin(c, token, version_ok) \/ LeaveFinish(c, persisted)
  PROVE  Refines
<1> DEFINE seat == conn[c].seat
           r == rooms[seat.room]
           b == BeginLeave(r, seat.peer_id)
           f == FinishLeave(r, seat.peer_id, seat.conn_id, persisted, now).room
<1>1. seat # None
  BY Zenon DEF LeaveBegin, LeaveFinish, InRoom, IndInv, ConnsOK, ConnOK, EndSteps
<1>2. /\ seat.room \in Handles /\ seat.peer_id \in PeerIds /\ now \in Nat
      /\ r # None /\ r \in Rooms /\ RoomOK(r)
  BY Zenon, <1>1 DEF Basics, SeatKnown, IndInv
<1>3. registry' = registry /\ rooms \in [Handles -> Rooms \cup {None}]
  BY Zenon DEF LeaveBegin, LeaveFinish, IndInv, RoomTableOK
<1>4. CASE LeaveBegin(c, token, version_ok)
  <2>1. r.reservations[seat.peer_id] # None
    BY Zenon, <1>4 DEF LeaveBegin, MayBeginLeave
  <2>2. rooms' = [rooms EXCEPT ![seat.room] = b]
    BY Zenon, <1>3, <1>4 DEF LeaveBegin
  <2>3. RoomOK(b) /\ SameRoom(r, b) /\ View(b) = View(r)
    BY Zenon, <1>2, <2>1, BeginLeaveOK, BeginLeaveSame, BeginLeaveView
  <2> HIDE DEF b
  <2>4. Permitted(View(r), View(b), Expired(r, now), {})
    BY Zenon, <2>3 DEF Permitted
  <2> QED BY Zenon, <1>2, <1>3, <2>2, <2>3, <2>4, NothingGivenUp, MethodRefines
<1>5. CASE LeaveFinish(c, persisted)
  <2>1. rooms' = [rooms EXCEPT ![seat.room] = f]
    BY Zenon, <1>5 DEF LeaveFinish
  <2>2. /\ RoomOK(f) /\ SameRoom(r, f)
        /\ Permitted(View(r), View(f), Expired(r, now), {seat.peer_id})
    BY Zenon, <1>2, FinishLeaveOK, FinishLeaveSame, FinishLeaveView
  <2>3. GivenUp(seat.room, {seat.peer_id})
    <3>1. conn[c].pc = "leave" /\ conn'[c].pc = "idle"
      BY Zenon, <1>5 DEF LeaveFinish, Resume, IndInv, ConnsOK, ConnOK, ConnStates
    <3> QED BY Zenon, <3>1 DEF GivenUp, GivesUp
  <2> HIDE DEF f
  <2> QED BY Zenon, <1>2, <1>3, <2>1, <2>2, <2>3, MethodRefines
<1> QED BY Zenon, <1>4, <1>5

\* endSession closes the session with its first section; the removal of the
\* entry and the last section change nothing that shows.
LEMMA EndRefines ==
  ASSUME Counting, IndInv, Basics, FitsInv, NEW c \in Conns, NEW token, NEW version_ok \in BOOLEAN, NEW persisted \in BOOLEAN,
         EndBegin(c, token, version_ok) \/ EndRemove(c) \/ EndFinish(c, persisted)
  PROVE  Refines
<1> DEFINE a == conn[c].seat.room
           r == rooms[a]
           b == [r EXCEPT !.closing = TRUE]
           f == FinishEndSession(r, {}, persisted).room
<1>1. conn[c].seat # None
  BY Zenon DEF EndBegin, EndRemove, EndFinish, InRoom, IndInv, ConnsOK, ConnOK, EndSteps
<1>2. a \in Handles /\ r # None /\ r \in Rooms /\ RoomOK(r)
  BY Zenon, <1>1 DEF Basics, SeatKnown
<1>3. CASE EndBegin(c, token, version_ok)
  <2>1. rooms' = [rooms EXCEPT ![a] = b] /\ registry' = registry
    BY Zenon, <1>3 DEF EndBegin, BeginEndSession, IndInv, RoomTableOK
  <2>2. RoomOK(b) /\ SameRoom(r, b) /\ b.closing
    BY Zenon, <1>2, ClosingOK, ClosingSame
  <2> HIDE DEF b
  <2> QED BY Zenon, <1>2, <2>1, <2>2, NothingGivenUp, MethodRefines
<1>4. CASE EndRemove(c)
  <2>1. r.closing
    BY Zenon, <1>4 DEF EndRemove, IndInv, ConnsOK, ConnOK, EndSteps
  <2>2. /\ registry' = [registry EXCEPT ![r.session_id] = IF @ = a THEN None ELSE @]
        /\ rooms' = rooms
    BY Zenon, <1>4 DEF EndRemove
  <2> QED BY Zenon, <1>2, <2>1, <2>2, RemovalRefines
<1>5. CASE EndFinish(c, persisted)
  <2>1. r.closing
    BY Zenon, <1>5 DEF EndFinish, IndInv, ConnsOK, ConnOK, EndSteps
  <2>2. rooms' = [rooms EXCEPT ![a] = f] /\ registry' = registry
    BY Zenon, <1>5 DEF EndFinish
  <2>3. RoomOK(f) /\ SameRoom(r, f)
    BY Zenon, <1>2, FinishEndSessionOK, FinishEndSessionSame
  <2> HIDE DEF f
  <2> QED BY Zenon, <1>2, <2>1, <2>2, <2>3, NothingGivenUp, MethodRefines
<1> QED BY Zenon, <1>3, <1>4, <1>5

\* transferHost, broadcast and sendTo.
LEMMA CallRefines ==
  ASSUME Counting, IndInv, Basics, FitsInv, NEW c \in Conns, NEW version_ok \in BOOLEAN, NEW target \in PeerIds,
         \/ CallTransferHost(c, version_ok, target)
         \/ CallBroadcast(c) \/ CallSendTo(c, target)
  PROVE  Refines
<1> DEFINE seat == conn[c].seat
           r == rooms[seat.room]
           x == TransferHost(r, seat.peer_id, seat.conn_id, version_ok, target).room
           b == Broadcast(r, seat.peer_id, seat.conn_id, now).room
           d == SendTo(r, seat.peer_id, seat.conn_id, target, now).room
<1>1. InRoom(c) /\ registry' = registry
  BY Zenon DEF CallTransferHost, CallBroadcast, CallSendTo, Call
<1>2. /\ seat.room \in Handles /\ seat.peer_id \in PeerIds /\ now \in Nat
      /\ r # None /\ r \in Rooms /\ RoomOK(r)
  BY Zenon, <1>1 DEF Basics, SeatKnown, InRoom, IndInv
<1>3. \/ rooms' = [rooms EXCEPT ![seat.room] = x]
      \/ rooms' = [rooms EXCEPT ![seat.room] = b]
      \/ rooms' = [rooms EXCEPT ![seat.room] = d]
  BY Zenon DEF CallTransferHost, CallBroadcast, CallSendTo, Call
<1>4. RoomOK(x) /\ SameRoom(r, x) /\ Permitted(View(r), View(x), Expired(r, now), {})
  BY Zenon, <1>2, TransferHostOK, TransferHostSame, TransferView
<1>5. RoomOK(b) /\ RoomOK(d)
  BY Zenon, <1>2, BroadcastOK, SendToOK
<1>6. SameRoom(r, b) /\ SameRoom(r, d)
  BY Zenon, <1>2, TrafficSame
<1>7. View(b) = View(r) /\ View(d) = View(r)
  <2> HIDE DEF r, seat
  <2>1. \A p, k, y, t : /\ View(Broadcast(r, p, k, t).room) = View(r)
                       /\ View(SendTo(r, p, k, y, t).room) = View(r)
    BY Zenon, <1>2, TrafficView
  <2> QED BY Zenon, <2>1
<1> HIDE DEF x, b, d
<1>8. /\ Permitted(View(r), View(b), Expired(r, now), {})
      /\ Permitted(View(r), View(d), Expired(r, now), {})
  BY Zenon, <1>7 DEF Permitted
<1> QED BY Zenon, <1>1, <1>2, <1>3, <1>4, <1>5, <1>6, <1>8,
       NothingGivenUp, MethodRefines

\* The end of a connection: somebody departs, or nobody does.
LEMMA CloseRefines ==
  ASSUME Counting, IndInv, Basics, FitsInv, NEW c \in Conns, Close(c)
  PROVE  Refines
<1> DEFINE seat == conn[c].seat
           r == rooms[seat.room]
           s == HandleDisconnect(r, seat.peer_id, seat.conn_id, now).room
<1>1. registry' = registry
  BY Zenon DEF Close
<1>2. CASE seat = None
  BY Zenon, <1>1, <1>2, NothingRefines DEF Close
<1>3. CASE seat # None
  <2>1. /\ seat.room \in Handles /\ seat.peer_id \in PeerIds /\ now \in Nat
        /\ r # None /\ r \in Rooms /\ RoomOK(r)
    BY Zenon, <1>3 DEF Basics, SeatKnown, IndInv
  <2>2. rooms' = [rooms EXCEPT ![seat.room] = s]
    BY Zenon, <1>3, <2>1 DEF Close, IndInv, RoomTableOK
  <2>3. RoomOK(s) /\ SameRoom(r, s) /\ Permitted(View(r), View(s), Expired(r, now), {})
    BY Zenon, <2>1, HandleDisconnectOK, HandleDisconnectSame, DisconnectView
  <2> HIDE DEF s
  <2> QED BY Zenon, <1>1, <2>1, <2>2, <2>3, NothingGivenUp, MethodRefines
<1> QED BY Zenon, <1>2, <1>3

\* The sweep lets guests lapse or closes the session with its visit; the
\* removal of the entry changes nothing that shows.
LEMMA SweepRefines ==
  ASSUME Counting, IndInv, Basics, FitsInv, NEW a \in Handles, SweepVisit(a) \/ SweepRemove
  PROVE  Refines
<1>1. sweep \in SweepStates /\ SweepOK(sweep, rooms)
  BY Zenon DEF IndInv, SweepOK
<1>2. CASE SweepVisit(a)
  <2> DEFINE s == SweepState(rooms[a], sweep.now, now).room
  <2>1. rooms[a] # None
    BY Zenon, <1>1, <1>2 DEF SweepVisit, SweepOK
  <2>2. rooms[a] \in Rooms /\ RoomOK(rooms[a])
    BY Zenon, <2>1 DEF IndInv, RoomTableOK, RoomOK
  <2>3. rooms' = [rooms EXCEPT ![a] = s] /\ registry' = registry
    BY Zenon, <1>2 DEF SweepVisit
  <2>4. RoomOK(s) /\ SameRoom(rooms[a], s)
    BY Zenon, <2>2, SweepStateOK, SweepStateSame
  <2>5. s.closing \/ Permitted(View(rooms[a]), View(s), Expired(rooms[a], now), {})
    BY Zenon, <2>2, SweepView
  <2> HIDE DEF s
  <2> QED BY Zenon, <2>1, <2>3, <2>4, <2>5, NothingGivenUp, MethodRefines
<1>3. CASE SweepRemove
  <2> DEFINE b == sweep.handle
  <2>1. b \in Handles /\ rooms[b] # None /\ rooms[b].closing
    BY Zenon, <1>1, <1>3 DEF SweepRemove, SweepOK
  <2>2. /\ registry' = [registry EXCEPT ![rooms[b].session_id] = IF @ = b THEN None ELSE @]
        /\ rooms' = rooms
    BY Zenon, <1>3 DEF SweepRemove
  <2> HIDE DEF b
  <2> QED BY Zenon, <2>1, <2>2, RemovalRefines
<1> QED BY Zenon, <1>2, <1>3
-----------------------------------------------------------------------------
(* Every step, on the identities *)

\* Every step of the system is one of Identities, or shows nothing, and
\* respects ownership.
LEMMA NextRefines ==
  ASSUME Counting, IndInv, Basics, FitsInv, [Next]_vars
  PROVE  Refines
<1>1. CASE SweepStep
  <2>1. CASE SweepBegin \/ SweepFinish
    BY Zenon, <2>1, NothingRefines DEF SweepBegin, SweepFinish
  <2>2. CASE SweepRemove
    <3>1. sweep.handle \in Handles
      BY Zenon, <2>2 DEF SweepRemove, IndInv, SweepOK
    <3> QED BY Zenon, <2>2, <3>1, SweepRefines
  <2> QED BY Zenon, <1>1, <2>1, <2>2, SweepRefines DEF SweepStep
<1>2. CASE Tick \/ UNCHANGED vars
  <2>1. rooms' = rooms /\ registry' = registry
    BY Zenon, <1>2 DEF Tick, vars
  <2> QED BY Zenon, <2>1, NothingRefines
<1>3. ASSUME NEW c \in Conns, HandlerStep(c) PROVE Refines
  <2>1. CASE CreateCheck(c) \/ EndRelease(c)
    BY Zenon, <2>1, NothingRefines DEF CreateCheck, EndRelease
  <2> QED
    BY Zenon, <1>3, <2>1, AdmissionRefines, CreateReclaimRefines, LeaveRefines, EndRefines
       DEF HandlerStep
<1>4. ASSUME NEW c \in Conns, ClientStep(c) PROVE Refines
  <2>1. ASSUME NEW m \in Requests, CreateExisting(c, m) \/ JoinLookup(c, m)
        PROVE  Refines
    BY Zenon, <2>1, NothingRefines DEF CreateExisting, JoinLookup
  <2>2. ASSUME NEW token, NEW version_ok, EndRefused(c, token, version_ok)
        PROVE  Refines
    BY Zenon, <2>2, NothingRefines DEF EndRefused
  <2>3. CASE CallBroadcast(c)
    <3>1. conn[c].seat.peer_id \in PeerIds
      BY Zenon, <2>3 DEF Basics, SeatKnown, CallBroadcast, Call, InRoom
    <3> QED BY Zenon, <2>3, <3>1, CallRefines
  <2> QED
    BY Zenon, <1>4, <2>1, <2>2, <2>3, CreateNewRefines, LeaveRefines, EndRefines, CallRefines,
       CloseRefines DEF ClientStep, SocketClosed
<1>5. ASSUME NEW c \in Conns, Evicted(c) PROVE Refines
  BY Zenon, <1>5, CloseRefines DEF Evicted
<1> QED
  BY Zenon, <1>1, <1>2, <1>3, <1>4, <1>5 DEF Next

\* No room is live at first.
LEMMA RefinesInit == Init => Abstract!Init
BY Zenon DEF Init, Abstract!Init, live, LiveRoom

\* Every step is one of Identities or changes no live room.
LEMMA StepRefines == Counting /\ IndInv /\ Basics /\ FitsInv /\ [Next]_vars => [Abstract!Next]_live
BY Zenon, NextRefines DEF Refines

\* Every step keeps the identities of an open room with their tokens, but for
\* those whose grace period is over and those given up by a leave.
LEMMA StepContinues ==
  Counting /\ IndInv /\ Basics /\ FitsInv /\ [Next]_vars =>
    [\A a \in Handles, p \in PeerIds :
       Open(a) /\ Open(a)' =>
         \/ Owner(rooms[a], p) = None
         \/ Owner(rooms'[a], p) = Owner(rooms[a], p)
         \/ p \in Expired(rooms[a], now)
         \/ /\ Owner(rooms'[a], p) = None
            /\ \E c \in Conns :
                 /\ conn[c].pc = "leave" /\ conn'[c].pc = "idle"
                 /\ conn[c].seat.room = a /\ conn[c].seat.peer_id = p]_vars
BY Zenon, NextRefines DEF Refines, Continues, GivesUp
=============================================================================
