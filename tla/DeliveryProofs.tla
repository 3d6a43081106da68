--------------------------- MODULE DeliveryProofs ---------------------------
(***************************************************************************)
(* What one connection causes reaches every client in order, and a full    *)
(* channel costs nobody but its own client, for any number of connections, *)
(* any channel capacity and any number of messages.                        *)
(***************************************************************************)
EXTENDS Delivery, RoomStateProofs

IsSeq(q) == \E S : q \in Seq(S)

\* What queueing x behind q makes of q.
Behind(q, x, q2) ==
  /\ IsSeq(q2) /\ Len(q2) = Len(q) + 1 /\ q2[Len(q) + 1] = x
  /\ \A i \in 1..Len(q) : q2[i] = q[i]
  /\ Range(q2) = Range(q) \cup {x}

\* What taking the first element off q makes of q.
FirstOff(q, q2) ==
  /\ IsSeq(q2) /\ Len(q2) = Len(q) - 1
  /\ \A i \in 1..Len(q2) : q2[i] = q[i + 1]
  /\ Range(q) = Range(q2) \cup {Head(q)}
  /\ Head(q) = q[1] /\ Len(q) >= 1

\* The length of a channel is a natural number and bounds its positions.
LEMMA SeqDomain ==
  ASSUME NEW q, IsSeq(q)
  PROVE  /\ Len(q) \in Nat /\ DOMAIN q = 1..Len(q)
         /\ \A x : x \in Range(q) <=> \E i \in 1..Len(q) : q[i] = x
<1>1. PICK S : q \in Seq(S)
  BY Zenon DEF IsSeq
<1> QED
  BY <1>1 DEF Range

\* try_send puts a frame at the end of the channel.
LEMMA AppendIsBehind ==
  ASSUME NEW q, IsSeq(q), NEW x
  PROVE  Behind(q, x, Append(q, x))
<1> DEFINE q2 == Append(q, x)
<1>1. PICK S : q \in Seq(S)
  BY Zenon DEF IsSeq
<1>2. q \in Seq(S \cup {x}) /\ x \in S \cup {x}
  BY <1>1
<1>3. /\ q2 \in Seq(S \cup {x}) /\ Len(q2) = Len(q) + 1 /\ q2[Len(q) + 1] = x
      /\ \A i \in 1..Len(q) : q2[i] = q[i]
      /\ Len(q) \in Nat
  BY <1>2
<1>4. IsSeq(q2)
  BY Zenon, <1>3 DEF IsSeq
<1> HIDE DEF q2
<1>5. 1..Len(q2) = 1..Len(q) \cup {Len(q) + 1}
  BY <1>3
<1>6. Range(q2) = Range(q) \cup {x}
  BY <1>3, <1>4, <1>5, SeqDomain
<1> QED
  BY Zenon, <1>3, <1>4, <1>6 DEF Behind, q2

\* The write task takes the oldest frame off the channel.
LEMMA TailIsFirstOff ==
  ASSUME NEW q, IsSeq(q), q # <<>>
  PROVE  FirstOff(q, Tail(q))
<1> DEFINE q2 == Tail(q)
<1>1. PICK S : q \in Seq(S)
  BY Zenon DEF IsSeq
<1>2. /\ q2 \in Seq(S) /\ Len(q2) = Len(q) - 1 /\ Head(q) = q[1] /\ Len(q) >= 1
      /\ \A i \in 1..Len(q2) : q2[i] = q[i + 1]
      /\ Len(q) \in Nat
  BY <1>1
<1>3. IsSeq(q2)
  BY Zenon, <1>2 DEF IsSeq
<1> HIDE DEF q2
<1>4. ASSUME NEW y PROVE y \in Range(q) <=> y \in Range(q2) \cup {Head(q)}
  <2>1. y \in Range(q) <=> \E i \in 1..Len(q) : q[i] = y
    BY Zenon, SeqDomain
  <2>2. y \in Range(q2) <=> \E i \in 1..Len(q2) : q2[i] = y
    BY Zenon, <1>3, SeqDomain
  <2>3. ASSUME NEW i \in 1..Len(q), q[i] = y PROVE y \in Range(q2) \cup {Head(q)}
    <3>1. CASE i = 1
      BY Zenon, <1>2, <2>3, <3>1
    <3>2. CASE i # 1
      <4>1. i - 1 \in 1..Len(q2) /\ q2[i - 1] = q[(i - 1) + 1] /\ (i - 1) + 1 = i
        BY <1>2, <3>2
      <4> QED BY Zenon, <2>2, <2>3, <4>1
    <3> QED BY Zenon, <3>1, <3>2
  <2>4. ASSUME NEW i \in 1..Len(q2), q2[i] = y PROVE y \in Range(q)
    <3>1. i + 1 \in 1..Len(q) /\ q[i + 1] = y
      BY <1>2, <2>4
    <3> QED BY Zenon, <2>1, <3>1
  <2>5. y = Head(q) => y \in Range(q)
    BY <1>2, <2>1
  <2> QED BY Zenon, <2>1, <2>2, <2>3, <2>4, <2>5
<1>5. Range(q) = Range(q2) \cup {Head(q)}
  BY Zenon, <1>4
<1> QED
  BY Zenon, <1>2, <1>3, <1>5 DEF FirstOff, q2
-----------------------------------------------------------------------------
(* What the methods of a room ask to be sent *)

\* A list of broadcasts to entries of the peer map.
Listed(b) == IsSeq(b) /\ \A i \in DOMAIN b : b[i].to \subseteq ConnectedPeers

EffectsOK(eff) ==
  /\ Listed(eff.broadcast)
  /\ eff.evict \subseteq ConnectedPeers
  /\ eff.assigned_conn_id \in Nat \cup {None}

\* One broadcast is a list.
LEMMA ListedOne ==
  ASSUME NEW to, to \subseteq ConnectedPeers, NEW msg
  PROVE  Listed(<<[to |-> to, msg |-> msg]>>)
<1> DEFINE e == [to |-> to, msg |-> msg]
<1>1. <<e>> \in Seq({e})
  OBVIOUS
<1>2. DOMAIN <<e>> = {1} /\ <<e>>[1].to = to
  OBVIOUS
<1>3. IsSeq(<<e>>)
  BY Zenon, <1>1 DEF IsSeq
<1> QED
  BY Zenon, <1>2, <1>3 DEF Listed

\* No broadcast is a list.
LEMMA ListedNone == Listed(<<>>)
<1>1. <<>> \in Seq({}) /\ DOMAIN <<>> = {}
  OBVIOUS
<1> QED
  BY Zenon, <1>1 DEF Listed, IsSeq

\* One list after the other is a list.
LEMMA ListedBoth ==
  ASSUME NEW a, NEW b, Listed(a), Listed(b)
  PROVE  Listed(a \o b)
<1>1. PICK S : a \in Seq(S)
  BY Zenon DEF Listed, IsSeq
<1>2. PICK T : b \in Seq(T)
  BY Zenon DEF Listed, IsSeq
<1>3. a \in Seq(S \cup T) /\ b \in Seq(S \cup T)
  BY <1>1, <1>2
<1>4. a \o b \in Seq(S \cup T)
  BY <1>3
<1>5. ASSUME NEW i \in DOMAIN (a \o b) PROVE (a \o b)[i].to \subseteq ConnectedPeers
  <2>1. /\ Len(a) \in Nat /\ Len(b) \in Nat
        /\ DOMAIN a = 1..Len(a) /\ DOMAIN b = 1..Len(b) /\ i \in 1..(Len(a) + Len(b))
    BY <1>3
  <2>2. CASE i <= Len(a)
    BY <1>3, <2>1, <2>2 DEF Listed
  <2>3. CASE i > Len(a)
    <3>1. (a \o b)[i] = b[i - Len(a)] /\ i - Len(a) \in DOMAIN b
      BY <1>3, <2>1, <2>3
    <3> QED BY Zenon, <3>1 DEF Listed
  <2> QED BY <2>1, <2>2, <2>3
<1> QED
  BY Zenon, <1>4, <1>5 DEF Listed, IsSeq

\* The entries of a room are ConnectedPeers.
LEMMA EntriesType ==
  ASSUME NEW r \in Rooms, NEW P, P \subseteq Connected(r)
  PROVE  {r.peers[q] : q \in P} \subseteq ConnectedPeers
BY Zenon DEF Connected, Rooms

\* The broadcasts of a room go to its entries.
LEMMA RoomBroadcasts ==
  ASSUME NEW r \in Rooms, NEW p, NEW msg
  PROVE  /\ Listed(BroadcastExcept(r, p, msg)) /\ Listed(BroadcastAll(r, msg))
         /\ Listed(AppendHostTransferEligibility(r))
<1>1. {r.peers[q] : q \in Connected(r) \ {p}} \subseteq ConnectedPeers
  BY Zenon, EntriesType
<1>2. {r.peers[q] : q \in Connected(r)} \subseteq ConnectedPeers
  BY Zenon, EntriesType
<1> DEFINE e == ComputeEligibility(r.host_peer_id, PeerInfos(r), Transferable(r))
<1>3. e.recipients \subseteq Connected(r)
  BY Zenon DEF ComputeEligibility, PeerInfos
<1> HIDE DEF e
<1>4. {r.peers[q] : q \in e.recipients} \subseteq ConnectedPeers
  BY Zenon, <1>3, EntriesType
<1>5. Listed(AppendHostTransferEligibility(r))
  BY Zenon, <1>4, ListedOne, ListedNone DEF AppendHostTransferEligibility, e
<1> QED
  BY Zenon, <1>1, <1>2, <1>5, ListedOne DEF BroadcastExcept, BroadcastAll

\* A method that answers with an error, or does nothing, sends nothing else.
LEMMA PlainEffects ==
  ASSUME NEW code
  PROVE  EffectsOK(Error(code)) /\ EffectsOK(NoEffects)
BY Zenon, ListedNone DEF EffectsOK, Error, NoEffects, Effects

\* The connection a method replaces held an entry of the room.
LEMMA ReplacedType ==
  ASSUME NEW r \in Rooms, NEW p \in PeerIds
  PROVE  Replaced(r, p) \subseteq ConnectedPeers
BY Zenon DEF Replaced, Rooms

\* Effects put together from a list, an eviction and an assignment are effects.
LEMMA EffectsType ==
  ASSUME NEW reply, NEW b, Listed(b), NEW ev, ev \subseteq ConnectedPeers,
         NEW dirty, NEW k, k \in Nat \cup {None}
  PROVE  EffectsOK(Effects(reply, b, ev, dirty, k))
BY Zenon DEF EffectsOK, Effects

\* RoomState::new
LEMMA NewRoomEffects ==
  ASSUME NEW s \in Sessions, NEW h \in PeerIds, NEW v \in Verifiers, NEW ip \in Ips,
         NEW adm \in Admissions, NEW t \in Nat
  PROVE  EffectsOK(NewRoom(s, h, v, ip, adm, t).eff)
<1> DEFINE r == NewRoom(s, h, v, ip, adm, t).room
<1>1. r \in Rooms
  BY Zenon, NewRoomOK DEF RoomOK
<1>2. NewRoom(s, h, v, ip, adm, t).eff
        = Effects(Reply("created"), AppendHostTransferEligibility(r), {}, TRUE, 1)
  BY Zenon DEF NewRoom
<1> HIDE DEF r
<1>3. Listed(AppendHostTransferEligibility(r))
  BY Zenon, <1>1, RoomBroadcasts
<1> QED
  BY Zenon, <1>2, <1>3, EffectsType

\* reconnect_host
LEMMA ReconnectHostEffects ==
  ASSUME NEW r \in Rooms, NEW adm \in Admissions
  PROVE  EffectsOK(ReconnectHost(r, adm).eff)
<1> DEFINE h == r.host_peer_id
           s == Admit(r, h, adm)
           joined == IF r.peers[h] = None THEN BroadcastExcept(s, h, PeerJoined(h)) ELSE <<>>
<1>1. h \in PeerIds /\ r.next_conn_id \in Nat
  BY Zenon DEF Rooms
<1>2. s \in Rooms
  BY Zenon, <1>1, AdmitFields
<1>3. ReconnectHost(r, adm).eff
        = Effects(Reply("created"), joined \o AppendHostTransferEligibility(s),
                  Replaced(r, h), TRUE, r.next_conn_id)
  BY Zenon DEF ReconnectHost
<1> HIDE DEF h, s
<1>4. Listed(joined) /\ Listed(AppendHostTransferEligibility(s))
  BY Zenon, <1>2, RoomBroadcasts, ListedNone
<1> HIDE DEF joined
<1>5. Listed(joined \o AppendHostTransferEligibility(s))
  BY Zenon, <1>4, ListedBoth
<1>6. Replaced(r, h) \subseteq ConnectedPeers
  BY Zenon, <1>1, ReplacedType
<1> QED
  BY Zenon, <1>1, <1>3, <1>5, <1>6, EffectsType

\* join_or_resume
LEMMA JoinEffects ==
  ASSUME NEW r, RoomOK(r), NEW p \in PeerIds, NEW token, NEW adm \in Admissions,
         NEW resume_only \in BOOLEAN, NEW t \in Nat
  PROVE  EffectsOK(JoinOrResume(r, p, token, adm, resume_only, t).eff)
<1> DEFINE q == PruneExpiredReservations(r, t)
           v == FromToken(token)
           s == Enter(q, p, v, adm, t)
           b == BroadcastExcept(s, p, PeerJoined(p)) \o AppendHostTransferEligibility(s)
<1>1. RoomOK(q)
  BY Zenon, PruneOK
<1>2. q \in Rooms /\ q.next_conn_id \in Nat
  BY Zenon, <1>1 DEF RoomOK, Rooms
<1>3. Replaced(q, p) \subseteq ConnectedPeers
  BY Zenon, <1>2, ReplacedType
<1>4. Authorized(q, p, v, resume_only) => v \in Verifiers
  BY Zenon, TokenType DEF Authorized
<1>5. Authorized(q, p, v, resume_only) /\ ~RoomFull(q, p) => s \in Rooms
  BY Zenon, <1>1, <1>4, EnterOK DEF RoomOK
<1> HIDE DEF q, s, v
<1>6. Authorized(q, p, v, resume_only) /\ ~RoomFull(q, p) => Listed(b)
  BY Zenon, <1>5, RoomBroadcasts, ListedBoth
<1> HIDE DEF b
<1>7. Authorized(q, p, v, resume_only) /\ ~RoomFull(q, p)
        => EffectsOK(Effects(Reply(IF resume_only THEN "resumed" ELSE "joined"), b,
                             Replaced(q, p), TRUE, q.next_conn_id))
  BY Zenon, <1>2, <1>3, <1>6, EffectsType
<1>8. JoinOrResume(r, p, token, adm, resume_only, t).eff
        \in {Error("room_not_found"), Error("peer_id_unavailable"), Error("room_full")}
      \/ /\ Authorized(q, p, v, resume_only) /\ ~RoomFull(q, p)
         /\ JoinOrResume(r, p, token, adm, resume_only, t).eff
              = Effects(Reply(IF resume_only THEN "resumed" ELSE "joined"), b,
                        Replaced(q, p), TRUE, q.next_conn_id)
  BY Zenon DEF JoinOrResume, q, v, s, b
<1> QED
  BY Zenon, <1>7, <1>8, PlainEffects

\* finish_leave
LEMMA FinishLeaveEffects ==
  ASSUME NEW r, RoomOK(r), NEW p \in PeerIds, NEW k, NEW persisted \in BOOLEAN,
         NEW t \in Nat
  PROVE  EffectsOK(FinishLeave(r, p, k, persisted, t).eff)
<1> DEFINE s == [r EXCEPT !.peers[p] = None, !.reservations[p] = None,
                          !.last_activity_at = t]
           b == BroadcastExcept(s, p, PeerLeft(p)) \o AppendHostTransferEligibility(s)
<1>1. s \in Rooms
  BY Zenon DEF RoomOK, Rooms
<1> HIDE DEF s
<1>2. Listed(b)
  BY Zenon, <1>1, RoomBroadcasts, ListedBoth
<1> HIDE DEF b
<1>3. EffectsOK(Effects(Reply("left"), b, {}, TRUE, None))
  BY Zenon, <1>2, EffectsType
<1>4. FinishLeave(r, p, k, persisted, t).eff
        \in {NoEffects, Error("invalid_message"), Effects(Reply("left"), b, {}, TRUE, None)}
  BY Zenon DEF FinishLeave, s, b
<1> QED
  BY Zenon, <1>3, <1>4, PlainEffects

\* finish_end_session
LEMMA FinishEndEffects ==
  ASSUME NEW r \in Rooms, NEW g, g \subseteq ConnectedPeers, NEW persisted \in BOOLEAN
  PROVE  EffectsOK(FinishEndSession(r, g, persisted).eff)
<1> DEFINE ev == {r.peers[q] : q \in Connected(r)}
           b == <<[to |-> g, msg |-> [type |-> "ended"]]>>
           err == Error("invalid_message")
<1>1. ev \subseteq ConnectedPeers
  BY Zenon, EntriesType
<1>2. Listed(b)
  BY Zenon, ListedOne
<1>3. FinishEndSession(r, g, persisted).eff
        = IF persisted THEN Effects(Reply("ended"), b, ev, FALSE, None)
          ELSE [err EXCEPT !.evict = ev]
  BY Zenon DEF FinishEndSession
<1> HIDE DEF ev, b
<1>4. EffectsOK(Effects(Reply("ended"), b, ev, FALSE, None))
  BY Zenon, <1>1, <1>2, EffectsType
<1>5. EffectsOK([err EXCEPT !.evict = ev])
  BY Zenon, <1>1, ListedNone DEF EffectsOK, Error, Effects
<1> QED
  BY Zenon, <1>3, <1>4, <1>5

\* transfer_host
LEMMA TransferEffects ==
  ASSUME NEW r, RoomOK(r), NEW p, NEW k, NEW version_ok \in BOOLEAN,
         NEW target \in PeerIds
  PROVE  EffectsOK(TransferHost(r, p, k, version_ok, target).eff)
<1> DEFINE s == SwapHost(r, target)
           code == TransferError(r, p, k, version_ok, target)
           changed == [type |-> "hostChanged", host_peer_id |-> target, from |-> p]
           b == BroadcastAll(s, changed) \o AppendHostTransferEligibility(s)
           res == TransferHost(r, p, k, version_ok, target)
<1>1. RoomOK(res.room)
  BY Zenon, TransferHostOK
<1>2. code = None => res.room = s /\ res.eff = Effects(None, b, {}, TRUE, None)
  BY Zenon DEF TransferHost
<1>3. code # None => res.eff = Error(code)
  BY Zenon DEF TransferHost
<1> HIDE DEF s, code, res, changed
<1>4. code = None => Listed(b)
  BY Zenon, <1>1, <1>2, RoomBroadcasts, ListedBoth DEF RoomOK
<1> HIDE DEF b
<1>5. code = None => EffectsOK(Effects(None, b, {}, TRUE, None))
  BY Zenon, <1>4, EffectsType
<1> QED
  BY Zenon, <1>2, <1>3, <1>5, PlainEffects DEF res

\* broadcast and send_to
LEMMA TrafficEffects ==
  ASSUME NEW r \in Rooms, NEW p, NEW k, NEW target \in PeerIds, NEW t \in Nat
  PROVE  EffectsOK(Broadcast(r, p, k, t).eff) /\ EffectsOK(SendTo(r, p, k, target, t).eff)
<1> DEFINE b == BroadcastExcept(r, p, Message(p))
           one == <<[to |-> {r.peers[target]}, msg |-> Message(p)]>>
<1>1. Listed(b)
  BY Zenon, RoomBroadcasts
<1>2. r.peers[target] # None => Listed(one)
  <2>1. r.peers[target] # None => {r.peers[target]} \subseteq ConnectedPeers
    BY Zenon DEF Rooms
  <2> QED BY Zenon, <2>1, ListedOne
<1>3. Broadcast(r, p, k, t).eff \in {NoEffects, [NoEffects EXCEPT !.broadcast = b]}
  BY Zenon DEF Broadcast
<1>4. SendTo(r, p, k, target, t).eff \in {NoEffects, Error("not_in_room")}
      \/ /\ r.peers[target] # None
         /\ SendTo(r, p, k, target, t).eff = [NoEffects EXCEPT !.broadcast = one]
  BY Zenon DEF SendTo
<1> HIDE DEF b, one
<1>5. ASSUME NEW l, Listed(l) PROVE EffectsOK([NoEffects EXCEPT !.broadcast = l])
  BY Zenon, <1>5 DEF EffectsOK, NoEffects, Effects
<1> QED
  BY Zenon, <1>1, <1>2, <1>3, <1>4, <1>5, PlainEffects

\* handle_disconnect
LEMMA DisconnectEffects ==
  ASSUME NEW r, RoomOK(r), NEW p \in PeerIds, NEW k, NEW t \in Nat
  PROVE  EffectsOK(HandleDisconnect(r, p, k, t).eff)
<1> DEFINE s == Vacate(r, p, t)
           b == BroadcastExcept(s, p, PeerLeft(p)) \o AppendHostTransferEligibility(s)
<1>1. s \in Rooms
  BY Zenon, VacateFields DEF RoomOK
<1>2. HandleDisconnect(r, p, k, t).eff \in {NoEffects, Effects(None, b, {}, TRUE, None)}
  BY Zenon DEF HandleDisconnect
<1> HIDE DEF s
<1>3. Listed(b)
  BY Zenon, <1>1, RoomBroadcasts, ListedBoth
<1> HIDE DEF b
<1>4. EffectsOK(Effects(None, b, {}, TRUE, None))
  BY Zenon, <1>3, EffectsType
<1> QED
  BY Zenon, <1>2, <1>4, PlainEffects
-----------------------------------------------------------------------------
(* The inductive invariant *)

TypeInv ==
  /\ room = None \/ RoomOK(room)
  /\ seat \in [Conns -> [peer_id : PeerIds, conn_id : Nat] \cup {None}]
  /\ pc \in [Conns -> Steps]
  /\ handled \in [Conns -> Nat]
  /\ evict \in [Conns -> SUBSET Nat]
  /\ open \in [Conns -> BOOLEAN]
  /\ guests \subseteq ConnectedPeers /\ cancelled \subseteq Nat
  /\ DOMAIN pending = Conns /\ DOMAIN outbox = Conns /\ DOMAIN wire = Conns

\* Where a handler is, and what it may have in hand there.
PlaceOK(c) ==
  /\ pc[c] \in {"applying", "closing"} \/ pending[c] = {}
  /\ pc[c] \in {"closing", "gone"} \/ handled[c] <= MaxRequests[c]
  /\ handled[c] <= MaxRequests[c] + 1
  /\ seat[c] # None => room # None
  /\ pc[c] \in {"leaving", "ending"} => seat[c] # None /\ handled[c] >= 1

\* A send that is still to be done belongs to the message being handled.
DueOK(c, s) ==
  /\ s.to.conn \in Conns
  /\ s.frame.by = c /\ s.frame.n = handled[c] /\ handled[c] >= 1 /\ s.frame.i \in Nat

\* A frame in a channel, or past it, comes before everything its sender has
\* still to send.
FlightOK(f) ==
  /\ f.by \in Conns /\ f.n \in 1..handled[f.by] /\ f.i \in Nat
  /\ pc[f.by] \in {"leaving", "ending"} => f.n < handled[f.by]
  /\ \A s \in pending[f.by] : Ordered(f, s.frame)

\* The frames of each sender are in order in a queue.
InOrder(q) ==
  \A j \in 1..Len(q) : \A i \in 1..(j - 1) : q[i].by = q[j].by => Ordered(q[i], q[j])

\* Those in the first queue come before those in the second.
Precedes(q, q2) ==
  \A i \in 1..Len(q), j \in 1..Len(q2) : q[i].by = q2[j].by => Ordered(q[i], q2[j])

QueueOK(d) ==
  /\ IsSeq(outbox[d]) /\ IsSeq(wire[d])
  /\ Len(outbox[d]) <= OUTBOUND_CHANNEL_CAPACITY
  /\ InOrder(outbox[d]) /\ InOrder(wire[d]) /\ Precedes(wire[d], outbox[d])

InFlight(d) == Range(outbox[d]) \cup Range(wire[d])

IndInv ==
  /\ TypeInv
  /\ \A c \in Conns : PlaceOK(c) /\ QueueOK(c)
  /\ \A c \in Conns : \A s \in pending[c] : DueOK(c, s)
  /\ \A d \in Conns : \A f \in InFlight(d) : FlightOK(f)

\* No step loses a frame but the one on whose channel there is no place.
NoLoss == \A d \in Conns : Accepts(d) => Owed(d) \subseteq Owed(d)'

\* The initial state.
LEMMA InitInv == Init => IndInv
<1> SUFFICES ASSUME Init PROVE IndInv
  BY Zenon
<1>1. IsSeq(<<>>) /\ Len(<<>>) = 0 /\ Range(<<>>) = {}
  <2>1. <<>> \in Seq({})
    OBVIOUS
  <2> QED BY <2>1 DEF IsSeq, Range
<1>2. TypeInv
  BY Zenon DEF Init, TypeInv, Steps
<1>3. ASSUME NEW c \in Conns PROVE PlaceOK(c) /\ QueueOK(c) /\ pending[c] = {} /\ InFlight(c) = {}
  <2>1. outbox[c] = <<>> /\ wire[c] = <<>> /\ pending[c] = {} /\ handled[c] = 0
        /\ pc[c] = "reading" /\ seat[c] = None
    BY Zenon DEF Init
  <2>2. QueueOK(c)
    BY <1>1, <2>1, DeliveryConstants DEF QueueOK, InOrder, Precedes
  <2>3. PlaceOK(c)
    BY <2>1, DeliveryConstants DEF PlaceOK
  <2> QED BY Zenon, <1>1, <2>1, <2>2, <2>3 DEF InFlight
<1> QED
  BY Zenon, <1>2, <1>3 DEF IndInv
-----------------------------------------------------------------------------
(* A method returns *)

\* The sends a method asks for go to connections and carry its message's number.
LEMMA SendsType ==
  ASSUME NEW c \in Conns, NEW eff, EffectsOK(eff), NEW s \in Sends(c, eff)
  PROVE  /\ s.to.conn \in Conns
         /\ s.frame.by = c /\ s.frame.n = handled'[c] /\ s.frame.i \in Nat
<1>1. CASE \E msg \in {eff.reply} \ {None} : s = Send(c, [conn |-> c], 0, msg)
  BY <1>1 DEF Send
<1>2. CASE \E i \in DOMAIN eff.broadcast : \E e \in eff.broadcast[i].to :
             s = Send(c, e, i, eff.broadcast[i].msg)
  <2>0. PICK i \in DOMAIN eff.broadcast :
               \E e \in eff.broadcast[i].to : s = Send(c, e, i, eff.broadcast[i].msg)
    BY Zenon, <1>2
  <2>1. PICK e \in eff.broadcast[i].to : s = Send(c, e, i, eff.broadcast[i].msg)
    BY Zenon, <2>0
  <2>2. IsSeq(eff.broadcast) /\ e \in ConnectedPeers
    BY Zenon DEF EffectsOK, Listed
  <2>3. i \in Nat /\ e.conn \in Conns
    BY <2>2, SeqDomain DEF ConnectedPeers
  <2> QED BY Zenon, <2>1, <2>3 DEF Send
<1> QED
  BY Zenon, <1>1, <1>2 DEF Sends

\* A handler that has just run a method: it was reading and has handled one
\* message more, or it was waiting for the snapshotter.
Turn(c, then) ==
  \/ /\ Handles(c) /\ pc[c] = "reading"
     /\ then = "closing" \/ handled[c] < MaxRequests[c]
  \/ UNCHANGED handled /\ pc[c] \in {"leaving", "ending"} /\ then = "applying"

\* What a method may do to the seats.
Seating(c, then) ==
  /\ seat' \in [Conns -> [peer_id : PeerIds, conn_id : Nat] \cup {None}]
  /\ \A d \in Conns : seat'[d] # None => room' # None
  /\ \A d \in Conns \ {c} : seat'[d] = seat[d]
  /\ then \in {"leaving", "ending"} => seat'[c] # None

\* The numbers and the places of the handlers when c takes its turn.
LEMMA TurnPlaces ==
  ASSUME IndInv, NEW c \in Conns,
         NEW then \in {"applying", "closing", "leaving", "ending"},
         Turn(c, then), pc' = [pc EXCEPT ![c] = then]
  PROVE  /\ pending[c] = {}
         /\ handled' \in [Conns -> Nat] /\ pc' \in [Conns -> Steps]
         /\ \A d \in Conns \ {c} : handled'[d] = handled[d] /\ pc'[d] = pc[d]
         /\ pc'[c] = then /\ handled'[c] >= 1 /\ handled'[c] <= MaxRequests[c] + 1
         /\ then = "closing" \/ handled'[c] <= MaxRequests[c]
         /\ handled[c] <= handled'[c]
         /\ handled'[c] = handled[c] => pc[c] \in {"leaving", "ending"}
<1>1. PlaceOK(c) /\ handled \in [Conns -> Nat] /\ pc \in [Conns -> Steps]
  BY Zenon DEF IndInv, TypeInv
<1>2. MaxRequests[c] \in Nat /\ handled[c] \in Nat
  BY Zenon, <1>1, DeliveryConstants
<1>3. pc' \in [Conns -> Steps] /\ pc'[c] = then /\ \A d \in Conns \ {c} : pc'[d] = pc[d]
  BY Zenon, <1>1 DEF Steps
<1>4. CASE Handles(c) /\ pc[c] = "reading" /\ (then = "closing" \/ handled[c] < MaxRequests[c])
  <2>1. /\ handled' \in [Conns -> Nat] /\ handled'[c] = handled[c] + 1
        /\ \A d \in Conns \ {c} : handled'[d] = handled[d]
    BY <1>1, <1>4 DEF Handles
  <2>2. pending[c] = {} /\ handled[c] <= MaxRequests[c]
    BY Zenon, <1>1, <1>4 DEF PlaceOK
  <2> QED BY <1>2, <1>3, <1>4, <2>1, <2>2
<1>5. CASE UNCHANGED handled /\ pc[c] \in {"leaving", "ending"} /\ then = "applying"
  <2>1. pending[c] = {} /\ handled[c] <= MaxRequests[c] /\ handled[c] >= 1
    BY Zenon, <1>1, <1>5 DEF PlaceOK
  <2> QED BY <1>1, <1>2, <1>3, <1>5, <2>1
<1> QED
  BY Zenon, <1>4, <1>5 DEF Turn

\* The new sends of c are sends of the message it handles.
Queues(c, new) ==
  /\ DOMAIN pending' = Conns /\ pending'[c] = new
  /\ \A d \in Conns \ {c} : pending'[d] = pending[d]
  /\ \A s \in new : /\ s.to.conn \in Conns
                   /\ s.frame.by = c /\ s.frame.n = handled'[c] /\ s.frame.i \in Nat

\* A handler that takes its turn queues its sends behind everything its
\* connection has in flight, and takes nothing back.
LEMMA TurnStep ==
  ASSUME IndInv, NEW c \in Conns,
         NEW then \in {"applying", "closing", "leaving", "ending"},
         Turn(c, then), Seating(c, then), pc' = [pc EXCEPT ![c] = then],
         room' = None \/ RoomOK(room'), guests' \subseteq ConnectedPeers,
         evict' \in [Conns -> SUBSET Nat], UNCHANGED <<cancelled, outbox, open, wire>>,
         NEW new, Queues(c, new), then \in {"leaving", "ending"} => new = {}
  PROVE  IndInv' /\ NoLoss
<1>1. cancelled' = cancelled /\ outbox' = outbox /\ open' = open /\ wire' = wire
  BY Zenon
<1>2. /\ pending[c] = {}
      /\ handled' \in [Conns -> Nat] /\ pc' \in [Conns -> Steps]
      /\ \A d \in Conns \ {c} : handled'[d] = handled[d] /\ pc'[d] = pc[d]
      /\ pc'[c] = then /\ handled'[c] >= 1 /\ handled'[c] <= MaxRequests[c] + 1
      /\ then = "closing" \/ handled'[c] <= MaxRequests[c]
      /\ handled[c] <= handled'[c]
      /\ handled'[c] = handled[c] => pc[c] \in {"leaving", "ending"}
  BY Zenon, <1>1, TurnPlaces
<1>3. /\ TypeInv /\ DOMAIN pending' = Conns /\ pending'[c] = new
      /\ \A d \in Conns \ {c} : pending'[d] = pending[d]
  BY Zenon DEF IndInv, Queues
<1>4. \A s \in new : /\ s.to.conn \in Conns
                     /\ s.frame.by = c /\ s.frame.n = handled'[c] /\ s.frame.i \in Nat
  BY Zenon DEF Queues
<1>6. TypeInv'
  BY Zenon, <1>1, <1>2, <1>3 DEF TypeInv, Seating
<1>7. ASSUME NEW d \in Conns PROVE PlaceOK(d)' /\ QueueOK(d)'
  <2>1. QueueOK(d)'
    BY Zenon, <1>1 DEF IndInv, QueueOK
  <2>2. CASE d = c
    BY Zenon, <1>2, <1>3, <2>1, <2>2 DEF PlaceOK, Seating
  <2>3. CASE d # c
    <3>1. PlaceOK(d)
      BY Zenon DEF IndInv
    <3>2. /\ handled'[d] = handled[d] /\ pc'[d] = pc[d] /\ pending'[d] = pending[d]
          /\ seat'[d] = seat[d] /\ (seat'[d] # None => room' # None)
      BY Zenon, <1>2, <1>3, <2>3 DEF Seating
    <3> QED BY Zenon, <2>1, <3>1, <3>2 DEF PlaceOK
  <2> QED BY Zenon, <2>2, <2>3
<1>8. ASSUME NEW d \in Conns, NEW s \in pending'[d] PROVE DueOK(d, s)'
  <2>1. CASE d = c
    BY Zenon, <1>2, <1>3, <1>4, <1>8, <2>1 DEF DueOK
  <2>2. CASE d # c
    <3>1. DueOK(d, s) /\ handled'[d] = handled[d]
      BY Zenon, <1>2, <1>3, <1>8, <2>2 DEF IndInv
    <3> QED BY Zenon, <3>1 DEF DueOK
  <2> QED BY Zenon, <2>1, <2>2
<1>9. ASSUME NEW d \in Conns, NEW f \in InFlight(d)' PROVE FlightOK(f)'
  <2>1. FlightOK(f)
    BY Zenon, <1>1, <1>9 DEF IndInv, InFlight
  <2>2. f.by \in Conns /\ f.n \in 1..handled[f.by] /\ f.i \in Nat
    BY Zenon, <2>1 DEF FlightOK
  <2>3. CASE f.by # c
    <3>1. handled'[f.by] = handled[f.by] /\ pc'[f.by] = pc[f.by]
          /\ pending'[f.by] = pending[f.by]
      BY Zenon, <1>2, <1>3, <2>2, <2>3
    <3> QED BY Zenon, <2>1, <3>1 DEF FlightOK
  <2>4. CASE f.by = c
    <3>1. handled[c] \in Nat /\ handled'[c] \in Nat
      BY Zenon, <1>2, <1>3 DEF TypeInv
    <3>2. f.n < handled'[c]
      BY <1>2, <2>1, <2>2, <2>4, <3>1 DEF FlightOK
    <3>3. \A s \in new : Ordered(f, s.frame)
      BY Zenon, <1>4, <3>2 DEF Ordered
    <3> QED BY <1>3, <2>2, <2>4, <3>1, <3>2, <3>3 DEF FlightOK
  <2> QED BY Zenon, <2>3, <2>4
<1>10. NoLoss
  <2> SUFFICES ASSUME NEW d \in Conns, NEW f \in Owed(d) PROVE f \in Owed(d)'
    BY Zenon DEF NoLoss
  <2>1. CASE f \in Range(outbox[d]) \cup Range(wire[d])
    BY Zenon, <1>1, <2>1 DEF Owed
  <2>2. CASE \E b \in Conns : \E s \in pending[b] : s.to.conn = d /\ f = s.frame
    <3>0. PICK b \in Conns : \E s \in pending[b] : s.to.conn = d /\ f = s.frame
      BY Zenon, <2>2
    <3>1. PICK s \in pending[b] : s.to.conn = d /\ f = s.frame
      BY Zenon, <3>0
    <3>2. s \in pending'[b]
      BY Zenon, <1>2, <1>3, <3>1
    <3> QED BY <3>1, <3>2 DEF Owed
  <2> QED BY <2>1, <2>2 DEF Owed
<1> QED
  BY Zenon, <1>6, <1>7, <1>8, <1>9, <1>10 DEF IndInv

\* A method has returned.
LEMMA ReturnedStep ==
  ASSUME IndInv, NEW c \in Conns, NEW res, NEW then \in {"applying", "closing", "leaving"},
         Returned(c, res, then), Turn(c, then), Seating(c, then),
         res.room = None \/ RoomOK(res.room), EffectsOK(res.eff),
         then = "leaving" => Sends(c, res.eff) = {}
  PROVE  IndInv' /\ NoLoss
<1> DEFINE new == Sends(c, res.eff)
<1>1. /\ room' = res.room /\ pending' = [pending EXCEPT ![c] = new]
      /\ evict' = [evict EXCEPT ![c] = {e.conn_id : e \in res.eff.evict}]
      /\ pc' = [pc EXCEPT ![c] = then]
      /\ guests' = guests /\ UNCHANGED <<cancelled, outbox, open, wire>>
  BY Zenon DEF Returned
<1>2. \A s \in new : /\ s.to.conn \in Conns
                     /\ s.frame.by = c /\ s.frame.n = handled'[c] /\ s.frame.i \in Nat
  BY Zenon, SendsType
<1>6. Queues(c, new)
  BY Zenon, <1>1, <1>2 DEF Queues, IndInv, TypeInv
<1>3. evict' \in [Conns -> SUBSET Nat] /\ guests' \subseteq ConnectedPeers
  <2>1. {e.conn_id : e \in res.eff.evict} \subseteq Nat
    BY Zenon DEF EffectsOK, ConnectedPeers
  <2> QED BY Zenon, <1>1, <2>1 DEF IndInv, TypeInv
<1>4. room' = None \/ RoomOK(room')
  BY Zenon, <1>1
<1>5. then \in {"leaving", "ending"} => new = {}
  BY Zenon
<1> HIDE DEF new
<1>7. /\ pc' = [pc EXCEPT ![c] = then] /\ UNCHANGED <<cancelled, outbox, open, wire>>
      /\ then \in {"applying", "closing", "leaving", "ending"}
  BY Zenon, <1>1
<1> QED
  BY Zenon, <1>3, <1>4, <1>5, <1>6, <1>7, TurnStep

\* A message that is read is the turn of its handler.
LEMMA ReadsTurn ==
  ASSUME NEW c \in Conns, NEW then, Reads(c), Handles(c)
  PROVE  Turn(c, then)
BY Zenon DEF Reads, Turn

\* A method that leaves every seat alone, or clears its own.
LEMMA SeatsKept ==
  ASSUME IndInv, NEW c \in Conns, NEW then, seat' = seat \/ seat' = [seat EXCEPT ![c] = None],
         room # None => room' # None,
         then \in {"leaving", "ending"} => seat'[c] # None
  PROVE  Seating(c, then)
<1>1. TypeInv /\ \A d \in Conns : PlaceOK(d)
  BY Zenon DEF IndInv
<1>2. \A d \in Conns : seat[d] # None => room # None
  BY Zenon, <1>1 DEF PlaceOK
<1> QED
  BY Zenon, <1>1, <1>2 DEF TypeInv, Seating

\* The room of a connection that has a seat, and that seat.
LEMMA SeatedRoom ==
  ASSUME IndInv, NEW c \in Conns, seat[c] # None
  PROVE  /\ RoomOK(room) /\ room # None
         /\ seat[c].peer_id \in PeerIds /\ seat[c].conn_id \in Nat
BY Zenon DEF IndInv, TypeInv, PlaceOK

\* A room is not None.
LEMMA RoomIsSome ==
  ASSUME NEW r, RoomOK(r)
  PROVE  r # None
BY Zenon, DeliveryConstants DEF RoomOK
-----------------------------------------------------------------------------
(* The messages *)

\* A message that is only answered.
LEMMA AnswerStep ==
  ASSUME IndInv, NEW c \in Conns, Answer(c)
  PROVE  IndInv' /\ NoLoss
<1> DEFINE res == [room |-> room, eff |-> Error("invalid_message")]
<1>1. /\ Returned(c, res, "applying") /\ Turn(c, "applying") /\ seat' = seat
      /\ res.room = room /\ res.eff = Error("invalid_message")
  BY Zenon, ReadsTurn DEF Answer
<1>2. room' = room /\ (res.room = None \/ RoomOK(res.room))
  BY Zenon, <1>1 DEF Returned, IndInv, TypeInv
<1>3. EffectsOK(res.eff)
  BY Zenon, <1>1, PlainEffects
<1> HIDE DEF res
<1>4. Seating(c, "applying")
  BY <1>1, <1>2, SeatsKept
<1> QED
  BY Zenon, <1>1, <1>2, <1>3, <1>4, ReturnedStep

\* The admission of a client is an Admission.
LEMMA AdmissionType ==
  ASSUME NEW c \in Conns, NEW meta \in Metas
  PROVE  Admission(c, meta) \in Admissions
BY Zenon, DeliveryConstants DEF Admission, Admissions

\* The answer to create, join or resume may assign a seat in the room.
LEMMA SeatedSeats ==
  ASSUME IndInv, NEW c \in Conns, NEW p \in PeerIds, NEW eff, EffectsOK(eff),
         Seated(c, p, eff), room' # None
  PROVE  Seating(c, "applying")
<1>1. seat \in [Conns -> [peer_id : PeerIds, conn_id : Nat] \cup {None}]
  BY Zenon DEF IndInv, TypeInv
<1>2. CASE eff.assigned_conn_id = None
  BY Zenon, <1>1, <1>2 DEF Seated, Seating
<1>3. CASE eff.assigned_conn_id \in Nat
  BY Zenon, <1>1, <1>3, NoneIsNoValue DEF Seated, Seating
<1> QED
  BY Zenon, <1>2, <1>3 DEF EffectsOK

\* create
LEMMA CreateStep ==
  ASSUME IndInv, NEW c \in Conns, NEW p \in PeerIds, NEW token \in Tokens,
         NEW meta \in Metas, Create(c, p, token, meta)
  PROVE  IndInv' /\ NoLoss
<1> DEFINE adm == Admission(c, meta)
           s0 == CHOOSE s \in Sessions : TRUE
           i0 == CHOOSE i \in Ips : TRUE
           new == NewRoom(s0, p, FromToken(token), i0, adm, 0)
           res == IF room # None THEN ReconnectHost(room, adm) ELSE new
<1>1. /\ Returned(c, res, "applying") /\ Seated(c, p, res.eff) /\ Turn(c, "applying")
  BY Zenon, ReadsTurn DEF Create
<1>2. adm \in Admissions /\ s0 \in Sessions /\ i0 \in Ips /\ FromToken(token) \in Verifiers
  BY Zenon, AdmissionType, DeliveryConstants DEF FromToken, Verifiers
<1> HIDE DEF adm, s0, i0
<1>3. RoomOK(res.room) /\ EffectsOK(res.eff)
  <2>1. CASE room # None
    <3>1. RoomOK(room) /\ room \in Rooms
      BY Zenon, <2>1 DEF IndInv, TypeInv, RoomOK
    <3> QED BY Zenon, <1>2, <2>1, <3>1, ReconnectHostOK, ReconnectHostEffects
  <2>2. CASE room = None
    <3>1. RoomOK(new.room) /\ EffectsOK(new.eff)
      BY Zenon, <1>2, NewRoomOK, NewRoomEffects
    <3> QED BY Zenon, <2>2, <3>1
  <2> QED BY Zenon, <2>1, <2>2
<1> HIDE DEF res
<1>4. room' = res.room /\ room' # None
  BY Zenon, <1>1, <1>3, RoomIsSome DEF Returned
<1>5. Seating(c, "applying")
  BY Zenon, <1>1, <1>3, <1>4, SeatedSeats
<1> QED
  BY Zenon, <1>1, <1>3, <1>5, ReturnedStep

\* join and resume
LEMMA JoinStep ==
  ASSUME IndInv, NEW c \in Conns, NEW p \in PeerIds, NEW token \in Tokens,
         NEW meta \in Metas, NEW resume_only \in BOOLEAN,
         Join(c, p, token, meta, resume_only)
  PROVE  IndInv' /\ NoLoss
<1> DEFINE adm == Admission(c, meta)
           res == JoinOrResume(room, p, token, adm, resume_only, 0)
<1>1. /\ Returned(c, res, "applying") /\ Seated(c, p, res.eff) /\ Turn(c, "applying")
      /\ room # None
  BY Zenon, ReadsTurn DEF Join
<1>2. adm \in Admissions /\ RoomOK(room) /\ 0 \in Nat
  BY Zenon, <1>1, AdmissionType DEF IndInv, TypeInv
<1> HIDE DEF adm
<1>3. RoomOK(res.room) /\ EffectsOK(res.eff)
  BY Zenon, <1>2, JoinOrResumeOK, JoinEffects
<1> HIDE DEF res
<1>4. room' # None
  BY Zenon, <1>1, <1>3, RoomIsSome DEF Returned
<1>5. Seating(c, "applying")
  BY Zenon, <1>1, <1>3, <1>4, SeatedSeats
<1> QED
  BY Zenon, <1>1, <1>3, <1>5, ReturnedStep

\* A method called by a connection in the room, which keeps its seat or gives
\* it up.
LEMMA MethodStep ==
  ASSUME IndInv, NEW c \in Conns, NEW res, NEW then \in {"applying", "closing", "leaving"},
         Returned(c, res, then), Turn(c, then), RoomOK(res.room), EffectsOK(res.eff),
         seat' = seat \/ seat' = [seat EXCEPT ![c] = None],
         then = "leaving" => seat'[c] # None /\ Sends(c, res.eff) = {}
  PROVE  IndInv' /\ NoLoss
<1>1. room' # None
  BY Zenon, RoomIsSome DEF Returned
<1>2. Seating(c, then)
  BY Zenon, <1>1, SeatsKept
<1> QED
  BY Zenon, <1>2, ReturnedStep

\* transferHost, broadcast and sendTo
LEMMA CallStep ==
  ASSUME IndInv, NEW c \in Conns, NEW target \in PeerIds, Call(c, target)
  PROVE  IndInv' /\ NoLoss
<1> DEFINE p == seat[c].peer_id
           k == seat[c].conn_id
<1>1. seat[c] # None /\ seat' = seat /\ Turn(c, "applying")
  BY Zenon, ReadsTurn DEF Call
<1>2. RoomOK(room) /\ room \in Rooms /\ p \in PeerIds /\ 0 \in Nat /\ TRUE \in BOOLEAN
  BY Zenon, <1>1, SeatedRoom DEF RoomOK
<1>3. PICK res \in {TransferHost(room, p, k, TRUE, target), Broadcast(room, p, k, 0),
                    SendTo(room, p, k, target, 0)} : Returned(c, res, "applying")
  BY Zenon DEF Call
<1> HIDE DEF p, k
<1>4. RoomOK(res.room) /\ EffectsOK(res.eff)
  <2>1. CASE res = TransferHost(room, p, k, TRUE, target)
    BY Zenon, <1>2, <2>1, TransferHostOK, TransferEffects
  <2>2. CASE res = Broadcast(room, p, k, 0)
    BY Zenon, <1>2, <2>2, BroadcastOK, TrafficEffects
  <2>3. CASE res = SendTo(room, p, k, target, 0)
    BY Zenon, <1>2, <2>3, SendToOK, TrafficEffects
  <2> QED BY Zenon, <1>3, <2>1, <2>2, <2>3
<1> QED
  BY Zenon, <1>1, <1>3, <1>4, MethodStep

\* leave, up to the snapshotter
LEMMA LeaveBeginStep ==
  ASSUME IndInv, NEW c \in Conns, NEW token \in Tokens, LeaveBegin(c, token)
  PROVE  IndInv' /\ NoLoss
<1> DEFINE p == seat[c].peer_id
           res == [room |-> BeginLeave(room, p), eff |-> NoEffects]
<1>1. /\ seat[c] # None /\ seat' = seat /\ Turn(c, "leaving")
      /\ Returned(c, res, "leaving") /\ room.reservations[p] # None
  BY Zenon, ReadsTurn DEF LeaveBegin, MayBeginLeave
<1>2. RoomOK(room) /\ p \in PeerIds
  BY Zenon, <1>1, SeatedRoom
<1>3. RoomOK(res.room) /\ EffectsOK(res.eff)
  BY Zenon, <1>1, <1>2, BeginLeaveOK, PlainEffects
<1>4. Sends(c, res.eff) = {}
  BY DEF Sends, NoEffects, Effects
<1> HIDE DEF res
<1> QED
  BY Zenon, <1>1, <1>3, <1>4, MethodStep

\* leave, after the snapshotter
LEMMA LeaveFinishStep ==
  ASSUME IndInv, NEW c \in Conns, NEW persisted \in BOOLEAN, LeaveFinish(c, persisted)
  PROVE  IndInv' /\ NoLoss
<1> DEFINE p == seat[c].peer_id
           k == seat[c].conn_id
           res == FinishLeave(room, p, k, persisted, 0)
<1>1. /\ pc[c] = "leaving" /\ UNCHANGED handled /\ Returned(c, res, "applying")
      /\ seat' = seat \/ seat' = [seat EXCEPT ![c] = None]
  BY Zenon DEF LeaveFinish
<1>2. seat[c] # None /\ Turn(c, "applying")
  BY Zenon, <1>1 DEF IndInv, PlaceOK, Turn
<1>3. RoomOK(room) /\ p \in PeerIds /\ 0 \in Nat
  BY Zenon, <1>2, SeatedRoom
<1> HIDE DEF p, k
<1>4. RoomOK(res.room) /\ EffectsOK(res.eff)
  BY Zenon, <1>3, FinishLeaveOK, FinishLeaveEffects
<1> HIDE DEF res
<1> QED
  BY Zenon, <1>1, <1>2, <1>4, MethodStep

\* endSession, after the snapshotter
LEMMA EndFinishStep ==
  ASSUME IndInv, NEW c \in Conns, NEW persisted \in BOOLEAN, EndFinish(c, persisted)
  PROVE  IndInv' /\ NoLoss
<1> DEFINE res == FinishEndSession(room, guests, persisted)
<1>1. /\ pc[c] = "ending" /\ UNCHANGED handled /\ Returned(c, res, "applying")
      /\ seat' = [seat EXCEPT ![c] = None]
  BY Zenon DEF EndFinish
<1>2. seat[c] # None /\ Turn(c, "applying") /\ guests \subseteq ConnectedPeers
  BY Zenon, <1>1 DEF IndInv, PlaceOK, Turn, TypeInv
<1>3. RoomOK(room) /\ room \in Rooms
  BY Zenon, <1>2, SeatedRoom DEF RoomOK
<1>4. RoomOK(res.room) /\ EffectsOK(res.eff)
  BY Zenon, <1>2, <1>3, FinishEndSessionOK, FinishEndEffects
<1> HIDE DEF res
<1> QED
  BY Zenon, <1>1, <1>2, <1>4, MethodStep

\* an endSession that is refused
LEMMA EndRefusedStep ==
  ASSUME IndInv, NEW c \in Conns, EndRefused(c)
  PROVE  IndInv' /\ NoLoss
<1> DEFINE res == [room |-> room, eff |-> Error("peer_id_unavailable")]
<1>1. /\ seat[c] # None /\ Turn(c, "applying") /\ Returned(c, res, "applying")
      /\ seat' = [seat EXCEPT ![c] = None]
  BY Zenon, ReadsTurn DEF EndRefused
<1>2. RoomOK(res.room) /\ EffectsOK(res.eff)
  BY Zenon, <1>1, SeatedRoom, PlainEffects
<1> HIDE DEF res
<1> QED
  BY Zenon, <1>1, <1>2, MethodStep

\* The end of the read loop.
LEMMA DisconnectStep ==
  ASSUME IndInv, NEW c \in Conns, Disconnect(c)
  PROVE  IndInv' /\ NoLoss
<1>1. pc[c] = "reading" /\ Turn(c, "closing") /\ seat' = [seat EXCEPT ![c] = None]
  BY Zenon DEF Disconnect, Turn
<1>2. CASE seat[c] = None
  <2> DEFINE res == [room |-> room, eff |-> NoEffects]
  <2>1. Returned(c, res, "closing") /\ res.room = room /\ res.eff = NoEffects
    BY Zenon, <1>2 DEF Disconnect
  <2>2. room' = room /\ (res.room = None \/ RoomOK(res.room))
    BY Zenon, <2>1 DEF Returned, IndInv, TypeInv
  <2>4. EffectsOK(res.eff)
    BY Zenon, <2>1, PlainEffects
  <2> HIDE DEF res
  <2>5. /\ room # None => room' # None
        /\ "closing" \in {"leaving", "ending"} => seat'[c] # None
    BY Zenon, <2>2
  <2>3. Seating(c, "closing")
    BY Zenon, <1>1, <2>5, SeatsKept
  <2> QED BY Zenon, <1>1, <2>1, <2>2, <2>3, <2>4, ReturnedStep
<1>3. CASE seat[c] # None
  <2> DEFINE p == seat[c].peer_id
             k == seat[c].conn_id
             res == HandleDisconnect(room, p, k, 0)
  <2>1. Returned(c, res, "closing")
    BY Zenon, <1>3 DEF Disconnect
  <2>2. RoomOK(room) /\ p \in PeerIds /\ 0 \in Nat
    BY Zenon, <1>3, SeatedRoom
  <2> HIDE DEF p, k
  <2>3. RoomOK(res.room) /\ EffectsOK(res.eff)
    BY Zenon, <2>2, HandleDisconnectOK, DisconnectEffects
  <2> HIDE DEF res
  <2> QED BY Zenon, <1>1, <2>1, <2>3, MethodStep
<1> QED
  BY Zenon, <1>2, <1>3

\* endSession, up to the snapshotter
LEMMA EndBeginStep ==
  ASSUME IndInv, NEW c \in Conns, NEW token \in Tokens, EndBegin(c, token)
  PROVE  IndInv' /\ NoLoss
<1>1. /\ seat[c] # None /\ Turn(c, "ending") /\ pc' = [pc EXCEPT ![c] = "ending"]
      /\ guests' = Guests(room) /\ room' = BeginEndSession(room) /\ seat' = seat
      /\ pending' = pending /\ evict' = evict /\ UNCHANGED <<cancelled, outbox, open, wire>>
  BY Zenon, ReadsTurn DEF EndBegin
<1>2. RoomOK(room) /\ room \in Rooms
  BY Zenon, <1>1, SeatedRoom DEF RoomOK
<1>3. RoomOK(room')
  BY Zenon, <1>1, <1>2, ClosingOK DEF BeginEndSession
<1>4. guests' \subseteq ConnectedPeers
  BY Zenon, <1>1, <1>2, EntriesType DEF Guests
<1>5. pending[c] = {} /\ TypeInv
  BY Zenon, <1>1 DEF IndInv, PlaceOK, Turn
<1>6. room' # None
  BY Zenon, <1>3, RoomIsSome
<1>7. Seating(c, "ending")
  BY Zenon, <1>1, <1>6, SeatsKept
<1>8. evict' \in [Conns -> SUBSET Nat]
  BY Zenon, <1>1, <1>5 DEF TypeInv
<1>9. Queues(c, {})
  BY Zenon, <1>1, <1>5 DEF Queues, TypeInv
<1> QED
  BY Zenon, <1>1, <1>3, <1>4, <1>7, <1>8, <1>9, TurnStep
-----------------------------------------------------------------------------
(* The channels *)

\* A frame that goes behind all those of its sender keeps a queue in order.
LEMMA BehindInOrder ==
  ASSUME NEW q, NEW q2, NEW x, IsSeq(q), Behind(q, x, q2), InOrder(q),
         \A f \in Range(q) : f.by = x.by => Ordered(f, x)
  PROVE  InOrder(q2)
<1>1. /\ Len(q2) = Len(q) + 1 /\ q2[Len(q) + 1] = x /\ Len(q) \in Nat
      /\ \A i \in 1..Len(q) : q2[i] = q[i] /\ q[i] \in Range(q)
  BY Zenon, SeqDomain DEF Behind
<1> SUFFICES ASSUME NEW j \in 1..Len(q2), NEW i \in 1..(j - 1), q2[i].by = q2[j].by
             PROVE  Ordered(q2[i], q2[j])
  BY Zenon DEF InOrder
<1>2. i \in 1..Len(q) /\ q2[i] = q[i]
  BY <1>1
<1>3. CASE j \in 1..Len(q)
  BY Zenon, <1>1, <1>2, <1>3 DEF InOrder
<1>4. CASE j = Len(q) + 1
  BY Zenon, <1>1, <1>2, <1>4
<1> QED
  BY <1>1, <1>3, <1>4

\* Such a frame comes behind what the client was sent, too.
LEMMA BehindPrecedes ==
  ASSUME NEW w, NEW q, NEW q2, NEW x, IsSeq(w), IsSeq(q), Behind(q, x, q2), Precedes(w, q),
         \A f \in Range(w) : f.by = x.by => Ordered(f, x)
  PROVE  Precedes(w, q2)
<1>1. /\ Len(q2) = Len(q) + 1 /\ q2[Len(q) + 1] = x /\ Len(q) \in Nat
      /\ \A j \in 1..Len(q) : q2[j] = q[j]
      /\ \A i \in 1..Len(w) : w[i] \in Range(w)
  BY Zenon, SeqDomain DEF Behind
<1> SUFFICES ASSUME NEW i \in 1..Len(w), NEW j \in 1..Len(q2), w[i].by = q2[j].by
             PROVE  Ordered(w[i], q2[j])
  BY Zenon DEF Precedes
<1>2. CASE j \in 1..Len(q)
  BY Zenon, <1>1, <1>2 DEF Precedes
<1>3. CASE j = Len(q) + 1
  BY Zenon, <1>1, <1>3
<1> QED
  BY <1>1, <1>2, <1>3

\* The frame that moves from the channel to the wire keeps both in order.
LEMMA MovedInOrder ==
  ASSUME NEW w, NEW w2, NEW q, NEW q2, IsSeq(w), IsSeq(q), FirstOff(q, q2),
         Behind(w, Head(q), w2), InOrder(w), InOrder(q), Precedes(w, q)
  PROVE  InOrder(w2) /\ InOrder(q2) /\ Precedes(w2, q2)
<1>1. /\ Len(q2) = Len(q) - 1 /\ Head(q) = q[1] /\ Len(q) >= 1 /\ Len(q) \in Nat
      /\ \A i \in 1..Len(q2) : q2[i] = q[i + 1] /\ i + 1 \in 1..Len(q)
  BY SeqDomain DEF FirstOff
<1>2. /\ Len(w2) = Len(w) + 1 /\ w2[Len(w) + 1] = q[1] /\ Len(w) \in Nat
      /\ \A i \in 1..Len(w) : w2[i] = w[i]
  BY Zenon, <1>1, SeqDomain DEF Behind
<1>3. InOrder(w2)
  <2>1. \A f \in Range(w) : f.by = Head(q).by => Ordered(f, Head(q))
    BY <1>1, SeqDomain DEF Precedes
  <2> QED BY Zenon, <2>1, BehindInOrder
<1>4. InOrder(q2)
  <2> SUFFICES ASSUME NEW j \in 1..Len(q2), NEW i \in 1..(j - 1), q2[i].by = q2[j].by
               PROVE  Ordered(q2[i], q2[j])
    BY Zenon DEF InOrder
  <2>1. q2[i] = q[i + 1] /\ q2[j] = q[j + 1] /\ j + 1 \in 1..Len(q) /\ i + 1 \in 1..((j + 1) - 1)
    BY <1>1
  <2> QED BY Zenon, <2>1 DEF InOrder
<1>5. Precedes(w2, q2)
  <2> SUFFICES ASSUME NEW i \in 1..Len(w2), NEW j \in 1..Len(q2), w2[i].by = q2[j].by
               PROVE  Ordered(w2[i], q2[j])
    BY Zenon DEF Precedes
  <2>1. q2[j] = q[j + 1] /\ j + 1 \in 1..Len(q) /\ 1 \in 1..((j + 1) - 1)
    BY <1>1
  <2>2. CASE i \in 1..Len(w)
    BY Zenon, <1>2, <2>1, <2>2 DEF Precedes
  <2>3. CASE i = Len(w) + 1
    BY Zenon, <1>2, <2>1, <2>3 DEF InOrder
  <2> QED BY <1>2, <2>2, <2>3
<1> QED
  BY Zenon, <1>3, <1>4, <1>5

\* One try_send: the frame goes behind those of its sender, or is lost to the
\* client whose channel has no place for it.
LEMMA TrySendStep ==
  ASSUME IndInv, NEW c \in Conns, TrySend(c)
  PROVE  IndInv' /\ NoLoss
<1>1. PICK s \in Due(c) :
        /\ outbox' = IF Accepts(s.to.conn)
                     THEN [outbox EXCEPT ![s.to.conn] = Append(@, s.frame)] ELSE outbox
        /\ pending' = [pending EXCEPT ![c] = Remaining(c, s)]
  BY Zenon DEF TrySend
<1> DEFINE e == s.to.conn
           x == s.frame
<1>2. /\ room' = room /\ seat' = seat /\ pc' = pc /\ handled' = handled /\ evict' = evict
      /\ guests' = guests /\ cancelled' = cancelled /\ open' = open /\ wire' = wire
  BY Zenon DEF TrySend
<1>3. s \in pending[c] /\ \A t \in pending[c] : x.i <= t.frame.i
  BY Zenon DEF Due
<1>4. /\ DueOK(c, s) /\ e \in Conns /\ x.by = c /\ x.n = handled[c] /\ x.i \in Nat
      /\ handled[c] \in Nat /\ handled[c] >= 1
  BY Zenon, <1>3 DEF IndInv, DueOK, TypeInv
<1>5. /\ TypeInv /\ DOMAIN pending' = Conns /\ pending'[c] = pending[c] \ {s}
      /\ \A d \in Conns \ {c} : pending'[d] = pending[d]
  BY Zenon, <1>1 DEF IndInv, TypeInv, Remaining
<1>6. \A d \in Conns : IsSeq(outbox[d]) /\ IsSeq(wire[d])
  BY Zenon DEF IndInv, QueueOK
<1>7. /\ DOMAIN outbox' = Conns
      /\ \A d \in Conns : outbox'[d] = outbox[d]
                          \/ (d = e /\ Accepts(e) /\ outbox'[d] = Append(outbox[d], x))
      /\ Accepts(e) => outbox'[e] = Append(outbox[e], x)
  BY Zenon, <1>1, <1>4 DEF IndInv, TypeInv
<1> HIDE DEF e, x
<1>8. Accepts(e) => Behind(outbox[e], x, outbox'[e])
  <2>1. Behind(outbox[e], x, Append(outbox[e], x))
    BY Zenon, <1>4, <1>6, AppendIsBehind
  <2> QED BY Zenon, <1>7, <2>1
<1>9. \A d \in Conns : \A f \in InFlight(d) : FlightOK(f)
  BY Zenon DEF IndInv
<1>10. \A d \in Conns : \A f \in InFlight(d) : f.by = x.by => Ordered(f, x)
  BY Zenon, <1>3, <1>4, <1>9 DEF FlightOK, x
<1>11. TypeInv'
  BY Zenon, <1>2, <1>5, <1>7 DEF TypeInv
<1>12. ASSUME NEW d \in Conns PROVE PlaceOK(d)' /\ QueueOK(d)'
  <2>1. PlaceOK(d) /\ QueueOK(d)
    BY Zenon DEF IndInv
  <2>2. pending[d] = {} => pending'[d] = {}
    BY Zenon, <1>5
  <2>3. PlaceOK(d)'
    BY Zenon, <1>2, <2>1, <2>2 DEF PlaceOK
  <2>4. CASE outbox'[d] = outbox[d]
    BY Zenon, <1>2, <2>1, <2>3, <2>4 DEF QueueOK
  <2>5. CASE d = e /\ Accepts(e) /\ outbox'[d] = Append(outbox[d], x)
    <3>1. Behind(outbox[d], x, outbox'[d])
      BY Zenon, <1>8, <2>5
    <3>2. (\A f \in Range(outbox[d]) : f.by = x.by => Ordered(f, x))
          /\ \A f \in Range(wire[d]) : f.by = x.by => Ordered(f, x)
      BY Zenon, <1>10 DEF InFlight
    <3>3. InOrder(outbox'[d])
      BY Zenon, <1>6, <2>1, <3>1, <3>2, BehindInOrder DEF QueueOK
    <3>4. Precedes(wire[d], outbox'[d])
      BY Zenon, <1>6, <2>1, <3>1, <3>2, BehindPrecedes DEF QueueOK
    <3>5. IsSeq(outbox'[d]) /\ Len(outbox'[d]) <= OUTBOUND_CHANNEL_CAPACITY
      <4>1. Len(outbox[d]) \in Nat
        BY Zenon, <1>6, SeqDomain
      <4>2. IsSeq(outbox'[d]) /\ Len(outbox'[d]) = Len(outbox[d]) + 1
        BY Zenon, <3>1 DEF Behind
      <4>3. Len(outbox[d]) < OUTBOUND_CHANNEL_CAPACITY
        BY Zenon, <2>5 DEF Accepts
      <4>4. OUTBOUND_CHANNEL_CAPACITY \in Nat
        BY Zenon, DeliveryConstants
      <4>5. \A k, l, m \in Nat : k < m /\ l = k + 1 => l <= m
        OBVIOUS
      <4> QED BY SMT, <4>1, <4>2, <4>3, <4>4, <4>5
    <3> QED BY Zenon, <1>2, <2>1, <2>3, <3>3, <3>4, <3>5 DEF QueueOK
  <2> QED BY Zenon, <1>7, <2>4, <2>5
<1>13. ASSUME NEW d \in Conns, NEW t \in pending'[d] PROVE DueOK(d, t)'
  <2>1. t \in pending[d]
    BY Zenon, <1>5, <1>13
  <2>2. DueOK(d, t)
    BY Zenon, <2>1 DEF IndInv
  <2> QED BY Zenon, <1>2, <2>2 DEF DueOK
<1>14. ASSUME NEW d \in Conns, NEW f \in InFlight(d)' PROVE FlightOK(f)'
  <2>1. f \in InFlight(d) \/ f = x
    <3>1. f \in Range(outbox'[d]) \/ f \in Range(wire[d])
      BY Zenon, <1>2, <1>14 DEF InFlight
    <3>2. CASE outbox'[d] = outbox[d]
      BY Zenon, <3>1, <3>2 DEF InFlight
    <3>3. CASE d = e /\ Accepts(e)
      <4>1. Range(outbox'[d]) = Range(outbox[d]) \cup {x}
        BY Zenon, <1>8, <3>3 DEF Behind
      <4> QED BY Zenon, <3>1, <4>1 DEF InFlight
    <3> QED BY Zenon, <1>7, <3>2, <3>3
  <2>2. CASE f \in InFlight(d)
    <3>1. FlightOK(f)
      BY Zenon, <1>9, <2>2
    <3>2. f.by \in Conns => pending'[f.by] \subseteq pending[f.by]
      BY Zenon, <1>5
    <3> QED BY Zenon, <1>2, <3>1, <3>2 DEF FlightOK
  <2>3. CASE f = x
    <3>1. pc[c] \notin {"leaving", "ending"}
      BY Zenon, <1>3 DEF IndInv, PlaceOK
    <3>2. ASSUME NEW t \in pending'[c] PROVE Ordered(x, t.frame)
      <4>1. t \in pending[c] /\ DueOK(c, t)
        BY Zenon, <1>5, <3>2 DEF IndInv
      <4> QED BY Zenon, <1>3, <1>4, <4>1 DEF DueOK, Ordered
    <3> QED BY <1>2, <1>4, <2>3, <3>1, <3>2 DEF FlightOK
  <2> QED BY Zenon, <2>1, <2>2, <2>3
<1>15. NoLoss
  <2> SUFFICES ASSUME NEW d \in Conns, Accepts(d), NEW f \in Owed(d) PROVE f \in Owed(d)'
    BY Zenon DEF NoLoss
  <2>1. CASE f \in Range(outbox[d]) \cup Range(wire[d])
    <3>1. f \in Range(outbox'[d]) \cup Range(wire'[d])
      BY Zenon, <1>2, <1>7, <1>8, <2>1 DEF Behind
    <3> QED BY Zenon, <3>1 DEF Owed
  <2>2. CASE \E b \in Conns : \E t \in pending[b] : t.to.conn = d /\ f = t.frame
    <3>0. PICK b \in Conns : \E t \in pending[b] : t.to.conn = d /\ f = t.frame
      BY Zenon, <2>2
    <3>1. PICK t \in pending[b] : t.to.conn = d /\ f = t.frame
      BY Zenon, <3>0
    <3>2. CASE t \in pending'[b]
      BY <3>1, <3>2 DEF Owed
    <3>3. CASE t \notin pending'[b]
      <4>1. t = s
        BY Zenon, <1>5, <3>3
      <4>2. d = e /\ f = x
        BY Zenon, <3>1, <4>1 DEF e, x
      <4>3. f \in Range(outbox'[d])
        BY Zenon, <1>8, <4>2 DEF Behind
      <4> QED BY Zenon, <4>3 DEF Owed
    <3> QED BY Zenon, <3>2, <3>3
  <2> QED BY <2>1, <2>2 DEF Owed
<1> QED
  BY Zenon, <1>11, <1>12, <1>13, <1>14, <1>15 DEF IndInv

\* The handler is done with its effects.
LEMMA AppliedStep ==
  ASSUME IndInv, NEW c \in Conns, Applied(c)
  PROVE  IndInv' /\ NoLoss
<1>1. /\ pc[c] \in {"applying", "closing"} /\ pending[c] = {}
      /\ cancelled' = cancelled \cup evict[c] /\ evict' = [evict EXCEPT ![c] = {}]
      /\ pc' = [pc EXCEPT ![c] = IF @ = "closing" THEN "gone" ELSE "reading"]
      /\ open' = IF pc[c] = "closing" THEN [open EXCEPT ![c] = FALSE] ELSE open
      /\ room' = room /\ seat' = seat /\ handled' = handled /\ pending' = pending
      /\ guests' = guests /\ outbox' = outbox /\ wire' = wire
  BY Zenon DEF Applied
<1>2. TypeInv
  BY Zenon DEF IndInv
<1>3. /\ pc' \in [Conns -> Steps] /\ \A d \in Conns \ {c} : pc'[d] = pc[d]
      /\ pc'[c] = IF pc[c] = "closing" THEN "gone" ELSE "reading"
  BY Zenon, <1>1, <1>2 DEF TypeInv, Steps
<1>4. TypeInv'
  BY Zenon, <1>1, <1>2, <1>3 DEF TypeInv
<1>5. ASSUME NEW d \in Conns PROVE PlaceOK(d)' /\ QueueOK(d)'
  <2>1. PlaceOK(d) /\ QueueOK(d)
    BY Zenon DEF IndInv
  <2>2. PlaceOK(d)'
    BY Zenon, <1>1, <1>3, <2>1 DEF PlaceOK
  <2>3. QueueOK(d)'
    BY Zenon, <1>1, <2>1 DEF QueueOK
  <2> QED BY Zenon, <2>2, <2>3
<1>6. ASSUME NEW d \in Conns, NEW s \in pending'[d] PROVE DueOK(d, s)'
  BY Zenon, <1>1, <1>6 DEF IndInv, DueOK
<1>7. ASSUME NEW d \in Conns, NEW f \in InFlight(d)' PROVE FlightOK(f)'
  <2>1. FlightOK(f)
    BY Zenon, <1>1, <1>7 DEF IndInv, InFlight
  <2>2. f.by \in Conns /\ (pc'[f.by] \in {"leaving", "ending"} => pc'[f.by] = pc[f.by])
    BY Zenon, <1>3, <2>1 DEF FlightOK
  <2> QED BY Zenon, <1>1, <2>1, <2>2 DEF FlightOK
<1>8. NoLoss
  BY Zenon, <1>1 DEF NoLoss, Owed
<1> QED
  BY Zenon, <1>4, <1>5, <1>6, <1>7, <1>8 DEF IndInv

\* The write task puts the oldest frame of the channel on the wire.
LEMMA WriteStep ==
  ASSUME IndInv, NEW c \in Conns, Write(c)
  PROVE  IndInv' /\ NoLoss
<1>1. /\ outbox[c] # <<>>
      /\ wire' = [wire EXCEPT ![c] = Append(@, Head(outbox[c]))]
      /\ outbox' = [outbox EXCEPT ![c] = Tail(@)]
      /\ room' = room /\ seat' = seat /\ pc' = pc /\ handled' = handled
      /\ pending' = pending /\ evict' = evict /\ guests' = guests
      /\ cancelled' = cancelled /\ open' = open
  BY Zenon DEF Write
<1>2. TypeInv /\ QueueOK(c)
  BY Zenon DEF IndInv
<1>3. /\ DOMAIN outbox' = Conns /\ DOMAIN wire' = Conns
      /\ outbox'[c] = Tail(outbox[c]) /\ wire'[c] = Append(wire[c], Head(outbox[c]))
      /\ \A d \in Conns \ {c} : outbox'[d] = outbox[d] /\ wire'[d] = wire[d]
  BY Zenon, <1>1, <1>2 DEF TypeInv
<1>4. FirstOff(outbox[c], outbox'[c]) /\ Behind(wire[c], Head(outbox[c]), wire'[c])
  BY Zenon, <1>1, <1>2, <1>3, TailIsFirstOff, AppendIsBehind DEF QueueOK
<1>5. InFlight(c)' = InFlight(c) /\ \A d \in Conns \ {c} : InFlight(d)' = InFlight(d)
  BY Zenon, <1>3, <1>4 DEF InFlight, FirstOff, Behind
<1>6. TypeInv'
  BY Zenon, <1>1, <1>2, <1>3 DEF TypeInv
<1>7. ASSUME NEW d \in Conns PROVE PlaceOK(d)' /\ QueueOK(d)'
  <2>1. PlaceOK(d) /\ QueueOK(d)
    BY Zenon DEF IndInv
  <2>2. PlaceOK(d)'
    BY Zenon, <1>1, <2>1 DEF PlaceOK
  <2>3. CASE d # c
    BY Zenon, <1>3, <2>1, <2>2, <2>3 DEF QueueOK
  <2>4. CASE d = c
    <3>1. InOrder(wire'[c]) /\ InOrder(outbox'[c]) /\ Precedes(wire'[c], outbox'[c])
      BY Zenon, <1>2, <1>4, MovedInOrder DEF QueueOK
    <3>2. IsSeq(wire'[c]) /\ IsSeq(outbox'[c]) /\ Len(outbox'[c]) <= OUTBOUND_CHANNEL_CAPACITY
      BY <1>2, <1>4, SeqDomain, DeliveryConstants DEF QueueOK, FirstOff, Behind
    <3> QED BY Zenon, <2>2, <2>4, <3>1, <3>2 DEF QueueOK
  <2> QED BY Zenon, <2>3, <2>4
<1>8. ASSUME NEW d \in Conns, NEW s \in pending'[d] PROVE DueOK(d, s)'
  BY Zenon, <1>1, <1>8 DEF IndInv, DueOK
<1>9. ASSUME NEW d \in Conns, NEW f \in InFlight(d)' PROVE FlightOK(f)'
  <2>1. FlightOK(f)
    BY Zenon, <1>5, <1>9 DEF IndInv
  <2> QED BY Zenon, <1>1, <2>1 DEF FlightOK
<1>10. NoLoss
  <2>1. \A d \in Conns : InFlight(d) \subseteq InFlight(d)'
    BY Zenon, <1>5
  <2> QED BY Zenon, <1>1, <2>1 DEF NoLoss, Owed, InFlight
<1> QED
  BY Zenon, <1>6, <1>7, <1>8, <1>9, <1>10 DEF IndInv

\* The write task ends, or nothing happens.
LEMMA QuietStep ==
  ASSUME IndInv, open' \in [Conns -> BOOLEAN],
         UNCHANGED <<room, seat, pc, handled, pending, evict, guests, cancelled, outbox, wire>>
  PROVE  IndInv' /\ NoLoss
<1>1. /\ room' = room /\ seat' = seat /\ pc' = pc /\ handled' = handled
      /\ pending' = pending /\ evict' = evict /\ guests' = guests
      /\ cancelled' = cancelled /\ outbox' = outbox /\ wire' = wire
  BY Zenon
<1>2. TypeInv'
  BY Zenon, <1>1 DEF IndInv, TypeInv
<1>3. ASSUME NEW d \in Conns PROVE PlaceOK(d)' /\ QueueOK(d)'
  BY Zenon, <1>1 DEF IndInv, PlaceOK, QueueOK
<1>4. ASSUME NEW d \in Conns, NEW s \in pending'[d] PROVE DueOK(d, s)'
  BY Zenon, <1>1, <1>4 DEF IndInv, DueOK
<1>5. ASSUME NEW d \in Conns, NEW f \in InFlight(d)' PROVE FlightOK(f)'
  BY Zenon, <1>1, <1>5 DEF IndInv, InFlight, FlightOK
<1>6. NoLoss
  BY Zenon, <1>1 DEF NoLoss, Owed
<1> QED
  BY Zenon, <1>2, <1>3, <1>4, <1>5, <1>6 DEF IndInv

\* Every step keeps the invariant and loses nothing to a client that has room.
LEMMA NextStep ==
  ASSUME IndInv, [Next]_vars
  PROVE  IndInv' /\ NoLoss
<1>1. CASE UNCHANGED vars
  <2>1. /\ UNCHANGED <<room, seat, pc, handled, pending, evict, guests, cancelled, outbox, wire>>
        /\ open' \in [Conns -> BOOLEAN]
    BY Zenon, <1>1 DEF vars, IndInv, TypeInv
  <2> QED BY Zenon, <2>1, QuietStep
<1>2. CASE Next
  <2>1. PICK c \in Conns :
          HandlerStep(c) \/ ClientStep(c) \/ Evicted(c) \/ Write(c) \/ WriteFails(c)
    BY Zenon, <1>2 DEF Next
  <2>2. CASE HandlerStep(c)
    BY Zenon, <2>2, LeaveFinishStep, EndFinishStep, TrySendStep, AppliedStep DEF HandlerStep
  <2>3. CASE ClientStep(c)
    <3>1. CASE Answer(c)
      BY Zenon, <3>1, AnswerStep
    <3>2. ASSUME NEW p \in PeerIds, NEW token \in Tokens, NEW meta \in Metas,
                 \/ Create(c, p, token, meta)
                 \/ \E resume_only \in BOOLEAN : Join(c, p, token, meta, resume_only)
          PROVE  IndInv' /\ NoLoss
      BY Zenon, <3>2, CreateStep, JoinStep
    <3>3. ASSUME NEW target \in PeerIds, Call(c, target) PROVE IndInv' /\ NoLoss
      BY Zenon, <3>3, CallStep
    <3>4. ASSUME NEW token \in Tokens, LeaveBegin(c, token) \/ EndBegin(c, token)
          PROVE  IndInv' /\ NoLoss
      BY Zenon, <3>4, LeaveBeginStep, EndBeginStep
    <3>5. CASE EndRefused(c)
      BY Zenon, <3>5, EndRefusedStep
    <3>6. CASE SocketClosed(c)
      BY Zenon, <3>6, DisconnectStep DEF SocketClosed
    <3> QED BY Zenon, <2>3, <3>1, <3>2, <3>3, <3>4, <3>5, <3>6 DEF ClientStep
  <2>4. CASE Evicted(c)
    BY Zenon, <2>4, DisconnectStep DEF Evicted
  <2>5. CASE Write(c)
    BY Zenon, <2>5, WriteStep
  <2>6. CASE WriteFails(c)
    <3>1. /\ UNCHANGED <<room, seat, pc, handled, pending, evict, guests, cancelled, outbox, wire>>
          /\ open' \in [Conns -> BOOLEAN]
      BY Zenon, <2>6 DEF WriteFails, IndInv, TypeInv
    <3> QED BY Zenon, <3>1, QuietStep
  <2> QED BY Zenon, <2>1, <2>2, <2>3, <2>4, <2>5, <2>6
<1> QED
  BY Zenon, <1>1, <1>2

\* The invariant holds throughout.
LEMMA Invariance == Spec => []IndInv
<1>1. IndInv /\ [Next]_vars => IndInv'
  BY Zenon, NextStep
<1> QED
  BY <1>1, InitInv, PTL DEF Spec

\* The state has its types: the room keeps its own, no channel of the relay
\* ever holds more than OUTBOUND_CHANNEL_CAPACITY frames, and every frame in
\* flight belongs to a message its sender has handled.
THEOREM TypesHold == Spec => []TypeOK
<1>1. IndInv => TypeOK
  <2> SUFFICES ASSUME IndInv PROVE TypeOK
    BY Zenon
  <2>1. room \in Rooms \cup {None}
    BY Zenon DEF IndInv, TypeInv, RoomOK
  <2>2. \A c \in Conns : handled[c] \in 0..(MaxRequests[c] + 1)
    <3> SUFFICES ASSUME NEW c \in Conns PROVE handled[c] \in 0..(MaxRequests[c] + 1)
      BY Zenon
    <3>1. MaxRequests[c] \in Nat /\ handled[c] \in Nat
      BY Zenon, DeliveryConstants DEF IndInv, TypeInv
    <3>2. handled[c] <= MaxRequests[c] + 1
      BY Zenon DEF IndInv, PlaceOK
    <3> QED BY SMT, <3>1, <3>2
  <2>3. \A c \in Conns : Len(outbox[c]) <= OUTBOUND_CHANNEL_CAPACITY
    BY Zenon DEF IndInv, QueueOK
  <2>4. \A f \in Frames : f.by \in Conns /\ f.n \in 1..handled[f.by] /\ f.i \in Nat
    BY Zenon DEF IndInv, FlightOK, Frames, InFlight
  <2> QED BY Zenon, <2>1, <2>2, <2>3, <2>4 DEF TypeOK, IndInv, TypeInv
<1> QED
  BY <1>1, Invariance, PTL

\* What one connection causes reaches every client in the order of its messages
\* and of their effects, whatever other handlers queue in between and whatever
\* is dropped: apply_effects is finished before the next frame is read, and the
\* channels are first in, first out.
THEOREM DeliveredInOrder == Spec => []SenderOrder
<1>1. IndInv => SenderOrder
  <2> SUFFICES ASSUME IndInv, NEW d \in Conns PROVE InOrder(wire[d]) /\ DOMAIN wire[d] = 1..Len(wire[d])
    BY Zenon DEF SenderOrder, InOrder
  <2> QED BY Zenon, SeqDomain DEF IndInv, QueueOK
<1> QED
  BY <1>1, Invariance, PTL

\* No step loses a frame that is owed to a client with a place in its channel:
\* a peer that stops reading, or whose write task has ended, costs the others
\* nothing.
THEOREM NobodyElseLoses == Spec => NobodyElsePays
<1>1. IndInv /\ [Next]_vars => NoLoss
  BY Zenon, NextStep
<1>2. NoLoss => [\A d \in Conns : Accepts(d) => Owed(d) \subseteq Owed(d)']_vars
  BY Zenon DEF NoLoss
<1> QED
  BY <1>1, <1>2, Invariance, PTL DEF Spec, NobodyElsePays
=============================================================================
