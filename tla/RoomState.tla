----------------------------- MODULE RoomState ------------------------------
(***************************************************************************)
(* The synchronous room state machine of src/src/room.rs.  A room is a     *)
(* record with the fields of struct RoomState; a method that takes         *)
(* "&mut self" and returns Effects is an operator from a room and its      *)
(* arguments to [room |-> the room after, eff |-> the effects].            *)
(*                                                                         *)
(* A HashMap keyed by peer id is a total function that is None where the   *)
(* map has no entry.  A ConnectedPeer holds the connection that owns the   *)
(* sender "tx"; its CancellationToken is the pair of room and conn_id,     *)
(* because admit makes one token for every conn_id.  A verifier is the     *)
(* SHA-256 digest of a token: an injective function of a well-formed one.  *)
(***************************************************************************)
EXTENDS HostTransfer, FiniteSets, Sequences

CONSTANTS
  PeerIds,                  \* well-formed peer ids
  Tokens,                   \* well-formed reconnect tokens
  BadToken,                 \* a token Verifier::from_token rejects
  Conns,                    \* WebSocket connections
  Sessions,                 \* well-formed session ids
  Ips,                      \* owner IP keys
  NoIp,                     \* the empty owner key of a room restored from the file
  None,                     \* Rust's Option::None
  MAX_ROOM_SIZE,            \* protocol.rs: 8
  PEER_RESERVATION_GRACE,   \* room.rs: 5 minutes
  EMPTY_ROOM_MAX_AGE,       \* room.rs: 5 minutes
  ROOM_MAX_AGE              \* room.rs: 24 hours

Verifiers == [digest : Tokens]

ConnectedPeers ==
  [conn : Conns, sync_protocol_version : Int, host_transfer_capable : BOOLEAN,
   conn_id : Nat]

Reservations ==
  [verifier : Verifiers, absent_since : Nat \cup {None},
   release_pending : BOOLEAN]

Rooms ==
  [session_id : Sessions, host_peer_id : PeerIds, host_verifier : Verifiers,
   peers : [PeerIds -> ConnectedPeers \cup {None}],
   reservations : [PeerIds -> Reservations \cup {None}],
   owner_ip_key : Ips, created_at : Nat, last_activity_at : Nat,
   closing : BOOLEAN, next_conn_id : Nat]

Admissions ==
  [conn : Conns, sync_protocol_version : Int, host_transfer_capable : BOOLEAN]

\* ClientError.
ErrorCodes ==
  {"rate_limited", "invalid_message", "room_exists", "room_not_found", "room_full",
   "not_in_room", "already_in_room", "peer_id_unavailable", "protocol_mismatch",
   "not_host", "peer_not_found", "host_transfer_unavailable"}

ASSUME RoomConstants ==
  /\ MAX_ROOM_SIZE \in Nat \ {0}
  /\ PEER_RESERVATION_GRACE \in Nat
  /\ EMPTY_ROOM_MAX_AGE \in Nat
  /\ ROOM_MAX_AGE \in Nat
  /\ BadToken \notin Tokens

ASSUME NoneIsNoValue ==
  /\ None \notin ConnectedPeers
  /\ None \notin Reservations
  /\ None \notin Verifiers
  /\ None \notin Nat
  /\ None \notin ErrorCodes
-----------------------------------------------------------------------------
(* Reading a room *)

FromToken(token) == IF token \in Tokens THEN [digest |-> token] ELSE None

Connected(r) == {p \in PeerIds : r.peers[p] # None}

Reserved(r) == {p \in PeerIds : r.reservations[p] # None}

\* Variant of Transferable: a reservation that is being released counts too.
TransferableWhileLeaving(r) == Reserved(r)

\* The is_reserved callback: a reservation that is not being released.
Transferable(r) == {p \in Reserved(r) : ~r.reservations[p].release_pending}

\* The verifier that owns identity p of room r, None when p is free.
Owner(r, p) ==
  IF p = r.host_peer_id THEN r.host_verifier
  ELSE IF r.reservations[p] = None THEN None ELSE r.reservations[p].verifier

\* The room as its clients may know it.
View(r) ==
  [host |-> r.host_peer_id, owner |-> [p \in PeerIds |-> Owner(r, p)],
   present |-> Connected(r)]

\* conn_id still names the authoritative occupant of p.
IsCurrent(r, p, conn_id) ==
  r.peers[p] # None /\ r.peers[p].conn_id = conn_id

\* duration_since(..).unwrap_or_default(): zero when "then" is in the future.
Since(now, then) == IF now >= then THEN now - then ELSE 0

PeerInfos(r) ==
  [p \in Connected(r) |->
     [sync_protocol_version |-> r.peers[p].sync_protocol_version,
      host_transfer_capable |-> r.peers[p].host_transfer_capable]]

IsReclaimable(r) == ~r.closing /\ Connected(r) = {}
-----------------------------------------------------------------------------
(* Effects.  A broadcast is a sequence of [to, msg]: one entry for every   *)
(* loop over the peer map, "to" being the entries whose sender is used.    *)

Effects(reply, broadcast, evict, dirty, assigned) ==
  [reply |-> reply, broadcast |-> broadcast, evict |-> evict,
   dirty |-> dirty, assigned_conn_id |-> assigned]

NoEffects == Effects(None, <<>>, {}, FALSE, None)

Reply(type) == [type |-> type, code |-> None]

Error(code) ==
  Effects([type |-> "error", code |-> code], <<>>, {}, FALSE, None)

Failed(eff) == eff.reply # None /\ eff.reply.code # None

BroadcastExcept(r, p, msg) ==
  <<[to |-> {r.peers[q] : q \in Connected(r) \ {p}}, msg |-> msg]>>

BroadcastAll(r, msg) == <<[to |-> {r.peers[q] : q \in Connected(r)}, msg |-> msg]>>

PeerJoined(p) == [type |-> "peerJoined", peer_id |-> p]

PeerLeft(p) == [type |-> "peerLeft", peer_id |-> p]

AppendHostTransferEligibility(r) ==
  LET e == ComputeEligibility(r.host_peer_id, PeerInfos(r), Transferable(r))
  IN  IF e.recipients = {} THEN <<>>
      ELSE <<[to  |-> {r.peers[q] : q \in e.recipients},
              msg |-> [type |-> "hostTransferEligibility",
                       host_peer_id |-> r.host_peer_id,
                       host_transfer_targets |-> e.targets]]>>
-----------------------------------------------------------------------------
(* Creating, restoring and entering a room *)

Occupant(adm, conn_id) ==
  [conn |-> adm.conn, sync_protocol_version |-> adm.sync_protocol_version,
   host_transfer_capable |-> adm.host_transfer_capable, conn_id |-> conn_id]

NewRoom(session_id, host, verifier, owner, adm, now) ==
  LET r == [session_id |-> session_id, host_peer_id |-> host,
            host_verifier |-> verifier,
            peers |-> [p \in PeerIds |-> IF p = host THEN Occupant(adm, 1) ELSE None],
            reservations |-> [p \in PeerIds |-> None],
            owner_ip_key |-> owner, created_at |-> now, last_activity_at |-> now,
            closing |-> FALSE, next_conn_id |-> 2]
  IN  [room |-> r,
       eff  |-> Effects(Reply("created"), AppendHostTransferEligibility(r), {}, TRUE, 1)]

\* Installs the connection under p with a fresh conn_id.
Admit(r, p, adm) ==
  [r EXCEPT !.peers[p] = Occupant(adm, r.next_conn_id),
            !.next_conn_id = r.next_conn_id + 1]

\* Variant of Replaced: the old connection is forgotten, not evicted.
ReplacedSilently(r, p) == {}

\* The entry that admit replaced, whose token the caller cancels.
Replaced(r, p) == {r.peers[p]} \ {None}

ReconnectHost(r, adm) ==
  LET h == r.host_peer_id
      s == Admit(r, h, adm)
      joined == IF r.peers[h] = None THEN BroadcastExcept(s, h, PeerJoined(h)) ELSE <<>>
  IN  [room |-> s,
       eff  |-> Effects(Reply("created"), joined \o AppendHostTransferEligibility(s),
                        Replaced(r, h), TRUE, r.next_conn_id)]

\* The reservations prune_expired_reservations drops at time now.
Expired(r, now) ==
  {p \in Reserved(r) \ Connected(r) :
     /\ ~r.reservations[p].release_pending
     /\ r.reservations[p].absent_since # None
     /\ Since(now, r.reservations[p].absent_since) >= PEER_RESERVATION_GRACE}

PruneExpiredReservations(r, now) ==
  [r EXCEPT !.reservations =
     [p \in PeerIds |-> IF p \in Expired(r, now) THEN None ELSE r.reservations[p]]]

\* The three cases of join_or_resume: the host, a reserved identity, and a
\* brand-new one, which only a plain join may allocate.
Authorized(r, p, presented, resume_only) ==
  /\ presented # None
  /\ \/ p = r.host_peer_id /\ presented = r.host_verifier
     \/ /\ p # r.host_peer_id
        /\ r.reservations[p] # None
        /\ ~r.reservations[p].release_pending
        /\ presented = r.reservations[p].verifier
     \/ /\ p # r.host_peer_id
        /\ r.reservations[p] = None
        /\ r.peers[p] = None
        /\ ~resume_only

\* Variant of RoomFull: off by one.
RoomFullOffByOne(r, p) ==
  /\ r.peers[p] = None /\ p # r.host_peer_id /\ r.reservations[p] = None
  /\ Cardinality(Reserved(r)) > MAX_ROOM_SIZE - 1

RoomFull(r, p) ==
  /\ r.peers[p] = None /\ p # r.host_peer_id /\ r.reservations[p] = None
  /\ Cardinality(Reserved(r)) >= MAX_ROOM_SIZE - 1

\* Variant of Reserve: an existing reservation is left as it is.
ReserveIfAbsent(r, p, verifier) ==
  IF p = r.host_peer_id \/ r.reservations[p] # None THEN r
  ELSE [r EXCEPT !.reservations[p] =
          [verifier |-> verifier, absent_since |-> None, release_pending |-> FALSE]]

\* A guest that is admitted holds a reservation under the presented token.
Reserve(r, p, verifier) ==
  IF p = r.host_peer_id THEN r
  ELSE [r EXCEPT !.reservations[p] =
          [verifier |-> verifier, absent_since |-> None, release_pending |-> FALSE]]

Enter(r, p, verifier, adm, now) ==
  [Reserve(Admit(r, p, adm), p, verifier) EXCEPT !.last_activity_at = now]

JoinOrResume(r, p, token, adm, resume_only, now) ==
  LET q == PruneExpiredReservations(r, now)
      s == Enter(q, p, FromToken(token), adm, now)
  IN  IF r.closing THEN [room |-> r, eff |-> Error("room_not_found")]
      ELSE IF ~Authorized(q, p, FromToken(token), resume_only)
      THEN [room |-> q, eff |-> Error("peer_id_unavailable")]
      ELSE IF RoomFull(q, p) THEN [room |-> q, eff |-> Error("room_full")]
      ELSE [room |-> s,
            eff  |-> Effects(Reply(IF resume_only THEN "resumed" ELSE "joined"),
                             BroadcastExcept(s, p, PeerJoined(p))
                               \o AppendHostTransferEligibility(s),
                             Replaced(q, p), TRUE, q.next_conn_id)]
-----------------------------------------------------------------------------
(* Leaving, ending and handing over.  The begin_* phases are a condition   *)
(* (the code's Err is its negation) and the room after it.                 *)

MayBeginLeave(r, p, conn_id, token, version_ok) ==
  /\ ~r.closing /\ IsCurrent(r, p, conn_id) /\ p # r.host_peer_id /\ version_ok
  /\ r.reservations[p] # None
  /\ ~r.reservations[p].release_pending
  /\ FromToken(token) = r.reservations[p].verifier

BeginLeave(r, p) == [r EXCEPT !.reservations[p].release_pending = TRUE]

\* The leave that conn_id began is still the one to commit or roll back.
StillOwns(r, p, conn_id) ==
  /\ IsCurrent(r, p, conn_id)
  /\ r.reservations[p] # None /\ r.reservations[p].release_pending

FinishLeave(r, p, conn_id, persisted, now) ==
  LET s == [r EXCEPT !.peers[p] = None, !.reservations[p] = None,
                     !.last_activity_at = now]
  IN  IF ~StillOwns(r, p, conn_id) THEN [room |-> r, eff |-> NoEffects]
      ELSE IF ~persisted
      THEN [room |-> [r EXCEPT !.reservations[p].release_pending = FALSE],
            eff  |-> Error("invalid_message")]
      ELSE [room |-> s,
            eff  |-> Effects(Reply("left"),
                             BroadcastExcept(s, p, PeerLeft(p))
                               \o AppendHostTransferEligibility(s), {}, TRUE, None)]

MayBeginEndSession(r, p, conn_id, token, version_ok) ==
  /\ ~r.closing /\ p = r.host_peer_id /\ IsCurrent(r, p, conn_id) /\ version_ok
  /\ FromToken(token) = r.host_verifier

BeginEndSession(r) == [r EXCEPT !.closing = TRUE]

\* The guest senders begin_end_session returns, to be told "ended" later.
Guests(r) == {r.peers[q] : q \in Connected(r) \ {r.host_peer_id}}

FinishEndSession(r, guests, persisted) ==
  LET evict == {r.peers[q] : q \in Connected(r)}
      ended == <<[to |-> guests, msg |-> [type |-> "ended"]]>>
  IN  [room |-> [r EXCEPT !.peers = [p \in PeerIds |-> None],
                          !.reservations = [p \in PeerIds |-> None]],
       eff  |-> IF persisted THEN Effects(Reply("ended"), ended, evict, FALSE, None)
                ELSE [Error("invalid_message") EXCEPT !.evict = evict]]

\* The code transfer_host replies with, None when the transfer goes ahead.
TransferError(r, p, conn_id, version_ok, target) ==
  IF r.closing \/ ~IsCurrent(r, p, conn_id) \/ ~version_ok THEN "peer_id_unavailable"
  ELSE IF p # r.host_peer_id THEN "not_host"
  ELSE IF target = p \/ target \notin Connected(r) \cap Transferable(r)
  THEN "peer_not_found"
  ELSE IF ~IsValidTarget(r.host_peer_id, PeerInfos(r), Transferable(r), target)
  THEN "host_transfer_unavailable"
  ELSE None

\* Variant of SwapHost: the host verifier is overwritten before it is saved.
SwapHostLosingVerifier(r, target) ==
  [r EXCEPT !.reservations =
              [@ EXCEPT ![target] = None,
                        ![r.host_peer_id] = [verifier |-> r.reservations[target].verifier,
                                             absent_since |-> None,
                                             release_pending |-> FALSE]],
            !.host_verifier = r.reservations[target].verifier,
            !.host_peer_id = target]

\* Variant of SwapHost: the new host keeps its guest reservation.
SwapHostKeepingReservation(r, target) ==
  [r EXCEPT !.reservations[r.host_peer_id] = [verifier |-> r.host_verifier,
                                              absent_since |-> None,
                                              release_pending |-> FALSE],
            !.host_verifier = r.reservations[target].verifier,
            !.host_peer_id = target]

\* Host and target swap roles: the target's reservation becomes the host
\* verifier, the old host gets a reservation under its own verifier.
SwapHost(r, target) ==
  [r EXCEPT !.reservations =
              [@ EXCEPT ![target] = None,
                        ![r.host_peer_id] = [verifier |-> r.host_verifier,
                                             absent_since |-> None,
                                             release_pending |-> FALSE]],
            !.host_verifier = r.reservations[target].verifier,
            !.host_peer_id = target]

TransferHost(r, p, conn_id, version_ok, target) ==
  LET code == TransferError(r, p, conn_id, version_ok, target)
      s == SwapHost(r, target)
      changed == [type |-> "hostChanged", host_peer_id |-> target, from |-> p]
  IN  IF code # None THEN [room |-> r, eff |-> Error(code)]
      ELSE [room |-> s,
            eff  |-> Effects(None, BroadcastAll(s, changed)
                                     \o AppendHostTransferEligibility(s), {}, TRUE, None)]
-----------------------------------------------------------------------------
(* Traffic and disconnection *)

Message(from) == [type |-> "message", from |-> from]

Broadcast(r, p, conn_id, now) ==
  IF ~IsCurrent(r, p, conn_id) \/ r.closing THEN [room |-> r, eff |-> NoEffects]
  ELSE [room |-> [r EXCEPT !.last_activity_at = now],
        eff  |-> [NoEffects EXCEPT !.broadcast = BroadcastExcept(r, p, Message(p))]]

SendTo(r, p, conn_id, target, now) ==
  IF ~IsCurrent(r, p, conn_id) \/ r.closing THEN [room |-> r, eff |-> NoEffects]
  ELSE IF r.peers[target] = None THEN [room |-> r, eff |-> Error("not_in_room")]
  ELSE [room |-> [r EXCEPT !.last_activity_at = now],
        eff  |-> [NoEffects EXCEPT !.broadcast =
                    <<[to |-> {r.peers[target]}, msg |-> Message(p)]>>]]

\* A guest's reservation starts its grace period; the host has none.
Vacate(r, p, now) ==
  LET s == [r EXCEPT !.peers[p] = None, !.last_activity_at = now]
  IN  IF p = r.host_peer_id \/ r.reservations[p] = None THEN s
      ELSE [s EXCEPT !.reservations[p].absent_since = now]

HandleDisconnect(r, p, conn_id, now) ==
  LET s == Vacate(r, p, now)
  IN  IF r.closing \/ ~IsCurrent(r, p, conn_id) THEN [room |-> r, eff |-> NoEffects]
      ELSE [room |-> s,
            eff  |-> Effects(None, BroadcastExcept(s, p, PeerLeft(p))
                                     \o AppendHostTransferEligibility(s), {}, TRUE, None)]
-----------------------------------------------------------------------------
(* The part of a cleanup sweep that runs under the room's lock             *)
(* (src/src/cleanup.rs).  Ages are taken at sweep_now, read when the sweep *)
(* started; the grace period at now, read when the room is visited.        *)

\* Variant of SweepRemoves: only empty rooms are removed.
SweepRemovesEmptyOnly(r, sweep_now) ==
  /\ Connected(r) = {}
  /\ \/ Since(sweep_now, r.last_activity_at) > EMPTY_ROOM_MAX_AGE
     \/ Since(sweep_now, r.created_at) > ROOM_MAX_AGE

SweepRemoves(r, sweep_now) ==
  \/ Connected(r) = {} /\ Since(sweep_now, r.last_activity_at) > EMPTY_ROOM_MAX_AGE
  \/ Since(sweep_now, r.created_at) > ROOM_MAX_AGE

SweepState(r, sweep_now, now) ==
  LET q == PruneExpiredReservations(r, now)
      remove == SweepRemoves(q, sweep_now)
  IN  [room |-> IF remove
                THEN [q EXCEPT !.closing = TRUE, !.peers = [p \in PeerIds |-> None]]
                ELSE q,
       remove |-> remove,
       evict |-> IF remove THEN {q.peers[p] : p \in Connected(q)} ELSE {},
       changed |-> remove \/ Expired(r, now) # {}]
=============================================================================
