------------------------------- MODULE Relay --------------------------------
(***************************************************************************)
(* The relay's room layer as its tasks run it: connection actors           *)
(* (src/src/connection.rs) call into the registry (src/src/registry.rs)    *)
(* and the rooms (src/src/room.rs) while a cleanup task sweeps             *)
(* (src/src/cleanup.rs).                                                   *)
(*                                                                         *)
(* A room's mutex is never held across an await, so every section under it *)
(* is one step.  A handler that takes it several times, or that awaits the *)
(* snapshotter in between, is several steps and has a program counter.     *)
(* The registry's write lock is held across awaits by create only: the     *)
(* lock is taken exactly while some connection is in CreateSteps.          *)
(*                                                                         *)
(* record_terminal_mutation is modelled by its outcome, either of which is *)
(* possible at any time.  Senders are not followed here: replies and       *)
(* broadcasts are part of the effects in module RoomState.                 *)
(***************************************************************************)
EXTENDS RoomState

CONSTANTS
  Handles,             \* Arc<Room> handles: bounds the rooms ever created
  IpOf,                \* the resolved client address of every connection
  Metas,               \* declared sync version and capability of a client
  MAX_ROOMS_PER_IP,    \* registry.rs: 3
  MAX_RETAINED_ROOMS,  \* registry.rs: 2000
  MaxTime,             \* bounds the clock
  MaxRequests          \* bounds the create/join/resume requests of a connection

VARIABLES
  rooms,         \* the room behind every handle, None before it is created
  registry,      \* Registry.rooms: session id to handle, None when absent
  rooms_per_ip,  \* Registry.rooms_per_ip, 0 when absent
  conn,          \* the local state of every connection actor
  sweep,         \* the local state of the cleanup task
  now            \* the clock (Instant and SystemTime)

vars == <<rooms, registry, rooms_per_ip, conn, sweep, now>>

\* current_room, current_peer_id and current_conn_id; the pair of room and
\* conn_id is also current_cancel.
Seats == [room : Handles, peer_id : PeerIds, conn_id : Nat]

Requests ==
  [type : {"create", "join", "resume"}, session_id : Sessions, peer_id : PeerIds,
   token : Tokens \cup {BadToken}, meta : Metas]

CreateSteps == {"reconnect", "check", "reclaim"}

\* The await the connection's handler is at; "idle" is the read loop.
ConnSteps ==
  CreateSteps \cup {"idle", "join", "leave", "end_remove", "end_release",
                    "end_finish", "closed"}

ConnStates ==
  [pc : ConnSteps, seat : Seats \cup {None}, cancelled : BOOLEAN,
   request : Requests \cup {None}, handle : Handles \cup {None}, sent : Nat]

SweepStates ==
  [pc : {"idle", "visit", "remove", "finish"}, now : Nat, todo : SUBSET Handles,
   handle : Handles \cup {None}, removed : BOOLEAN,
   evict : SUBSET ConnectedPeers]

ASSUME RelayConstants ==
  /\ IpOf \in [Conns -> Ips] /\ \A c \in Conns : IpOf[c] # NoIp
  /\ Metas \subseteq [sync_protocol_version : Int, host_transfer_capable : BOOLEAN]
  /\ MAX_ROOMS_PER_IP \in Nat /\ MAX_RETAINED_ROOMS \in Nat
  /\ MaxTime \in Nat /\ MaxRequests \in Nat
  /\ None \notin Handles \cup Rooms \cup Seats \cup Requests

Fresh == [pc |-> "idle", seat |-> None, cancelled |-> FALSE,
          request |-> None, handle |-> None, sent |-> 0]

SweepIdle == [pc |-> "idle", now |-> 0, todo |-> {}, handle |-> None,
              removed |-> FALSE, evict |-> {}]

Init ==
  /\ rooms = [a \in Handles |-> None]
  /\ registry = [s \in Sessions |-> None]
  /\ rooms_per_ip = [i \in Ips |-> 0]
  /\ conn = [c \in Conns |-> Fresh]
  /\ sweep = SweepIdle
  /\ now = 0
-----------------------------------------------------------------------------
(* Helpers *)

RegistryFree == \A c \in Conns : conn[c].pc \notin CreateSteps

Unused == {a \in Handles : rooms[a] = None}

Registered == {a \in Handles : \E s \in Sessions : registry[s] = a}

Admission(c, meta) ==
  [conn |-> c, sync_protocol_version |-> meta.sync_protocol_version,
   host_transfer_capable |-> meta.host_transfer_capable]

\* Variant of Release: no check for zero.
ReleaseUnchecked(quota, ip) == [quota EXCEPT ![ip] = @ - 1]

\* release_room_quota: never below zero.
Release(quota, ip) ==
  [quota EXCEPT ![ip] = IF @ > 0 THEN @ - 1 ELSE @]

\* Cancels the tokens of the evicted entries of room a.  A token reaches the
\* connection that still holds it as current_cancel.
Cancel(conns, a, evict) ==
  [c \in Conns |->
     IF /\ conns[c].seat # None /\ conns[c].seat.room = a
        /\ \E o \in evict : o.conn = c /\ o.conn_id = conns[c].seat.conn_id
     THEN [conns[c] EXCEPT !.cancelled = TRUE]
     ELSE conns[c]]

\* Back to the read loop with the seat given (None: current_room = None).
Resume(cs, seat) ==
  [cs EXCEPT !.pc = "idle", !.seat = seat, !.request = None, !.handle = None,
             !.cancelled = @ /\ seat # None]

Goto(cs, pc) == [cs EXCEPT !.pc = pc]

Seat(a, p, conn_id) == [room |-> a, peer_id |-> p, conn_id |-> conn_id]

\* What follows an admission attempt on room a: the caller remembers its seat
\* if it was admitted, and whoever it replaced is cancelled.
AfterAdmission(c, a, p, eff) ==
  LET seat == IF eff.assigned_conn_id = None THEN None
              ELSE Seat(a, p, eff.assigned_conn_id)
  IN  Cancel([conn EXCEPT ![c] = Resume(@, seat)], a, eff.evict)
-----------------------------------------------------------------------------
(* create: Registry::create and the CREATE arm of handle_message.  Requests *)
(* that are refused before any state is read or changed (a malformed id, an *)
(* unsupported version, a room already joined) are not steps.               *)

\* A connection that is in no room sends a request.
MaySend(c) ==
  conn[c].pc = "idle" /\ conn[c].seat = None /\ conn[c].sent < MaxRequests

Send(c, m, pc, a) ==
  [conn[c] EXCEPT !.pc = pc, !.request = m, !.handle = a, !.sent = @ + 1]

\* The last part of create, from the room cap on, with the registry and the
\* quota as a reclaim may have left them.
OpenRoom(c, m, rms, reg, quota, conns) ==
  LET ip == IpOf[c]
      full == \/ Cardinality({s \in Sessions : reg[s] # None}) >= MAX_RETAINED_ROOMS
              \/ quota[ip] >= MAX_ROOMS_PER_IP
  IN  \/ /\ full
         /\ rooms' = rms /\ registry' = reg /\ rooms_per_ip' = quota
         /\ conn' = [conns EXCEPT ![c] = Resume(@, None)]
      \/ /\ ~full
         /\ \E a \in Unused :
              /\ rooms' = [rms EXCEPT ![a] =
                   NewRoom(m.session_id, m.peer_id, FromToken(m.token), ip,
                           Admission(c, m.meta), now).room]
              /\ registry' = [reg EXCEPT ![m.session_id] = a]
              /\ conn' = [conns EXCEPT ![c] = Resume(@, Seat(a, m.peer_id, 1))]
         /\ rooms_per_ip' = [quota EXCEPT ![ip] = @ + 1]

\* The write lock is taken and the session id looked up.  No room: open one.
CreateNew(c, m) ==
  /\ MaySend(c) /\ RegistryFree /\ Unused # {}
  /\ m.type = "create" /\ FromToken(m.token) # None
  /\ registry[m.session_id] = None
  /\ OpenRoom(c, m, rooms, registry, rooms_per_ip,
              [conn EXCEPT ![c] = Send(c, m, "idle", None)])
  /\ UNCHANGED <<sweep, now>>

\* A room exists: the first look under its lock decides whether this is the
\* host re-creating it.  The room's lock is then dropped.
Idempotent(r, m) ==
  /\ ~r.closing
  /\ r.host_peer_id = m.peer_id
  /\ r.host_verifier = FromToken(m.token)

\* Only the second outcome may need an unused handle.
CreateExisting(c, m) ==
  /\ MaySend(c) /\ RegistryFree
  /\ m.type = "create" /\ FromToken(m.token) # None
  /\ registry[m.session_id] # None
  /\ LET a == registry[m.session_id]
         pc == IF Idempotent(rooms[a], m) THEN "reconnect" ELSE "check"
     IN  /\ pc = "check" => Unused # {}
         /\ conn' = [conn EXCEPT ![c] = Send(c, m, pc, a)]
  /\ UNCHANGED <<rooms, registry, rooms_per_ip, sweep, now>>

\* Idempotent re-create: the caller is admitted under the room's host id and
\* remembers the peer id it asked for.
CreateReconnect(c) ==
  /\ conn[c].pc = "reconnect"
  /\ LET a == conn[c].handle
         m == conn[c].request
         res == ReconnectHost(rooms[a], Admission(c, m.meta))
     IN  /\ rooms' = [rooms EXCEPT ![a] = res.room]
         /\ conn' = AfterAdmission(c, a, m.peer_id, res.eff)
  /\ UNCHANGED <<registry, rooms_per_ip, sweep, now>>

\* Variant of CreateCheck: the lock is kept until the room is reclaimable.
CreateCheckWaiting(c) ==
  /\ conn[c].pc = "check"
  /\ IsReclaimable(rooms[conn[c].handle])
  /\ conn' = [conn EXCEPT ![c] = Goto(@, "reclaim")]
  /\ UNCHANGED <<rooms, registry, rooms_per_ip, sweep, now>>

\* is_reclaimable, under the room's lock; otherwise room_exists.
CreateCheck(c) ==
  /\ conn[c].pc = "check"
  /\ conn' = [conn EXCEPT ![c] = IF IsReclaimable(rooms[conn[c].handle])
                                 THEN Goto(@, "reclaim") ELSE Resume(@, None)]
  /\ UNCHANGED <<rooms, registry, rooms_per_ip, sweep, now>>

\* Variant of CreateReclaim: the old owner's slot is kept.
CreateReclaimKeepingSlot(c) ==
  /\ conn[c].pc = "reclaim"
  /\ LET a == conn[c].handle
         m == conn[c].request
     IN  OpenRoom(c, m, [rooms EXCEPT ![a].closing = TRUE],
                  [registry EXCEPT ![m.session_id] = None], rooms_per_ip, conn)
  /\ UNCHANGED <<sweep, now>>

\* The old room is closed (its lock taken again), unregistered and its slot
\* released; then a new one is opened in its place, if the caps allow it.
CreateReclaim(c) ==
  /\ conn[c].pc = "reclaim"
  /\ LET a == conn[c].handle
         m == conn[c].request
     IN  OpenRoom(c, m, [rooms EXCEPT ![a].closing = TRUE],
                  [registry EXCEPT ![m.session_id] = None],
                  Release(rooms_per_ip, rooms[a].owner_ip_key), conn)
  /\ UNCHANGED <<sweep, now>>
-----------------------------------------------------------------------------
(* join and resume *)

\* Registry::get, which waits for the write lock.
JoinLookup(c, m) ==
  /\ MaySend(c) /\ RegistryFree
  /\ m.type \in {"join", "resume"}
  /\ registry[m.session_id] # None
  /\ conn' = [conn EXCEPT ![c] = Send(c, m, "join", registry[m.session_id])]
  /\ UNCHANGED <<rooms, registry, rooms_per_ip, sweep, now>>

JoinEnter(c) ==
  /\ conn[c].pc = "join"
  /\ LET a == conn[c].handle
         m == conn[c].request
         res == JoinOrResume(rooms[a], m.peer_id, m.token, Admission(c, m.meta),
                             m.type = "resume", now)
     IN  /\ rooms' = [rooms EXCEPT ![a] = res.room]
         /\ conn' = AfterAdmission(c, a, m.peer_id, res.eff)
  /\ UNCHANGED <<registry, rooms_per_ip, sweep, now>>
-----------------------------------------------------------------------------
(* Requests of a connection that is in a room *)

InRoom(c) == conn[c].pc = "idle" /\ conn[c].seat # None

\* Room::leave up to the await on the snapshotter.  An unauthorized leave
\* only gets an error reply.
LeaveBegin(c, token, version_ok) ==
  /\ InRoom(c)
  /\ LET s == conn[c].seat
     IN  /\ MayBeginLeave(rooms[s.room], s.peer_id, s.conn_id, token, version_ok)
         /\ rooms' = [rooms EXCEPT ![s.room] = BeginLeave(@, s.peer_id)]
  /\ conn' = [conn EXCEPT ![c] = Goto(@, "leave")]
  /\ UNCHANGED <<registry, rooms_per_ip, sweep, now>>

\* The snapshotter answered.  The connection forgets the room unless the
\* reply carries an error code.
LeaveFinish(c, persisted) ==
  /\ conn[c].pc = "leave"
  /\ LET s == conn[c].seat
         res == FinishLeave(rooms[s.room], s.peer_id, s.conn_id, persisted, now)
     IN  /\ rooms' = [rooms EXCEPT ![s.room] = res.room]
         /\ conn' = [conn EXCEPT ![c] = Resume(@, IF Failed(res.eff) THEN s ELSE None)]
  /\ UNCHANGED <<registry, rooms_per_ip, sweep, now>>

\* Registry::end_session, first section.
EndBegin(c, token, version_ok) ==
  /\ InRoom(c)
  /\ LET s == conn[c].seat
     IN  /\ MayBeginEndSession(rooms[s.room], s.peer_id, s.conn_id, token, version_ok)
         /\ rooms' = [rooms EXCEPT ![s.room] = BeginEndSession(@)]
  /\ conn' = [conn EXCEPT ![c] = Goto(@, "end_remove")]
  /\ UNCHANGED <<registry, rooms_per_ip, sweep, now>>

\* An endSession that is refused: handle_message clears current_room all the
\* same, and the room is not told.
EndRefused(c, token, version_ok) ==
  /\ InRoom(c)
  /\ LET s == conn[c].seat
     IN  ~MayBeginEndSession(rooms[s.room], s.peer_id, s.conn_id, token, version_ok)
  /\ conn' = [conn EXCEPT ![c] = Resume(@, None)]
  /\ UNCHANGED <<rooms, registry, rooms_per_ip, sweep, now>>

\* Variant of EndRemove: whatever room the session maps to is removed.
EndRemoveUnchecked(c) ==
  /\ conn[c].pc = "end_remove" /\ RegistryFree
  /\ registry' = [registry EXCEPT ![rooms[conn[c].seat.room].session_id] = None]
  /\ conn' = [conn EXCEPT ![c] = Goto(@, "end_release")]
  /\ UNCHANGED <<rooms, rooms_per_ip, sweep, now>>

\* The registry's write lock: removal if the session still maps to this room.
EndRemove(c) ==
  /\ conn[c].pc = "end_remove" /\ RegistryFree
  /\ LET a == conn[c].seat.room
         id == rooms[a].session_id
     IN  registry' = [registry EXCEPT ![id] = IF @ = a THEN None ELSE @]
  /\ conn' = [conn EXCEPT ![c] = Goto(@, "end_release")]
  /\ UNCHANGED <<rooms, rooms_per_ip, sweep, now>>

\* release_room_quota, whether or not the room was still registered.
EndRelease(c) ==
  /\ conn[c].pc = "end_release"
  /\ rooms_per_ip' = Release(rooms_per_ip, rooms[conn[c].seat.room].owner_ip_key)
  /\ conn' = [conn EXCEPT ![c] = Goto(@, "end_finish")]
  /\ UNCHANGED <<rooms, registry, sweep, now>>

\* The snapshotter answered: everyone is evicted, either way.
EndFinish(c, persisted) ==
  /\ conn[c].pc = "end_finish"
  /\ LET a == conn[c].seat.room
         res == FinishEndSession(rooms[a], {}, persisted)
     IN  /\ rooms' = [rooms EXCEPT ![a] = res.room]
         /\ conn' = Cancel([conn EXCEPT ![c] = Resume(@, None)], a, res.eff.evict)
  /\ UNCHANGED <<registry, rooms_per_ip, sweep, now>>

\* transferHost, broadcast and sendTo: one section each, which leaves the
\* caller's room in the state given.
Call(c, room) ==
  /\ InRoom(c)
  /\ rooms' = [rooms EXCEPT ![conn[c].seat.room] = room]
  /\ UNCHANGED <<registry, rooms_per_ip, conn, sweep, now>>

CallTransferHost(c, version_ok, target) ==
  LET s == conn[c].seat
  IN  Call(c, TransferHost(rooms[s.room], s.peer_id, s.conn_id, version_ok, target).room)

CallBroadcast(c) ==
  LET s == conn[c].seat
  IN  Call(c, Broadcast(rooms[s.room], s.peer_id, s.conn_id, now).room)

CallSendTo(c, target) ==
  LET s == conn[c].seat
  IN  Call(c, SendTo(rooms[s.room], s.peer_id, s.conn_id, target, now).room)

\* The read loop ends: the room is told, the connection is gone.
Close(c) ==
  /\ conn[c].pc = "idle"
  /\ IF conn[c].seat = None THEN rooms' = rooms
     ELSE LET s == conn[c].seat
          IN  rooms' = [rooms EXCEPT ![s.room] =
                          HandleDisconnect(@, s.peer_id, s.conn_id, now).room]
  /\ conn' = [conn EXCEPT ![c] = [Resume(@, None) EXCEPT !.pc = "closed"]]
  /\ UNCHANGED <<registry, rooms_per_ip, sweep, now>>

\* The socket fails, is closed, or misses its pong deadline.
SocketClosed(c) == Close(c)

\* The connection's cancellation token fires.
Evicted(c) == conn[c].cancelled /\ Close(c)
-----------------------------------------------------------------------------
(* The cleanup task: cleanup::sweep and Registry::remove_if_current *)

\* On to the next room of the list, or done.
SweepNext(todo, started) ==
  IF todo = {} THEN SweepIdle
  ELSE [SweepIdle EXCEPT !.pc = "visit", !.now = started, !.todo = todo]

SweepBegin ==
  /\ sweep.pc = "idle" /\ RegistryFree
  /\ sweep' = SweepNext(Registered, now)
  /\ UNCHANGED <<rooms, registry, rooms_per_ip, conn, now>>

SweepVisit(a) ==
  /\ sweep.pc = "visit" /\ a \in sweep.todo
  /\ LET res == SweepState(rooms[a], sweep.now, now)
         todo == sweep.todo \ {a}
     IN  /\ rooms' = [rooms EXCEPT ![a] = res.room]
         /\ sweep' = IF res.remove
                     THEN [sweep EXCEPT !.pc = "remove", !.todo = todo, !.handle = a,
                                        !.evict = res.evict]
                     ELSE SweepNext(todo, sweep.now)
  /\ UNCHANGED <<registry, rooms_per_ip, conn, now>>

SweepRemove ==
  /\ sweep.pc = "remove" /\ RegistryFree
  /\ LET id == rooms[sweep.handle].session_id
     IN  /\ registry' = [registry EXCEPT ![id] = IF @ = sweep.handle THEN None ELSE @]
         /\ sweep' = [sweep EXCEPT !.pc = "finish",
                                   !.removed = registry[id] = sweep.handle]
  /\ UNCHANGED <<rooms, rooms_per_ip, conn, now>>

\* Variant of SweepFinish: nobody is cancelled.
SweepFinishSilently ==
  /\ sweep.pc = "finish"
  /\ rooms_per_ip' = IF sweep.removed
                     THEN Release(rooms_per_ip, rooms[sweep.handle].owner_ip_key)
                     ELSE rooms_per_ip
  /\ sweep' = SweepNext(sweep.todo, sweep.now)
  /\ UNCHANGED <<rooms, registry, conn, now>>

\* The quota slot is released if the room was removed; the evicted
\* connections are cancelled.
SweepFinish ==
  /\ sweep.pc = "finish"
  /\ rooms_per_ip' = IF sweep.removed
                     THEN Release(rooms_per_ip, rooms[sweep.handle].owner_ip_key)
                     ELSE rooms_per_ip
  /\ conn' = Cancel(conn, sweep.handle, sweep.evict)
  /\ sweep' = SweepNext(sweep.todo, sweep.now)
  /\ UNCHANGED <<rooms, registry, now>>

Tick ==
  /\ now < MaxTime
  /\ now' = now + 1
  /\ UNCHANGED <<rooms, registry, rooms_per_ip, conn, sweep>>
-----------------------------------------------------------------------------
(* The handler of c moves on: steps that need no message from the client. *)
HandlerStep(c) ==
  \/ CreateReconnect(c) \/ CreateCheck(c) \/ CreateReclaim(c)
  \/ JoinEnter(c)
  \/ \E persisted \in BOOLEAN : LeaveFinish(c, persisted) \/ EndFinish(c, persisted)
  \/ EndRemove(c) \/ EndRelease(c)

\* The client of c sends a message or its socket closes.
ClientStep(c) ==
  \/ \E m \in Requests : CreateNew(c, m) \/ CreateExisting(c, m) \/ JoinLookup(c, m)
  \/ \E token \in Tokens \cup {BadToken}, version_ok \in BOOLEAN :
        \/ LeaveBegin(c, token, version_ok)
        \/ EndBegin(c, token, version_ok)
        \/ EndRefused(c, token, version_ok)
  \/ \E target \in PeerIds :
        \/ \E version_ok \in BOOLEAN : CallTransferHost(c, version_ok, target)
        \/ CallSendTo(c, target)
  \/ CallBroadcast(c)
  \/ SocketClosed(c)

SweepStep ==
  \/ SweepBegin \/ SweepRemove \/ SweepFinish
  \/ \E a \in Handles : SweepVisit(a)

Next ==
  \/ \E c \in Conns : HandlerStep(c) \/ ClientStep(c) \/ Evicted(c)
  \/ SweepStep
  \/ Tick

Spec == Init /\ [][Next]_vars
-----------------------------------------------------------------------------
(* Properties *)

\* The types of the state, between any two steps of any handlers.
TypeOK ==
  /\ rooms \in [Handles -> Rooms \cup {None}]
  /\ registry \in [Sessions -> Handles \cup {None}]
  /\ rooms_per_ip \in [Ips -> Nat]
  /\ conn \in [Conns -> ConnStates]
  /\ sweep \in SweepStates
  /\ now \in Nat

Open(a) == rooms[a] # None /\ ~rooms[a].closing

\* The capacity check of join_or_resume counts reservations only.  It bounds
\* the connected roster as well, because whoever is connected is the host or
\* holds a reservation and the host never holds one: through joins, resumes,
\* host transfers, leaves, prunes, re-creates and disconnects in any order.
RosterBounded ==
  \A a \in Handles : rooms[a] # None =>
    /\ rooms[a].host_peer_id \notin Reserved(rooms[a])
    /\ Connected(rooms[a]) \subseteq Reserved(rooms[a]) \cup {rooms[a].host_peer_id}
    /\ Cardinality(Reserved(rooms[a])) <= MAX_ROOM_SIZE - 1
    /\ Cardinality(Connected(rooms[a])) <= MAX_ROOM_SIZE

\* While a leave awaits the snapshotter with no lock held, the identity is
\* frozen: as long as the room is open the leaver keeps its entry and its
\* reservation and is not made host, so finish_leave commits or rolls back
\* exactly what begin_leave marked.  And no mark outlives its leave.
PendingLeaveProtected ==
  \A a \in Handles : Open(a) =>
    /\ \A c \in Conns :
         conn[c].pc = "leave" /\ conn[c].seat.room = a =>
           /\ StillOwns(rooms[a], conn[c].seat.peer_id, conn[c].seat.conn_id)
           /\ conn[c].seat.peer_id # rooms[a].host_peer_id
    /\ \A p \in Reserved(rooms[a]) :
         rooms[a].reservations[p].release_pending =>
           /\ rooms[a].peers[p] # None
           /\ \E c \in Conns : /\ conn[c].pc = "leave"
                             /\ conn[c].seat = Seat(a, p, rooms[a].peers[p].conn_id)

\* The room still has the entry that the connection was given.
HoldsSeat(c) ==
  \E p \in PeerIds : IsCurrent(rooms[conn[c].seat.room], p, conn[c].seat.conn_id)

EvictionPending(c) ==
  /\ sweep.handle = conn[c].seat.room
  /\ \E o \in sweep.evict : o.conn = c /\ o.conn_id = conn[c].seat.conn_id

\* A connection that believes it is in a room and has lost its entry there
\* (replaced by a join, resume or re-create, or torn down by endSession or an
\* expiry sweep) has been cancelled, or the sweep is about to cancel it.
SeatLostIsCancelled ==
  \A c \in Conns :
    conn[c].seat # None => HoldsSeat(c) \/ conn[c].cancelled \/ EvictionPending(c)

\* In an open room the grace clock of a guest runs exactly while the guest is
\* disconnected (the comment on PeerReservation.absent_since).
GraceClockRuns ==
  \A a \in Handles : Open(a) =>
    \A p \in Reserved(rooms[a]) :
      rooms[a].reservations[p].absent_since = None <=> p \in Connected(rooms[a])

\* No step gives an identity of an open room to another token or frees it,
\* except that a guest's own leave commits or its grace period has run out.
\* A host transfer moves the role, never the ownership.
IdentityContinuity ==
  [][\A a \in Handles, p \in PeerIds :
       Open(a) /\ Open(a)' =>
         \/ Owner(rooms[a], p) = None
         \/ Owner(rooms'[a], p) = Owner(rooms[a], p)
         \/ p \in Expired(rooms[a], now)
         \/ /\ Owner(rooms'[a], p) = None
            /\ \E c \in Conns :
                 /\ conn[c].pc = "leave" /\ conn'[c].pc = "idle"
                 /\ conn[c].seat.room = a /\ conn[c].seat.peer_id = p]_vars

\* Every registered handle is a room of that session, and a room that is not
\* registered is closing: a connection that fetched a handle before the room
\* was removed cannot join it afterwards.  In particular no removal ever hits
\* a room that replaced the one it meant.
RegistryCoherent ==
  /\ \A s \in Sessions : registry[s] # None =>
       rooms[registry[s]] # None /\ rooms[registry[s]].session_id = s
  /\ \A a \in Handles : Open(a) => a \in Registered

OwnedBy(ip) == {a \in Registered : rooms[a].owner_ip_key = ip}

\* Rooms of ip that are unregistered and whose slot is still to be released.
Unreleased(ip) ==
  Cardinality({c \in Conns : /\ conn[c].pc = "end_release"
                             /\ rooms[conn[c].seat.room].owner_ip_key = ip})
  + (IF /\ sweep.pc = "finish" /\ sweep.removed
        /\ rooms[sweep.handle].owner_ip_key = ip THEN 1 ELSE 0)

\* A quota slot is never leaked: what an address is charged for is at most
\* its registered rooms and the releases under way, whichever of endSession,
\* reclaim and the sweep removed a room and however they interleave.
QuotaNeverLeaks ==
  \A ip \in Ips : rooms_per_ip[ip] <= Cardinality(OwnedBy(ip)) + Unreleased(ip)

\* Whenever the host may hand over to a guest, the guest may hand back, and
\* that restores host, verifiers and reservations exactly.
TransferReversible ==
  \A a \in Handles : Open(a) =>
    LET r == rooms[a]
        h == r.host_peer_id
    IN  \A t \in Connected(r) :
          h \in Connected(r) /\ TransferError(r, h, r.peers[h].conn_id, TRUE, t) = None
            => LET s == SwapHost(r, t)
               IN  /\ TransferError(s, t, s.peers[t].conn_id, TRUE, h) = None
                   /\ SwapHost(s, h) = r
-----------------------------------------------------------------------------
(* Liveness.  Tokio polls every task that is ready and its locks are fair; *)
(* the snapshotter resolves or drops the waiter of every terminal command; *)
(* the cleanup task's interval ticks for ever.  Nothing makes a client     *)
(* send or hang up, and no clock tick is required.                         *)

Fairness ==
  /\ \A c \in Conns : WF_vars(HandlerStep(c) \/ Evicted(c))
  /\ WF_vars(SweepStep)

FairSpec == Spec /\ Fairness

\* Every handler that started comes back to its read loop.  In particular an
\* endSession that has closed its room does not wait for ever on the registry's
\* lock, which create holds across its awaits.  (A create or join that still
\* waits for that lock has not started here.)
HandlersFinish ==
  \A c \in Conns : []<>(conn[c].pc \in {"idle", "closed"})

\* A connection that lost its entry is eventually closed, or has left the room
\* behind of its own accord: the token of a replaced or swept entry is
\* cancelled, and the select! of its read loop sees it.
LostSeatsGo ==
  \A c \in Conns : []<>(conn[c].seat = None \/ HoldsSeat(c))

\* "Any room, occupied or not, is evicted once this old" (ROOM_MAX_AGE).
ExpiredRoomsGo ==
  \A id \in Sessions :
    []<>(registry[id] # None => now - rooms[registry[id]].created_at <= ROOM_MAX_AGE)
-----------------------------------------------------------------------------
(* What comments of the code say and these steps do not keep. *)

\* connection.rs, AlreadyInRoom: "Leave the current room before creating or
\* joining another".  One connection occupies at most one identity.
AtMostOneSeat ==
  \A c \in Conns :
    Cardinality({x \in Handles \X PeerIds :
                   /\ Open(x[1]) /\ rooms[x[1]].peers[x[2]] # None
                   /\ rooms[x[1]].peers[x[2]].conn = c}) <= 1

\* registry.rs: "per-owner-IP room-creation quota".  An address never owns
\* more than MAX_ROOMS_PER_IP registered rooms.
RoomsPerIpBounded ==
  \A ip \in Ips : Cardinality(OwnedBy(ip)) <= MAX_ROOMS_PER_IP

\* room.rs, is_reclaimable: a room is empty when create reclaims it.
ReclaimsOnlyEmpty ==
  \A c \in Conns : conn[c].pc = "reclaim" => Connected(rooms[conn[c].handle]) = {}

\* room.rs, reconnect_host: "same sessionId + hostPeerId".  The entry a
\* connection was given is the one of the peer id it asked for.
SeatNamesEntry ==
  \A c \in Conns : conn[c].seat # None =>
    \A p \in PeerIds :
      IsCurrent(rooms[conn[c].seat.room], p, conn[c].seat.conn_id)
        => p = conn[c].seat.peer_id

\* room.rs, Eviction: "a stale/replaced connection to force-close".  So is one
\* that the sweep or an endSession evicts while its leave awaits the
\* snapshotter: the end of the leave does not undo the cancellation.
EvictedWhileLeavingCloses ==
  [][\A c \in Conns :
       conn[c].pc = "leave" /\ conn[c].cancelled
         => conn'[c].cancelled \/ conn'[c].pc = "closed"]_vars
=============================================================================
