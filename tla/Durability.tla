----------------------------- MODULE Durability -----------------------------
(***************************************************************************)
(* The relay with its state file: the rooms, registry, connections and     *)
(* sweep of Relay, the writer of Snapshotter, crashes, and the start of a  *)
(* process from the file (load_snapshot, Registry::restore).               *)
(*                                                                         *)
(* A handler tells the writer after it has released the room's lock.  Here *)
(* it does so in the step that changes the room: a command only makes a    *)
(* later write happen, and the queue delays it at will.  A handler that    *)
(* sends Mutate twice (create, then apply_effects) sends it once.          *)
(*                                                                         *)
(* One clock stands for Instant and SystemTime; milliseconds since the     *)
(* epoch are its values.                                                   *)
(***************************************************************************)
EXTENDS Relay

CONSTANTS
  MaxCommands,   \* bounds the commands one process sends to the writer
  MaxFaults      \* bounds the crashes and the writes that fail

VARIABLES
  cmds, writer_pc, flushing, dirty_seq, durable_seq, waiters, image, answers, disk,
  building,      \* handles build_snapshot has still to lock
  left,          \* identities whose clients this process told "left"
  ended,         \* rooms whose clients this process told "ended"
  failures,
  crashes

INSTANCE Snapshotter WITH Callers <- Conns

writerVars ==
  <<cmds, writer_pc, flushing, dirty_seq, durable_seq, waiters, image, answers, disk>>
history == <<left, ended>>
bounds == <<failures, crashes>>
dvars == <<vars, writerVars, building, history, bounds>>

ReservationDtos == [verifier : Verifiers, absent_since : Nat \cup {None}]

\* "room" is not in the file: it tells an entry of this room from one of its
\* successor, for the properties.
RoomDtos ==
  [room : Handles, session_id : Sessions, host_peer_id : PeerIds,
   host_verifier : Verifiers, reservations : [PeerIds -> ReservationDtos \cup {None}],
   created_at : Nat, last_activity_at : Nat]

ASSUME DurabilityConstants ==
  /\ NoIp \in Ips
  /\ MaxCommands \in Nat /\ MaxFaults \in Nat
  /\ None \notin ReservationDtos \cup RoomDtos

NoRooms == [s \in Sessions |-> None]

DInit ==
  /\ Init
  /\ Started(NoRooms) /\ disk = NoRooms
  /\ building = {} /\ left = {} /\ ended = {} /\ failures = 0 /\ crashes = 0
-----------------------------------------------------------------------------
(* The file *)

\* Variant of Saved: only the reservations of absent guests are written.
SavedIfAbsent(r) == [p \in PeerIds |->
  IF r.reservations[p] = None \/ p \in Connected(r) THEN None
  ELSE [verifier |-> r.reservations[p].verifier,
        absent_since |-> r.reservations[p].absent_since]]

\* Variant of Saved: reservations being released are written too.
SavedWhileLeaving(r) == [p \in PeerIds |->
  IF r.reservations[p] = None THEN None
  ELSE [verifier |-> r.reservations[p].verifier,
        absent_since |-> r.reservations[p].absent_since]]

\* A reservation is written unless it is being released.
Saved(r) == [p \in PeerIds |->
  IF r.reservations[p] = None \/ p \notin Transferable(r) THEN None
  ELSE [verifier |-> r.reservations[p].verifier,
        absent_since |-> r.reservations[p].absent_since]]

BuildRoomDto(a, r) ==
  [room |-> a, session_id |-> r.session_id, host_peer_id |-> r.host_peer_id,
   host_verifier |-> r.host_verifier, reservations |-> Saved(r),
   created_at |-> r.created_at, last_activity_at |-> r.last_activity_at]

\* The age and idle limits of load_snapshot.
Stale(dto, time) ==
  \/ Since(time, dto.created_at) > ROOM_MAX_AGE
  \/ Since(time, dto.last_activity_at) > EMPTY_ROOM_MAX_AGE

\* The shape load_snapshot insists on.
Valid(dto) == dto.reservations[dto.host_peer_id] = None

Loads(dto, time) == dto # None /\ ~Stale(dto, time) /\ Valid(dto)

\* A grace period goes on where it was, unless it began before the monotonic
\* clock did: Instant::now() is then taken instead.
RestoredAbsence(absent_since, time, uptime) ==
  IF absent_since = None THEN None
  ELSE IF Since(time, absent_since) <= uptime THEN time - Since(time, absent_since)
  ELSE time

\* Variant of RestoreRoom: charged to an address rather than to the empty key.
RestoreRoomCharged(dto, time, uptime) ==
  [session_id |-> dto.session_id, host_peer_id |-> dto.host_peer_id,
   host_verifier |-> dto.host_verifier,
   peers |-> [p \in PeerIds |-> None],
   reservations |-> [p \in PeerIds |->
     IF dto.reservations[p] = None THEN None
     ELSE [verifier |-> dto.reservations[p].verifier,
           absent_since |-> RestoredAbsence(dto.reservations[p].absent_since, time, uptime),
           release_pending |-> FALSE]],
   owner_ip_key |-> CHOOSE i \in Ips : i # NoIp, created_at |-> dto.created_at,
   last_activity_at |-> dto.last_activity_at, closing |-> FALSE, next_conn_id |-> 1]

\* RoomState::restore: nobody is connected.
RestoreRoom(dto, time, uptime) ==
  [session_id |-> dto.session_id, host_peer_id |-> dto.host_peer_id,
   host_verifier |-> dto.host_verifier,
   peers |-> [p \in PeerIds |-> None],
   reservations |-> [p \in PeerIds |->
     IF dto.reservations[p] = None THEN None
     ELSE [verifier |-> dto.reservations[p].verifier,
           absent_since |-> RestoredAbsence(dto.reservations[p].absent_since, time, uptime),
           release_pending |-> FALSE]],
   owner_ip_key |-> NoIp, created_at |-> dto.created_at,
   last_activity_at |-> dto.last_activity_at, closing |-> FALSE, next_conn_id |-> 1]

\* The process ends and another starts.  Registry::restore opens a room for
\* every entry that loads and charges it to the empty key.  uptime is how far
\* back the monotonic clock goes: to the start of time, or to this instant
\* when the machine was restarted too.  What the old process told its clients
\* need not be remembered: the new one knows the file and no more.
Restart ==
  /\ failures + crashes < MaxFaults /\ crashes' = crashes + 1
  /\ LET loaded == {s \in Sessions : Loads(disk[s], now)}
     IN  \E at \in [loaded -> Handles], uptime \in {0, now} :
           /\ \A s, t \in loaded : at[s] = at[t] => s = t
           /\ rooms' = [a \in Handles |->
                IF \E s \in loaded : at[s] = a
                THEN RestoreRoom(disk[CHOOSE s \in loaded : at[s] = a], now, uptime)
                ELSE None]
           /\ registry' = [s \in Sessions |-> IF s \in loaded THEN at[s] ELSE None]
           /\ rooms_per_ip' = [i \in Ips |-> IF i = NoIp THEN Cardinality(loaded) ELSE 0]
  /\ conn' = [c \in Conns |-> Fresh]
  /\ sweep' = SweepIdle
  /\ now' = now
  /\ Restarted(NoRooms)
  /\ building' = {} /\ left' = {} /\ ended' = {}
  /\ UNCHANGED failures
-----------------------------------------------------------------------------
(* Connections and sweep, with what they tell the writer *)

\* A bound: the clock ticks, and main shuts the writer down, only before the
\* first fault (which may then befall the last write, or restart the process).
NoFaultYet == failures + crashes = 0

MaySendCommand == dirty_seq + Len(cmds) < MaxCommands

Announce(dirty) ==
  IF dirty THEN MaySendCommand /\ RecordMutation ELSE UNCHANGED writerVars

\* Who was told "left", less whoever has claimed the identity again since.
RememberLeft(gone) ==
  left' = {x \in left \cup gone : Owner(rooms'[x.room], x.peer_id) # x.verifier}

\* A connection is admitted to a room, or refused.
Admitting(c) ==
  /\ \/ CreateReconnect(c) \/ CreateReclaim(c) \/ JoinEnter(c)
     \/ \E m \in Requests : CreateNew(c, m)
  /\ Announce(conn'[c].seat # None)
  /\ RememberLeft({}) /\ UNCHANGED ended

\* Variant of Changing: the writer is not told.
ChangingQuietly(c) ==
  /\ \/ \E version_ok \in BOOLEAN, target \in PeerIds : CallTransferHost(c, version_ok, target)
     \/ SocketClosed(c) \/ Evicted(c)
  /\ UNCHANGED <<writerVars, history>>

\* Steps that end with a command only if they changed the room.
Changing(c) ==
  /\ \/ \E version_ok \in BOOLEAN, target \in PeerIds : CallTransferHost(c, version_ok, target)
     \/ SocketClosed(c) \/ Evicted(c)
  /\ Announce(rooms' # rooms)
  /\ UNCHANGED history

\* Steps no command follows, traffic among them.
Silent(c) ==
  /\ \/ CreateCheck(c) \/ EndRemove(c)
     \/ \E m \in Requests : CreateExisting(c, m) \/ JoinLookup(c, m)
     \/ \E token \in Tokens \cup {BadToken}, version_ok \in BOOLEAN :
          EndRefused(c, token, version_ok)
     \/ \E target \in PeerIds : CallSendTo(c, target)
     \/ CallBroadcast(c)
  /\ UNCHANGED <<writerVars, history>>

\* A leave or an endSession is sent to the writer and awaits it.
Terminating(c) ==
  /\ \/ \E token \in Tokens \cup {BadToken}, version_ok \in BOOLEAN :
          LeaveBegin(c, token, version_ok)
     \/ EndRelease(c)
  /\ MaySendCommand /\ RecordTerminalMutation(c)
  /\ UNCHANGED history

EndBegins(c) ==
  /\ \E token \in Tokens \cup {BadToken}, version_ok \in BOOLEAN : EndBegin(c, token, version_ok)
  /\ UNCHANGED <<writerVars, history>>

Answered(c) == answers[c] \in {"ok", "err"}

\* The leave is committed or rolled back, and the client told.
LeaveEnds(c) ==
  /\ Answered(c) /\ LeaveFinish(c, answers[c] = "ok")
  /\ LET s == conn[c].seat
         r == rooms[s.room]
         done == rooms'[s.room].reservations[s.peer_id] = None
                   /\ r.reservations[s.peer_id] # None
     IN  /\ done => MaySendCommand
         /\ TakeAnswer(c, done)
         /\ RememberLeft(IF done THEN {[room |-> s.room, peer_id |-> s.peer_id,
                                        verifier |-> r.reservations[s.peer_id].verifier]}
                         ELSE {})
  /\ UNCHANGED ended

EndEnds(c) ==
  /\ Answered(c) /\ EndFinish(c, answers[c] = "ok")
  /\ TakeAnswer(c, FALSE)
  /\ ended' = IF answers[c] = "ok" THEN ended \cup {conn[c].seat.room} ELSE ended
  /\ UNCHANGED left

\* The sweep tells the writer when it pruned or removed something.
Sweeping ==
  /\ \/ (SweepBegin \/ SweepRemove) /\ UNCHANGED writerVars
     \/ \E a \in Handles : SweepVisit(a) /\ Announce(rooms' # rooms /\ sweep'.pc # "remove")
     \/ SweepFinish /\ Announce(TRUE)
  /\ UNCHANGED history

RelayStep ==
  /\ \/ \E c \in Conns : \/ Admitting(c) \/ Changing(c) \/ Silent(c) \/ Terminating(c)
                         \/ EndBegins(c) \/ LeaveEnds(c) \/ EndEnds(c)
     \/ Sweeping
     \/ NoFaultYet /\ Tick /\ UNCHANGED <<writerVars, history>>
  /\ UNCHANGED <<building, bounds>>
-----------------------------------------------------------------------------
(* The writer: build_snapshot reads the map, then locks room after room *)

BeginBuild ==
  /\ ReceiveTerminal(NoRooms) \/ ReceiveFlush(NoRooms) \/ Debounce(NoRooms)
  /\ building' = {}
  /\ UNCHANGED <<vars, history, bounds>>

\* The list of handles, read under the registry's lock.
BuildList ==
  /\ writer_pc = "build" /\ RegistryFree /\ building = {}
  /\ IF Registered = {} THEN Captured(NoRooms) /\ building' = {}
     ELSE building' = Registered /\ UNCHANGED writerVars
  /\ UNCHANGED <<vars, history, bounds>>

\* One room, under its lock; a closing room is skipped.
BuildVisit(a) ==
  /\ writer_pc = "build" /\ a \in building
  /\ LET r == rooms[a]
         content == IF r.closing THEN image
                    ELSE [image EXCEPT ![r.session_id] = BuildRoomDto(a, r)]
     IN  IF building = {a} THEN Captured(content)
         ELSE image' = content
              /\ UNCHANGED <<cmds, writer_pc, flushing, dirty_seq, durable_seq,
                             waiters, answers, disk>>
  /\ building' = building \ {a}
  /\ UNCHANGED <<vars, history, bounds>>

Persist ==
  /\ \/ Write(TRUE) /\ UNCHANGED failures
     \/ Write(FALSE) /\ failures + crashes < MaxFaults /\ failures' = failures + 1
  /\ UNCHANGED <<vars, history, building, crashes>>

WriterStep ==
  \/ ReceiveMutate /\ UNCHANGED <<vars, history, building, bounds>>
  \/ BeginBuild \/ BuildList \/ Persist
  \/ \E a \in Handles : BuildVisit(a)

Shutdown == NoFaultYet /\ RequestFlush /\ UNCHANGED <<vars, history, building, bounds>>

DNext == RelayStep \/ WriterStep \/ Shutdown \/ Restart

DSpec == DInit /\ [][DNext]_dvars
-----------------------------------------------------------------------------
(* Properties *)

DtoOwner(dto, p) ==
  IF p = dto.host_peer_id THEN dto.host_verifier
  ELSE IF dto.reservations[p] = None THEN None ELSE dto.reservations[p].verifier

\* snapshot.rs: "a client is never told `left`/`ended` succeeded before it's
\* durable".  Once a guest was told "left", no file a later process may start
\* from gives the identity back to its token, unless it was claimed anew:
\* whatever other writes are under way, fail or are cut short by a crash.
LeftIsDurable ==
  \A s \in Sessions, x \in left :
    disk[s] # None /\ disk[s].room = x.room => DtoOwner(disk[s], x.peer_id) # x.verifier

\* And once a host was told "ended", no restart brings the room back.
EndedIsDurable == \A s \in Sessions : disk[s] # None => disk[s].room \notin ended

\* load_snapshot never has to throw away, for its shape, what build_snapshot
\* wrote: even one taken room by room while hosts hand over and guests leave.
DiskWellFormed ==
  \A s \in Sessions : disk[s] # None =>
    /\ disk[s].session_id = s /\ Valid(disk[s])
    /\ Cardinality({p \in PeerIds : disk[s].reservations[p] # None}) <= MAX_ROOM_SIZE - 1

\* Nothing is on its way from the rooms to the file.
AtRest ==
  /\ Settled /\ sweep.pc = "idle"
  /\ \A c \in Conns : conn[c].pc \in {"idle", "closed", "join", "reconnect", "check", "reclaim"}

\* Reservations that are not past their grace period.
Live(reservations) ==
  {p \in PeerIds :
     /\ reservations[p] # None
     /\ \/ reservations[p].absent_since = None
        \/ Since(now, reservations[p].absent_since) < PEER_RESERVATION_GRACE}

\* The same owner, and the same clock unless a machine's restart reset it.
SameClaim(d, m) ==
  /\ d # None /\ m # None /\ d.verifier = m.verifier
  /\ \/ d.absent_since = m.absent_since
     \/ d.absent_since # None /\ m.absent_since # None /\ d.absent_since < m.absent_since

\* When the writer is at rest, and no write has failed, the file says what the rooms say, entries that
\* are too old to be loaded aside: the same sessions, hosts, and live
\* reservations with their clocks, and for a room nobody is connected to the
\* time it has been idle since.  (After a failed write a leave is rolled back
\* and an endSession is not, without a word to the writer.)
RestingDiskMatches ==
  AtRest /\ failures = 0 => \A s \in Sessions :
    /\ registry[s] = None => ~Loads(disk[s], now)
    /\ registry[s] # None =>
         LET r == rooms[registry[s]]
         IN  /\ disk[s] # None
             /\ disk[s].host_peer_id = r.host_peer_id
             /\ disk[s].host_verifier = r.host_verifier
             /\ Live(disk[s].reservations) \subseteq Live(r.reservations)
             /\ \A p \in Live(r.reservations) : SameClaim(disk[s].reservations[p], Saved(r)[p])
             /\ Connected(r) = {} => disk[s].last_activity_at = r.last_activity_at

\* A restart at rest keeps every identity with its owner, through the file and
\* back, whether its peer was connected, absent, host or guest, unless a failed
\* write has left the file behind.
RestartKeepsIdentities ==
  [][crashes' # crashes /\ AtRest /\ failures = 0 =>
       \A s \in Sessions : registry[s] # None /\ Loads(disk[s], now) =>
         /\ registry'[s] # None
         /\ \A p \in Live(rooms[registry[s]].reservations) \cup {rooms[registry[s]].host_peer_id} :
              Owner(rooms'[registry'[s]], p) = Owner(rooms[registry[s]], p)]_dvars
=============================================================================
