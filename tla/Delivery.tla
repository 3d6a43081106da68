------------------------------ MODULE Delivery ------------------------------
(***************************************************************************)
(* What becomes of the effects of a room's methods: the connection actors  *)
(* of src/src/connection.rs around one room of module RoomState.  A        *)
(* handler runs a method under the room's lock and applies its effects     *)
(* after the lock is dropped, one try_send at a time, while the handlers   *)
(* of other connections do the same on other threads.  Every connection    *)
(* has a bounded queue and a task that writes it to the socket.            *)
(*                                                                         *)
(* A frame carries who queued it, for which of its requests, and its place *)
(* among the sends of that request; the code has no such tag.  Time stands *)
(* still, so no reservation expires, and the snapshotter is its answer.    *)
(***************************************************************************)
EXTENDS RoomState, Functions

CONSTANTS
  Metas,                      \* declared sync version and capability of a client
  OUTBOUND_CHANNEL_CAPACITY,  \* connection.rs: 64
  MaxRequests,                \* bounds the messages a connection handles
  Failing                     \* the connections whose sockets may close or fail

VARIABLES
  room,       \* the room, None before it is created
  seat,       \* current_peer_id and current_conn_id, None outside the room
  pc,         \* where the read loop of a connection is
  handled,    \* how many messages it has handled, the end of the socket included
  pending,    \* the sends it still has to do
  evict,      \* the tokens it cancels after them
  guests,     \* the senders begin_end_session returned
  cancelled,  \* the tokens that are cancelled, by conn_id
  outbox,     \* the mpsc channel of a connection
  open,       \* its write task is running
  wire        \* what its client was sent

vars == <<room, seat, pc, handled, pending, evict, guests, cancelled, outbox, open, wire>>

ASSUME DeliveryConstants ==
  /\ Metas \subseteq [sync_protocol_version : Int, host_transfer_capable : BOOLEAN]
  /\ OUTBOUND_CHANNEL_CAPACITY \in Nat \ {0}
  /\ MaxRequests \in [Conns -> Nat] /\ Failing \subseteq Conns
  /\ Sessions # {} /\ Ips # {} /\ None \notin Rooms

Steps == {"reading", "applying", "leaving", "ending", "closing", "gone"}

Init ==
  /\ room = None
  /\ seat = [c \in Conns |-> None]
  /\ pc = [c \in Conns |-> "reading"]
  /\ handled = [c \in Conns |-> 0]
  /\ pending = [c \in Conns |-> {}]
  /\ evict = [c \in Conns |-> {}]
  /\ guests = {} /\ cancelled = {}
  /\ outbox = [c \in Conns |-> <<>>]
  /\ open = [c \in Conns |-> TRUE]
  /\ wire = [c \in Conns |-> <<>>]
-----------------------------------------------------------------------------
(* Handling a message *)

\* A send of the message c is handling: the reply is send 0, and a broadcast
\* has its place in the list.
Send(c, e, i, msg) ==
  [to |-> e, frame |-> [by |-> c, n |-> handled'[c], i |-> i, msg |-> msg]]

\* The sends of apply_effects: the reply, and every broadcast to its peers.
Sends(c, eff) ==
  {Send(c, [conn |-> c], 0, msg) : msg \in {eff.reply} \ {None}}
    \cup UNION {{Send(c, e, i, eff.broadcast[i].msg) : e \in eff.broadcast[i].to} :
                  i \in DOMAIN eff.broadcast}

\* A method has returned and the lock is dropped.
Returned(c, res, then) ==
  /\ room' = res.room
  /\ pending' = [pending EXCEPT ![c] = Sends(c, res.eff)]
  /\ evict' = [evict EXCEPT ![c] = {e.conn_id : e \in res.eff.evict}]
  /\ pc' = [pc EXCEPT ![c] = then]
  /\ UNCHANGED <<guests, cancelled, outbox, open, wire>>

\* The next frame is read.
Reads(c) == pc[c] = "reading" /\ handled[c] < MaxRequests[c]

Handles(c) == handled' = [handled EXCEPT ![c] = @ + 1]

\* A message that changes no room and gets one answer: a ping, one that is
\* malformed, of no use here or beyond the rate limit, a request that is
\* refused.
Answer(c) ==
  /\ Reads(c) /\ Handles(c)
  /\ Returned(c, [room |-> room, eff |-> Error("invalid_message")], "applying")
  /\ UNCHANGED seat

\* The room's answer to create, join or resume assigns the seat.
Seated(c, p, eff) ==
  seat' = IF eff.assigned_conn_id = None THEN seat
          ELSE [seat EXCEPT ![c] = [peer_id |-> p, conn_id |-> eff.assigned_conn_id]]

Admission(c, meta) ==
  [conn |-> c, sync_protocol_version |-> meta.sync_protocol_version,
   host_transfer_capable |-> meta.host_transfer_capable]

\* create: the room is new, or its host is back.  Any other is refused, or
\* is about a room that takes this one's place.
Create(c, p, token, meta) ==
  /\ Reads(c) /\ Handles(c) /\ seat[c] = None
  /\ room # None =>
       ~room.closing /\ room.host_peer_id = p /\ room.host_verifier = FromToken(token)
  /\ LET res == IF room # None THEN ReconnectHost(room, Admission(c, meta))
                ELSE NewRoom(CHOOSE s \in Sessions : TRUE, p, FromToken(token),
                             CHOOSE i \in Ips : TRUE, Admission(c, meta), 0)
     IN  Returned(c, res, "applying") /\ Seated(c, p, res.eff)

Join(c, p, token, meta, resume_only) ==
  /\ Reads(c) /\ Handles(c) /\ seat[c] = None /\ room # None
  /\ LET res == JoinOrResume(room, p, token, Admission(c, meta), resume_only, 0)
     IN  Returned(c, res, "applying") /\ Seated(c, p, res.eff)

\* transferHost, broadcast and sendTo.
Call(c, target) ==
  /\ Reads(c) /\ Handles(c) /\ seat[c] # None
  /\ LET p == seat[c].peer_id
         k == seat[c].conn_id
     IN  \E res \in {TransferHost(room, p, k, TRUE, target), Broadcast(room, p, k, 0),
                     SendTo(room, p, k, target, 0)} : Returned(c, res, "applying")
  /\ UNCHANGED seat

\* leave, up to the snapshotter's answer and from there.
LeaveBegin(c, token) ==
  /\ Reads(c) /\ Handles(c) /\ seat[c] # None
  /\ MayBeginLeave(room, seat[c].peer_id, seat[c].conn_id, token, TRUE)
  /\ Returned(c, [room |-> BeginLeave(room, seat[c].peer_id), eff |-> NoEffects], "leaving")
  /\ UNCHANGED seat

LeaveFinish(c, persisted) ==
  /\ pc[c] = "leaving" /\ UNCHANGED handled
  /\ LET res == FinishLeave(room, seat[c].peer_id, seat[c].conn_id, persisted, 0)
     IN  /\ Returned(c, res, "applying")
         /\ seat' = IF Failed(res.eff) THEN seat ELSE [seat EXCEPT ![c] = None]

\* endSession, up to the snapshotter's answer and from there.  The senders of
\* the guests are taken with the first section.
EndBegin(c, token) ==
  /\ Reads(c) /\ Handles(c) /\ seat[c] # None
  /\ MayBeginEndSession(room, seat[c].peer_id, seat[c].conn_id, token, TRUE)
  /\ guests' = Guests(room)
  /\ room' = BeginEndSession(room)
  /\ pc' = [pc EXCEPT ![c] = "ending"]
  /\ UNCHANGED <<seat, pending, evict, cancelled, outbox, open, wire>>

EndFinish(c, persisted) ==
  /\ pc[c] = "ending" /\ UNCHANGED handled
  /\ Returned(c, FinishEndSession(room, guests, persisted), "applying")
  /\ seat' = [seat EXCEPT ![c] = None]

\* An endSession that is refused: the seat is forgotten all the same, the
\* room's entry is not.
EndRefused(c) ==
  /\ Reads(c) /\ Handles(c) /\ seat[c] # None
  /\ Returned(c, [room |-> room, eff |-> Error("peer_id_unavailable")], "applying")
  /\ seat' = [seat EXCEPT ![c] = None]
-----------------------------------------------------------------------------
(* apply_effects *)

\* Variant of Accepts: off by one.
AcceptsOneMore(d) == open[d] /\ Len(outbox[d]) <= OUTBOUND_CHANNEL_CAPACITY

\* try_send finds a place in the channel.
Accepts(d) == open[d] /\ Len(outbox[d]) < OUTBOUND_CHANNEL_CAPACITY

\* Variant of Due: the sends are done concurrently.
DueAny(c) == pending[c]

\* The sends whose turn it is: the reply, then the broadcasts in their order,
\* each to its peers in the arbitrary order of the peer map.
Due(c) == {s \in pending[c] : \A t \in pending[c] : s.frame.i <= t.frame.i}

\* Variant of Remaining: the first send that fails is the last.
RemainingUnlessFull(c, s) == IF Accepts(s.to.conn) THEN pending[c] \ {s} ELSE {}

\* What is left to send after s has been tried.
Remaining(c, s) == pending[c] \ {s}

\* Variant of TrySend: the send waits for a place in the channel.
SendWaiting(c) ==
  /\ \E s \in Due(c) :
       /\ Accepts(s.to.conn)
       /\ outbox' = [outbox EXCEPT ![s.to.conn] = Append(@, s.frame)]
       /\ pending' = [pending EXCEPT ![c] = Remaining(c, s)]
  /\ UNCHANGED <<room, seat, pc, handled, evict, guests, cancelled, open, wire>>

\* One try_send.  What finds no place is lost.
TrySend(c) ==
  /\ \E s \in Due(c) :
       /\ outbox' = IF Accepts(s.to.conn)
                    THEN [outbox EXCEPT ![s.to.conn] = Append(@, s.frame)]
                    ELSE outbox
       /\ pending' = [pending EXCEPT ![c] = Remaining(c, s)]
  /\ UNCHANGED <<room, seat, pc, handled, evict, guests, cancelled, open, wire>>

\* The evictions come last.  Then the next frame is read, or, after the read
\* loop, the write task is aborted with whatever its channel still holds.
Applied(c) ==
  /\ pc[c] \in {"applying", "closing"} /\ pending[c] = {}
  /\ cancelled' = cancelled \cup evict[c]
  /\ evict' = [evict EXCEPT ![c] = {}]
  /\ pc' = [pc EXCEPT ![c] = IF @ = "closing" THEN "gone" ELSE "reading"]
  /\ open' = IF pc[c] = "closing" THEN [open EXCEPT ![c] = FALSE] ELSE open
  /\ UNCHANGED <<room, seat, handled, pending, guests, outbox, wire>>
-----------------------------------------------------------------------------
(* The end of a connection, and its write task *)

\* The read loop ends: the room is told, if the connection is in one.
Disconnect(c) ==
  /\ pc[c] = "reading" /\ Handles(c)
  /\ IF seat[c] = None
     THEN Returned(c, [room |-> room, eff |-> NoEffects], "closing")
     ELSE Returned(c, HandleDisconnect(room, seat[c].peer_id, seat[c].conn_id, 0), "closing")
  /\ seat' = [seat EXCEPT ![c] = None]

SocketClosed(c) == c \in Failing /\ Disconnect(c)

Evicted(c) == seat[c] # None /\ seat[c].conn_id \in cancelled /\ Disconnect(c)

Write(c) ==
  /\ open[c] /\ outbox[c] # <<>>
  /\ wire' = [wire EXCEPT ![c] = Append(@, Head(outbox[c]))]
  /\ outbox' = [outbox EXCEPT ![c] = Tail(@)]
  /\ UNCHANGED <<room, seat, pc, handled, pending, evict, guests, cancelled, open>>

\* The socket refuses a frame: the write task ends and drops the receiver.
WriteFails(c) ==
  /\ c \in Failing /\ open[c]
  /\ open' = [open EXCEPT ![c] = FALSE]
  /\ UNCHANGED <<room, seat, pc, handled, pending, evict, guests, cancelled, outbox, wire>>
-----------------------------------------------------------------------------
\* What a handler does without its client.
HandlerStep(c) ==
  \/ \E persisted \in BOOLEAN : LeaveFinish(c, persisted) \/ EndFinish(c, persisted)
  \/ TrySend(c) \/ Applied(c)

ClientStep(c) ==
  \/ Answer(c)
  \/ \E p \in PeerIds, token \in Tokens, meta \in Metas :
       \/ Create(c, p, token, meta)
       \/ \E resume_only \in BOOLEAN : Join(c, p, token, meta, resume_only)
  \/ \E target \in PeerIds : Call(c, target)
  \/ \E token \in Tokens : LeaveBegin(c, token) \/ EndBegin(c, token)
  \/ EndRefused(c)
  \/ SocketClosed(c)

Next ==
  \E c \in Conns :
    HandlerStep(c) \/ ClientStep(c) \/ Evicted(c) \/ Write(c) \/ WriteFails(c)

Spec == Init /\ [][Next]_vars
-----------------------------------------------------------------------------
(* Properties *)

Frames == UNION {Range(outbox[c]) \cup Range(wire[c]) : c \in Conns}

\* The types of the state.
TypeOK ==
  /\ room \in Rooms \cup {None}
  /\ seat \in [Conns -> [peer_id : PeerIds, conn_id : Nat] \cup {None}]
  /\ pc \in [Conns -> Steps] /\ (\A c \in Conns : handled[c] \in 0..(MaxRequests[c] + 1))
  /\ \A c \in Conns : Len(outbox[c]) <= OUTBOUND_CHANNEL_CAPACITY
  /\ open \in [Conns -> BOOLEAN]
  /\ guests \subseteq ConnectedPeers /\ cancelled \subseteq Nat
  /\ \A f \in Frames : f.by \in Conns /\ f.n \in 1..handled[f.by] /\ f.i \in Nat

\* The same frame may come twice: a connection that a refused endSession left
\* in the room, and that joined again, has two entries there.
Ordered(f, g) == f.n < g.n \/ (f.n = g.n /\ f.i <= g.i)

\* What one connection causes reaches every client in the order in which the
\* connection handled its messages and in which their effects list it: no
\* client sees a guest leave before it sees it join, or its commands swapped.
\* The handler finishes apply_effects before it reads the next frame, and every
\* channel is first in, first out.
SenderOrder ==
  \A d \in Conns : \A j \in DOMAIN wire[d] : \A i \in 1..(j - 1) :
    wire[d][i].by = wire[d][j].by => Ordered(wire[d][i], wire[d][j])

\* The frames d is still to get, or has got.
Owed(d) ==
  Range(outbox[d]) \cup Range(wire[d])
    \cup UNION {{s.frame : s \in {s \in pending[c] : s.to.conn = d}} : c \in Conns}

\* A frame is lost to nobody but the client whose own channel is full or whose
\* own write task has ended: a peer that does not read costs the others
\* nothing of what was broadcast to them.
NobodyElsePays ==
  [][\A d \in Conns : Accepts(d) => Owed(d) \subseteq Owed(d)']_vars

\* A handler that has effects to apply, or is shutting its connection down, has
\* a step it can take, whatever the state of the channels: no peer that stops
\* reading, nor one that is gone, can hold up another.
HandlersReturn ==
  \A c \in Conns : pc[c] \in {"applying", "closing"} => ENABLED HandlerStep(c)
=============================================================================
