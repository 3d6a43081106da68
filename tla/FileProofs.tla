----------------------------- MODULE FileProofs -----------------------------
(***************************************************************************)
(* The relay with its state file: the invariant that ties the file, what   *)
(* the writer has captured of it and the queue of the writer to the rooms  *)
(* and to those who are leaving, and the steps that keep it.  A step of a  *)
(* handler keeps it when it changes the rooms the way its frame says; the  *)
(* steps of the writer and the start of a new process keep it as they are. *)
(* DurabilityProofs puts the frames in and draws the conclusions.          *)
(***************************************************************************)
EXTENDS Durability, RelayInvariants, TLAPS

(* The file *)

Kept(d) == {p \in PeerIds : d.reservations[p] # None}

\* What build_room_dto makes of a well-formed room of session s.
EntryOK(s, d) ==
  /\ d \in RoomDtos /\ d.session_id = s /\ Valid(d)
  /\ IsFiniteSet(Kept(d)) /\ Cardinality(Kept(d)) <= MAX_ROOM_SIZE - 1

Saves(f) == {s \in Sessions : f[s] # None}

FileOK(f) ==
  /\ f \in [Sessions -> RoomDtos \cup {None}]
  /\ \A s \in Saves(f) : EntryOK(s, f[s])
  /\ IsFiniteSet(Saves(f))
-----------------------------------------------------------------------------
(* The writer and those who await it *)

\* A queued terminal command is the only one of its caller, who awaits it.
QueueOK(q, ans, wts) ==
  \A c \in Conns, i \in DOMAIN q : q[i] = Terminal(c) =>
    /\ ans[c] = "waiting"
    /\ \A j \in DOMAIN q : q[j] = Terminal(c) => i = j
    /\ \A w \in wts : w.from # c

WaitersOK(wts, ans, seq) ==
  \A w \in wts : /\ w.from \in Conns /\ ans[w.from] = "waiting"
                 /\ w.seq \in Nat /\ w.seq <= seq

Awaiting(cs) == cs.pc \in {"leave", "end_finish"}

WriterInv ==
  /\ cmds \in Seq(Commands) /\ writer_pc \in WriterSteps /\ flushing \in BOOLEAN
  /\ dirty_seq \in Nat /\ durable_seq \in Nat /\ durable_seq <= dirty_seq
  /\ failures \in Nat
  /\ answers \in [Conns -> Answers]
  /\ QueueOK(cmds, answers, waiters) /\ WaitersOK(waiters, answers, dirty_seq)
  /\ writer_pc \in {"recv", "stopped"} => waiters = {}
  /\ \A c \in Conns : answers[c] # "none" => Awaiting(conn[c])

FilesInv ==
  /\ FileOK(image) /\ FileOK(disk)
  /\ \A a \in building : a \in Handles /\ rooms[a] # None
-----------------------------------------------------------------------------
(* What was given up *)

\* c's leave or endSession is part of the write under way or of an earlier one.
Served(ans, wts, c) == ans[c] = "ok" \/ \E w \in wts : w.from = c

\* The file has no owner for the identity that is leaving, and nothing at all
\* of a room that is ending.
Cleared(f, cs) ==
  \A s \in Saves(f) : f[s].room = cs.seat.room =>
    cs.pc = "leave" /\ DtoOwner(f[s], cs.seat.peer_id) = None

ServedInv ==
  \A c \in Conns :
    /\ Served(answers, waiters, c) => Cleared(image, conn[c])
    /\ answers[c] = "ok" => Cleared(disk, conn[c])

LeftClear(f, x) ==
  \A s \in Saves(f) : f[s].room = x.room => DtoOwner(f[s], x.peer_id) # x.verifier

LeftOK(x, rms) ==
  /\ x.room \in Handles /\ x.peer_id \in PeerIds /\ x.verifier \in Verifiers
  /\ rms[x.room] # None /\ Owner(rms[x.room], x.peer_id) # x.verifier

LeftInv ==
  \A x \in left : LeftOK(x, rooms) /\ LeftClear(image, x) /\ LeftClear(disk, x)

EndedClear(f, a) == \A s \in Saves(f) : f[s].room # a

EndedOK(a, rms) == a \in Handles /\ rms[a] # None /\ rms[a].closing

EndedInv ==
  \A a \in ended : EndedOK(a, rooms) /\ EndedClear(image, a) /\ EndedClear(disk, a)

HistoryInv == ServedInv /\ LeftInv /\ EndedInv
-----------------------------------------------------------------------------
(* What the file has of the rooms *)

Matches(d, r, t) ==
  /\ d # None /\ d.host_peer_id = r.host_peer_id /\ d.host_verifier = r.host_verifier
  /\ \A p \in PeerIds : LiveClaim(r, p, t) =>
       d.reservations[p] # None /\ d.reservations[p].verifier = r.reservations[p].verifier

\* The open room registered under s is in the file.
Synced(f, s) ==
  registry[s] # None /\ ~rooms[registry[s]].closing => Matches(f[s], rooms[registry[s]], now)

\* As long as no write failed and nothing is announced, the file is right when
\* the writer has nothing to do, and what the writer is about to write is right
\* as far as it has been captured.
SyncInv ==
  /\ failures = 0 /\ cmds = <<>> =>
       /\ writer_pc = "recv" /\ dirty_seq = durable_seq
            => \A s \in Sessions : Synced(disk, s)
       /\ writer_pc = "write" => \A s \in Sessions : Synced(image, s)
       /\ writer_pc = "build" /\ building # {}
            => \A s \in Sessions : registry[s] \in building \/ Synced(image, s)
  /\ \A c \in Conns : answers[c] = "err" => failures # 0 \/ writer_pc = "stopped"

\* A registered room that is closing is about to be removed.
ClosingInv ==
  \A s \in Sessions : registry[s] # None /\ rooms[registry[s]].closing =>
    \/ \E c \in Conns : conn[c].pc = "end_remove" /\ conn[c].seat.room = registry[s]
    \/ sweep.pc = "remove" /\ sweep.handle = registry[s]

FileInv == WriterInv /\ FilesInv /\ HistoryInv /\ SyncInv /\ ClosingInv

\* The inductive invariant.
DInv == IndInv /\ FitsInv /\ SeatInv /\ SlotsInv /\ FileInv
-----------------------------------------------------------------------------
(* Finite sets *)

\* A set has as many elements as its image under a function that tells them
\* apart.
LEMMA CountImage ==
  ASSUME Counting, NEW S, NEW f, NEW T, IsFiniteSet(S), T = {f[s] : s \in S},
         \A s, t \in S : f[s] = f[t] => s = t
  PROVE  IsFiniteSet(T) /\ Cardinality(T) = Cardinality(S)
<1>1. \A R, g : IsFiniteSet(R) /\ (\A x, y \in R : g[x] = g[y] => x = y) =>
        IsFiniteSet({g[x] : x \in R}) /\ Cardinality({g[x] : x \in R}) = Cardinality(R)
  BY Zenon DEF Counting
<1>2. IsFiniteSet({f[x] : x \in S}) /\ Cardinality({f[x] : x \in S}) = Cardinality(S)
  BY Zenon, <1>1
<1>3. T = {f[x] : x \in S}
  BY Zenon
<1> QED BY Zenon, <1>2, <1>3
-----------------------------------------------------------------------------
(* The queue *)

\* Commands of different kinds, or of different callers, differ.
LEMMA CommandsDiffer ==
  /\ \A c : Terminal(c) # Mutate /\ Terminal(c) # FlushAndStop
  /\ \A c, d : Terminal(c) = Terminal(d) => c = d
  /\ Mutate \in Commands /\ FlushAndStop \in Commands
  /\ \A c \in Conns : Terminal(c) \in Commands
<1>1. \A c : Terminal(c).type = "terminal" /\ Terminal(c).from = c
  BY Zenon DEF Terminal
<1>2. Mutate.type = "mutate" /\ FlushAndStop.type = "flush"
  BY Zenon DEF Mutate, FlushAndStop
<1> QED BY <1>1, <1>2 DEF Commands

\* What is at which place of a queue that got one more command.
LEMMA Appended ==
  ASSUME NEW q \in Seq(Commands), NEW x \in Commands
  PROVE  LET q2 == Append(q, x)
         IN  /\ q2 \in Seq(Commands) /\ q2 # <<>> /\ Len(q) \in Nat
             /\ DOMAIN q = 1 .. Len(q) /\ DOMAIN q2 = 1 .. (Len(q) + 1)
             /\ \A i \in 1 .. Len(q) : q2[i] = q[i]
             /\ q2[Len(q) + 1] = x
OBVIOUS

\* A command nobody awaits disturbs nobody who awaits.
LEMMA QueueOther ==
  ASSUME NEW q \in Seq(Commands), NEW ans, NEW wts, QueueOK(q, ans, wts),
         NEW x \in {Mutate, FlushAndStop}
  PROVE  LET q2 == Append(q, x)
         IN  q2 \in Seq(Commands) /\ q2 # <<>> /\ QueueOK(q2, ans, wts)
<1> DEFINE q2 == Append(q, x)
<1>1. x \in Commands /\ \A c : x # Terminal(c)
  BY Zenon, CommandsDiffer
<1>2. /\ q2 \in Seq(Commands) /\ q2 # <<>> /\ Len(q) \in Nat
      /\ DOMAIN q = 1 .. Len(q) /\ DOMAIN q2 = 1 .. (Len(q) + 1)
      /\ \A i \in 1 .. Len(q) : q2[i] = q[i]
      /\ q2[Len(q) + 1] = x
  BY Zenon, <1>1, Appended
<1> HIDE DEF q2
<1>3. \A i \in DOMAIN q2, c \in Conns : q2[i] = Terminal(c) => i \in DOMAIN q /\ q[i] = Terminal(c)
  BY <1>1, <1>2
<1>4. QueueOK(q2, ans, wts)
  BY Zenon, <1>3 DEF QueueOK
<1> QED BY Zenon, <1>2, <1>4 DEF q2

\* Nor does a change to the answer of somebody who awaits nothing.
LEMMA AnswerSet ==
  ASSUME NEW q, NEW ans \in [Conns -> Answers], NEW wts, NEW seq,
         QueueOK(q, ans, wts), WaitersOK(wts, ans, seq),
         NEW c \in Conns, ans[c] # "waiting", NEW v \in Answers
  PROVE  LET ans2 == [ans EXCEPT ![c] = v]
         IN  ans2 \in [Conns -> Answers] /\ QueueOK(q, ans2, wts) /\ WaitersOK(wts, ans2, seq)
<1> DEFINE ans2 == [ans EXCEPT ![c] = v]
<1>1. ans2 \in [Conns -> Answers] /\ \A d \in Conns : ans[d] = "waiting" => ans2[d] = "waiting"
  BY Zenon
<1> HIDE DEF ans2
<1>2. QueueOK(q, ans2, wts)
  BY Zenon, <1>1 DEF QueueOK
<1>3. WaitersOK(wts, ans2, seq)
  BY Zenon, <1>1 DEF WaitersOK
<1> QED BY Zenon, <1>1, <1>2, <1>3 DEF ans2

\* Somebody who awaits nothing sends a terminal command and awaits it.
LEMMA QueueTerminal ==
  ASSUME NEW q \in Seq(Commands), NEW ans \in [Conns -> Answers], NEW wts, NEW seq,
         QueueOK(q, ans, wts), WaitersOK(wts, ans, seq),
         NEW c \in Conns, ans[c] # "waiting"
  PROVE  LET q2 == Append(q, Terminal(c))
             ans2 == [ans EXCEPT ![c] = "waiting"]
         IN  /\ q2 \in Seq(Commands) /\ q2 # <<>> /\ ans2 \in [Conns -> Answers]
             /\ QueueOK(q2, ans2, wts) /\ WaitersOK(wts, ans2, seq)
<1> DEFINE q2 == Append(q, Terminal(c))
           ans2 == [ans EXCEPT ![c] = "waiting"]
<1>1. /\ q2 \in Seq(Commands) /\ q2 # <<>> /\ Len(q) \in Nat
      /\ DOMAIN q = 1 .. Len(q) /\ DOMAIN q2 = 1 .. (Len(q) + 1)
      /\ \A i \in 1 .. Len(q) : q2[i] = q[i]
      /\ q2[Len(q) + 1] = Terminal(c)
  BY Zenon, CommandsDiffer, Appended
<1>2. "waiting" \in Answers
  BY Zenon DEF Answers
<1>3. ans2 \in [Conns -> Answers] /\ QueueOK(q, ans2, wts) /\ WaitersOK(wts, ans2, seq)
  BY Zenon, <1>2, AnswerSet
<1>4. ans2[c] = "waiting"
  BY Zenon
<1> HIDE DEF q2, ans2
<1>5. \A i \in DOMAIN q2, d \in Conns : q2[i] = Terminal(d) =>
        \/ i \in DOMAIN q /\ q[i] = Terminal(d) /\ d # c
        \/ i = Len(q) + 1 /\ d = c
  BY <1>1, CommandsDiffer DEF QueueOK
<1>6. \A w \in wts : w.from # c
  BY Zenon DEF WaitersOK
<1>7. QueueOK(q2, ans2, wts)
  BY <1>3, <1>4, <1>5, <1>6 DEF QueueOK
<1> QED BY Zenon, <1>1, <1>3, <1>7 DEF q2, ans2

\* The first command is taken from the queue.
LEMMA QueueTail ==
  ASSUME NEW q \in Seq(Commands), q # <<>>, NEW ans, NEW wts, QueueOK(q, ans, wts)
  PROVE  /\ Head(q) \in Commands /\ Tail(q) \in Seq(Commands) /\ QueueOK(Tail(q), ans, wts)
         /\ \A c \in Conns : Head(q) = Terminal(c) =>
              /\ ans[c] = "waiting"
              /\ \A i \in DOMAIN Tail(q) : Tail(q)[i] # Terminal(c)
<1> DEFINE q2 == Tail(q)
<1>1. Len(q) \in Nat /\ Len(q) > 0 /\ DOMAIN q = 1 .. Len(q) /\ Head(q) = q[1] /\ q[1] \in Commands
  OBVIOUS
<1>2. /\ q2 \in Seq(Commands) /\ DOMAIN q2 = 1 .. (Len(q) - 1)
      /\ \A i \in 1 .. (Len(q) - 1) : q2[i] = q[i + 1]
  BY <1>1
<1> HIDE DEF q2
<1>3. \A i \in DOMAIN q2 : i + 1 \in DOMAIN q /\ q2[i] = q[i + 1] /\ i + 1 # 1
  BY <1>1, <1>2
<1>4. \A i, j \in DOMAIN q2 : i + 1 = j + 1 => i = j
  BY <1>2
<1>5. QueueOK(q2, ans, wts)
  BY <1>3, <1>4 DEF QueueOK
<1>6. \A c \in Conns : Head(q) = Terminal(c) =>
        ans[c] = "waiting" /\ \A i \in DOMAIN q2 : q2[i] # Terminal(c)
  BY <1>1, <1>3 DEF QueueOK
<1> QED BY Zenon, <1>1, <1>2, <1>5, <1>6 DEF q2
-----------------------------------------------------------------------------
(* Steps of the relay *)

\* Nobody who awaits the writer moves.
AwaitingStay == \A d \in Conns : Awaiting(conn[d]) => Follows(conn[d], conn'[d])

\* Nor does anybody who has closed a room and not yet removed it.
EndersStay == \A d \in Conns : conn[d].pc = "end_remove" => Follows(conn[d], conn'[d])

\* At most one Mutate is sent to the writer.
Posts ==
  /\ cmds' = cmds \/ cmds' = Append(cmds, Mutate)
  /\ UNCHANGED <<writer_pc, flushing, dirty_seq, durable_seq, waiters, image, answers, disk>>

\* What a step that changes a room leaves in the queue.
LEMMA Announced ==
  ASSUME WriterInv, NEW dirty \in BOOLEAN, Announce(dirty)
  PROVE  Posts /\ (dirty => cmds' # <<>> \/ writer_pc = "stopped")
<1>1. cmds \in Seq(Commands) /\ Mutate \in Commands
  BY Zenon, CommandsDiffer DEF WriterInv
<1>2. Append(cmds, Mutate) # <<>>
  BY <1>1
<1> QED
  BY Zenon, <1>2 DEF Announce, RecordMutation, SendCommand, Posts, writerVars

\* The writer's state does not depend on the rooms.
LEMMA PostsWriter ==
  ASSUME WriterInv, Posts, AwaitingStay, failures' = failures
  PROVE  WriterInv'
<1>1. cmds' \in Seq(Commands) /\ QueueOK(cmds', answers, waiters)
  BY Zenon, QueueOther DEF WriterInv, Posts
<1>2. \A c \in Conns : answers'[c] # "none" => Awaiting(conn'[c])
  BY Zenon DEF WriterInv, Posts, AwaitingStay, Follows, Awaiting
<1> QED BY Zenon, <1>1, <1>2 DEF WriterInv, Posts

\* Whoever is served awaits the writer.
LEMMA ServedAwaits ==
  ASSUME WriterInv, NEW c \in Conns, Served(answers, waiters, c)
  PROVE  Awaiting(conn[c]) /\ answers[c] # "none"
<1>1. answers[c] # "none"
  BY Zenon DEF Served, WriterInv, WaitersOK
<1> QED BY Zenon, <1>1 DEF WriterInv

\* What the file is clear of for those who are served stays so.
LEMMA ServedKept ==
  ASSUME WriterInv, ServedInv, AwaitingStay, UNCHANGED <<answers, waiters, image, disk>>
  PROVE  ServedInv'
<1> SUFFICES ASSUME NEW c \in Conns
             PROVE  /\ Served(answers, waiters, c) => Cleared(image, conn'[c])
                    /\ answers[c] = "ok" => Cleared(disk, conn'[c])
  BY Zenon DEF ServedInv, Served, Cleared, Saves
<1> SUFFICES ASSUME Served(answers, waiters, c)
             PROVE  /\ Cleared(image, conn'[c])
                    /\ answers[c] = "ok" => Cleared(disk, conn'[c])
  BY Zenon DEF Served
<1>1. conn'[c].pc = conn[c].pc /\ conn'[c].seat = conn[c].seat
  BY Zenon, ServedAwaits DEF AwaitingStay, Follows
<1> QED BY Zenon, <1>1 DEF ServedInv, Cleared

\* What was left stays left as long as nobody is given an identity, or those
\* who come back are forgotten.
LEMMA LeftKept ==
  ASSUME LeftInv, Evolves(rooms, rooms'), UNCHANGED <<image, disk>>,
         (left' = left /\ Owned) \/ RememberLeft({})
  PROVE  LeftInv'
<1> SUFFICES ASSUME NEW x \in left'
             PROVE  LeftOK(x, rooms') /\ LeftClear(image, x) /\ LeftClear(disk, x)
  BY Zenon DEF LeftInv, LeftClear, Saves
<1>1. x \in left
  BY Zenon DEF RememberLeft
<1>2. LeftOK(x, rooms) /\ LeftClear(image, x) /\ LeftClear(disk, x)
  BY Zenon, <1>1 DEF LeftInv
<1>3. rooms'[x.room] # None
  BY Zenon, <1>2 DEF LeftOK, Evolves
<1>4. Owner(rooms'[x.room], x.peer_id) # x.verifier
  <2>1. CASE RememberLeft({})
    BY Zenon, <2>1 DEF RememberLeft
  <2>2. CASE Owned
    <3>1. x.verifier # None
      BY Zenon, <1>2, NoneIsNoValue DEF LeftOK
    <3> QED BY Zenon, <1>2, <2>2, <3>1 DEF LeftOK, Owned, OwnersKept
  <2> QED BY Zenon, <2>1, <2>2
<1> QED BY Zenon, <1>2, <1>3, <1>4 DEF LeftOK

\* A room that has ended stays closed and out of the file.
LEMMA EndedKept ==
  ASSUME EndedInv, Evolves(rooms, rooms'), UNCHANGED <<image, disk, ended>>
  PROVE  EndedInv'
<1>1. \A a \in ended : EndedOK(a, rooms')
  BY Zenon DEF EndedInv, EndedOK, Evolves, SameRoom
<1> QED BY Zenon, <1>1 DEF EndedInv, EndedClear, Saves

\* The rooms the writer has listed stay.
LEMMA FilesKept ==
  ASSUME FilesInv, Evolves(rooms, rooms'), UNCHANGED <<image, disk, building>>
  PROVE  FilesInv'
<1>1. \A a \in building : rooms'[a] # None
  BY Zenon DEF FilesInv, Evolves
<1> QED BY Zenon, <1>1 DEF FilesInv

\* Whoever is about to remove a closing room still is.
LEMMA ClosingKept ==
  ASSUME ClosingInv, ClosesNothing, EndersStay, sweep' = sweep
  PROVE  ClosingInv'
<1> SUFFICES ASSUME NEW s \in Sessions, registry'[s] # None, rooms'[registry'[s]].closing
             PROVE  \/ \E c \in Conns : conn'[c].pc = "end_remove" /\ conn'[c].seat.room = registry'[s]
                    \/ sweep.pc = "remove" /\ sweep.handle = registry'[s]
  BY Zenon DEF ClosingInv
<1>1. registry'[s] = registry[s] /\ rooms[registry[s]].closing
  BY Zenon DEF ClosesNothing
<1>2. CASE \E c \in Conns : conn[c].pc = "end_remove" /\ conn[c].seat.room = registry[s]
  BY Zenon, <1>1, <1>2 DEF EndersStay, Follows
<1> QED BY Zenon, <1>1, <1>2 DEF ClosingInv

\* An open room that is in the file stays in it when it is steady.
LEMMA MatchesSteady ==
  ASSUME NEW d, NEW r, NEW s, NEW t, NEW u, Matches(d, r, t), Steady(r, s, t, u)
  PROVE  Matches(d, s, u)
BY Zenon DEF Matches, Steady

\* A calm step leaves what is in the file there.
LEMMA CalmSynced ==
  ASSUME Calm, NEW f, NEW g, g = f, NEW s \in Sessions, Synced(f, s)
  PROVE  registry'[s] # None /\ ~rooms'[registry'[s]].closing => Matches(g[s], rooms'[registry'[s]], now')
BY Zenon, MatchesSteady DEF Calm, Synced

\* A step that is calm, or that the writer is told of, keeps the file right.
LEMMA SyncKept ==
  ASSUME SyncInv,
         cmds' # <<>> \/ failures # 0 \/ writer_pc = "stopped" \/ (Calm /\ cmds' = cmds),
         UNCHANGED <<failures, writer_pc, dirty_seq, durable_seq, image, disk, building>>,
         \A c \in Conns : answers'[c] = "err" => answers[c] = "err" \/ writer_pc = "stopped"
  PROVE  SyncInv'
<1>1. \A c \in Conns : answers'[c] = "err" => failures # 0 \/ writer_pc = "stopped"
  BY Zenon DEF SyncInv
<1>2. CASE cmds' # <<>>
  BY Zenon, <1>1, <1>2 DEF SyncInv
<1>3. CASE failures # 0 \/ writer_pc = "stopped"
  BY Zenon, <1>1, <1>3 DEF SyncInv
<1>4. CASE Calm /\ cmds' = cmds
  <2> SUFFICES ASSUME failures = 0, cmds = <<>>
               PROVE  /\ writer_pc = "recv" /\ dirty_seq = durable_seq
                           => \A s \in Sessions : Synced(disk, s)'
                      /\ writer_pc = "write" => \A s \in Sessions : Synced(image, s)'
                      /\ writer_pc = "build" /\ building # {}
                           => \A s \in Sessions : registry'[s] \in building \/ Synced(image, s)'
    BY Zenon, <1>1, <1>4 DEF SyncInv
  <2>1. \A s \in Sessions : Synced(disk, s) => Synced(disk, s)'
    BY Zenon, <1>4, CalmSynced DEF Synced
  <2>2. \A s \in Sessions : Synced(image, s) => Synced(image, s)'
    BY Zenon, <1>4, CalmSynced DEF Synced
  <2>3. \A s \in Sessions : registry'[s] = registry[s] \/ Synced(image, s)'
    BY Zenon, <1>4 DEF Calm, Synced
  <2> QED BY Zenon, <2>1, <2>2, <2>3 DEF SyncInv
<1> QED BY Zenon, <1>2, <1>3, <1>4

\* What keeps FileInv.
LEMMA FrameKeeps ==
  ASSUME FileInv, Evolves(rooms, rooms'), AwaitingStay, ClosingInv', Posts,
         UNCHANGED <<building, failures, ended>>,
         (left' = left /\ Owned) \/ RememberLeft({}),
         cmds' # <<>> \/ writer_pc = "stopped" \/ Calm
  PROVE  FileInv'
<1>1. UNCHANGED <<writer_pc, dirty_seq, durable_seq, waiters, image, answers, disk>>
  BY Zenon DEF Posts
<1>2. WriterInv' /\ FilesInv'
  BY Zenon, <1>1, PostsWriter, FilesKept DEF FileInv
<1>3. ServedInv' /\ LeftInv' /\ EndedInv'
  BY Zenon, <1>1, ServedKept, LeftKept, EndedKept DEF FileInv, HistoryInv
<1>4. cmds' # <<>> \/ writer_pc = "stopped" \/ (Calm /\ cmds' = cmds)
  <2>1. Append(cmds, Mutate) # <<>>
    BY Zenon, CommandsDiffer, Appended DEF FileInv, WriterInv
  <2> QED BY Zenon, <2>1 DEF Posts
<1>5. SyncInv'
  BY Zenon, <1>1, <1>4, SyncKept DEF FileInv
<1> QED BY Zenon, <1>2, <1>3, <1>5 DEF FileInv, HistoryInv

\* A step of a connection that is at none of the awaits that matter.
LEMMA FrameStays ==
  ASSUME ClosingInv, NEW c \in Conns, Frame(c),
         conn[c].pc \notin {"leave", "end_remove", "end_finish"}
  PROVE  AwaitingStay /\ Evolves(rooms, rooms') /\ (ClosesNothing => ClosingInv')
<1>1. AwaitingStay /\ EndersStay /\ Evolves(rooms, rooms') /\ sweep' = sweep
  BY Zenon DEF Frame, OthersStay, AwaitingStay, EndersStay, Awaiting
<1> QED BY Zenon, <1>1, ClosingKept

\* Admissions are announced, refusals are calm.
LEMMA AdmittingKeeps ==
  ASSUME DInv, NEW c \in Conns, Admitting(c), UNCHANGED <<building, bounds>>,
         Frame(c), ClosesNothing, conn'[c].seat = None => Calm
  PROVE  FileInv'
<1>1. conn[c].pc \notin {"leave", "end_remove", "end_finish"}
  BY Zenon DEF Admitting, CreateReconnect, CreateReclaim, JoinEnter, CreateNew, MaySend
<1>2. Posts /\ (conn'[c].seat # None => cmds' # <<>> \/ writer_pc = "stopped")
  BY Zenon, Announced DEF Admitting, DInv, FileInv
<1>3. RememberLeft({}) /\ UNCHANGED <<building, failures, ended>>
  BY Zenon DEF Admitting, bounds
<1>4. AwaitingStay /\ Evolves(rooms, rooms') /\ ClosingInv'
  BY Zenon, <1>1, FrameStays DEF DInv, FileInv
<1> QED BY Zenon, <1>2, <1>3, <1>4, FrameKeeps DEF DInv

\* transferHost and disconnections are announced when they change the room.
LEMMA ChangingKeeps ==
  ASSUME DInv, NEW c \in Conns, Changing(c), UNCHANGED <<building, bounds>>,
         Frame(c), Owned, ClosesNothing, rooms' = rooms => Calm
  PROVE  FileInv'
<1>1. conn[c].pc \notin {"leave", "end_remove", "end_finish"}
  BY Zenon DEF Changing, SocketClosed, Evicted, Close, CallTransferHost, Call, InRoom
<1>2. Posts /\ (rooms' # rooms => cmds' # <<>> \/ writer_pc = "stopped")
  BY Zenon, Announced DEF Changing, DInv, FileInv
<1>3. left' = left /\ UNCHANGED <<building, failures, ended>>
  BY Zenon DEF Changing, history, bounds
<1>4. AwaitingStay /\ Evolves(rooms, rooms') /\ ClosingInv'
  BY Zenon, <1>1, FrameStays DEF DInv, FileInv
<1> QED BY Zenon, <1>2, <1>3, <1>4, FrameKeeps DEF DInv

\* Traffic, look-ups and refusals change nothing the file has; nor does the
\* removal of a room that was closed.
LEMMA SilentKeeps ==
  ASSUME DInv, NEW c \in Conns, Silent(c), UNCHANGED <<building, bounds>>,
         Frame(c), Owned, ClosesNothing, Calm,
         EndRemove(c) => \A x \in Sessions : registry'[x] # conn[c].seat.room
  PROVE  FileInv'
<1>1. /\ Posts /\ left' = left /\ UNCHANGED <<building, failures, ended>>
  BY Zenon DEF Silent, Posts, writerVars, history, bounds
<1>2. CASE ~EndRemove(c)
  <2>1. conn[c].pc \notin {"leave", "end_remove", "end_finish"}
    BY Zenon, <1>2 DEF Silent, CreateCheck, CreateExisting, JoinLookup, EndRefused, CallSendTo,
                CallBroadcast, Call, InRoom, MaySend
  <2>2. AwaitingStay /\ Evolves(rooms, rooms') /\ ClosingInv'
    BY Zenon, <2>1, FrameStays DEF DInv, FileInv
  <2> QED BY Zenon, <1>1, <2>2, FrameKeeps DEF DInv
<1>3. CASE EndRemove(c)
  <2>1. /\ conn[c].pc = "end_remove"
        /\ \A x \in Sessions : registry'[x] # conn[c].seat.room
    BY Zenon, <1>3 DEF EndRemove
  <2>2. AwaitingStay /\ Evolves(rooms, rooms') /\ sweep' = sweep
    BY Zenon, <2>1 DEF Frame, OthersStay, AwaitingStay, Awaiting
  <2>3. ClosingInv'
    <3> SUFFICES ASSUME NEW s \in Sessions, registry'[s] # None, rooms'[registry'[s]].closing
                 PROVE  \/ \E d \in Conns : conn'[d].pc = "end_remove" /\ conn'[d].seat.room = registry'[s]
                        \/ sweep.pc = "remove" /\ sweep.handle = registry'[s]
      BY Zenon, <2>2 DEF ClosingInv
    <3>1. /\ registry'[s] = registry[s] /\ rooms[registry[s]].closing
          /\ registry[s] # conn[c].seat.room
      BY Zenon, <2>1 DEF ClosesNothing
    <3>2. CASE \E d \in Conns : conn[d].pc = "end_remove" /\ conn[d].seat.room = registry[s]
      BY Zenon, <2>1, <3>1, <3>2 DEF Frame, OthersStay, Follows
    <3> QED BY Zenon, <3>1, <3>2 DEF DInv, FileInv, ClosingInv
  <2> QED BY Zenon, <1>1, <2>1, <2>2, <2>3, FrameKeeps DEF DInv
<1> QED BY Zenon, <1>2, <1>3

\* The first section of end_session: c will remove the room it closes.
LEMMA EndBeginsKeeps ==
  ASSUME DInv, NEW c \in Conns, EndBegins(c), UNCHANGED <<building, bounds>>,
         Frame(c), Owned, Calm, registry' = registry, conn[c].pc = "idle",
         conn'[c].pc = "end_remove", conn'[c].seat = conn[c].seat,
         \A b \in Handles : b # conn[c].seat.room => rooms'[b] = rooms[b]
  PROVE  FileInv'
<1>1. Posts /\ left' = left /\ UNCHANGED <<building, failures, ended>>
  BY Zenon DEF EndBegins, Posts, writerVars, history, bounds
<1>2. AwaitingStay /\ EndersStay /\ Evolves(rooms, rooms') /\ sweep' = sweep
  BY Zenon DEF Frame, OthersStay, AwaitingStay, EndersStay, Awaiting
<1>3. ClosingInv'
  <2> SUFFICES ASSUME NEW s \in Sessions, registry[s] # None, rooms'[registry[s]].closing
               PROVE  \/ \E d \in Conns : conn'[d].pc = "end_remove" /\ conn'[d].seat.room = registry[s]
                      \/ sweep.pc = "remove" /\ sweep.handle = registry[s]
    BY Zenon, <1>2 DEF ClosingInv
  <2>1. CASE registry[s] = conn[c].seat.room
    BY Zenon, <2>1
  <2>2. CASE registry[s] # conn[c].seat.room
    <3>1. registry[s] \in Handles
      BY DEF DInv, IndInv, RegistryOK
    <3>2. rooms[registry[s]].closing
      BY Zenon, <2>2, <3>1
    <3>3. CASE \E d \in Conns : conn[d].pc = "end_remove" /\ conn[d].seat.room = registry[s]
      BY Zenon, <1>2, <3>3 DEF EndersStay, Follows
    <3> QED BY Zenon, <3>2, <3>3 DEF DInv, FileInv, ClosingInv
  <2> QED BY Zenon, <2>1, <2>2
<1> QED BY Zenon, <1>1, <1>2, <1>3, FrameKeeps DEF DInv

\* The cleanup task announces what it prunes, and will remove what it closes.
LEMMA SweepingKeeps ==
  ASSUME DInv, Sweeping, UNCHANGED <<building, bounds>>,
         Evolves(rooms, rooms'), OthersStay({}), Owned,
         \/ ClosesNothing
         \/ /\ registry' = registry /\ sweep.pc = "visit" /\ sweep'.pc = "remove"
            /\ \A b \in Handles : b # sweep'.handle => rooms'[b] = rooms[b],
         sweep.pc = "remove" => \A x \in Sessions : registry'[x] # sweep.handle,
         sweep'.pc = "remove" \/ rooms' = rooms => Calm
  PROVE  FileInv'
<1>1. left' = left /\ UNCHANGED <<building, failures, ended>>
  BY Zenon DEF Sweeping, history, bounds
<1>2. AwaitingStay /\ EndersStay
  BY Zenon DEF OthersStay, AwaitingStay, EndersStay
<1>3. Posts /\ (cmds' # <<>> \/ writer_pc = "stopped" \/ Calm)
  <2>1. CASE (SweepBegin \/ SweepRemove) /\ UNCHANGED writerVars
    <3>1. rooms' = rooms /\ Posts
      BY Zenon, <2>1 DEF SweepBegin, SweepRemove, Posts, writerVars
    <3> QED BY Zenon, <3>1
  <2>2. CASE \E a \in Handles : SweepVisit(a) /\ Announce(rooms' # rooms /\ sweep'.pc # "remove")
    <3> DEFINE dirty == rooms' # rooms /\ sweep'.pc # "remove"
    <3>1. Announce(dirty) /\ dirty \in BOOLEAN
      BY Zenon, <2>2
    <3>2. Posts /\ (dirty => cmds' # <<>> \/ writer_pc = "stopped")
      BY Zenon, <3>1, Announced DEF DInv, FileInv
    <3> QED BY Zenon, <3>2
  <2>3. CASE SweepFinish /\ Announce(TRUE)
    BY Zenon, <2>3, Announced DEF DInv, FileInv
  <2> QED BY Zenon, <2>1, <2>2, <2>3 DEF Sweeping
<1>4. ClosingInv'
  <2> SUFFICES ASSUME NEW s \in Sessions, registry'[s] # None, rooms'[registry'[s]].closing
               PROVE  \/ \E d \in Conns : conn'[d].pc = "end_remove" /\ conn'[d].seat.room = registry'[s]
                      \/ sweep'.pc = "remove" /\ sweep'.handle = registry'[s]
    BY Zenon DEF ClosingInv
  <2>1. registry[s] \in Handles \cup {None}
    BY Zenon DEF DInv, IndInv, RegistryOK
  <2>2. CASE ~ClosesNothing /\ registry'[s] = sweep'.handle
    BY Zenon, <2>2
  <2>3. CASE ClosesNothing \/ registry'[s] # sweep'.handle
    <3>1. registry'[s] = registry[s] /\ rooms[registry[s]].closing /\ ~(sweep.pc = "remove" /\ sweep.handle = registry[s])
      BY Zenon, <2>1, <2>3 DEF ClosesNothing
    <3>2. PICK d \in Conns : conn[d].pc = "end_remove" /\ conn[d].seat.room = registry[s]
      BY Zenon, <3>1 DEF DInv, FileInv, ClosingInv
    <3> QED BY Zenon, <1>2, <3>1, <3>2 DEF EndersStay, Follows
  <2> QED BY Zenon, <2>2, <2>3
<1> QED BY Zenon, <1>1, <1>2, <1>3, <1>4, FrameKeeps DEF DInv

\* The clock changes nothing the file has.
LEMMA TickKeeps ==
  ASSUME DInv, UNCHANGED <<writerVars, history, building, bounds>>,
         Evolves(rooms, rooms'), Owned, ClosesNothing, Calm, UNCHANGED <<conn, sweep>>
  PROVE  FileInv'
<1>1. Posts /\ left' = left /\ UNCHANGED <<building, failures, ended>>
  BY Zenon DEF Posts, writerVars, history, bounds
<1>2. AwaitingStay /\ EndersStay
  BY Zenon DEF AwaitingStay, EndersStay, Follows
<1>3. ClosingInv'
  BY Zenon, <1>2, ClosingKept DEF DInv, FileInv
<1> QED BY Zenon, <1>1, <1>2, <1>3, FrameKeeps DEF DInv
-----------------------------------------------------------------------------
(* Steps of those who await the writer *)

\* c is given an answer, or takes it: the others are served as before.
LEMMA AnswerServed ==
  ASSUME WriterInv, ServedInv, NEW c \in Conns, OthersStay({c}),
         answers[c] # "waiting", NEW v \in Answers, v # "ok",
         answers' = [answers EXCEPT ![c] = v], UNCHANGED <<waiters, image, disk>>
  PROVE  ServedInv' /\ \A d \in Conns \ {c} : answers'[d] # "none" => Awaiting(conn'[d])
<1>1. /\ answers'[c] = v /\ \A d \in Conns \ {c} : answers'[d] = answers[d]
      /\ \A d \in Conns \ {c} : conn'[d].pc = conn[d].pc /\ conn'[d].seat = conn[d].seat
  BY Zenon DEF WriterInv, OthersStay, Follows
<1>2. \A w \in waiters : w.from # c
  BY Zenon DEF WriterInv, WaitersOK
<1>3. \A d \in Conns : Served(answers', waiters, d) => d # c /\ Served(answers, waiters, d)
  BY Zenon, <1>1, <1>2 DEF Served
<1>4. \A d \in Conns \ {c} : Cleared(image, conn[d]) => Cleared(image, conn'[d])
  BY Zenon, <1>1 DEF Cleared
<1>5. \A d \in Conns \ {c} : Cleared(disk, conn[d]) => Cleared(disk, conn'[d])
  BY Zenon, <1>1 DEF Cleared
<1>6. ServedInv'
  <2> SUFFICES ASSUME NEW d \in Conns
               PROVE  /\ Served(answers', waiters, d) => Cleared(image, conn'[d])
                      /\ answers'[d] = "ok" => Cleared(disk, conn'[d])
    BY Zenon DEF ServedInv, Served, Cleared, Saves
  <2> QED BY ZenonT(30), <1>1, <1>3, <1>4, <1>5 DEF ServedInv
<1>7. \A d \in Conns \ {c} : answers'[d] # "none" => Awaiting(conn'[d])
  BY Zenon, <1>1 DEF WriterInv, Awaiting
<1> QED BY Zenon, <1>6, <1>7

\* What keeps FileInv when a connection begins to await the writer or stops.
LEMMA AnswerKeeps ==
  ASSUME FileInv, NEW c \in Conns, Frame(c), ClosesNothing, conn[c].pc # "end_remove",
         answers[c] # "waiting", NEW v \in Answers, v # "ok",
         answers' = [answers EXCEPT ![c] = v],
         v # "none" => Awaiting(conn'[c]),
         v = "err" => writer_pc = "stopped",
         cmds' \in Seq(Commands), QueueOK(cmds', answers', waiters),
         UNCHANGED <<writer_pc, flushing, dirty_seq, durable_seq, waiters, image, disk>>,
         UNCHANGED <<building, failures>>, LeftInv', EndedInv',
         cmds' # <<>> \/ failures # 0 \/ writer_pc = "stopped" \/ (Calm /\ cmds' = cmds)
  PROVE  FileInv'
<1>1. /\ Evolves(rooms, rooms') /\ OthersStay({c}) /\ EndersStay /\ sweep' = sweep
  BY Zenon DEF Frame, OthersStay, EndersStay
<1>2. ClosingInv'
  BY Zenon, <1>1, ClosingKept DEF FileInv
<1>3. FilesInv'
  BY Zenon, <1>1, FilesKept DEF FileInv
<1>4. WriterInv /\ ServedInv
  BY Zenon DEF FileInv, HistoryInv
<1>5. ServedInv' /\ \A d \in Conns \ {c} : answers'[d] # "none" => Awaiting(conn'[d])
  BY Zenon, <1>1, <1>4, AnswerServed
<1>6. /\ answers' \in [Conns -> Answers] /\ WaitersOK(waiters, answers', dirty_seq)
      /\ answers'[c] = v /\ \A d \in Conns \ {c} : answers'[d] = answers[d]
  BY Zenon, <1>4, AnswerSet DEF WriterInv
<1>7. WriterInv'
  BY Zenon, <1>4, <1>5, <1>6 DEF WriterInv
<1>8. SyncInv'
  <2>1. \A d \in Conns : answers'[d] = "err" => answers[d] = "err" \/ writer_pc = "stopped"
    BY Zenon, <1>6
  <2> QED BY Zenon, <2>1, SyncKept DEF FileInv
<1> QED BY Zenon, <1>2, <1>3, <1>5, <1>7, <1>8 DEF FileInv, HistoryInv

\* A leave or an endSession is sent to the writer.
LEMMA TerminatingKeeps ==
  ASSUME DInv, NEW c \in Conns, Terminating(c), UNCHANGED <<building, bounds>>,
         Frame(c), Owned, ClosesNothing, conn'[c].pc \in {"leave", "end_finish"},
         conn[c].pc \in {"idle", "end_release"}
  PROVE  FileInv'
<1>1. /\ RecordTerminalMutation(c) /\ left' = left
      /\ UNCHANGED <<building, failures, ended>>
      /\ UNCHANGED <<writer_pc, flushing, dirty_seq, durable_seq, waiters, image, disk>>
  BY Zenon DEF Terminating, history, bounds, RecordTerminalMutation
<1>2. WriterInv /\ LeftInv /\ EndedInv /\ FileInv
  BY Zenon DEF DInv, FileInv, HistoryInv
<1>3. answers[c] = "none"
  BY Zenon, <1>2 DEF WriterInv, Awaiting
<1>4. LeftInv' /\ EndedInv'
  BY Zenon, <1>1, <1>2, LeftKept, EndedKept DEF Frame
<1>5. Awaiting(conn'[c]) /\ conn[c].pc # "end_remove"
  BY ZenonT(30) DEF Awaiting
<1>6. CASE writer_pc = "stopped"
  <2>1. cmds' = cmds /\ answers' = [answers EXCEPT ![c] = "err"] /\ "err" \in Answers
    BY ZenonT(30), <1>1, <1>6 DEF RecordTerminalMutation, SendCommand, Answers
  <2>2. cmds' \in Seq(Commands) /\ QueueOK(cmds', answers', waiters)
    BY ZenonT(30), <1>2, <1>3, <2>1, AnswerSet DEF WriterInv
  <2> QED BY ZenonT(30), <1>1, <1>2, <1>3, <1>4, <1>5, <1>6, <2>1, <2>2, AnswerKeeps
<1>7. CASE writer_pc # "stopped"
  <2>1. /\ cmds' = Append(cmds, Terminal(c)) /\ "waiting" \in Answers
        /\ answers' = [answers EXCEPT ![c] = "waiting"]
    BY Zenon, <1>1, <1>7 DEF RecordTerminalMutation, SendCommand, Answers
  <2>2. cmds' \in Seq(Commands) /\ cmds' # <<>> /\ QueueOK(cmds', answers', waiters)
    BY Zenon, <1>2, <1>3, <2>1, QueueTerminal DEF WriterInv
  <2> QED BY ZenonT(30), <1>1, <1>2, <1>3, <1>4, <1>5, <2>1, <2>2, AnswerKeeps
<1> QED BY Zenon, <1>6, <1>7

\* Somebody is told "left" when the file is clear of the identity.
LEMMA LeftMore ==
  ASSUME LeftInv, Evolves(rooms, rooms'), UNCHANGED <<image, disk>>,
         NEW gone, RememberLeft(gone),
         \A x \in gone : /\ x.room \in Handles /\ x.peer_id \in PeerIds /\ x.verifier \in Verifiers
                         /\ rooms'[x.room] # None
                         /\ LeftClear(image, x) /\ LeftClear(disk, x)
  PROVE  LeftInv'
<1> SUFFICES ASSUME NEW x \in left'
             PROVE  LeftOK(x, rooms') /\ LeftClear(image, x) /\ LeftClear(disk, x)
  BY Zenon DEF LeftInv, LeftClear, Saves
<1>1. (x \in left \/ x \in gone) /\ Owner(rooms'[x.room], x.peer_id) # x.verifier
  BY Zenon DEF RememberLeft
<1>2. CASE x \in left
  <2>1. LeftOK(x, rooms) /\ LeftClear(image, x) /\ LeftClear(disk, x)
    BY Zenon, <1>2 DEF LeftInv
  <2> QED BY Zenon, <1>1, <2>1 DEF LeftOK, Evolves
<1>3. CASE x \in gone
  BY Zenon, <1>1, <1>3 DEF LeftOK
<1> QED BY Zenon, <1>1, <1>2, <1>3

\* An answered caller awaits no more, and may send one more Mutate.
LEMMA AnswerTaken ==
  ASSUME WriterInv, NEW c \in Conns, Answered(c), NEW mutated \in BOOLEAN, TakeAnswer(c, mutated)
  PROVE  /\ answers[c] # "waiting" /\ "none" \in Answers
         /\ answers' = [answers EXCEPT ![c] = "none"]
         /\ cmds' \in Seq(Commands) /\ QueueOK(cmds', answers', waiters)
         /\ mutated => cmds' # <<>> \/ writer_pc = "stopped"
         /\ ~mutated => cmds' = cmds
         /\ UNCHANGED <<writer_pc, flushing, dirty_seq, durable_seq, waiters, image, disk>>
<1>1. /\ answers[c] # "waiting" /\ "none" \in Answers
      /\ answers' = [answers EXCEPT ![c] = "none"]
      /\ cmds' = cmds \/ (cmds' = Append(cmds, Mutate) /\ mutated)
      /\ mutated => cmds' = Append(cmds, Mutate) \/ writer_pc = "stopped"
      /\ UNCHANGED <<writer_pc, flushing, dirty_seq, durable_seq, waiters, image, disk>>
  BY Zenon DEF Answered, TakeAnswer, SendCommand, Answers
<1>2. QueueOK(cmds, answers', waiters) /\ cmds \in Seq(Commands)
  BY Zenon, <1>1, AnswerSet DEF WriterInv
<1>3. /\ Append(cmds, Mutate) \in Seq(Commands) /\ Append(cmds, Mutate) # <<>>
      /\ QueueOK(Append(cmds, Mutate), answers', waiters)
  BY Zenon, <1>2, QueueOther
<1> QED BY Zenon, <1>1, <1>2, <1>3

\* The identity of a leave that was persisted is nobody's in the file.
LEMMA LeaveCleared ==
  ASSUME NEW f, NEW cs, Cleared(f, cs), NEW v \in Verifiers
  PROVE  LeftClear(f, [room |-> cs.seat.room, peer_id |-> cs.seat.peer_id, verifier |-> v])
<1>1. v # None
  BY Zenon, NoneIsNoValue
<1> QED BY Zenon, <1>1 DEF Cleared, LeftClear

\* The leave changes nothing, or fails, or frees the identity as persisted.
LeaveSaved(c) ==
  LET s == conn[c].seat
      old == rooms[s.room].reservations[s.peer_id]
      new == rooms'[s.room].reservations[s.peer_id]
  IN  \/ Calm /\ new = old
      \/ answers[c] # "ok" /\ new # None
      \/ answers[c] = "ok" /\ old # None /\ new = None

\* The end of a leave.
LEMMA LeaveEndsKeeps ==
  ASSUME DInv, NEW c \in Conns, LeaveEnds(c), UNCHANGED <<building, bounds>>,
         Frame(c), Owned, ClosesNothing, conn[c].pc = "leave", conn'[c].pc = "idle",
         conn[c].seat # None, LeaveSaved(c)
  PROVE  FileInv'
<1> DEFINE s == conn[c].seat
           old == rooms[s.room].reservations[s.peer_id]
           new == rooms'[s.room].reservations[s.peer_id]
           persisted == answers[c] = "ok"
           done == new = None /\ old # None
           x == [room |-> s.room, peer_id |-> s.peer_id, verifier |-> old.verifier]
<1>1. \/ Calm /\ new = old
      \/ ~persisted /\ new # None
      \/ persisted /\ old # None /\ new = None
  BY ZenonT(30) DEF LeaveSaved
<1>2. /\ Answered(c) /\ TakeAnswer(c, done) /\ done \in BOOLEAN
      /\ RememberLeft(IF done THEN {x} ELSE {})
      /\ UNCHANGED <<ended, building, failures>>
  BY Zenon DEF LeaveEnds, bounds
<1>3. WriterInv /\ LeftInv /\ EndedInv /\ ServedInv /\ SyncInv /\ FileInv
  BY Zenon DEF DInv, FileInv, HistoryInv
<1> HIDE DEF done
<1>4. /\ answers[c] # "waiting" /\ "none" \in Answers
      /\ answers' = [answers EXCEPT ![c] = "none"]
      /\ cmds' \in Seq(Commands) /\ QueueOK(cmds', answers', waiters)
      /\ done => cmds' # <<>> \/ writer_pc = "stopped"
      /\ ~done => cmds' = cmds
      /\ UNCHANGED <<writer_pc, flushing, dirty_seq, durable_seq, waiters, image, disk>>
  BY Zenon, <1>2, <1>3, AnswerTaken
<1>5. EndedInv' /\ Evolves(rooms, rooms')
  BY Zenon, <1>1, <1>2, <1>3, <1>4, EndedKept DEF Frame
<1>6. done => persisted
  BY ZenonT(30), <1>1 DEF done
<1>7. ASSUME done
      PROVE  /\ x.room \in Handles /\ x.peer_id \in PeerIds /\ x.verifier \in Verifiers
             /\ rooms'[x.room] # None
             /\ LeftClear(image, x) /\ LeftClear(disk, x)
  <2>1. s.room \in Handles /\ s.peer_id \in PeerIds /\ rooms[s.room] # None
    BY ZenonT(30), <1>1 DEF DInv, IndInv, ConnsOK, ConnOK, ConnStates, Seats
  <2>2. rooms[s.room] \in Rooms
    BY ZenonT(30), <2>1 DEF DInv, IndInv, RoomTableOK
  <2>3. old.verifier \in Verifiers
    BY Zenon, <1>7, <2>1, <2>2 DEF done, Rooms, Reservations
  <2>4. Cleared(image, conn[c]) /\ Cleared(disk, conn[c])
    BY Zenon, <1>3, <1>6, <1>7 DEF ServedInv, Served
  <2>5. LeftClear(image, x) /\ LeftClear(disk, x)
    BY Zenon, <2>3, <2>4, LeaveCleared
  <2>6. rooms'[s.room] # None
    BY Zenon, <1>5, <2>1 DEF Evolves
  <2> QED BY ZenonT(30), <2>1, <2>3, <2>5, <2>6
<1> HIDE DEF x
<1>8. LeftInv'
  <2> DEFINE gone == IF done THEN {x} ELSE {}
  <2>1. RememberLeft(gone)
    BY Zenon, <1>2
  <2>2. \A y \in gone : done /\ y = x
    BY Zenon
  <2>3. \A y \in gone : /\ y.room \in Handles /\ y.peer_id \in PeerIds /\ y.verifier \in Verifiers
                        /\ rooms'[y.room] # None
                        /\ LeftClear(image, y) /\ LeftClear(disk, y)
    BY Zenon, <1>7, <2>2
  <2> HIDE DEF gone
  <2> QED BY Zenon, <1>3, <1>4, <1>5, <2>1, <2>3, LeftMore
<1>9. cmds' # <<>> \/ failures # 0 \/ writer_pc = "stopped" \/ (Calm /\ cmds' = cmds)
  <2>1. CASE done
    BY Zenon, <1>4, <2>1
  <2>2. CASE ~done /\ answers[c] = "err"
    BY Zenon, <1>3, <2>2 DEF SyncInv
  <2>3. CASE ~done /\ answers[c] = "ok"
    BY ZenonT(30), <1>1, <1>4, <2>3 DEF done
  <2> QED BY Zenon, <1>2, <2>1, <2>2, <2>3 DEF Answered
<1> QED BY ZenonT(30), <1>1, <1>2, <1>3, <1>4, <1>5, <1>8, <1>9, AnswerKeeps

\* The end of an endSession.
LEMMA EndEndsKeeps ==
  ASSUME DInv, NEW c \in Conns, EndEnds(c), UNCHANGED <<building, bounds>>,
         Frame(c), Owned, ClosesNothing, Calm, conn[c].pc = "end_finish", conn'[c].pc = "idle",
         conn[c].seat.room \in Handles, rooms'[conn[c].seat.room] # None,
         rooms'[conn[c].seat.room].closing
  PROVE  FileInv'
<1> DEFINE persisted == answers[c] = "ok"
           a == conn[c].seat.room
<1>1. /\ Answered(c) /\ TakeAnswer(c, FALSE) /\ left' = left
      /\ ended' = IF persisted THEN ended \cup {a} ELSE ended
      /\ UNCHANGED <<building, failures>>
  BY Zenon DEF EndEnds, bounds
<1>2. WriterInv /\ LeftInv /\ EndedInv /\ ServedInv /\ FileInv
  BY Zenon DEF DInv, FileInv, HistoryInv
<1>3. /\ answers[c] # "waiting" /\ "none" \in Answers
      /\ answers' = [answers EXCEPT ![c] = "none"]
      /\ cmds' \in Seq(Commands) /\ QueueOK(cmds', answers', waiters) /\ cmds' = cmds
      /\ UNCHANGED <<writer_pc, flushing, dirty_seq, durable_seq, waiters, image, disk>>
  BY Zenon, <1>1, <1>2, AnswerTaken
<1>4. LeftInv' /\ Evolves(rooms, rooms')
  BY Zenon, <1>1, <1>2, <1>3, LeftKept DEF Frame
<1>5. EndedInv'
  <2>1. \A b \in ended : EndedOK(b, rooms')
    BY ZenonT(30), <1>2, <1>4 DEF EndedInv, EndedOK, Evolves, SameRoom
  <2>2. ASSUME persisted PROVE EndedClear(image, a) /\ EndedClear(disk, a)
    <3>1. Cleared(image, conn[c]) /\ Cleared(disk, conn[c])
      BY Zenon, <1>2, <2>2 DEF ServedInv, Served
    <3> QED BY Zenon, <3>1 DEF Cleared, EndedClear
  <2>3. EndedOK(a, rooms')
    BY Zenon DEF EndedOK
  <2> QED BY ZenonT(30), <1>1, <1>2, <1>3, <2>1, <2>2, <2>3 DEF EndedInv, EndedClear, Saves
<1> QED BY ZenonT(30), <1>1, <1>2, <1>3, <1>4, <1>5, AnswerKeeps
-----------------------------------------------------------------------------
(* Steps of the writer *)

\* The writer does not touch the rooms, the handlers or the cleanup task.
LEMMA SameRelay ==
  ASSUME DInv, UNCHANGED vars
  PROVE  IndInv' /\ FitsInv' /\ SeatInv' /\ SlotsInv' /\ ClosingInv'
<1>1. IndInv' /\ FitsInv' /\ SlotsInv'
  BY Zenon DEF DInv, IndInv, FitsInv, SlotsInv, vars
<1>2. SeatInv'
  BY Zenon DEF DInv, SeatInv, SeatsInv, LeavesInv, vars
<1>3. ClosingInv'
  BY Zenon DEF DInv, FileInv, ClosingInv, vars
<1> QED BY Zenon, <1>1, <1>2, <1>3

\* A file without entries is clear of everything.
LEMMA EmptyFile ==
  /\ FileOK(NoRooms) /\ Saves(NoRooms) = {}
  /\ \A cs : Cleared(NoRooms, cs)
  /\ \A x : LeftClear(NoRooms, x) /\ EndedClear(NoRooms, x)
<1>1. NoRooms \in [Sessions -> RoomDtos \cup {None}] /\ Saves(NoRooms) = {}
  BY Zenon DEF NoRooms, Saves
<1>2. IsFiniteSet({})
  <2>1. <<>> \in Seq({})
    OBVIOUS
  <2> QED BY Zenon, <2>1 DEF IsFiniteSet
<1> QED BY Zenon, <1>1, <1>2 DEF FileOK, Cleared, LeftClear, EndedClear

\* What was given up, when the writer changes what it has captured.
LEMMA CapturedHistory ==
  ASSUME HistoryInv, UNCHANGED <<vars, history>>, disk' = disk,
         \A c \in Conns : Served(answers', waiters', c) => Cleared(image', conn[c]),
         \A c \in Conns : answers'[c] = "ok" => answers[c] = "ok",
         \A x \in left : LeftClear(image', x),
         \A a \in ended : EndedClear(image', a)
  PROVE  HistoryInv'
<1>1. UNCHANGED <<conn, rooms, left, ended>>
  BY Zenon DEF vars, history
<1>2. ServedInv'
  BY Zenon, <1>1 DEF HistoryInv, ServedInv, Cleared, Saves, Served
<1>3. LeftInv'
  BY Zenon, <1>1 DEF HistoryInv, LeftInv, LeftClear, Saves
<1>4. EndedInv'
  BY Zenon, <1>1 DEF HistoryInv, EndedInv, EndedClear, Saves
<1> QED BY Zenon, <1>2, <1>3, <1>4 DEF HistoryInv

\* A Mutate is counted.
LEMMA ReceiveMutateKeeps ==
  ASSUME DInv, ReceiveMutate, UNCHANGED <<vars, history, building, bounds>>
  PROVE  FileInv'
<1>1. /\ WriterInv /\ FilesInv /\ HistoryInv /\ SyncInv /\ ClosingInv' /\ conn' = conn
      /\ rooms' = rooms
  BY Zenon, SameRelay DEF DInv, FileInv, vars
<1>2. /\ cmds # <<>> /\ cmds' = Tail(cmds) /\ dirty_seq' = dirty_seq + 1 /\ writer_pc = "recv"
      /\ UNCHANGED <<writer_pc, flushing, durable_seq, waiters, image, answers, disk>>
      /\ UNCHANGED <<building, failures>>
  BY Zenon DEF ReceiveMutate, bounds
<1>3. cmds' \in Seq(Commands) /\ QueueOK(cmds', answers, waiters)
  BY Zenon, <1>1, <1>2, QueueTail DEF WriterInv
<1>4. dirty_seq' \in Nat /\ durable_seq <= dirty_seq' /\ dirty_seq' # durable_seq
  BY SMTT(30), <1>1, <1>2 DEF WriterInv
<1>5. waiters = {} /\ WaitersOK(waiters, answers, dirty_seq')
  BY Zenon, <1>1, <1>2 DEF WriterInv, WaitersOK
<1>6. WriterInv'
  BY Zenon, <1>1, <1>2, <1>3, <1>4, <1>5 DEF WriterInv
<1>7. FilesInv' /\ SyncInv'
  BY Zenon, <1>1, <1>2, <1>4 DEF FilesInv, SyncInv
<1>8. HistoryInv'
  <2>1. UNCHANGED <<left, ended>>
    BY Zenon DEF history
  <2> QED
    BY Zenon, <1>1, <1>2, <2>1 DEF HistoryInv, ServedInv, LeftInv, EndedInv, Cleared, LeftClear, EndedClear,
       Saves, Served
<1> QED BY Zenon, <1>1, <1>6, <1>7, <1>8 DEF FileInv

\* A write begins with nothing captured.
LEMMA BuildBegins ==
  ASSUME DInv, UNCHANGED <<vars, history, bounds>>, building' = {},
         writer_pc = "recv", writer_pc' = "build", image' = NoRooms,
         cmds' \in Seq(Commands), QueueOK(cmds', answers, waiters'),
         dirty_seq' \in Nat, durable_seq <= dirty_seq', WaitersOK(waiters', answers, dirty_seq'),
         flushing' \in BOOLEAN, UNCHANGED <<durable_seq, answers, disk>>
  PROVE  FileInv'
<1>1. /\ WriterInv /\ FilesInv /\ HistoryInv /\ SyncInv /\ ClosingInv' /\ conn' = conn
      /\ rooms' = rooms /\ failures' = failures
  BY Zenon, SameRelay DEF DInv, FileInv, vars, bounds
<1>2. WriterInv'
  BY Zenon, <1>1 DEF WriterInv, WriterSteps
<1>3. FilesInv'
  BY Zenon, <1>1, EmptyFile DEF FilesInv
<1>4. HistoryInv'
  BY Zenon, <1>1, EmptyFile, CapturedHistory
<1>5. SyncInv'
  BY Zenon, <1>1 DEF SyncInv
<1> QED BY Zenon, <1>1, <1>2, <1>3, <1>4, <1>5 DEF FileInv

\* A writer that returns drops the senders it still has.
LEMMA StopKeeps ==
  ASSUME DInv, UNCHANGED <<vars, history, bounds>>, building' = {},
         writer_pc = "recv", writer_pc' = "stopped", cmds' = <<>>,
         answers' = AnswersAfter(durable_seq, TRUE, TRUE), waiters' = {},
         UNCHANGED <<flushing, image, dirty_seq, durable_seq, disk>>
  PROVE  FileInv'
<1>1. /\ WriterInv /\ FilesInv /\ HistoryInv /\ SyncInv /\ ClosingInv' /\ conn' = conn
      /\ rooms' = rooms /\ failures' = failures
  BY Zenon, SameRelay DEF DInv, FileInv, vars, bounds
<1>2. waiters = {}
  BY Zenon, <1>1 DEF WriterInv
<1>3. /\ answers' \in [Conns -> Answers]
      /\ \A c \in Conns : answers'[c] = IF answers[c] = "waiting" THEN "err" ELSE answers[c]
  BY Zenon, <1>1, <1>2 DEF AnswersAfter, Resolved, WriterInv, Answers
<1>4. <<>> \in Seq(Commands) /\ DOMAIN <<>> = {}
  OBVIOUS
<1>5. QueueOK(<<>>, answers', {}) /\ WaitersOK({}, answers', dirty_seq)
  BY Zenon, <1>4 DEF QueueOK, WaitersOK
<1>6. WriterInv'
  BY Zenon, <1>1, <1>3, <1>4, <1>5 DEF WriterInv, WriterSteps
<1>7. FilesInv'
  BY Zenon, <1>1 DEF FilesInv
<1>8. HistoryInv'
  <2>1. \A c \in Conns : answers'[c] = "ok" => answers[c] = "ok"
    BY Zenon, <1>3
  <2>2. \A c \in Conns : Served(answers', {}, c) => Served(answers, waiters, c)
    BY Zenon, <2>1 DEF Served
  <2>3. \A c \in Conns : Served(answers', {}, c) => Cleared(image', conn[c])
    BY Zenon, <1>1, <2>2 DEF HistoryInv, ServedInv
  <2>4. /\ \A x \in left : LeftClear(image', x)
        /\ \A a \in ended : EndedClear(image', a)
    BY Zenon, <1>1 DEF HistoryInv, LeftInv, EndedInv
  <2> QED BY Zenon, <1>1, <2>1, <2>3, <2>4, CapturedHistory
<1>9. SyncInv'
  BY Zenon, <1>1, <1>3 DEF SyncInv
<1> QED BY Zenon, <1>1, <1>6, <1>7, <1>8, <1>9 DEF FileInv

\* The first command asks for a write, or the timer fires.
LEMMA BeginBuildKeeps ==
  ASSUME DInv, BeginBuild
  PROVE  FileInv'
<1>1. WriterInv
  BY Zenon DEF DInv, FileInv
<1>2. UNCHANGED <<vars, history, bounds>> /\ building' = {}
  BY Zenon DEF BeginBuild
<1>3. /\ cmds \in Seq(Commands) /\ dirty_seq \in Nat /\ durable_seq \in Nat
      /\ durable_seq <= dirty_seq /\ flushing \in BOOLEAN
      /\ QueueOK(cmds, answers, waiters) /\ WaitersOK(waiters, answers, dirty_seq)
      /\ writer_pc = "recv" => waiters = {}
  BY Zenon, <1>1 DEF WriterInv
<1>4. CASE ReceiveTerminal(NoRooms)
  <2> DEFINE c == Head(cmds).from
             w == [seq |-> dirty_seq + 1, from |-> c]
  <2>1. /\ writer_pc = "recv" /\ cmds # <<>> /\ Head(cmds).type = "terminal"
        /\ cmds' = Tail(cmds) /\ dirty_seq' = dirty_seq + 1 /\ waiters' = waiters \cup {w}
        /\ writer_pc' = "build" /\ image' = NoRooms
        /\ UNCHANGED <<flushing, durable_seq, answers, disk>>
    BY Zenon, <1>4 DEF ReceiveTerminal
  <2>2. /\ Head(cmds) \in Commands /\ Tail(cmds) \in Seq(Commands)
        /\ QueueOK(Tail(cmds), answers, waiters)
        /\ \A d \in Conns : Head(cmds) = Terminal(d) =>
             answers[d] = "waiting" /\ \A i \in DOMAIN Tail(cmds) : Tail(cmds)[i] # Terminal(d)
    BY Zenon, <1>3, <2>1, QueueTail
  <2>3. c \in Conns /\ Head(cmds) = Terminal(c)
    BY SMTT(30), <2>1, <2>2 DEF Commands, Mutate, FlushAndStop, Terminal
  <2>4. waiters' = {w} /\ w.seq = dirty_seq + 1 /\ w.from = c
    BY Zenon, <1>3, <2>1
  <2> HIDE DEF c, w
  <2>5. QueueOK(cmds', answers, waiters')
    BY SMTT(30), <2>1, <2>2, <2>3, <2>4 DEF QueueOK
  <2>6. dirty_seq' \in Nat /\ durable_seq <= dirty_seq' /\ WaitersOK(waiters', answers, dirty_seq')
    BY SMTT(30), <1>3, <2>1, <2>2, <2>3, <2>4 DEF WaitersOK
  <2> QED BY Zenon, <1>2, <1>3, <2>1, <2>2, <2>5, <2>6, BuildBegins
<1>5. CASE ReceiveFlush(NoRooms)
  <2>1. Tail(cmds) \in Seq(Commands) /\ QueueOK(Tail(cmds), answers, waiters)
    BY Zenon, <1>3, <1>5, QueueTail DEF ReceiveFlush
  <2>2. CASE dirty_seq > durable_seq
    <3>1. ~(dirty_seq <= durable_seq)
      BY <1>3, <2>2
    <3>2. /\ writer_pc = "recv" /\ cmds' = Tail(cmds) /\ writer_pc' = "build" /\ flushing' = TRUE
          /\ image' = NoRooms
          /\ UNCHANGED <<waiters, answers, dirty_seq, durable_seq, disk>>
      BY Zenon, <1>5, <3>1 DEF ReceiveFlush
    <3> QED BY Zenon, <1>2, <1>3, <2>1, <3>2, BuildBegins
  <2>3. CASE ~(dirty_seq > durable_seq)
    <3>1. /\ writer_pc = "recv" /\ writer_pc' = "stopped" /\ cmds' = <<>>
          /\ answers' = AnswersAfter(durable_seq, TRUE, TRUE) /\ waiters' = {}
          /\ UNCHANGED <<flushing, image, dirty_seq, durable_seq, disk>>
      BY ZenonT(30), <1>5, <2>3 DEF ReceiveFlush
    <3> QED BY Zenon, <1>2, <3>1, StopKeeps
  <2> QED BY Zenon, <2>2, <2>3
<1>6. CASE Debounce(NoRooms)
  <2>1. /\ writer_pc = "recv" /\ writer_pc' = "build" /\ image' = NoRooms
        /\ UNCHANGED <<cmds, flushing, dirty_seq, durable_seq, waiters, answers, disk>>
    BY Zenon, <1>6 DEF Debounce
  <2> QED BY Zenon, <1>2, <1>3, <2>1, BuildBegins
<1> QED BY Zenon, <1>4, <1>5, <1>6 DEF BeginBuild

\* A step of build_snapshot.
LEMMA BuildKeeps ==
  ASSUME DInv, UNCHANGED <<vars, history, bounds>>,
         writer_pc = "build", writer_pc' \in {"build", "write"},
         UNCHANGED <<cmds, flushing, dirty_seq, durable_seq, waiters, answers, disk>>,
         FileOK(image'), \A a \in building' : a \in Handles /\ rooms[a] # None,
         \A c \in Conns : Served(answers, waiters, c) => Cleared(image', conn[c]),
         \A x \in left : LeftClear(image', x),
         \A a \in ended : EndedClear(image', a),
         failures = 0 /\ cmds = <<>> =>
           /\ writer_pc' = "write" => \A s \in Sessions : Synced(image', s)
           /\ writer_pc' = "build" /\ building' # {}
                => \A s \in Sessions : registry[s] \in building' \/ Synced(image', s)
  PROVE  FileInv'
<1>1. /\ WriterInv /\ FilesInv /\ HistoryInv /\ SyncInv /\ ClosingInv' /\ failures' = failures
      /\ UNCHANGED <<conn, rooms, registry, now>>
  BY ZenonT(30), SameRelay DEF DInv, FileInv, vars, bounds
<1>2. WriterInv'
  BY ZenonT(30), <1>1 DEF WriterInv, WriterSteps
<1>3. FilesInv'
  BY ZenonT(30), <1>1 DEF FilesInv
<1>4. HistoryInv'
  BY ZenonT(30), <1>1, CapturedHistory
<1>5. SyncInv'
  BY Zenon, <1>1 DEF SyncInv, Synced
<1> QED BY Zenon, <1>1, <1>2, <1>3, <1>4, <1>5 DEF FileInv

\* The rooms are listed.
LEMMA BuildListKeeps ==
  ASSUME DInv, BuildList
  PROVE  FileInv'
<1>1. /\ UNCHANGED <<vars, history, bounds>> /\ writer_pc = "build"
      /\ FilesInv /\ HistoryInv /\ RegistryOK(rooms, registry)
  BY Zenon DEF BuildList, DInv, IndInv, FileInv
<1>2. \A s \in Sessions : registry[s] = None => \A f : Synced(f, s)
  BY Zenon DEF Synced
<1>3. CASE Registered = {}
  <2>1. /\ Captured(NoRooms) /\ building' = {}
    BY Zenon, <1>3 DEF BuildList
  <2>2. /\ writer_pc' = "write" /\ image' = NoRooms
        /\ UNCHANGED <<cmds, flushing, dirty_seq, durable_seq, waiters, answers, disk>>
    BY Zenon, <2>1 DEF Captured
  <2>3. \A s \in Sessions : registry[s] = None
    BY Zenon, <1>1, <1>3 DEF Registered, RegistryOK
  <2> QED BY Zenon, <1>1, <1>2, <2>1, <2>2, <2>3, EmptyFile, BuildKeeps
<1>4. CASE Registered # {}
  <2>1. /\ building' = Registered /\ UNCHANGED writerVars
    BY Zenon, <1>4 DEF BuildList
  <2>2. UNCHANGED <<cmds, writer_pc, flushing, dirty_seq, durable_seq, waiters, image, answers, disk>>
    BY Zenon, <2>1 DEF writerVars
  <2>3. /\ \A a \in building' : a \in Handles /\ rooms[a] # None
        /\ \A s \in Sessions : registry[s] # None => registry[s] \in building'
    BY ZenonT(30), <1>1, <2>1, RelayConstants DEF Registered, RegistryOK
  <2>4. /\ FileOK(image')
        /\ \A c \in Conns : Served(answers, waiters, c) => Cleared(image', conn[c])
        /\ \A x \in left : LeftClear(image', x)
        /\ \A a \in ended : EndedClear(image', a)
    BY ZenonT(30), <1>1, <2>2 DEF FilesInv, HistoryInv, ServedInv, LeftInv, EndedInv
  <2> QED BY Zenon, <1>1, <1>2, <2>2, <2>3, <2>4, BuildKeeps
<1> QED BY Zenon, <1>3, <1>4

\* What build_room_dto makes of a well-formed room.
LEMMA RoomEntry ==
  ASSUME Counting, NEW a \in Handles, NEW r, RoomOK(r), Fits(r)
  PROVE  LET d == BuildRoomDto(a, r)
         IN  /\ EntryOK(r.session_id, d) /\ d # None /\ d.room = a
             /\ \A p \in PeerIds : DtoOwner(d, p) \in {Owner(r, p), None}
             /\ \A p \in Pending(r) : DtoOwner(d, p) = None
             /\ \A t : Matches(d, r, t)
<1> DEFINE d == BuildRoomDto(a, r)
<1>1. r \in Rooms /\ RosterOK(r)
  BY Zenon DEF RoomOK
<1>2. /\ r.session_id \in Sessions /\ r.host_peer_id \in PeerIds /\ r.host_verifier \in Verifiers
      /\ r.created_at \in Nat /\ r.last_activity_at \in Nat
      /\ \A p \in PeerIds : r.reservations[p] # None =>
           /\ r.reservations[p].verifier \in Verifiers
           /\ r.reservations[p].absent_since \in Nat \cup {None}
  BY ZenonT(30), <1>1 DEF Rooms, Reservations
<1>3. /\ Saved(r) \in [PeerIds -> ReservationDtos \cup {None}]
      /\ \A p \in PeerIds : p \notin Transferable(r) => Saved(r)[p] = None
      /\ \A p \in Transferable(r) :
           /\ r.reservations[p] # None /\ Saved(r)[p] # None
           /\ Saved(r)[p].verifier = r.reservations[p].verifier
  <2>1. \A p \in PeerIds : r.reservations[p] # None =>
          LET x == [verifier |-> r.reservations[p].verifier,
                    absent_since |-> r.reservations[p].absent_since]
          IN  x \in ReservationDtos /\ x # None
    BY SMTT(30), <1>2, DurabilityConstants DEF ReservationDtos
  <2> QED BY Zenon, <2>1 DEF Saved, Transferable, Reserved
<1>4. /\ d.room = a /\ d.session_id = r.session_id /\ d.host_peer_id = r.host_peer_id
      /\ d.host_verifier = r.host_verifier /\ d.reservations = Saved(r)
  BY Zenon DEF BuildRoomDto
<1>5. d \in RoomDtos /\ d # None
  BY <1>2, <1>3, DurabilityConstants DEF BuildRoomDto, RoomDtos
<1> HIDE DEF d
<1>6. Transferable(r) \subseteq Reserved(r) /\ Reserved(r) \subseteq PeerIds
  BY Zenon DEF Transferable, Reserved
<1>7. Valid(d)
  BY Zenon, <1>1, <1>2, <1>3, <1>4, <1>6 DEF Valid, RosterOK
<1>8. IsFiniteSet(Kept(d)) /\ Cardinality(Kept(d)) <= MAX_ROOM_SIZE - 1
  <2>1. Kept(d) \subseteq Reserved(r)
    BY Zenon, <1>3, <1>4, <1>6 DEF Kept
  <2>2. IsFiniteSet(Reserved(r)) /\ Cardinality(Reserved(r)) <= MAX_ROOM_SIZE - 1
    BY Zenon DEF Fits
  <2>3. IsFiniteSet(Kept(d)) /\ Cardinality(Kept(d)) <= Cardinality(Reserved(r))
    BY ZenonT(30), <2>1, <2>2 DEF Counting
  <2>4. Cardinality(Kept(d)) \in Nat /\ Cardinality(Reserved(r)) \in Nat
    BY ZenonT(30), <2>2, <2>3 DEF Counting
  <2> QED BY SMTT(30), <2>2, <2>3, <2>4, RoomConstants
<1>9. \A p \in PeerIds : DtoOwner(d, p) \in {Owner(r, p), None}
  BY ZenonT(30), <1>3, <1>4 DEF DtoOwner, Owner
<1>10. \A p \in Pending(r) : DtoOwner(d, p) = None
  <2>1. \A p \in Pending(r) : p \in PeerIds /\ p # r.host_peer_id /\ p \notin Transferable(r)
    BY Zenon, <1>1 DEF Pending, Transferable, RosterOK, Reserved
  <2> QED BY Zenon, <1>3, <1>4, <2>1 DEF DtoOwner
<1>11. \A t : Matches(d, r, t)
  BY Zenon, <1>3, <1>4, <1>5 DEF Matches, LiveClaim
<1> QED BY Zenon, <1>4, <1>5, <1>7, <1>8, <1>9, <1>10, <1>11 DEF EntryOK, d

\* g is f with one more entry, or another one for the session.
Adds(f, g, s, d) == g = [f EXCEPT ![s] = d]

\* An entry of its session is added to a file.
LEMMA FileAdd ==
  ASSUME Counting, NEW f, FileOK(f), NEW s \in Sessions, NEW d, EntryOK(s, d),
         NEW g, Adds(f, g, s, d)
  PROVE  FileOK(g)
<1>1. /\ g \in [Sessions -> RoomDtos \cup {None}] /\ g[s] = d
      /\ \A t \in Sessions : t # s => g[t] = f[t]
  BY Zenon DEF FileOK, EntryOK, Adds
<1>2. \A t \in Saves(g) : t \in Sessions /\ (t # s => t \in Saves(f))
  BY Zenon, <1>1 DEF Saves
<1>3. \A t \in Saves(g) : EntryOK(t, g[t])
  BY Zenon, <1>1, <1>2 DEF FileOK
<1>4. IsFiniteSet(Saves(g))
  <2>1. IsFiniteSet(Saves(f) \cup {s})
    BY Zenon DEF FileOK, Counting
  <2>2. Saves(g) \subseteq Saves(f) \cup {s}
    BY Zenon, <1>2
  <2> QED BY ZenonT(30), <2>1, <2>2 DEF Counting
<1> QED BY Zenon, <1>1, <1>3, <1>4 DEF FileOK

\* What the entry of an open room does not bring back: identities that are
\* being given up or were, and rooms that are ending or have.
LEMMA EntryClears ==
  ASSUME Counting, DInv, NEW a \in Handles, rooms[a] # None, ~rooms[a].closing
  PROVE  LET d == BuildRoomDto(a, rooms[a])
         IN  /\ \A c \in Conns : Served(answers, waiters, c) /\ conn[c].seat.room = a =>
                  conn[c].pc = "leave" /\ DtoOwner(d, conn[c].seat.peer_id) = None
             /\ \A x \in left : x.room = a => DtoOwner(d, x.peer_id) # x.verifier
             /\ \A b \in ended : b # a
<1> DEFINE d == BuildRoomDto(a, rooms[a])
<1>1. RoomOK(rooms[a]) /\ Fits(rooms[a])
  BY Zenon DEF DInv, IndInv, FitsInv, RoomTableOK
<1>2. /\ \A p \in PeerIds : DtoOwner(d, p) \in {Owner(rooms[a], p), None}
      /\ \A p \in Pending(rooms[a]) : DtoOwner(d, p) = None
  BY ZenonT(30), <1>1, RoomEntry
<1> HIDE DEF d
<1>3. ASSUME NEW c \in Conns, Served(answers, waiters, c), conn[c].seat.room = a
      PROVE  conn[c].pc = "leave" /\ DtoOwner(d, conn[c].seat.peer_id) = None
  <2>1. conn[c].pc \in {"leave", "end_finish"}
    BY Zenon, <1>3, ServedAwaits DEF DInv, FileInv, Awaiting
  <2>2. conn[c].pc # "end_finish"
    BY ZenonT(30), <1>3 DEF DInv, IndInv, ConnsOK, ConnOK, EndSteps
  <2>3. conn[c].seat.peer_id \in Pending(rooms[a])
    BY ZenonT(30), <1>3, <2>1, <2>2 DEF DInv, SeatInv, LeavesInv, LeavesOK, Leaver
  <2> QED BY Zenon, <1>2, <2>1, <2>2, <2>3
<1>4. ASSUME NEW x \in left, x.room = a
      PROVE  DtoOwner(d, x.peer_id) # x.verifier
  <2>1. LeftOK(x, rooms)
    BY Zenon DEF DInv, FileInv, HistoryInv, LeftInv
  <2>2. x.verifier # None
    BY Zenon, <2>1, NoneIsNoValue DEF LeftOK
  <2> QED BY Zenon, <1>2, <1>4, <2>1, <2>2 DEF LeftOK
<1>5. \A b \in ended : b # a
  BY Zenon DEF DInv, FileInv, HistoryInv, EndedInv, EndedOK
<1> QED BY Zenon, <1>3, <1>4, <1>5 DEF d

\* One room is locked and captured, or skipped.
LEMMA BuildVisitKeeps ==
  ASSUME Counting, DInv, NEW a \in Handles, BuildVisit(a)
  PROVE  FileInv'
<1> DEFINE r == rooms[a]
           d == BuildRoomDto(a, r)
           content == IF r.closing THEN image ELSE [image EXCEPT ![r.session_id] = d]
<1>1. /\ UNCHANGED <<vars, history, bounds>> /\ writer_pc = "build" /\ a \in building
      /\ building' = building \ {a} /\ r # None
      /\ FilesInv /\ HistoryInv /\ SyncInv /\ RegistryOK(rooms, registry)
  BY Zenon DEF BuildVisit, DInv, IndInv, FileInv, FilesInv
<1>2. /\ image' = content
      /\ writer_pc' = IF building = {a} THEN "write" ELSE "build"
      /\ UNCHANGED <<cmds, flushing, dirty_seq, durable_seq, waiters, answers, disk>>
  BY Zenon DEF BuildVisit, Captured
<1>3. RoomOK(r) /\ Fits(r) /\ r.session_id \in Sessions
  BY ZenonT(30), <1>1 DEF DInv, IndInv, FitsInv, RoomTableOK, RoomOK, Rooms
<1>4. EntryOK(r.session_id, d) /\ d # None /\ d.room = a /\ \A t : Matches(d, r, t)
  BY ZenonT(30), <1>3, RoomEntry
<1>5. /\ FileOK(image') /\ \A s \in Saves(image') : s \in Sessions
      /\ \A s \in Sessions : \/ image'[s] = image[s]
                             \/ ~r.closing /\ s = r.session_id /\ image'[s] = d
      /\ ~r.closing => image'[r.session_id] = d
  <2>1. CASE r.closing
    BY Zenon, <1>1, <1>2, <2>1 DEF FilesInv, Saves
  <2>2. CASE ~r.closing
    <3>1. image' = [image EXCEPT ![r.session_id] = d] /\ FileOK(image)
      BY Zenon, <1>1, <1>2, <2>2 DEF FilesInv
    <3> DEFINE k == r.session_id
    <3>2. k \in Sessions /\ EntryOK(k, d) /\ Adds(image, image', k, d) /\ FileOK(image)
      BY Zenon, <1>3, <1>4, <3>1 DEF Adds
    <3> HIDE DEF d, r, k
    <3>3. FileOK(image')
      BY Zenon, <3>2, FileAdd
    <3>4. image'[k] = d /\ \A t \in Sessions : t # k => image'[t] = image[t]
      BY Zenon, <3>2 DEF Adds, FileOK
    <3> QED BY Zenon, <2>2, <3>3, <3>4 DEF Saves, k
  <2> QED BY Zenon, <2>1, <2>2
<1>6. ~r.closing =>
        /\ \A c \in Conns : Served(answers, waiters, c) /\ conn[c].seat.room = a =>
             conn[c].pc = "leave" /\ DtoOwner(d, conn[c].seat.peer_id) = None
        /\ \A x \in left : x.room = a => DtoOwner(d, x.peer_id) # x.verifier
        /\ \A b \in ended : b # a
  BY Zenon, <1>1, EntryClears
<1>7. \A a2 \in building' : a2 \in Handles /\ rooms[a2] # None
  BY Zenon, <1>1 DEF FilesInv
<1> HIDE DEF d, content
<1>8. \A c \in Conns : Served(answers, waiters, c) => Cleared(image', conn[c])
  <2> SUFFICES ASSUME NEW c \in Conns, Served(answers, waiters, c),
                      NEW s \in Saves(image'), image'[s].room = conn[c].seat.room
               PROVE  conn[c].pc = "leave" /\ DtoOwner(image'[s], conn[c].seat.peer_id) = None
    BY Zenon DEF Cleared
  <2>1. CASE image'[s] = image[s]
    BY ZenonT(30), <1>1, <1>5, <2>1 DEF HistoryInv, ServedInv, Cleared, Saves
  <2>2. CASE ~r.closing /\ image'[s] = d
    BY ZenonT(30), <1>4, <1>6, <2>2
  <2> QED BY ZenonT(30), <1>5, <2>1, <2>2
<1>9. \A x \in left : LeftClear(image', x)
  <2> SUFFICES ASSUME NEW x \in left, NEW s \in Saves(image'), image'[s].room = x.room
               PROVE  DtoOwner(image'[s], x.peer_id) # x.verifier
    BY Zenon DEF LeftClear
  <2>1. CASE image'[s] = image[s]
    BY ZenonT(30), <1>1, <1>5, <2>1 DEF HistoryInv, LeftInv, LeftClear, Saves
  <2>2. CASE ~r.closing /\ image'[s] = d
    BY Zenon, <1>4, <1>6, <2>2
  <2> QED BY Zenon, <1>5, <2>1, <2>2
<1>10. \A b \in ended : EndedClear(image', b)
  <2> SUFFICES ASSUME NEW b \in ended, NEW s \in Saves(image')
               PROVE  image'[s].room # b
    BY Zenon DEF EndedClear
  <2>1. CASE image'[s] = image[s]
    BY ZenonT(30), <1>1, <1>5, <2>1 DEF HistoryInv, EndedInv, EndedClear, Saves
  <2>2. CASE ~r.closing /\ image'[s] = d
    BY Zenon, <1>4, <1>6, <2>2
  <2> QED BY Zenon, <1>5, <2>1, <2>2
<1>11. ASSUME failures = 0, cmds = <<>>
       PROVE  \A s \in Sessions : registry[s] \in building' \/ Synced(image', s)
  <2> SUFFICES ASSUME NEW s \in Sessions, registry[s] \notin building',
                      registry[s] # None, ~rooms[registry[s]].closing
               PROVE  Matches(image'[s], rooms[registry[s]], now)
    BY Zenon DEF Synced
  <2>1. rooms[registry[s]].session_id = s /\ registry[s] \in Handles
    BY SMTT(30), <1>1 DEF RegistryOK
  <2>2. CASE registry[s] = a
    BY ZenonT(30), <1>4, <1>5, <2>1, <2>2
  <2>3. CASE registry[s] # a
    <3>1. registry[s] \notin building /\ building # {}
      BY Zenon, <1>1, <2>3
    <3>2. Synced(image, s)
      BY Zenon, <1>1, <1>11, <3>1 DEF SyncInv
    <3>3. ~r.closing => s # r.session_id
      BY ZenonT(30), <1>1, <2>3 DEF RegistryOK
    <3> QED BY ZenonT(30), <1>5, <3>2, <3>3 DEF Synced
  <2> QED BY Zenon, <2>2, <2>3
<1>12. writer_pc' = "write" => building' = {}
  BY Zenon, <1>1, <1>2
<1> QED BY ZenonT(30), <1>1, <1>2, <1>5, <1>7, <1>8, <1>9, <1>10, <1>11, <1>12, BuildKeeps

\* A write ends: everybody it has on its list is answered.
LEMMA PersistKeeps ==
  ASSUME DInv, Persist
  PROVE  FileInv'
<1>1. /\ WriterInv /\ FilesInv /\ HistoryInv /\ SyncInv /\ ClosingInv'
      /\ UNCHANGED <<conn, rooms, registry, now, left, ended, building>>
  BY Zenon, SameRelay DEF DInv, FileInv, Persist, vars, history
<1>2. PICK ok \in BOOLEAN : /\ Write(ok) /\ failures' = IF ok THEN failures ELSE failures + 1
  BY Zenon DEF Persist
<1>3. /\ writer_pc = "write" /\ disk' = (IF ok THEN image ELSE disk)
      /\ durable_seq' = (IF ok THEN dirty_seq ELSE durable_seq)
      /\ answers' = AnswersAfter(durable_seq', ok, flushing)
      /\ waiters' = (IF flushing THEN {} ELSE waiters \ Resolved(durable_seq', ok))
      /\ writer_pc' = (IF flushing THEN "stopped" ELSE "recv")
      /\ cmds' = (IF flushing THEN <<>> ELSE cmds)
      /\ UNCHANGED <<flushing, dirty_seq, image>>
  BY Zenon, <1>2 DEF Write
<1>4. Resolved(durable_seq', ok) = waiters
  BY Zenon, <1>1, <1>3 DEF Resolved, WriterInv, WaitersOK
<1>5. waiters' = {}
  BY Zenon, <1>3, <1>4
<1>6. /\ answers' \in [Conns -> Answers]
      /\ \A c \in Conns : answers'[c] =
           IF \E w \in waiters : w.from = c THEN IF ok THEN "ok" ELSE "err"
           ELSE IF flushing /\ answers[c] = "waiting" THEN "err" ELSE answers[c]
  BY ZenonT(30), <1>1, <1>3, <1>4 DEF AnswersAfter, WriterInv, Answers
<1>7. WriterInv'
  <2>1. cmds' \in Seq(Commands) /\ QueueOK(cmds', answers', {})
    <3>1. CASE flushing
      <4>1. cmds' = <<>> /\ <<>> \in Seq(Commands) /\ DOMAIN <<>> = {}
        BY <1>3, <3>1
      <4> QED BY Zenon, <4>1 DEF QueueOK
    <3>2. CASE ~flushing
      <4>1. cmds' = cmds /\ QueueOK(cmds, answers, waiters) /\ cmds \in Seq(Commands)
        BY Zenon, <1>1, <1>3, <3>2 DEF WriterInv
      <4>2. QueueOK(cmds, answers', {})
        BY Zenon, <1>6, <3>2, <4>1 DEF QueueOK
      <4> QED BY Zenon, <4>1, <4>2
    <3> QED BY Zenon, <3>1, <3>2
  <2>2. \A c \in Conns : answers'[c] # "none" => Awaiting(conn'[c])
    <3>1. \A c \in Conns : answers'[c] # "none" => answers[c] # "none"
      BY Zenon, <1>1, <1>6 DEF WriterInv, WaitersOK
    <3> QED BY Zenon, <1>1, <3>1 DEF WriterInv
  <2>3. failures' \in Nat /\ durable_seq' \in Nat /\ durable_seq' <= dirty_seq
    BY <1>1, <1>2, <1>3 DEF WriterInv
  <2>4. WaitersOK({}, answers', dirty_seq)
    BY Zenon DEF WaitersOK
  <2> QED BY Zenon, <1>1, <1>3, <1>5, <1>6, <2>1, <2>2, <2>3, <2>4 DEF WriterInv, WriterSteps
<1>8. FilesInv'
  BY Zenon, <1>1, <1>3 DEF FilesInv
<1>9. HistoryInv'
  <2>1. \A c \in Conns : answers'[c] = "ok" =>
          Cleared(image, conn[c]) /\ Cleared(disk', conn[c])
    <3> SUFFICES ASSUME NEW c \in Conns, answers'[c] = "ok"
                 PROVE  Cleared(image, conn[c]) /\ Cleared(disk', conn[c])
      BY Zenon
    <3>1. CASE \E w \in waiters : w.from = c
      BY ZenonT(30), <1>1, <1>3, <1>6, <3>1 DEF HistoryInv, ServedInv, Served
    <3>2. CASE ~\E w \in waiters : w.from = c
      <4>1. answers[c] = "ok"
        BY Zenon, <1>6, <3>2
      <4> QED BY Zenon, <1>1, <1>3, <4>1 DEF HistoryInv, ServedInv, Served
    <3> QED BY Zenon, <3>1, <3>2
  <2>2. ServedInv'
    BY ZenonT(30), <1>1, <1>3, <1>5, <2>1 DEF ServedInv, Served, Cleared, Saves
  <2>3. LeftInv'
    BY ZenonT(30), <1>1, <1>3 DEF HistoryInv, LeftInv, LeftClear, Saves
  <2>4. EndedInv'
    BY Zenon, <1>1, <1>3 DEF HistoryInv, EndedInv, EndedClear, Saves
  <2> QED BY Zenon, <2>2, <2>3, <2>4 DEF HistoryInv
<1>10. SyncInv'
  <2>1. failures \in Nat
    BY Zenon, <1>1 DEF WriterInv
  <2>2. \A c \in Conns : answers'[c] = "err" => failures' # 0 \/ writer_pc' = "stopped"
    BY SMTT(30), <1>1, <1>2, <1>3, <1>6, <2>1 DEF SyncInv
  <2>3. CASE failures' = 0 /\ cmds' = <<>> /\ writer_pc' = "recv"
    <3>1. ok /\ failures = 0 /\ ~flushing
      BY <1>2, <1>3, <2>1, <2>3
    <3>2. cmds = <<>> /\ disk' = image
      BY Zenon, <1>3, <2>3, <3>1
    <3>3. \A s \in Sessions : Synced(image, s)
      BY Zenon, <1>1, <1>3, <3>1, <3>2 DEF SyncInv
    <3>4. \A s \in Sessions : Synced(disk, s)'
      BY Zenon, <1>1, <3>2, <3>3 DEF Synced
    <3> QED BY Zenon, <2>2, <2>3, <3>4 DEF SyncInv
  <2>4. CASE ~(failures' = 0 /\ cmds' = <<>> /\ writer_pc' = "recv")
    BY Zenon, <1>3, <2>2, <2>4 DEF SyncInv
  <2> QED BY Zenon, <2>3, <2>4
<1> QED BY Zenon, <1>1, <1>7, <1>8, <1>9, <1>10 DEF FileInv

\* main asks for a last write.
LEMMA ShutdownKeeps ==
  ASSUME DInv, Shutdown
  PROVE  FileInv'
<1>1. /\ WriterInv /\ FilesInv /\ HistoryInv /\ SyncInv /\ ClosingInv'
      /\ UNCHANGED <<conn, rooms, registry, now, left, ended, building, failures>>
  BY Zenon, SameRelay DEF DInv, FileInv, Shutdown, vars, history, bounds
<1>2. /\ cmds' = Append(cmds, FlushAndStop)
      /\ UNCHANGED <<writer_pc, flushing, dirty_seq, durable_seq, waiters, image, answers, disk>>
  BY Zenon DEF Shutdown, RequestFlush, SendCommand
<1>3. cmds' \in Seq(Commands) /\ cmds' # <<>> /\ QueueOK(cmds', answers, waiters)
  BY Zenon, <1>1, <1>2, QueueOther DEF WriterInv
<1>4. WriterInv' /\ FilesInv'
  BY Zenon, <1>1, <1>2, <1>3 DEF WriterInv, FilesInv
<1>5. SyncInv'
  BY Zenon, <1>1, <1>2, <1>3 DEF SyncInv
<1>6. HistoryInv'
  <2>1. ServedInv'
    BY ZenonT(30), <1>1, <1>2 DEF HistoryInv, ServedInv, Served, Cleared, Saves
  <2>2. LeftInv' /\ EndedInv'
    BY Zenon, <1>1, <1>2 DEF HistoryInv, LeftInv, LeftClear, EndedInv, EndedClear, Saves
  <2> QED BY Zenon, <2>1, <2>2 DEF HistoryInv
<1> QED BY Zenon, <1>1, <1>4, <1>5, <1>6 DEF FileInv

\* Every step of the writer keeps the invariant.
LEMMA WriterKeeps ==
  ASSUME Counting, DInv, WriterStep \/ Shutdown
  PROVE  DInv'
<1>1. UNCHANGED vars
  BY Zenon DEF WriterStep, BeginBuild, BuildList, BuildVisit, Persist, Shutdown
<1>2. IndInv' /\ FitsInv' /\ SeatInv' /\ SlotsInv'
  BY Zenon, <1>1, SameRelay
<1>3. FileInv'
  BY Zenon, ReceiveMutateKeeps, BeginBuildKeeps, BuildListKeeps, BuildVisitKeeps, PersistKeeps,
     ShutdownKeeps DEF WriterStep
<1> QED BY Zenon, <1>2, <1>3 DEF DInv
-----------------------------------------------------------------------------
(* The start of a process from the file *)

\* A restored grace clock is one.
LEMMA AbsenceType ==
  ASSUME NEW x \in Nat \cup {None}, NEW t \in Nat, NEW u \in Nat
  PROVE  RestoredAbsence(x, t, u) \in Nat \cup {None}
<1>1. CASE x = None
  BY Zenon, <1>1 DEF RestoredAbsence
<1>2. CASE x \in Nat
  BY SMTT(30), <1>2, NoneIsNoValue DEF RestoredAbsence, Since
<1> QED BY Zenon, <1>1, <1>2

\* A well-formed open room with the owners of its entry, which nobody is
\* connected to.
RestoredOK(s, d, r) ==
  /\ RoomOK(r) /\ Fits(r) /\ r # None /\ r.session_id = s /\ ~r.closing
  /\ r.owner_ip_key = NoIp /\ Pending(r) = {}
  /\ \A p \in PeerIds : Owner(r, p) = DtoOwner(d, p)
  /\ \A t : Matches(d, r, t)

\* What RoomState::restore makes of an entry.
LEMMA RestoredRoom ==
  ASSUME NEW s \in Sessions, NEW d, d # None, EntryOK(s, d), NEW t \in Nat, NEW u \in Nat
  PROVE  RestoredOK(s, d, RestoreRoom(d, t, u))
<1> DEFINE r == RestoreRoom(d, t, u)
<1>1. /\ d.session_id \in Sessions /\ d.host_peer_id \in PeerIds /\ d.host_verifier \in Verifiers
      /\ d.created_at \in Nat /\ d.last_activity_at \in Nat /\ d.session_id = s
      /\ \A p \in PeerIds : d.reservations[p] # None =>
           /\ d.reservations[p].verifier \in Verifiers
           /\ d.reservations[p].absent_since \in Nat \cup {None}
  BY ZenonT(30) DEF EntryOK, RoomDtos, ReservationDtos
<1>2. /\ r.session_id = s /\ r.host_peer_id = d.host_peer_id /\ r.host_verifier = d.host_verifier
      /\ r.owner_ip_key = NoIp /\ r.closing = FALSE
      /\ \A p \in PeerIds : r.peers[p] = None
      /\ \A p \in PeerIds : d.reservations[p] = None => r.reservations[p] = None
      /\ \A p \in PeerIds : d.reservations[p] # None =>
           r.reservations[p] = [verifier |-> d.reservations[p].verifier,
                                absent_since |-> RestoredAbsence(d.reservations[p].absent_since, t, u),
                                release_pending |-> FALSE]
  BY ZenonT(30), <1>1 DEF RestoreRoom
<1>3. \A p \in PeerIds : d.reservations[p] # None =>
        /\ r.reservations[p] \in Reservations /\ r.reservations[p] # None
        /\ r.reservations[p].verifier = d.reservations[p].verifier
        /\ r.reservations[p].release_pending = FALSE
  <2> SUFFICES ASSUME NEW p \in PeerIds, d.reservations[p] # None
               PROVE  /\ r.reservations[p] \in Reservations /\ r.reservations[p] # None
                      /\ r.reservations[p].verifier = d.reservations[p].verifier
                      /\ r.reservations[p].release_pending = FALSE
    BY Zenon
  <2> DEFINE x == RestoredAbsence(d.reservations[p].absent_since, t, u)
             v == d.reservations[p].verifier
  <2>1. x \in Nat \cup {None} /\ v \in Verifiers
    BY ZenonT(30), <1>1, AbsenceType
  <2>2. r.reservations[p] = [verifier |-> v, absent_since |-> x, release_pending |-> FALSE]
    BY Zenon, <1>2
  <2> HIDE DEF x, v, r
  <2>3. r.reservations[p] \in Reservations
    BY SMTT(30), <2>1, <2>2 DEF Reservations
  <2>4. r.reservations[p] # None
    BY Zenon, <2>3, NoneIsNoValue
  <2>5. r.reservations[p].verifier = v /\ r.reservations[p].release_pending = FALSE
    BY SMTT(30), <2>2
  <2> QED BY ZenonT(30), <2>3, <2>4, <2>5 DEF v
<1>4. r \in Rooms
  <2> DEFINE f == [p \in PeerIds |->
               IF d.reservations[p] = None THEN None
               ELSE [verifier |-> d.reservations[p].verifier,
                     absent_since |-> RestoredAbsence(d.reservations[p].absent_since, t, u),
                     release_pending |-> FALSE]]
  <2>1. r.reservations \in [PeerIds -> Reservations \cup {None}]
    <3>1. r.reservations = f
      BY ZenonT(30) DEF RestoreRoom
    <3>2. \A p \in PeerIds : f[p] \in Reservations \cup {None}
      BY ZenonT(30), <1>2, <1>3, <3>1
    <3>3. f \in [PeerIds -> Reservations \cup {None}]
      BY ZenonT(30), <3>2
    <3> QED BY ZenonT(30), <3>1, <3>3
  <2>2. r.peers \in [PeerIds -> ConnectedPeers \cup {None}]
    BY Zenon DEF RestoreRoom
  <2> HIDE DEF f
  <2> QED BY ZenonT(30), <1>1, <2>1, <2>2, DurabilityConstants DEF RestoreRoom, Rooms
<1> HIDE DEF r
<1>5. r # None
  BY Zenon, <1>4, RelayConstants
<1>6. Connected(r) = {} /\ Reserved(r) = Kept(d) /\ Pending(r) = {}
  BY Zenon, <1>2, <1>3 DEF Connected, Reserved, Kept, Pending
<1>7. RosterOK(r) /\ Fits(r)
  <2>1. r.host_peer_id \notin Kept(d)
    BY Zenon, <1>2 DEF EntryOK, Valid, Kept
  <2>2. IsFiniteSet(Kept(d)) /\ Cardinality(Kept(d)) <= MAX_ROOM_SIZE - 1
    BY Zenon DEF EntryOK
  <2> QED BY Zenon, <1>6, <2>1, <2>2 DEF RosterOK, Fits
<1>8. EntriesOK(r)
  BY ZenonT(30), <1>2, <1>6 DEF EntriesOK
<1>9. \A p \in PeerIds : Owner(r, p) = DtoOwner(d, p)
  BY ZenonT(30), <1>2, <1>3 DEF Owner, DtoOwner
<1>10. \A v : Matches(d, r, v)
  BY Zenon, <1>2, <1>3 DEF Matches, LiveClaim, Transferable, Reserved
<1> QED BY ZenonT(30), <1>2, <1>4, <1>5, <1>6, <1>7, <1>8, <1>9, <1>10 DEF RoomOK, RestoredOK, r

\* The sessions load_snapshot keeps.
Loaded == {s \in Sessions : Loads(disk[s], now)}

\* Registry::restore opens a room for each, at a handle of its own.
Reopens(at) ==
  /\ at \in [Loaded -> Handles] /\ \A s, t \in Loaded : at[s] = at[t] => s = t
  /\ rooms' \in [Handles -> Rooms \cup {None}]
  /\ registry' \in [Sessions -> Handles \cup {None}]
  /\ \A s \in Loaded : registry'[s] = at[s] /\ RestoredOK(s, disk[s], rooms'[at[s]])
  /\ \A a \in Handles : rooms'[a] # None => \E s \in Loaded : at[s] = a
  /\ \A s \in Sessions : s \notin Loaded => registry'[s] = None

\* Entries that load are entries.
LEMMA LoadedEntry ==
  ASSUME FilesInv, NEW s \in Loaded
  PROVE  s \in Sessions /\ disk[s] # None /\ EntryOK(s, disk[s])
BY Zenon DEF Loaded, Loads, FilesInv, FileOK, Saves

\* What a restart makes of the file.
LEMMA RestartReopens ==
  ASSUME DInv, Restart
  PROVE  \E at : Reopens(at)
<1>1. PICK at \in [Loaded -> Handles], uptime \in {0, now} :
           /\ \A s, t \in Loaded : at[s] = at[t] => s = t
           /\ rooms' = [a \in Handles |->
                IF \E s \in Loaded : at[s] = a
                THEN RestoreRoom(disk[CHOOSE s \in Loaded : at[s] = a], now, uptime)
                ELSE None]
           /\ registry' = [s \in Sessions |-> IF s \in Loaded THEN at[s] ELSE None]
  BY Zenon DEF Restart, Loaded
<1>2. now \in Nat /\ uptime \in Nat /\ FilesInv
  BY DEF DInv, IndInv, FileInv
<1>3. ASSUME NEW s \in Loaded
      PROVE  rooms'[at[s]] = RestoreRoom(disk[s], now, uptime)
  <2>1. at[s] \in Handles /\ \E x \in Loaded : at[x] = at[s]
    BY Zenon
  <2>2. (CHOOSE x \in Loaded : at[x] = at[s]) = s
    BY Zenon, <1>1
  <2> QED BY Zenon, <1>1, <2>1, <2>2
<1>4. \A a \in Handles : rooms'[a] # None => \E s \in Loaded : at[s] = a
  BY Zenon, <1>1
<1>5. ASSUME NEW s \in Loaded
      PROVE  RestoredOK(s, disk[s], rooms'[at[s]])
  <2>1. s \in Sessions /\ disk[s] # None /\ EntryOK(s, disk[s])
    BY Zenon, <1>2, LoadedEntry
  <2>2. RestoredOK(s, disk[s], RestoreRoom(disk[s], now, uptime))
    BY Zenon, <1>2, <2>1, RestoredRoom
  <2> QED BY Zenon, <1>3, <2>2
<1>6. \A s \in Sessions : registry'[s] = IF s \in Loaded THEN at[s] ELSE None
  BY Zenon, <1>1
<1>7. registry' \in [Sessions -> Handles \cup {None}]
  BY Zenon, <1>1
<1>8. rooms' \in [Handles -> Rooms \cup {None}]
  <2>1. \A a \in Handles : rooms'[a] \in Rooms \cup {None}
    BY Zenon, <1>4, <1>5 DEF RestoredOK, RoomOK
  <2>2. rooms' = [a \in Handles |-> rooms'[a]]
    BY Zenon, <1>1
  <2> QED BY Zenon, <2>1, <2>2
<1>9. Loaded \subseteq Sessions
  BY Zenon DEF Loaded
<1>10. Reopens(at)
  BY Zenon, <1>1, <1>4, <1>5, <1>6, <1>7, <1>8, <1>9 DEF Reopens
<1> QED BY Zenon, <1>10

\* A new process satisfies the invariant of the relay.
LEMMA RestartRelay ==
  ASSUME Counting, DInv, Restart
  PROVE  IndInv' /\ FitsInv'
<1>1. PICK at : Reopens(at)
  BY Zenon, RestartReopens
<1>2. /\ conn' = [c \in Conns |-> Fresh] /\ sweep' = SweepIdle /\ now' = now /\ now \in Nat
      /\ rooms_per_ip' = [i \in Ips |-> IF i = NoIp THEN Cardinality(Loaded) ELSE 0]
  BY Zenon DEF Restart, Loaded, DInv, IndInv
<1>3. RoomTableOK(rooms')
  BY ZenonT(30), <1>1 DEF Reopens, RoomTableOK, RestoredOK
<1>4. RegistryOK(rooms', registry')
  <2>1. \A s \in Sessions : registry'[s] # None =>
          s \in Loaded /\ registry'[s] = at[s] /\ rooms'[at[s]] # None /\ rooms'[at[s]].session_id = s
    BY ZenonT(30), <1>1 DEF Reopens, RestoredOK
  <2>2. \A a \in Handles : rooms'[a] # None => registry'[rooms'[a].session_id] = a
    <3> SUFFICES ASSUME NEW a \in Handles, rooms'[a] # None
                 PROVE  registry'[rooms'[a].session_id] = a
      BY Zenon
    <3>1. PICK s \in Loaded : at[s] = a
      BY Zenon, <1>1 DEF Reopens
    <3>2. registry'[s] = a /\ rooms'[a].session_id = s
      BY Zenon, <1>1, <3>1 DEF Reopens, RestoredOK
    <3> QED BY Zenon, <3>2
  <2>3. registry' \in [Sessions -> Handles \cup {None}]
    BY Zenon, <1>1 DEF Reopens
  <2> QED BY Zenon, <2>1, <2>2, <2>3 DEF RegistryOK
<1>5. Cardinality(Loaded) \in Nat
  <2>1. Loaded \subseteq Saves(disk) /\ IsFiniteSet(Saves(disk))
    BY Zenon DEF Loaded, Loads, Saves, DInv, FileInv, FilesInv, FileOK
  <2> QED BY Zenon, <2>1 DEF Counting
<1>6. rooms_per_ip' \in [Ips -> Nat]
  BY Zenon, <1>2, <1>5
<1>7. Fresh \in ConnStates /\ Fresh.pc = "idle" /\ Fresh.seat = None
  BY Zenon DEF Fresh, ConnStates, ConnSteps
<1>8. ConnsOK(conn', rooms', registry')
  BY ZenonT(30), <1>2, <1>7 DEF ConnsOK, ConnOK, Exclusive, CreateSteps, EndSteps
<1>9. SweepOK(sweep', rooms')
  BY ZenonT(30), <1>2 DEF SweepOK, SweepIdle, SweepStates
<1>10. FitsInv'
  BY Zenon, <1>1 DEF Reopens, RestoredOK, FitsInv
<1> QED BY Zenon, <1>2, <1>3, <1>4, <1>6, <1>8, <1>9, <1>10 DEF IndInv

\* Nobody has a seat, and no leave is pending.
LEMMA RestartSeats ==
  ASSUME DInv, Restart
  PROVE  SeatInv'
<1>1. PICK at : Reopens(at)
  BY Zenon, RestartReopens
<1>2. conn' = [c \in Conns |-> Fresh] /\ sweep' = SweepIdle
  BY Zenon DEF Restart
<1>3. /\ \A c \in Conns : conn'[c].seat = None /\ conn'[c].pc = "idle"
      /\ sweep'.evict = {}
  BY Zenon, <1>2 DEF Fresh, SweepIdle
<1>4. SeatsInv'
  BY ZenonT(30), <1>3 DEF SeatsInv, SeatOK, Unseated, CreateSteps
<1>5. \A a \in Handles : rooms'[a] # None => Pending(rooms'[a]) = {}
  BY ZenonT(30), <1>1 DEF Reopens, RestoredOK
<1>6. LeavesInv'
  BY ZenonT(30), <1>3, <1>5 DEF LeavesInv, LeavesOK, Leaver
<1> QED BY Zenon, <1>4, <1>6 DEF SeatInv

\* As many slots of the empty key are taken as rooms were restored.
LEMMA RestartSlots ==
  ASSUME Counting, DInv, Restart
  PROVE  SlotsInv'
<1>1. PICK at : Reopens(at)
  BY Zenon, RestartReopens
<1>2. /\ conn' = [c \in Conns |-> Fresh] /\ sweep' = SweepIdle
      /\ rooms_per_ip' = [i \in Ips |-> IF i = NoIp THEN Cardinality(Loaded) ELSE 0]
  BY Zenon DEF Restart, Loaded
<1> SUFFICES ASSUME NEW ip \in Ips
             PROVE  SlotOK(rooms', registry', rooms_per_ip', conn', sweep', ip)
  BY Zenon DEF SlotsInv, Slots
<1> DEFINE O == OwnedIn(rooms', registry', ip)
<1>3. ReleasingIn(rooms', conn', ip) = {}
  BY Zenon, <1>2 DEF Fresh, ReleasingIn
<1>4. SweptIn(rooms', sweep', ip) = 0
  BY Zenon, <1>2 DEF SweepIdle, SweptIn
<1>5. IsFiniteSet({}) /\ Cardinality({}) = 0
  BY Zenon DEF Counting
<1>6. IsFiniteSet(Loaded)
  <2>1. Loaded \subseteq Saves(disk) /\ IsFiniteSet(Saves(disk))
    BY Zenon DEF Loaded, Loads, Saves, DInv, FileInv, FilesInv, FileOK
  <2> QED BY Zenon, <2>1 DEF Counting
<1>7. O = IF ip = NoIp THEN {at[s] : s \in Loaded} ELSE {}
  <2>1. \A a \in Handles : (\E s \in Sessions : registry'[s] = a) <=> \E s \in Loaded : at[s] = a
    BY <1>1, RelayConstants DEF Reopens, Loaded
  <2>2. \A s \in Loaded : at[s] \in Handles /\ rooms'[at[s]].owner_ip_key = NoIp
    BY Zenon, <1>1 DEF Reopens, RestoredOK
  <2> QED BY ZenonT(30), <2>1, <2>2 DEF OwnedIn
<1> HIDE DEF O
<1>8. IsFiniteSet(O) /\ rooms_per_ip'[ip] = Cardinality(O)
  <2>1. CASE ip # NoIp
    BY Zenon, <1>2, <1>5, <1>7, <2>1
  <2>2. CASE ip = NoIp
    <3>1. O = {at[s] : s \in Loaded} /\ \A s, t \in Loaded : at[s] = at[t] => s = t
      BY Zenon, <1>1, <1>7, <2>2 DEF Reopens
    <3>2. IsFiniteSet(O) /\ Cardinality(O) = Cardinality(Loaded)
      BY Zenon, <1>6, <3>1, CountImage
    <3> QED BY Zenon, <1>2, <2>2, <3>2
  <2> QED BY Zenon, <2>1, <2>2
<1>9. Cardinality(O) \in Nat
  BY Zenon, <1>8 DEF Counting
<1>10. rooms_per_ip'[ip] <= Cardinality(O) + (0 + 0)
  BY <1>8, <1>9
<1> QED BY Zenon, <1>3, <1>4, <1>5, <1>8, <1>10 DEF SlotOK, O

\* The file is right for the rooms that were made from it.
LEMMA RestartKeeps ==
  ASSUME Counting, DInv, Restart
  PROVE  DInv'
<1>1. PICK at : Reopens(at)
  BY Zenon, RestartReopens
<1>2. IndInv' /\ FitsInv' /\ SeatInv' /\ SlotsInv'
  BY Zenon, RestartRelay, RestartSeats, RestartSlots
<1>3. /\ Restarted(NoRooms) /\ building' = {} /\ left' = {} /\ ended' = {} /\ failures' = failures
      /\ failures \in Nat /\ FilesInv /\ now' = now
  BY Zenon DEF Restart, DInv, FileInv, WriterInv
<1>4. /\ cmds' = <<>> /\ writer_pc' = "recv" /\ flushing' = FALSE
      /\ dirty_seq' = 0 /\ durable_seq' = 0 /\ waiters' = {} /\ image' = NoRooms
      /\ answers' \in [Conns -> Answers] /\ \A c \in Conns : answers'[c] = "none"
      /\ disk' = disk
  BY Zenon, <1>3 DEF Restarted, Answers
<1>5. WriterInv'
  <2>1. <<>> \in Seq(Commands) /\ DOMAIN <<>> = {}
    OBVIOUS
  <2>2. QueueOK(<<>>, answers', {}) /\ WaitersOK({}, answers', 0)
    BY Zenon, <2>1 DEF QueueOK, WaitersOK
  <2>3. QueueOK(cmds', answers', waiters') /\ WaitersOK(waiters', answers', dirty_seq')
    BY Zenon, <1>4, <2>2
  <2>4. cmds' \in Seq(Commands) /\ writer_pc' \in WriterSteps /\ flushing' \in BOOLEAN
    BY ZenonT(30), <1>4, <2>1 DEF WriterSteps
  <2>5. dirty_seq' \in Nat /\ durable_seq' \in Nat /\ durable_seq' <= dirty_seq' /\ failures' \in Nat
    BY <1>3, <1>4
  <2> QED BY Zenon, <1>4, <2>3, <2>4, <2>5 DEF WriterInv
<1>6. FilesInv'
  BY Zenon, <1>3, <1>4, EmptyFile DEF FilesInv
<1>7. HistoryInv'
  BY ZenonT(30), <1>3, <1>4 DEF HistoryInv, ServedInv, Served, LeftInv, EndedInv
<1>8. ClosingInv'
  BY Zenon, <1>1 DEF ClosingInv, Reopens, RestoredOK
<1>9. SyncInv'
  <2>1. \A s \in Sessions : registry'[s] # None => Matches(disk[s], rooms'[registry'[s]], now)
    BY ZenonT(30), <1>1 DEF Reopens, RestoredOK
  <2>2. \A s \in Sessions : Synced(disk, s)'
    BY ZenonT(30), <1>3, <1>4, <2>1 DEF Synced
  <2> QED BY Zenon, <1>4, <2>2 DEF SyncInv
<1> QED BY Zenon, <1>2, <1>5, <1>6, <1>7, <1>8, <1>9 DEF DInv, FileInv
-----------------------------------------------------------------------------
(* A restart at rest *)

\* At rest, an identity that is alive in a registered room has its owner in the
\* file.
LEMMA RestingOwner ==
  ASSUME DInv, AtRest, failures = 0, NEW s \in Sessions, registry[s] # None,
         NEW p \in Live(rooms[registry[s]].reservations) \cup {rooms[registry[s]].host_peer_id}
  PROVE  p \in PeerIds /\ DtoOwner(disk[s], p) = Owner(rooms[registry[s]], p)
<1> DEFINE a == registry[s]
           r == rooms[a]
<1>1. a \in Handles /\ r # None /\ RoomOK(r)
  BY SMTT(30) DEF DInv, IndInv, RegistryOK, RoomTableOK
<1>2. ~r.closing
  BY ZenonT(30) DEF AtRest, DInv, FileInv, ClosingInv
<1>3. LeavesOK(a, r, conn)
  BY Zenon, <1>1 DEF DInv, SeatInv, LeavesInv
<1>4. \A c \in Conns : conn[c].pc # "leave"
  BY Zenon DEF AtRest
<1>5. Matches(disk[s], r, now)
  BY ZenonT(30), <1>2 DEF AtRest, Settled, DInv, FileInv, SyncInv, Synced
<1> HIDE DEF a, r
<1>6. Pending(r) = {}
  BY ZenonT(30), <1>2, <1>3, <1>4 DEF LeavesOK
<1>7. r.host_peer_id \in PeerIds /\ r.reservations[r.host_peer_id] = None
  BY Zenon, <1>1 DEF RoomOK, Rooms, RosterOK, Reserved
<1>8. CASE p = r.host_peer_id
  BY Zenon, <1>5, <1>7, <1>8 DEF Matches, DtoOwner, Owner, a, r
<1>9. CASE p \in Live(r.reservations)
  <2>1. p \in PeerIds /\ r.reservations[p] # None /\ p # r.host_peer_id
    BY Zenon, <1>7, <1>9 DEF Live
  <2>2. LiveClaim(r, p, now)
    BY Zenon, <1>6, <1>9, <2>1 DEF Live, LiveClaim, Transferable, Reserved, Pending
  <2>3. /\ disk[s].host_peer_id = r.host_peer_id /\ disk[s].reservations[p] # None
        /\ disk[s].reservations[p].verifier = r.reservations[p].verifier
    BY Zenon, <1>5, <2>1, <2>2 DEF Matches
  <2> QED BY Zenon, <2>1, <2>3 DEF DtoOwner, Owner, a, r
<1> QED BY Zenon, <1>8, <1>9 DEF a, r
\* A step of the program that restarts, at rest and with no write failed, gives
\* every identity in an entry that loads back to its owner.
LEMMA RestartOwners ==
  ASSUME DInv, DNext, crashes' # crashes, AtRest, failures = 0,
         NEW s \in Sessions, registry[s] # None, Loads(disk[s], now)
  PROVE  /\ registry'[s] # None
         /\ \A p \in Live(rooms[registry[s]].reservations) \cup {rooms[registry[s]].host_peer_id} :
              Owner(rooms'[registry'[s]], p) = Owner(rooms[registry[s]], p)
<1>1. Restart
  BY Zenon DEF DNext, RelayStep, WriterStep, BeginBuild, BuildList, BuildVisit, Persist,
     Shutdown, bounds
<1>2. PICK at : Reopens(at)
  BY Zenon, <1>1, RestartReopens
<1>3. s \in Loaded
  BY Zenon DEF Loaded
<1>4. registry'[s] = at[s] /\ RestoredOK(s, disk[s], rooms'[at[s]]) /\ at[s] \in Handles
  BY Zenon, <1>2, <1>3 DEF Reopens
<1>5. \A p \in PeerIds : Owner(rooms'[registry'[s]], p) = DtoOwner(disk[s], p)
  BY Zenon, <1>4 DEF RestoredOK
<1>6. registry'[s] # None
  BY Zenon, <1>4, RelayConstants
<1> QED BY Zenon, <1>5, <1>6, RestingOwner
-----------------------------------------------------------------------------
(* The first process, and steps that change nothing *)

\* The first process starts with no rooms and an empty file.
LEMMA FileInit == DInit => FileInv
<1> SUFFICES ASSUME DInit PROVE FileInv
  BY Zenon
<1>2. /\ Started(NoRooms) /\ disk = NoRooms /\ building = {} /\ left = {} /\ ended = {}
      /\ failures = 0
  BY Zenon DEF DInit
<1>3. /\ cmds = <<>> /\ writer_pc = "recv" /\ flushing = FALSE
      /\ dirty_seq = 0 /\ durable_seq = 0 /\ waiters = {} /\ image = NoRooms
      /\ answers \in [Conns -> Answers] /\ \A c \in Conns : answers[c] = "none"
  BY Zenon, <1>2 DEF Started, Answers
<1>4. \A s \in Sessions : registry[s] = None
  BY Zenon DEF DInit, Init
<1>5. WriterInv
  <2>1. <<>> \in Seq(Commands) /\ DOMAIN <<>> = {}
    OBVIOUS
  <2>2. QueueOK(<<>>, answers, {}) /\ WaitersOK({}, answers, 0)
    BY Zenon, <2>1 DEF QueueOK, WaitersOK
  <2>3. QueueOK(cmds, answers, waiters) /\ WaitersOK(waiters, answers, dirty_seq)
    BY Zenon, <1>3, <2>2
  <2>4. cmds \in Seq(Commands) /\ writer_pc \in WriterSteps /\ flushing \in BOOLEAN
    BY Zenon, <1>3, <2>1 DEF WriterSteps
  <2>5. dirty_seq \in Nat /\ durable_seq \in Nat /\ durable_seq <= dirty_seq /\ failures \in Nat
    BY <1>2, <1>3
  <2> QED BY Zenon, <1>3, <2>3, <2>4, <2>5 DEF WriterInv
<1>6. FilesInv
  BY Zenon, <1>2, <1>3, EmptyFile DEF FilesInv
<1>7. HistoryInv
  BY Zenon, <1>2, <1>3 DEF HistoryInv, ServedInv, Served, LeftInv, EndedInv
<1>8. SyncInv
  BY Zenon, <1>3, <1>4 DEF SyncInv, Synced
<1>9. ClosingInv
  BY Zenon, <1>4 DEF ClosingInv
<1> QED BY Zenon, <1>5, <1>6, <1>7, <1>8, <1>9 DEF FileInv

\* A step that changes nothing keeps the invariant.
LEMMA StutterKeeps ==
  ASSUME DInv, UNCHANGED dvars
  PROVE  DInv'
<1>1. IndInv' /\ FitsInv' /\ SeatInv' /\ SlotsInv' /\ ClosingInv'
  BY Zenon, SameRelay DEF dvars
<1>2. UNCHANGED <<vars, writerVars, building, history, bounds>>
  BY Zenon DEF dvars
<1>3. WriterInv'
  BY Zenon, <1>2 DEF DInv, FileInv, WriterInv, vars, writerVars, bounds
<1>4. FilesInv' /\ HistoryInv'
  BY Zenon, <1>2
     DEF DInv, FileInv, FilesInv, HistoryInv, ServedInv, LeftInv, EndedInv, vars, writerVars, history
<1>5. SyncInv'
  BY Zenon, <1>2 DEF DInv, FileInv, SyncInv, Synced, vars, writerVars, bounds
<1> QED BY Zenon, <1>1, <1>3, <1>4, <1>5 DEF DInv, FileInv

\* The steps of the relay with its file are, as far as the rooms go, the steps
\* of the relay.
LEMMA RelayStepIsNext == RelayStep => Next
<1>1. ASSUME NEW c \in Conns,
             \/ Admitting(c) \/ Changing(c) \/ Silent(c) \/ Terminating(c)
             \/ EndBegins(c) \/ LeaveEnds(c) \/ EndEnds(c)
      PROVE  HandlerStep(c) \/ ClientStep(c) \/ Evicted(c)
  <2>1. (answers[c] = "ok") \in BOOLEAN
    BY Zenon
  <2> QED
    BY Zenon, <1>1, <2>1 DEF Admitting, Changing, Silent, Terminating, EndBegins, LeaveEnds,
       EndEnds, HandlerStep, ClientStep
<1>2. Sweeping => SweepStep
  BY Zenon DEF Sweeping, SweepStep
<1> QED BY Zenon, <1>1, <1>2 DEF RelayStep, Next

\* What the invariant says of the file and of what was given up.
LEMMA FilePromises == DInv => LeftIsDurable /\ EndedIsDurable /\ DiskWellFormed
<1>1. DInv => LeftIsDurable
  BY Zenon DEF DInv, FileInv, HistoryInv, LeftInv, LeftClear, Saves, LeftIsDurable
<1>2. DInv => EndedIsDurable
  BY Zenon DEF DInv, FileInv, HistoryInv, EndedInv, EndedClear, Saves, EndedIsDurable
<1>3. DInv => DiskWellFormed
  BY Zenon DEF DInv, FileInv, FilesInv, FileOK, EntryOK, Kept, Saves, DiskWellFormed
<1> QED BY Zenon, <1>1, <1>2, <1>3
=============================================================================
