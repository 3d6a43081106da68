-------------------------- MODULE DurabilityProofs --------------------------
(***************************************************************************)
(* The relay without its file keeps the capacity of its rooms, the quota   *)
(* of every address and every identity with its token.  The relay with its *)
(* state file, for any number of connections, rooms, sessions, identities, *)
(* commands, failed writes and crashes: what was proved of the relay       *)
(* without a file survives its restarts; whoever was told "left" or        *)
(* "ended" finds the file free of what was given up, whatever other writes *)
(* are under way; what is written can be loaded; and a restart at rest     *)
(* gives every identity back to its owner.                                 *)
(***************************************************************************)
EXTENDS FileProofs, RelayProofs, RelaySeatsProofs, RelayHoldingsProofs

(* The parts of the invariant together *)

\* What IndInv gives the proofs about seats, slots and identities: every step
\* keeps the rooms as Evolves says, and changes the quota as Quiet or Loud say.
LEMMA RelaySteps ==
  ASSUME IndInv, [Next]_vars
  PROVE  /\ Basics
         /\ Evolves(rooms, rooms') \/ UNCHANGED vars
         /\ (Evolves(rooms, rooms') /\ (Quiet \/ Loud)) \/ UNCHANGED vars
<1>1. CASE Next
  BY Zenon, <1>1, BasicFacts, NextOK, NextQuiet
<1>2. CASE UNCHANGED vars
  BY Zenon, <1>2, BasicFacts
<1> QED BY Zenon, <1>1, <1>2
-----------------------------------------------------------------------------
(* Steps of the relay *)

\* Steps of a client or of its handler, up to those of leave and endSession
\* that wait for the writer, keep the invariant of the file.
LEMMA ClientKeeps ==
  ASSUME DInv, NEW c \in Conns, UNCHANGED <<building, bounds>>,
         \/ Admitting(c) \/ Changing(c) \/ Silent(c) \/ Terminating(c) \/ EndBegins(c)
  PROVE  FileInv'
<1>0. IndInv
  BY Zenon DEF DInv
<1>1. CASE Admitting(c)
  <2>1. Frame(c) /\ ClosesNothing /\ (conn'[c].seat = None => Calm)
    BY Zenon, <1>0, <1>1, AdmissionFrame, OpeningFrame DEF Admitting
  <2> QED BY Zenon, <1>1, <2>1, AdmittingKeeps
<1>2. CASE Changing(c)
  <2>1. Frame(c) /\ Owned /\ ClosesNothing /\ (rooms' = rooms => Calm)
    BY Zenon, <1>0, <1>2, ChangingFrame DEF Changing, SocketClosed, Evicted
  <2> QED BY Zenon, <1>2, <2>1, ChangingKeeps
<1>3. CASE Silent(c)
  <2>1. /\ Frame(c) /\ Owned /\ ClosesNothing /\ Calm
        /\ EndRemove(c) => \A x \in Sessions : registry'[x] # conn[c].seat.room
    BY Zenon, <1>0, <1>3, SilentFrame, EndRemoveFrame DEF Silent
  <2> QED BY Zenon, <1>3, <2>1, SilentKeeps
<1>4. CASE Terminating(c)
  <2>1. /\ Frame(c) /\ Owned /\ ClosesNothing
        /\ conn'[c].pc \in {"leave", "end_finish"} /\ conn[c].pc \in {"idle", "end_release"}
    BY Zenon, <1>0, <1>4, TerminatingFrame DEF Terminating
  <2> QED BY Zenon, <1>4, <2>1, TerminatingKeeps
<1>5. CASE EndBegins(c)
  <2>1. /\ Frame(c) /\ Owned /\ Calm /\ registry' = registry /\ conn[c].pc = "idle"
        /\ conn'[c].pc = "end_remove" /\ conn'[c].seat = conn[c].seat
        /\ \A b \in Handles : b # conn[c].seat.room => rooms'[b] = rooms[b]
    BY Zenon, <1>0, <1>5, EndBeginFrame DEF EndBegins
  <2> QED BY Zenon, <1>5, <2>1, EndBeginsKeeps
<1> QED BY Zenon, <1>1, <1>2, <1>3, <1>4, <1>5

\* So do the steps of leave and endSession after the answer of the writer.
LEMMA AnsweredKeeps ==
  ASSUME DInv, NEW c \in Conns, UNCHANGED <<building, bounds>>, LeaveEnds(c) \/ EndEnds(c)
  PROVE  FileInv'
<1> DEFINE persisted == answers[c] = "ok"
<1>0. IndInv /\ persisted \in BOOLEAN
  BY Zenon DEF DInv
<1>1. CASE LeaveEnds(c)
  <2>1. LeaveFinish(c, persisted)
    BY Zenon, <1>1 DEF LeaveEnds
  <2> HIDE DEF persisted
  <2>2. /\ Frame(c) /\ Owned /\ ClosesNothing
        /\ conn[c].pc = "leave" /\ conn'[c].pc = "idle" /\ conn[c].seat # None
        /\ LET s == conn[c].seat
               old == rooms[s.room].reservations[s.peer_id]
               new == rooms'[s.room].reservations[s.peer_id]
           IN  \/ Calm /\ new = old
               \/ ~persisted /\ new # None
               \/ persisted /\ old # None /\ new = None
    BY Zenon, <1>0, <2>1, LeaveFinishFrame
  <2>3. LeaveSaved(c)
    BY Zenon, <2>2 DEF LeaveSaved, persisted
  <2> QED BY Zenon, <1>1, <2>2, <2>3, LeaveEndsKeeps
<1>2. CASE EndEnds(c)
  <2>1. EndFinish(c, persisted)
    BY Zenon, <1>2 DEF EndEnds
  <2> HIDE DEF persisted
  <2>2. /\ Frame(c) /\ Owned /\ ClosesNothing /\ Calm
        /\ conn[c].pc = "end_finish" /\ conn'[c].pc = "idle"
        /\ conn[c].seat.room \in Handles /\ rooms'[conn[c].seat.room] # None
        /\ rooms'[conn[c].seat.room].closing
    BY Zenon, <1>0, <2>1, EndFinishFrame
  <2> QED BY Zenon, <1>2, <2>2, EndEndsKeeps
<1> QED BY Zenon, <1>1, <1>2

\* Every step of the relay keeps the invariant.
LEMMA RelayKeeps ==
  ASSUME Counting, DInv, RelayStep
  PROVE  DInv'
<1>1. Next /\ IndInv /\ FitsInv /\ SeatInv /\ SlotsInv
  BY Zenon, RelayStepIsNext DEF DInv
<1>2. IndInv' /\ FitsInv' /\ SeatInv' /\ SlotsInv'
  BY Zenon, <1>1, RelaySteps, NextOK, FitsNext, SeatsNext, SlotsNext
<1>3. FileInv'
  <2>1. UNCHANGED <<building, bounds>>
    BY Zenon DEF RelayStep
  <2>2. CASE Tick /\ UNCHANGED <<writerVars, history>>
    BY Zenon, <1>1, <2>1, <2>2, TickFrame, TickKeeps
  <2>3. CASE Sweeping
    <3>1. SweepStep
      BY Zenon, <2>3 DEF Sweeping, SweepStep
    <3> QED BY Zenon, <1>1, <2>1, <2>3, <3>1, SweepFrame, SweepingKeeps
  <2> QED BY Zenon, <2>1, <2>2, <2>3, ClientKeeps, AnsweredKeeps DEF RelayStep
<1> QED BY Zenon, <1>2, <1>3 DEF DInv

\* The first process starts with no rooms and an empty file.
LEMMA DInitOK == Counting /\ DInit => DInv
BY Zenon, InitOK, FitsInit, SeatsInit, SlotsInit, FileInit DEF DInit, DInv

\* Every step, of a handler, the cleanup task or the writer, and every restart.
LEMMA DNextOK == Counting /\ DInv /\ [DNext]_dvars => DInv'
BY Zenon, RelayKeeps, WriterKeeps, RestartKeeps, StutterKeeps DEF DNext

\* What DInv promises of the relay in every process.
LEMMA RelayPromises ==
  Counting /\ DInv =>
    /\ RosterBounded /\ RegistryCoherent /\ SeatLostIsCancelled /\ PendingLeaveProtected
    /\ QuotaNeverLeaks
BY Zenon, RosterFits, RegistryMatches, SeatsAccounted, LeavesGuarded, SlotsCounted DEF DInv
-----------------------------------------------------------------------------
(* The theorems *)

INSTANCE FiniteSetTheorems

\* Finite sets have the sizes that the lemmas on rooms, slots and the file rely
\* on.
LEMMA SetsCount == Counting
<1>1. ASSUME NEW S, NEW f, IsFiniteSet(S), \A x, y \in S : f[x] = f[y] => x = y
      PROVE  IsFiniteSet({f[x] : x \in S}) /\ Cardinality({f[x] : x \in S}) = Cardinality(S)
  <2> DEFINE T == {f[x] : x \in S}
             g == [x \in S |-> f[x]]
  <2>1. g \in [S -> T] /\ \A x \in S : g[x] = f[x]
    OBVIOUS
  <2>2. \A y \in T : \E x \in S : g[x] = y
    OBVIOUS
  <2> HIDE DEF g, T
  <2>3. g \in Bijection(S, T)
    BY Zenon, <1>1, <2>1, <2>2 DEF Bijection, Injection, Surjection, IsInjective
  <2>4. IsFiniteSet(T) /\ Cardinality(T) = Cardinality(S)
    BY Zenon, <1>1, <2>3, FS_Bijection DEF ExistsBijection
  <2> QED BY Zenon, <2>4 DEF T
<1>2. IsFiniteSet({}) /\ Cardinality({}) = 0
  BY Zenon, FS_EmptySet
<1>3. \A S : IsFiniteSet(S) => Cardinality(S) \in Nat
  BY Zenon, FS_CardinalityType
<1>4. \A S, x : IsFiniteSet(S) =>
        /\ IsFiniteSet(S \cup {x})
        /\ Cardinality(S \cup {x}) = IF x \in S THEN Cardinality(S) ELSE Cardinality(S) + 1
  BY Zenon, FS_AddElement
<1>6. \A S, x : IsFiniteSet(S) =>
        /\ IsFiniteSet(S \ {x})
        /\ Cardinality(S \ {x}) = IF x \in S THEN Cardinality(S) - 1 ELSE Cardinality(S)
  BY Zenon, FS_RemoveElement
<1>5. \A S, T : IsFiniteSet(T) /\ S \subseteq T => IsFiniteSet(S) /\ Cardinality(S) <= Cardinality(T)
  <2> SUFFICES ASSUME NEW S, NEW T, IsFiniteSet(T), S \subseteq T
               PROVE  IsFiniteSet(S) /\ Cardinality(S) <= Cardinality(T)
    OBVIOUS
  <2>1. S \in SUBSET T
    OBVIOUS
  <2> QED BY Zenon, <2>1, FS_Subset
<1>7. \A S, f : IsFiniteSet(S) /\ (\A x, y \in S : f[x] = f[y] => x = y) =>
        IsFiniteSet({f[x] : x \in S}) /\ Cardinality({f[x] : x \in S}) = Cardinality(S)
  BY Zenon, <1>1
<1> QED BY ZenonT(30), <1>2, <1>3, <1>4, <1>5, <1>6, <1>7 DEF Counting
-----------------------------------------------------------------------------
(* The relay without its file: seats, rooms and addresses *)

\* Seats and pending leaves agree with the rooms in every reachable state.
THEOREM SeatsInductive == Spec => [](IndInv /\ SeatInv)
<1>1. IndInv /\ SeatInv /\ [Next]_vars => SeatInv'
  BY Zenon, BasicFacts, SeatsNext
<1> QED BY <1>1, SeatsInit, Inductive, PTL DEF Spec

\* Whoever loses its entry to a join, resume, re-create, endSession or sweep
\* is cancelled, or is on the list the sweep is about to cancel: no connection
\* sits for ever in a room that has forgotten it.
THEOREM LosersCancelled == Spec => []SeatLostIsCancelled
BY SeatsAccounted, SeatsInductive, PTL

\* Between begin_leave and finish_leave no other handler takes the leaver's
\* entry or reservation, nor makes it host, while the room is open; and every
\* pending mark has such a leave to take it back.
THEOREM LeavesProtected == Spec => []PendingLeaveProtected
BY LeavesGuarded, SeatsInductive, PTL

\* The capacity of the rooms is an invariant, on top of IndInv.
THEOREM FitsInductive == Spec => [](IndInv /\ FitsInv)
<1>1. IndInv /\ FitsInv /\ [Next]_vars => FitsInv'
  BY Zenon, SetsCount, RelaySteps, FitsNext
<1> QED BY <1>1, FitsInit, Inductive, PTL DEF Spec

\* join_or_resume admits against the number of reservations; this bounds the
\* connected roster of every room by MAX_ROOM_SIZE for ever.
THEOREM Capacity == Spec => []RosterBounded
<1>1. IndInv /\ FitsInv => RosterBounded
  BY Zenon, SetsCount, RosterFits
<1> QED BY <1>1, FitsInductive, PTL

\* The accounts of the quota are an invariant, on top of IndInv.
THEOREM SlotsInductive == Spec => [](IndInv /\ SlotsInv)
<1>1. Init => SlotsInv
  BY Zenon, SetsCount, SlotsInit
<1>2. IndInv /\ SlotsInv /\ [Next]_vars => SlotsInv'
  BY Zenon, SetsCount, RelaySteps, SlotsNext
<1> QED BY <1>1, <1>2, Inductive, PTL DEF Spec

\* create takes one slot for the room it opens; a reclaim, the end of a session
\* and the sweep each give back the slot of the room whose entry they removed
\* and of no other, however their sections interleave.  So an address is never
\* charged for a room that is gone.
THEOREM QuotaSound == Spec => []QuotaNeverLeaks
BY SlotsCounted, SlotsInductive, PTL

\* The room layer implements Identities, for any number of connections, rooms,
\* identities and sessions: whatever the handlers, the sweep and the
\* snapshotter's answers interleave to, the registered rooms that are not
\* closing change by the operations of Identities alone.
THEOREM Refinement == Spec => ImplementsIdentities
<1>1. IndInv /\ FitsInv /\ [Next]_vars => [Abstract!Next]_live
  BY Zenon, SetsCount, BasicFacts, StepRefines
<1> QED BY RefinesInit, <1>1, FitsInductive, PTL DEF Spec, ImplementsIdentities, Abstract!Spec

\* Identities belong to their tokens, for any number of connections, rooms and
\* tokens: no step of a handler or of the sweep gives the identity of an open
\* room to another token or frees it, unless finish_leave commits the leave of
\* its guest or prune_expired_reservations found its grace period over.
THEOREM Continuity == Spec => IdentityContinuity
<1>1. IndInv /\ FitsInv /\ [Next]_vars =>
        [\A a \in Handles, p \in PeerIds :
           Open(a) /\ Open(a)' =>
             \/ Owner(rooms[a], p) = None
             \/ Owner(rooms'[a], p) = Owner(rooms[a], p)
             \/ p \in Expired(rooms[a], now)
             \/ /\ Owner(rooms'[a], p) = None
                /\ \E c \in Conns :
                     /\ conn[c].pc = "leave" /\ conn'[c].pc = "idle"
                     /\ conn[c].seat.room = a /\ conn[c].seat.peer_id = p]_vars
  BY ZenonT(30), SetsCount, BasicFacts, StepContinues
<1> QED BY <1>1, FitsInductive, PTL DEF Spec, IdentityContinuity
-----------------------------------------------------------------------------
(* The relay with its file *)

\* What holds of the rooms, the handlers, the writer and the file in every
\* process, of any number of processes started one after another from the file.
THEOREM DurableInductive == DSpec => []DInv
BY SetsCount, DInitOK, DNextOK, PTL DEF DSpec

\* snapshot.rs promises that a client is never told `left` before that is
\* durable.  For any number of connections, of writes under way, failed or cut
\* short by a crash, no file gives the identity back to the token that left.
THEOREM LeftDurable == DSpec => []LeftIsDurable
BY FilePromises, DurableInductive, PTL

\* And nobody is told `ended` before that is durable: no file has the room.
THEOREM EndedDurable == DSpec => []EndedIsDurable
BY FilePromises, DurableInductive, PTL

\* Every entry build_snapshot writes, reading room after room while hosts hand
\* over and guests come and leave, has the shape load_snapshot insists on.
THEOREM WellFormedDisk == DSpec => []DiskWellFormed
BY FilePromises, DurableInductive, PTL

\* No address is charged for a room that is gone, however often the rooms were
\* restored: Registry::restore charges them to the empty key.
THEOREM QuotaSurvives == DSpec => []QuotaNeverLeaks
BY SetsCount, RelayPromises, DurableInductive, PTL

\* What the relay promises without a file it promises across restarts too: the
\* capacity of the rooms, the registry, the fate of those who lose their seat
\* and of those who are leaving.
THEOREM RelaySurvives ==
  DSpec => [](RosterBounded /\ RegistryCoherent /\ SeatLostIsCancelled /\ PendingLeaveProtected)
BY SetsCount, RelayPromises, DurableInductive, PTL

\* A restart at rest keeps every identity with its owner, through the file and
\* back, for any rooms, guests, hosts and times.
THEOREM IdentitiesSurvive == DSpec => RestartKeepsIdentities
<1> DEFINE Same ==
      \A s \in Sessions : registry[s] # None /\ Loads(disk[s], now) =>
        /\ registry'[s] # None
        /\ \A p \in Live(rooms[registry[s]].reservations) \cup {rooms[registry[s]].host_peer_id} :
             Owner(rooms'[registry'[s]], p) = Owner(rooms[registry[s]], p)
<1>1. DInv /\ [DNext]_dvars => [crashes' # crashes /\ AtRest /\ failures = 0 => Same]_dvars
  BY Zenon, RestartOwners
<1> QED BY <1>1, DurableInductive, PTL DEF DSpec, RestartKeepsIdentities
=============================================================================
