---------------------------- MODULE Persistence -----------------------------
(***************************************************************************)
(* The snapshot writer with the tasks that use it, the state they share    *)
(* reduced to the number of changes made to it.  A task changes the state  *)
(* under a lock and then tells the writer: with record_mutation and no     *)
(* more ado, or with record_terminal_mutation, whose answer it awaits to   *)
(* commit or to roll back.  A rollback is a change nobody announces.  The  *)
(* process may crash between any two steps; it then starts from the file.  *)
(***************************************************************************)
EXTENDS Snapshotter

CONSTANTS
  MaxChanges,   \* bounds the changes made, their rollbacks aside
  MaxFailures,  \* bounds the writes that fail
  MaxCrashes    \* bounds the crashes

VARIABLES
  mem,        \* changes made to the state in memory
  task,       \* where every task is and the change it made last
  recorded,   \* the latest change announced by record_mutation
  acked,      \* the latest terminal change its task saw succeed
  failures,
  crashes

vars == <<cmds, writer_pc, flushing, dirty_seq, durable_seq, waiters, image,
          answers, disk, mem, task, recorded, acked, failures, crashes>>

ASSUME PersistenceConstants ==
  MaxChanges \in Nat /\ MaxFailures \in Nat /\ MaxCrashes \in Nat

Idle == [pc |-> "idle", gen |-> 0]

Init ==
  /\ Started(0) /\ disk = 0
  /\ mem = 0 /\ task = [c \in Callers |-> Idle]
  /\ recorded = 0 /\ acked = 0 /\ failures = 0 /\ crashes = 0

AtLeast(m, n) == IF m >= n THEN m ELSE n

\* A section under a lock changes the state; a terminal one is to be answered.
Change(c, kind) ==
  /\ task[c].pc = "idle" /\ mem < MaxChanges
  /\ mem' = mem + 1
  /\ task' = [task EXCEPT ![c] = [pc |-> kind, gen |-> mem + 1]]
  /\ UNCHANGED <<snapshotVars, recorded, acked, failures, crashes>>

\* apply_effects, create and the sweep, after the lock is released.
Record(c) ==
  /\ task[c].pc = "mutation"
  /\ RecordMutation
  /\ task' = [task EXCEPT ![c] = Idle]
  /\ recorded' = IF writer_pc = "stopped" THEN recorded ELSE AtLeast(recorded, task[c].gen)
  /\ UNCHANGED <<mem, acked, failures, crashes>>

RecordTerminal(c) ==
  /\ task[c].pc = "terminal"
  /\ RecordTerminalMutation(c)
  /\ task' = [task EXCEPT ![c].pc = "waiting"]
  /\ UNCHANGED <<mem, recorded, acked, failures, crashes>>

\* The task commits and tells its client.
Commit(c) ==
  /\ task[c].pc = "waiting" /\ answers[c] = "ok"
  /\ TakeAnswer(c, FALSE)
  /\ acked' = AtLeast(acked, task[c].gen)
  /\ task' = [task EXCEPT ![c] = Idle]
  /\ UNCHANGED <<mem, recorded, failures, crashes>>

\* The task rolls its change back.
RollBack(c) ==
  /\ task[c].pc = "waiting" /\ answers[c] = "err"
  /\ TakeAnswer(c, FALSE)
  /\ mem' = mem + 1
  /\ task' = [task EXCEPT ![c] = Idle]
  /\ UNCHANGED <<recorded, acked, failures, crashes>>

TaskStep(c) == Record(c) \/ RecordTerminal(c) \/ Commit(c) \/ RollBack(c)

BeginPersist ==
  /\ ReceiveTerminal(mem) \/ ReceiveFlush(mem) \/ Debounce(mem)
  /\ UNCHANGED <<mem, task, recorded, acked, failures, crashes>>

Receive == ReceiveMutate /\ UNCHANGED <<mem, task, recorded, acked, failures, crashes>>

\* build_snapshot locks one room after the other: it sees every change made
\* before it began, and any number of those made meanwhile.
Capture ==
  /\ \E seen \in image .. mem : Captured(seen)
  /\ UNCHANGED <<mem, task, recorded, acked, failures, crashes>>

Persist ==
  /\ \/ Write(TRUE) /\ UNCHANGED failures
     \/ Write(FALSE) /\ failures < MaxFailures /\ failures' = failures + 1
  /\ UNCHANGED <<mem, task, recorded, acked, crashes>>

WriterStep == BeginPersist \/ Receive \/ Capture \/ Persist

Shutdown == RequestFlush /\ UNCHANGED <<mem, task, recorded, acked, failures, crashes>>

\* The process dies, or main returns, and is started again: load_snapshot.
Restart ==
  /\ crashes < MaxCrashes /\ crashes' = crashes + 1
  /\ Restarted(0)
  /\ mem' = disk /\ recorded' = disk
  /\ task' = [c \in Callers |-> Idle]
  /\ UNCHANGED <<acked, failures>>

Next ==
  \/ \E c \in Callers : TaskStep(c) \/ Change(c, "mutation") \/ Change(c, "terminal")
  \/ WriterStep
  \/ Shutdown
  \/ Restart

Spec == Init /\ [][Next]_vars
-----------------------------------------------------------------------------
(* Properties *)

TypeOK ==
  /\ cmds \in Seq(Commands) /\ writer_pc \in WriterSteps /\ flushing \in BOOLEAN
  /\ dirty_seq \in Nat /\ durable_seq \in Nat
  /\ waiters \subseteq [seq : Nat, from : Callers]
  /\ image \in Nat /\ disk \in Nat /\ mem \in Nat
  /\ answers \in [Callers -> Answers]
  /\ task \in [Callers -> [pc : {"idle", "mutation", "terminal", "waiting"}, gen : Nat]]
  /\ recorded \in Nat /\ acked \in Nat /\ failures \in Nat /\ crashes \in Nat

\* snapshot.rs: "a client is never told `left`/`ended` succeeded before it's
\* durable".  Whatever a task saw succeed is in the file, and stays there
\* through failed writes, later writes, a flush and any number of crashes.
AckedIsDurable ==
  /\ acked <= disk
  /\ \A c \in Callers : answers[c] = "ok" => task[c].gen <= disk

\* When the writer is at rest, every announced change is in the file: a write
\* that began before the announcement, or that failed, does not count.
SettledIsDurable == Settled => recorded <= disk

\* Between two iterations nobody is left waiting for a write that is over.
NoForgottenWaiter ==
  writer_pc \in {"recv", "stopped"} =>
    /\ waiters = {}
    /\ \A c \in Callers : answers[c] = "waiting" =>
         \E i \in DOMAIN cmds : cmds[i] = Terminal(c)
-----------------------------------------------------------------------------
(* Liveness.  The writer and the tasks are scheduled; the timer of the     *)
(* select fires once no more commands arrive (MaxChanges: each arrival     *)
(* starts it anew); the disk does not fail for ever (MaxFailures).         *)

Fairness ==
  /\ WF_vars(WriterStep)
  /\ \A c \in Callers : WF_vars(TaskStep(c))

FairSpec == Spec /\ Fairness

\* Every terminal mutation is answered, by a result or by the writer's end.
TerminalAnswered ==
  \A c \in Callers : task[c].pc = "waiting" ~> task[c].pc = "idle"

\* An announced change reaches the file, though the write that should have
\* saved it fails, unless the process is shut down or crashes first.
EventuallyDurable ==
  \A g \in 1 .. 2 * MaxChanges :
    recorded >= g ~> (disk >= g \/ recorded < g \/ writer_pc = "stopped")
=============================================================================
