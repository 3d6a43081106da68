---------------------------- MODULE Snapshotter -----------------------------
(***************************************************************************)
(* The snapshot writer of src/src/snapshot.rs: the commands its handles    *)
(* send and the loop of "run" with its generation counters.  The module is *)
(* open: a specification that uses it says when callers send a command and *)
(* what registry.build_snapshot() finds (Persistence with an abstract      *)
(* memory, Durability with the rooms).  A crash keeps "disk" only.         *)
(*                                                                         *)
(* The file is replaced by a rename, so "disk" is the previous content or  *)
(* the new one and a write that fails leaves it alone.                     *)
(***************************************************************************)
EXTENDS Naturals, Sequences

CONSTANT Callers   \* the tasks that await record_terminal_mutation

VARIABLES
  cmds,         \* the unbounded channel to the writer
  writer_pc,    \* the await the writer is at
  flushing,     \* the write under way was asked for by FlushAndStop
  dirty_seq,    \* generation of the last command received
  durable_seq,  \* generation of the last successful write
  waiters,      \* terminal commands received and not resolved
  image,        \* what the write under way has captured
  answers,      \* the oneshot channel of every caller
  disk          \* the content of the state file

snapshotVars ==
  <<cmds, writer_pc, flushing, dirty_seq, durable_seq, waiters, image, answers, disk>>

Mutate == [type |-> "mutate"]

Terminal(c) == [type |-> "terminal", from |-> c]

FlushAndStop == [type |-> "flush"]

Commands == {Mutate, FlushAndStop} \cup {Terminal(c) : c \in Callers}

WriterSteps == {"recv", "build", "write", "stopped"}

Answers == {"none", "waiting", "ok", "err"}

\* The writer and its channel as main starts them: nothing of an earlier
\* run of the process but the file.
Started(empty) ==
  /\ cmds = <<>> /\ writer_pc = "recv" /\ flushing = FALSE
  /\ dirty_seq = 0 /\ durable_seq = 0
  /\ waiters = {} /\ image = empty
  /\ answers = [c \in Callers |-> "none"]

Restarted(empty) ==
  /\ cmds' = <<>> /\ writer_pc' = "recv" /\ flushing' = FALSE
  /\ dirty_seq' = 0 /\ durable_seq' = 0
  /\ waiters' = {} /\ image' = empty
  /\ answers' = [c \in Callers |-> "none"]
  /\ disk' = disk
-----------------------------------------------------------------------------
(* The handles *)

\* A command sent to a writer that is gone is lost.
SendCommand(cmd) == cmds' = IF writer_pc = "stopped" THEN cmds ELSE Append(cmds, cmd)

RecordMutation ==
  /\ SendCommand(Mutate)
  /\ UNCHANGED <<writer_pc, flushing, dirty_seq, durable_seq, waiters, image,
                 answers, disk>>

\* The caller then awaits its answer.
RecordTerminalMutation(c) ==
  /\ SendCommand(Terminal(c))
  /\ answers' = [answers EXCEPT ![c] = IF writer_pc = "stopped" THEN "err" ELSE "waiting"]
  /\ UNCHANGED <<writer_pc, flushing, dirty_seq, durable_seq, waiters, image, disk>>

\* The caller takes its answer and may send a further command.
TakeAnswer(c, mutated) ==
  /\ IF mutated THEN SendCommand(Mutate) ELSE cmds' = cmds
  /\ answers' = [answers EXCEPT ![c] = "none"]
  /\ UNCHANGED <<writer_pc, flushing, dirty_seq, durable_seq, waiters, image, disk>>

\* main, when the server has stopped accepting.
RequestFlush ==
  /\ writer_pc # "stopped" /\ ~flushing
  /\ \A i \in DOMAIN cmds : cmds[i] # FlushAndStop
  /\ SendCommand(FlushAndStop)
  /\ UNCHANGED <<writer_pc, flushing, dirty_seq, durable_seq, waiters, image,
                 answers, disk>>
-----------------------------------------------------------------------------
(* The loop *)

\* Variant of Resolved: a failed write leaves its waiters waiting.
ResolvedByWriteOnly(durable, ok) == {w \in waiters : w.seq <= durable}

\* resolve_waiters: who gets the result of this write.
Resolved(durable, ok) == {w \in waiters : w.seq <= durable \/ ~ok}

\* Variant of AnswersAfter: the result of the write is not looked at.
AnswersAfterIgnoringResult(durable, ok, stop) ==
  [c \in Callers |->
     IF \E w \in Resolved(durable, ok) : w.from = c THEN "ok"
     ELSE IF stop /\ answers[c] = "waiting" THEN "err" ELSE answers[c]]

\* The answers after a write; a writer that returns drops all the senders it
\* still has, queued ones included, which their callers see as an error.
AnswersAfter(durable, ok, stop) ==
  [c \in Callers |->
     IF \E w \in Resolved(durable, ok) : w.from = c THEN IF ok THEN "ok" ELSE "err"
     ELSE IF stop /\ answers[c] = "waiting" THEN "err" ELSE answers[c]]

ReceiveMutate ==
  /\ writer_pc = "recv" /\ cmds # <<>> /\ Head(cmds) = Mutate
  /\ cmds' = Tail(cmds)
  /\ dirty_seq' = dirty_seq + 1
  /\ UNCHANGED <<writer_pc, flushing, durable_seq, waiters, image, answers, disk>>

\* Variant of ReceiveTerminal: left to the next debounced write, without a
\* generation of its own.
ReceiveTerminalUncounted(empty) ==
  /\ writer_pc = "recv" /\ cmds # <<>> /\ Head(cmds).type = "terminal"
  /\ cmds' = Tail(cmds)
  /\ waiters' = waiters \cup {[seq |-> dirty_seq, from |-> Head(cmds).from]}
  /\ image' = empty
  /\ UNCHANGED <<writer_pc, flushing, dirty_seq, durable_seq, answers, disk>>

\* A terminal command is written at once.
ReceiveTerminal(empty) ==
  /\ writer_pc = "recv" /\ cmds # <<>> /\ Head(cmds).type = "terminal"
  /\ cmds' = Tail(cmds)
  /\ dirty_seq' = dirty_seq + 1
  /\ waiters' = waiters \cup {[seq |-> dirty_seq + 1, from |-> Head(cmds).from]}
  /\ writer_pc' = "build" /\ image' = empty
  /\ UNCHANGED <<flushing, durable_seq, answers, disk>>

\* The last command: one more write if anything is unsaved, then the writer
\* returns.
ReceiveFlush(empty) ==
  /\ writer_pc = "recv" /\ cmds # <<>> /\ Head(cmds) = FlushAndStop
  /\ \/ /\ dirty_seq > durable_seq
        /\ cmds' = Tail(cmds)
        /\ writer_pc' = "build" /\ flushing' = TRUE /\ image' = empty
        /\ UNCHANGED <<waiters, answers>>
     \/ /\ dirty_seq <= durable_seq
        /\ writer_pc' = "stopped" /\ cmds' = <<>>
        /\ answers' = AnswersAfter(durable_seq, TRUE, TRUE) /\ waiters' = {}
        /\ UNCHANGED <<flushing, image>>
  /\ UNCHANGED <<dirty_seq, durable_seq, disk>>

\* The timer of the select fires.
Debounce(empty) ==
  /\ writer_pc = "recv" /\ dirty_seq > durable_seq
  /\ writer_pc' = "build" /\ image' = empty
  /\ UNCHANGED <<cmds, flushing, dirty_seq, durable_seq, waiters, answers, disk>>

\* build_snapshot has returned.
Captured(content) ==
  /\ writer_pc = "build"
  /\ writer_pc' = "write" /\ image' = content
  /\ UNCHANGED <<cmds, flushing, dirty_seq, durable_seq, waiters, answers, disk>>

\* Variant of Write: a write counts as durable whether or not it failed.
WriteAssumingSuccess(ok) ==
  /\ writer_pc = "write"
  /\ disk' = IF ok THEN image ELSE disk
  /\ durable_seq' = dirty_seq
  /\ answers' = AnswersAfter(durable_seq', ok, flushing)
  /\ waiters' = IF flushing THEN {} ELSE waiters \ Resolved(durable_seq', ok)
  /\ writer_pc' = IF flushing THEN "stopped" ELSE "recv"
  /\ cmds' = IF flushing THEN <<>> ELSE cmds
  /\ UNCHANGED <<flushing, dirty_seq, image>>

\* persist_atomic and what "run" does with its result.
Write(ok) ==
  /\ writer_pc = "write"
  /\ disk' = IF ok THEN image ELSE disk
  /\ durable_seq' = IF ok THEN dirty_seq ELSE durable_seq
  /\ answers' = AnswersAfter(durable_seq', ok, flushing)
  /\ waiters' = IF flushing THEN {} ELSE waiters \ Resolved(durable_seq', ok)
  /\ writer_pc' = IF flushing THEN "stopped" ELSE "recv"
  /\ cmds' = IF flushing THEN <<>> ELSE cmds
  /\ UNCHANGED <<flushing, dirty_seq, image>>

\* Everything announced has been written and nothing is under way.
Settled == writer_pc = "recv" /\ cmds = <<>> /\ dirty_seq = durable_seq
=============================================================================
