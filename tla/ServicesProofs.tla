--------------------------- MODULE ServicesProofs ---------------------------
(***************************************************************************)
(* The parts of the relay that share no variable with the rooms nor with   *)
(* one another, for all values of their constants.  The snapshot writer    *)
(* keeps what it promises its callers, for any number of tasks and         *)
(* changes, any failed writes and any crashes.  resolve returns the        *)
(* nearest hop that is not a trusted proxy, for every peer, header,        *)
(* setting and limit.  The message limiter lets through what its burst and *)
(* sustained rate allow, at every resolution of the clock.  The connection *)
(* quota is exact and holds its caps, for any number of requests, any      *)
(* addresses and any caps.  The log store keeps what it promises an        *)
(* uploader, and its limiter what it promises the operator, for any        *)
(* uploads, ids, addresses, age, cap and interval.                         *)
(***************************************************************************)
EXTENDS ConnectionQuota, TokenBucket, LogStore, ClientIp, Persistence, Integers,
        TLAPS

(* The snapshot writer *)

Queued(c) == \E i \in DOMAIN cmds : cmds[i] = Terminal(c)

\* Nothing is ahead of the state in memory, nor a write ahead of the commands.
Bounds ==
  /\ recorded <= mem /\ disk <= mem /\ acked <= disk
  /\ \A c \in Callers : task[c].gen <= mem
  /\ durable_seq <= dirty_seq

\* A terminal command has one place, in the queue or with the writer, and its
\* task awaits the answer there.
Places ==
  /\ \A c \in Callers : answers[c] # "none" => task[c].pc = "waiting"
  /\ \A c \in Callers, i \in DOMAIN cmds :
       cmds[i] = Terminal(c) => /\ answers[c] = "waiting"
                                /\ \A j \in DOMAIN cmds : cmds[j] = Terminal(c) => i = j
                                /\ \A w \in waiters : w.from # c
  /\ \A w \in waiters : answers[w.from] = "waiting" /\ w.seq <= dirty_seq
  /\ \A c \in Callers : answers[c] = "waiting" => Queued(c) \/ \E w \in waiters : w.from = c
  /\ writer_pc \in {"recv", "stopped"} => waiters = {}

\* What a write under way will have saved: all that its waiters wait for, and
\* all that was announced unless more commands have come.
UnderWay ==
  writer_pc \in {"build", "write"} =>
    /\ disk <= image /\ image <= mem /\ durable_seq < dirty_seq
    /\ cmds = <<>> => recorded <= image
    /\ \A w \in waiters : task[w.from].gen <= image

OkIsDurable == \A c \in Callers : answers[c] = "ok" => task[c].gen <= disk

PersistInv == TypeOK /\ Bounds /\ Places /\ UnderWay /\ OkIsDurable /\ SettledIsDurable

\* Where a sequence over S is defined, it has an element of S.
LEMMA SeqElement ==
  ASSUME NEW S, NEW s \in Seq(S), NEW j \in DOMAIN s
  PROVE  j \in 1 .. Len(s) /\ s[j] \in S
OBVIOUS

\* A sequence that is not empty is defined at its length.
LEMMA SeqLast ==
  ASSUME NEW S, NEW s \in Seq(S), s # <<>>
  PROVE  Len(s) \in Nat \ {0} /\ Len(s) \in DOMAIN s
OBVIOUS

\* When the interval has elapsed, it lies between the two times.
LEMMA ElapsedEnough ==
  ASSUME NEW t \in Nat, NEW since \in Nat, NEW i \in Nat \ {0}, Elapsed(t, since) >= i
  PROVE  t >= since + i
BY DEF Elapsed

\* One more than a number below the cap is within the cap.
LEMMA RoomForOne ==
  ASSUME NEW m \in Nat, NEW n \in Nat, NEW k \in Nat, NEW cap \in Nat,
         m <= n, n <= k + 1, k < cap
  PROVE  m <= cap
OBVIOUS

\* What an old reading t of the clock makes of an age below m.
LEMMA ElapsedLess ==
  ASSUME NEW t \in Nat, NEW since \in Nat, NEW n \in Nat, NEW m \in Nat \ {0},
         t <= n, n - since < m
  PROVE  Elapsed(t, since) < m
BY DEF Elapsed

\* Giving back one of k + 1.
LEMMA OneBack ==
  ASSUME NEW k \in Nat, NEW g, NEW cap \in Nat, g = k + 1, g <= cap
  PROVE  g > 0 /\ g - 1 = k /\ k <= cap
OBVIOUS

\* A process that starts with an empty file has nothing to lose.
LEMMA PersistInit == Init => PersistInv
<1> SUFFICES ASSUME Init PROVE PersistInv
  BY Zenon
<1>1. TypeOK
  <2>1. task \in [Callers -> [pc : {"idle", "mutation", "terminal", "waiting"}, gen : Nat]]
    BY Zenon DEF Init, Idle
  <2>2. cmds \in Seq(Commands) /\ waiters \subseteq [seq : Nat, from : Callers]
    BY DEF Init, Started
  <2>3. answers \in [Callers -> Answers] /\ writer_pc \in WriterSteps
    BY Zenon DEF Init, Started, Answers, WriterSteps
  <2> QED BY Zenon, <2>1, <2>2, <2>3 DEF Init, Started, TypeOK
<1>2. Bounds /\ UnderWay /\ OkIsDurable /\ SettledIsDurable
  BY DEF Init, Started, Bounds, UnderWay, OkIsDurable, SettledIsDurable, Idle
<1>3. Places
  BY DEF Init, Started, Places
<1> QED BY Zenon, <1>1, <1>2, <1>3 DEF PersistInv

\* The invariant says more than the three properties.
LEMMA PersistProperties == PersistInv => AckedIsDurable /\ SettledIsDurable /\ NoForgottenWaiter
BY Zenon DEF PersistInv, AckedIsDurable, Bounds, OkIsDurable, NoForgottenWaiter, Places, Queued, TypeOK

\* Commands of different kinds, or of different callers, differ.
LEMMA CommandsDiffer ==
  /\ \A c : Terminal(c) # Mutate /\ Terminal(c) # FlushAndStop
  /\ \A c, d : Terminal(c) = Terminal(d) => c = d
  /\ Mutate \in Commands /\ FlushAndStop \in Commands
  /\ \A c \in Callers : Terminal(c) \in Commands
<1>1. \A c : Terminal(c).type = "terminal" /\ Terminal(c).from = c
  BY Zenon DEF Terminal
<1>2. Mutate.type = "mutate" /\ FlushAndStop.type = "flush"
  BY Zenon DEF Mutate, FlushAndStop
<1> QED BY <1>1, <1>2 DEF Commands

\* Sending a command that is not terminal adds no terminal one.
LEMMA SentOther ==
  ASSUME TypeOK, NEW x \in {Mutate, FlushAndStop}, cmds' = Append(cmds, x)
  PROVE  /\ cmds' \in Seq(Commands) /\ cmds' # <<>>
         /\ \A c, i : i \in DOMAIN cmds' /\ cmds'[i] = Terminal(c)
                        <=> i \in DOMAIN cmds /\ cmds[i] = Terminal(c)
<1>1. cmds \in Seq(Commands) /\ x \in Commands
  BY Zenon, CommandsDiffer DEF TypeOK
<1>2. /\ cmds' \in Seq(Commands) /\ cmds' # <<>>
      /\ Len(cmds) \in Nat /\ DOMAIN cmds = 1 .. Len(cmds) /\ DOMAIN cmds' = 1 .. (Len(cmds) + 1)
      /\ \A i \in 1 .. Len(cmds) : cmds'[i] = cmds[i]
      /\ cmds'[Len(cmds) + 1] = x
  BY <1>1
<1> QED BY <1>2, CommandsDiffer

\* Sending a terminal command adds that one, at the end.
LEMMA SentTerminal ==
  ASSUME TypeOK, NEW d \in Callers, cmds' = Append(cmds, Terminal(d))
  PROVE  /\ cmds' \in Seq(Commands) /\ cmds' # <<>> /\ Len(cmds) + 1 \in DOMAIN cmds'
         /\ \A c, i : i \in DOMAIN cmds' /\ cmds'[i] = Terminal(c)
                        <=> \/ i \in DOMAIN cmds /\ cmds[i] = Terminal(c)
                            \/ i = Len(cmds) + 1 /\ c = d
<1>1. cmds \in Seq(Commands) /\ Terminal(d) \in Commands
  BY Zenon, CommandsDiffer DEF TypeOK
<1>2. /\ cmds' \in Seq(Commands) /\ cmds' # <<>>
      /\ Len(cmds) \in Nat /\ DOMAIN cmds = 1 .. Len(cmds) /\ DOMAIN cmds' = 1 .. (Len(cmds) + 1)
      /\ \A i \in 1 .. Len(cmds) : cmds'[i] = cmds[i]
      /\ cmds'[Len(cmds) + 1] = Terminal(d)
  BY <1>1
<1> QED BY <1>2, CommandsDiffer

\* Receiving the first command leaves the others.
LEMMA Received ==
  ASSUME TypeOK, cmds # <<>>, cmds' = Tail(cmds)
  PROVE  /\ cmds' \in Seq(Commands) /\ 1 \in DOMAIN cmds /\ Head(cmds) = cmds[1]
         /\ \A i \in DOMAIN cmds' : i + 1 \in DOMAIN cmds /\ cmds'[i] = cmds[i + 1] /\ i + 1 # 1
         /\ \A i \in DOMAIN cmds : i # 1 => i - 1 \in DOMAIN cmds' /\ cmds'[i - 1] = cmds[i]
         /\ \A i, j \in DOMAIN cmds' : i + 1 = j + 1 => i = j
<1>1. cmds \in Seq(Commands) /\ Len(cmds) \in Nat /\ Len(cmds) > 0 /\ DOMAIN cmds = 1 .. Len(cmds)
  BY DEF TypeOK
<1>2. /\ cmds' \in Seq(Commands) /\ DOMAIN cmds' = 1 .. (Len(cmds) - 1)
      /\ \A i \in 1 .. (Len(cmds) - 1) : cmds'[i] = cmds[i + 1]
  BY <1>1
<1> QED BY <1>1, <1>2

TaskRecords == [pc : {"idle", "mutation", "terminal", "waiting"}, gen : Nat]

\* A change that nobody has announced yet is no write's business.
LEMMA ChangeKeeps ==
  ASSUME PersistInv, NEW c \in Callers, NEW kind \in {"mutation", "terminal"}, Change(c, kind)
  PROVE  PersistInv'
<1>0. TypeOK /\ Bounds /\ Places /\ UnderWay /\ OkIsDurable /\ SettledIsDurable
  BY Zenon DEF PersistInv
<1>1. /\ UNCHANGED snapshotVars /\ UNCHANGED <<recorded, acked, failures, crashes>>
      /\ mem' = mem + 1 /\ task[c].pc = "idle"
      /\ task' = [task EXCEPT ![c] = [pc |-> kind, gen |-> mem + 1]]
  BY Zenon DEF Change
<1>2. TypeOK'
  BY <1>0, <1>1 DEF TypeOK, snapshotVars
<1>3. answers[c] = "none" /\ \A d \in Callers : d # c => task'[d] = task[d]
  BY Zenon, <1>0, <1>1 DEF Places, TypeOK
<1>4. Bounds'
  BY <1>0, <1>1 DEF Bounds, TypeOK, snapshotVars
<1>5. Places'
  BY <1>0, <1>1, <1>3 DEF Places, Queued, snapshotVars
<1>6. UnderWay'
  <2>1. \A w \in waiters : w.from \in Callers /\ w.from # c
    BY Zenon, <1>0, <1>3 DEF Places, TypeOK
  <2> QED BY <1>0, <1>1, <1>3, <2>1 DEF UnderWay, TypeOK, snapshotVars
<1>7. OkIsDurable'
  BY Zenon, <1>0, <1>1, <1>3 DEF OkIsDurable, snapshotVars
<1>8. SettledIsDurable'
  BY Zenon, <1>0, <1>1 DEF SettledIsDurable, Settled, snapshotVars
<1> QED BY Zenon, <1>2, <1>4, <1>5, <1>6, <1>7, <1>8 DEF PersistInv

\* record_mutation queues a command, or finds the writer gone.
LEMMA RecordKeeps ==
  ASSUME PersistInv, NEW c \in Callers, Record(c)
  PROVE  PersistInv'
<1>0. TypeOK /\ Bounds /\ Places /\ UnderWay /\ OkIsDurable /\ SettledIsDurable
  BY Zenon DEF PersistInv
<1>1. /\ UNCHANGED <<writer_pc, flushing, dirty_seq, durable_seq, waiters, image, answers, disk>>
      /\ UNCHANGED <<mem, acked, failures, crashes>>
      /\ task[c].pc = "mutation" /\ task' = [task EXCEPT ![c] = Idle]
      /\ recorded' = IF writer_pc = "stopped" THEN recorded ELSE AtLeast(recorded, task[c].gen)
      /\ cmds' = IF writer_pc = "stopped" THEN cmds ELSE Append(cmds, Mutate)
  BY Zenon DEF Record, RecordMutation, SendCommand
<1>2. answers[c] = "none" /\ \A d \in Callers : d # c => task'[d] = task[d]
  BY Zenon, <1>0, <1>1 DEF Places, TypeOK
<1>3. /\ cmds' \in Seq(Commands)
      /\ \A d, i : i \in DOMAIN cmds' /\ cmds'[i] = Terminal(d)
                     <=> i \in DOMAIN cmds /\ cmds[i] = Terminal(d)
      /\ writer_pc # "stopped" => cmds' # <<>>
  BY Zenon, <1>0, <1>1, SentOther DEF TypeOK
<1>4. recorded' \in Nat /\ recorded' <= mem
  BY Zenon, <1>0, <1>1 DEF AtLeast, TypeOK, Bounds
<1>5. TypeOK'
  BY Zenon, <1>0, <1>1, <1>3, <1>4 DEF TypeOK, Idle
<1>6. Bounds'
  BY <1>0, <1>1, <1>4 DEF Bounds, TypeOK, Idle
<1>7. Places'
  <2>1. \A d \in Callers : answers'[d] # "none" => task'[d].pc = "waiting"
    BY <1>0, <1>1, <1>2 DEF Places
  <2>2. ASSUME NEW d \in Callers, NEW i \in DOMAIN cmds', cmds'[i] = Terminal(d)
        PROVE  /\ answers'[d] = "waiting"
               /\ \A j \in DOMAIN cmds' : cmds'[j] = Terminal(d) => i = j
               /\ \A w \in waiters' : w.from # d
    <3>1. i \in DOMAIN cmds /\ cmds[i] = Terminal(d)
      BY Zenon, <1>3, <2>2
    <3>2. \A j \in DOMAIN cmds' : cmds'[j] = Terminal(d) => j \in DOMAIN cmds /\ cmds[j] = Terminal(d)
      BY Zenon, <1>3
    <3> QED BY Zenon, <1>0, <1>1, <3>1, <3>2 DEF Places
  <2>3. \A d \in Callers : answers'[d] = "waiting" =>
          (\E i \in DOMAIN cmds' : cmds'[i] = Terminal(d)) \/ \E w \in waiters' : w.from = d
    BY <1>0, <1>1, <1>3 DEF Places, Queued
  <2> QED BY Zenon, <1>0, <1>1, <2>1, <2>2, <2>3 DEF Places, Queued
<1>8. UnderWay'
  <2>1. \A w \in waiters : w.from \in Callers /\ w.from # c
    BY Zenon, <1>0, <1>2 DEF Places, TypeOK
  <2> QED BY Zenon, <1>0, <1>1, <1>2, <1>3, <2>1 DEF UnderWay
<1>9. OkIsDurable'
  BY Zenon, <1>0, <1>1, <1>2 DEF OkIsDurable
<1>10. SettledIsDurable'
  BY Zenon, <1>0, <1>1, <1>3 DEF SettledIsDurable, Settled
<1> QED BY Zenon, <1>5, <1>6, <1>7, <1>8, <1>9, <1>10 DEF PersistInv

\* record_terminal_mutation queues a command and waits for its answer.
LEMMA RecordTerminalKeeps ==
  ASSUME PersistInv, NEW c \in Callers, RecordTerminal(c)
  PROVE  PersistInv'
<1>0. TypeOK /\ Bounds /\ Places /\ UnderWay /\ OkIsDurable /\ SettledIsDurable
  BY Zenon DEF PersistInv
<1>1. /\ UNCHANGED <<writer_pc, flushing, dirty_seq, durable_seq, waiters, image, disk>>
      /\ UNCHANGED <<mem, recorded, acked, failures, crashes>>
      /\ task[c].pc = "terminal" /\ task' = [task EXCEPT ![c].pc = "waiting"]
      /\ answers' = [answers EXCEPT ![c] = IF writer_pc = "stopped" THEN "err" ELSE "waiting"]
      /\ cmds' = IF writer_pc = "stopped" THEN cmds ELSE Append(cmds, Terminal(c))
  BY Zenon DEF RecordTerminal, RecordTerminalMutation, SendCommand
<1>2. /\ answers[c] = "none" /\ \A d \in Callers : task'[d].gen = task[d].gen
      /\ \A d \in Callers : d # c => task'[d] = task[d] /\ answers'[d] = answers[d]
      /\ task'[c].pc = "waiting"
  BY <1>0, <1>1 DEF Places, TypeOK
<1>3. task' \in [Callers -> TaskRecords]
  BY Zenon, <1>0, <1>1 DEF TypeOK, TaskRecords
<1>4. \A w \in waiters : w.from \in Callers /\ w.from # c
  BY Zenon, <1>0, <1>2 DEF Places, TypeOK
<1>5. ~Queued(c)
  BY Zenon, <1>0, <1>2 DEF Places, Queued
<1>6. CASE writer_pc = "stopped"
  <2>1. TypeOK'
    BY Zenon, <1>0, <1>1, <1>3, <1>6 DEF TypeOK, TaskRecords, Answers
  <2>2. Places'
    BY <1>0, <1>1, <1>2, <1>4, <1>5, <1>6 DEF Places, Queued, TypeOK
  <2>3. OkIsDurable'
    BY Zenon, <1>0, <1>1, <1>2, <1>6 DEF OkIsDurable, TypeOK
  <2> QED BY Zenon, <1>0, <1>1, <1>2, <1>4, <1>6, <2>1, <2>2, <2>3
          DEF PersistInv, Bounds, UnderWay, SettledIsDurable, Settled
<1>7. CASE writer_pc # "stopped"
  <2>0. cmds' = Append(cmds, Terminal(c)) /\ answers'[c] = "waiting"
    BY Zenon, <1>0, <1>1, <1>7 DEF TypeOK
  <2>1. /\ cmds' \in Seq(Commands) /\ cmds' # <<>> /\ Len(cmds) + 1 \in DOMAIN cmds'
        /\ \A d, i : i \in DOMAIN cmds' /\ cmds'[i] = Terminal(d)
                       <=> \/ i \in DOMAIN cmds /\ cmds[i] = Terminal(d)
                           \/ i = Len(cmds) + 1 /\ d = c
    BY Zenon, <1>0, <2>0, SentTerminal
  <2>2. TypeOK'
    BY Zenon, <1>0, <1>1, <1>3, <1>7, <2>1 DEF TypeOK, TaskRecords, Answers
  <2>3. Places'
    <3>1. \A d \in Callers : answers'[d] # "none" => task'[d].pc = "waiting"
      BY <1>0, <1>2 DEF Places
    <3>2. ASSUME NEW d \in Callers, NEW i \in DOMAIN cmds', cmds'[i] = Terminal(d)
          PROVE  /\ answers'[d] = "waiting"
                 /\ \A j \in DOMAIN cmds' : cmds'[j] = Terminal(d) => i = j
                 /\ \A w \in waiters : w.from # d
      <4>1. CASE d = c
        BY <1>4, <1>5, <2>0, <2>1, <3>2, <4>1 DEF Queued
      <4>2. CASE d # c
        BY <1>0, <1>2, <2>1, <3>2, <4>2 DEF Places
      <4> QED BY Zenon, <4>1, <4>2
    <3>3. \A w \in waiters : answers'[w.from] = "waiting" /\ w.seq <= dirty_seq
      BY Zenon, <1>0, <1>2, <1>4 DEF Places
    <3>4. ASSUME NEW d \in Callers, answers'[d] = "waiting"
          PROVE  (\E i \in DOMAIN cmds' : cmds'[i] = Terminal(d)) \/ \E w \in waiters : w.from = d
      <4>1. CASE d = c
        BY Zenon, <2>1, <4>1
      <4>2. CASE d # c
        BY ZenonT(30), <1>0, <1>2, <2>1, <3>4, <4>2 DEF Places, Queued
      <4> QED BY Zenon, <4>1, <4>2
    <3> QED BY <1>0, <1>1, <3>1, <3>2, <3>3, <3>4 DEF Places, Queued
  <2>4. OkIsDurable'
    BY Zenon, <1>0, <1>1, <1>2, <2>0 DEF OkIsDurable
  <2>5. UnderWay'
    BY Zenon, <1>0, <1>1, <1>2, <1>4, <2>1 DEF UnderWay
  <2> QED BY Zenon, <1>0, <1>1, <1>2, <2>1, <2>2, <2>3, <2>4, <2>5
          DEF PersistInv, Bounds, SettledIsDurable, Settled
<1> QED BY Zenon, <1>6, <1>7

\* The task takes the answer: the leave is committed or rolled back.
LEMMA AnsweredKeeps ==
  ASSUME PersistInv, NEW c \in Callers, Commit(c) \/ RollBack(c)
  PROVE  PersistInv'
<1>0. TypeOK /\ Bounds /\ Places /\ UnderWay /\ OkIsDurable /\ SettledIsDurable
  BY Zenon DEF PersistInv
<1>1. /\ UNCHANGED <<cmds, writer_pc, flushing, dirty_seq, durable_seq, waiters, image, disk>>
      /\ UNCHANGED <<recorded, failures, crashes>>
      /\ answers[c] \in {"ok", "err"} /\ answers' = [answers EXCEPT ![c] = "none"]
      /\ task' = [task EXCEPT ![c] = Idle]
      /\ \/ mem' = mem /\ answers[c] = "ok" /\ acked' = AtLeast(acked, task[c].gen)
         \/ mem' = mem + 1 /\ acked' = acked
  BY Zenon DEF Commit, RollBack, TakeAnswer
<1>2. /\ \A d \in Callers : d # c => task'[d] = task[d] /\ answers'[d] = answers[d]
      /\ task'[c] = Idle /\ answers'[c] = "none"
  BY Zenon, <1>0, <1>1 DEF TypeOK
<1>3. acked' \in Nat /\ acked' <= disk /\ mem' \in Nat /\ mem' >= mem
  BY <1>0, <1>1 DEF AtLeast, TypeOK, Bounds, OkIsDurable
<1>4. TypeOK'
  BY Zenon, <1>0, <1>1, <1>3 DEF TypeOK, Idle, Answers
<1>5. \A w \in waiters : w.from \in Callers /\ w.from # c
  BY Zenon, <1>0, <1>1 DEF Places, TypeOK
<1>6. Bounds'
  BY <1>0, <1>1, <1>2, <1>3 DEF Bounds, TypeOK, Idle
<1>7. Places'
  BY <1>0, <1>1, <1>2, <1>5 DEF Places, Queued
<1>8. UnderWay'
  BY <1>0, <1>1, <1>2, <1>3, <1>5 DEF UnderWay, TypeOK
<1>9. OkIsDurable'
  BY Zenon, <1>0, <1>1, <1>2 DEF OkIsDurable
<1> QED BY Zenon, <1>0, <1>1, <1>4, <1>6, <1>7, <1>8, <1>9 DEF PersistInv, SettledIsDurable, Settled

\* The writer begins a write with what is in memory; only ReceiveTerminal gives
\* it a waiter.
LEMMA ReceiveTerminalKeeps ==
  ASSUME PersistInv, ReceiveTerminal(mem), UNCHANGED <<mem, task, recorded, acked, failures, crashes>>
  PROVE  PersistInv'
<1>0. TypeOK /\ Bounds /\ Places /\ UnderWay /\ OkIsDurable /\ SettledIsDurable
  BY Zenon DEF PersistInv
<1>1. /\ writer_pc = "recv" /\ cmds # <<>> /\ Head(cmds).type = "terminal" /\ cmds' = Tail(cmds)
      /\ dirty_seq' = dirty_seq + 1
      /\ waiters' = waiters \cup {[seq |-> dirty_seq + 1, from |-> Head(cmds).from]}
      /\ writer_pc' = "build" /\ image' = mem
      /\ UNCHANGED <<flushing, durable_seq, answers, disk>>
  BY Zenon DEF ReceiveTerminal
<1>2. /\ cmds' \in Seq(Commands) /\ 1 \in DOMAIN cmds /\ Head(cmds) = cmds[1]
      /\ \A i \in DOMAIN cmds' : i + 1 \in DOMAIN cmds /\ cmds'[i] = cmds[i + 1] /\ i + 1 # 1
      /\ \A i \in DOMAIN cmds : i # 1 => i - 1 \in DOMAIN cmds' /\ cmds'[i - 1] = cmds[i]
      /\ \A i, j \in DOMAIN cmds' : i + 1 = j + 1 => i = j
  BY Zenon, <1>0, <1>1, Received
<1>3. PICK c \in Callers : cmds[1] = Terminal(c) /\ Head(cmds).from = c
  <2>1. cmds[1] \in Commands /\ cmds[1].type = "terminal"
    BY <1>0, <1>1, <1>2 DEF TypeOK
  <2> QED BY <1>2, <2>1 DEF Commands, Mutate, FlushAndStop, Terminal
<1>4. waiters' = {[seq |-> dirty_seq + 1, from |-> c]}
  BY Zenon, <1>0, <1>1, <1>3 DEF Places
<1>5. answers[c] = "waiting" /\ \A i \in DOMAIN cmds : cmds[i] = Terminal(c) => i = 1
  BY Zenon, <1>0, <1>2, <1>3 DEF Places
<1>6. TypeOK'
  BY <1>0, <1>1, <1>2, <1>4 DEF TypeOK, WriterSteps
<1>7. Bounds' /\ OkIsDurable' /\ SettledIsDurable'
  BY <1>0, <1>1 DEF Bounds, OkIsDurable, SettledIsDurable, Settled, TypeOK
<1>8. Places'
  <2>1. ASSUME NEW d \in Callers, NEW i \in DOMAIN cmds', cmds'[i] = Terminal(d)
        PROVE  /\ answers[d] = "waiting"
               /\ \A j \in DOMAIN cmds' : cmds'[j] = Terminal(d) => i = j
               /\ \A w \in waiters' : w.from # d
    <3>1. i + 1 \in DOMAIN cmds /\ cmds[i + 1] = Terminal(d) /\ i + 1 # 1
      BY Zenon, <1>2, <2>1
    <3>2. answers[d] = "waiting" /\ \A k \in DOMAIN cmds : cmds[k] = Terminal(d) => i + 1 = k
      BY Zenon, <1>0, <3>1 DEF Places
    <3>3. \A j \in DOMAIN cmds' : cmds'[j] = Terminal(d) => i = j
      BY <1>2, <3>2
    <3>4. d # c
      BY Zenon, <1>5, <3>1
    <3> QED BY <1>4, <3>2, <3>3, <3>4
  <2>2. ASSUME NEW d \in Callers, answers[d] = "waiting"
        PROVE  (\E i \in DOMAIN cmds' : cmds'[i] = Terminal(d)) \/ \E w \in waiters' : w.from = d
    <3>1. PICK i \in DOMAIN cmds : cmds[i] = Terminal(d)
      BY Zenon, <1>0, <1>1, <2>2 DEF Places, Queued
    <3>2. CASE i = 1
      BY Zenon, <1>3, <1>4, <3>1, <3>2, CommandsDiffer
    <3>3. CASE i # 1
      BY <1>2, <3>1, <3>3
    <3> QED BY Zenon, <3>2, <3>3
  <2>3. \A w \in waiters' : answers'[w.from] = "waiting" /\ w.seq <= dirty_seq'
    BY <1>0, <1>1, <1>4, <1>5 DEF TypeOK
  <2>4. \A d \in Callers : answers'[d] # "none" => task'[d].pc = "waiting"
    BY Zenon, <1>0, <1>1 DEF Places
  <2>5. answers' = answers /\ writer_pc' \notin {"recv", "stopped"}
    BY Zenon, <1>1
  <2> QED BY Zenon, <2>1, <2>2, <2>3, <2>4, <2>5 DEF Places, Queued
<1>9. UnderWay'
  <2>1. \A w \in waiters' : task[w.from].gen <= mem
    BY <1>0, <1>4 DEF Bounds
  <2> QED BY <1>0, <1>1, <2>1 DEF UnderWay, Bounds, TypeOK
<1> QED BY Zenon, <1>6, <1>7, <1>8, <1>9 DEF PersistInv

\* The debounce timer starts a write of what is announced.
LEMMA DebounceKeeps ==
  ASSUME PersistInv, Debounce(mem), UNCHANGED <<mem, task, recorded, acked, failures, crashes>>
  PROVE  PersistInv'
<1>0. TypeOK /\ Bounds /\ Places /\ UnderWay /\ OkIsDurable /\ SettledIsDurable
  BY Zenon DEF PersistInv
<1>1. /\ writer_pc = "recv" /\ dirty_seq > durable_seq /\ writer_pc' = "build" /\ image' = mem
      /\ UNCHANGED <<cmds, flushing, dirty_seq, durable_seq, waiters, answers, disk>>
      /\ waiters = {}
  BY Zenon, <1>0 DEF Debounce, Places
<1>2. TypeOK'
  BY Zenon, <1>0, <1>1 DEF TypeOK, WriterSteps
<1>3. Places'
  <2>1. writer_pc' \notin {"recv", "stopped"}
    BY Zenon, <1>1
  <2>2. /\ cmds' = cmds /\ waiters' = waiters /\ answers' = answers /\ task' = task
        /\ dirty_seq' = dirty_seq
    BY Zenon, <1>1
  <2> QED BY <1>0, <2>1, <2>2 DEF Places, Queued
<1> QED BY <1>0, <1>1, <1>2, <1>3
        DEF PersistInv, Bounds, OkIsDurable, SettledIsDurable, Settled, UnderWay, TypeOK

\* Receiving a command that is not terminal moves no terminal one.
LEMMA ReceivedOther ==
  ASSUME TypeOK, Places, writer_pc = "recv", cmds # <<>>, Head(cmds) \in {Mutate, FlushAndStop},
         cmds' = Tail(cmds), UNCHANGED <<answers, waiters, task>>, dirty_seq' >= dirty_seq,
         dirty_seq' \in Nat
  PROVE  cmds' \in Seq(Commands) /\ waiters' = {} /\ Places'
<1>1. waiters = {} /\ waiters' = {}
  BY Zenon DEF Places
<1>2. /\ cmds' \in Seq(Commands) /\ 1 \in DOMAIN cmds /\ Head(cmds) = cmds[1]
      /\ \A i \in DOMAIN cmds' : i + 1 \in DOMAIN cmds /\ cmds'[i] = cmds[i + 1] /\ i + 1 # 1
      /\ \A i \in DOMAIN cmds : i # 1 => i - 1 \in DOMAIN cmds' /\ cmds'[i - 1] = cmds[i]
      /\ \A i, j \in DOMAIN cmds' : i + 1 = j + 1 => i = j
  BY Zenon, Received
<1>3. ASSUME NEW d \in Callers, NEW i \in DOMAIN cmds', cmds'[i] = Terminal(d)
      PROVE  answers[d] = "waiting" /\ \A j \in DOMAIN cmds' : cmds'[j] = Terminal(d) => i = j
  <2>1. i + 1 \in DOMAIN cmds /\ cmds[i + 1] = Terminal(d)
    BY Zenon, <1>2, <1>3
  <2>2. answers[d] = "waiting" /\ \A k \in DOMAIN cmds : cmds[k] = Terminal(d) => i + 1 = k
    BY Zenon, <2>1 DEF Places
  <2> QED BY <1>2, <2>2
<1>4. ASSUME NEW d \in Callers, answers[d] = "waiting"
      PROVE  \E i \in DOMAIN cmds' : cmds'[i] = Terminal(d)
  <2>1. PICK i \in DOMAIN cmds : cmds[i] = Terminal(d)
    BY Zenon, <1>1, <1>4 DEF Places, Queued
  <2>2. i # 1
    BY Zenon, <1>2, <2>1, CommandsDiffer
  <2> QED BY <1>2, <2>1, <2>2
<1>5. \A d \in Callers : answers'[d] # "none" => task'[d].pc = "waiting"
  BY Zenon DEF Places
<1>6. answers' = answers /\ \A w : w \notin waiters'
  BY Zenon, <1>1
<1> QED BY SMT, <1>1, <1>2, <1>3, <1>4, <1>5, <1>6 DEF Places, Queued

\* The writer takes a plain mutation from the queue.
LEMMA ReceiveMutateKeeps ==
  ASSUME PersistInv, Receive
  PROVE  PersistInv'
<1>0. TypeOK /\ Bounds /\ Places /\ UnderWay /\ OkIsDurable /\ SettledIsDurable
  BY Zenon DEF PersistInv
<1>1. /\ writer_pc = "recv" /\ cmds # <<>> /\ Head(cmds) = Mutate /\ cmds' = Tail(cmds)
      /\ dirty_seq' = dirty_seq + 1
      /\ UNCHANGED <<writer_pc, flushing, durable_seq, waiters, image, answers, disk>>
      /\ UNCHANGED <<mem, task, recorded, acked, failures, crashes>>
  BY Zenon DEF Receive, ReceiveMutate
<1>2. cmds' \in Seq(Commands) /\ waiters' = {} /\ Places'
  BY <1>0, <1>1, ReceivedOther DEF TypeOK
<1>3. TypeOK'
  BY <1>0, <1>1, <1>2 DEF TypeOK
<1>4. Bounds' /\ OkIsDurable' /\ SettledIsDurable' /\ UnderWay'
  BY <1>0, <1>1 DEF Bounds, OkIsDurable, SettledIsDurable, Settled, UnderWay, TypeOK
<1> QED BY Zenon, <1>2, <1>3, <1>4 DEF PersistInv

\* A writer that returns answers everyone who still waits.
LEMMA StopAnswersAll ==
  ASSUME TypeOK, NEW durable, NEW ok \in BOOLEAN, answers' = AnswersAfter(durable, ok, TRUE)
  PROVE  \A c \in Callers : /\ answers'[c] # "waiting" /\ answers'[c] \in Answers
                            /\ answers[c] = "none" => answers'[c] = "none"
                                 \/ \E w \in waiters : w.from = c
BY Zenon DEF TypeOK, AnswersAfter, Answers, Resolved

\* The writer takes the request to flush and stop.
LEMMA ReceiveFlushKeeps ==
  ASSUME PersistInv, ReceiveFlush(mem), UNCHANGED <<mem, task, recorded, acked, failures, crashes>>
  PROVE  PersistInv'
<1>0. TypeOK /\ Bounds /\ Places /\ UnderWay /\ OkIsDurable /\ SettledIsDurable
  BY Zenon DEF PersistInv
<1>1. /\ writer_pc = "recv" /\ cmds # <<>> /\ Head(cmds) = FlushAndStop
      /\ UNCHANGED <<dirty_seq, durable_seq, disk>> /\ waiters = {}
  BY ZenonT(30), <1>0 DEF ReceiveFlush, Places
<1>2. CASE /\ dirty_seq > durable_seq /\ cmds' = Tail(cmds)
           /\ writer_pc' = "build" /\ flushing' = TRUE /\ image' = mem
           /\ UNCHANGED <<waiters, answers>>
  <2>1. cmds' \in Seq(Commands) /\ waiters' = {} /\ Places'
    BY <1>0, <1>1, <1>2, ReceivedOther DEF TypeOK
  <2>2. TypeOK'
    BY Zenon, <1>0, <1>1, <1>2, <2>1 DEF TypeOK, WriterSteps
  <2> QED BY <1>0, <1>1, <1>2, <2>1, <2>2
          DEF PersistInv, Bounds, OkIsDurable, SettledIsDurable, Settled, UnderWay, TypeOK
<1>3. CASE /\ writer_pc' = "stopped" /\ cmds' = <<>>
           /\ answers' = AnswersAfter(durable_seq, TRUE, TRUE) /\ waiters' = {}
           /\ UNCHANGED <<flushing, image>>
  <2>1. /\ \A c \in Callers : answers'[c] # "waiting" /\ answers'[c] \in Answers
        /\ \A c \in Callers : answers'[c] # "none" => answers[c] # "none"
        /\ answers' \in [Callers -> Answers]
    BY Zenon, <1>0, <1>1, <1>3, StopAnswersAll DEF AnswersAfter
  <2>2. \A c \in Callers : answers'[c] = "ok" => answers[c] = "ok"
    BY Zenon, <1>1, <1>3 DEF AnswersAfter, Resolved
  <2>0. cmds' \in Seq(Commands) /\ DOMAIN cmds' = {}
    BY <1>3
  <2>3. TypeOK'
    <3>1. writer_pc' \in WriterSteps /\ waiters' \subseteq [seq : Nat, from : Callers]
      BY Zenon, <1>3 DEF WriterSteps
    <3> QED BY Zenon, <1>0, <1>1, <1>3, <2>0, <2>1, <3>1 DEF TypeOK
  <2>4. Places'
    <3>1. \A d \in Callers : answers'[d] # "none" => task'[d].pc = "waiting"
      BY Zenon, <1>0, <2>1 DEF Places
    <3> QED BY Zenon, <1>3, <2>0, <2>1, <3>1 DEF Places
  <2> QED BY Zenon, <1>0, <1>1, <1>3, <2>2, <2>3, <2>4
          DEF PersistInv, Bounds, OkIsDurable, SettledIsDurable, Settled, UnderWay
<1> QED BY Zenon, <1>2, <1>3 DEF ReceiveFlush

\* build_snapshot reads the state that the write will hold.
LEMMA CaptureKeeps ==
  ASSUME PersistInv, Capture
  PROVE  PersistInv'
<1>0. TypeOK /\ Bounds /\ Places /\ UnderWay /\ OkIsDurable /\ SettledIsDurable
  BY Zenon DEF PersistInv
<1>1. PICK seen \in image .. mem : Captured(seen)
  BY Zenon DEF Capture
<1>2. /\ writer_pc = "build" /\ writer_pc' = "write" /\ image' = seen
      /\ UNCHANGED <<cmds, flushing, dirty_seq, durable_seq, waiters, answers, disk>>
      /\ UNCHANGED <<mem, task, recorded, acked, failures, crashes>>
  BY Zenon, <1>1 DEF Capture, Captured
<1>3. seen \in Nat /\ image <= seen /\ seen <= mem
  BY <1>0 DEF TypeOK
<1>4. TypeOK'
  BY Zenon, <1>0, <1>2, <1>3 DEF TypeOK, WriterSteps
<1>5. Places'
  BY <1>0, <1>2 DEF Places, Queued
<1>6. UnderWay'
  <2>1. \A w \in waiters : w.from \in Callers /\ task[w.from].gen \in Nat
    BY Zenon, <1>0 DEF TypeOK
  <2> QED BY <1>0, <1>2, <1>3, <2>1 DEF UnderWay, TypeOK
<1> QED BY Zenon, <1>0, <1>2, <1>4, <1>5, <1>6
        DEF PersistInv, Bounds, OkIsDurable, SettledIsDurable, Settled

\* A write, successful or not, answers all of its waiters.
LEMMA PersistKeeps ==
  ASSUME PersistInv, Persist
  PROVE  PersistInv'
<1>0. TypeOK /\ Bounds /\ Places /\ UnderWay /\ OkIsDurable /\ SettledIsDurable
  BY Zenon DEF PersistInv
<1>1. PICK ok \in BOOLEAN : Write(ok) /\ (failures' = failures \/ failures' = failures + 1)
  BY Zenon DEF Persist
<1>2. UNCHANGED <<mem, task, recorded, acked, crashes>> /\ failures' \in Nat
  BY <1>0, <1>1 DEF Persist, TypeOK
<1>3. /\ writer_pc = "write" /\ disk' = IF ok THEN image ELSE disk
      /\ durable_seq' = IF ok THEN dirty_seq ELSE durable_seq
      /\ answers' = AnswersAfter(durable_seq', ok, flushing)
      /\ waiters' = IF flushing THEN {} ELSE waiters \ Resolved(durable_seq', ok)
      /\ writer_pc' = IF flushing THEN "stopped" ELSE "recv"
      /\ cmds' = IF flushing THEN <<>> ELSE cmds
      /\ UNCHANGED <<flushing, dirty_seq, image>>
  BY Zenon, <1>1 DEF Write
<1>4. Resolved(durable_seq', ok) = waiters /\ waiters' = {}
  BY Zenon, <1>0, <1>3 DEF Resolved, Places
<1>5. answers' = [c \in Callers |->
                    IF \E w \in waiters : w.from = c THEN IF ok THEN "ok" ELSE "err"
                    ELSE IF flushing /\ answers[c] = "waiting" THEN "err" ELSE answers[c]]
  BY Zenon, <1>3, <1>4 DEF AnswersAfter
<1>6. answers' \in [Callers -> Answers]
  BY Zenon, <1>0, <1>5 DEF TypeOK, Answers
<1>7. disk' \in Nat /\ disk <= disk' /\ disk' <= mem /\ durable_seq' \in Nat /\ durable_seq' <= dirty_seq
  BY <1>0, <1>3 DEF TypeOK, UnderWay, Bounds
<1>8. TypeOK'
  BY <1>0, <1>2, <1>3, <1>4, <1>6, <1>7 DEF TypeOK, WriterSteps
<1>9. Bounds'
  BY <1>0, <1>2, <1>3, <1>7 DEF Bounds, TypeOK
<1>10. \A c \in Callers : answers'[c] # "none" => answers[c] # "none"
  BY Zenon, <1>0, <1>5 DEF Places
<1>11. \A c \in Callers : answers'[c] = "waiting" =>
         ~flushing /\ answers[c] = "waiting" /\ ~(\E w \in waiters : w.from = c)
  BY Zenon, <1>0, <1>5 DEF TypeOK
<1>12. Places'
  <2>1. CASE flushing
    <3>1. DOMAIN cmds' = {} /\ writer_pc' = "stopped"
      BY <1>3, <2>1
    <3>2. \A c \in Callers : answers'[c] # "none" => task'[c].pc = "waiting"
      BY Zenon, <1>0, <1>2, <1>10 DEF Places
    <3> QED BY Zenon, <1>4, <1>11, <2>1, <3>1, <3>2 DEF Places
  <2>2. CASE ~flushing
    <3>1. \A c \in Callers : answers'[c] = "waiting" => \E i \in DOMAIN cmds : cmds[i] = Terminal(c)
      BY Zenon, <1>0, <1>11 DEF Places, Queued
    <3>2. \A c \in Callers, i \in DOMAIN cmds :
            cmds[i] = Terminal(c) => /\ answers'[c] = "waiting"
                                     /\ \A j \in DOMAIN cmds : cmds[j] = Terminal(c) => i = j
      BY Zenon, <1>0, <1>5, <2>2 DEF Places
    <3>3. \A c \in Callers : answers'[c] # "none" => task'[c].pc = "waiting"
      BY Zenon, <1>0, <1>2, <1>10 DEF Places
    <3> QED BY Zenon, <1>3, <1>4, <2>2, <3>1, <3>2, <3>3 DEF Places, Queued
  <2> QED BY Zenon, <2>1, <2>2 DEF TypeOK
<1>13. OkIsDurable'
  <2> SUFFICES ASSUME NEW c \in Callers, answers'[c] = "ok" PROVE task[c].gen <= disk'
    BY Zenon, <1>2 DEF OkIsDurable
  <2>0. task[c].gen \in Nat
    BY Zenon, <1>0 DEF TypeOK
  <2>1. CASE \E w \in waiters : w.from = c
    <3>1. ok /\ task[c].gen <= image
      BY Zenon, <1>0, <1>3, <1>5, <2>1 DEF UnderWay
    <3> QED BY Zenon, <1>3, <3>1
  <2>2. CASE ~(\E w \in waiters : w.from = c)
    <3>1. answers[c] = "ok"
      BY Zenon, <1>5, <2>2
    <3> QED BY <1>0, <1>7, <2>0, <3>1 DEF OkIsDurable, TypeOK
  <2> QED BY Zenon, <2>1, <2>2
<1>14. SettledIsDurable'
  BY <1>0, <1>2, <1>3 DEF SettledIsDurable, Settled, UnderWay, TypeOK
<1>15. UnderWay'
  BY Zenon, <1>3 DEF UnderWay
<1> QED BY Zenon, <1>8, <1>9, <1>12, <1>13, <1>14, <1>15 DEF PersistInv

\* main asks for the last write.
LEMMA ShutdownKeeps ==
  ASSUME PersistInv, Shutdown
  PROVE  PersistInv'
<1>0. TypeOK /\ Bounds /\ Places /\ UnderWay /\ OkIsDurable /\ SettledIsDurable
  BY Zenon DEF PersistInv
<1>1. /\ writer_pc # "stopped" /\ cmds' = Append(cmds, FlushAndStop)
      /\ UNCHANGED <<writer_pc, flushing, dirty_seq, durable_seq, waiters, image, answers, disk>>
      /\ UNCHANGED <<mem, task, recorded, acked, failures, crashes>>
  BY Zenon DEF Shutdown, RequestFlush, SendCommand
<1>2. /\ cmds' \in Seq(Commands) /\ cmds' # <<>>
      /\ \A d, i : i \in DOMAIN cmds' /\ cmds'[i] = Terminal(d)
                     <=> i \in DOMAIN cmds /\ cmds[i] = Terminal(d)
  BY Zenon, <1>0, <1>1, SentOther
<1>3. TypeOK'
  BY Zenon, <1>0, <1>1, <1>2 DEF TypeOK
<1>4. Places'
  <2>1. ASSUME NEW d \in Callers, NEW i \in DOMAIN cmds', cmds'[i] = Terminal(d)
        PROVE  /\ answers'[d] = "waiting"
               /\ \A j \in DOMAIN cmds' : cmds'[j] = Terminal(d) => i = j
               /\ \A w \in waiters' : w.from # d
    <3>1. i \in DOMAIN cmds /\ cmds[i] = Terminal(d)
      BY Zenon, <1>2, <2>1
    <3>2. \A j \in DOMAIN cmds' : cmds'[j] = Terminal(d) => j \in DOMAIN cmds /\ cmds[j] = Terminal(d)
      BY Zenon, <1>2
    <3> QED BY Zenon, <1>0, <1>1, <3>1, <3>2 DEF Places
  <2>2. \A d \in Callers : answers'[d] = "waiting" =>
          (\E i \in DOMAIN cmds' : cmds'[i] = Terminal(d)) \/ \E w \in waiters' : w.from = d
    BY ZenonT(30), <1>0, <1>1, <1>2 DEF Places, Queued
  <2> QED BY ZenonT(30), <1>0, <1>1, <2>1, <2>2 DEF Places, Queued
<1> QED BY Zenon, <1>0, <1>1, <1>2, <1>3, <1>4
        DEF PersistInv, Bounds, UnderWay, OkIsDurable, SettledIsDurable, Settled

\* A crash or the end of the process: the state is what the file says.
LEMMA RestartKeeps ==
  ASSUME PersistInv, Restart
  PROVE  PersistInv'
<1>0. TypeOK /\ Bounds
  BY Zenon DEF PersistInv
<1>1. /\ cmds' = <<>> /\ writer_pc' = "recv" /\ flushing' = FALSE
      /\ dirty_seq' = 0 /\ durable_seq' = 0 /\ waiters' = {} /\ image' = 0
      /\ answers' = [c \in Callers |-> "none"] /\ disk' = disk
      /\ mem' = disk /\ recorded' = disk /\ task' = [c \in Callers |-> Idle]
      /\ UNCHANGED <<acked, failures>> /\ crashes' = crashes + 1
  BY Zenon DEF Restart, Restarted
<1>2. task' \in [Callers -> TaskRecords]
  BY Zenon, <1>1 DEF Idle, TaskRecords
<1>3. answers' \in [Callers -> Answers] /\ writer_pc' \in WriterSteps
  BY Zenon, <1>1 DEF Answers, WriterSteps
<1>4. cmds' \in Seq(Commands) /\ DOMAIN cmds' = {} /\ waiters' \subseteq [seq : Nat, from : Callers]
  BY <1>1
<1>5. TypeOK'
  <2>1. /\ disk \in Nat /\ acked \in Nat /\ failures \in Nat /\ crashes + 1 \in Nat
    BY <1>0 DEF TypeOK
  <2>2. /\ disk' \in Nat /\ mem' \in Nat /\ recorded' \in Nat /\ acked' \in Nat
        /\ failures' \in Nat /\ crashes' \in Nat
        /\ dirty_seq' \in Nat /\ durable_seq' \in Nat /\ image' \in Nat /\ flushing' \in BOOLEAN
    BY Zenon, <1>1, <2>1
  <2> QED BY Zenon, <1>2, <1>3, <1>4, <2>2 DEF TypeOK, TaskRecords
<1>6. Places'
  BY Zenon, <1>1, <1>4 DEF Places
<1> QED BY <1>0, <1>1, <1>5, <1>6
        DEF PersistInv, Bounds, UnderWay, OkIsDurable, SettledIsDurable, TypeOK, Idle

\* Every step of the tasks, the writer and the process.
LEMMA PersistNext == PersistInv /\ [Next]_vars => PersistInv'
<1> SUFFICES ASSUME PersistInv, [Next]_vars PROVE PersistInv'
  BY Zenon
<1>1. ASSUME NEW c \in Callers, TaskStep(c) PROVE PersistInv'
  BY Zenon, <1>1, RecordKeeps, RecordTerminalKeeps, AnsweredKeeps DEF TaskStep
<1>2. ASSUME NEW c \in Callers, Change(c, "mutation") \/ Change(c, "terminal") PROVE PersistInv'
  BY Zenon, <1>2, ChangeKeeps
<1>3. CASE WriterStep
  BY Zenon, <1>3, ReceiveTerminalKeeps, ReceiveFlushKeeps, DebounceKeeps, ReceiveMutateKeeps,
     CaptureKeeps, PersistKeeps DEF WriterStep, BeginPersist
<1>4. CASE Shutdown \/ Restart
  BY Zenon, <1>4, ShutdownKeeps, RestartKeeps
<1>5. CASE UNCHANGED vars
  BY <1>5 DEF vars, PersistInv, TypeOK, Bounds, Places, Queued, UnderWay, OkIsDurable,
              SettledIsDurable, Settled
<1> QED BY Zenon, <1>1, <1>2, <1>3, <1>4, <1>5 DEF Next

\* A leave or an end that its task saw succeed is in the state file and stays
\* there, through failed writes, a flush at shutdown and any number of crashes.
THEOREM AckedIsDurableThm == Spec => []AckedIsDurable
BY PersistInit, PersistNext, PersistProperties, PTL DEF Spec

\* When the writer is at rest, every change announced with record_mutation is in
\* the state file: the generation counters never mistake a write that began
\* before the announcement, or one that failed, for its write.
THEOREM SettledIsDurableThm == Spec => []SettledIsDurable
BY PersistInit, PersistNext, PersistProperties, PTL DEF Spec

\* Between two iterations of the writer, a caller that still waits for an answer
\* has its command in the queue: resolve_waiters leaves nobody behind, and a
\* writer that returns leaves nobody waiting.
THEOREM NoForgottenWaiterThm == Spec => []NoForgottenWaiter
BY PersistInit, PersistNext, PersistProperties, PTL DEF Spec
-----------------------------------------------------------------------------
(* The address of a client *)

IpTypeOK ==
  /\ peer \in IpAddrs
  /\ setting \in Settings /\ trusted_proxies = ParseTrusted(setting)
  /\ forwarded_for \in Seq(Values)
  /\ pc \in {"start", "measure", "walk", "done"}
  /\ v \in Nat /\ e \in Nat
  /\ selected \in IpAddrs /\ use_forwarded_hop \in BOOLEAN

Here == <<v, e>>

\* p is the hop the walk has come to rest at, or the last one it went through.
Reached(p, from, use, sel) ==
  /\ Nearer(p, from) \/ p = from
  /\ ElementAt(p) # Malformed /\ sel = unmap(ElementAt(p))
  /\ \A q \in Positions : Nearer(q, p) => Covered(ElementAt(q))
  /\ use => p = from
  /\ ~use => ~Covered(ElementAt(p))

\* The position the walk has just dealt with when it stands at Here.
Before(p) == /\ Nearer(p, Here)
             /\ \A q \in Positions : Nearer(q, Here) => q = p \/ Nearer(q, p)

\* The walk has dealt with exactly the positions nearer than Here.
WalkInv ==
  /\ Consulted /\ Here \in Positions
  /\ \/ /\ \A q \in Positions : ~Nearer(q, Here)
        /\ selected = unmap(peer) /\ use_forwarded_hop
     \/ \E b, p \in Positions : Before(b) /\ Reached(p, b, use_forwarded_hop, selected)

IpInv ==
  /\ IpTypeOK
  /\ pc = "start" => v = 1
  /\ pc \in {"start", "measure"} => selected = unmap(peer) /\ use_forwarded_hop
  /\ pc = "measure" => Consulted /\ v \in DOMAIN forwarded_for
  /\ pc = "walk" => WalkInv
  /\ pc # "done" => result = Pending
  /\ ResolvesNearest

\* unmap and normalize give addresses, and unmapping twice changes nothing.
LEMMA Unmapped ==
  ASSUME NEW a \in IpAddrs
  PROVE  unmap(a) \in IpAddrs /\ unmap(unmap(a)) = unmap(a)
BY Zenon DEF unmap, IpAddrs

\* resolve trusts an address exactly when the operator's setting covers it.
LEMMA TrustedIsCovered ==
  ASSUME IpTypeOK, NEW a \in IpAddrs
  PROVE  trusted(unmap(a)) <=> Covered(a)
BY Zenon, Unmapped DEF IpTypeOK, trusted, Covered, ParseTrusted

\* What a position of the forwarded chain is.
LEMMA PositionIff ==
  ASSUME NEW i, NEW j
  PROVE  <<i, j>> \in Positions <=> i \in DOMAIN forwarded_for
                                    /\ j \in DOMAIN forwarded_for[i].elements
<1>1. \A k, l : <<i, j>> = <<k, l>> => i = k /\ j = l
  BY Zenon
<1>2. <<i, j>> \in Positions <=>
        \E k \in DOMAIN forwarded_for :
          <<i, j>> \in {<<k, l>> : l \in DOMAIN forwarded_for[k].elements}
  BY Zenon DEF Positions
<1>3. \A k : <<i, j>> \in {<<k, l>> : l \in DOMAIN forwarded_for[k].elements}
              <=> \E l \in DOMAIN forwarded_for[k].elements : <<i, j>> = <<k, l>>
  BY Zenon
<1> QED BY Zenon, <1>1, <1>2, <1>3

\* Positions are pairs of numbers, and what stands there is an element.
LEMMA PositionType ==
  ASSUME IpTypeOK, NEW p \in Positions
  PROVE  /\ p = <<p[1], p[2]>>
         /\ p[1] \in 1 .. Len(forwarded_for) /\ forwarded_for[p[1]] \in Values
         /\ p[2] \in 1 .. Len(forwarded_for[p[1]].elements)
         /\ ElementAt(p) \in Elements
<1>0. PICK i \in DOMAIN forwarded_for : p \in {<<i, j>> : j \in DOMAIN forwarded_for[i].elements}
  BY Zenon DEF Positions
<1>1. PICK j \in DOMAIN forwarded_for[i].elements : p = <<i, j>>
  BY Zenon, <1>0
<1>2. forwarded_for[i] \in Values /\ i \in 1 .. Len(forwarded_for)
  BY Zenon, SeqElement DEF IpTypeOK
<1>3. forwarded_for[i].elements \in Seq(Elements)
  BY ZenonT(30), <1>2 DEF Values
<1>4. j \in 1 .. Len(forwarded_for[i].elements) /\ forwarded_for[i].elements[j] \in Elements
  BY Zenon, <1>3, SeqElement
<1> QED BY Zenon, <1>1, <1>2, <1>4 DEF ElementAt

\* Every value has a last element.
LEMMA LastElement ==
  ASSUME IpTypeOK, NEW i \in 1 .. Len(forwarded_for)
  PROVE  /\ Len(forwarded_for[i].elements) \in Nat \ {0}
         /\ <<i, Len(forwarded_for[i].elements)>> \in Positions
<1>1. forwarded_for[i] \in Values
  BY DEF IpTypeOK
<1>2. forwarded_for[i].elements \in Seq(Elements) /\ forwarded_for[i].elements # <<>>
  BY ZenonT(30), <1>1 DEF Values
<1>3. /\ Len(forwarded_for[i].elements) \in Nat \ {0}
      /\ Len(forwarded_for[i].elements) \in DOMAIN forwarded_for[i].elements
  BY Zenon, <1>2, SeqLast
<1>4. i \in DOMAIN forwarded_for
  BY DEF IpTypeOK
<1> QED BY Zenon, <1>3, <1>4, PositionIff

\* resolve starts with nothing dealt with.
LEMMA IpInvInit == IpInit => IpInv
<1> SUFFICES ASSUME IpInit PROVE IpInv
  BY Zenon
<1>1. IpTypeOK
  BY Zenon, ClientIpConstants, Unmapped DEF IpInit, IpTypeOK
<1>2. result \notin IpAddrs
  BY Zenon, ClientIpConstants DEF IpInit
<1> QED BY Zenon, <1>1, <1>2 DEF IpInit, IpInv, ResolvesNearest

\* The inputs stay, and with them what the properties say of them.
LEMMA Frame ==
  ASSUME UNCHANGED inputs
  PROVE  /\ Positions' = Positions
         /\ \A p : ElementAt(p)' = ElementAt(p)
         /\ \A a : Covered(a)' <=> Covered(a)
         /\ Consulted' <=> Consulted
BY DEF inputs, Positions, ElementAt, Covered, Consulted

\* Nearer to the relay is a transitive relation on positions.
LEMMA NearerTransitive ==
  ASSUME IpTypeOK, NEW p \in Positions, NEW q \in Positions, NEW r \in Positions,
         Nearer(p, q), Nearer(q, r)
  PROVE  Nearer(p, r)
BY PositionType DEF Nearer

\* StepLeft goes to the next position away from the relay, and skips none.
LEMMA LeftIsNext ==
  ASSUME IpTypeOK, Here \in Positions, StepLeft
  PROVE  /\ v' \in Nat /\ e' \in Nat /\ <<v', e'>> \in Positions
         /\ Nearer(Here, <<v', e'>>)
         /\ \A q \in Positions : Nearer(q, <<v', e'>>) => q = Here \/ Nearer(q, Here)
<1>1. /\ v \in 1 .. Len(forwarded_for) /\ v \in Nat /\ e \in Nat
      /\ e \in 1 .. Len(forwarded_for[v].elements)
      /\ DOMAIN forwarded_for = 1 .. Len(forwarded_for)
  BY PositionType DEF Here, IpTypeOK
<1>2. CASE e > 1
  <2>1. v' = v /\ e' = e - 1
    BY Zenon, <1>2 DEF StepLeft
  <2>2. <<v', e'>> \in Positions
    <3>1. DOMAIN forwarded_for[v].elements = 1 .. Len(forwarded_for[v].elements)
      BY <1>1 DEF IpTypeOK, Values
    <3> QED BY <1>1, <1>2, <2>1, <3>1, PositionIff
  <2>3. ASSUME NEW q \in Positions, Nearer(q, <<v', e'>>) PROVE q = Here \/ Nearer(q, Here)
    BY <1>1, <1>2, <2>1, <2>3, PositionType DEF Nearer, Here
  <2> QED BY <1>1, <1>2, <2>1, <2>2, <2>3 DEF Nearer, Here
<1>3. CASE ~(e > 1)
  <2>1. v > 1 /\ v' = v - 1 /\ e' = Len(forwarded_for[v - 1].elements) /\ e = 1
    BY <1>1, <1>3 DEF StepLeft
  <2>2. v - 1 \in 1 .. Len(forwarded_for)
    BY <1>1, <2>1
  <2>3. <<v', e'>> \in Positions /\ e' \in Nat
    BY Zenon, <2>1, <2>2, LastElement
  <2>4. ASSUME NEW q \in Positions, Nearer(q, <<v', e'>>) PROVE q = Here \/ Nearer(q, Here)
    <3>1. q = <<q[1], q[2]>> /\ q[1] \in Nat /\ q[2] \in Nat /\ q[2] >= 1
          /\ q[2] <= Len(forwarded_for[q[1]].elements)
          /\ Len(forwarded_for[q[1]].elements) \in Nat
      BY PositionType, LastElement
    <3>2. q[1] # v - 1
      BY <2>1, <2>3, <2>4, <3>1 DEF Nearer
    <3> QED BY <1>1, <2>1, <2>4, <3>1, <3>2 DEF Nearer, Here
  <2> QED BY <1>1, <2>1, <2>3, <2>4 DEF Nearer, Here
<1> QED BY Zenon, <1>2, <1>3

\* The body of the walk's loop: afterwards the walk has come through Here.
LEMMA HopReaches ==
  ASSUME IpTypeOK, WalkInv, ElementAt(Here) # Malformed, Hop(ElementAt(Here))
  PROVE  /\ selected' \in IpAddrs /\ use_forwarded_hop' \in BOOLEAN
         /\ \E p \in Positions : Reached(p, Here, use_forwarded_hop', selected')
<1>1. Here \in Positions /\ ElementAt(Here) \in IpAddrs /\ Consulted
  BY Zenon, PositionType DEF WalkInv, Elements
<1>2. selected' \in IpAddrs /\ use_forwarded_hop' \in BOOLEAN
  BY Zenon, <1>1, Unmapped DEF Hop, IpTypeOK
<1>3. CASE /\ \A q \in Positions : ~Nearer(q, Here)
           /\ selected = unmap(peer) /\ use_forwarded_hop
  <2>1. trusted(selected)
    BY Zenon, <1>1, <1>3, TrustedIsCovered DEF Consulted, IpTypeOK
  <2>2. selected' = unmap(ElementAt(Here)) /\ use_forwarded_hop' = TRUE
    BY Zenon, <1>3, <2>1 DEF Hop, IpTypeOK
  <2> QED BY Zenon, <1>1, <1>2, <1>3, <2>2 DEF Reached
<1>4. ASSUME NEW b \in Positions, NEW p \in Positions, Before(b),
             Reached(p, b, use_forwarded_hop, selected)
      PROVE  \E r \in Positions : Reached(r, Here, use_forwarded_hop', selected')
  <2>1. ElementAt(p) \in IpAddrs
    BY Zenon, <1>4, PositionType DEF Reached, Elements
  <2>2. trusted(selected) <=> Covered(ElementAt(p))
    BY Zenon, <1>4, <2>1, TrustedIsCovered DEF Reached
  <2>3. Nearer(p, Here)
    BY Zenon, <1>1, <1>4, NearerTransitive DEF Reached, Before
  <2>4. CASE use_forwarded_hop /\ trusted(selected)
    <3>1. selected' = unmap(ElementAt(Here)) /\ use_forwarded_hop' = TRUE
      BY Zenon, <2>4 DEF Hop, IpTypeOK
    <3>2. \A q \in Positions : Nearer(q, Here) => Covered(ElementAt(q))
      BY Zenon, <1>4, <2>2, <2>4 DEF Before, Reached
    <3> QED BY Zenon, <1>1, <3>1, <3>2 DEF Reached
  <2>5. CASE ~(use_forwarded_hop /\ trusted(selected))
    <3>1. selected' = selected /\ use_forwarded_hop' = FALSE
      BY Zenon, <2>5 DEF Hop
    <3>2. ~Covered(ElementAt(p))
      BY Zenon, <1>4, <2>2, <2>5 DEF Reached, IpTypeOK
    <3> QED BY Zenon, <1>4, <2>3, <3>1, <3>2 DEF Reached
  <2> QED BY Zenon, <2>4, <2>5
<1> QED BY Zenon, <1>2, <1>3, <1>4 DEF WalkInv

\* Every iteration of the loops of resolve.
LEMMA IpInvNext == IpInv /\ [IpNext]_ipVars => IpInv'
<1> SUFFICES ASSUME IpInv, [IpNext]_ipVars PROVE IpInv'
  BY Zenon
<1>0. IpTypeOK
  BY Zenon DEF IpInv
<1>1. CASE Start
  <2>1. UNCHANGED inputs /\ UNCHANGED <<v, e, selected, use_forwarded_hop>> /\ pc = "start"
    BY Zenon, <1>1 DEF Start
  <2>2. trusted(unmap(peer)) <=> Covered(peer)
    BY Zenon, <1>0, TrustedIsCovered DEF IpTypeOK
  <2>3. CASE ~trusted(unmap(peer)) \/ forwarded_for = <<>>
    <3>1. pc' = "done" /\ result' = normalize(unmap(peer)) /\ ~Consulted
      BY Zenon, <1>1, <2>2, <2>3 DEF Start, Return, Consulted
    <3>2. IpTypeOK'
      BY Zenon, <1>0, <2>1, <3>1 DEF IpTypeOK, inputs
    <3>3. ResolvesNearest'
      BY Zenon, <2>1, <3>1, Frame DEF ResolvesNearest, inputs
    <3> QED BY Zenon, <3>1, <3>2, <3>3 DEF IpInv
  <2>4. CASE ~(~trusted(unmap(peer)) \/ forwarded_for = <<>>)
    <3>1. pc' = "measure" /\ result' = result /\ Consulted
      BY Zenon, <1>1, <2>2, <2>4 DEF Start, Consulted
    <3>2. IpTypeOK'
      BY Zenon, <1>0, <2>1, <3>1 DEF IpTypeOK, inputs
    <3>3. result' = Pending /\ Pending \notin IpAddrs
      BY Zenon, <2>1, <3>1, ClientIpConstants DEF IpInv
    <3>4. Consulted' /\ v' \in DOMAIN forwarded_for'
      <4>1. v = 1
        BY Zenon, <2>1 DEF IpInv
      <4> QED BY <1>0, <2>1, <2>4, <3>1, <4>1, Frame DEF IpTypeOK, inputs
    <3> QED BY Zenon, <2>1, <3>1, <3>2, <3>3, <3>4 DEF IpInv, ResolvesNearest, inputs
  <2> QED BY Zenon, <2>3, <2>4
<1>2. CASE Measure
  <2>1. /\ UNCHANGED inputs /\ UNCHANGED <<selected, use_forwarded_hop>>
        /\ Consulted /\ v \in DOMAIN forwarded_for
        /\ selected = unmap(peer) /\ use_forwarded_hop /\ pc = "measure"
        /\ result = Pending
    BY Zenon, <1>2 DEF Measure, IpInv
  <2>2. Error \notin IpAddrs /\ Pending \notin IpAddrs
    BY Zenon, ClientIpConstants
  <2>3. CASE pc' = "done" /\ result' = Error /\ UNCHANGED <<v, e>>
    BY Zenon, <1>0, <2>1, <2>2, <2>3 DEF IpInv, IpTypeOK, ResolvesNearest, inputs
  <2>4. CASE v < Len(forwarded_for) /\ v' = v + 1 /\ UNCHANGED <<pc, e, result>>
    <3>1. IpTypeOK' /\ v' \in DOMAIN forwarded_for'
      BY <1>0, <2>1, <2>4 DEF IpTypeOK, inputs
    <3> QED BY Zenon, <2>1, <2>2, <2>4, <3>1, Frame DEF IpInv, ResolvesNearest, inputs
  <2>5. CASE /\ ~(v < Len(forwarded_for)) /\ pc' = "walk"
             /\ e' = Len(forwarded_for[v].elements) /\ UNCHANGED <<v, result>>
    <3>1. v = Len(forwarded_for) /\ v \in 1 .. Len(forwarded_for)
      BY <1>0, <2>1, <2>5 DEF IpTypeOK
    <3>2. e' \in Nat /\ <<v, e'>> \in Positions
      BY Zenon, <1>0, <2>5, <3>1, LastElement
    <3>3. IpTypeOK'
      BY Zenon, <1>0, <2>1, <2>5, <3>2 DEF IpTypeOK, inputs
    <3>4. ASSUME NEW q \in Positions PROVE ~Nearer(q, <<v, e'>>)
      BY <1>0, <2>5, <3>1, <3>2, PositionType DEF Nearer
    <3>5. WalkInv'
      <4>1. Here' = <<v, e'>>
        BY Zenon, <2>5 DEF Here
      <4>2. \A q \in Positions' : ~Nearer(q, Here')
        BY Zenon, <2>1, <3>4, <4>1, Frame
      <4>3. (\A q \in Positions : ~Nearer(q, Here))'
        BY Zenon, <4>2 DEF Nearer
      <4> QED BY Zenon, <2>1, <3>2, <4>1, <4>3, Frame DEF WalkInv, inputs
    <3> QED BY Zenon, <2>1, <2>2, <2>5, <3>3, <3>5 DEF IpInv, ResolvesNearest
  <2> QED BY Zenon, <1>2, <2>3, <2>4, <2>5 DEF Measure, Return
<1>3. CASE Walk
  <2>1. UNCHANGED inputs /\ pc = "walk" /\ WalkInv /\ result = Pending
    BY Zenon, <1>3 DEF Walk, IpInv
  <2>2. Error \notin IpAddrs /\ Pending \notin IpAddrs
    BY Zenon, ClientIpConstants
  <2>3. CASE pc' = "done" /\ result' = Error /\ UNCHANGED <<v, e, selected, use_forwarded_hop>>
    BY Zenon, <1>0, <2>1, <2>2, <2>3 DEF IpInv, IpTypeOK, ResolvesNearest, inputs
  <2>4. CASE ElementAt(Here) # Malformed /\ Hop(ElementAt(Here))
    <3>1. /\ Here \in Positions /\ Consulted
          /\ selected' \in IpAddrs /\ use_forwarded_hop' \in BOOLEAN
      BY Zenon, <1>0, <2>1, <2>4, HopReaches DEF WalkInv
    <3>2. PICK p \in Positions : Reached(p, Here, use_forwarded_hop', selected')
      BY Zenon, <1>0, <2>1, <2>4, HopReaches
    <3>3. CASE AtFirst /\ pc' = "done" /\ result' = normalize(selected') /\ UNCHANGED <<v, e>>
      <4>1. IpTypeOK'
        BY Zenon, <1>0, <2>1, <3>1, <3>3 DEF IpTypeOK, inputs
      <4>2. ASSUME NEW q \in Positions PROVE ~Nearer(Here, q)
        BY <1>0, <3>3, PositionType DEF Nearer, Here, AtFirst
      <4>3. IsClient(p)
        BY Zenon, <3>1, <3>2, <4>2 DEF Reached, IsClient
      <4>4. IsClient(p)'
        BY Zenon, <2>1, <4>3, Frame DEF IsClient, Nearer
      <4>5. ResolvesNearest'
        BY Zenon, <2>1, <3>1, <3>2, <3>3, <4>4, Frame DEF ResolvesNearest, Reached
      <4> QED BY Zenon, <3>3, <4>1, <4>5 DEF IpInv
    <3>4. CASE StepLeft /\ UNCHANGED <<pc, result>>
      <4>1. /\ v' \in Nat /\ e' \in Nat /\ <<v', e'>> \in Positions
            /\ Nearer(Here, <<v', e'>>)
            /\ \A q \in Positions : Nearer(q, <<v', e'>>) => q = Here \/ Nearer(q, Here)
        BY Zenon, <1>0, <3>1, <3>4, LeftIsNext
      <4>2. IpTypeOK'
        BY Zenon, <1>0, <2>1, <3>1, <3>4, <4>1 DEF IpTypeOK, inputs
      <4> DEFINE h == Here
      <4>3. Here' = <<v', e'>>
        BY Zenon DEF Here
      <4>4. h \in Positions /\ \E r \in Positions : Reached(r, h, use_forwarded_hop', selected')
            /\ Nearer(h, Here')
            /\ \A q \in Positions : Nearer(q, Here') => q = h \/ Nearer(q, h)
        BY Zenon, <3>1, <3>2, <4>1, <4>3
      <4> HIDE DEF h
      <4>5. WalkInv'
        <5>1. PICK r \in Positions : Reached(r, h, use_forwarded_hop', selected')
          BY Zenon, <4>4
        <5>2. Positions' = Positions /\ Consulted' /\ Here' \in Positions'
          <6>1. UNCHANGED inputs /\ Consulted
            BY Zenon, <2>1 DEF WalkInv
          <6> QED BY Zenon, <4>1, <4>3, <6>1, Frame
        <5>3. h \in Positions' /\ r \in Positions' /\ Nearer(h, Here')
              /\ \A q \in Positions' : Nearer(q, Here') => q = h \/ Nearer(q, h)
          BY Zenon, <4>4, <5>1, <5>2
        <5>4. /\ Nearer(r, h) \/ r = h
              /\ ElementAt(r)' # Malformed /\ selected' = unmap(ElementAt(r)')
              /\ \A q \in Positions' : Nearer(q, r) => Covered(ElementAt(q))'
              /\ use_forwarded_hop' => r = h
              /\ ~use_forwarded_hop' => ~Covered(ElementAt(r))'
          <6>1. UNCHANGED inputs
            BY Zenon, <2>1
          <6> QED BY Zenon, <5>1, <6>1, Frame DEF Reached
        <5> QED BY Zenon, <5>2, <5>3, <5>4 DEF WalkInv, Before, Reached
      <4> QED BY Zenon, <2>1, <2>2, <3>4, <4>2, <4>5 DEF IpInv, ResolvesNearest
    <3> QED BY Zenon, <1>3, <2>4, <3>3, <3>4 DEF Walk, Return, ElementAt, Here
  <2>5. ElementAt(Here) = forwarded_for[v].elements[e]
    BY Zenon DEF ElementAt, Here
  <2>6. \/ pc' = "done" /\ result' = Error /\ UNCHANGED <<v, e, selected, use_forwarded_hop>>
        \/ ElementAt(Here) # Malformed /\ Hop(ElementAt(Here))
    BY Zenon, <1>3, <2>5 DEF Walk, Return
  <2> QED BY Zenon, <2>3, <2>4, <2>6
<1>4. CASE UNCHANGED ipVars
  <2>1. UNCHANGED inputs /\ UNCHANGED <<pc, v, e, selected, use_forwarded_hop, result>>
    BY Zenon, <1>4 DEF ipVars, inputs
  <2>2. peer' = peer /\ forwarded_for' = forwarded_for
    BY Zenon, <2>1 DEF inputs
  <2>3. IpTypeOK'
    BY Zenon, <1>0, <2>1 DEF IpTypeOK, inputs
  <2>4. WalkInv => WalkInv'
    <3>1. Here' = Here /\ selected' = selected /\ use_forwarded_hop' = use_forwarded_hop
      BY Zenon, <2>1 DEF Here
    <3>2. /\ Positions' = Positions /\ \A q : ElementAt(q)' = ElementAt(q)
          /\ \A a : Covered(a)' <=> Covered(a)
          /\ Consulted' <=> Consulted
      BY Zenon, <2>1, Frame
    <3>3. CASE (\A q \in Positions : ~Nearer(q, Here)) /\ selected = unmap(peer) /\ use_forwarded_hop
      BY Zenon, <2>2, <3>1, <3>2, <3>3 DEF WalkInv
    <3>4. ASSUME NEW b \in Positions, NEW p \in Positions,
                 Before(b), Reached(p, b, use_forwarded_hop, selected), WalkInv
          PROVE  WalkInv'
      <4>1. b \in Positions' /\ p \in Positions' /\ Consulted' /\ Here' \in Positions'
        BY Zenon, <3>1, <3>2, <3>4 DEF WalkInv
      <4>2. Nearer(b, Here') /\ \A q \in Positions' : Nearer(q, Here') => q = b \/ Nearer(q, b)
        BY Zenon, <3>1, <3>2, <3>4 DEF Before
      <4>3. /\ Nearer(p, b) \/ p = b
            /\ ElementAt(p)' # Malformed /\ selected' = unmap(ElementAt(p)')
            /\ \A q \in Positions' : Nearer(q, p) => Covered(ElementAt(q))'
            /\ use_forwarded_hop' => p = b
            /\ ~use_forwarded_hop' => ~Covered(ElementAt(p))'
        BY Zenon, <3>1, <3>2, <3>4 DEF Reached
      <4> QED BY Zenon, <4>1, <4>2, <4>3 DEF WalkInv, Before, Reached
    <3> QED BY Zenon, <3>3, <3>4 DEF WalkInv
  <2>5. ResolvesNearest'
    <3>1. ResolvesNearest /\ result' = result
      BY Zenon, <2>1 DEF IpInv
    <3> QED BY Zenon, <2>1, <2>2, <3>1, Frame DEF ResolvesNearest, IsClient
  <2> QED BY Zenon, <2>1, <2>2, <2>3, <2>4, <2>5, Frame DEF IpInv
<1> QED BY Zenon, <1>1, <1>2, <1>3, <1>4 DEF IpNext

\* An address that resolve answers with is the peer's when no proxy of ours is
\* involved, and otherwise that of the hop nearest to the relay that the setting
\* does not cover, for headers of any shape and length.
THEOREM ResolvesNearestThm == IpSpec => []ResolvesNearest
<1>1. IpInv => ResolvesNearest
  BY Zenon DEF IpInv
<1> QED BY IpInvInit, IpInvNext, <1>1, PTL DEF IpSpec
-----------------------------------------------------------------------------
(* The message limiter *)

\* From every message let through to the last refill, what was let through and
\* what is left in the bucket came from the burst and the refills since.
Spent ==
  \A i \in DOMAIN granted :
    /\ granted[i] <= last_refill
    /\ (Len(granted) - i + 1) * TICKS + tokens
         <= BURST * TICKS + (last_refill - granted[i]) * SUSTAINED

\* Since the last message let through, the bucket has all of what was refilled,
\* up to its capacity.
Saved ==
  /\ granted = <<>> => tokens = BURST * TICKS
  /\ granted # <<>> =>
       \/ tokens = BURST * TICKS
       \/ tokens >= (last_refill - granted[Len(granted)]) * SUSTAINED

\* The inductive invariant of the limiter.
BucketInv == BucketTypeOK /\ Spent /\ Saved /\ RateBounded

\* The burst is worth at least one message.
LEMMA BurstHoldsOne ==
  /\ BURST * TICKS \in Nat /\ BURST * TICKS >= TICKS
  /\ TICKS > 0
<1>1. \A b, t \in Nat \ {0} : b * t \in Nat /\ b * t >= t
  OBVIOUS
<1> QED BY <1>1, BucketConstants

\* What refill(now) leaves in the bucket.
LEMMA Refilled ==
  ASSUME BucketTypeOK
  PROVE  /\ (instant - last_refill) * SUSTAINED \in Nat
         /\ Refill(instant) \in 0 .. BURST * TICKS
         /\ Refill(instant) <= tokens + (instant - last_refill) * SUSTAINED
         /\ \/ Refill(instant) = BURST * TICKS
            \/ Refill(instant) = tokens + (instant - last_refill) * SUSTAINED
<1>1. instant - last_refill \in Nat /\ SUSTAINED \in Nat /\ ~(instant < last_refill)
  BY BucketConstants DEF BucketTypeOK
<1>2. (instant - last_refill) * SUSTAINED \in Nat
  BY <1>1
<1> QED BY <1>1, <1>2, BurstHoldsOne DEF Refill, AtMost, BucketTypeOK

\* The time since a message let through is the time to the last refill and the
\* time from it on.
LEMMA Since ==
  ASSUME BucketTypeOK, NEW g \in Nat, g <= last_refill
  PROVE  /\ (last_refill - g) * SUSTAINED \in Nat
         /\ (instant - g) * SUSTAINED = (last_refill - g) * SUSTAINED + (instant - last_refill) * SUSTAINED
<1>1. \A a, b, s \in Nat : (a + b) * s = a * s + b * s /\ a * s \in Nat
  OBVIOUS
<1>2. last_refill - g \in Nat /\ instant - last_refill \in Nat /\ SUSTAINED \in Nat
      /\ instant - g = (last_refill - g) + (instant - last_refill)
  BY BucketConstants DEF BucketTypeOK
<1> QED BY <1>1, <1>2

\* A new bucket is full and has let nothing through (TokenBucket::new).
LEMMA BucketInvInit == BucketInit => BucketInv
BY BurstHoldsOne, BucketConstants
   DEF BucketInit, BucketInv, BucketTypeOK, Spent, Saved, RateBounded

\* (n - i + 1) messages cost a token more when there is one more of them.
LEMMA OneMore ==
  ASSUME NEW n \in Nat, NEW i \in Nat, i <= n
  PROVE  /\ (n - i + 1) * TICKS \in Nat
         /\ ((n + 1) - i + 1) * TICKS = (n - i + 1) * TICKS + TICKS
<1>1. \A k, t \in Nat : (k + 1) * t = k * t + t /\ k * t \in Nat
  OBVIOUS
<1>2. n - i + 1 \in Nat /\ (n + 1) - i + 1 = (n - i + 1) + 1 /\ TICKS \in Nat
  BY BucketConstants
<1> QED BY Zenon, <1>1, <1>2

\* Time, a message let through and a message throttled keep the accounts: what
\* was spent, what was saved, and the rate.
LEMMA BucketInvNext == BucketInv /\ [BucketNext]_bucketVars => BucketInv'
<1> SUFFICES ASSUME BucketInv, [BucketNext]_bucketVars PROVE BucketInv'
  BY Zenon
<1>0. BucketTypeOK /\ Spent /\ Saved /\ RateBounded
  BY Zenon DEF BucketInv
<1> DEFINE n == Len(granted)
<1>a. n \in Nat /\ DOMAIN granted = 1 .. n /\ \A i \in 1 .. n : granted[i] \in Nat
  BY <1>0 DEF BucketTypeOK
<1>1. CASE Elapse
  <2>1. BucketTypeOK'
    BY <1>0, <1>1 DEF BucketTypeOK, Elapse
  <2> QED BY Zenon, <1>0, <1>1, <2>1 DEF BucketInv, Elapse, Spent, Saved, RateBounded
<1>2. CASE Throttle
  <2>1. last_refill' = instant /\ tokens' = Refill(instant) /\ granted' = granted /\ instant' = instant
    BY <1>0, <1>2 DEF BucketTypeOK, Throttle
  <2>2. BucketTypeOK'
    BY <1>0, <2>1, Refilled DEF BucketTypeOK
  <2>3. ASSUME NEW i \in DOMAIN granted
        PROVE  /\ granted[i] <= instant
               /\ (n - i + 1) * TICKS + Refill(instant)
                    <= BURST * TICKS + (instant - granted[i]) * SUSTAINED
    <3>1. granted[i] \in Nat /\ i \in Nat /\ i <= n /\ granted[i] <= last_refill
          /\ (n - i + 1) * TICKS + tokens
               <= BURST * TICKS + (last_refill - granted[i]) * SUSTAINED
      BY <1>0, <1>a DEF Spent
    <3>2. tokens \in Nat /\ Refill(instant) \in Nat /\ BURST * TICKS \in Nat /\ granted[i] <= instant
      BY <1>0, <3>1, Refilled, BurstHoldsOne DEF BucketTypeOK
    <3>3. /\ (last_refill - granted[i]) * SUSTAINED \in Nat /\ (instant - last_refill) * SUSTAINED \in Nat
          /\ (instant - granted[i]) * SUSTAINED
               = (last_refill - granted[i]) * SUSTAINED + (instant - last_refill) * SUSTAINED
          /\ Refill(instant) <= tokens + (instant - last_refill) * SUSTAINED
      BY Zenon, <1>0, <3>1, Since, Refilled
    <3>4. (n - i + 1) * TICKS \in Nat
      BY Zenon, <1>a, <3>1, OneMore
    <3> HIDE DEF n
    <3> QED BY <3>1, <3>2, <3>3, <3>4
  <2>4. Spent'
    BY Zenon, <2>1, <2>3 DEF Spent
  <2>5. Saved'
    <3>1. CASE granted = <<>>
      BY <1>0, <2>1, <3>1, Refilled, BurstHoldsOne DEF Saved, BucketTypeOK
    <3>2. CASE granted # <<>>
      <4> DEFINE g == granted[n]
      <4>1. n \in DOMAIN granted /\ g \in Nat /\ g <= last_refill
        BY <1>0, <1>a, <3>2 DEF BucketTypeOK, Spent
      <4>2. (instant - g) * SUSTAINED = (last_refill - g) * SUSTAINED + (instant - last_refill) * SUSTAINED
            /\ (last_refill - g) * SUSTAINED \in Nat /\ (instant - last_refill) * SUSTAINED \in Nat
        BY Zenon, <1>0, <4>1, Since, Refilled
      <4>3. tokens = BURST * TICKS \/ tokens >= (last_refill - g) * SUSTAINED
        BY Zenon, <1>0, <3>2 DEF Saved
      <4> HIDE DEF g
      <4>4. Refill(instant) = BURST * TICKS \/ Refill(instant) >= (instant - g) * SUSTAINED
        BY <1>0, <4>2, <4>3, Refilled, BurstHoldsOne DEF BucketTypeOK
      <4> QED BY Zenon, <2>1, <3>2, <4>4 DEF Saved, g
    <3> QED BY Zenon, <3>1, <3>2
  <2> QED BY Zenon, <1>0, <2>1, <2>2, <2>4, <2>5 DEF BucketInv, RateBounded
<1>3. CASE Allow
  <2>1. /\ last_refill' = instant /\ tokens' = Refill(instant) - TICKS /\ Refill(instant) >= TICKS
        /\ granted' = Append(granted, instant) /\ instant' = instant
    BY <1>0, <1>3 DEF BucketTypeOK, Allow
  <2>2. BucketTypeOK'
    BY <1>0, <2>1, Refilled, BurstHoldsOne, BucketConstants DEF BucketTypeOK
  <2>3. /\ Len(granted') = n + 1 /\ DOMAIN granted' = 1 .. (n + 1)
        /\ granted'[n + 1] = instant /\ \A i \in 1 .. n : granted'[i] = granted[i]
    BY <1>0, <1>a, <2>1 DEF BucketTypeOK
  <2>4. ASSUME NEW i \in 1 .. (n + 1)
        PROVE  /\ granted'[i] <= instant
               /\ ((n + 1) - i + 1) * TICKS + tokens'
                    <= BURST * TICKS + (instant - granted'[i]) * SUSTAINED
    <3>1. CASE i = n + 1
      <4>1. ((n + 1) - i + 1) * TICKS = TICKS /\ instant - granted'[i] = 0
        BY <1>0, <1>a, <2>3, <3>1, BucketConstants DEF BucketTypeOK
      <4>2. (instant - granted'[i]) * SUSTAINED = 0
        BY <4>1, BucketConstants
      <4> QED BY <1>0, <2>1, <2>3, <3>1, <4>1, <4>2, Refilled, BurstHoldsOne, BucketConstants DEF BucketTypeOK
    <3>2. CASE i # n + 1
      <4>1. i \in 1 .. n /\ granted'[i] = granted[i] /\ granted[i] \in Nat /\ granted[i] <= last_refill
            /\ (n - i + 1) * TICKS + tokens
                 <= BURST * TICKS + (last_refill - granted[i]) * SUSTAINED
        BY <1>0, <1>a, <2>3, <3>2 DEF Spent
      <4>2. /\ (last_refill - granted[i]) * SUSTAINED \in Nat /\ (instant - last_refill) * SUSTAINED \in Nat
            /\ (instant - granted[i]) * SUSTAINED
                 = (last_refill - granted[i]) * SUSTAINED + (instant - last_refill) * SUSTAINED
            /\ Refill(instant) <= tokens + (instant - last_refill) * SUSTAINED
        BY Zenon, <1>0, <4>1, Since, Refilled
      <4>3. (n - i + 1) * TICKS \in Nat
            /\ ((n + 1) - i + 1) * TICKS = (n - i + 1) * TICKS + TICKS
        <5>1. n \in Nat /\ i \in Nat /\ i <= n
          BY <1>a, <4>1
        <5> HIDE DEF n
        <5> QED BY Zenon, <5>1, OneMore
      <4>4. tokens \in Nat /\ Refill(instant) \in Nat /\ TICKS \in Nat /\ granted[i] <= instant
            /\ BURST * TICKS \in Nat
        BY <1>0, <4>1, Refilled, BurstHoldsOne, BucketConstants DEF BucketTypeOK
      <4> DEFINE a == (n - i + 1) * TICKS
                 x == (last_refill - granted[i]) * SUSTAINED
                 y == (instant - last_refill) * SUSTAINED
                 b == BURST * TICKS
                 r == Refill(instant)
      <4>5. /\ a \in Nat /\ x \in Nat /\ y \in Nat /\ b \in Nat /\ r \in Nat
            /\ a + tokens <= b + x /\ r <= tokens + y
        BY Zenon, <4>1, <4>2, <4>3, <4>4
      <4> HIDE DEF a, x, y, b, r
      <4>6. (a + TICKS) + (r - TICKS) <= b + (x + y)
        BY <4>4, <4>5
      <4> QED BY Zenon, <2>1, <4>1, <4>2, <4>3, <4>4, <4>6 DEF a, x, y, b, r
    <3> QED BY Zenon, <3>1, <3>2
  <2>5. Spent'
    BY Zenon, <2>1, <2>3, <2>4 DEF Spent
  <2>6. Saved'
    <3>1. (instant - instant) * SUSTAINED = 0 /\ granted' # <<>> /\ tokens' >= 0
      BY <1>0, <2>1, <2>2, <2>3, BucketConstants DEF BucketTypeOK
    <3> QED BY Zenon, <2>1, <2>3, <3>1 DEF Saved
  <2>7. RateBounded'
    <3> SUFFICES ASSUME NEW i \in 1 .. (n + 1), NEW j \in 1 .. (n + 1), i <= j
                 PROVE  (j - i + 1) * TICKS
                          <= BURST * TICKS + (granted'[j] - granted'[i]) * SUSTAINED
      BY Zenon, <2>3 DEF RateBounded
    <3>1. CASE j = n + 1
      <4>1. ((n + 1) - i + 1) * TICKS + tokens'
              <= BURST * TICKS + (instant - granted'[i]) * SUSTAINED
        BY Zenon, <2>4
      <4>2. tokens' \in Nat /\ ((n + 1) - i + 1) * TICKS \in Nat /\ BURST * TICKS \in Nat
        <5>1. n + 1 \in Nat /\ i \in Nat /\ i <= n + 1
          BY <1>a
        <5>2. tokens' \in Nat
          BY <2>2, BurstHoldsOne DEF BucketTypeOK
        <5> HIDE DEF n
        <5> QED BY Zenon, <5>1, <5>2, OneMore, BurstHoldsOne
      <4>3. (instant - granted'[i]) * SUSTAINED \in Int
        BY <1>0, <1>a, <2>3, BucketConstants DEF BucketTypeOK
      <4>4. ((n + 1) - i + 1) * TICKS
              <= BURST * TICKS + (instant - granted'[i]) * SUSTAINED
        <5> DEFINE x == ((n + 1) - i + 1) * TICKS
                   y == (instant - granted'[i]) * SUSTAINED
                   b == BURST * TICKS
        <5>1. x \in Nat /\ y \in Int /\ b \in Nat /\ tokens' \in Nat /\ x + tokens' <= b + y
          BY Zenon, <4>1, <4>2, <4>3
        <5> HIDE DEF x, y, b
        <5>2. x <= b + y
          <6>1. \A p, q, k \in Nat, z \in Int : p + k <= q + z => p <= q + z
            OBVIOUS
          <6> QED BY Zenon, <5>1, <6>1
        <5> QED BY Zenon, <5>2 DEF x, y, b
      <4> QED BY Zenon, <2>3, <3>1, <4>4
    <3>2. CASE j # n + 1
      <4>1. /\ i \in DOMAIN granted /\ j \in DOMAIN granted
            /\ granted'[i] = granted[i] /\ granted'[j] = granted[j]
        BY <1>a, <2>3, <3>2
      <4> QED BY Zenon, <1>0, <4>1 DEF RateBounded
    <3> QED BY Zenon, <3>1, <3>2
  <2> QED BY Zenon, <2>2, <2>5, <2>6, <2>7 DEF BucketInv
<1>4. CASE UNCHANGED bucketVars
  BY Zenon, <1>0, <1>4 DEF BucketInv, BucketTypeOK, Spent, Saved, RateBounded, bucketVars
<1> QED BY Zenon, <1>1, <1>2, <1>3, <1>4 DEF BucketNext

\* The messages that run passes on to handle_message, in any stretch of a
\* connection's life, are at most the burst plus the sustained rate over it.
THEOREM RateBoundedThm == BucketSpec => []RateBounded
<1>1. BucketInv => RateBounded
  BY Zenon DEF BucketInv
<1> QED BY BucketInvInit, BucketInvNext, <1>1, PTL DEF BucketSpec

\* A client is throttled only within a refill period of a message that was let
\* through, however often it tried in between.
THEOREM ThrottledBrieflyThm == BucketSpec => ThrottledBriefly
<1> DEFINE Brief == Throttle => /\ granted # <<>>
                                /\ (instant - granted[Len(granted)]) * SUSTAINED < TICKS
<1>1. BucketInv => Brief
  <2> SUFFICES ASSUME BucketInv, Throttle
               PROVE  /\ granted # <<>>
                      /\ (instant - granted[Len(granted)]) * SUSTAINED < TICKS
    BY Zenon
  <2>0. BucketTypeOK /\ Spent /\ Saved /\ Refill(instant) < TICKS
    BY Zenon DEF BucketInv, Throttle
  <2>1. Refill(instant) # BURST * TICKS /\ tokens # BURST * TICKS
    BY <2>0, Refilled, BurstHoldsOne, BucketConstants DEF BucketTypeOK
  <2>2. granted # <<>> /\ tokens >= (last_refill - granted[Len(granted)]) * SUSTAINED
    BY Zenon, <2>0, <2>1 DEF Saved
  <2> DEFINE g == granted[Len(granted)]
  <2>3. g \in Nat /\ g <= last_refill
    <3>1. Len(granted) \in DOMAIN granted /\ g \in Nat
      BY <2>0, <2>2 DEF BucketTypeOK
    <3> QED BY Zenon, <2>0, <3>1 DEF Spent
  <2>4. (instant - g) * SUSTAINED = (last_refill - g) * SUSTAINED + (instant - last_refill) * SUSTAINED
        /\ (last_refill - g) * SUSTAINED \in Nat /\ (instant - last_refill) * SUSTAINED \in Nat
        /\ Refill(instant) = tokens + (instant - last_refill) * SUSTAINED
    BY Zenon, <2>0, <2>1, <2>3, Since, Refilled
  <2>5. tokens \in Nat /\ TICKS \in Nat /\ tokens >= (last_refill - g) * SUSTAINED
    BY <2>0, <2>2, BucketConstants DEF BucketTypeOK
  <2> HIDE DEF g
  <2>6. (instant - g) * SUSTAINED < TICKS
    BY <2>0, <2>4, <2>5
  <2> QED BY Zenon, <2>2, <2>6 DEF g
<1>2. BucketInv /\ [BucketNext]_bucketVars => [Brief]_bucketVars
  BY Zenon, <1>1
<1> QED BY BucketInvInit, BucketInvNext, <1>2, PTL DEF BucketSpec, ThrottledBriefly
-----------------------------------------------------------------------------
(* The log store *)

\* Readings of the clock are in the past, and an upload belongs to a process
\* that has started.
ReadingsPast ==
  /\ \A u \in Uploads : /\ post[u].now # None => post[u].now <= now
                        /\ post[u].pc \in {"waiting", "stored"} => post[u].now # None
                        /\ post[u].pc = "stored" => post[u].id # None
                        /\ post[u].boot <= boot
  /\ sweep # None => sweep <= now

\* The limiter still knows the last upload of an address, or its interval is over.
UploadsKnown ==
  \A a \in Addresses :
    accepted[a] # None => /\ accepted[a] <= now
                          /\ last[a] = accepted[a] \/ now >= accepted[a] + LOG_UPLOAD_INTERVAL

LogInv == LogTypeOK /\ ReadingsPast /\ StoredIsServed /\ UploadsKnown

\* A new store is empty and its limiter knows nobody.
LEMMA LogInvInit == LogInit => LogInv
BY LogConstants
   DEF LogInit, LogInv, LogTypeOK, ReadingsPast, StoredIsServed, UploadsKnown, Current,
       NoEntries, NoUploads, NotPosted, Posts

\* Every step keeps the types.
LEMMA LogInvTypes ==
  ASSUME LogTypeOK, ReadingsPast, [LogNext]_logVars
  PROVE  LogTypeOK'
<1> USE LogConstants DEF LogTypeOK
<1>1. CASE Tick
  BY <1>1 DEF Tick
<1>2. CASE SweepStarts
  BY Zenon, <1>2 DEF SweepStarts
<1>3. CASE SweepLogs
  BY Zenon, <1>3 DEF SweepLogs, Unexpired, RecentUploads
<1>4. CASE LogRestart
  <2>1. post' \in [Uploads -> Posts]
    BY <1>4 DEF LogRestart, Posts
  <2>2. lookup' \in [Lookups -> {"new", "waiting", "done"}]
    BY Zenon, <1>4 DEF LogRestart
  <2> QED BY <1>4, <2>1, <2>2 DEF LogRestart, NoEntries, NoUploads
<1>5. ASSUME NEW u \in Uploads, Post(u) PROVE LogTypeOK'
  <2>0. /\ [post EXCEPT ![u].pc = "refused"] \in [Uploads -> Posts]
        /\ [pc |-> "waiting", now |-> now, id |-> None, boot |-> boot] \in Posts
        /\ \A id \in LogIds : [post EXCEPT ![u].pc = "stored", ![u].id = id] \in [Uploads -> Posts]
    <3>1. post[u] \in Posts /\ post \in [Uploads -> Posts]
      BY Zenon
    <3>2. [post[u] EXCEPT !.pc = "refused"] \in Posts
      BY Zenon, <3>1 DEF Posts
    <3>3. \A id \in LogIds : [post[u] EXCEPT !.pc = "stored", !.id = id] \in Posts
      BY Zenon, <3>1 DEF Posts
    <3>4. [pc |-> "waiting", now |-> now, id |-> None, boot |-> boot] \in Posts
      BY Zenon DEF Posts
    <3>5. [post EXCEPT ![u].pc = "refused"] \in [Uploads -> Posts]
      BY Zenon, <3>1, <3>2
    <3>6. ASSUME NEW id \in LogIds
          PROVE  [post EXCEPT ![u].pc = "stored", ![u].id = id] \in [Uploads -> Posts]
      BY Zenon, <3>1, <3>3
    <3> QED BY Zenon, <3>4, <3>5, <3>6
  <2>1. CASE PostRefused(u)
    BY Zenon, <2>0, <2>1 DEF PostRefused
  <2>2. CASE PostAdmitted(u)
    <3>1. AddressOf[u] \in Addresses
      BY Zenon, LogConstants
    <3>2. post' \in [Uploads -> Posts]
      BY Zenon, <2>0, <2>2 DEF PostAdmitted
    <3> QED BY Zenon, <2>2, <3>1, <3>2 DEF PostAdmitted
  <2>3. CASE PostStores(u)
    <3> DEFINE kept == Unexpired(post[u].now)
               stored == [data |-> u, created_at |-> post[u].now]
    <3>1. kept \in [LogIds -> Entries \cup {None}]
      BY Zenon DEF Unexpired
    <3>2. stored \in Entries
      BY Zenon, <2>3 DEF PostStores, ReadingsPast, Entries, Posts
    <3>3. /\ UNCHANGED <<last, lookup_slots, lookup, sweep, now, boot, accepted>>
          /\ \/ post' = [post EXCEPT ![u].pc = "refused"] /\ entries' = kept
             \/ \E id \in LogIds : /\ post' = [post EXCEPT ![u].pc = "stored", ![u].id = id]
                                   /\ entries' = [kept EXCEPT ![id] = stored]
      <4>1. \A id \in FreshIds(kept) : id \in LogIds
        BY Zenon DEF FreshIds
      <4> HIDE DEF kept
      <4> QED BY Zenon, <2>3, <4>1 DEF PostStores, kept
    <3> HIDE DEF kept, stored
    <3>4. post' \in [Uploads -> Posts]
      <4>1. CASE post' = [post EXCEPT ![u].pc = "refused"]
        BY Zenon, <2>0, <4>1
      <4>2. CASE \E id \in LogIds : post' = [post EXCEPT ![u].pc = "stored", ![u].id = id]
        <5>1. PICK id \in LogIds : post' = [post EXCEPT ![u].pc = "stored", ![u].id = id]
          BY Zenon, <4>2
        <5> QED BY Zenon, <2>0, <5>1
      <4> QED BY Zenon, <3>3, <4>1, <4>2
    <3>5. entries' \in [LogIds -> Entries \cup {None}]
      BY Zenon, <3>1, <3>2, <3>3
    <3> QED BY Zenon, <3>3, <3>4, <3>5
  <2>4. CASE PostDropped(u)
    BY Zenon, <2>0, <2>4 DEF PostDropped
  <2> QED BY Zenon, <1>5, <2>1, <2>2, <2>3, <2>4 DEF Post
<1>6. ASSUME NEW g \in Lookups, Lookup(g) PROVE LogTypeOK'
  BY <1>6 DEF Lookup, LookupAdmitted, LookupEnds
<1>7. CASE UNCHANGED logVars
  BY Zenon, <1>7 DEF logVars
<1> QED BY Zenon, <1>1, <1>2, <1>3, <1>4, <1>5, <1>6, <1>7 DEF LogNext

\* An upload or a sweep whose reading t of the clock is in the past keeps the
\* entry of a current upload.
LEMMA CurrentKept ==
  ASSUME LogInv, NEW u \in Uploads, Current(u), post[u].boot = boot,
         NEW t \in Nat, t <= now
  PROVE  post[u].id \in LogIds /\ Unexpired(t)[post[u].id] = Entry(u)
<1>1. post[u].id \in LogIds /\ post[u].now \in Nat /\ post[u].now <= now
  BY Zenon DEF LogInv, LogTypeOK, Posts, ReadingsPast, Current
<1>2. entries[post[u].id] = Entry(u) /\ Entry(u).created_at = post[u].now
  BY ZenonT(30) DEF LogInv, StoredIsServed, Entry
<1>3. Entry(u) # None
  <2>1. Entry(u) \in Entries
    BY Zenon, <1>1 DEF Entry, Entries
  <2> QED BY Zenon, <2>1, LogConstants
<1>4. Elapsed(t, post[u].now) < LOG_MAX_AGE
  <2>1. now \in Nat /\ LOG_MAX_AGE \in Nat \ {0} /\ now - post[u].now < LOG_MAX_AGE
    BY Zenon, LogConstants DEF Current, LogInv, LogTypeOK
  <2> QED BY Zenon, <1>1, <2>1, ElapsedLess
<1> QED BY ZenonT(30), <1>1, <1>2, <1>3, <1>4 DEF Unexpired

\* Uploads other than u keep their entry when u is the only one that moves.
LEMMA OthersServed ==
  ASSUME LogInv, LogTypeOK', now' = now, boot' = boot, NEW u \in Uploads,
         \A w \in Uploads \ {u} : post'[w] = post[w],
         \A w \in Uploads \ {u} :
           Current(w) /\ post[w].boot = boot => entries'[post[w].id] = entries[post[w].id],
         post'[u].pc = "stored" => entries'[post'[u].id] = Entry(u)'
  PROVE  StoredIsServed'
<1> SUFFICES ASSUME NEW w \in Uploads, Current(w)', post'[w].boot = boot'
             PROVE  entries'[post'[w].id] = Entry(w)'
  BY ZenonT(30) DEF StoredIsServed
<1>1. CASE w = u
  BY ZenonT(30), <1>1 DEF Current
<1>2. CASE w # u
  <2>1. Current(w) /\ post[w].boot = boot /\ Entry(w)' = Entry(w) /\ post'[w] = post[w]
    BY Zenon, <1>2 DEF Current, Entry
  <2> QED BY ZenonT(30), <1>2, <2>1 DEF LogInv, StoredIsServed
<1> QED BY ZenonT(30), <1>1, <1>2

\* post_logs: refused, admitted, stored or dropped.
LEMMA PostKeeps ==
  ASSUME LogInv, NEW u \in Uploads, Post(u), LogTypeOK'
  PROVE  LogInv'
<1>0. LogTypeOK /\ ReadingsPast /\ StoredIsServed /\ UploadsKnown /\ now' = now /\ boot' = boot
      /\ sweep' = sweep
  BY Zenon DEF LogInv, Post, PostRefused, PostAdmitted, PostStores, PostDropped
<1>1. CASE PostRefused(u) \/ PostDropped(u)
  <2>1. /\ post' = [post EXCEPT ![u].pc = "refused"]
        /\ UNCHANGED <<entries, last, accepted>>
    BY Zenon, <1>1 DEF PostRefused, PostDropped
  <2>2. ReadingsPast'
    BY Zenon, <1>0, <2>1 DEF ReadingsPast, LogTypeOK, Posts
  <2>3. StoredIsServed'
    BY Zenon, <1>0, <2>1, OthersServed DEF LogTypeOK, Posts
  <2> QED BY Zenon, <1>0, <2>1, <2>2, <2>3 DEF LogInv, UploadsKnown
<1>2. CASE PostAdmitted(u)
  <2>1. \/ post' = [post EXCEPT ![u].pc = "refused"]
        \/ post' = [post EXCEPT ![u] = [pc |-> "waiting", now |-> now, id |-> None, boot |-> boot]]
    BY Zenon, <1>2 DEF PostAdmitted
  <2>2. ReadingsPast'
    <3>1. /\ \A w \in Uploads \ {u} : post'[w] = post[w]
          /\ post'[u].pc \notin {"waiting", "stored"} \/ post'[u].now # None
          /\ post'[u].pc # "stored"
          /\ post'[u].now # None => post'[u].now <= now
          /\ post'[u].boot <= boot
      BY <1>0, <2>1, LogConstants DEF ReadingsPast, LogTypeOK, Posts
    <3> QED BY Zenon, <1>0, <3>1 DEF ReadingsPast
  <2>3. post'[u].pc # "stored" /\ entries' = entries /\ \A w \in Uploads \ {u} : post'[w] = post[w]
    BY <1>0, <1>2, <2>1 DEF LogTypeOK, Posts, PostAdmitted
  <2>4. StoredIsServed'
    BY Zenon, <1>0, <2>3, OthersServed
  <2>5. UploadsKnown'
    BY <1>0, <1>2, LogConstants DEF UploadsKnown, PostAdmitted, LogTypeOK
  <2> QED BY Zenon, <2>2, <2>4, <2>5 DEF LogInv
<1>3. CASE PostStores(u)
  <2> DEFINE kept == Unexpired(post[u].now)
  <2>1. post[u].pc = "waiting" /\ post[u].now \in Nat /\ post[u].now <= now
        /\ UNCHANGED <<last, accepted>>
    BY Zenon, <1>0, <1>3 DEF PostStores, ReadingsPast, LogTypeOK, Posts
  <2>2. \A w \in Uploads : Current(w) /\ post[w].boot = boot =>
          post[w].id \in LogIds /\ kept[post[w].id] = entries[post[w].id]
                                /\ kept[post[w].id] # None
    <3> SUFFICES ASSUME NEW w \in Uploads, Current(w), post[w].boot = boot
                 PROVE  post[w].id \in LogIds /\ kept[post[w].id] = entries[post[w].id]
                                              /\ kept[post[w].id] # None
      BY Zenon
    <3>1. post[w].id \in LogIds /\ kept[post[w].id] = Entry(w) /\ entries[post[w].id] = Entry(w)
      BY ZenonT(30), <1>0, <2>1, CurrentKept DEF StoredIsServed
    <3>2. Entry(w) # None
      <4>1. post[w].now \in Nat
        BY Zenon, <1>0 DEF Current, ReadingsPast, LogTypeOK, Posts
      <4>2. Entry(w) \in Entries
        BY Zenon, <4>1 DEF Entry, Entries
      <4> QED BY Zenon, <4>2, LogConstants
    <3> QED BY ZenonT(30), <3>1, <3>2
  <2>3. DOMAIN kept = LogIds
    BY Zenon DEF Unexpired
  <2>4. \/ post' = [post EXCEPT ![u].pc = "refused"] /\ entries' = kept
        \/ \E id \in FreshIds(kept) :
             /\ post' = [post EXCEPT ![u].pc = "stored", ![u].id = id]
             /\ entries' = [kept EXCEPT ![id] = [data |-> u, created_at |-> post[u].now]]
    BY Zenon, <1>3 DEF PostStores
  <2> HIDE DEF kept
  <2>5. CASE post' = [post EXCEPT ![u].pc = "refused"] /\ entries' = kept
    <3>1. ReadingsPast'
      BY Zenon, <1>0, <2>5 DEF ReadingsPast, LogTypeOK, Posts
    <3>2. post'[u].pc # "stored" /\ \A w \in Uploads \ {u} : post'[w] = post[w]
      BY Zenon, <1>0, <2>5 DEF LogTypeOK, Posts
    <3>3. StoredIsServed'
      BY Zenon, <1>0, <2>2, <2>5, <3>2, OthersServed
    <3> QED BY Zenon, <1>0, <2>1, <3>1, <3>3 DEF LogInv, UploadsKnown
  <2>6. ASSUME NEW id \in FreshIds(kept),
               post' = [post EXCEPT ![u].pc = "stored", ![u].id = id],
               entries' = [kept EXCEPT ![id] = [data |-> u, created_at |-> post[u].now]]
        PROVE  LogInv'
    <3>1. id \in LogIds /\ kept[id] = None
      BY Zenon, <2>6 DEF FreshIds, Stored
    <3>2. post'[u].now = post[u].now /\ post'[u].id = id /\ post'[u].boot = post[u].boot
          /\ \A w \in Uploads \ {u} : post'[w] = post[w]
      BY Zenon, <1>0, <2>6 DEF LogTypeOK, Posts
    <3>3. ReadingsPast'
      BY <1>0, <2>1, <3>1, <3>2, LogConstants DEF ReadingsPast, LogTypeOK, Posts
    <3>4. entries'[post'[u].id] = Entry(u)'
      BY Zenon, <2>3, <2>6, <3>1, <3>2 DEF Entry
    <3>5. StoredIsServed'
      <4>1. \A w \in Uploads \ {u} :
              Current(w) /\ post[w].boot = boot => entries'[post[w].id] = entries[post[w].id]
        BY Zenon, <2>2, <2>3, <2>6, <3>1
      <4> QED BY Zenon, <1>0, <3>2, <3>4, <4>1, OthersServed
    <3> QED BY Zenon, <1>0, <2>1, <3>3, <3>5 DEF LogInv, UploadsKnown
  <2> QED BY Zenon, <2>4, <2>5, <2>6
<1> QED BY Zenon, <1>1, <1>2, <1>3 DEF Post

\* Every step of uploads, lookups, sweep, clock and restart.
LEMMA LogInvNext == LogInv /\ [LogNext]_logVars => LogInv'
<1> SUFFICES ASSUME LogInv, [LogNext]_logVars PROVE LogInv'
  BY Zenon
<1>0. LogTypeOK /\ ReadingsPast /\ StoredIsServed /\ UploadsKnown /\ LogTypeOK'
  BY Zenon, LogInvTypes DEF LogInv
<1>1. CASE Tick
  <2>1. \A u \in Uploads : Current(u)' => Current(u)
    BY <1>0, <1>1, LogConstants DEF Tick, Current, LogTypeOK, Posts, ReadingsPast
  <2>2. StoredIsServed'
    BY Zenon, <1>0, <1>1, <2>1 DEF Tick, StoredIsServed, Entry
  <2>3. ReadingsPast' /\ UploadsKnown'
    BY <1>0, <1>1, LogConstants DEF Tick, ReadingsPast, UploadsKnown, LogTypeOK, Posts
  <2> QED BY Zenon, <1>0, <2>2, <2>3 DEF LogInv
<1>2. CASE SweepStarts
  <2>1. ReadingsPast'
    BY <1>0, <1>2 DEF SweepStarts, ReadingsPast, LogTypeOK
  <2> QED BY Zenon, <1>0, <1>2, <2>1
          DEF SweepStarts, LogInv, StoredIsServed, UploadsKnown, Entry, Current
<1>3. CASE SweepLogs
  <2>1. sweep \in Nat /\ sweep <= now
    BY ZenonT(30), <1>0, <1>3 DEF SweepLogs, ReadingsPast, LogTypeOK
  <2>2. StoredIsServed'
    <3> SUFFICES ASSUME NEW u \in Uploads, Current(u)', post'[u].boot = boot'
                 PROVE  entries'[post'[u].id] = Entry(u)'
      BY ZenonT(30) DEF StoredIsServed
    <3>1. Current(u) /\ post[u].boot = boot /\ Entry(u)' = Entry(u)
      BY ZenonT(30), <1>3 DEF SweepLogs, Current, Entry
    <3> QED BY ZenonT(30), <1>3, <2>1, <3>1, CurrentKept DEF SweepLogs
  <2>3. UploadsKnown'
    BY <1>0, <1>3, LogConstants DEF SweepLogs, UploadsKnown, RecentUploads, Elapsed, LogTypeOK
  <2>4. ReadingsPast'
    BY Zenon, <1>0, <1>3 DEF SweepLogs, ReadingsPast
  <2> QED BY Zenon, <1>0, <2>2, <2>3, <2>4 DEF LogInv
<1>4. CASE LogRestart
  <2>1. \A u \in Uploads : /\ post'[u].boot = post[u].boot /\ post'[u].now = post[u].now
                           /\ post'[u].id = post[u].id
                           /\ post'[u].pc = post[u].pc \/ post'[u].pc = "refused"
    BY <1>0, <1>4 DEF LogRestart, LogTypeOK, Posts
  <2>2. boot' = boot + 1 /\ now' = now /\ sweep' = None /\ accepted' = NoUploads
    BY Zenon, <1>4 DEF LogRestart
  <2>3. ReadingsPast'
    BY <1>0, <2>1, <2>2 DEF ReadingsPast, LogTypeOK, Posts
  <2>4. StoredIsServed'
    BY <1>0, <2>1, <2>2 DEF StoredIsServed, ReadingsPast, LogTypeOK, Posts
  <2>5. UploadsKnown'
    BY Zenon, <2>2 DEF UploadsKnown, NoUploads
  <2> QED BY Zenon, <1>0, <2>3, <2>4, <2>5 DEF LogInv
<1>5. ASSUME NEW u \in Uploads, Post(u) PROVE LogInv'
  BY Zenon, <1>0, <1>5, PostKeeps
<1>6. ASSUME NEW g \in Lookups, Lookup(g) PROVE LogInv'
  BY ZenonT(30), <1>0, <1>6 DEF Lookup, LookupAdmitted, LookupEnds, LogInv, ReadingsPast,
                    StoredIsServed, UploadsKnown, Entry, Current
<1>7. CASE UNCHANGED logVars
  BY Zenon, <1>0, <1>7 DEF logVars, LogInv, ReadingsPast, StoredIsServed, UploadsKnown, Entry, Current
<1> QED BY Zenon, <1>1, <1>2, <1>3, <1>4, <1>5, <1>6, <1>7 DEF LogNext

\* The id that post_logs answered with finds that upload's log until the log is
\* LOG_MAX_AGE old, whatever other uploads and sweeps run and however long they
\* waited for the lock after reading the clock.
THEOREM StoredIsServedThm == LogSpec => []StoredIsServed
<1>1. LogInv => StoredIsServed
  BY Zenon DEF LogInv
<1> QED BY LogInvInit, LogInvNext, <1>1, PTL DEF LogSpec

\* The upload limiter lets an address through at most once in every
\* LOG_UPLOAD_INTERVAL of a process's life, although the sweep forgets addresses.
THEOREM UploadsSpacedThm == LogSpec => UploadsSpaced
<1> DEFINE Spaced ==
      \A a \in Addresses :
        accepted'[a] # accepted[a] /\ boot' = boot =>
          accepted[a] = None \/ accepted'[a] >= accepted[a] + LOG_UPLOAD_INTERVAL
<1>1. LogInv /\ [LogNext]_logVars => [Spaced]_logVars
  <2> SUFFICES ASSUME LogInv, LogNext, NEW a \in Addresses,
                      accepted'[a] # accepted[a], boot' = boot, accepted[a] # None
               PROVE  accepted'[a] >= accepted[a] + LOG_UPLOAD_INTERVAL
    BY Zenon
  <2>0. LogTypeOK /\ UploadsKnown
    BY Zenon DEF LogInv
  <2>1. boot \in Nat
    BY Zenon, <2>0 DEF LogTypeOK
  <2>2. PICK u \in Uploads : PostAdmitted(u)
    <3>1. accepted' # accepted
      BY Zenon
    <3>2. ~LogRestart
      BY <2>1 DEF LogRestart
    <3>3. ~Tick /\ ~SweepStarts /\ ~SweepLogs
      BY Zenon, <3>1 DEF Tick, SweepStarts, SweepLogs
    <3>4. \A g \in Lookups : ~Lookup(g)
      BY Zenon, <3>1 DEF Lookup, LookupAdmitted, LookupEnds
    <3>5. \A u \in Uploads : ~PostRefused(u) /\ ~PostStores(u) /\ ~PostDropped(u)
      BY Zenon, <3>1 DEF PostRefused, PostStores, PostDropped
    <3> QED BY Zenon, <3>2, <3>3, <3>4, <3>5 DEF LogNext, Post
  <2>3. a = AddressOf[u] /\ accepted'[a] = now /\ MayUpload(a, now)
    BY Zenon, <2>0, <2>2 DEF PostAdmitted, LogTypeOK
  <2>4. now >= accepted[a] + LOG_UPLOAD_INTERVAL
    <3>1. now \in Nat /\ accepted[a] \in Nat /\ LOG_UPLOAD_INTERVAL \in Nat \ {0}
      BY Zenon, <2>0, LogConstants DEF LogTypeOK
    <3>2. CASE last[a] = accepted[a]
      <4>1. Elapsed(now, accepted[a]) >= LOG_UPLOAD_INTERVAL
        BY Zenon, <2>3, <3>2 DEF MayUpload
      <4> QED BY Zenon, <3>1, <4>1, ElapsedEnough
    <3> QED BY Zenon, <2>0, <3>2 DEF UploadsKnown
  <2> QED BY Zenon, <2>3, <2>4
<1> QED BY LogInvInit, LogInvNext, <1>1, PTL DEF LogSpec, UploadsSpaced
-----------------------------------------------------------------------------
(* What counts, with the facts about finite sets *)

INSTANCE FiniteSetTheorems

(* The connection quota *)

\* What makes ConnectionsCapped inductive: the counters are exact, and
\* try_connect never moves one past its cap.
QuotaInv ==
  /\ QuotaTypeOK
  /\ CountersExact
  /\ global <= MAX_GLOBAL_CONNS
  /\ \A ip \in Ips : per_ip[ip] <= MAX_CONNS_PER_IP

\* Sets of requests are finite.
LEMMA SocketsFinite ==
  ASSUME NEW S \in SUBSET Sockets
  PROVE  IsFiniteSet(S) /\ Cardinality(S) \in Nat
BY Zenon, QuotaConstants, FS_Subset, FS_CardinalityType

\* One more request takes a slot: both counts of slots grow by one, the count
\* of every other address stays.
LEMMA CountTaken ==
  ASSUME NEW S \in SUBSET Sockets, NEW s \in Sockets, s \notin S, NEW ip \in Ips
  PROVE  /\ Cardinality(S \cup {s}) = Cardinality(S) + 1
         /\ Cardinality(From(S \cup {s}, ip)) =
              Cardinality(From(S, ip)) + (IF ip = IpOf[s] THEN 1 ELSE 0)
<1>1. From(S, ip) \in SUBSET Sockets /\ s \notin From(S, ip)
  BY Zenon DEF From
<1>2. CASE ip = IpOf[s]
  <2>1. From(S \cup {s}, ip) = From(S, ip) \cup {s}
    BY Zenon, <1>2 DEF From
  <2> QED BY ZenonT(30), <1>1, <1>2, <2>1, SocketsFinite, FS_AddElement
<1>3. CASE ip # IpOf[s]
  <2>1. From(S \cup {s}, ip) = From(S, ip)
    BY Zenon, <1>3 DEF From
  <2> QED BY <1>1, <1>3, <2>1, SocketsFinite, FS_AddElement
<1> QED BY Zenon, <1>2, <1>3

\* A process that has just started holds no slot (ConnectionQuota::new).
LEMMA QuotaInvInit == QuotaInit => QuotaInv
<1> SUFFICES ASSUME QuotaInit PROVE QuotaInv
  BY Zenon
<1>1. Charged = {} /\ \A ip \in Ips : From(Charged, ip) = {}
  BY Zenon DEF QuotaInit, Charged, At, From
<1>2. QuotaTypeOK
  BY Zenon DEF QuotaInit, QuotaTypeOK, Stages
<1> QED BY <1>1, <1>2, FS_EmptySet, QuotaConstants DEF QuotaInit, QuotaInv, CountersExact

\* A step that neither takes nor gives back a slot.
LEMMA QuotaKept ==
  ASSUME QuotaInv, QuotaTypeOK', Charged' = Charged, UNCHANGED <<global, per_ip>>
  PROVE  QuotaInv'
BY Zenon DEF QuotaInv, CountersExact, From

\* try_connect, disconnect and the stages of an upgrade keep the counters exact
\* and within their caps.
LEMMA QuotaInvNext == QuotaInv /\ [QuotaNext]_quotaVars => QuotaInv'
<1> SUFFICES ASSUME QuotaInv, [QuotaNext]_quotaVars PROVE QuotaInv'
  BY Zenon
<1>0. QuotaTypeOK /\ CountersExact
  BY Zenon DEF QuotaInv
<1>1. ASSUME NEW s \in Sockets, Admit(s) PROVE QuotaInv'
  <2>1. IpOf[s] \in Ips
    BY Zenon, QuotaConstants
  <2>2. QuotaTypeOK'
    BY <1>0, <1>1, <2>1 DEF QuotaTypeOK, Admit, Move, Stages
  <2>3. Charged' = Charged \cup {s} /\ s \notin Charged /\ Charged \in SUBSET Sockets
    BY Zenon, <1>0, <1>1 DEF QuotaTypeOK, Admit, Move, Charged, At
  <2>4. global' = Cardinality(Charged')
    BY ZenonT(30), <1>0, <1>1, <2>1, <2>3, CountTaken DEF CountersExact, Admit
  <2>5. ASSUME NEW ip \in Ips
        PROVE  /\ per_ip'[ip] = Cardinality(From(Charged, ip)')
               /\ per_ip'[ip] <= MAX_CONNS_PER_IP
    <3>1. From(Charged, ip)' = From(Charged \cup {s}, ip)
      BY Zenon, <2>3 DEF From
    <3>2. per_ip'[ip] = per_ip[ip] + (IF ip = IpOf[s] THEN 1 ELSE 0)
      BY <1>0, <1>1 DEF Admit, QuotaTypeOK
    <3>3. per_ip'[ip] <= MAX_CONNS_PER_IP
      BY <1>0, <1>1, <3>2, QuotaConstants DEF Admit, MayConnect, QuotaTypeOK, QuotaInv
    <3>4. Cardinality(From(Charged \cup {s}, ip)) =
            Cardinality(From(Charged, ip)) + (IF ip = IpOf[s] THEN 1 ELSE 0)
      BY Zenon, <2>3, CountTaken
    <3> QED BY Zenon, <1>0, <3>1, <3>2, <3>3, <3>4 DEF CountersExact
  <2>6. global' <= MAX_GLOBAL_CONNS
    BY <1>0, <1>1, QuotaConstants DEF Admit, MayConnect, QuotaTypeOK
  <2> QED BY Zenon, <2>2, <2>4, <2>5, <2>6 DEF QuotaInv, CountersExact
<1>2. ASSUME NEW s \in Sockets, Disconnect(s) PROVE QuotaInv'
  <2> DEFINE S == Charged \ {s}
  <2>1. IpOf[s] \in Ips
    BY Zenon, QuotaConstants
  <2>2. QuotaTypeOK'
    BY <1>0, <1>2, <2>1 DEF QuotaTypeOK, Disconnect, Move, Stages
  <2>3. Charged' = S /\ s \notin S /\ Charged = S \cup {s} /\ S \in SUBSET Sockets
    BY Zenon, <1>0, <1>2 DEF QuotaTypeOK, Disconnect, Move, Charged, At
  <2> HIDE DEF S
  <2>4. \A ip \in Ips : per_ip[ip] = Cardinality(From(S, ip))
                                + (IF ip = IpOf[s] THEN 1 ELSE 0)
    BY <1>0, <2>3, CountTaken DEF CountersExact
  <2>5. global = Cardinality(S) + 1
    BY Zenon, <1>0, <2>1, <2>3, CountTaken DEF CountersExact
  <2>6. /\ Cardinality(S) \in Nat
        /\ \A ip \in Ips : Cardinality(From(S, ip)) \in Nat
    BY Zenon, <2>3, SocketsFinite DEF From
  <2>7. global' = Cardinality(S) /\ global' <= MAX_GLOBAL_CONNS
    <3>1. MAX_GLOBAL_CONNS \in Nat /\ MAX_CONNS_PER_IP \in Nat
      BY Zenon, QuotaConstants
    <3>2. global > 0 /\ global - 1 = Cardinality(S) /\ Cardinality(S) <= MAX_GLOBAL_CONNS
      BY Zenon, <2>5, <2>6, <3>1, OneBack DEF QuotaInv
    <3>3. per_ip[IpOf[s]] > 0
      <4>1. per_ip[IpOf[s]] = Cardinality(From(S, IpOf[s])) + 1
        BY Zenon, <2>1, <2>4
      <4> QED BY Zenon, <2>1, <2>6, <3>1, <4>1, OneBack DEF QuotaInv
    <3> QED BY Zenon, <1>2, <3>2, <3>3 DEF Disconnect
  <2>8. ASSUME NEW ip \in Ips
        PROVE  /\ per_ip'[ip] = Cardinality(From(Charged, ip)')
               /\ per_ip'[ip] <= MAX_CONNS_PER_IP
    <3>1. From(Charged, ip)' = From(S, ip)
      BY Zenon, <2>3 DEF From
    <3>2. per_ip'[ip] = Cardinality(From(S, ip))
      BY <1>0, <1>2, <2>1, <2>4, <2>6 DEF Disconnect, QuotaTypeOK
    <3> QED BY <1>0, <2>4, <2>6, <3>1, <3>2, QuotaConstants DEF QuotaInv, QuotaTypeOK
  <2> QED BY Zenon, <2>2, <2>3, <2>7, <2>8 DEF QuotaInv, CountersExact
<1>3. ASSUME NEW s \in Sockets, Refuse(s) \/ Upgraded(s) \/ UpgradeFails(s)
      PROVE  QuotaInv'
  <2>1. QuotaTypeOK' /\ Charged' = Charged /\ UNCHANGED <<global, per_ip>>
    BY Zenon, <1>0, <1>3 DEF QuotaTypeOK, Refuse, Upgraded, UpgradeFails, Move, Stages, Charged, At
  <2> QED BY Zenon, <2>1, QuotaKept
<1>4. CASE UNCHANGED quotaVars
  <2>1. QuotaTypeOK' /\ Charged' = Charged /\ UNCHANGED <<global, per_ip>>
    BY Zenon, <1>0, <1>4 DEF QuotaTypeOK, quotaVars, Charged, At
  <2> QED BY Zenon, <2>1, QuotaKept
<1> QED BY Zenon, <1>1, <1>2, <1>3, <1>4 DEF QuotaNext, SocketStep

\* Running sockets hold slots, so the counters bound them.
LEMMA QuotaCapped == QuotaInv => ConnectionsCapped
<1> SUFFICES ASSUME QuotaInv PROVE ConnectionsCapped
  BY Zenon
<1> DEFINE R == At({"running"})
<1>1. R \in SUBSET Charged /\ Charged \in SUBSET Sockets
  BY Zenon DEF Charged, At
<1>2. \A ip \in Ips : /\ From(R, ip) \in SUBSET From(Charged, ip)
                            /\ From(Charged, ip) \in SUBSET Sockets
  BY Zenon, <1>1 DEF From
<1> HIDE DEF R
<1>3. ASSUME NEW T \in SUBSET Sockets, NEW S \in SUBSET T
      PROVE  Cardinality(S) <= Cardinality(T) /\ Cardinality(S) \in Nat /\ Cardinality(T) \in Nat
  BY Zenon, SocketsFinite, FS_Subset, S \in SUBSET Sockets
<1>4. Cardinality(R) <= MAX_GLOBAL_CONNS
  BY <1>1, <1>3, QuotaConstants DEF QuotaInv, CountersExact
<1>5. ASSUME NEW ip \in Ips PROVE Cardinality(From(R, ip)) <= MAX_CONNS_PER_IP
  BY <1>2, <1>3, QuotaConstants DEF QuotaInv, CountersExact
<1> QED BY Zenon, <1>4, <1>5 DEF ConnectionsCapped, R

\* The global counter and the per-address counters of ConnectionQuota always
\* equal the slots that are held: try_connect and disconnect never lose or
\* invent one, whatever requests are admitted, refused or lost in between.
THEOREM QuotaExactThm == QuotaSpec => []CountersExact
<1>1. QuotaInv => CountersExact
  BY Zenon DEF QuotaInv
<1> QED BY QuotaInvInit, QuotaInvNext, <1>1, PTL DEF QuotaSpec

\* ws_handler never lets more WebSockets run than MAX_GLOBAL_CONNS, nor more of
\* one address than MAX_CONNS_PER_IP.
THEOREM QuotaCappedThm == QuotaSpec => []ConnectionsCapped
BY QuotaInvInit, QuotaInvNext, QuotaCapped, PTL DEF QuotaSpec
-----------------------------------------------------------------------------
(* The sizes of the log store *)

\* Sets of ids can be counted, and a part has no more than the whole.
LEMMA IdsFinite ==
  ASSUME NEW S \in SUBSET LogIds, NEW T \in SUBSET S
  PROVE  /\ IsFiniteSet(S) /\ Cardinality(S) \in Nat
         /\ Cardinality(T) \in Nat /\ Cardinality(T) <= Cardinality(S)
<1>1. IsFiniteSet(S) /\ IsFiniteSet(T) /\ Cardinality(T) <= Cardinality(S)
  BY ZenonT(30), LogConstants, FS_Subset
<1> QED BY Zenon, <1>1, FS_CardinalityType

\* Expiring entries makes room, storing one under a fresh id takes one place
\* that the check of the cap has found.
LEMMA StoreKept ==
  ASSUME StoreBounded, NEW t,
         \/ entries' = Unexpired(t)
         \/ /\ ~Full(Unexpired(t))
            /\ \E id \in LogIds : \E x : entries' = [Unexpired(t) EXCEPT ![id] = x]
  PROVE  StoreBounded'
<1> DEFINE kept == Unexpired(t)
<1>1. Stored(kept) \in SUBSET Stored(entries) /\ Stored(entries) \in SUBSET LogIds
  BY ZenonT(30) DEF Stored, Unexpired
<1>2. /\ IsFiniteSet(Stored(kept)) /\ Cardinality(Stored(kept)) \in Nat
      /\ Cardinality(Stored(entries)) \in Nat
      /\ Cardinality(Stored(kept)) <= Cardinality(Stored(entries))
  BY ZenonT(30), <1>1, IdsFinite
<1>3. kept = [id \in LogIds |-> kept[id]]
  BY ZenonT(30) DEF Unexpired
<1> HIDE DEF kept
<1>4. CASE entries' = kept
  BY <1>2, <1>4, LogConstants DEF StoreBounded
<1>5. CASE ~Full(kept) /\ \E id \in LogIds : \E x : entries' = [kept EXCEPT ![id] = x]
  <2>1. PICK id \in LogIds : \E x : entries' = [kept EXCEPT ![id] = x]
    BY Zenon, <1>5
  <2>2. Stored(entries') \in SUBSET (Stored(kept) \cup {id})
    BY Zenon, <1>3, <2>1 DEF Stored
  <2>3. (Stored(kept) \cup {id}) \in SUBSET LogIds
    BY Zenon DEF Stored
  <2>4. /\ Cardinality(Stored(entries')) \in Nat /\ Cardinality(Stored(kept) \cup {id}) \in Nat
        /\ Cardinality(Stored(entries')) <= Cardinality(Stored(kept) \cup {id})
    BY ZenonT(30), <2>2, <2>3, IdsFinite
  <2>5. Cardinality(Stored(kept) \cup {id}) <= Cardinality(Stored(kept)) + 1
    <3> DEFINE S == Stored(kept)
               k == Cardinality(S)
    <3>1. Cardinality(S \cup {id}) = IF id \in S THEN k ELSE k + 1
      <4> HIDE DEF S
      <4> QED BY Zenon, <1>2, FS_AddElement DEF S
    <3>2. k \in Nat
      BY Zenon, <1>2
    <3> HIDE DEF k
    <3>3. Cardinality(S \cup {id}) <= k + 1
      <4> HIDE DEF S
      <4> QED BY <3>1, <3>2
    <3> QED BY Zenon, <3>3 DEF k
  <2>6. Cardinality(Stored(kept)) < MAX_LOG_ENTRIES
    BY <1>2, <1>5, LogConstants DEF Full
  <2>7. MAX_LOG_ENTRIES \in Nat
    BY Zenon, LogConstants
  <2> QED BY Zenon, <1>2, <2>4, <2>5, <2>6, <2>7, RoomForOne DEF StoreBounded
<1> QED BY Zenon, <1>4, <1>5 DEF kept

\* post_logs compares the number of entries with the cap under the lock under
\* which it then inserts, so uploads that waited together do not overrun it.
THEOREM StoreBoundedThm == LogSpec => []StoreBounded
<1>1. Stored(NoEntries) = {}
  BY Zenon DEF Stored, NoEntries
<1>2. Cardinality(Stored(NoEntries)) <= MAX_LOG_ENTRIES
  BY <1>1, FS_EmptySet, LogConstants
<1>3. LogInit => StoreBounded
  BY Zenon, <1>2 DEF LogInit, StoreBounded
<1>4. StoreBounded /\ [LogNext]_logVars => StoreBounded'
  <2> SUFFICES ASSUME StoreBounded, [LogNext]_logVars PROVE StoreBounded'
    BY Zenon
  <2>1. CASE UNCHANGED entries
    BY Zenon, <2>1 DEF StoreBounded
  <2>2. CASE LogRestart
    BY Zenon, <1>2, <2>2 DEF LogRestart, StoreBounded
  <2>3. CASE SweepLogs
    BY Zenon, <2>3, StoreKept DEF SweepLogs
  <2>4. ASSUME NEW u \in Uploads, PostStores(u) PROVE StoreBounded'
    <3> DEFINE t == post[u].now
    <3>1. \A id \in FreshIds(Unexpired(t)) : id \in LogIds
      BY Zenon DEF FreshIds
    <3>2. \/ entries' = Unexpired(t)
          \/ /\ ~Full(Unexpired(t))
             /\ \E id \in LogIds : \E x : entries' = [Unexpired(t) EXCEPT ![id] = x]
      BY Zenon, <2>4, <3>1 DEF PostStores
    <3> HIDE DEF t
    <3> QED BY Zenon, <3>2, StoreKept
  <2> QED
    BY Zenon, <2>1, <2>2, <2>3, <2>4 DEF LogNext, Post, Lookup, Tick, SweepStarts, PostRefused,
       PostAdmitted, PostDropped, LookupAdmitted, LookupEnds, logVars
<1> QED BY <1>3, <1>4, PTL DEF LogSpec

\* The lookups that hold a permit.
Holders == {g \in Lookups : lookup[g] = "waiting"}

\* What makes PermitsExact inductive: the holders can be counted.
PermitsInv == LogTypeOK /\ IsFiniteSet(Holders) /\ PermitsExact

\* A lookup takes one permit or none, and gives back the one it has.
LEMMA LookupKeepsPermits ==
  ASSUME PermitsInv, LogTypeOK', NEW g \in Lookups, Lookup(g)
  PROVE  PermitsInv'
<1> DEFINE n == Cardinality(Holders)
<1>1. IsFiniteSet(Holders) /\ n \in Nat /\ lookup_slots + n = MAX_CONCURRENT_LOOKUPS
  BY Zenon, FS_CardinalityType DEF PermitsInv, PermitsExact, Holders
<1>2. lookup \in [Lookups -> {"new", "waiting", "done"}] /\ lookup_slots \in Nat
  BY Zenon DEF PermitsInv, LogTypeOK
<1>3. IsFiniteSet(Holders') /\ lookup_slots' + Cardinality(Holders') = MAX_CONCURRENT_LOOKUPS
  <2>1. CASE g \notin Holders /\ Holders' = Holders \cup {g} /\ lookup_slots' = lookup_slots - 1
    <3>1. IsFiniteSet(Holders') /\ Cardinality(Holders') = n + 1
      BY ZenonT(30), <1>1, <2>1, FS_AddElement
    <3> HIDE DEF n
    <3> QED BY <1>1, <1>2, <2>1, <3>1
  <2>2. CASE g \in Holders /\ Holders' = Holders \ {g} /\ lookup_slots' = lookup_slots + 1
    <3>1. IsFiniteSet(Holders') /\ Cardinality(Holders') = n - 1
      BY Zenon, <1>1, <2>2, FS_RemoveElement
    <3> HIDE DEF n
    <3> QED BY <1>1, <1>2, <2>2, <3>1
  <2>3. CASE Holders' = Holders /\ lookup_slots' = lookup_slots
    BY Zenon, <1>1, <2>3
  <2>4. CASE LookupAdmitted(g)
    <3>1. CASE lookup_slots' = lookup_slots - 1 /\ lookup' = [lookup EXCEPT ![g] = "waiting"]
      <4>1. g \notin Holders /\ Holders' = Holders \cup {g}
        BY ZenonT(30), <1>2, <2>4, <3>1 DEF LookupAdmitted, Holders
      <4> QED BY Zenon, <2>1, <3>1, <4>1
    <3>2. CASE lookup' = [lookup EXCEPT ![g] = "done"] /\ UNCHANGED lookup_slots
      <4>1. Holders' = Holders
        BY ZenonT(30), <1>2, <2>4, <3>2 DEF LookupAdmitted, Holders
      <4> QED BY Zenon, <2>3, <3>2, <4>1
    <3> QED BY ZenonT(30), <2>4, <3>1, <3>2 DEF LookupAdmitted
  <2>5. CASE LookupEnds(g)
    <3>1. g \in Holders /\ Holders' = Holders \ {g} /\ lookup_slots' = lookup_slots + 1
      BY Zenon, <1>2, <2>5 DEF LookupEnds, Holders
    <3> QED BY Zenon, <2>2, <3>1
  <2> QED BY Zenon, <2>4, <2>5 DEF Lookup
<1> QED BY ZenonT(30), <1>3 DEF PermitsInv, PermitsExact, Holders

\* The permit of get_logs lives as long as its handler: whether the log is found
\* or not and whether the client waits for the answer or not, it is given back
\* once, and a restart makes all of them anew.
THEOREM PermitsExactThm == LogSpec => []PermitsExact
<1>1. LogInit => PermitsInv
  <2> SUFFICES ASSUME LogInit PROVE PermitsInv
    BY Zenon
  <2>1. LogTypeOK
    BY Zenon, LogInvInit DEF LogInv
  <2>2. Holders = {}
    BY Zenon DEF LogInit, Holders
  <2>3. IsFiniteSet(Holders) /\ Cardinality(Holders) = 0
    BY Zenon, <2>2, FS_EmptySet
  <2>4. lookup_slots + Cardinality(Holders) = MAX_CONCURRENT_LOOKUPS
    BY <2>3, LogConstants DEF LogInit
  <2> QED BY Zenon, <2>1, <2>3, <2>4 DEF PermitsInv, PermitsExact, Holders
<1>2. LogInv /\ LogInv' /\ PermitsInv /\ [LogNext]_logVars => PermitsInv'
  <2> SUFFICES ASSUME LogTypeOK', PermitsInv, [LogNext]_logVars PROVE PermitsInv'
    BY Zenon DEF LogInv
  <2>1. CASE UNCHANGED <<lookup, lookup_slots>>
    BY Zenon, <2>1 DEF PermitsInv, PermitsExact, Holders
  <2>2. CASE LogRestart
    <3>1. Holders' = {} /\ lookup_slots' = MAX_CONCURRENT_LOOKUPS
      BY Zenon, <2>2 DEF LogRestart, Holders
    <3> QED BY <3>1, FS_EmptySet, LogConstants DEF PermitsInv, PermitsExact, Holders
  <2>3. ASSUME NEW g \in Lookups, Lookup(g) PROVE PermitsInv'
    BY Zenon, <2>3, LookupKeepsPermits
  <2> QED
    BY Zenon, <2>1, <2>2, <2>3 DEF LogNext, Post, Tick, SweepStarts, SweepLogs, PostRefused,
       PostAdmitted, PostStores, PostDropped, logVars
<1>3. PermitsInv => PermitsExact
  BY Zenon DEF PermitsInv
<1> QED BY LogInvInit, LogInvNext, <1>1, <1>2, <1>3, PTL DEF LogSpec

=============================================================================
