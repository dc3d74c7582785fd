--------------------------- MODULE DualStoreProofs ---------------------------
(***************************************************************************)
(* What holds of DualStore for every set of ids, namespaces, contents and  *)
(* tasks: the types, that a pending intent or the excuse of an overlap     *)
(* stands behind every disagreement of the two stores, and that no store   *)
(* that returned Ok is lost.                                               *)
(***************************************************************************)
EXTENDS DualStore, FiniteSetTheorems, TLAPS

-----------------------------------------------------------------------------
(* The inductive invariant *)

\* Recovery runs before the server takes requests.
Alone == mode # "up" => \A t \in Tasks : ~Busy(t)

\* The tasks' numbers and the pending intents' are behind next_seq; no two
\* intents share one, and no two tasks.
Numbers ==
    /\ \A i \in wal : i.seq < nextSeq
    /\ \A i, j \in wal : i.seq = j.seq => i = j
    /\ \A t \in Tasks : Busy(t) => task[t].seq < nextSeq
    /\ \A t, u \in Tasks : Busy(t) /\ Busy(u) /\ t # u /\ task[t].seq # 0
                              => task[t].seq # task[u].seq

\* Tasks that share an id have it excused.
Overlaps ==
    \A t, u \in Tasks : Busy(t) /\ Busy(u) /\ t # u
                           => task[t].ids \cap task[u].ids \subseteq excused

\* Without the task's own intent the id would still be accounted for.
Settled(t, id) ==
    \/ Agree(id)
    \/ \E i \in wal : i.seq # task[t].seq /\ id \in i.ids

\* How far a task has come with an id that is its own: what RocksDB holds,
\* and when the index is known to agree.
Progress(t, id) ==
    \/ task[t].op = "touch" /\ chunk[id] = task[t].val
    \/ task[t].op = "retention" /\ chunk[id] = Dead
    \/ /\ task[t].op \notin {"touch", "retention"}
       /\ task[t].pc # "store" =>
             IF task[t].op = "store" THEN chunk[id] = task[t].val ELSE ~Live(id)
       /\ \/ Settled(t, id)
          \/ task[t].pc = "index" /\ id \in task[t].sweep

TaskInv(t) == Busy(t) =>
    /\ task[t].seq # 0 => \E i \in wal : i.seq = task[t].seq /\ i.ids = task[t].ids
    /\ task[t].seq = 0 => \/ task[t].op \in {"touch", "retention"}
                          \/ task[t].ids \subseteq excused
    /\ task[t].op \in {"store", "touch"} => task[t].val \in Contents
    /\ task[t].op = "touch" => task[t].pc = "store"
    /\ task[t].op = "retention" => task[t].pc # "mark" /\ task[t].seq = 0
    /\ task[t].sweep \subseteq task[t].ids
    /\ task[t].op \notin {"store", "touch"} => \A id \in task[t].ids : acked[id] = 0
    /\ \A id \in task[t].ids \ excused : Progress(t, id)

\* Recovery: what is replayed is in the writer, what is acknowledged is
\* committed.
Replayed ==
    /\ mode = "down" => docMem = doc
    /\ mode # "replay" => todo = {}
    /\ todo \subseteq wal
    /\ mode = "replay" => \A i \in wal \ todo : \A id \in i.ids : docMem[id] = Visible(id)
    /\ mode = "ack" => \A i \in wal : \A id \in i.ids : Agree(id)

IInv ==
    /\ TypeOK
    /\ Alone
    /\ Numbers
    /\ Overlaps
    /\ \A t \in Tasks : TaskInv(t)
    /\ Replayed
    /\ DivergenceCovered
    /\ AckedSurvives

-----------------------------------------------------------------------------
(* Types *)

LEMMA BusyTask ==
    ASSUME TypeOK, NEW t \in Tasks,
           Busy(t) \/ task[t].pc \in {"store", "index", "mark"}
    PROVE  /\ Busy(t)
           /\ task[t] \in Task
           /\ task[t].pc \in {"store", "index", "mark"}
           /\ task[t].op \in AllOps
           /\ task[t].ids \in SUBSET Ids
           /\ task[t].sweep \in SUBSET Ids
           /\ task[t].val \in Contents \union {Absent}
           /\ task[t].seq \in 0..MaxSeq
<1>1. task[t] # Idle
  BY DEF Busy, Idle
<1>2. task[t] \in Task
  BY <1>1 DEF TypeOK
<1> QED BY <1>1, <1>2 DEF Busy, Task

LEMMA LoggedAsTypes ==
    ASSUME NEW op \in AllOps \ {"touch", "retention"}
    PROVE  LoggedAs(op) \in IntentOps
BY DEF AllOps, LoggedAs, IntentOps

LEMMA SetTypes ==
    ASSUME NEW T, NEW f \in [Ids -> T], NEW S, NEW v \in T
    PROVE  Set(f, S, v) \in [Ids -> T]
BY DEF Set

LEMMA ChunksTypes ==
    ASSUME TypeOK, NEW op, NEW S, NEW v \in Contents \union {Absent}
    PROVE  ChunksAfter(op, S, v) \in [Ids -> Contents \union {Absent, Dead}]
<1> DEFINE T == Contents \union {Absent, Dead}
<1>1. chunk \in [Ids -> T] /\ v \in T /\ Absent \in T /\ Dead \in T
  BY DEF TypeOK
<1> HIDE DEF T
<1>2. /\ Set(chunk, S, v) \in [Ids -> T]
      /\ Set(chunk, {id \in S : chunk[id] # Absent}, Dead) \in [Ids -> T]
      /\ Set(chunk, S, Absent) \in [Ids -> T]
  BY <1>1, SetTypes
<1>3. ChunksAfter(op, S, v) \in [Ids -> T]
  BY <1>2 DEF ChunksAfter
<1> QED BY <1>3 DEF T

LEMMA DocsTypes ==
    ASSUME TypeOK, NEW t \in Tasks, task[t].pc = "index"
    PROVE  DocsAfter(t) \in [Ids -> Contents \union {Absent}]
<1> DEFINE T == Contents \union {Absent}
<1>1. docMem \in [Ids -> T] /\ task[t].val \in T /\ Absent \in T
  BY BusyTask DEF TypeOK
<1> HIDE DEF T
<1>2. /\ Set(docMem, task[t].ids, task[t].val) \in [Ids -> T]
      /\ Set(docMem, task[t].sweep, Absent) \in [Ids -> T]
  BY <1>1, SetTypes
<1>3. DocsAfter(t) \in [Ids -> T]
  BY <1>2 DEF DocsAfter
<1> QED BY <1>3 DEF T

LEMMA StoreStepTypes ==
    ASSUME TypeOK, NEW t \in Tasks, StoreStep(t)
    PROVE  TypeOK'
<1>1. task[t].pc = "store"
  BY DEF StoreStep
<1>2. task[t] \in Task /\ task[t].val \in Contents \union {Absent}
  BY <1>1, BusyTask
<1>3. chunk' \in [Ids -> Contents \union {Absent, Dead}]
  BY <1>2, ChunksTypes DEF StoreStep
<1>4. task' \in [Tasks -> Task \union {Idle}]
  <2> DEFINE S == IF task[t].op = "api_purge" THEN {id \in task[t].ids : chunk[id] # Absent}
                  ELSE task[t].ids
  <2>1. S \in SUBSET Ids
    BY <1>1, BusyTask
  <2> HIDE DEF S
  <2>2. [task[t] EXCEPT !.pc = "index", !.sweep = S] \in Task
    BY <1>2, <2>1 DEF Task
  <2>3. task' = [task EXCEPT ![t] = [task[t] EXCEPT !.pc = "index", !.sweep = S]]
    BY <1>2 DEF StoreStep, TypeOK, S
  <2> QED BY <2>2, <2>3 DEF TypeOK
<1> QED BY <1>3, <1>4 DEF StoreStep, ghosts, TypeOK

LEMMA BeginTypes ==
    ASSUME TypeOK, NEW t \in Tasks, NEW op \in Ops, NEW S \in Streams \union {{id} : id \in Ids},
           NEW v \in Contents \union {Absent}, Begin(t, op, S, v)
    PROVE  TypeOK'
<1> DEFINE i == [seq |-> nextSeq, op |-> LoggedAs(op), ids |-> S]
           r == [pc |-> "store", op |-> op, ids |-> S, sweep |-> S, val |-> v, seq |-> nextSeq]
<1>1. S \in SUBSET Ids /\ op \in AllOps \ {"touch", "retention"}
  BY StoreAssumption DEF StoreAssumption, Begin
<1>2. nextSeq \in 1..MaxSeq /\ nextSeq' \in 1..(MaxSeq + 1) /\ nextSeq \in 0..MaxSeq
  BY StoreAssumption DEF StoreAssumption, Begin, TypeOK
<1>3. wal' \subseteq Intent
  <2>1. i \in Intent
    BY <1>1, <1>2, LoggedAsTypes DEF Intent
  <2> QED BY <2>1 DEF Begin, TypeOK
<1>4. task' \in [Tasks -> Task \union {Idle}]
  <2>1. r \in Task
    BY <1>1, <1>2 DEF Task
  <2> QED BY <2>1 DEF Begin, TypeOK
<1>5. excused' \subseteq Ids /\ acked' \in [Ids -> 0..MaxSeq]
  BY <1>1, StoreAssumption DEF StoreAssumption, Begin, Overlap, TypeOK, Set
<1>6. todo' \subseteq Intent
  BY DEF Begin, TypeOK
<1> QED BY <1>2, <1>3, <1>4, <1>5, <1>6 DEF Begin, stores, TypeOK

LEMMA StartTypes ==
    ASSUME TypeOK, NEW t \in Tasks,
           \/ \E id \in Ids : BeginUnlogged(t, id) \/ TouchRead(t, id)
           \/ \E S \in SUBSET Ids : RetentionScan(t, S)
    PROVE  TypeOK'
<1>1. 0 \in 0..MaxSeq
  BY StoreAssumption DEF StoreAssumption
<1>2. ASSUME NEW id \in Ids, BeginUnlogged(t, id) PROVE TypeOK'
  <2>1. [pc |-> "store", op |-> "api_delete", ids |-> {id}, sweep |-> {id},
         val |-> Absent, seq |-> 0] \in Task
    BY <1>1 DEF Task, AllOps
  <2> QED BY <1>1, <1>2, <2>1 DEF BeginUnlogged, TypeOK, stores, Set
<1>3. ASSUME NEW id \in Ids, TouchRead(t, id) PROVE TypeOK'
  <2>1. [pc |-> "store", op |-> "touch", ids |-> {id}, sweep |-> {},
         val |-> chunk[id], seq |-> 0] \in Task
    BY <1>1, <1>3 DEF TouchRead, Live, Task, AllOps
  <2> QED BY <1>1, <1>3, <2>1 DEF TouchRead, Overlap, TypeOK, stores, Set
<1>4. ASSUME NEW S \in SUBSET Ids, RetentionScan(t, S) PROVE TypeOK'
  <2>1. [pc |-> "index", op |-> "retention", ids |-> S, sweep |-> {},
         val |-> Absent, seq |-> 0] \in Task
    BY <1>1 DEF Task, AllOps
  <2> QED BY <1>1, <1>4, <2>1 DEF RetentionScan, Overlap, TypeOK, stores, Set
<1> QED BY <1>2, <1>3, <1>4

\* A task that moves on, or stops.
LEMMA TaskTypes ==
    ASSUME TypeOK, NEW t \in Tasks, task[t].pc \in {"store", "index", "mark"},
           NEW pc \in {"store", "index", "mark"}, NEW S \in SUBSET Ids, NEW U \in SUBSET Ids,
           \/ task' = [task EXCEPT ![t].pc = pc]
           \/ task' = [task EXCEPT ![t].pc = pc, ![t].sweep = S]
           \/ task' = [task EXCEPT ![t].pc = pc, ![t].ids = U, ![t].sweep = S]
           \/ task' = [task EXCEPT ![t] = Idle]
    PROVE  task' \in [Tasks -> Task \union {Idle}]
<1>1. task[t] \in Task
  BY BusyTask
<1>2. /\ [task[t] EXCEPT !.pc = pc] \in Task
      /\ [task[t] EXCEPT !.pc = pc, !.sweep = S] \in Task
      /\ [task[t] EXCEPT !.pc = pc, !.ids = U, !.sweep = S] \in Task
  BY <1>1 DEF Task
<1>3. CASE task' = [task EXCEPT ![t].pc = pc]
  BY <1>2, <1>3 DEF TypeOK
<1>4. CASE task' = [task EXCEPT ![t].pc = pc, ![t].sweep = S]
  <2>1. task' = [task EXCEPT ![t] = [task[t] EXCEPT !.pc = pc, !.sweep = S]]
    BY <1>1, <1>4 DEF TypeOK
  <2> QED BY <1>2, <2>1 DEF TypeOK
<1>5. CASE task' = [task EXCEPT ![t].pc = pc, ![t].ids = U, ![t].sweep = S]
  <2>1. task' = [task EXCEPT ![t] = [task[t] EXCEPT !.pc = pc, !.ids = U, !.sweep = S]]
    BY <1>1, <1>5 DEF TypeOK
  <2> QED BY <1>2, <2>1 DEF TypeOK
<1>6. CASE task' = [task EXCEPT ![t] = Idle]
  BY <1>6 DEF TypeOK
<1> QED BY <1>3, <1>4, <1>5, <1>6

LEMMA IndexTypes ==
    ASSUME TypeOK, NEW t \in Tasks,
           IndexStep(t) \/ IndexFailsStrict(t) \/ IndexFailsLax(t)
    PROVE  TypeOK'
<1> DEFINE T == Contents \union {Absent}
<1>1. task[t].pc = "index"
  BY DEF IndexStep, IndexFailsStrict, IndexFailsLax
<1>2. task[t].ids \in SUBSET Ids /\ task[t].sweep \in SUBSET Ids
  BY <1>1, BusyTask
<1>3. task' \in [Tasks -> Task \union {Idle}]
  <2>1. task' = [task EXCEPT ![t].pc = "mark"] \/ task' = [task EXCEPT ![t] = Idle]
    BY DEF IndexStep, IndexFailsStrict, IndexFailsLax, Stop
  <2> QED BY <1>1, <2>1, TaskTypes
<1>4. /\ docMem \in [Ids -> T] /\ doc \in [Ids -> T]
      /\ DocsAfter(t) \in [Ids -> T]
      /\ Set(docMem, task[t].ids, Absent) \in [Ids -> T]
      /\ \A S : Set(docMem, S, Absent) \in [Ids -> T]
  BY <1>1, DocsTypes, SetTypes DEF TypeOK
<1>5. doc' \in [Ids -> T] /\ docMem' \in [Ids -> T]
  <2> HIDE DEF T
  <2>1. CASE IndexStep(t)
    BY <1>4, <2>1 DEF IndexStep, Commit
  <2>2. CASE IndexFailsStrict(t)
    BY <1>4, <2>2 DEF IndexFailsStrict, CommitFails
  <2>3. CASE IndexFailsLax(t)
    BY <1>4, <2>3 DEF IndexFailsLax, CommitFails
  <2> QED BY <2>1, <2>2, <2>3
<1>6. excused' \subseteq Ids /\ UNCHANGED <<chunk, wal, nextSeq, mode, todo, crashes, acked>>
  BY <1>2 DEF IndexStep, IndexFailsStrict, IndexFailsLax, ghosts, TypeOK
<1> QED BY <1>3, <1>5, <1>6 DEF TypeOK

LEMMA RestTypes ==
    ASSUME TypeOK, NEW t \in Tasks,
           \/ GiveUp(t) \/ Mark(t) \/ TouchWrite(t) \/ RetentionDelete(t)
           \/ \E id \in Ids : RetentionIndex(t, id)
    PROVE  TypeOK'
<1>1. CASE GiveUp(t)
  BY <1>1, BusyTask, TaskTypes DEF GiveUp, Stop, TypeOK, stores, ghosts
<1>2. CASE Mark(t)
  <2>1. task[t].pc = "mark" /\ task[t].seq \in 0..MaxSeq
    BY <1>2, BusyTask DEF Mark
  <2>2. task' \in [Tasks -> Task \union {Idle}]
    BY <1>2, <2>1, TaskTypes DEF Mark, Stop
  <2>3. acked' \in [Ids -> 0..MaxSeq]
    BY <1>2, <2>1 DEF Mark, TypeOK, Set
  <2>4. todo' \subseteq Intent /\ wal' \subseteq Intent
    BY <1>2 DEF Mark, TypeOK
  <2> QED BY <1>2, <2>2, <2>3, <2>4 DEF Mark, TypeOK, stores
<1>3. CASE TouchWrite(t)
  <2>1. task[t].pc = "store" /\ task[t].val \in Contents \union {Absent, Dead}
    BY <1>3, BusyTask DEF TouchWrite
  <2>2. chunk' \in [Ids -> Contents \union {Absent, Dead}]
    BY <1>3, <2>1, SetTypes DEF TouchWrite, TypeOK
  <2>3. task' \in [Tasks -> Task \union {Idle}]
    BY <1>3, <2>1, TaskTypes DEF TouchWrite, Stop
  <2> QED BY <1>3, <2>2, <2>3 DEF TouchWrite, TypeOK, ghosts
<1>4. ASSUME NEW id \in Ids, RetentionIndex(t, id) PROVE TypeOK'
  <2>1. Set(docMem, {id}, Absent) \in [Ids -> Contents \union {Absent}]
    BY SetTypes DEF TypeOK
  <2>2. /\ {id} \in SUBSET Ids
        /\ task[t].pc = "index"
        /\ task' = [task EXCEPT ![t].pc = "store", ![t].sweep = {id}]
    BY <1>4 DEF RetentionIndex
  <2>3. task' \in [Tasks -> Task \union {Idle}]
    BY <2>2, TaskTypes
  <2> QED BY <1>4, <2>1, <2>3 DEF RetentionIndex, CommitFails, TypeOK, ghosts
<1>5. CASE RetentionDelete(t)
  <2>1. task[t].pc = "store" /\ task[t].ids \ task[t].sweep \in SUBSET Ids /\ {} \in SUBSET Ids
    BY <1>5, BusyTask DEF RetentionDelete
  <2>2. chunk' \in [Ids -> Contents \union {Absent, Dead}]
    BY <1>5, SetTypes DEF RetentionDelete, TypeOK
  <2>3. \/ task' = [task EXCEPT ![t] = Idle]
        \/ task' = [task EXCEPT ![t].pc = "index", ![t].ids = task[t].ids \ task[t].sweep,
                                ![t].sweep = {}]
    BY <1>5 DEF RetentionDelete
  <2>4. task' \in [Tasks -> Task \union {Idle}]
    BY <2>1, <2>3, TaskTypes
  <2> QED BY <1>5, <2>2, <2>4 DEF RetentionDelete, TypeOK, ghosts
<1> QED BY <1>1, <1>2, <1>3, <1>4, <1>5

LEMMA ReplayTypes ==
    ASSUME TypeOK, NEW i \in wal, Replay(i)
    PROVE  TypeOK'
<1> DEFINE T == Contents \union {Absent}
<1>1. i.ids \in SUBSET Ids /\ i.op \in IntentOps
  BY DEF TypeOK, Intent
<1>2. todo' \subseteq Intent
  BY DEF Replay, TypeOK
<1>3. chunk' \in [Ids -> Contents \union {Absent, Dead}]
  BY ChunksTypes DEF Replay, TypeOK
<1>4. acked' \in [Ids -> 0..MaxSeq]
  BY StoreAssumption DEF StoreAssumption, Replay, TypeOK, Set
<1>5. doc' \in [Ids -> T] /\ docMem' \in [Ids -> T]
  <2>1. Set(docMem, i.ids, Absent) \in [Ids -> T]
    BY SetTypes DEF TypeOK
  <2>2. [id \in Ids |-> IF id \in i.ids THEN Visible(id) ELSE docMem[id]] \in [Ids -> T]
    BY DEF TypeOK, Visible, Live
  <2>3. docMem \in [Ids -> T] /\ doc \in [Ids -> T]
    BY DEF TypeOK
  <2> HIDE DEF T
  <2> QED BY <2>1, <2>2, <2>3 DEF Replay, Commit
<1> QED BY <1>2, <1>3, <1>4, <1>5 DEF Replay, TypeOK

LEMMA TypeInit == Init => TypeOK
<1> SUFFICES ASSUME Init PROVE TypeOK
  OBVIOUS
<1>1. nextSeq \in 1..(MaxSeq + 1) /\ crashes \in 0..MaxCrashes
  BY StoreAssumption DEF StoreAssumption, Init
<1>2. acked \in [Ids -> 0..MaxSeq]
  BY StoreAssumption DEF StoreAssumption, Init
<1> QED BY <1>1, <1>2 DEF Init, TypeOK

LEMMA TypeStep == TypeOK /\ [Next]_vars => TypeOK'
<1> SUFFICES ASSUME TypeOK, [Next]_vars PROVE TypeOK'
  OBVIOUS
<1>1. ASSUME NEW t \in Tasks, TaskStep(t) PROVE TypeOK'
  BY <1>1, StoreStepTypes, BeginTypes, StartTypes, IndexTypes, RestTypes DEF TaskStep
<1>2. CASE Crash
  <2>1. crashes' \in 0..MaxCrashes
    BY <1>2, StoreAssumption DEF StoreAssumption, Crash, TypeOK
  <2> QED BY <1>2, <2>1 DEF Crash, TypeOK, ghosts
<1>3. CASE Boot
  BY <1>3 DEF Boot, AfterScan, TypeOK, stores, ghosts
<1>4. CASE CommitReplay
  BY <1>4 DEF CommitReplay, PublishReplayed, Commit, TypeOK
<1>5. ASSUME NEW i \in wal, Ack(i) PROVE TypeOK'
  BY <1>5 DEF Ack, AfterAck, TypeOK, stores, ghosts
<1>6. CASE UNCHANGED vars
  BY <1>6 DEF vars, TypeOK
<1> QED BY <1>1, <1>2, <1>3, <1>4, <1>5, <1>6, ReplayTypes DEF Next, Recover

\* Both stores, the log, the tasks and the recovery stay well formed, whatever
\* tasks interleave, fail or crash.
THEOREM TypeCorrect == Spec => []TypeOK
BY TypeInit, TypeStep, PTL DEF Spec

-----------------------------------------------------------------------------
(* What a step of one task leaves the others *)

\* A step of t that touches the stores, the pending intents and the promises
\* on the ids of S alone.
Frame(t, S) ==
    /\ mode' = mode /\ todo' = todo
    /\ \A u \in Tasks \ {t} : task'[u] = task[u]
    /\ excused \subseteq excused'
    /\ \A id \in Ids \ S : chunk'[id] = chunk[id] /\ (Agree(id) => Agree(id)')
    /\ \A i \in wal : \/ i \in wal'
                      \/ /\ i.ids \subseteq S
                         /\ \A u \in Tasks \ {t} : Busy(u) => task[u].seq # i.seq
    /\ \A id \in Ids : id \in S \ excused \/ acked'[id] = acked[id] \/ acked'[id] = 0

\* The ids of S are t's own, or excused.
Apart(t, S) == \A u \in Tasks \ {t} : Busy(u) => S \cap task[u].ids \subseteq excused

Accounted(id) == id \in excused \/ Covered(id) \/ Agree(id)
Kept(id) == acked[id] > 0 => Live(id)

LEMMA FrameOthers ==
    ASSUME IInv, NEW t \in Tasks, NEW S \in SUBSET Ids, Frame(t, S), Apart(t, S),
           NEW u \in Tasks \ {t}
    PROVE  TaskInv(u)'
<1> SUFFICES ASSUME Busy(u)' PROVE TaskInv(u)'
  BY DEF TaskInv
<1>1. task'[u] = task[u] /\ Busy(u) /\ TaskInv(u)
  BY DEF Frame, Busy, IInv
<1>2. task[u].ids \in SUBSET Ids
  BY <1>1, BusyTask DEF IInv
<1>3. task[u].seq # 0 => \E i \in wal' : i.seq = task[u].seq /\ i.ids = task[u].ids
  BY <1>1 DEF TaskInv, Frame
<1>4. \A id \in task[u].ids : acked'[id] = acked[id] \/ acked'[id] = 0
  BY <1>1, <1>2 DEF Frame, Apart
<1>5. ASSUME NEW id \in task[u].ids \ excused' PROVE Progress(u, id)'
  <2>1. id \in Ids \ S /\ id \notin excused /\ Progress(u, id)
    BY <1>1, <1>2 DEF Frame, Apart, TaskInv
  <2>2. chunk'[id] = chunk[id] /\ (Agree(id) => Agree(id)') /\ Live(id)' = Live(id)
    BY <2>1 DEF Frame, Live
  <2>3. Settled(u, id) => Settled(u, id)'
    BY <1>1, <2>1, <2>2 DEF Settled, Frame
  <2> QED BY <1>1, <2>1, <2>2, <2>3 DEF Progress
<1> QED BY <1>1, <1>3, <1>4, <1>5 DEF TaskInv, Frame

LEMMA FrameGlobals ==
    ASSUME IInv, NEW t \in Tasks, NEW S \in SUBSET Ids, Frame(t, S), NEW id \in Ids \ S
    PROVE  Accounted(id)' /\ Kept(id)'
<1>1. Accounted(id) /\ Kept(id)
  BY DEF IInv, Accounted, Kept, DivergenceCovered, AckedSurvives
<1>2. chunk'[id] = chunk[id] /\ (Agree(id) => Agree(id)')
  BY DEF Frame
<1>3. Covered(id) => Covered(id)'
  BY DEF Frame, Covered
<1>4. acked'[id] = acked[id] \/ acked'[id] = 0
  BY DEF Frame
<1> QED BY <1>1, <1>2, <1>3, <1>4 DEF Accounted, Kept, Live, Frame

\* The step is one of t's, and t kept its part.
LEMMA FrameStep ==
    ASSUME IInv, TypeOK', mode = "up",
           NEW t \in Tasks, NEW S \in SUBSET Ids, Frame(t, S), Apart(t, S),
           Numbers', TaskInv(t)',
           \A u \in Tasks \ {t} : Busy(u) /\ Busy(t)' =>
               (task'[t].ids \cap task[u].ids) \subseteq excused',
           \A id \in S : Accounted(id)' /\ Kept(id)'
    PROVE  IInv'
<1>1. \A u \in Tasks : TaskInv(u)'
  BY FrameOthers
<1>2. \A id \in Ids : Accounted(id)' /\ Kept(id)'
  BY FrameGlobals
<1>3. Overlaps'
  BY DEF Overlaps, Frame, Busy, IInv
<1>4. Alone' /\ Replayed'
  BY DEF Alone, Replayed, Frame, IInv
<1>5. DivergenceCovered' /\ AckedSurvives'
  BY <1>2 DEF DivergenceCovered, AckedSurvives, Accounted, Kept
<1> QED BY <1>1, <1>3, <1>4, <1>5 DEF IInv

\* A task that goes on with the ids it has, or with fewer.
LEMMA SameNumbers ==
    ASSUME IInv, NEW t \in Tasks, Busy(t), wal' \subseteq wal, nextSeq' = nextSeq,
           \A u \in Tasks \ {t} : task'[u] = task[u],
           Busy(t)' => task'[t].seq = task[t].seq
    PROVE  Numbers'
BY DEF Numbers, IInv, Busy

LEMMA OwnIds ==
    ASSUME IInv, NEW t \in Tasks, Busy(t)
    PROVE  Apart(t, task[t].ids) /\ mode = "up"
BY DEF IInv, Overlaps, Apart, Alone

-----------------------------------------------------------------------------
(* A task starts *)

LEMMA BeginInv ==
    ASSUME IInv, TypeOK', NEW t \in Tasks, NEW op \in Ops,
           NEW S \in Streams \union {{id} : id \in Ids},
           NEW v \in Contents \union {Absent}, Begin(t, op, S, v)
    PROVE  IInv'
<1> DEFINE r == [pc |-> "store", op |-> op, ids |-> S, sweep |-> S, val |-> v, seq |-> nextSeq]
           new == [seq |-> nextSeq, op |-> LoggedAs(op), ids |-> S]
<1>1. /\ S \in SUBSET Ids /\ {} \in SUBSET Ids
      /\ nextSeq \in Nat /\ nextSeq # 0
      /\ mode = "up"
  BY StoreAssumption DEF StoreAssumption, Begin, IInv, TypeOK
<1>2. /\ task' = [task EXCEPT ![t] = r] /\ wal' = wal \union {new} /\ nextSeq' = nextSeq + 1
      /\ task'[t] = r /\ \A u \in Tasks \ {t} : task'[u] = task[u]
      /\ UNCHANGED <<chunk, doc, docMem, mode, todo>>
  BY DEF Begin, stores, IInv, TypeOK
<1>3. /\ excused' = excused \union (S \cap InFlight)
      /\ op # "store" => \A id \in S : acked'[id] = 0
      /\ \A id \in Ids : acked'[id] = acked[id] \/ acked'[id] = 0
  BY <1>1 DEF Begin, Overlap, Set, IInv, TypeOK
<1>4. Frame(t, {}) /\ Apart(t, {})
  BY <1>2, <1>3 DEF Frame, Apart, Agree, Visible, Live
<1>5. \A u \in Tasks \ {t} : Busy(u) => task'[t].ids \cap task[u].ids \subseteq excused'
  BY <1>2, <1>3 DEF InFlight
<1>6. Numbers'
  <2>1. \A i \in wal : i.seq \in Nat /\ i.seq < nextSeq
    BY StoreAssumption DEF StoreAssumption, IInv, Numbers, TypeOK, Intent
  <2>2. \A u \in Tasks \ {t} : Busy(u)' => /\ Busy(u)
                                           /\ task'[u].seq = task[u].seq
                                           /\ task'[u].seq \in Nat
                                           /\ task'[u].seq < nextSeq
    BY <1>2, BusyTask, StoreAssumption DEF StoreAssumption, IInv, Numbers, Busy
  <2>3. task'[t].seq = nextSeq
    BY <1>2
  <2>4. new.seq = nextSeq
    OBVIOUS
  <2>5. /\ \A i \in wal' : i.seq < nextSeq'
        /\ \A i, j \in wal' : i.seq = j.seq => i = j
    <3> HIDE DEF new
    <3> QED BY <1>1, <1>2, <2>1, <2>4 DEF IInv, Numbers
  <2>6. \A u, w \in Tasks : Busy(u)' /\ Busy(w)' /\ u # w /\ task'[u].seq # 0
                               => task'[u].seq # task'[w].seq
    <3> SUFFICES ASSUME NEW u \in Tasks, NEW w \in Tasks, Busy(u)', Busy(w)', u # w,
                        task'[u].seq # 0
                 PROVE  task'[u].seq # task'[w].seq
      OBVIOUS
    <3>1. CASE u = t
      BY <3>1, <2>2, <2>3, <1>1
    <3>2. CASE w = t
      BY <3>2, <2>2, <2>3, <1>1
    <3>3. CASE u # t /\ w # t
      BY <3>3, <2>2 DEF IInv, Numbers
    <3> QED BY <3>1, <3>2, <3>3
  <2>7. \A u \in Tasks : Busy(u)' => task'[u].seq < nextSeq'
    BY <1>1, <1>2, <2>2, <2>3
  <2> QED BY <2>5, <2>6, <2>7 DEF Numbers
<1>7. TaskInv(t)'
  <2>1. new \in wal' /\ new.seq = task'[t].seq /\ new.ids = task'[t].ids
    BY <1>2
  <2>2. op \notin {"touch", "retention"} /\ (op = "store" => v \in Contents)
    BY DEF Begin, Request
  <2>3. ASSUME NEW id \in S \ excused' PROVE Progress(t, id)'
    <3>1. Covered(id) \/ Agree(id)
      BY <1>1, <1>3 DEF IInv, DivergenceCovered
    <3>2. Agree(id) => Agree(id)'
      BY <1>2 DEF Agree, Visible, Live
    <3>3. Covered(id) => \E i \in wal' : i.seq # nextSeq /\ id \in i.ids
      BY <1>1, <1>2, StoreAssumption DEF StoreAssumption, Covered, IInv, Numbers, TypeOK, Intent
    <3>4. Settled(t, id)'
      BY <1>2, <3>1, <3>2, <3>3 DEF Settled
    <3> QED BY <1>2, <2>2, <3>4 DEF Progress
  <2>4. /\ task'[t].seq # 0 /\ task'[t].op = op /\ task'[t].ids = S
        /\ task'[t].sweep = S /\ task'[t].val = v
    BY <1>1, <1>2
  <2> HIDE DEF r, new
  <2> QED BY <1>3, <2>1, <2>2, <2>3, <2>4 DEF TaskInv
<1> QED BY <1>1, <1>4, <1>5, <1>6, <1>7, FrameStep

\* A task that logs nothing starts on the ids of S.
LEMMA StartInv ==
    ASSUME IInv, TypeOK', NEW t \in Tasks, NEW S \in SUBSET Ids, mode = "up",
           \A u \in Tasks \ {t} : task'[u] = task[u],
           Busy(t)', task'[t].ids = S, task'[t].seq = 0,
           UNCHANGED <<stores, wal, nextSeq, mode, todo>>,
           excused \union (S \cap InFlight) \subseteq excused', ~Busy(t),
           \A id \in Ids : acked'[id] = acked[id] \/ acked'[id] = 0,
           TaskInv(t)'
    PROVE  IInv'
<1>1. Frame(t, {}) /\ Apart(t, {}) /\ {} \in SUBSET Ids
  BY DEF Frame, Apart, Agree, Visible, Live, stores
<1>2. \A u \in Tasks \ {t} : Busy(u) => task'[t].ids \cap task[u].ids \subseteq excused'
  BY DEF InFlight
<1>3. Numbers'
  <2>1. \A u \in Tasks \ {t} : Busy(u)' => Busy(u) /\ task'[u].seq = task[u].seq
    BY DEF Busy
  <2>2. nextSeq \in Nat /\ nextSeq > 0 /\ nextSeq' = nextSeq /\ wal' = wal
    BY StoreAssumption DEF StoreAssumption, IInv, TypeOK
  <2> QED BY <2>1, <2>2 DEF IInv, Numbers
<1> QED BY <1>1, <1>2, <1>3, FrameStep

LEMMA BeginUnloggedInv ==
    ASSUME IInv, TypeOK', NEW t \in Tasks, NEW id \in Ids, BeginUnlogged(t, id)
    PROVE  IInv'
<1> DEFINE r == [pc |-> "store", op |-> "api_delete", ids |-> {id}, sweep |-> {id},
                 val |-> Absent, seq |-> 0]
<1>1. task'[t] = r /\ \A u \in Tasks \ {t} : task'[u] = task[u]
  BY DEF BeginUnlogged, IInv, TypeOK
<1>2. /\ acked'[id] = 0 /\ \A x \in Ids : acked'[x] = acked[x] \/ acked'[x] = 0
      /\ excused' = excused \union {id}
  BY DEF BeginUnlogged, Set, IInv, TypeOK
<1>3. TaskInv(t)'
  BY <1>1, <1>2 DEF TaskInv
<1>4. Busy(t)'
  BY <1>1 DEF Busy, Idle
<1> QED BY <1>1, <1>2, <1>3, <1>4, StartInv DEF BeginUnlogged

LEMMA TouchReadInv ==
    ASSUME IInv, TypeOK', NEW t \in Tasks, NEW id \in Ids, TouchRead(t, id)
    PROVE  IInv'
<1> DEFINE r == [pc |-> "store", op |-> "touch", ids |-> {id}, sweep |-> {},
                 val |-> chunk[id], seq |-> 0]
<1>1. task'[t] = r /\ \A u \in Tasks \ {t} : task'[u] = task[u]
  BY DEF TouchRead, IInv, TypeOK
<1>2. \A x \in Ids : acked'[x] = acked[x] \/ acked'[x] = 0
  BY DEF TouchRead, Overlap, Set, IInv, TypeOK
<1>3. TaskInv(t)'
  BY <1>1 DEF TaskInv, Progress, TouchRead, Live, stores
<1>4. Busy(t)'
  BY <1>1 DEF Busy, Idle
<1>5. /\ {id} \in SUBSET Ids /\ mode = "up" /\ ~Busy(t)
      /\ excused \union ({id} \cap InFlight) \subseteq excused'
      /\ UNCHANGED <<stores, wal, nextSeq, mode, todo>>
  BY DEF TouchRead, Overlap
<1> QED BY <1>1, <1>2, <1>3, <1>4, <1>5, StartInv

LEMMA RetentionScanInv ==
    ASSUME IInv, TypeOK', NEW t \in Tasks, NEW S \in SUBSET Ids, RetentionScan(t, S)
    PROVE  IInv'
<1> DEFINE r == [pc |-> "index", op |-> "retention", ids |-> S, sweep |-> {},
                 val |-> Absent, seq |-> 0]
<1>1. task'[t] = r /\ \A u \in Tasks \ {t} : task'[u] = task[u]
  BY DEF RetentionScan, IInv, TypeOK
<1>2. \A x \in Ids : (acked'[x] = acked[x] \/ acked'[x] = 0) /\ (x \in S => acked'[x] = 0)
  BY DEF RetentionScan, Overlap, Set, IInv, TypeOK
<1>3. TaskInv(t)'
  BY <1>1, <1>2 DEF TaskInv, Progress, RetentionScan, stores
<1>4. Busy(t)'
  BY <1>1 DEF Busy, Idle
<1> QED BY <1>1, <1>2, <1>3, <1>4, StartInv DEF RetentionScan, Overlap

-----------------------------------------------------------------------------
(* A task goes on *)

\* What FrameStep asks of a task that goes on with some of its ids, its number
\* and the pending intents as they were.
LEMMA OwnStep ==
    ASSUME IInv, TypeOK', NEW t \in Tasks, Busy(t), NEW S \in SUBSET task[t].ids,
           Frame(t, S), wal' = wal, nextSeq' = nextSeq,
           Busy(t)' => /\ task'[t].seq = task[t].seq
                       /\ task'[t].ids \subseteq task[t].ids,
           TaskInv(t)',
           \A id \in S : Accounted(id)' /\ Kept(id)'
    PROVE  IInv'
<1>1. S \in SUBSET Ids /\ mode = "up"
  BY BusyTask, OwnIds DEF IInv
<1>2. Apart(t, S)
  BY OwnIds DEF Apart
<1>3. Numbers'
  BY SameNumbers DEF Frame
<1>4. \A u \in Tasks \ {t} : Busy(u) /\ Busy(t)' =>
          task'[t].ids \cap task[u].ids \subseteq excused'
  BY OwnIds DEF Apart, Frame
<1> QED BY <1>1, <1>2, <1>3, <1>4, FrameStep

\* The pending intent of a task accounts for its ids.
LEMMA OwnCovered ==
    ASSUME IInv, NEW t \in Tasks, Busy(t), task[t].op \notin {"touch", "retention"},
           wal' = wal, excused \subseteq excused'
    PROVE  \A id \in task[t].ids : Accounted(id)'
<1>1. TaskInv(t)
  BY DEF IInv
<1>2. task[t].seq = 0 => task[t].ids \subseteq excused
  BY <1>1 DEF TaskInv
<1>3. task[t].seq # 0 => \A id \in task[t].ids : Covered(id)'
  BY <1>1 DEF TaskInv, Covered
<1> QED BY <1>2, <1>3 DEF Accounted

LEMMA GiveUpInv ==
    ASSUME IInv, TypeOK', NEW t \in Tasks, GiveUp(t)
    PROVE  IInv'
<1>1. ~Busy(t)' /\ \A u \in Tasks \ {t} : task'[u] = task[u]
  BY DEF GiveUp, Stop, Busy, IInv, TypeOK
<1>2. Frame(t, {})
  BY <1>1 DEF GiveUp, Frame, stores, ghosts, Agree, Visible, Live
<1>3. TaskInv(t)'
  BY <1>1 DEF TaskInv
<1> QED BY <1>1, <1>2, <1>3, OwnStep DEF GiveUp

LEMMA ChunksAfterOp ==
    ASSUME TypeOK, NEW op \in AllOps \ {"touch", "retention"}, NEW S \in SUBSET Ids,
           NEW v \in Contents \union {Absent}, NEW id \in Ids
    PROVE  /\ id \notin S => ChunksAfter(op, S, v)[id] = chunk[id]
           /\ id \in S /\ op = "store" => ChunksAfter(op, S, v)[id] = v
           /\ id \in S /\ op # "store" => ChunksAfter(op, S, v)[id] \in {Absent, Dead}
           /\ chunk[id] = Absent /\ op # "store" => ChunksAfter(op, S, v)[id] = Absent
<1>1. LoggedAs(op) = "store" <=> op = "store"
  BY DEF LoggedAs, AllOps
<1>2. CASE LoggedAs(op) = "store"
  BY <1>1, <1>2 DEF ChunksAfter, Set
<1>3. CASE LoggedAs(op) = "delete"
  BY <1>1, <1>3 DEF ChunksAfter, Set
<1>4. CASE LoggedAs(op) \notin {"store", "delete"}
  BY <1>1, <1>4 DEF ChunksAfter, Set
<1> QED BY <1>2, <1>3, <1>4

LEMMA StoreStepInv ==
    ASSUME IInv, TypeOK', NEW t \in Tasks, StoreStep(t)
    PROVE  IInv'
<1> DEFINE S == task[t].ids
           sweep == IF task[t].op = "api_purge" THEN {id \in S : chunk[id] # Absent} ELSE S
<1>1. /\ Busy(t) /\ task[t] \in Task /\ task[t].pc = "store"
      /\ task[t].op \in AllOps \ {"touch", "retention"}
      /\ S \in SUBSET Ids /\ task[t].val \in Contents \union {Absent}
      /\ TaskInv(t)
  BY BusyTask DEF StoreStep, IInv
<1>2. /\ \A u \in Tasks \ {t} : task'[u] = task[u]
      /\ task'[t] = [task[t] EXCEPT !.pc = "index", !.sweep = sweep]
  BY <1>1 DEF StoreStep, IInv, TypeOK
<1>3. /\ task'[t].pc = "index" /\ task'[t].op = task[t].op /\ task'[t].ids = S
      /\ task'[t].sweep = sweep /\ task'[t].val = task[t].val /\ task'[t].seq = task[t].seq
  BY <1>1, <1>2 DEF Task
<1> HIDE DEF sweep
<1>4. /\ chunk' = ChunksAfter(task[t].op, S, task[t].val)
      /\ UNCHANGED <<doc, docMem, wal, nextSeq, mode, todo, excused, acked>>
  BY DEF StoreStep, ghosts
<1>5. \A id \in Ids :
         /\ id \notin S => chunk'[id] = chunk[id]
         /\ id \in S /\ task[t].op = "store" => chunk'[id] = task[t].val
         /\ id \in S /\ task[t].op # "store" => chunk'[id] \in {Absent, Dead}
         /\ chunk[id] = Absent /\ task[t].op # "store" => chunk'[id] = Absent
  BY <1>1, <1>4, ChunksAfterOp DEF IInv
<1>6. Frame(t, S)
  BY <1>2, <1>4, <1>5 DEF Frame, Agree, Visible, Live
<1>7. TaskInv(t)'
  <2>1. ASSUME NEW id \in S \ excused PROVE Progress(t, id)'
    <3>1. Settled(t, id)
      BY <1>1, <2>1 DEF TaskInv, Progress
    <3>2. IF task[t].op = "store" THEN chunk'[id] = task[t].val ELSE ~Live(id)'
      BY <1>1, <1>5, <2>1, StoreAssumption DEF StoreAssumption, Live
    <3>3. CASE id \in sweep
      BY <1>1, <1>3, <3>2, <3>3 DEF Progress
    <3>4. CASE id \notin sweep
      <4>1. chunk'[id] = chunk[id]
        BY <1>1, <1>5, <2>1, <3>4 DEF sweep
      <4>2. Settled(t, id)'
        BY <1>3, <1>4, <3>1, <4>1 DEF Settled, Agree, Visible, Live
      <4> QED BY <1>1, <1>3, <3>2, <4>2 DEF Progress
    <3> QED BY <3>3, <3>4
  <2>2. sweep \subseteq S
    BY DEF sweep
  <2> QED BY <1>1, <1>3, <1>4, <2>1, <2>2 DEF TaskInv
<1>8. \A id \in S : Accounted(id)' /\ Kept(id)'
  <2>1. \A id \in S : Accounted(id)'
    BY <1>1, <1>4, OwnCovered
  <2>2. \A id \in S : Kept(id)'
    BY <1>1, <1>4, <1>5 DEF TaskInv, Kept, Live
  <2> QED BY <2>1, <2>2
<1> QED BY <1>1, <1>3, <1>4, <1>6, <1>7, <1>8, OwnStep

LEMMA DocsAfterOp ==
    ASSUME IInv, NEW t \in Tasks, Busy(t), NEW id \in Ids
    PROVE  /\ id \notin task[t].ids => DocsAfter(t)[id] = docMem[id]
           /\ id \in task[t].ids /\ task[t].op = "store" => DocsAfter(t)[id] = task[t].val
           /\ id \in task[t].sweep /\ task[t].op # "store" => DocsAfter(t)[id] = Absent
           /\ id \notin task[t].sweep /\ task[t].op # "store" => DocsAfter(t)[id] = docMem[id]
<1>1. task[t].sweep \subseteq task[t].ids
  BY DEF IInv, TaskInv
<1> QED BY <1>1 DEF DocsAfter, Set

\* What a commit, even a failed one, does to an id it was not asked about.
LEMMA CommitAgree ==
    ASSUME NEW id, chunk'[id] = chunk[id], docMem'[id] = docMem[id],
           doc'[id] \in {doc[id], docMem[id]}
    PROVE  Agree(id) => Agree(id)'
BY DEF Agree, Visible, Live

LEMMA IndexStepInv ==
    ASSUME IInv, TypeOK', NEW t \in Tasks, IndexStep(t)
    PROVE  IInv'
<1> DEFINE S == task[t].ids
<1>1. /\ Busy(t) /\ task[t] \in Task /\ task[t].pc = "index"
      /\ task[t].op \in AllOps \ {"retention"}
      /\ S \in SUBSET Ids /\ TaskInv(t)
  BY BusyTask DEF IndexStep, IInv
<1>2. task[t].op # "touch"
  BY <1>1 DEF TaskInv
<1>3. /\ \A u \in Tasks \ {t} : task'[u] = task[u]
      /\ task'[t] = [task[t] EXCEPT !.pc = "mark"]
  BY <1>1 DEF IndexStep, IInv, TypeOK
<1>4. /\ task'[t].pc = "mark" /\ task'[t].op = task[t].op /\ task'[t].ids = S
      /\ task'[t].sweep = task[t].sweep /\ task'[t].val = task[t].val
      /\ task'[t].seq = task[t].seq
  BY <1>1, <1>3 DEF Task
<1>5. UNCHANGED <<chunk, wal, nextSeq, mode, todo, excused, acked>>
  BY DEF IndexStep, ghosts
<1>6. \A id \in Ids : \/ docMem'[id] = DocsAfter(t)[id] /\ doc'[id] = DocsAfter(t)[id]
                      \/ /\ docMem'[id] = docMem[id] /\ doc'[id] = doc[id]
                         /\ task[t].op # "store" /\ id \notin task[t].sweep
  BY DEF IndexStep, Commit
<1>7. ASSUME NEW id \in Ids, id \notin S \/ (task[t].op # "store" /\ id \notin task[t].sweep)
      PROVE  Agree(id) => Agree(id)'
  <2>1. docMem'[id] = docMem[id] /\ doc'[id] \in {doc[id], docMem[id]}
    BY <1>1, <1>6, <1>7, DocsAfterOp
  <2> QED BY <1>5, <2>1, CommitAgree
<1>8. Frame(t, S)
  BY <1>3, <1>5, <1>7 DEF Frame
<1>9. TaskInv(t)'
  <2>1. ASSUME NEW id \in S \ excused PROVE Progress(t, id)'
    <3>1. Progress(t, id) /\ id \in Ids
      BY <1>1, <2>1 DEF TaskInv
    <3>2. IF task[t].op = "store" THEN chunk[id] = task[t].val ELSE ~Live(id)
      BY <1>1, <1>2, <3>1 DEF Progress
    <3>3. CASE task[t].op = "store"
      <4>1. docMem'[id] = task[t].val /\ doc'[id] = task[t].val
        BY <1>1, <1>6, <2>1, <3>1, <3>3, DocsAfterOp
      <4>2. Agree(id)'
        BY <1>1, <1>5, <3>2, <3>3, <4>1 DEF Agree, Visible, Live, TaskInv
      <4> QED BY <1>2, <1>4, <1>5, <3>2, <3>3, <4>2 DEF Progress, Settled
    <3>4. CASE task[t].op # "store" /\ id \in task[t].sweep
      <4>1. docMem'[id] = Absent /\ doc'[id] = Absent
        BY <1>1, <1>6, <3>1, <3>4, DocsAfterOp
      <4>2. Agree(id)'
        BY <1>5, <3>2, <3>4, <4>1 DEF Agree, Visible, Live
      <4> QED BY <1>1, <1>2, <1>4, <1>5, <3>2, <3>4, <4>2 DEF Progress, Settled, Live
    <3>5. CASE task[t].op # "store" /\ id \notin task[t].sweep
      <4>1. Settled(t, id)
        BY <1>1, <1>2, <3>1, <3>5 DEF Progress
      <4>2. Settled(t, id)'
        BY <1>4, <1>5, <1>7, <3>1, <3>5, <4>1 DEF Settled
      <4> QED BY <1>1, <1>2, <1>4, <1>5, <3>2, <3>5, <4>2 DEF Progress, Live
    <3> QED BY <3>3, <3>4, <3>5
  <2> QED BY <1>1, <1>4, <1>5, <2>1 DEF TaskInv
<1>10. \A id \in S : Accounted(id)' /\ Kept(id)'
  <2>1. \A id \in S : Accounted(id)'
    BY <1>1, <1>2, <1>5, OwnCovered
  <2>2. \A id \in S : Kept(id)'
    BY <1>1, <1>5 DEF IInv, AckedSurvives, Kept, Live
  <2> QED BY <2>1, <2>2
<1> QED BY <1>1, <1>4, <1>5, <1>8, <1>9, <1>10, OwnStep

LEMMA IndexFailsStrictInv ==
    ASSUME IInv, TypeOK', NEW t \in Tasks, IndexFailsStrict(t)
    PROVE  IInv'
<1> DEFINE S == task[t].ids
<1>1. /\ Busy(t) /\ task[t].op \notin {"touch", "retention"}
      /\ S \in SUBSET Ids /\ TaskInv(t)
  BY BusyTask DEF IndexFailsStrict, IInv
<1>2. ~Busy(t)' /\ \A u \in Tasks \ {t} : task'[u] = task[u]
  BY DEF IndexFailsStrict, Stop, Busy, IInv, TypeOK
<1>3. UNCHANGED <<chunk, wal, nextSeq, mode, todo, excused, acked>>
  BY DEF IndexFailsStrict, ghosts
<1>4. ASSUME NEW id \in Ids \ S PROVE Agree(id) => Agree(id)'
  <2>1. docMem'[id] = docMem[id] /\ doc'[id] \in {doc[id], docMem[id]}
    BY <1>1, <1>4, DocsAfterOp DEF IndexFailsStrict, CommitFails, Set
  <2> QED BY <1>3, <2>1, CommitAgree
<1>5. Frame(t, S)
  BY <1>2, <1>3, <1>4 DEF Frame
<1>6. \A id \in S : Accounted(id)' /\ Kept(id)'
  <2>1. \A id \in S : Accounted(id)'
    BY <1>1, <1>3, OwnCovered
  <2>2. \A id \in S : Kept(id)'
    BY <1>1, <1>3 DEF IInv, AckedSurvives, Kept, Live
  <2> QED BY <2>1, <2>2
<1>7. TaskInv(t)'
  BY <1>2 DEF TaskInv
<1> QED BY <1>1, <1>2, <1>3, <1>5, <1>6, <1>7, OwnStep

LEMMA IndexFailsLaxInv ==
    ASSUME IInv, TypeOK', NEW t \in Tasks, IndexFailsLax(t)
    PROVE  IInv'
<1> DEFINE S == task[t].ids
<1>1. /\ Busy(t) /\ task[t] \in Task /\ task[t].pc = "index"
      /\ task[t].op \notin {"store", "touch", "retention"}
      /\ S \in SUBSET Ids /\ TaskInv(t) /\ task[t].sweep \subseteq S
  BY BusyTask DEF IndexFailsLax, IInv, TaskInv
<1>2. /\ \A u \in Tasks \ {t} : task'[u] = task[u]
      /\ task'[t] = [task[t] EXCEPT !.pc = "mark"]
  BY <1>1 DEF IndexFailsLax, IInv, TypeOK
<1>3. /\ task'[t].pc = "mark" /\ task'[t].op = task[t].op /\ task'[t].ids = S
      /\ task'[t].sweep = task[t].sweep /\ task'[t].val = task[t].val
      /\ task'[t].seq = task[t].seq
  BY <1>1, <1>2 DEF Task
<1>4. /\ UNCHANGED <<chunk, wal, nextSeq, mode, todo, acked>>
      /\ excused' = excused \union S
  BY DEF IndexFailsLax
<1>5. ASSUME NEW id \in Ids \ S PROVE Agree(id) => Agree(id)'
  <2>1. docMem'[id] = docMem[id] /\ doc'[id] \in {doc[id], docMem[id]}
    BY <1>1, <1>5, DocsAfterOp DEF IndexFailsLax, CommitFails, Set
  <2> QED BY <1>4, <2>1, CommitAgree
<1>6. Frame(t, S)
  BY <1>2, <1>4, <1>5 DEF Frame
<1>7. TaskInv(t)'
  BY <1>1, <1>3, <1>4 DEF TaskInv
<1>8. \A id \in S : Accounted(id)' /\ Kept(id)'
  BY <1>1, <1>4 DEF IInv, AckedSurvives, Accounted, Kept, Live
<1> QED BY <1>1, <1>3, <1>4, <1>6, <1>7, <1>8, OwnStep

LEMMA MarkInv ==
    ASSUME IInv, TypeOK', NEW t \in Tasks, Mark(t)
    PROVE  IInv'
<1> DEFINE S == task[t].ids
<1>1. /\ Busy(t) /\ task[t].pc = "mark" /\ task[t].op \notin {"touch", "retention"}
      /\ S \in SUBSET Ids /\ TaskInv(t) /\ mode = "up"
  BY BusyTask, OwnIds DEF Mark, IInv, TaskInv
<1>2. ~Busy(t)' /\ \A u \in Tasks \ {t} : task'[u] = task[u]
  BY DEF Mark, Stop, Busy, IInv, TypeOK
<1>3. /\ UNCHANGED <<chunk, doc, docMem, nextSeq, mode, todo, excused>>
      /\ wal' = {i \in wal : i.seq # task[t].seq}
  BY DEF Mark, stores
<1>4. \A id \in Ids : \/ acked'[id] = acked[id]
                      \/ task[t].op = "store" /\ id \in S \ excused
  BY DEF Mark, Set, IInv, TypeOK
<1>5. \A i \in wal \ wal' : /\ i.ids \subseteq S
                            /\ \A u \in Tasks \ {t} : Busy(u) => task[u].seq # i.seq
  <2> SUFFICES ASSUME NEW i \in wal \ wal'
               PROVE  /\ i.ids \subseteq S
                      /\ \A u \in Tasks \ {t} : Busy(u) => task[u].seq # i.seq
    OBVIOUS
  <2>1. i \in wal /\ i.seq = task[t].seq /\ task[t].seq # 0
    BY <1>3 DEF IInv, TypeOK, Intent
  <2>2. i.ids = S
    BY <1>1, <2>1 DEF TaskInv, IInv, Numbers
  <2> QED BY <1>1, <2>1, <2>2 DEF IInv, Numbers
<1>6. Frame(t, S)
  BY <1>2, <1>3, <1>4, <1>5 DEF Frame, Agree, Visible, Live
<1>7. \A id \in S : Accounted(id)' /\ Kept(id)'
  <2> SUFFICES ASSUME NEW id \in S PROVE Accounted(id)' /\ Kept(id)'
    OBVIOUS
  <2>1. CASE id \in excused
    BY <1>1, <1>3, <1>4, <2>1 DEF IInv, AckedSurvives, Accounted, Kept, Live
  <2>2. CASE id \notin excused
    <3>1. Progress(t, id)
      BY <1>1, <2>2 DEF TaskInv
    <3>2. Settled(t, id)
      BY <1>1, <3>1 DEF Progress
    <3>3. Accounted(id)'
      BY <1>3, <3>2 DEF Accounted, Covered, Settled, Agree, Visible, Live
    <3>4. task[t].op = "store" => Live(id)'
      BY <1>1, <1>3, <3>1 DEF Progress, Live, TaskInv
    <3>5. task[t].op # "store" => acked'[id] = acked[id]
      BY <1>1, <1>4
    <3> QED BY <1>1, <1>3, <3>3, <3>4, <3>5 DEF IInv, AckedSurvives, Kept, Live
  <2> QED BY <2>1, <2>2
<1>8. Numbers'
  BY <1>1, <1>2, <1>3, SameNumbers
<1>9. TaskInv(t)'
  BY <1>2 DEF TaskInv
<1>10. Apart(t, S)
  BY <1>1, OwnIds
<1> QED BY <1>1, <1>2, <1>6, <1>7, <1>8, <1>9, <1>10, FrameStep

\* What is written back is what is there, unless another task came between.
LEMMA TouchWriteInv ==
    ASSUME IInv, TypeOK', NEW t \in Tasks, TouchWrite(t)
    PROVE  IInv'
<1> DEFINE S == task[t].ids
<1>1. /\ Busy(t) /\ task[t].op = "touch" /\ S \in SUBSET Ids /\ TaskInv(t)
      /\ task[t].val \in Contents
  BY BusyTask DEF TouchWrite, IInv, TaskInv
<1>2. ~Busy(t)' /\ \A u \in Tasks \ {t} : task'[u] = task[u]
  BY DEF TouchWrite, Stop, Busy, IInv, TypeOK
<1>3. /\ UNCHANGED <<doc, docMem, wal, nextSeq, mode, todo, excused, acked>>
      /\ \A id \in Ids : chunk'[id] = IF id \in S THEN task[t].val ELSE chunk[id]
  BY DEF TouchWrite, ghosts, Set
<1>4. Frame(t, S)
  BY <1>2, <1>3 DEF Frame, Agree, Visible, Live
<1>5. ASSUME NEW id \in S PROVE Accounted(id)' /\ Kept(id)'
  <2>1. CASE id \in excused
    BY <1>1, <1>3, <2>1 DEF Accounted, Kept, Live
  <2>2. CASE id \notin excused
    <3>1. chunk'[id] = chunk[id]
      BY <1>1, <1>3, <2>2 DEF TaskInv, Progress
    <3>2. (Agree(id) => Agree(id)') /\ (Covered(id) => Covered(id)')
      BY <1>3, <3>1 DEF Agree, Visible, Live, Covered
    <3> QED BY <1>1, <1>3, <2>2, <3>1, <3>2
              DEF IInv, DivergenceCovered, AckedSurvives, Accounted, Kept, Live
  <2> QED BY <2>1, <2>2
<1>6. TaskInv(t)'
  BY <1>2 DEF TaskInv
<1> QED BY <1>1, <1>2, <1>3, <1>4, <1>5, <1>6, OwnStep

LEMMA RetentionIndexInv ==
    ASSUME IInv, TypeOK', NEW t \in Tasks, NEW id \in Ids, RetentionIndex(t, id)
    PROVE  IInv'
<1>1. /\ Busy(t) /\ task[t] \in Task /\ task[t].op = "retention"
      /\ task[t].ids \in SUBSET Ids /\ TaskInv(t) /\ id \in task[t].ids
  BY BusyTask DEF RetentionIndex, IInv
<1>2. /\ \A u \in Tasks \ {t} : task'[u] = task[u]
      /\ task'[t] = [task[t] EXCEPT !.pc = "store", !.sweep = {id}]
  BY <1>1 DEF RetentionIndex, IInv, TypeOK
<1>3. /\ task'[t].pc = "store" /\ task'[t].op = "retention" /\ task'[t].ids = task[t].ids
      /\ task'[t].sweep = {id} /\ task'[t].val = task[t].val
      /\ task'[t].seq = task[t].seq
  BY <1>1, <1>2 DEF Task
<1>4. UNCHANGED <<chunk, wal, nextSeq, mode, todo, excused, acked>>
  BY DEF RetentionIndex, ghosts
<1>5. ASSUME NEW x \in Ids \ {id} PROVE Agree(x) => Agree(x)'
  <2>1. docMem'[x] = docMem[x] /\ doc'[x] \in {doc[x], docMem[x]}
    BY <1>5 DEF RetentionIndex, CommitFails, Set
  <2> QED BY <1>4, <2>1, CommitAgree
<1>6. Frame(t, {id})
  BY <1>2, <1>4, <1>5 DEF Frame
<1>7. TaskInv(t)'
  BY <1>1, <1>3, <1>4 DEF TaskInv, Progress
<1>8. Accounted(id)' /\ Kept(id)'
  <2>1. id \notin excused => chunk[id] = Dead
    BY <1>1 DEF TaskInv, Progress
  <2>2. docMem'[id] = Absent /\ doc'[id] \in {doc[id], Absent}
    BY DEF RetentionIndex, CommitFails, Set
  <2>3. id \notin excused /\ Agree(id) => Agree(id)'
    BY <1>4, <2>1, <2>2, StoreAssumption DEF StoreAssumption, Agree, Visible, Live
  <2>4. Covered(id) => Covered(id)'
    BY <1>4 DEF Covered
  <2> QED BY <1>4, <2>3, <2>4
            DEF IInv, DivergenceCovered, AckedSurvives, Accounted, Kept, Live
<1> QED BY <1>1, <1>3, <1>4, <1>6, <1>7, <1>8, OwnStep

LEMMA RetentionDeleteInv ==
    ASSUME IInv, TypeOK', NEW t \in Tasks, RetentionDelete(t)
    PROVE  IInv'
<1> DEFINE S == task[t].sweep
           rest == task[t].ids \ S
<1>1. /\ Busy(t) /\ task[t] \in Task /\ task[t].op = "retention"
      /\ task[t].ids \in SUBSET Ids /\ TaskInv(t) /\ S \subseteq task[t].ids
  BY BusyTask DEF RetentionDelete, IInv, TaskInv
<1>2. \A u \in Tasks \ {t} : task'[u] = task[u]
  BY DEF RetentionDelete, IInv, TypeOK
<1>3. \/ task'[t] = Idle
      \/ task'[t] = [task[t] EXCEPT !.pc = "index", !.ids = rest, !.sweep = {}]
  BY <1>1 DEF RetentionDelete, IInv, TypeOK
<1>4. Busy(t)' => /\ task'[t].pc = "index" /\ task'[t].op = "retention"
                  /\ task'[t].ids = rest /\ task'[t].sweep = {}
                  /\ task'[t].seq = task[t].seq
  BY <1>1, <1>3 DEF Busy, Task
<1>5. /\ UNCHANGED <<doc, docMem, wal, nextSeq, mode, todo, excused, acked>>
      /\ \A id \in Ids : chunk'[id] = IF id \in S THEN Absent ELSE chunk[id]
  BY DEF RetentionDelete, ghosts, Set
<1>6. Frame(t, S)
  BY <1>2, <1>5 DEF Frame, Agree, Visible, Live
<1>7. TaskInv(t)'
  <2> SUFFICES ASSUME Busy(t)' PROVE TaskInv(t)'
    BY DEF TaskInv
  <2>1. ASSUME NEW id \in rest \ excused PROVE Progress(t, id)'
    BY <1>1, <1>4, <1>5, <2>1 DEF TaskInv, Progress
  <2>2. task[t].seq = 0
    BY <1>1 DEF TaskInv
  <2> QED BY <1>1, <1>4, <1>5, <2>1, <2>2 DEF TaskInv
<1>8. ASSUME NEW id \in S PROVE Accounted(id)' /\ Kept(id)'
  <2>1. id \notin excused => chunk[id] = Dead
    BY <1>1 DEF TaskInv, Progress
  <2>2. id \notin excused /\ Agree(id) => Agree(id)'
    BY <1>1, <1>5, <2>1, StoreAssumption DEF StoreAssumption, Agree, Visible, Live
  <2>3. Covered(id) => Covered(id)'
    BY <1>5 DEF Covered
  <2>4. acked'[id] = 0
    BY <1>1, <1>5 DEF TaskInv
  <2> QED BY <1>1, <1>5, <2>2, <2>3, <2>4 DEF IInv, DivergenceCovered, Accounted, Kept
<1> QED BY <1>1, <1>4, <1>5, <1>6, <1>7, <1>8, OwnStep

-----------------------------------------------------------------------------
(* Crash and recovery *)

\* While no task runs only the stores, the log and the promises matter.
LEMMA NoTasks ==
    ASSUME IInv, TypeOK', \A t \in Tasks : ~Busy(t)', Replayed',
           wal' \subseteq wal, nextSeq' = nextSeq,
           \A id \in Ids : Accounted(id)' /\ Kept(id)'
    PROVE  IInv'
<1>1. Alone' /\ Overlaps' /\ \A t \in Tasks : TaskInv(t)'
  BY DEF Alone, Overlaps, TaskInv
<1>2. Numbers'
  BY DEF IInv, Numbers
<1>3. DivergenceCovered' /\ AckedSurvives'
  BY DEF DivergenceCovered, AckedSurvives, Accounted, Kept
<1> QED BY <1>1, <1>2, <1>3 DEF IInv

LEMMA CrashInv ==
    ASSUME IInv, TypeOK', Crash
    PROVE  IInv'
<1>1. \A t \in Tasks : ~Busy(t)'
  BY DEF Crash, Busy
<1>2. \A id \in Ids : Accounted(id)' /\ Kept(id)'
  BY DEF Crash, ghosts, IInv, DivergenceCovered, AckedSurvives, Accounted, Kept,
         Covered, Agree, Visible, Live
<1>3. Replayed'
  BY DEF Crash, Replayed
<1>4. wal' = wal /\ nextSeq' = nextSeq
  BY DEF Crash
<1> QED BY <1>1, <1>2, <1>3, <1>4, NoTasks

LEMMA BootInv ==
    ASSUME IInv, TypeOK', Boot
    PROVE  IInv'
<1>1. \A t \in Tasks : ~Busy(t)'
  BY DEF Boot, Busy, IInv, Alone
<1>2. \A id \in Ids : Accounted(id)' /\ Kept(id)'
  BY DEF Boot, stores, ghosts, IInv, DivergenceCovered, AckedSurvives, Accounted, Kept,
         Covered, Agree, Visible, Live
<1>3. Replayed'
  BY DEF Boot, AfterScan, Replayed
<1>4. wal' = wal /\ nextSeq' = nextSeq
  BY DEF Boot
<1> QED BY <1>1, <1>2, <1>3, <1>4, NoTasks

LEMMA ReplayInv ==
    ASSUME IInv, TypeOK', NEW i \in wal, Replay(i)
    PROVE  IInv'
<1>1. /\ mode = "replay" /\ mode' = "replay" /\ todo' = todo \ {i}
      /\ UNCHANGED <<wal, nextSeq, task, excused>>
  BY DEF Replay
<1>2. \A t \in Tasks : ~Busy(t)'
  BY <1>1 DEF Busy, IInv, Alone
<1>3. i.ids \in SUBSET Ids /\ i.op \in IntentOps
  BY DEF IInv, TypeOK, Intent
<1>4. \A id \in Ids \ i.ids : /\ chunk'[id] = chunk[id] /\ docMem'[id] = docMem[id]
                              /\ doc'[id] \in {doc[id], docMem[id]}
                              /\ acked'[id] = acked[id]
  <2>1. CASE i.op = "store"
    BY <2>1 DEF Replay, Commit, Set
  <2>2. CASE i.op # "store"
    <3>1. \A id \in Ids \ i.ids : ChunksAfter(i.op, i.ids, Absent)[id] = chunk[id]
      BY <1>3, ChunksAfterOp DEF IInv, IntentOps, AllOps
    <3> QED BY <2>2, <3>1 DEF Replay, Commit, Set, IInv, TypeOK
  <2> QED BY <2>1, <2>2
<1>5. \A id \in i.ids : docMem'[id] = Visible(id)'
  <2>1. CASE i.op = "store"
    BY <1>3, <2>1 DEF Replay, Commit, Set, Visible, Live
  <2>2. CASE i.op # "store"
    <3>1. \A id \in i.ids : chunk'[id] \in {Absent, Dead}
      BY <1>3, <2>2, ChunksAfterOp DEF Replay, IInv, IntentOps, AllOps
    <3>2. \A id \in i.ids : docMem'[id] = Absent
      BY <1>3, <2>2 DEF Replay, Commit, Set
    <3> QED BY <1>3, <3>1, <3>2, StoreAssumption DEF StoreAssumption, Visible, Live
  <2> QED BY <2>1, <2>2
<1>6. \A id \in i.ids : Kept(id)'
  <2>1. CASE i.op = "store"
    BY <1>3, <2>1 DEF Replay, IInv, AckedSurvives, Kept, Live
  <2>2. CASE i.op # "store"
    BY <1>3, <2>2 DEF Replay, Set, Kept
  <2> QED BY <2>1, <2>2
<1>7. \A id \in Ids : Accounted(id)' /\ Kept(id)'
  <2> SUFFICES ASSUME NEW id \in Ids PROVE Accounted(id)' /\ Kept(id)'
    OBVIOUS
  <2>1. CASE id \in i.ids
    BY <1>1, <1>6, <2>1 DEF Accounted, Covered
  <2>2. CASE id \notin i.ids
    BY <1>1, <1>4, <2>2, CommitAgree
    DEF IInv, DivergenceCovered, AckedSurvives, Accounted, Covered, Kept, Live
  <2> QED BY <2>1, <2>2
<1>8. Replayed'
  <2>1. ASSUME NEW j \in wal \ todo', NEW id \in j.ids PROVE docMem'[id] = Visible(id)'
    <3>1. CASE id \in i.ids
      BY <1>5, <3>1
    <3>2. CASE id \notin i.ids
      <4>1. j \in wal \ todo /\ id \in Ids
        BY <1>1, <2>1, <3>2 DEF IInv, TypeOK, Intent
      <4>2. docMem[id] = Visible(id)
        BY <1>1, <4>1 DEF IInv, Replayed
      <4> QED BY <1>4, <3>2, <4>1, <4>2 DEF Visible, Live
    <3> QED BY <3>1, <3>2
  <2> QED BY <1>1, <2>1 DEF Replayed, IInv
<1> QED BY <1>1, <1>2, <1>7, <1>8, NoTasks

LEMMA CommitReplayInv ==
    ASSUME IInv, TypeOK', CommitReplay
    PROVE  IInv'
<1>1. /\ mode = "replay" /\ mode' = "ack" /\ todo = {} /\ todo' = {}
      /\ UNCHANGED <<chunk, wal, nextSeq, task, acked>>
      /\ docMem' = docMem /\ doc' = docMem
      /\ excused' = {id \in excused : ~Covered(id)}
  BY DEF CommitReplay, AllReplayed, PublishReplayed, Commit
<1>2. \A t \in Tasks : ~Busy(t)'
  BY <1>1 DEF Busy, IInv, Alone
<1>3. \A id \in Ids : Accounted(id)' /\ Kept(id)'
  BY <1>1 DEF IInv, DivergenceCovered, AckedSurvives, Accounted, Kept,
              Covered, Agree, Visible, Live
<1>4. Replayed'
  BY <1>1 DEF IInv, Replayed, Agree, Visible, Live
<1> QED BY <1>1, <1>2, <1>3, <1>4, NoTasks

LEMMA AckInv ==
    ASSUME IInv, TypeOK', NEW i \in wal, Ack(i)
    PROVE  IInv'
<1>1. /\ mode = "ack" /\ mode' \in {"ack", "up"} /\ todo = {} /\ todo' = {}
      /\ UNCHANGED <<chunk, doc, docMem, nextSeq, task, excused, acked>>
      /\ wal' = wal \ {i}
  BY DEF Ack, AfterAck, stores, ghosts, IInv, Replayed
<1>2. \A t \in Tasks : ~Busy(t)'
  BY <1>1 DEF Busy, IInv, Alone
<1>3. \A id \in Ids : Accounted(id)' /\ Kept(id)'
  BY <1>1 DEF IInv, Replayed, DivergenceCovered, AckedSurvives, Accounted, Kept,
              Covered, Agree, Visible, Live
<1>4. Replayed'
  BY <1>1 DEF IInv, Replayed, Agree, Visible, Live
<1> QED BY <1>1, <1>2, <1>3, <1>4, NoTasks

-----------------------------------------------------------------------------
(* The theorems *)

LEMMA IInvInit == Init => IInv
<1> SUFFICES ASSUME Init PROVE IInv
  OBVIOUS
<1>1. \A t \in Tasks : ~Busy(t)
  BY DEF Init, Busy
<1>2. \A id \in Ids : Agree(id) /\ acked[id] = 0
  BY StoreAssumption DEF StoreAssumption, Init, Agree, Visible, Live
<1>3. Numbers /\ Replayed
  BY <1>1 DEF Init, Numbers, Replayed
<1> QED BY <1>1, <1>2, <1>3, TypeInit
        DEF Init, IInv, Alone, Overlaps, TaskInv, DivergenceCovered, AckedSurvives

LEMMA IInvStep == IInv /\ [Next]_vars => IInv'
<1> SUFFICES ASSUME IInv, [Next]_vars PROVE IInv'
  OBVIOUS
<1>1. TypeOK'
  BY TypeStep DEF IInv
<1>2. ASSUME NEW t \in Tasks, TaskStep(t) PROVE IInv'
  <2>1. CASE \E op \in Ops, S \in Streams \union {{id} : id \in Ids},
                v \in Contents \union {Absent} : Begin(t, op, S, v)
    BY <1>1, <2>1, BeginInv
  <2>2. CASE \E id \in Ids : BeginUnlogged(t, id) \/ TouchRead(t, id) \/ RetentionIndex(t, id)
    BY <1>1, <2>2, BeginUnloggedInv, TouchReadInv, RetentionIndexInv
  <2>3. CASE StoreStep(t) \/ GiveUp(t)
    BY <1>1, <2>3, StoreStepInv, GiveUpInv
  <2>4. CASE IndexStep(t) \/ IndexFailsStrict(t) \/ IndexFailsLax(t)
    BY <1>1, <2>4, IndexStepInv, IndexFailsStrictInv, IndexFailsLaxInv
  <2>5. CASE Mark(t) \/ TouchWrite(t) \/ RetentionDelete(t)
    BY <1>1, <2>5, MarkInv, TouchWriteInv, RetentionDeleteInv
  <2>6. CASE \E S \in SUBSET Ids : RetentionScan(t, S)
    BY <1>1, <2>6, RetentionScanInv
  <2> QED BY <1>2, <2>1, <2>2, <2>3, <2>4, <2>5, <2>6 DEF TaskStep
<1>3. CASE Crash
  BY <1>1, <1>3, CrashInv
<1>4. CASE Recover
  BY <1>1, <1>4, BootInv, CommitReplayInv, ReplayInv, AckInv DEF Recover
<1>5. CASE UNCHANGED vars
  <2>1. UNCHANGED <<chunk, doc, docMem, wal, nextSeq, task, mode, todo, excused, acked>>
    BY <1>5 DEF vars
  <2> QED BY <1>1, <2>1 DEF IInv, Alone, Numbers, Overlaps, TaskInv, Replayed, Progress,
             Settled, DivergenceCovered, AckedSurvives, Covered, Agree, Visible, Live, Busy
<1> QED BY <1>2, <1>3, <1>4, <1>5 DEF Next

\* For every number of ids, namespaces and concurrent tasks, and any sequence
\* of failures, crashes and partial recoveries: where RocksDB and Tantivy
\* disagree on an id a pending intent names it, unless tasks overlapped on the
\* id or a handler passed over an index error.
THEOREM DivergenceAlwaysCovered == Spec => []DivergenceCovered
<1>1. IInv => DivergenceCovered
  BY DEF IInv
<1> QED BY <1>1, IInvInit, IInvStep, PTL DEF Spec

\* In the same generality, no store that returned Ok is lost to a failure, a
\* crash or a recovery.
THEOREM AckedAlwaysSurvives == Spec => []AckedSurvives
<1>1. IInv => AckedSurvives
  BY DEF IInv
<1> QED BY <1>1, IInvInit, IInvStep, PTL DEF Spec
-----------------------------------------------------------------------------
(* The two stores implement Memory *)

InDoubt(id) == Covered(id) \/ id \in excused

LEMMA DoubtMembers == \A id \in Ids : id \in IdsInDoubt <=> InDoubt(id)
BY DEF IdsInDoubt, InDoubt

\* The invariant says of an id that is not in doubt what a reader of both
\* stores gets, and of one that is kept that there is something to get.
LEMMA Reads ==
    ASSUME IInv
    PROVE  /\ \A id \in Ids : ~InDoubt(id) => doc[id] = Visible(id)
           /\ \A id \in KeptIds : id \in Ids /\ Live(id)
           /\ acked \in [Ids -> Nat]
<1>1. acked \in [Ids -> Nat]
  BY StoreAssumption DEF StoreAssumption, IInv, TypeOK
<1> QED BY <1>1 DEF IInv, DivergenceCovered, AckedSurvives, Agree, InDoubt, KeptIds

LEMMA ReadableNext == ASSUME IInv' PROVE Abstract!Readable'
BY DEF IInv, AckedSurvives, Abstract!Readable, KeptIds, VisibleValues, Visible, Live

\* Only ids in doubt stop being kept.
Releases ==
    \A id \in Ids : \/ acked'[id] = acked[id]
                    \/ acked'[id] = 0 /\ (acked[id] = 0 \/ InDoubt(id)')

LEMMA ReleasesKept ==
    ASSUME Releases
    PROVE  KeptIds' \subseteq KeptIds /\ KeptIds \ KeptIds' \subseteq IdsInDoubt'
BY DEF Releases, KeptIds, IdsInDoubt, InDoubt

LEMMA RequestStep ==
    ASSUME IInv, Releases, UNCHANGED <<chunk, doc>>,
           \A id \in Ids : InDoubt(id) => InDoubt(id)'
    PROVE  \E S \in SUBSET Ids : Abstract!Request(S)
<1>1. IdsInDoubt' = IdsInDoubt \union IdsInDoubt' /\ IdsInDoubt' \in SUBSET Ids
  BY DEF IdsInDoubt, InDoubt
<1>2. VisibleValues' = VisibleValues
  BY DEF VisibleValues, Visible, Live
<1>3. Abstract!Released
  BY ReleasesKept DEF Abstract!Released
<1>4. Abstract!Request(IdsInDoubt')
  BY <1>1, <1>2, <1>3 DEF Abstract!Request
<1> QED BY <1>1, <1>4

LEMMA WorkStep ==
    ASSUME IInv, IInv', Releases,
           \A id \in Ids : InDoubt(id)' <=> InDoubt(id),
           \A id \in Ids : ~InDoubt(id) => Visible(id)' = Visible(id)
    PROVE  Abstract!Work
<1>1. IdsInDoubt' = IdsInDoubt
  BY DEF IdsInDoubt, InDoubt
<1>2. ASSUME NEW id \in Ids \ IdsInDoubt
      PROVE  VisibleValues'[id] = VisibleValues[id] /\ doc'[id] = doc[id]
  <2>1. ~InDoubt(id) /\ ~InDoubt(id)'
    BY <1>2, DoubtMembers
  <2>2. doc[id] = Visible(id)
    BY <2>1, Reads
  <2>3. doc'[id] = Visible(id)'
    BY <2>1 DEF IInv, DivergenceCovered, Agree, InDoubt
  <2> QED BY <2>1, <2>2, <2>3 DEF VisibleValues
<1>3. Abstract!Released
  BY ReleasesKept DEF Abstract!Released
<1> QED BY <1>1, <1>2, <1>3, ReadableNext DEF Abstract!Work

LEMMA SettleStep ==
    ASSUME IInv, IInv', UNCHANGED <<chunk, doc>>,
           \A id \in Ids : InDoubt(id)' => InDoubt(id),
           \A id \in Ids : acked'[id] = acked[id] \/ (InDoubt(id) /\ (acked[id] > 0 => acked'[id] > 0))
    PROVE  \E S, K \in SUBSET Ids : Abstract!Settle(S, K)
<1>1. VisibleValues' = VisibleValues
  BY DEF VisibleValues, Visible, Live
<1>2. PICK S : S = {id \in Ids : InDoubt(id) /\ ~InDoubt(id)'}
  OBVIOUS
<1>3. PICK K : K = {id \in Ids : acked'[id] > 0 /\ ~(acked[id] > 0)}
  OBVIOUS
<1>4. \A id \in S : VisibleValues[id] = doc[id]
  <2>1. ASSUME NEW id \in S PROVE doc'[id] = Visible(id)'
    BY <1>2 DEF IInv, DivergenceCovered, Agree, InDoubt
  <2> QED BY <1>1, <1>2, <2>1 DEF VisibleValues
<1>5. IdsInDoubt' = IdsInDoubt \ S /\ S \in SUBSET Ids
  BY <1>2 DEF IdsInDoubt, InDoubt
<1>6. K \subseteq IdsInDoubt /\ K \in SUBSET Ids /\ KeptIds' = KeptIds \union K
  BY <1>3 DEF IdsInDoubt, InDoubt, KeptIds
<1>7. Abstract!Settle(S, K)
  BY <1>1, <1>4, <1>5, <1>6, ReadableNext DEF Abstract!Settle
<1> QED BY <1>5, <1>6, <1>7

\* A step of a task that reads its ids' value and leaves it as it was, and may
\* change freely what is in doubt.
LEMMA TaskWorks ==
    ASSUME IInv, IInv', NEW t \in Tasks, Busy(t), UNCHANGED <<wal, acked>>,
           excused \subseteq excused',
           \A id \in excused' \ excused : id \in task[t].ids,
           excused' # excused => task[t].op \notin {"touch", "retention"},
           \A id \in Ids : Visible(id)' # Visible(id)
                             => /\ id \in task[t].ids
                                /\ task[t].op \notin {"touch", "retention"}
    PROVE  Abstract!Work
<1>1. \A id \in task[t].ids : task[t].op \notin {"touch", "retention"} => InDoubt(id)
  BY DEF IInv, TaskInv, InDoubt, Covered
<1>2. \A id \in Ids : InDoubt(id)' <=> InDoubt(id)
  BY <1>1 DEF InDoubt, Covered
<1>3. \A id \in Ids : ~InDoubt(id) => Visible(id)' = Visible(id)
  BY <1>1
<1>4. Releases
  BY DEF Releases
<1> QED BY <1>2, <1>3, <1>4, WorkStep

LEMMA StoreStepWorks ==
    ASSUME IInv, IInv', NEW t \in Tasks, StoreStep(t)
    PROVE  Abstract!Work
<1>1. Busy(t) /\ task[t].op \notin {"touch", "retention"} /\ UNCHANGED <<wal, ghosts>>
  BY DEF StoreStep, Busy, Idle
<1>2. /\ task[t].ids \in SUBSET Ids /\ task[t].op \in AllOps \ {"touch", "retention"}
      /\ task[t].val \in Contents \union {Absent}
  BY <1>1, BusyTask DEF StoreStep, IInv
<1>3. chunk' = ChunksAfter(task[t].op, task[t].ids, task[t].val) /\ TypeOK
  BY DEF StoreStep, IInv
<1>4. \A id \in Ids \ task[t].ids : chunk'[id] = chunk[id]
  BY <1>2, <1>3, ChunksAfterOp
<1>5. \A id \in Ids : Visible(id)' # Visible(id) => id \in task[t].ids
  BY <1>4 DEF Visible, Live
<1> QED BY <1>1, <1>5, TaskWorks DEF ghosts

LEMMA IndexWorks ==
    ASSUME IInv, IInv', NEW t \in Tasks,
           \/ GiveUp(t) \/ IndexStep(t) \/ IndexFailsStrict(t) \/ IndexFailsLax(t)
           \/ \E id \in Ids : RetentionIndex(t, id)
    PROVE  Abstract!Work
<1>1. Busy(t) /\ UNCHANGED <<chunk, wal, acked>>
  <2>1. CASE GiveUp(t)
    BY <2>1 DEF GiveUp, stores, ghosts
  <2>2. CASE IndexStep(t) \/ IndexFailsStrict(t) \/ IndexFailsLax(t)
    BY <2>2, BusyTask DEF IndexStep, IndexFailsStrict, IndexFailsLax, ghosts, IInv
  <2>3. ASSUME NEW id \in Ids, RetentionIndex(t, id) PROVE <1>1!:
    BY <2>3, BusyTask DEF RetentionIndex, ghosts, IInv
  <2> QED BY <2>1, <2>2, <2>3
<1>2. excused' = excused \/ /\ excused' = excused \union task[t].ids
                            /\ task[t].op \notin {"touch", "retention"}
  BY DEF GiveUp, IndexStep, IndexFailsStrict, IndexFailsLax, RetentionIndex, ghosts
<1>3. \A id \in Ids : Visible(id)' = Visible(id)
  BY <1>1 DEF Visible, Live
<1> QED BY <1>1, <1>2, <1>3, TaskWorks

LEMMA TouchWriteWorks ==
    ASSUME IInv, IInv', NEW t \in Tasks, TouchWrite(t)
    PROVE  Abstract!Work
<1>1. Busy(t) /\ UNCHANGED <<wal, ghosts>> /\ task[t].op = "touch"
  BY DEF TouchWrite, Busy, Idle
<1>2. \A id \in Ids : ~InDoubt(id) => chunk'[id] = chunk[id]
  BY <1>1 DEF TouchWrite, Set, IInv, TypeOK, TaskInv, Progress, InDoubt
<1>3. \A id \in Ids : ~InDoubt(id) => Visible(id)' = Visible(id)
  BY <1>2 DEF Visible, Live
<1>4. \A id \in Ids : InDoubt(id)' <=> InDoubt(id)
  BY <1>1 DEF InDoubt, Covered, ghosts
<1>5. Releases
  BY <1>1 DEF Releases, ghosts
<1> QED BY <1>3, <1>4, <1>5, WorkStep

LEMMA RetentionDeleteWorks ==
    ASSUME IInv, IInv', NEW t \in Tasks, RetentionDelete(t)
    PROVE  Abstract!Work
<1>1. Busy(t) /\ UNCHANGED <<wal, ghosts>> /\ task[t].op = "retention"
  BY DEF RetentionDelete, Busy, Idle
<1>2. \A id \in Ids : ~InDoubt(id) =>
         chunk'[id] = chunk[id] \/ (chunk[id] = Dead /\ chunk'[id] = Absent)
  <2>1. \A id \in Ids : chunk'[id] = IF id \in task[t].sweep THEN Absent ELSE chunk[id]
    BY DEF RetentionDelete, Set
  <2>2. \A id \in task[t].sweep \ excused : chunk[id] = Dead
    BY <1>1 DEF IInv, TaskInv, Progress
  <2> QED BY <2>1, <2>2 DEF InDoubt
<1>3. \A id \in Ids : ~InDoubt(id) => Visible(id)' = Visible(id)
  BY <1>2, StoreAssumption DEF StoreAssumption, Visible, Live
<1>4. \A id \in Ids : InDoubt(id)' <=> InDoubt(id)
  BY <1>1 DEF InDoubt, Covered, ghosts
<1>5. Releases
  BY <1>1 DEF Releases, ghosts
<1> QED BY <1>3, <1>4, <1>5, WorkStep

\* Recovery and crashes.
LEMMA ReplayWorks ==
    ASSUME IInv, IInv', NEW i \in wal, Replay(i)
    PROVE  Abstract!Work
<1>1. UNCHANGED <<wal, excused>> /\ i.ids \in SUBSET Ids /\ i.op \in IntentOps
  BY DEF Replay, IInv, TypeOK, Intent
<1>2. \A id \in Ids : InDoubt(id)' <=> InDoubt(id)
  BY <1>1 DEF InDoubt, Covered
<1>3. \A id \in i.ids : InDoubt(id) /\ InDoubt(id)'
  BY <1>1 DEF InDoubt, Covered
<1>4. \A id \in Ids \ i.ids : chunk'[id] = chunk[id] /\ acked'[id] = acked[id]
  <2>1. CASE i.op = "store"
    BY <2>1 DEF Replay
  <2>2. CASE i.op # "store"
    BY <1>1, <2>2, ChunksAfterOp DEF Replay, Set, IInv, IntentOps, AllOps
  <2> QED BY <2>1, <2>2
<1>5. \A id \in i.ids : acked'[id] \in {acked[id], 0}
  BY <1>1 DEF Replay, Set
<1>6. \A id \in Ids : ~InDoubt(id) => Visible(id)' = Visible(id)
  BY <1>3, <1>4 DEF Visible, Live
<1>7. Releases
  BY <1>3, <1>4, <1>5 DEF Releases
<1> QED BY <1>2, <1>6, <1>7, WorkStep

LEMMA ProcessWorks ==
    ASSUME IInv, IInv', Crash \/ Boot \/ CommitReplay
    PROVE  Abstract!Work
<1>1. UNCHANGED <<chunk, wal, acked>>
  BY DEF Crash, Boot, CommitReplay, stores, ghosts
<1>2. excused' = excused \/ excused' = {id \in excused : ~Covered(id)}
  BY DEF Crash, Boot, CommitReplay, ghosts
<1>3. \A id \in Ids : InDoubt(id)' <=> InDoubt(id)
  BY <1>1, <1>2 DEF InDoubt, Covered
<1>4. \A id \in Ids : Visible(id)' = Visible(id)
  BY <1>1 DEF Visible, Live
<1>5. Releases
  BY <1>1 DEF Releases
<1> QED BY <1>3, <1>4, <1>5, WorkStep

\* Ok to a caller, of a request or of recovery.
LEMMA MarkSettles ==
    ASSUME IInv, IInv', NEW t \in Tasks, Mark(t)
    PROVE  \E S, K \in SUBSET Ids : Abstract!Settle(S, K)
<1>1. /\ Busy(t) /\ task[t].pc = "mark" /\ task[t].ids \in SUBSET Ids
      /\ task[t].seq \in Nat
  BY BusyTask, StoreAssumption DEF StoreAssumption, Mark, IInv
<1>2. /\ UNCHANGED <<chunk, doc, excused>> /\ wal' \subseteq wal
      /\ \/ acked' = acked
         \/ /\ task[t].op = "store"
            /\ acked' = Set(acked, task[t].ids \ excused, task[t].seq)
  BY DEF Mark, stores
<1>3. \A id \in Ids : InDoubt(id)' => InDoubt(id)
  BY <1>2 DEF InDoubt, Covered
<1>4. task[t].op = "store" /\ task[t].ids \ excused # {}
         => task[t].seq > 0 /\ \A id \in task[t].ids : InDoubt(id)
  <2>1. task[t].seq # 0 => \A id \in task[t].ids : InDoubt(id)
    BY <1>1 DEF IInv, TaskInv, InDoubt, Covered
  <2>2. task[t].op = "store" /\ task[t].seq = 0 => task[t].ids \subseteq excused
    BY <1>1 DEF IInv, TaskInv
  <2> QED BY <1>1, <2>1, <2>2
<1>5. ASSUME NEW id \in Ids
      PROVE  acked'[id] = acked[id] \/ (InDoubt(id) /\ (acked[id] > 0 => acked'[id] > 0))
  BY <1>2, <1>4 DEF Set
<1> QED BY <1>2, <1>3, <1>5, SettleStep

LEMMA AckSettles ==
    ASSUME IInv, IInv', NEW i \in wal, Ack(i)
    PROVE  \E S, K \in SUBSET Ids : Abstract!Settle(S, K)
<1>1. UNCHANGED <<chunk, doc, excused, acked>> /\ wal' \subseteq wal
  BY DEF Ack, stores, ghosts
<1>2. \A id \in Ids : InDoubt(id)' => InDoubt(id)
  BY <1>1 DEF InDoubt, Covered
<1> QED BY <1>1, <1>2, SettleStep

\* The four ways to ask for a change.
LEMMA OverlapReleases ==
    ASSUME IInv, NEW S \in SUBSET Ids, NEW removed \in SUBSET S, Overlap(S, removed),
           wal \subseteq wal', \A id \in removed : InDoubt(id)' \/ acked[id] = 0
    PROVE  Releases /\ \A id \in Ids : InDoubt(id) => InDoubt(id)'
<1>1. \A id \in Ids : InDoubt(id) => InDoubt(id)'
  BY DEF Overlap, InDoubt, Covered
<1>2. \A id \in S \cap InFlight : InDoubt(id)'
  BY DEF Overlap, InDoubt
<1>3. \A id \in Ids : acked'[id] = IF id \in removed \union (S \cap InFlight) THEN 0 ELSE acked[id]
  BY DEF Overlap, Set
<1> QED BY <1>1, <1>2, <1>3 DEF Releases

LEMMA BeginRequests ==
    ASSUME IInv, NEW t \in Tasks, NEW op \in Ops, NEW v \in Contents \union {Absent},
           NEW S \in Streams \union {{id} : id \in Ids}, Begin(t, op, S, v)
    PROVE  \E T \in SUBSET Ids : Abstract!Request(T)
<1>1. S \in SUBSET Ids
  BY StoreAssumption DEF StoreAssumption
<1>2. /\ UNCHANGED <<chunk, doc>> /\ wal \subseteq wal'
      /\ [seq |-> nextSeq, op |-> LoggedAs(op), ids |-> S] \in wal'
  BY DEF Begin, stores
<1>3. \A id \in S : InDoubt(id)'
  BY <1>2 DEF InDoubt, Covered
<1>4. Overlap(S, IF op = "store" THEN {} ELSE S)
  BY DEF Begin
<1>5. Releases /\ \A id \in Ids : InDoubt(id) => InDoubt(id)'
  <2>1. CASE op = "store"
    BY <1>1, <1>2, <1>4, <2>1, OverlapReleases
  <2>2. CASE op # "store"
    BY <1>1, <1>2, <1>3, <1>4, <2>2, OverlapReleases
  <2> QED BY <2>1, <2>2
<1> QED BY <1>2, <1>5, RequestStep

LEMMA BeginUnloggedRequests ==
    ASSUME IInv, NEW t \in Tasks, NEW id \in Ids, BeginUnlogged(t, id)
    PROVE  \E T \in SUBSET Ids : Abstract!Request(T)
<1>1. /\ UNCHANGED <<chunk, doc, wal>> /\ excused' = excused \union {id}
      /\ \A x \in Ids : acked'[x] = IF x = id THEN 0 ELSE acked[x]
  BY DEF BeginUnlogged, stores, Set
<1>2. \A x \in Ids : InDoubt(x) => InDoubt(x)'
  BY <1>1 DEF InDoubt, Covered
<1>3. Releases
  BY <1>1 DEF Releases, InDoubt
<1> QED BY <1>1, <1>2, <1>3, RequestStep

LEMMA TouchReadRequests ==
    ASSUME IInv, NEW t \in Tasks, NEW id \in Ids, TouchRead(t, id)
    PROVE  \E T \in SUBSET Ids : Abstract!Request(T)
<1>1. UNCHANGED <<chunk, doc, wal>> /\ Overlap({id}, {})
  BY DEF TouchRead, stores
<1>2. Releases /\ \A x \in Ids : InDoubt(x) => InDoubt(x)'
  BY <1>1, OverlapReleases
<1> QED BY <1>1, <1>2, RequestStep

LEMMA RetentionScanRequests ==
    ASSUME IInv, NEW t \in Tasks, NEW S \in SUBSET Ids, RetentionScan(t, S)
    PROVE  \E T \in SUBSET Ids : Abstract!Request(T)
<1>1. UNCHANGED <<chunk, doc, wal>> /\ Overlap(S, S) /\ \A id \in S : chunk[id] = Dead
  BY DEF RetentionScan, stores
<1>2. \A id \in S : acked[id] = 0
  <2>1. \A id \in S : ~Live(id)
    BY <1>1, StoreAssumption DEF StoreAssumption, Live
  <2>2. acked \in [Ids -> Nat]
    BY Reads
  <2> QED BY <2>1, <2>2 DEF IInv, AckedSurvives
<1>3. Releases /\ \A x \in Ids : InDoubt(x) => InDoubt(x)'
  BY <1>1, <1>2, OverlapReleases
<1> QED BY <1>1, <1>3, RequestStep

LEMMA Simulates == IInv /\ IInv' /\ [Next]_vars => [Abstract!Next]_(Abstract!vars)
<1> SUFFICES ASSUME IInv, IInv', [Next]_vars PROVE [Abstract!Next]_(Abstract!vars)
  OBVIOUS
<1> DEFINE requests == \E S \in SUBSET Ids : Abstract!Request(S)
           works == Abstract!Work
           settles == \E S, K \in SUBSET Ids : Abstract!Settle(S, K)
<1>1. ASSUME NEW t \in Tasks, TaskStep(t) PROVE requests \/ works \/ settles
  <2>1. CASE \E op \in Ops, S \in Streams \union {{id} : id \in Ids},
                v \in Contents \union {Absent} : Begin(t, op, S, v)
    BY <2>1, BeginRequests
  <2>2. CASE \E id \in Ids : BeginUnlogged(t, id) \/ TouchRead(t, id) \/ RetentionIndex(t, id)
    BY <2>2, BeginUnloggedRequests, TouchReadRequests, IndexWorks
  <2>3. CASE StoreStep(t) \/ GiveUp(t) \/ IndexStep(t) \/ IndexFailsStrict(t) \/ IndexFailsLax(t)
    BY <2>3, StoreStepWorks, IndexWorks
  <2>4. CASE Mark(t)
    BY <2>4, MarkSettles
  <2>5. CASE TouchWrite(t) \/ RetentionDelete(t)
    BY <2>5, TouchWriteWorks, RetentionDeleteWorks
  <2>6. CASE \E S \in SUBSET Ids : RetentionScan(t, S)
    BY <2>6, RetentionScanRequests
  <2> QED BY <1>1, <2>1, <2>2, <2>3, <2>4, <2>5, <2>6 DEF TaskStep
<1>2. ASSUME Crash PROVE works
  BY <1>2, ProcessWorks
<1>3. ASSUME Recover PROVE works \/ settles
  BY <1>3, ProcessWorks, ReplayWorks, AckSettles DEF Recover
<1>4. CASE UNCHANGED vars
  <2>1. UNCHANGED <<chunk, doc, wal, excused, acked>>
    BY <1>4 DEF vars
  <2> QED BY <2>1 DEF Abstract!vars, VisibleValues, Visible, Live, IdsInDoubt, Covered, KeptIds
<1> HIDE DEF requests, works, settles
<1>5. requests \/ works \/ settles \/ UNCHANGED vars
  BY <1>1, <1>2, <1>3 DEF Next
<1> QED BY <1>4, <1>5 DEF requests, works, settles, Abstract!Next

LEMMA InitSimulates == Init => Abstract!Init
BY StoreAssumption
DEF StoreAssumption, Init, Abstract!Init, Abstract!Nothing, VisibleValues, Visible, Live,
    IdsInDoubt, Covered, KeptIds

\* In the same generality, the two stores, their log and their recovery are one
\* Memory: an id that no pending intent names and no overlap touched reads the
\* same by id and by search, is changed by no step of anyone, and no intent is
\* marked committed before both stores agree on its ids.
THEOREM Implements == Spec => RefinesMemory
<1>1. IInv /\ IInv' /\ [Next]_vars => [Abstract!Next]_(Abstract!vars)
  BY Simulates
<1> QED BY <1>1, InitSimulates, IInvInit, IInvStep, PTL
        DEF Spec, RefinesMemory, Abstract!Spec

-----------------------------------------------------------------------------
(* Requests and recovery are clients of the log *)

\* What a step of a task does to the log, and to the number the task goes by.
Logs(t) == \E i \in Intent : /\ i.seq = nextSeq /\ wal' = wal \union {i}
                             /\ task'[t].seq = nextSeq
Enters(t) == ~Busy(t) /\ Busy(t)' /\ (Logs(t) \/ (task'[t].seq = 0 /\ wal' = wal))
GoesOn(t) == Busy(t) /\ Busy(t)' /\ task'[t].seq = task[t].seq /\ wal' = wal
Leaves(t) == Busy(t) /\ ~Busy(t)' /\ wal' \in {wal, {i \in wal : i.seq # task[t].seq}}

LEMMA StartsLog ==
    ASSUME IInv, NEW t \in Tasks,
           \/ \E op \in Ops, S \in Streams \union {{id} : id \in Ids},
                 v \in Contents \union {Absent} : Begin(t, op, S, v)
           \/ \E id \in Ids : BeginUnlogged(t, id) \/ TouchRead(t, id)
           \/ \E S \in SUBSET Ids : RetentionScan(t, S)
    PROVE  /\ mode = "up" /\ mode' = "up" /\ \A u \in Tasks \ {t} : task'[u] = task[u]
           /\ Enters(t)
<1>1. ASSUME NEW op \in Ops, NEW S \in Streams \union {{id} : id \in Ids},
             NEW v \in Contents \union {Absent}, Begin(t, op, S, v)
      PROVE  /\ mode = "up" /\ mode' = "up" /\ \A u \in Tasks \ {t} : task'[u] = task[u]
             /\ Enters(t)
  <2> DEFINE i == [seq |-> nextSeq, op |-> LoggedAs(op), ids |-> S]
  <2>1. S \in SUBSET Ids /\ op \in AllOps \ {"touch", "retention"} /\ nextSeq \in 1..MaxSeq
    BY <1>1, StoreAssumption DEF StoreAssumption, Begin, IInv, TypeOK
  <2>2. i \in Intent
    BY <2>1, LoggedAsTypes DEF Intent
  <2>3. Logs(t) /\ task'[t].pc = "store" /\ ~Busy(t)
    BY <1>1, <2>2 DEF Logs, Begin, IInv, TypeOK
  <2> QED BY <1>1, <2>3 DEF Begin, Enters, Busy, Idle, IInv, TypeOK
<1>2. ASSUME NEW id \in Ids, BeginUnlogged(t, id) \/ TouchRead(t, id)
      PROVE  /\ mode = "up" /\ mode' = "up" /\ \A u \in Tasks \ {t} : task'[u] = task[u]
             /\ Enters(t)
  BY <1>2 DEF BeginUnlogged, TouchRead, Enters, Busy, Idle, IInv, TypeOK
<1>3. ASSUME NEW S \in SUBSET Ids, RetentionScan(t, S)
      PROVE  /\ mode = "up" /\ mode' = "up" /\ \A u \in Tasks \ {t} : task'[u] = task[u]
             /\ Enters(t)
  BY <1>3 DEF RetentionScan, Enters, Busy, Idle, IInv, TypeOK
<1> QED BY <1>1, <1>2, <1>3

LEMMA WorkLog ==
    ASSUME IInv, NEW t \in Tasks,
           \/ \E id \in Ids : RetentionIndex(t, id)
           \/ StoreStep(t) \/ GiveUp(t) \/ Mark(t) \/ TouchWrite(t) \/ RetentionDelete(t)
           \/ IndexStep(t) \/ IndexFailsStrict(t) \/ IndexFailsLax(t)
    PROVE  /\ mode = "up" /\ mode' = "up" /\ \A u \in Tasks \ {t} : task'[u] = task[u]
           /\ GoesOn(t) \/ Leaves(t)
<1>1. Busy(t) /\ task[t] \in Task /\ mode = "up"
  BY BusyTask, OwnIds DEF IInv, RetentionIndex, StoreStep, GiveUp, Mark, TouchWrite,
     RetentionDelete, IndexStep, IndexFailsStrict, IndexFailsLax
<1>2. CASE \/ \E id \in Ids : RetentionIndex(t, id)
           \/ StoreStep(t) \/ IndexStep(t) \/ IndexFailsLax(t)
  <2>1. \E pc, S : \/ task' = [task EXCEPT ![t].pc = pc]
                   \/ task' = [task EXCEPT ![t].pc = pc, ![t].sweep = S]
    BY <1>2 DEF RetentionIndex, StoreStep, IndexStep, IndexFailsLax
  <2>2. /\ \A u \in Tasks \ {t} : task'[u] = task[u]
        /\ task'[t].seq = task[t].seq /\ task'[t].op = task[t].op /\ task[t].op \in AllOps
    BY <1>1, <2>1 DEF IInv, TypeOK, Task
  <2>3. Busy(t)'
    <3>1. PICK pc, S : \/ task' = [task EXCEPT ![t].pc = pc]
                       \/ task' = [task EXCEPT ![t].pc = pc, ![t].sweep = S]
      BY <2>1
    <3>2. \/ task'[t] = [task[t] EXCEPT !.pc = pc]
          \/ task'[t] = [task[t] EXCEPT !.pc = pc, !.sweep = S]
      BY <1>1, <3>1 DEF IInv, TypeOK
    <3>3. task'[t] # Idle
      BY <1>1, <3>2 DEF Task, Idle
    <3> QED BY <3>3 DEF Busy
  <2>4. wal' = wal /\ mode' = mode
    BY <1>2 DEF RetentionIndex, StoreStep, IndexStep, IndexFailsLax, ghosts
  <2> QED BY <1>1, <2>2, <2>3, <2>4 DEF GoesOn
<1>3. CASE GiveUp(t) \/ Mark(t) \/ TouchWrite(t) \/ IndexFailsStrict(t)
  BY <1>1, <1>3 DEF GiveUp, Mark, TouchWrite, IndexFailsStrict, Stop, Leaves, Busy, IInv, TypeOK
<1>4. CASE RetentionDelete(t)
  BY <1>1, <1>4 DEF RetentionDelete, GoesOn, Leaves, Task, Busy, Idle, IInv, TypeOK
<1> QED BY <1>1, <1>2, <1>3, <1>4 DEF RetentionIndex, StoreStep, GiveUp, Mark, TouchWrite,
     RetentionDelete, IndexStep, IndexFailsStrict, IndexFailsLax, stores, ghosts

\* The intents in hand are, but for the task's own, those that were.
HeldBy(t) == {i \in wal : Busy(t) /\ task[t].seq = i.seq}

LEMMA TaskHolds ==
    ASSUME IInv, NEW t \in Tasks
    PROVE  /\ Busy(t) /\ task[t].seq = 0 => HeldBy(t) = {}
           /\ Busy(t) /\ task[t].seq # 0 =>
                 \E i \in wal : /\ HeldBy(t) = {i} /\ i.seq = task[t].seq
                               /\ {j \in wal : j.seq # task[t].seq} = wal \ {i}
                               /\ \A u \in Tasks \ {t} : i \notin HeldBy(u)
<1>1. \A i \in wal : i \in Intent /\ i.seq # 0
  BY DEF IInv, TypeOK, Intent
<1>2. CASE Busy(t) /\ task[t].seq # 0
  <2>1. PICK i \in wal : i.seq = task[t].seq
    BY <1>2 DEF IInv, TaskInv
  <2>2. \A j \in wal : j.seq = i.seq => j = i
    BY DEF IInv, Numbers
  <2>3. \A u \in Tasks \ {t} : Busy(u) => task[u].seq # i.seq
    BY <1>2, <2>1 DEF IInv, Numbers
  <2> QED BY <1>2, <2>1, <2>2, <2>3 DEF HeldBy
<1> QED BY <1>1, <1>2 DEF HeldBy

LEMMA HeldUp ==
    ASSUME IInv, mode \notin {"replay", "ack"}
    PROVE  Held = UNION {HeldBy(t) : t \in Tasks}
BY DEF Held, HeldBy

LEMMA TaskUsesLog ==
    ASSUME IInv, IInv', NEW t \in Tasks, TaskStep(t)
    PROVE  [Log!Next]_(Log!vars)
<1>1. /\ mode = "up" /\ mode' = "up" /\ \A u \in Tasks \ {t} : task'[u] = task[u]
      /\ Enters(t) \/ GoesOn(t) \/ Leaves(t)
  BY StartsLog, WorkLog DEF TaskStep
<1>2. Held = UNION {HeldBy(u) : u \in Tasks} /\ Held' = UNION {HeldBy(u)' : u \in Tasks}
  BY <1>1, HeldUp DEF Held, HeldBy
<1>3. wal' = wal => \A u \in Tasks \ {t} : HeldBy(u)' = HeldBy(u)
  BY <1>1 DEF HeldBy, Busy
<1>4. ~Busy(t) => HeldBy(t) = {}
  BY DEF HeldBy
<1>5. ~Busy(t)' => HeldBy(t)' = {}
  BY DEF HeldBy
<1>6. CASE Enters(t) /\ Logs(t)
  <2>1. PICK i \in Intent : /\ i.seq = nextSeq /\ wal' = wal \union {i}
                            /\ task'[t].seq = nextSeq
    BY <1>6 DEF Logs
  <2>2. \A j \in wal : j.seq < nextSeq /\ j.seq # i.seq
    BY <2>1 DEF IInv, Numbers, TypeOK, Intent
  <2>3. \A u \in Tasks \ {t} : Busy(u) => task[u].seq # nextSeq
    BY BusyTask DEF IInv, Numbers
  <2>4. HeldBy(t)' = {i}
    BY <1>6, <2>1, <2>2 DEF HeldBy, Enters
  <2>5. \A u \in Tasks \ {t} : HeldBy(u)' = HeldBy(u)
    BY <1>1, <2>1, <2>3 DEF HeldBy, Busy
  <2>6. Held' = Held \union {i}
    BY <1>2, <1>4, <1>6, <2>4, <2>5 DEF Enters
  <2>7. \A j \in wal \union Held : j.seq # i.seq
    BY <2>2 DEF Held
  <2> QED BY <1>1, <2>1, <2>6, <2>7 DEF Log!Next, Log!Accept, Log!Fresh
<1>7. CASE Enters(t) /\ task'[t].seq = 0 /\ wal' = wal
  <2>1. HeldBy(t)' = {}
    BY <1>7 DEF HeldBy, IInv, TypeOK, Intent
  <2>2. Held' = Held
    BY <1>2, <1>3, <1>4, <1>7, <2>1 DEF Enters
  <2> QED BY <1>1, <1>7, <2>2 DEF Log!vars
<1>8. CASE GoesOn(t)
  <2>1. Held' = Held
    BY <1>2, <1>3, <1>8 DEF GoesOn, HeldBy
  <2> QED BY <1>1, <1>8, <2>1 DEF Log!vars, GoesOn
<1>9. CASE Leaves(t) /\ task[t].seq = 0
  <2>1. wal' = wal
    BY <1>9 DEF Leaves, IInv, TypeOK, Intent
  <2>2. Held' = Held
    BY <1>2, <1>3, <1>5, <1>9, <2>1, TaskHolds DEF Leaves
  <2> QED BY <1>1, <2>1, <2>2 DEF Log!vars
<1>10. CASE Leaves(t) /\ task[t].seq # 0
  <2>1. PICK i \in wal : /\ HeldBy(t) = {i} /\ i.seq = task[t].seq
                         /\ {j \in wal : j.seq # task[t].seq} = wal \ {i}
                         /\ \A u \in Tasks \ {t} : i \notin HeldBy(u)
    BY <1>10, TaskHolds DEF Leaves
  <2>2. wal' \in {wal, wal \ {i}} /\ i \in Intent
    BY <1>10, <2>1 DEF Leaves, IInv, TypeOK
  <2>3. \A u \in Tasks \ {t} : HeldBy(u)' = HeldBy(u)
    BY <1>1, <2>1, <2>2 DEF HeldBy, Busy
  <2>4. HeldBy(t)' = {}
    BY <1>5, <1>10 DEF Leaves
  <2>5. Held' = Held \ {i} /\ i \in Held
    BY <1>2, <2>1, <2>3, <2>4
  <2>6. CASE wal' = wal
    BY <1>1, <2>2, <2>5, <2>6 DEF Log!Next, Log!Abandon
  <2>7. CASE wal' = wal \ {i}
    BY <1>1, <2>2, <2>5, <2>7 DEF Log!Next, Log!Settle
  <2> QED BY <2>2, <2>6, <2>7
<1> QED BY <1>1, <1>6, <1>7, <1>8, <1>9, <1>10 DEF Enters

LEMMA ProcessUsesLog ==
    ASSUME IInv, IInv', Crash \/ Recover
    PROVE  [Log!Next]_(Log!vars)
<1>1. CASE Crash
  <2>1. mode' = "down" /\ wal' = wal /\ \A t \in Tasks : ~Busy(t)'
    BY <1>1 DEF Crash, Busy
  <2>2. Held' = {}
    BY <2>1 DEF Held
  <2>3. Log!Unique(wal') /\ wal' \subseteq Intent
    BY <2>1 DEF IInv, Numbers, TypeOK, Log!Unique
  <2> QED BY <2>1, <2>2, <2>3 DEF Log!Next, Log!Down, Log!Lose
<1>2. CASE Boot
  <2>1. mode = "down" /\ mode' = AfterScan /\ wal' = wal /\ mode' # "down"
    BY <1>2 DEF Boot, AfterScan
  <2>2. Held' = wal
    BY <2>1 DEF Held, AfterScan
  <2> QED BY <2>1, <2>2 DEF Log!Next, Log!Open
<1>3. CASE CommitReplay \/ \E i \in wal : Replay(i)
  <2>1. mode = "replay" /\ mode' \in {"replay", "ack"} /\ wal' = wal
    BY <1>3 DEF CommitReplay, Replay
  <2>2. Held' = Held
    BY <2>1 DEF Held
  <2> QED BY <2>1, <2>2 DEF Log!vars
<1>4. ASSUME NEW i \in wal, Ack(i)
      PROVE  Log!Next
  <2>1. mode = "ack" /\ wal' = wal \ {i} /\ mode' = (IF wal' = {} THEN "up" ELSE "ack")
        /\ i \in Intent
    BY <1>4 DEF Ack, AfterAck, IInv, TypeOK
  <2>2. Held = wal /\ Held' = wal'
    BY <2>1 DEF Held
  <2> QED BY <2>1, <2>2 DEF Log!Next, Log!Settle
<1> QED BY <1>1, <1>2, <1>3, <1>4 DEF Recover

\* Composed through the interface IntentLog implements, for every number of tasks and
\* intents: each step of a request, a crash or the recovery is, to the log, one accepted,
\* settled or abandoned intent of the caller's own, a stop, or a start.
THEOREM IsClientOfLog == Spec => UsesTheLog
<1>1. Init => Log!Init
  BY DEF Init, Held, Log!Init
<1>2. IInv /\ IInv' /\ [Next]_vars => [Log!Next]_(Log!vars)
  <2> SUFFICES ASSUME IInv, IInv', [Next]_vars PROVE [Log!Next]_(Log!vars)
    OBVIOUS
  <2>1. CASE UNCHANGED vars
    BY <2>1 DEF vars, Log!vars, Held, Busy
  <2> QED BY <2>1, TaskUsesLog, ProcessUsesLog DEF Next
<1> QED BY <1>1, <1>2, IInvInit, IInvStep, PTL DEF Spec, UsesTheLog, Log!Spec

-----------------------------------------------------------------------------
(* Recovery advances *)

LEMMA LogStaysFinite ==
    ASSUME IInv, [Next]_vars, IsFiniteSet(wal)
    PROVE  IsFiniteSet(wal')
<1>1. (\E i : wal' = wal \union {i}) \/ wal' \in SUBSET wal
  <2>1. ASSUME NEW t \in Tasks, TaskStep(t)
        PROVE  (\E i : wal' = wal \union {i}) \/ wal' \in SUBSET wal
    <3>1. Enters(t) \/ GoesOn(t) \/ Leaves(t)
      BY <2>1, StartsLog, WorkLog DEF TaskStep
    <3> QED BY <3>1 DEF Enters, Logs, GoesOn, Leaves
  <2>2. CASE Crash \/ Recover \/ UNCHANGED vars
    BY <2>2 DEF Crash, Recover, Boot, Replay, CommitReplay, Ack, vars
  <2> QED BY <2>1, <2>2 DEF Next
<1> QED BY <1>1, FS_AddElement, FS_Subset

LEMMA Advances ==
    ASSUME IInv, IsFiniteSet(wal), Next, mode # "up", crashes' = crashes
    PROVE  Left' \in 0..(Left - 1)
<1>1. todo \in SUBSET wal /\ IsFiniteSet(todo)
  BY FS_Subset DEF IInv, Replayed
<1>2. Cardinality(wal) \in Nat /\ Cardinality(todo) \in Nat
  BY <1>1, FS_CardinalityType
<1>3. CASE Boot
  <2>1. /\ mode = "down" /\ wal' = wal /\ todo' = wal
        /\ mode' = "replay" \/ mode' = "up"
    BY <1>3 DEF Boot, AfterScan
  <2>2. Left = 2 * Cardinality(wal) + 3 /\ Left' \in {0, 2 * Cardinality(wal) + 2}
    BY <1>2, <2>1 DEF Left
  <2> QED BY <1>2, <2>2
<1>4. ASSUME NEW i \in wal, Replay(i)
      PROVE  Left' \in 0..(Left - 1)
  <2>1. /\ mode = "replay" /\ mode' = mode /\ wal' = wal /\ todo' = todo \ {i} /\ i \in todo
    BY <1>4 DEF Replay, Earliest
  <2>2. Cardinality(todo') = Cardinality(todo) - 1 /\ Cardinality(todo') \in Nat
    BY <1>1, <2>1, FS_RemoveElement, FS_CardinalityType
  <2> QED BY <1>2, <2>1, <2>2 DEF Left
<1>5. CASE CommitReplay
  <2>1. mode = "replay" /\ mode' = "ack" /\ wal' = wal
    BY <1>5 DEF CommitReplay
  <2> QED BY <1>2, <2>1 DEF Left
<1>6. ASSUME NEW i \in wal, Ack(i)
      PROVE  Left' \in 0..(Left - 1)
  <2>1. mode = "ack" /\ wal' = wal \ {i} /\ mode' \in {"ack", "up"}
    BY <1>6 DEF Ack, AfterAck
  <2>2. Cardinality(wal') = Cardinality(wal) - 1 /\ Cardinality(wal') \in Nat
    BY <2>1, FS_RemoveElement, FS_CardinalityType
  <2> QED BY <1>2, <2>1, <2>2 DEF Left
<1>7. ~Crash
  BY DEF Crash, IInv, TypeOK
<1>8. ASSUME NEW t \in Tasks, TaskStep(t)
      PROVE  FALSE
  BY <1>8, StartsLog, WorkLog DEF TaskStep
<1> QED BY <1>3, <1>4, <1>5, <1>6, <1>7, <1>8 DEF Next, Recover

\* scan_pending, the replay loop and the acknowledgements of recover: what is left to do
\* shrinks with every step, so a start has at most 2n + 3 of them for n pending intents.
THEOREM RecoveryAlwaysAdvances == Spec => RecoveryAdvances
<1>1. Init => IsFiniteSet(wal)
  BY FS_EmptySet DEF Init
<1>2. IInv /\ IsFiniteSet(wal) /\ [Next]_vars => IsFiniteSet(wal)'
  BY LogStaysFinite
<1>3. IInv /\ IsFiniteSet(wal) /\ [Next]_vars =>
         [mode # "up" /\ crashes' = crashes => Left' \in 0..(Left - 1)]_vars
  BY Advances
<1> QED BY <1>1, <1>2, <1>3, IInvInit, IInvStep, PTL DEF Spec, RecoveryAdvances

-----------------------------------------------------------------------------
(* What the stores owe to requests that share an id or pass over an error *)

\* The operations whose handlers return an error of the index, and the writers
\* without an intent.
Careful == {"store", "delete", "purge", "touch", "retention"}
Disjoint == \A t, u \in Tasks : Busy(t) /\ Busy(u) /\ t # u => task[t].ids \cap task[u].ids = {}

LEMMA NothingExcused ==
    ASSUME IInv, Ops \subseteq Careful, \A t \in Tasks : Busy(t) => task[t].op \in Careful,
           excused = {}, Disjoint', [Next]_vars
    PROVE  excused' = {} /\ \A t \in Tasks : Busy(t)' => task'[t].op \in Careful
<1>1. ASSUME NEW t \in Tasks, NEW S \in SUBSET Ids, ~Busy(t), Busy(t)', task'[t].ids = S,
             \A u \in Tasks \ {t} : task'[u] = task[u]
      PROVE  S \cap InFlight = {}
  BY <1>1 DEF Disjoint, InFlight, Busy
<1>2. ASSUME NEW t \in Tasks, TaskStep(t)
      PROVE  excused' = {} /\ \A u \in Tasks : Busy(u)' => task'[u].op \in Careful
  <2>1. ASSUME NEW op \in Ops, NEW S \in Streams \union {{id} : id \in Ids},
               NEW v \in Contents \union {Absent}, Begin(t, op, S, v)
        PROVE  excused' = {} /\ \A u \in Tasks : Busy(u)' => task'[u].op \in Careful
    <3>1. S \in SUBSET Ids
      BY StoreAssumption DEF StoreAssumption
    <3>2. /\ ~Busy(t) /\ task'[t].ids = S /\ task'[t].op = op /\ op \in Careful
          /\ \A u \in Tasks \ {t} : task'[u] = task[u]
          /\ excused' = S \cap InFlight
      BY <2>1 DEF Begin, Overlap, IInv, TypeOK
    <3>3. Busy(t)'
      BY <2>1, <3>1, StartsLog DEF Enters
    <3> QED BY <1>1, <3>1, <3>2, <3>3 DEF Busy
  <2>2. ASSUME NEW id \in Ids, TouchRead(t, id)
        PROVE  excused' = {} /\ \A u \in Tasks : Busy(u)' => task'[u].op \in Careful
    <3>1. /\ ~Busy(t) /\ task'[t].ids = {id} /\ task'[t].op = "touch"
          /\ \A u \in Tasks \ {t} : task'[u] = task[u]
          /\ excused' = {id} \cap InFlight
      BY <2>2 DEF TouchRead, Overlap, IInv, TypeOK
    <3>2. Busy(t)'
      BY <2>2, StartsLog DEF Enters
    <3> QED BY <1>1, <3>1, <3>2 DEF Busy, Careful
  <2>3. ASSUME NEW S \in SUBSET Ids, RetentionScan(t, S)
        PROVE  excused' = {} /\ \A u \in Tasks : Busy(u)' => task'[u].op \in Careful
    <3>1. /\ ~Busy(t) /\ task'[t].ids = S /\ task'[t].op = "retention"
          /\ \A u \in Tasks \ {t} : task'[u] = task[u]
          /\ excused' = S \cap InFlight
      BY <2>3 DEF RetentionScan, Overlap, IInv, TypeOK
    <3>2. Busy(t)'
      BY <2>3, StartsLog DEF Enters
    <3> QED BY <1>1, <3>1, <3>2 DEF Busy, Careful
  <2>4. ASSUME NEW id \in Ids
        PROVE  ~BeginUnlogged(t, id)
    BY DEF BeginUnlogged, Careful
  <2>5. CASE \/ \E id \in Ids : RetentionIndex(t, id)
             \/ StoreStep(t) \/ GiveUp(t) \/ Mark(t) \/ TouchWrite(t) \/ RetentionDelete(t)
             \/ IndexStep(t) \/ IndexFailsStrict(t) \/ IndexFailsLax(t)
    <3>1. /\ \A u \in Tasks \ {t} : task'[u] = task[u]
          /\ Busy(t) /\ (Busy(t)' => task'[t].op = task[t].op)
      <4>1. /\ \A u \in Tasks \ {t} : task'[u] = task[u]
            /\ Busy(t) /\ task[t] \in Task
        BY <2>5, WorkLog, BusyTask DEF GoesOn, Leaves, IInv
      <4>2. CASE GiveUp(t) \/ Mark(t) \/ TouchWrite(t) \/ IndexFailsStrict(t)
        BY <4>1, <4>2 DEF GiveUp, Mark, TouchWrite, IndexFailsStrict, Stop, Busy, IInv, TypeOK
      <4>3. CASE IndexStep(t) \/ IndexFailsLax(t) \/ StoreStep(t)
        BY <4>1, <4>3 DEF IndexStep, IndexFailsLax, StoreStep, IInv, TypeOK, Task
      <4>4. CASE \E id \in Ids : RetentionIndex(t, id)
        BY <4>1, <4>4 DEF RetentionIndex, IInv, TypeOK, Task
      <4>5. CASE RetentionDelete(t)
        BY <4>1, <4>5 DEF RetentionDelete, Busy, IInv, TypeOK, Task
      <4> QED BY <2>5, <4>1, <4>2, <4>3, <4>4, <4>5
    <3>2. ~IndexFailsLax(t)
      BY BusyTask DEF IndexFailsLax, IInv, Careful
    <3>3. excused' = excused
      BY <2>5, <3>2 DEF RetentionIndex, StoreStep, GiveUp, Mark, TouchWrite, RetentionDelete,
         IndexStep, IndexFailsStrict, ghosts
    <3> QED BY <3>1, <3>3 DEF Busy
  <2> QED BY <1>2, <2>1, <2>2, <2>3, <2>4, <2>5 DEF TaskStep
<1>3. CASE Crash \/ Recover \/ UNCHANGED vars
  BY <1>3 DEF Crash, Recover, Boot, Replay, CommitReplay, Ack, ghosts, vars, Busy
<1> QED BY <1>2, <1>3 DEF Next

\* The write-ahead log's own claim (CrossStoreConsistent, which a run refutes) does
\* hold where requests that run at the same time share no id and no handler passes over
\* an error of the index: nothing else, no failure, crash or partial recovery, breaks it.
THEOREM ConsistentApart ==
    ASSUME Ops \subseteq Careful
    PROVE  Spec /\ []Disjoint => []CrossStoreConsistent
<1> DEFINE Clean == excused = {} /\ \A t \in Tasks : Busy(t) => task[t].op \in Careful
<1>1. Init => Clean
  BY DEF Init, Busy
<1>2. IInv /\ Clean /\ Disjoint' /\ [Next]_vars => Clean'
  BY NothingExcused
<1>3. IInv /\ Clean => CrossStoreConsistent
  BY DEF IInv, DivergenceCovered, Covered, CrossStoreConsistent, Quiet
<1> HIDE DEF Clean
<1> QED BY <1>1, <1>2, <1>3, IInvInit, IInvStep, PTL DEF Spec
=============================================================================
