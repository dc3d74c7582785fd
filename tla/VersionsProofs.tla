---------------------------- MODULE VersionsProofs ----------------------------
(***************************************************************************)
(* What holds of Versions for every number of ids, tasks and ranks: the    *)
(* types, that no chunk is stranded by a writer that stores first, that    *)
(* links and trust agree, and what consolidation does to its sources.      *)
(***************************************************************************)
EXTENDS Versions, TLAPS

-----------------------------------------------------------------------------
(* Types *)

LEMMA BusyTask ==
    ASSUME TypeOK, NEW t \in Tasks
    PROVE  /\ Busy(t) => task[t] \in Task
           /\ task[t].pc # "idle" => Busy(t)
           /\ \A op \in AllOps : Doing(t, op) => Busy(t) /\ task[t].op = op
BY DEF TypeOK, Busy, Doing, Idle

LEMMA ChunkRecord ==
    /\ \A c \in Chunk, n \in Ids : [c EXCEPT !.latest = FALSE, !.by = n] \in Chunk
    /\ \A c \in Chunk : [c EXCEPT !.over = NoId] \in Chunk
    /\ \A c \in Chunk : [c EXCEPT !.deleted = TRUE] \in Chunk
    /\ \A n \in Ids \union {NoId} : NewChunk(n) \in Chunk
    /\ Blank \in Chunk
BY DEF Chunk, NewChunk, Blank

LEMMA FlagsType ==
    ASSUME TypeOK, NEW S, NEW l \in BOOLEAN, NEW m \in BOOLEAN
    PROVE  SetFlags(S, l, m) \in [Ids -> Chunk]
<1>1. \A c \in Chunk : [c EXCEPT !.leased = l, !.merged = m \/ @] \in Chunk
  BY Zenon DEF Chunk
<1> QED BY <1>1 DEF TypeOK, SetFlags

LEMMA WriteType ==
    ASSUME TypeOK, NEW t \in Tasks, NEW c \in Chunk, WriteBack(t, c), task[t].at \in Ids
    PROVE  stored' \subseteq Ids /\ chunk' \in [Ids -> Chunk] /\ clobbered' \subseteq Ids
BY DEF TypeOK, WriteBack

LEMMA DerivedRank ==
    ASSUME TypeOK, NEW S \in SUBSET Ids
    PROVE  DerivedTrust(S) \in 0..2 /\ \A id \in S : DerivedTrust(S) <= rank[id]
<1> DEFINE P(r) == /\ r = 2 \/ \E id \in S : rank[id] = r
                   /\ \A id \in S : r <= rank[id]
<1>1. \A id \in S : rank[id] \in 0..3
  BY DEF TypeOK
<1>2. \E r \in 0..2 : P(r)
  <2>1. CASE \E id \in S : rank[id] = 0
    BY <1>1, <2>1
  <2>2. CASE (\E id \in S : rank[id] = 1) /\ ~\E id \in S : rank[id] = 0
    <3>1. \A id \in S : 1 <= rank[id]
      BY <1>1, <2>2
    <3> QED BY <2>2, <3>1
  <2>3. CASE ~\E id \in S : rank[id] = 1 \/ rank[id] = 0
    <3>1. \A id \in S : 2 <= rank[id]
      BY <1>1, <2>3
    <3> QED BY <3>1
  <2> QED BY <2>1, <2>2, <2>3
<1>3. DerivedTrust(S) = CHOOSE r \in 0..2 : P(r)
  BY DEF DerivedTrust
<1> HIDE DEF P
<1>4. DerivedTrust(S) \in 0..2 /\ P(DerivedTrust(S))
  BY <1>2, <1>3
<1> QED BY <1>4 DEF P

LEMMA BornType ==
    ASSUME TypeOK, NEW k \in {"fact", "dream", "summary"}, NEW r \in 0..3, NEW S \in SUBSET Ids,
           Born(k, r, S)
    PROVE  /\ made + 1 \in Ids /\ made' = made + 1 /\ made' \in 0..MaxIds
           /\ kind' \in [Ids -> {"fact", "dream", "summary"}]
           /\ rank' \in [Ids -> 0..3]
           /\ sources' \in [Ids -> SUBSET Ids]
BY VersionsAssumption DEF TypeOK, Born, Ids

LEMMA StartType ==
    ASSUME TypeOK, NEW t \in Tasks, NEW op \in AllOps, NEW pc \in {"flip", "persist", "mark"},
           NEW olds \in SUBSET Ids, NEW at \in Ids \union {NoId}, NEW link \in Ids \union {NoId},
           NEW k \in {"fact", "dream", "summary"}, NEW r \in 0..3, NEW S \in SUBSET Ids,
           Born(k, r, S), Start(t, op, pc, olds, at, link)
    PROVE  TypeOK'
<1>1. made + 1 \in Ids
  BY BornType
<1>2. (IF at = NoId THEN Blank ELSE chunk[at]) \in Chunk
  BY ChunkRecord DEF TypeOK
<1>3. task' \in [Tasks -> Task \union {Idle}]
  BY <1>1, <1>2 DEF TypeOK, Start, Task
<1> QED BY <1>3, BornType DEF TypeOK, Start, ghosts, Born

LEMMA BeginType ==
    ASSUME TypeOK, NEW t \in Tasks, StartStep(t)
    PROVE  TypeOK'
<1>1. ASSUME NEW old \in Ids, NEW r \in Ranks, Ingest(t, old, r)
      PROVE  TypeOK'
  <2>1. r \in 0..3 /\ {} \in SUBSET Ids /\ {old} \in SUBSET Ids
    BY VersionsAssumption
  <2>2. Born("fact", r, {}) /\ Start(t, "ingest", "flip", {old}, old, NoId)
    BY <1>1 DEF Ingest
  <2> QED BY <2>1, <2>2, StartType DEF AllOps
<1>2. ASSUME NEW old \in Ids, NEW r \in Ranks, Replace(t, old, r)
      PROVE  TypeOK'
  <2>1. PICK link \in Ids \union {NoId} : link = LinkTo(old, r)
    BY DEF LinkTo
  <2>2. r \in 0..3 /\ {} \in SUBSET Ids /\ {old} \in SUBSET Ids
    BY VersionsAssumption
  <2>3. Born("fact", r, {}) /\ Start(t, "replace", "persist", {old}, old, link)
    BY <1>2, <2>1 DEF Replace
  <2> QED BY <2>2, <2>3, StartType DEF AllOps
<1>3. ASSUME NEW S \in SUBSET Ids, Dream(t, S)
      PROVE  TypeOK'
  <2>1. PICK r \in 0..3 : r = DerivedTrust(S)
    BY DerivedRank
  <2>2. Born("dream", r, S) /\ Start(t, "dream", "persist", S, NoId, NoId)
    BY <1>3, <2>1 DEF Dream
  <2> QED BY <2>2, StartType DEF AllOps
<1>4. ASSUME NEW S \in SUBSET Ids, Merge(t, S)
      PROVE  TypeOK'
  <2>1. PICK r \in 0..3 : r = DerivedTrust(S)
    BY DerivedRank
  <2>2. Born("summary", r, S) /\ Start(t, "merge", "mark", S, NoId, NoId)
    BY <1>4, <2>1 DEF Merge
  <2> QED BY <2>2, StartType DEF AllOps
<1>5. ASSUME NEW id \in Ids, Edit(t, id)
      PROVE  TypeOK'
  <2>1. task' \in [Tasks -> Task \union {Idle}]
    BY <1>5 DEF TypeOK, Edit, Task, AllOps, NoId
  <2> QED BY <1>5, <2>1 DEF TypeOK, Edit, birth, ghosts
<1> QED BY <1>1, <1>2, <1>3, <1>4, <1>5 DEF StartStep

-----------------------------------------------------------------------------
(* The inductive invariant *)

\* What a task has done so far, by its step.  k is the record of the task.
Unstored(k) == k.pc \in {"mark", "persist"} \/ k.op = "ingest"
IsStored(k) ==
    \/ k.pc \in {"reload", "unlink", "detach", "retire", "settle"}
    \/ k.pc = "flip" /\ k.op # "ingest"

StepOf(k) ==
    \/ k.op = "ingest" /\ k.pc \in {"flip", "persist"}
    \/ k.op = "replace" /\ k.pc \in {"persist", "reload", "flip", "unlink", "detach"}
    \/ k.op = "dream" /\ k.pc \in {"persist", "retire", "flip"}
    \/ k.op = "merge" /\ k.pc \in {"mark", "persist", "settle", "release"}
    \/ k.op = "edit" /\ k.pc = "write"

LinkOf(k) ==
    CASE k.op = "ingest" -> k.link \in {NoId, k.at} /\ (k.pc = "flip" => k.link = NoId)
      [] k.op = "replace" -> k.link = (IF rank[k.new] < rank[k.at] THEN NoId ELSE k.at)
                             \/ k.pc \in {"unlink", "detach"}
      [] OTHER -> k.link = NoId

Stage(k) ==
    /\ StepOf(k)
    /\ LinkOf(k)
    /\ k.op # "edit" => k.new \in 1..made /\ k.new \notin k.olds
    /\ k.op = "edit" <=> k.new = NoId
    /\ Unstored(k) => k.new \notin persisted
    /\ IsStored(k) => k.new \in persisted
    /\ k.olds \subseteq persisted
    /\ k.at \in persisted \union {NoId}
    /\ k.op \in {"ingest", "replace"} \/ k.pc \in {"flip", "write"} => k.at # NoId
    /\ IF k.pc = "detach" THEN k.at = k.new ELSE k.at # k.new
    /\ k.pc = "flip" => k.snap.latest
    /\ k.op # "edit" => (kind[k.new] = "summary" <=> k.op = "merge")
    /\ k.op = "merge" => sources[k.new] = k.olds

Stages ==
    /\ \A t \in Tasks : Busy(t) => Stage(task[t])
    /\ \A t, u \in Tasks : Busy(t) /\ Busy(u) /\ task[t].new = task[u].new =>
          t = u \/ task[t].new = NoId
    /\ \A t, u \in Tasks : Doing(t, "merge") /\ Doing(u, "merge") => t = u

Known ==
    /\ stored \subseteq persisted
    /\ persisted \subseteq 1..made
    /\ \A n \in Ids : sources[n] \subseteq persisted
    /\ \A n \in Ids : \A id \in sources[n] : rank[n] <= rank[id]

\* What holds of every copy of a chunk, the stored one and those tasks have read.
Pending(id, n) ==
    \E t \in Tasks : /\ Doing(t, "ingest")
                     /\ task[t].pc = "persist"
                     /\ task[t].new = n
                     /\ task[t].link = id
CopyOK(id, c) ==
    /\ c.over \in {NoId} \union persisted
    /\ c.by \in {NoId} \union 1..made
    /\ c.by # NoId => ~c.latest /\ rank[id] <= rank[c.by]
    /\ c.merged => \E n \in persisted : id \in sources[n]
    /\ ~c.latest => c.by \in persisted \/ id \in stranded \/ Pending(id, c.by)
Copies ==
    /\ \A id \in stored : CopyOK(id, chunk[id])
    /\ \A t \in Tasks : Busy(t) /\ task[t].at # NoId => CopyOK(task[t].at, task[t].snap)

\* A chunk that a task has stored still has the link the task gave it.
Linked ==
    \A t \in Tasks :
        Busy(t) /\ task[t].pc \notin {"unlink", "detach"} /\ task[t].new \in stored \ clobbered
            => chunk[task[t].new].over = task[t].link

\* The successors of a chunk: those that are stored and those an ingest that has
\* flipped it is about to store.
Claims(n, o) ==
    \/ n \notin unconfirmed \union clobbered /\ Successor(n, o)
    \/ Pending(o, n)
Claimed ==
    \A o \in Ids \ clobbered : \A n \in Ids : Claims(n, o) =>
        /\ o \in stored => chunk[o].by = n /\ ~chunk[o].latest
        /\ \A m \in Ids : Claims(m, o) => m = n

Excused == remerged \union clobbered
Merging ==
    /\ \A n \in Ids : Summary(n) => \A id \in sources[n] \ Excused :
          \/ id \notin stored
          \/ chunk[id].merged
          \/ \E t \in Tasks : Doing(t, "merge") /\ task[t].pc = "settle" /\ task[t].new = n
    /\ \A t \in Tasks : Doing(t, "merge") /\ task[t].pc \in {"mark", "persist"} =>
          \A n \in Ids : Summary(n) => sources[n] \intersect task[t].olds \subseteq Excused

IInv ==
    TypeOK /\ Stages /\ Known /\ Copies /\ Linked /\ Claimed /\ Merging /\ MergedOnce /\ LeaseHeld

-----------------------------------------------------------------------------
(* Types, going on *)

Stops == {"flip", "persist", "reload", "unlink", "detach", "retire", "mark", "settle",
          "release", "write"}

LEMMA GotoType ==
    ASSUME TypeOK, NEW t \in Tasks, NEW pc \in Stops, task[t].pc # "idle",
           Goto(t, pc) \/ Done(t)
    PROVE  task' \in [Tasks -> Task \union {Idle}]
BY BusyTask DEF TypeOK, Goto, Done, Task, Stops

\* The parts of a stage that types need.
LEMMA Places ==
    ASSUME TypeOK, Stages, NEW t \in Tasks, task[t].pc # "idle"
    PROVE  /\ task[t] \in Task /\ Stage(task[t])
           /\ task[t].op # "edit" => task[t].new \in Ids
           /\ task[t].pc \in {"flip", "detach", "write"} => task[t].at \in Ids
<1>1. task[t] \in Task /\ Stage(task[t])
  BY BusyTask DEF Stages
<1>2. task[t].op # "edit" => task[t].new \in Ids
  BY <1>1 DEF Stage, Task
<1>3. task[t].pc \in {"flip", "write"} => task[t].at \in Ids
  BY <1>1 DEF Stage, Task
<1>4. task[t].pc = "detach" => task[t].at \in Ids
  BY <1>1, <1>2 DEF Stage, StepOf, Task
<1> QED BY <1>1, <1>2, <1>3, <1>4

LEMMA AbandonedType ==
    ASSUME TypeOK, Stages, NEW T \in SUBSET Tasks, Abandoned(T)
    PROVE  stranded' \subseteq Ids /\ unconfirmed' \subseteq Ids /\ remerged' \subseteq Ids
<1>1. \A t \in T : Busy(t) => task[t] \in Task /\ Stage(task[t])
  BY BusyTask DEF Stages
<1>2. \A t \in T : Doing(t, "replace") => task[t].new \in Ids
  BY <1>1 DEF Doing, Stage, Task
<1>3. \A t \in T : Doing(t, "ingest") => task[t].link \in Ids \union {NoId}
  BY <1>1 DEF Doing, Task
<1>4. \A t \in T : Doing(t, "merge") => task[t].olds \subseteq Ids
  BY <1>1 DEF Doing, Task
<1>5. stranded' \subseteq Ids
  BY <1>3 DEF TypeOK, Abandoned
<1>6. unconfirmed' \subseteq Ids
  BY <1>2 DEF TypeOK, Abandoned
<1>7. remerged' \subseteq Ids
  BY <1>4 DEF TypeOK, Abandoned
<1> QED BY <1>5, <1>6, <1>7

LEMMA MergeType ==
    ASSUME TypeOK, Stages, NEW t \in Tasks, MergeStep(t)
    PROVE  TypeOK'
<1>1. task[t].pc # "idle"
  BY DEF MergeStep, Mark, MarkFails, Settle, SettleFails, Release
<1>2. task[t].olds \subseteq Ids
  BY <1>1, BusyTask DEF Task
<1>3. task' \in [Tasks -> Task \union {Idle}]
  BY <1>1, GotoType DEF MergeStep, Mark, MarkFails, Settle, SettleFails, Release, Stops
<1>4. chunk' \in [Ids -> Chunk]
  BY FlagsType DEF MergeStep, Mark, MarkFails, Settle, SettleFails, Release, Leased, Settled
<1> QED BY <1>2, <1>3, <1>4 DEF TypeOK, MergeStep, Mark, MarkFails, Settle, SettleFails, Release, birth, ghosts

LEMMA FlipType ==
    ASSUME TypeOK, Stages, NEW t \in Tasks, Flip(t) \/ FlipFails(t)
    PROVE  TypeOK'
<1>1. /\ task[t].pc = "flip" /\ task[t] \in Task /\ task[t].at \in Ids
      /\ task[t].op \in {"ingest", "replace", "dream"} /\ task[t].new \in Ids
      /\ task[t].pc # "idle"
  BY Places DEF Flip, FlipFails, Stage, StepOf
<1>2. task' \in [Tasks -> Task \union {Idle}]
  <2>1. CASE Flip(t)
    <3>1. PICK l \in Ids \union {NoId} :
             l = IF Trusted(t) THEN task[t].at ELSE NoId
      BY <1>1
    <3>2. CASE task[t].op = "ingest"
      BY <1>1, <2>1, <3>1, <3>2 DEF TypeOK, Flip, AfterFlip, Task
    <3>3. CASE task[t].op = "replace"
      BY <2>1, <3>3 DEF TypeOK, Flip, AfterFlip, Done
    <3>4. CASE task[t].op = "dream"
      BY <1>1, <2>1, <3>4 DEF TypeOK, Flip, AfterFlip, Task
    <3> QED BY <1>1, <3>2, <3>3, <3>4
  <2>2. CASE FlipFails(t)
    <3>1. Goto(t, "persist") \/ Goto(t, "unlink") \/ Done(t)
      BY <1>1, <2>2 DEF FlipFails
    <3> QED BY <1>1, <3>1, GotoType DEF Stops
  <2> QED BY <2>1, <2>2
<1>3. stored' \subseteq Ids /\ chunk' \in [Ids -> Chunk] /\ clobbered' \subseteq Ids
  <2>1. PICK c \in Chunk : c = [task[t].snap EXCEPT !.latest = FALSE, !.by = task[t].new]
    BY <1>1, ChunkRecord DEF Task
  <2>2. CASE WriteBack(t, c)
    BY <1>1, <2>2, WriteType
  <2>3. CASE UNCHANGED <<stored, chunk, clobbered>>
    BY <2>3 DEF TypeOK
  <2> QED BY <2>1, <2>2, <2>3 DEF Flip, FlipFails, ghosts
<1> QED BY <1>2, <1>3 DEF TypeOK, Flip, FlipFails, birth, ghosts

LEMMA PersistType ==
    ASSUME TypeOK, Stages, NEW t \in Tasks, Persist(t)
    PROVE  TypeOK'
<1>1. /\ task[t].pc = "persist" /\ task[t] \in Task
      /\ task[t].op \in {"ingest", "replace", "dream", "merge"} /\ task[t].new \in Ids
      /\ task[t].pc # "idle"
  BY Places DEF Persist, Stage, StepOf
<1>2. task' \in [Tasks -> Task \union {Idle}]
  <2>1. CASE task[t].op = "dream"
    <3>1. PICK C \in SUBSET task[t].olds :
             task' = [task EXCEPT ![t].pc = "retire", ![t].olds = C]
      BY <2>1 DEF Persist
    <3>2. C \in SUBSET Ids
      BY <1>1 DEF Task
    <3> QED BY <1>1, <3>1, <3>2 DEF TypeOK, Task
  <2>2. CASE task[t].op # "dream"
    BY <1>1, <2>2, GotoType DEF Persist, Stops
  <2> QED BY <2>1, <2>2
<1>3. NewChunk(task[t].link) \in Chunk
  BY <1>1, ChunkRecord DEF Task
<1>4. stored' \subseteq Ids /\ chunk' \in [Ids -> Chunk] /\ persisted' \subseteq Ids
  BY <1>1, <1>3 DEF TypeOK, Persist
<1> QED BY <1>2, <1>4 DEF TypeOK, Persist, birth, ghosts

LEMMA ReadType ==
    ASSUME TypeOK, Stages, NEW t \in Tasks,
           Reload(t) \/ Unlink(t) \/ (\E old \in Ids : Retire(t, old)) \/ Retired(t)
    PROVE  TypeOK'
<1>1. task[t] \in Task /\ task[t].pc # "idle" /\ (task[t].op # "edit" => task[t].new \in Ids)
  BY Places DEF Reload, Unlink, Retire, Retired
<1>2. task' \in [Tasks -> Task \union {Idle}]
  <2>1. CASE Reload(t)
    <3>1. chunk[task[t].at] \in Chunk
      BY <1>1, <2>1, Places DEF TypeOK, Reload, Stage, StepOf, Task
    <3> QED BY <1>1, <2>1, <3>1, GotoType DEF TypeOK, Reload, Stops, Task
  <2>2. CASE Unlink(t)
    <3>1. task[t].new \in Ids /\ chunk[task[t].new] \in Chunk
      BY <1>1, <2>2, Places DEF TypeOK, Unlink, Stage, StepOf, Task
    <3> QED BY <1>1, <2>2, <3>1 DEF TypeOK, Unlink, Done, Task
  <2>3. ASSUME NEW old \in Ids, Retire(t, old)
        PROVE  task' \in [Tasks -> Task \union {Idle}]
    <3>1. chunk[old] \in Chunk
      BY DEF TypeOK
    <3>2. PICK k \in Task : k = IF Current(old)
             THEN [task[t] EXCEPT !.pc = "flip", !.at = old, !.snap = chunk[old]]
             ELSE [task[t] EXCEPT !.olds = @ \ {old}]
      <4>1. [task[t] EXCEPT !.pc = "flip", !.at = old, !.snap = chunk[old]] \in Task
        BY <1>1, <3>1 DEF Task
      <4>2. [task[t] EXCEPT !.olds = @ \ {old}] \in Task
        BY <1>1 DEF Task
      <4> QED BY <4>1, <4>2
    <3>3. task' = [task EXCEPT ![t] = k]
      BY <2>3, <3>2 DEF Retire
    <3> QED BY <3>2, <3>3 DEF TypeOK
  <2>4. CASE Retired(t)
    BY <2>4 DEF TypeOK, Retired, Done
  <2> QED BY <2>1, <2>2, <2>3, <2>4
<1> QED BY <1>2 DEF TypeOK, Reload, Unlink, Retire, Retired, birth, ghosts

LEMMA CopyBackType ==
    ASSUME TypeOK, Stages, NEW t \in Tasks, Detach(t) \/ EditWrite(t)
    PROVE  TypeOK'
<1>1. task[t] \in Task /\ task[t].at \in Ids
  BY Places DEF Detach, EditWrite
<1>2. task' \in [Tasks -> Task \union {Idle}]
  BY DEF TypeOK, Detach, EditWrite, Done
<1>3. PICK c \in Chunk : WriteBack(t, c)
  BY <1>1, ChunkRecord DEF Detach, EditWrite, Task
<1>4. stored' \subseteq Ids /\ chunk' \in [Ids -> Chunk] /\ clobbered' \subseteq Ids
  BY <1>1, <1>3, WriteType
<1> QED BY <1>2, <1>4 DEF TypeOK, Detach, EditWrite, birth, ghosts

LEMMA StopType ==
    ASSUME TypeOK, Stages, (\E t \in Tasks : GiveUp(t)) \/ Crash \/ Boot
    PROVE  TypeOK'
<1>1. ASSUME NEW t \in Tasks, GiveUp(t)
      PROVE  TypeOK'
  <2>1. task[t].pc # "idle"
    BY <1>1, BusyTask DEF GiveUp, Doing, AllOps, Task
  <2>2. task' \in [Tasks -> Task \union {Idle}]
    BY <1>1, <2>1, GotoType DEF GiveUp, Stops
  <2> QED BY <1>1, <2>2, AbandonedType DEF TypeOK, GiveUp, birth, ghosts
<1>2. CASE Crash
  <2>1. crashes' \in 0..MaxCrashes
    BY <1>2, VersionsAssumption DEF TypeOK, Crash
  <2>2. task' \in [Tasks -> Task \union {Idle}]
    BY <1>2 DEF Crash
  <2>3. stranded' \subseteq Ids /\ unconfirmed' \subseteq Ids /\ remerged' \subseteq Ids
    BY <1>2, AbandonedType DEF Crash
  <2> QED BY <1>2, <2>1, <2>2, <2>3 DEF TypeOK, Crash, birth
<1>3. CASE Boot
  <2>1. chunk' \in [Ids -> Chunk]
    BY <1>3, FlagsType DEF Boot, Recovered
  <2> QED BY <1>3, <2>1 DEF TypeOK, Boot, birth, ghosts
<1> QED BY <1>1, <1>2, <1>3

LEMMA OtherType ==
    ASSUME TypeOK, (\E r \in Ranks : Add(r)) \/ (\E id \in Ids : Delete(id) \/ Purge(id))
    PROVE  TypeOK'
<1>1. ASSUME NEW r \in Ranks, Add(r)
      PROVE  TypeOK'
  <2>1. r \in 0..3 /\ {} \in SUBSET Ids /\ Born("fact", r, {})
    BY <1>1, VersionsAssumption DEF Add
  <2> QED BY <1>1, <2>1, BornType, ChunkRecord DEF TypeOK, Add, ghosts
<1>2. ASSUME NEW id \in Ids, Delete(id)
      PROVE  TypeOK'
  BY <1>2, ChunkRecord DEF TypeOK, Delete, birth, ghosts
<1>3. ASSUME NEW id \in Ids, Purge(id)
      PROVE  TypeOK'
  BY <1>3, ChunkRecord DEF TypeOK, Purge, birth, ghosts
<1> QED BY <1>1, <1>2, <1>3

LEMMA TypeStays ==
    ASSUME TypeOK, Stages, Next
    PROVE  TypeOK'
<1>1. ASSUME NEW t \in Tasks, WriteStep(t)
      PROVE  TypeOK'
  BY <1>1, FlipType, PersistType, ReadType, CopyBackType DEF WriteStep
<1> QED BY <1>1, BeginType, MergeType, StopType, OtherType DEF Next

-----------------------------------------------------------------------------
(* Stages *)

\* Nothing that was born or stored is forgotten.
Older ==
    /\ made' \in {made, made + 1}
    /\ persisted \subseteq persisted'
    /\ \A n \in 1..made : kind'[n] = kind[n] /\ rank'[n] = rank[n] /\ sources'[n] = sources[n]

LEMMA SameBirth ==
    ASSUME UNCHANGED birth, persisted \subseteq persisted'
    PROVE  Older
BY DEF birth, Older

LEMMA BornOlder ==
    ASSUME TypeOK, NEW k, NEW r, NEW S, Born(k, r, S), persisted \subseteq persisted'
    PROVE  Older
BY DEF TypeOK, Born, Older, Ids

LEMMA StageStays ==
    ASSUME TypeOK, Known, Older, NEW k \in Task, Stage(k),
           k.new \in persisted' => k.new \in persisted
    PROVE  Stage(k)'
<1>1. made \in Nat /\ 1..made \subseteq 1..made'
  BY DEF TypeOK, Older
<1>2. k.op # "edit" => kind'[k.new] = kind[k.new] /\ sources'[k.new] = sources[k.new]
                       /\ rank'[k.new] = rank[k.new]
  BY DEF Older, Stage
<1>3. k.at # NoId => rank'[k.at] = rank[k.at]
  BY DEF Known, Older, Stage
<1>4. LinkOf(k)'
  BY <1>2, <1>3 DEF Stage, StepOf, LinkOf
<1> QED BY <1>1, <1>2, <1>4 DEF Older, Stage, StepOf, Unstored, IsStored

\* A step of t makes k of its record and leaves the other tasks alone.
Moves(t, k) == task' = [task EXCEPT ![t] = k]

LEMMA OthersStay ==
    ASSUME TypeOK, NEW t \in Tasks, NEW k, Moves(t, k)
    PROVE  task'[t] = k /\ \A u \in Tasks \ {t} : task'[u] = task[u]
BY DEF TypeOK, Moves

LEMMA StagesMove ==
    ASSUME TypeOK, Stages, Known, Older, NEW t \in Tasks, NEW k, Moves(t, k),
           k # Idle => k \in Task /\ Stage(k)',
           \A u \in Tasks \ {t} : Busy(u) =>
               /\ k # Idle /\ task[u].new = k.new => k.new = NoId
               /\ task[u].new \in persisted' => task[u].new \in persisted,
           k # Idle /\ k.op = "merge" => \A u \in Tasks \ {t} : ~Doing(u, "merge")
    PROVE  Stages'
<1>1. \A u \in Tasks \ {t} : Busy(u) => Stage(task[u])'
  <2> TAKE u \in Tasks \ {t}
  <2> HAVE Busy(u)
  <2>1. PICK c \in Task : c = task[u]
    BY BusyTask
  <2>2. Stage(c)'
    BY <2>1, StageStays DEF Stages
  <2>3. c = task'[u]
    BY <2>1, OthersStay
  <2> QED BY <2>1, <2>2, <2>3 DEF Stage, LinkOf
<1>2. \A u \in Tasks : Busy(u)' => Stage(task[u])'
  BY <1>1, OthersStay DEF Busy, Stage, LinkOf
<1>3. \A u, v \in Tasks : Busy(u)' /\ Busy(v)' /\ task'[u].new = task'[v].new =>
          u = v \/ task'[u].new = NoId
  BY OthersStay DEF Stages, Busy
<1>4. \A u, v \in Tasks : Doing(u, "merge")' /\ Doing(v, "merge")' => u = v
  BY OthersStay DEF Stages, Doing, Busy
<1> QED BY <1>2, <1>3, <1>4 DEF Stages

\* What a new id is: fresh, and of no task.
LEMMA FreshId ==
    ASSUME TypeOK, Stages, Known, NEW k, NEW r, NEW S, Born(k, r, S), UNCHANGED persisted
    PROVE  /\ Older
           /\ made + 1 \in Ids /\ made + 1 \notin persisted /\ made + 1 # NoId
           /\ made + 1 \in 1..made'
           /\ kind'[made + 1] = k /\ rank'[made + 1] = r /\ sources'[made + 1] = S
           /\ \A t \in Tasks : Busy(t) => task[t].new # made + 1
           /\ \A n \in persisted : n \in 1..made /\ n # made + 1 /\ n \in Ids
<1>1. made \in Nat /\ made + 1 \in Ids
  BY VersionsAssumption DEF TypeOK, Born, Ids
<1>2. \A n \in persisted : n \in 1..made /\ n # made + 1 /\ n \in Ids
  BY <1>1 DEF Known, TypeOK
<1>3. \A t \in Tasks : Busy(t) => task[t].new # made + 1
  <2> TAKE t \in Tasks
  <2> HAVE Busy(t)
  <2>1. task[t] \in Task /\ Stage(task[t])
    BY BusyTask DEF Stages
  <2>2. task[t].new = NoId \/ task[t].new \in 1..made
    BY <2>1 DEF Stage, StepOf
  <2> QED BY <1>1, <2>2 DEF NoId
<1>4. kind'[made + 1] = k /\ rank'[made + 1] = r /\ sources'[made + 1] = S
  BY <1>1 DEF TypeOK, Born
<1>5. made + 1 \in 1..made' /\ made + 1 # NoId
  BY <1>1 DEF Born, NoId
<1>6. Older
  BY BornOlder
<1>7. made + 1 \notin persisted
  BY <1>2
<1> QED BY <1>1, <1>2, <1>3, <1>4, <1>5, <1>6, <1>7

LEMMA BeginStages ==
    ASSUME TypeOK, Stages, Known, NEW t \in Tasks, StartStep(t)
    PROVE  Stages'
<1>1. ASSUME NEW k \in Task, NEW b, NEW r, NEW S, Born(b, r, S), UNCHANGED persisted, Moves(t, k),
             Stage(k)', k.new = made + 1,
             k.op = "merge" => \A u \in Tasks : ~Doing(u, "merge")
      PROVE  Stages'
  BY <1>1, FreshId, StagesMove
<1>2. ASSUME NEW old \in Ids, NEW r \in Ranks, Ingest(t, old, r)
      PROVE  Stages'
  <2> DEFINE k == [op |-> "ingest", pc |-> "flip", new |-> made + 1, olds |-> {old},
                   at |-> old, snap |-> chunk[old], link |-> NoId]
  <2>1. Born("fact", r, {}) /\ UNCHANGED persisted /\ Moves(t, k)
    <3>1. old # NoId
      BY DEF Ids, NoId
    <3> QED BY <1>2, <3>1 DEF Ingest, Start, Moves
  <2>9. /\ made + 1 \in Ids \ persisted /\ made + 1 # NoId /\ made + 1 \in 1..made'
        /\ kind'[made + 1] = "fact" /\ sources'[made + 1] = {} /\ persisted' = persisted
    BY <2>1, FreshId
  <2>2. old \in persisted
    BY <1>2 DEF Ingest, Current, Live, Known
  <2>3. PICK c \in Task : c = k
    BY <2>1, FreshId DEF TypeOK, Task, AllOps
  <2>4. Stage(c)'
    <3>1. c.snap.latest /\ old # NoId
      BY <1>2, <2>3 DEF Ingest, Current, Ids, NoId
    <3> QED BY <2>2, <2>3, <2>9, <3>1 DEF Stage, StepOf, LinkOf, Unstored, IsStored
  <2>5. Moves(t, c) /\ c.new = made + 1 /\ c.op = "ingest"
    BY <2>1, <2>3
  <2> QED BY <1>1, <2>1, <2>4, <2>5
<1>3. ASSUME NEW old \in Ids, NEW r \in Ranks, Replace(t, old, r)
      PROVE  Stages'
  <2> DEFINE k == [op |-> "replace", pc |-> "persist", new |-> made + 1, olds |-> {old},
                   at |-> old, snap |-> chunk[old], link |-> LinkTo(old, r)]
  <2>1. Born("fact", r, {}) /\ UNCHANGED persisted /\ Moves(t, k)
    <3>1. old # NoId
      BY DEF Ids, NoId
    <3> QED BY <1>3, <3>1 DEF Replace, Start, Moves
  <2>9. /\ made + 1 \in Ids \ persisted /\ made + 1 # NoId /\ made + 1 \in 1..made'
        /\ kind'[made + 1] = "fact" /\ sources'[made + 1] = {} /\ persisted' = persisted
    BY <2>1, FreshId
  <2>2. old \in persisted
    BY <1>3 DEF Replace, Replaceable, Current, Live, Known
  <2>3. PICK c \in Task : c = k
    BY <2>1, FreshId DEF TypeOK, Task, AllOps, LinkTo
  <2>4. rank'[old] = rank[old] /\ rank'[made + 1] = r
    BY <2>1, <2>2, FreshId DEF Older
  <2>5. LinkOf(c)'
    BY <2>3, <2>4 DEF LinkOf, LinkTo
  <2>6. Stage(c)'
    <3>1. old # NoId
      BY DEF Ids, NoId
    <3> QED BY <2>2, <2>3, <2>5, <2>9, <3>1 DEF Stage, StepOf, Unstored, IsStored
  <2>7. Moves(t, c) /\ c.new = made + 1 /\ c.op = "replace"
    BY <2>1, <2>3
  <2> QED BY <1>1, <2>1, <2>6, <2>7
<1>4. ASSUME NEW S \in SUBSET Ids, Dream(t, S)
      PROVE  Stages'
  <2> DEFINE k == [op |-> "dream", pc |-> "persist", new |-> made + 1, olds |-> S,
                   at |-> NoId, snap |-> Blank, link |-> NoId]
  <2>1. PICK r : r = DerivedTrust(S)
    OBVIOUS
  <2>2. Born("dream", r, S) /\ UNCHANGED persisted /\ Moves(t, k)
    BY <1>4, <2>1 DEF Dream, Start, Moves
  <2>3. S \subseteq persisted
    BY <1>4 DEF Dream, Current, Live, Known
  <2>4. PICK c \in Task : c = k
    BY <2>2, FreshId, ChunkRecord DEF Task, AllOps
  <2>5. Stage(c)'
    BY <2>2, <2>3, <2>4, FreshId DEF Stage, StepOf, LinkOf, Unstored, IsStored
  <2>6. Moves(t, c) /\ c.new = made + 1 /\ c.op = "dream"
    BY <2>2, <2>4
  <2> QED BY <1>1, <2>2, <2>5, <2>6
<1>5. ASSUME NEW S \in SUBSET Ids, Merge(t, S)
      PROVE  Stages'
  <2> DEFINE k == [op |-> "merge", pc |-> "mark", new |-> made + 1, olds |-> S,
                   at |-> NoId, snap |-> Blank, link |-> NoId]
  <2>1. PICK r : r = DerivedTrust(S)
    OBVIOUS
  <2>2. Born("summary", r, S) /\ UNCHANGED persisted /\ Moves(t, k)
    BY <1>5, <2>1 DEF Merge, Start, Moves
  <2>3. S \subseteq persisted
    BY <1>5 DEF Merge, Eligible, Current, Live, Known
  <2>4. PICK c \in Task : c = k
    BY <2>2, FreshId, ChunkRecord DEF Task, AllOps
  <2>5. Stage(c)'
    BY <2>2, <2>3, <2>4, FreshId DEF Stage, StepOf, LinkOf, Unstored, IsStored
  <2>6. Moves(t, c) /\ c.new = made + 1 /\ c.op = "merge"
    BY <2>2, <2>4
  <2>7. \A u \in Tasks : ~Doing(u, "merge")
    BY <1>5 DEF Merge
  <2> QED BY <1>1, <2>2, <2>5, <2>6, <2>7
<1>6. ASSUME NEW id \in Ids, Edit(t, id)
      PROVE  Stages'
  <2> DEFINE k == [op |-> "edit", pc |-> "write", new |-> NoId, olds |-> {id}, at |-> id,
                   snap |-> chunk[id], link |-> NoId]
  <2>1. Moves(t, k) /\ UNCHANGED <<birth, persisted>> /\ id \in persisted /\ id # NoId
    BY <1>6 DEF Edit, Moves, Known, Ids, NoId
  <2>2. PICK c \in Task : c = k
    BY DEF TypeOK, Task, AllOps
  <2>3. Stage(c)'
    BY <2>1, <2>2 DEF Stage, StepOf, LinkOf, Unstored, IsStored
  <2>4. Moves(t, c) /\ c.new = NoId /\ c.op = "edit"
    BY <2>1, <2>2
  <2> QED BY <2>1, <2>3, <2>4, SameBirth, StagesMove
<1> QED BY <1>2, <1>3, <1>4, <1>5, <1>6 DEF StartStep

LEMMA GoOn ==
    ASSUME TypeOK, Stages, Known, NEW t \in Tasks, task[t].pc # "idle", NEW k, Moves(t, k),
           UNCHANGED birth,
           persisted' = persisted \/ (persisted' = persisted \union {task[t].new} /\ task[t].op # "edit"),
           k # Idle => /\ k \in Task /\ Stage(k)'
                       /\ k.new = task[t].new /\ k.op = task[t].op
    PROVE  Stages'
<1>1. task[t] \in Task /\ Stage(task[t]) /\ Busy(t) /\ (task[t].op # "edit" => task[t].new \in Ids)
  BY Places, BusyTask
<1>2. \A u \in Tasks \ {t} : Busy(u) =>
          /\ task[u].new = task[t].new => task[t].new = NoId
          /\ task[u].new \in persisted' => task[u].new \in persisted
  BY <1>1 DEF Stages, Ids, NoId
<1>3. task[t].op = "merge" => \A u \in Tasks \ {t} : ~Doing(u, "merge")
  BY <1>1 DEF Stages, Doing
<1>4. Older
  BY SameBirth
<1> QED BY <1>2, <1>3, <1>4, StagesMove

LEMMA DoneStages ==
    ASSUME TypeOK, Stages, Known, NEW t \in Tasks, task[t].pc # "idle", Done(t),
           UNCHANGED birth,
           persisted' = persisted \/ (persisted' = persisted \union {task[t].new} /\ task[t].op # "edit")
    PROVE  Stages'
BY GoOn DEF Done, Moves

\* The record of a task with another pc, at and snap.
LEMMA Continue ==
    ASSUME TypeOK, NEW t \in Tasks, task[t] \in Task, NEW pc \in Stops,
           NEW at \in Ids \union {NoId}, NEW snap \in Chunk, NEW link \in Ids \union {NoId},
           NEW olds \in SUBSET Ids, NEW k,
           k = [task[t] EXCEPT !.pc = pc, !.at = at, !.snap = snap, !.link = link, !.olds = olds]
    PROVE  /\ k \in Task
           /\ k.op = task[t].op /\ k.new = task[t].new
           /\ k.pc = pc /\ k.at = at /\ k.snap = snap /\ k.link = link /\ k.olds = olds
BY DEF Task, Stops

LEMMA GotoMoves ==
    ASSUME TypeOK, NEW t \in Tasks, task[t].pc # "idle", NEW pc \in Stops, Goto(t, pc)
    PROVE  \E k \in Task : /\ Moves(t, k)
                           /\ k.op = task[t].op /\ k.new = task[t].new /\ k.pc = pc
                           /\ k.at = task[t].at /\ k.snap = task[t].snap
                           /\ k.link = task[t].link /\ k.olds = task[t].olds
<1>1. task[t] \in Task
  BY BusyTask
<1>2. PICK k : k = [task[t] EXCEPT !.pc = pc]
  OBVIOUS
<1>3. /\ k \in Task /\ k.op = task[t].op /\ k.new = task[t].new /\ k.pc = pc
      /\ k.at = task[t].at /\ k.snap = task[t].snap
      /\ k.link = task[t].link /\ k.olds = task[t].olds
  BY <1>1, <1>2 DEF Task, Stops
<1>4. Moves(t, k)
  BY <1>2 DEF Moves, Goto
<1> QED BY <1>3, <1>4

LEMMA MergeStages ==
    ASSUME TypeOK, Stages, Known, NEW t \in Tasks, MergeStep(t)
    PROVE  Stages'
<1>1. /\ task[t].pc # "idle" /\ UNCHANGED <<birth, persisted>>
  BY DEF MergeStep, Mark, MarkFails, Settle, SettleFails, Release
<1>2. Stage(task[t]) /\ task[t] \in Task
  BY <1>1, Places
<1>3. CASE Done(t)
  BY <1>1, <1>3, DoneStages
<1>4. CASE Mark(t)
  <2>1. PICK k \in Task : /\ Moves(t, k)
                          /\ k.op = task[t].op /\ k.new = task[t].new /\ k.pc = "persist"
                          /\ k.at = task[t].at /\ k.snap = task[t].snap
                          /\ k.link = task[t].link /\ k.olds = task[t].olds
    BY <1>1, <1>4, GotoMoves DEF Mark, Stops
  <2>2. task[t].pc = "mark" /\ task[t].op = "merge"
    BY <1>2, <1>4 DEF Mark, Stage, StepOf
  <2>3. Stage(k)'
    BY <1>1, <1>2, <2>1, <2>2 DEF Stage, StepOf, LinkOf, Unstored, IsStored, birth
  <2> QED BY <1>1, <2>1, <2>3, GoOn
<1>5. CASE SettleFails(t)
  <2>1. PICK k \in Task : /\ Moves(t, k)
                          /\ k.op = task[t].op /\ k.new = task[t].new /\ k.pc = "release"
                          /\ k.at = task[t].at /\ k.snap = task[t].snap
                          /\ k.link = task[t].link /\ k.olds = task[t].olds
    BY <1>1, <1>5, GotoMoves DEF SettleFails, Stops
  <2>2. task[t].pc = "settle" /\ task[t].op = "merge"
    BY <1>2, <1>5 DEF SettleFails, Stage, StepOf
  <2>3. Stage(k)'
    BY <1>1, <1>2, <2>1, <2>2 DEF Stage, StepOf, LinkOf, Unstored, IsStored, birth
  <2> QED BY <1>1, <2>1, <2>3, GoOn
<1> QED BY <1>3, <1>4, <1>5 DEF MergeStep, MarkFails, Settle, Release

LEMMA FlipStages ==
    ASSUME TypeOK, Stages, Known, NEW t \in Tasks, Flip(t) \/ FlipFails(t)
    PROVE  Stages'
<1>1. /\ task[t].pc = "flip" /\ task[t].pc # "idle" /\ task[t] \in Task /\ Stage(task[t])
      /\ task[t].at \in Ids /\ task[t].op \in {"ingest", "replace", "dream"}
      /\ UNCHANGED <<birth, persisted>>
  BY Places DEF Flip, FlipFails, Stage, StepOf
<1>2. CASE Done(t)
  BY <1>1, <1>2, DoneStages
<1>3. ASSUME NEW link \in {NoId, task[t].at}, task[t].op = "ingest",
             task' = [task EXCEPT ![t].pc = "persist", ![t].link = link]
      PROVE  Stages'
  <2>1. PICK k : k = [task[t] EXCEPT !.pc = "persist", !.link = link]
    OBVIOUS
  <2>2. /\ k \in Task /\ k.op = task[t].op /\ k.new = task[t].new /\ k.pc = "persist"
        /\ k.at = task[t].at /\ k.snap = task[t].snap /\ k.link = link /\ k.olds = task[t].olds
    BY <1>1, <2>1 DEF Task
  <2>3. Moves(t, k)
    BY <1>3, <2>1 DEF Moves
  <2>4. Stage(k)'
    BY <1>1, <1>3, <2>2 DEF Stage, StepOf, LinkOf, Unstored, IsStored, birth
  <2> QED BY <1>1, <2>2, <2>3, <2>4, GoOn
<1>4. ASSUME NEW pc \in {"persist", "unlink"}, Goto(t, pc),
             pc = "persist" <=> task[t].op = "ingest", pc = "unlink" <=> task[t].op = "replace"
      PROVE  Stages'
  <2>1. PICK k \in Task : /\ Moves(t, k)
                          /\ k.op = task[t].op /\ k.new = task[t].new /\ k.pc = pc
                          /\ k.at = task[t].at /\ k.snap = task[t].snap
                          /\ k.link = task[t].link /\ k.olds = task[t].olds
    BY <1>1, <1>4, GotoMoves DEF Stops
  <2>2. Stage(k)'
    BY <1>1, <1>4, <2>1 DEF Stage, StepOf, LinkOf, Unstored, IsStored, birth
  <2> QED BY <1>1, <2>1, <2>2, GoOn
<1>5. CASE Flip(t)
  <2>1. CASE task[t].op = "ingest"
    <3>1. PICK link \in {NoId, task[t].at} : link = IF Trusted(t) THEN task[t].at ELSE NoId
      OBVIOUS
    <3>2. task' = [task EXCEPT ![t].pc = "persist", ![t].link = link]
      BY <1>5, <2>1, <3>1 DEF Flip, AfterFlip
    <3> QED BY <1>3, <2>1, <3>2
  <2>2. CASE task[t].op = "replace"
    BY <1>2, <1>5, <2>2 DEF Flip, AfterFlip
  <2>3. CASE task[t].op = "dream"
    <3>1. PICK k : k = [task[t] EXCEPT !.pc = "retire", !.olds = @ \ {task[t].at}]
      OBVIOUS
    <3>2. /\ k \in Task /\ k.op = task[t].op /\ k.new = task[t].new /\ k.pc = "retire"
          /\ k.at = task[t].at /\ k.link = task[t].link /\ k.olds \subseteq task[t].olds
      BY <1>1, <3>1 DEF Task
    <3>3. Moves(t, k)
      BY <1>5, <2>3, <3>1 DEF Flip, AfterFlip, Moves
    <3>4. Stage(k)'
      BY <1>1, <2>3, <3>2 DEF Stage, StepOf, LinkOf, Unstored, IsStored, birth
    <3> QED BY <1>1, <3>2, <3>3, <3>4, GoOn
  <2> QED BY <1>1, <2>1, <2>2, <2>3
<1>6. CASE FlipFails(t)
  BY <1>1, <1>2, <1>4, <1>6 DEF FlipFails
<1> QED BY <1>5, <1>6

LEMMA PersistStages ==
    ASSUME TypeOK, Stages, Known, NEW t \in Tasks, Persist(t)
    PROVE  Stages'
<1>1. /\ task[t].pc = "persist" /\ task[t].pc # "idle" /\ task[t] \in Task /\ Stage(task[t])
      /\ task[t].op \in {"ingest", "replace", "dream", "merge"} /\ task[t].new \in Ids
      /\ UNCHANGED birth /\ persisted' = persisted \union {task[t].new}
  BY Places DEF Persist, Stage, StepOf
<1>2. CASE task[t].op = "ingest"
  BY <1>1, <1>2, DoneStages DEF Persist
<1>3. CASE task[t].op \in {"replace", "merge"}
  <2>1. PICK pc \in {"reload", "settle"} :
           Goto(t, pc) /\ (pc = "reload" <=> task[t].op = "replace")
    BY <1>3 DEF Persist
  <2>2. PICK k \in Task : /\ Moves(t, k)
                          /\ k.op = task[t].op /\ k.new = task[t].new /\ k.pc = pc
                          /\ k.at = task[t].at /\ k.snap = task[t].snap
                          /\ k.link = task[t].link /\ k.olds = task[t].olds
    BY <1>1, <2>1, GotoMoves DEF Stops
  <2>3. Stage(k)'
    BY <1>1, <1>3, <2>1, <2>2 DEF Stage, StepOf, LinkOf, Unstored, IsStored, birth
  <2> QED BY <1>1, <1>3, <2>2, <2>3, GoOn
<1>4. CASE task[t].op = "dream"
  <2>1. PICK C \in SUBSET task[t].olds :
           task' = [task EXCEPT ![t].pc = "retire", ![t].olds = C]
    BY <1>4 DEF Persist
  <2>2. PICK k : k = [task[t] EXCEPT !.pc = "retire", !.olds = C]
    OBVIOUS
  <2>3. /\ k \in Task /\ k.op = task[t].op /\ k.new = task[t].new /\ k.pc = "retire"
        /\ k.at = task[t].at /\ k.link = task[t].link /\ k.olds \subseteq task[t].olds
    BY <1>1, <2>2 DEF Task
  <2>4. Moves(t, k)
    BY <2>1, <2>2 DEF Moves
  <2>5. Stage(k)'
    BY <1>1, <1>4, <2>3 DEF Stage, StepOf, LinkOf, Unstored, IsStored, birth
  <2> QED BY <1>1, <1>4, <2>3, <2>4, <2>5, GoOn
<1> QED BY <1>1, <1>2, <1>3, <1>4

LEMMA ReadStages ==
    ASSUME TypeOK, Stages, Known, NEW t \in Tasks,
           Reload(t) \/ Unlink(t) \/ (\E old \in Ids : Retire(t, old)) \/ Retired(t)
    PROVE  Stages'
<1>1. /\ task[t].pc # "idle" /\ task[t] \in Task /\ Stage(task[t])
      /\ (task[t].op # "edit" => task[t].new \in Ids)
      /\ UNCHANGED <<birth, persisted>>
  BY Places DEF Reload, Unlink, Retire, Retired
<1>2. CASE Done(t)
  BY <1>1, <1>2, DoneStages
<1>3. CASE Reload(t)
  <2>1. task[t].op = "replace" /\ task[t].at \in Ids /\ task[t].pc = "reload"
    BY <1>1, <1>3 DEF Reload, Stage, StepOf, Task
  <2>2. CASE Replaceable(task[t].at)
    <3>1. PICK k : k = [task[t] EXCEPT !.pc = "flip", !.snap = chunk[task[t].at]]
      OBVIOUS
    <3>2. /\ k \in Task /\ k.op = task[t].op /\ k.new = task[t].new /\ k.pc = "flip"
          /\ k.at = task[t].at /\ k.link = task[t].link /\ k.olds = task[t].olds
          /\ k.snap = chunk[task[t].at]
      BY <1>1, <2>1, <3>1 DEF TypeOK, Task
    <3>3. Moves(t, k)
      BY <1>3, <2>2, <3>1 DEF Reload, Moves
    <3>4. k.snap.latest
      BY <2>2, <3>2 DEF Replaceable, Current
    <3>5. Stage(k)'
      BY <1>1, <2>1, <3>2, <3>4 DEF Stage, StepOf, LinkOf, Unstored, IsStored, birth
    <3> QED BY <1>1, <3>2, <3>3, <3>5, GoOn
  <2>3. CASE ~Replaceable(task[t].at)
    <3>1. PICK k \in Task : /\ Moves(t, k)
                            /\ k.op = task[t].op /\ k.new = task[t].new /\ k.pc = "unlink"
                            /\ k.at = task[t].at /\ k.snap = task[t].snap
                            /\ k.link = task[t].link /\ k.olds = task[t].olds
      BY <1>1, <1>3, <2>3, GotoMoves DEF Reload, Stops
    <3>2. Stage(k)'
      BY <1>1, <2>1, <3>1 DEF Stage, StepOf, LinkOf, Unstored, IsStored, birth
    <3> QED BY <1>1, <3>1, <3>2, GoOn
  <2> QED BY <2>2, <2>3
<1>4. CASE Unlink(t) /\ ~Done(t)
  <2>1. task[t].op = "replace" /\ task[t].pc = "unlink" /\ task[t].new \in Ids
    BY <1>1, <1>4 DEF Unlink, Stage, StepOf
  <2>2. PICK k : k = [task[t] EXCEPT !.pc = "detach", !.at = task[t].new,
                                     !.snap = chunk[task[t].new]]
    OBVIOUS
  <2>3. /\ k \in Task /\ k.op = task[t].op /\ k.new = task[t].new /\ k.pc = "detach"
        /\ k.at = task[t].new /\ k.link = task[t].link /\ k.olds = task[t].olds
    BY <1>1, <2>1, <2>2 DEF TypeOK, Task
  <2>4. Moves(t, k)
    BY <1>4, <2>2 DEF Unlink, Moves
  <2>5. Stage(k)'
    BY <1>1, <2>1, <2>3 DEF Stage, StepOf, LinkOf, Unstored, IsStored, birth
  <2> QED BY <1>1, <2>3, <2>4, <2>5, GoOn
<1>5. ASSUME NEW old \in Ids, Retire(t, old)
      PROVE  Stages'
  <2>1. task[t].op = "dream" /\ task[t].pc = "retire" /\ old \in task[t].olds /\ old # NoId
        /\ old \in persisted /\ old # task[t].new
    <3>1. old # NoId
      BY DEF Ids, NoId
    <3> QED BY <1>1, <1>5, <3>1 DEF Retire, Stage, StepOf
  <2>2. CASE Current(old)
    <3>1. PICK k : k = [task[t] EXCEPT !.pc = "flip", !.at = old, !.snap = chunk[old]]
      OBVIOUS
    <3>2. /\ k \in Task /\ k.op = task[t].op /\ k.new = task[t].new /\ k.pc = "flip"
          /\ k.at = old /\ k.link = task[t].link /\ k.olds = task[t].olds
          /\ k.snap = chunk[old]
      <4>1. chunk[old] \in Chunk
        BY DEF TypeOK
      <4> QED BY <1>1, <3>1, <4>1 DEF Task
    <3>3. Moves(t, k)
      BY <1>5, <2>2, <3>1 DEF Retire, Moves
    <3>4. k.snap.latest
      BY <2>2, <3>2 DEF Current
    <3>5. Stage(k)'
      BY <1>1, <2>1, <3>2, <3>4 DEF Stage, StepOf, LinkOf, Unstored, IsStored, birth
    <3> QED BY <1>1, <3>2, <3>3, <3>5, GoOn
  <2>3. CASE ~Current(old)
    <3>1. PICK k : k = [task[t] EXCEPT !.olds = @ \ {old}]
      OBVIOUS
    <3>2. /\ k \in Task /\ k.op = task[t].op /\ k.new = task[t].new /\ k.pc = "retire"
          /\ k.at = task[t].at /\ k.link = task[t].link /\ k.olds \subseteq task[t].olds
      BY <1>1, <2>1, <3>1 DEF Task
    <3>3. Moves(t, k)
      BY <1>5, <2>3, <3>1 DEF Retire, Moves
    <3>4. Stage(k)'
      BY <1>1, <2>1, <3>2 DEF Stage, StepOf, LinkOf, Unstored, IsStored, birth
    <3> QED BY <1>1, <3>2, <3>3, <3>4, GoOn
  <2> QED BY <2>2, <2>3
<1>6. CASE Retired(t)
  BY <1>2, <1>6 DEF Retired
<1> QED BY <1>2, <1>3, <1>4, <1>5, <1>6

LEMMA StopStages ==
    ASSUME TypeOK, Stages, Known, (\E t \in Tasks : GiveUp(t)) \/ Crash \/ Boot
    PROVE  Stages'
<1>1. ASSUME NEW t \in Tasks, GiveUp(t)
      PROVE  Stages'
  <2>1. task[t].pc # "idle" /\ UNCHANGED <<birth, persisted>>
    BY <1>1, BusyTask DEF GiveUp, Doing, AllOps, Task
  <2>2. CASE task[t].op = "merge"
    <3>1. PICK k \in Task : /\ Moves(t, k)
                            /\ k.op = task[t].op /\ k.new = task[t].new /\ k.pc = "release"
                            /\ k.at = task[t].at /\ k.snap = task[t].snap
                            /\ k.link = task[t].link /\ k.olds = task[t].olds
      BY <1>1, <2>1, <2>2, GotoMoves DEF GiveUp, Stops
    <3>2. Stage(task[t])
      BY <2>1, Places
    <3>3. Stage(k)'
      BY <2>1, <2>2, <3>1, <3>2 DEF Stage, StepOf, LinkOf, Unstored, IsStored, birth
    <3> QED BY <2>1, <3>1, <3>3, GoOn
  <2>3. CASE task[t].op # "merge"
    BY <1>1, <2>1, <2>3, DoneStages DEF GiveUp
  <2> QED BY <2>2, <2>3
<1>2. CASE Crash
  BY <1>2 DEF Crash, Stages, Busy, Doing
<1>3. CASE Boot
  BY <1>3 DEF Boot, birth, Stages, Stage, StepOf, LinkOf, Unstored, IsStored, Busy, Doing
<1> QED BY <1>1, <1>2, <1>3

LEMMA OtherStages ==
    ASSUME TypeOK, Stages, Known,
           (\E r \in Ranks : Add(r)) \/ (\E id \in Ids : Delete(id) \/ Purge(id))
    PROVE  Stages'
<1>1. task' = task
  BY DEF Add, Delete, Purge
<1>2. Older /\ \A t \in Tasks : Busy(t) /\ task[t].new \in persisted' => task[t].new \in persisted
  <2>1. ASSUME NEW r \in Ranks, Add(r)
        PROVE  Older /\ \A t \in Tasks : Busy(t) => task[t].new # made + 1
    <3>1. Born("fact", r, {}) /\ persisted' = persisted \union {made + 1}
      BY <2>1 DEF Add
    <3>2. Older
      BY <3>1, BornOlder
    <3>3. ASSUME NEW t \in Tasks, Busy(t)
          PROVE  task[t].new # made + 1
      <4>1. task[t] \in Task /\ Stage(task[t]) /\ made \in Nat
        BY <3>3, BusyTask DEF Stages, TypeOK
      <4>2. task[t].new = NoId \/ task[t].new \in 1..made
        BY <4>1 DEF Stage
      <4> QED BY <4>1, <4>2 DEF NoId
    <3> QED BY <3>2, <3>3
  <2>2. ASSUME NEW id \in Ids, Delete(id) \/ Purge(id)
        PROVE  Older /\ persisted' = persisted
    BY <2>2, SameBirth DEF Delete, Purge
  <2> QED BY <2>1, <2>2 DEF Add
<1>3. ASSUME NEW t \in Tasks, Busy(t)
      PROVE  Stage(task[t])'
  <2>1. PICK k \in Task : k = task[t]
    BY <1>3, BusyTask
  <2>2. Stage(k)'
    BY <1>2, <1>3, <2>1, StageStays DEF Stages
  <2>3. k = task'[t]
    BY <1>1, <2>1
  <2> QED BY <2>2, <2>3 DEF Stage, LinkOf
<1> QED BY <1>1, <1>3 DEF Stages, Busy, Doing

LEMMA StagesStay ==
    ASSUME TypeOK, Stages, Known, Next
    PROVE  Stages'
<1>1. ASSUME NEW t \in Tasks, WriteStep(t)
      PROVE  Stages'
  <2>1. CASE Detach(t) \/ EditWrite(t)
    <3>1. Done(t) /\ task[t].pc # "idle" /\ UNCHANGED <<birth, persisted>>
      BY <2>1 DEF Detach, EditWrite
    <3> QED BY <3>1, DoneStages
  <2> QED BY <1>1, <2>1, FlipStages, PersistStages, ReadStages DEF WriteStep
<1> QED BY <1>1, BeginStages, MergeStages, StopStages, OtherStages DEF Next

-----------------------------------------------------------------------------
(* What was born and stored *)

LEMMA KnownBorn ==
    ASSUME TypeOK, Known, NEW k, NEW r \in 0..3, NEW S \in SUBSET persisted, Born(k, r, S),
           \A id \in S : r <= rank[id],
           persisted' = persisted \/ persisted' = persisted \union {made + 1},
           stored' \subseteq stored \union {made + 1}, stored' \subseteq persisted'
    PROVE  Known'
<1>1. made \in Nat /\ made + 1 \in Ids /\ made' = made + 1 /\ made + 1 \notin persisted
  BY VersionsAssumption DEF TypeOK, Born, Ids, Known
<1>2. persisted' \subseteq 1..made'
  BY <1>1 DEF Known
<1>3. \A n \in Ids : sources'[n] = IF n = made + 1 THEN S ELSE sources[n]
  BY DEF TypeOK, Born
<1>4. \A n \in Ids : rank'[n] = IF n = made + 1 THEN r ELSE rank[n]
  BY DEF TypeOK, Born
<1>5. \A n \in Ids : sources'[n] \subseteq persisted'
  BY <1>3 DEF Known
<1>6. \A n \in Ids : \A id \in sources'[n] : id \in persisted /\ id \in Ids /\ id # made + 1
  BY <1>1, <1>3 DEF Known, TypeOK
<1>7. \A n \in Ids : \A id \in sources'[n] : rank'[n] <= rank'[id]
  <2> TAKE n \in Ids
  <2> TAKE id \in sources'[n]
  <2>1. rank'[id] = rank[id] /\ id \in Ids
    BY <1>4, <1>6
  <2>2. CASE n = made + 1
    BY <1>3, <1>4, <2>1, <2>2
  <2>3. CASE n # made + 1
    BY <1>3, <1>4, <2>1, <2>3 DEF Known
  <2> QED BY <2>2, <2>3
<1> QED BY <1>2, <1>5, <1>7 DEF Known

LEMMA KnownSame ==
    ASSUME TypeOK, Known, UNCHANGED birth, NEW S \in SUBSET (1..made),
           persisted' = persisted \union S, stored' \subseteq persisted'
    PROVE  Known'
BY DEF Known, birth

LEMMA KnownStays ==
    ASSUME TypeOK, Stages, Known, Next
    PROVE  Known'
<1>1. ASSUME NEW t \in Tasks, StartStep(t)
      PROVE  Known'
  <2>1. ASSUME NEW r \in Ranks, Born("fact", r, {}), UNCHANGED <<stored, persisted>>
        PROVE  Known'
    <3>1. r \in 0..3 /\ {} \in SUBSET persisted /\ \A id \in {} : r <= rank[id]
      BY VersionsAssumption
    <3>2. persisted' = persisted /\ stored' \subseteq stored \union {made + 1} /\ stored' \subseteq persisted'
      BY <2>1 DEF Known
    <3> QED BY <2>1, <3>1, <3>2, KnownBorn
  <2>2. ASSUME NEW k, NEW S \in SUBSET Ids, Born(k, DerivedTrust(S), S),
               \A id \in S : Current(id), UNCHANGED <<stored, persisted>>
        PROVE  Known'
    <3>1. PICK r \in 0..3 : r = DerivedTrust(S)
      BY DerivedRank
    <3>2. S \in SUBSET persisted /\ \A id \in S : r <= rank[id]
      BY <2>2, <3>1, DerivedRank DEF Current, Live, Known
    <3>3. persisted' = persisted /\ stored' \subseteq stored \union {made + 1} /\ stored' \subseteq persisted'
      BY <2>2 DEF Known
    <3> QED BY <2>2, <3>1, <3>2, <3>3, KnownBorn
  <2>3. ASSUME NEW id \in Ids, Edit(t, id)
        PROVE  Known'
    BY <2>3 DEF Edit, Known, birth
  <2>4. ASSUME NEW old \in Ids, NEW r \in Ranks, Ingest(t, old, r) \/ Replace(t, old, r)
        PROVE  Known'
    BY <2>1, <2>4 DEF Ingest, Replace, Start
  <2>5. ASSUME NEW S \in SUBSET Ids, Dream(t, S)
        PROVE  Known'
    BY <2>2, <2>5 DEF Dream, Start
  <2>6. ASSUME NEW S \in SUBSET Ids, Merge(t, S)
        PROVE  Known'
    BY <2>2, <2>6 DEF Merge, Eligible, Start
  <2> QED BY <1>1, <2>3, <2>4, <2>5, <2>6 DEF StartStep
<1>2. ASSUME NEW t \in Tasks, MergeStep(t)
      PROVE  Known'
  BY <1>2 DEF MergeStep, Mark, MarkFails, Settle, SettleFails, Release, Known, birth
<1>3. ASSUME NEW t \in Tasks, WriteStep(t)
      PROVE  Known'
  <2>1. CASE Persist(t)
    <3>1. task[t].new \in 1..made
      BY <2>1, Places DEF Persist, Stage, StepOf
    <3>2. /\ UNCHANGED birth /\ persisted' = persisted \union {task[t].new}
          /\ stored' \subseteq persisted'
      BY <2>1 DEF Persist, Known
    <3> QED BY <3>1, <3>2, KnownSame
  <2>2. CASE Flip(t) \/ Detach(t) \/ EditWrite(t)
    <3>1. task[t].at \in persisted
      <4>1. task[t].pc \in {"flip", "write", "detach"} /\ Stage(task[t])
        BY <2>2, Places DEF Flip, Detach, EditWrite
      <4>2. CASE task[t].pc = "detach"
        BY <4>1, <4>2 DEF Stage, StepOf, IsStored
      <4>3. CASE task[t].pc # "detach"
        BY <4>1, <4>3 DEF Stage, StepOf
      <4> QED BY <4>2, <4>3
    <3>2. UNCHANGED <<birth, persisted>> /\ stored' \subseteq stored \union {task[t].at}
      BY <2>2 DEF Flip, Detach, EditWrite, WriteBack
    <3> QED BY <3>1, <3>2 DEF Known, birth
  <2>3. CASE FlipFails(t) \/ Reload(t) \/ Unlink(t) \/ (\E old \in Ids : Retire(t, old)) \/ Retired(t)
    BY <2>3 DEF FlipFails, Reload, Unlink, Retire, Retired, Known, birth
  <2> QED BY <1>3, <2>1, <2>2, <2>3 DEF WriteStep
<1>4. ASSUME NEW t \in Tasks, GiveUp(t)
      PROVE  Known'
  BY <1>4 DEF GiveUp, Known, birth
<1>5. ASSUME NEW r \in Ranks, Add(r)
      PROVE  Known'
  <2>1. r \in 0..3 /\ {} \in SUBSET persisted /\ \A id \in {} : r <= rank[id]
    BY VersionsAssumption
  <2>2. /\ Born("fact", r, {}) /\ stored' = stored \union {made + 1}
        /\ persisted' = persisted \union {made + 1} /\ stored' \subseteq persisted'
    BY <1>5 DEF Add, Known
  <2> QED BY <2>1, <2>2, KnownBorn
<1>6. ASSUME NEW id \in Ids, Delete(id) \/ Purge(id)
      PROVE  Known'
  BY <1>6 DEF Delete, Purge, Known, birth
<1>7. CASE Crash \/ Boot
  BY <1>7 DEF Crash, Boot, Known, birth
<1> QED BY <1>1, <1>2, <1>3, <1>4, <1>5, <1>6, <1>7 DEF Next
-----------------------------------------------------------------------------
(* What a step leaves alone *)

TaskStep(t) == StartStep(t) \/ MergeStep(t) \/ WriteStep(t) \/ GiveUp(t)

\* Starting writes nothing.
LEMMA StartLeaves ==
    ASSUME NEW t \in Tasks, StartStep(t)
    PROVE  /\ UNCHANGED <<stored, chunk, persisted, up, crashes, ghosts>>
           /\ ~Busy(t)
BY DEF StartStep, Ingest, Replace, Dream, Merge, Edit, Start, ghosts

\* A step of a task moves that task only.
LEMMA OneMoves ==
    ASSUME TypeOK, Stages, NEW t \in Tasks, TaskStep(t), NEW u \in Tasks, u # t
    PROVE  task'[u] = task[u]
<1>1. CASE StartStep(t)
  BY <1>1 DEF TypeOK, StartStep, Ingest, Replace, Dream, Merge, Edit, Start
<1>2. CASE MergeStep(t)
  BY <1>2 DEF TypeOK, MergeStep, Mark, MarkFails, Settle, SettleFails, Release, Goto, Done
<1>3. CASE Flip(t) \/ FlipFails(t)
  <2>1. task[t].op \in {"ingest", "replace", "dream"}
    BY <1>3, Places DEF Flip, FlipFails, Stage, StepOf
  <2> QED BY <1>3, <2>1 DEF TypeOK, Flip, FlipFails, AfterFlip, Goto, Done
<1>4. CASE Persist(t)
  <2>1. task[t].op \in {"ingest", "replace", "dream", "merge"}
    BY <1>4, Places DEF Persist, Stage, StepOf
  <2>2. CASE task[t].op = "dream"
    BY <1>4, <2>2 DEF TypeOK, Persist
  <2>3. CASE task[t].op # "dream"
    BY <1>4, <2>1, <2>3 DEF TypeOK, Persist, Goto, Done
  <2> QED BY <2>2, <2>3
<1>5. CASE Reload(t) \/ Unlink(t) \/ Detach(t) \/ Retired(t) \/ EditWrite(t)
  BY <1>5 DEF TypeOK, Reload, Unlink, Detach, Retired, EditWrite, Goto, Done
<1>6. ASSUME NEW old \in Ids, Retire(t, old)
      PROVE  task'[u] = task[u]
  BY <1>6 DEF TypeOK, Retire
<1>7. CASE GiveUp(t)
  BY <1>7 DEF TypeOK, GiveUp, Goto, Done
<1> QED BY <1>1, <1>2, <1>3, <1>4, <1>5, <1>6, <1>7 DEF TaskStep, WriteStep

\* What a task is doing, and for which new chunk, stays while it does it.
LEMMA KeepsName ==
    ASSUME TypeOK, Stages, NEW t \in Tasks, MergeStep(t) \/ WriteStep(t) \/ GiveUp(t)
    PROVE  /\ task[t] \in Task /\ task[t] # Idle /\ task[t].pc # "idle" /\ Stage(task[t])
           /\ task'[t] = Idle \/ (task'[t].op = task[t].op /\ task'[t].new = task[t].new)
<1> DEFINE Same == task'[t] = Idle \/ (task'[t].op = task[t].op /\ task'[t].new = task[t].new)
<1>1. task[t].pc # "idle" /\ task[t] \in Task /\ task[t] # Idle /\ Stage(task[t])
  <2>1. CASE GiveUp(t)
    <3>1. task[t] # Idle /\ task[t] \in Task
      BY <2>1, BusyTask DEF GiveUp, Doing, AllOps, Busy, Idle
    <3> QED BY <3>1 DEF Stages, Busy, Task
  <2>2. CASE MergeStep(t) \/ WriteStep(t)
    <3>1. task[t].pc # "idle"
      BY <2>2 DEF MergeStep, Mark, MarkFails, Settle, SettleFails, Release, WriteStep,
          Flip, FlipFails, Persist, Reload, Unlink, Detach, Retire, Retired, EditWrite
    <3> QED BY <3>1, BusyTask, Places DEF Busy
  <2> QED BY <2>1, <2>2
<1> SUFFICES Same
  BY <1>1
<1>2. ASSUME NEW pc \in Stops, Goto(t, pc) \/ Done(t)
      PROVE  Same
  BY <1>1, <1>2 DEF TypeOK, Goto, Done, Task
<1>3. CASE MergeStep(t) \/ GiveUp(t)
  BY <1>2, <1>3 DEF MergeStep, Mark, MarkFails, Settle, SettleFails, Release, GiveUp, Stops
<1>4. CASE Flip(t) \/ FlipFails(t)
  <2>1. task[t].op \in {"ingest", "replace", "dream"}
    BY <1>4, Places DEF Flip, FlipFails, Stage, StepOf
  <2>2. CASE FlipFails(t)
    BY <1>2, <2>1, <2>2 DEF FlipFails, Stops
  <2>3. CASE Flip(t) /\ task[t].op = "replace"
    BY <1>2, <2>3 DEF Flip, AfterFlip, Stops
  <2>4. CASE Flip(t) /\ task[t].op = "ingest"
    BY <1>1, <2>4 DEF TypeOK, Flip, AfterFlip, Task
  <2>5. CASE Flip(t) /\ task[t].op = "dream"
    BY <1>1, <2>5 DEF TypeOK, Flip, AfterFlip, Task
  <2> QED BY <1>4, <2>1, <2>2, <2>3, <2>4, <2>5
<1>5. CASE Persist(t)
  <2>1. task[t].op \in {"ingest", "replace", "dream", "merge"}
    BY <1>5, Places DEF Persist, Stage, StepOf
  <2>2. CASE task[t].op = "dream"
    BY <1>1, <1>5, <2>2 DEF TypeOK, Persist, Task
  <2>3. CASE task[t].op # "dream"
    BY <1>2, <1>5, <2>1, <2>3 DEF Persist, Stops
  <2> QED BY <2>2, <2>3
<1>6. CASE Detach(t) \/ EditWrite(t) \/ Retired(t)
  BY <1>2, <1>6 DEF Detach, EditWrite, Retired, Stops
<1>7. CASE Reload(t)
  BY <1>1, <1>2, <1>7 DEF TypeOK, Reload, Stops, Task
<1>8. CASE Unlink(t)
  BY <1>1, <1>2, <1>8 DEF TypeOK, Unlink, Stops, Task
<1>9. ASSUME NEW old \in Ids, Retire(t, old)
      PROVE  Same
  BY <1>1, <1>9 DEF TypeOK, Retire, Task
<1> QED BY <1>1, <1>3, <1>4, <1>5, <1>6, <1>7, <1>8, <1>9 DEF WriteStep

\* What was done once is not forgotten, and no id is given out twice.
Grown ==
    /\ Older
    /\ stranded \subseteq stranded' /\ unconfirmed \subseteq unconfirmed'
    /\ clobbered \subseteq clobbered' /\ remerged \subseteq remerged'

LEMMA Grows ==
    ASSUME TypeOK, Stages, Known, Next
    PROVE  Grown
<1>1. ASSUME NEW t \in Tasks, StartStep(t)
      PROVE  Grown
  <2>1. UNCHANGED <<persisted, ghosts>>
    BY <1>1, StartLeaves
  <2>2. UNCHANGED birth \/ \E k, r, S : Born(k, r, S)
    BY <1>1 DEF StartStep, Ingest, Replace, Dream, Merge, Edit
  <2> QED BY <2>1, <2>2, SameBirth, BornOlder DEF ghosts, Grown
<1>2. ASSUME NEW t \in Tasks, MergeStep(t)
      PROVE  Grown
  <2>1. UNCHANGED <<birth, persisted>>
    BY <1>2 DEF MergeStep, Mark, MarkFails, Settle, SettleFails, Release
  <2> QED BY <1>2, <2>1, SameBirth
          DEF MergeStep, Mark, MarkFails, Settle, SettleFails, Release, ghosts, Grown
<1>3. ASSUME NEW t \in Tasks, WriteStep(t)
      PROVE  Grown
  <2>1. UNCHANGED birth /\ persisted \subseteq persisted'
    BY <1>3 DEF WriteStep, Flip, FlipFails, Persist, Reload, Unlink, Detach, Retire, Retired, EditWrite
  <2>2. /\ stranded \subseteq stranded' /\ unconfirmed \subseteq unconfirmed'
        /\ clobbered \subseteq clobbered' /\ remerged \subseteq remerged'
    BY <1>3 DEF WriteStep, Flip, FlipFails, Persist, Reload, Unlink, Detach, Retire, Retired,
                EditWrite, WriteBack, ghosts
  <2> QED BY <2>1, <2>2, SameBirth DEF Grown
<1>4. CASE (\E t \in Tasks : GiveUp(t)) \/ Crash \/ Boot
  <2>1. UNCHANGED <<birth, persisted>>
    BY <1>4 DEF GiveUp, Crash, Boot
  <2> QED BY <1>4, <2>1, SameBirth DEF GiveUp, Crash, Boot, Abandoned, Grown
<1>5. ASSUME NEW r \in Ranks, Add(r)
      PROVE  Grown
  BY <1>5, BornOlder DEF Add, ghosts, Grown
<1>6. ASSUME NEW id \in Ids, Delete(id) \/ Purge(id)
      PROVE  Grown
  BY <1>6, SameBirth DEF Delete, Purge, ghosts, Grown
<1> QED BY <1>1, <1>2, <1>3, <1>4, <1>5, <1>6 DEF Next

-----------------------------------------------------------------------------
(* Every copy of a chunk *)

\* An ingest that has flipped a chunk stores the successor, or strands it.
LEMMA PendingStays ==
    ASSUME TypeOK, Stages, Next, NEW o \in Ids, NEW n, Pending(o, n)
    PROVE  Pending(o, n)' \/ n \in persisted' \/ o \in stranded'
<1>1. PICK u \in Tasks : Doing(u, "ingest") /\ task[u].pc = "persist" /\ task[u].new = n
                         /\ task[u].link = o
  BY DEF Pending
<1>2. CASE task'[u] = task[u]
  BY <1>1, <1>2 DEF Pending, Doing, Busy
<1>3. ASSUME NEW t \in Tasks, TaskStep(t)
      PROVE  Pending(o, n)' \/ n \in persisted' \/ o \in stranded'
  <2>1. CASE t # u
    BY <1>2, <1>3, <2>1, OneMoves
  <2>2. CASE StartStep(u) \/ MergeStep(u)
    BY <1>1, <2>2, StartLeaves DEF Doing, MergeStep, Mark, MarkFails, Settle, SettleFails, Release
  <2>3. CASE WriteStep(u)
    BY <1>1, <2>3 DEF WriteStep, Flip, FlipFails, Persist, Reload, Unlink, Detach, Retire,
                     Retired, EditWrite
  <2>4. CASE GiveUp(u)
    BY <1>1, <2>4 DEF GiveUp, Abandoned, Ids, NoId
  <2> QED BY <1>3, <2>1, <2>2, <2>3, <2>4 DEF TaskStep
<1>4. CASE Crash
  BY <1>1, <1>4 DEF Crash, Abandoned, Ids, NoId
<1>5. CASE UNCHANGED task
  BY <1>2, <1>5
<1> QED BY <1>3, <1>4, <1>5 DEF Next, TaskStep, Boot, Add, Delete, Purge

LEMMA CopyStays ==
    ASSUME TypeOK, Stages, Known, Next, NEW id \in persisted, NEW c \in Chunk, CopyOK(id, c)
    PROVE  CopyOK(id, c)'
<1>1. Grown
  BY Grows
<1>2. c.by \in {NoId} \union 1..made'
  BY <1>1 DEF Grown, Older, CopyOK, TypeOK
<1>3. c.by # NoId => ~c.latest /\ rank'[id] <= rank'[c.by]
  BY <1>1 DEF Grown, Older, CopyOK, Known
<1>4. c.merged => \E n \in persisted' : id \in sources'[n]
  BY <1>1 DEF Grown, Older, CopyOK, Known
<1>5. ~c.latest => c.by \in persisted' \/ id \in stranded' \/ Pending(id, c.by)'
  BY <1>1, PendingStays DEF Grown, Older, CopyOK, TypeOK
<1>6. c.over \in {NoId} \union persisted'
  BY <1>1 DEF Grown, Older, CopyOK
<1> QED BY <1>2, <1>3, <1>4, <1>5, <1>6 DEF CopyOK, Pending

\* The copy a task has is the one it had, or one it reads now.
LEMMA SnapFrom ==
    ASSUME TypeOK, Stages, Known, Next, NEW t \in Tasks, task'[t] # Idle, task'[t].at # NoId
    PROVE  \/ task[t] # Idle /\ task'[t].at = task[t].at /\ task'[t].snap = task[t].snap
           \/ task'[t].at \in stored /\ task'[t].snap = chunk[task'[t].at]
<1> DEFINE From == \/ task[t] # Idle /\ task'[t].at = task[t].at /\ task'[t].snap = task[t].snap
                   \/ task'[t].at \in stored /\ task'[t].snap = chunk[task'[t].at]
<1>1. CASE task'[t] = task[t]
  BY <1>1
<1>2. ASSUME NEW u \in Tasks, TaskStep(u), u # t
      PROVE  From
  BY <1>1, <1>2, OneMoves
<1>3. CASE StartStep(t)
  <2>1. ASSUME NEW old \in Ids, NEW r \in Ranks, Ingest(t, old, r) \/ Replace(t, old, r)
        PROVE  From
    BY <2>1 DEF TypeOK, Ingest, Replace, Start, Replaceable, Current, Live
  <2>2. ASSUME NEW S \in SUBSET Ids, Dream(t, S) \/ Merge(t, S)
        PROVE  From
    BY <2>2 DEF TypeOK, Dream, Merge, Start
  <2>3. ASSUME NEW id \in Ids, Edit(t, id)
        PROVE  From
    BY <2>3 DEF TypeOK, Edit
  <2> QED BY <1>3, <2>1, <2>2, <2>3 DEF StartStep
<1>4. CASE MergeStep(t) \/ WriteStep(t) \/ GiveUp(t)
  <2>1. task[t].pc # "idle" /\ task[t] \in Task /\ task[t] # Idle
    <3>1. CASE MergeStep(t) \/ WriteStep(t)
      <4>1. task[t].pc # "idle"
        BY <3>1 DEF MergeStep, Mark, MarkFails, Settle, SettleFails, Release, WriteStep,
            Flip, FlipFails, Persist, Reload, Unlink, Detach, Retire, Retired, EditWrite
      <4> QED BY <4>1, BusyTask DEF Busy
    <3>2. CASE GiveUp(t)
      BY <3>2, BusyTask DEF GiveUp, Doing, Busy, Idle, AllOps, Task
    <3> QED BY <1>4, <3>1, <3>2
  <2>2. ASSUME NEW pc \in Stops, Goto(t, pc) \/ Done(t)
        PROVE  From
    BY <2>1, <2>2 DEF TypeOK, Goto, Done, Task
  <2>3. CASE MergeStep(t) \/ GiveUp(t)
    BY <2>2, <2>3 DEF MergeStep, Mark, MarkFails, Settle, SettleFails, Release, GiveUp, Stops
  <2>4. CASE Flip(t) \/ FlipFails(t)
    <3>1. task[t].op \in {"ingest", "replace", "dream"}
      BY <2>4, Places DEF Flip, FlipFails, Stage, StepOf
    <3>2. CASE FlipFails(t)
      BY <2>2, <2>4, <3>1, <3>2 DEF FlipFails, Stops
    <3>3. CASE Flip(t) /\ task[t].op = "replace"
      BY <2>2, <3>3 DEF Flip, AfterFlip, Stops
    <3>4. CASE Flip(t) /\ task[t].op = "ingest"
      BY <2>1, <3>4 DEF TypeOK, Flip, AfterFlip, Task
    <3>5. CASE Flip(t) /\ task[t].op = "dream"
      BY <2>1, <3>5 DEF TypeOK, Flip, AfterFlip, Task
    <3> QED BY <2>4, <3>1, <3>2, <3>3, <3>4, <3>5
  <2>5. CASE Persist(t)
    <3>1. task[t].op \in {"ingest", "replace", "dream", "merge"}
      BY <2>5, Places DEF Persist, Stage, StepOf
    <3>2. CASE task[t].op = "dream"
      BY <2>1, <2>5, <3>2 DEF TypeOK, Persist, Task
    <3>3. CASE task[t].op # "dream"
      BY <2>2, <2>5, <3>1, <3>3 DEF Persist, Stops
    <3> QED BY <3>2, <3>3
  <2>6. CASE Detach(t) \/ EditWrite(t) \/ Retired(t)
    BY <2>2, <2>6 DEF Detach, EditWrite, Retired, Stops
  <2>7. CASE Reload(t)
    BY <2>1, <2>2, <2>7 DEF TypeOK, Reload, Replaceable, Current, Live, Stops, Task
  <2>8. CASE Unlink(t)
    BY <2>1, <2>2, <2>8 DEF TypeOK, Unlink, Stops, Task
  <2>9. ASSUME NEW old \in Ids, Retire(t, old)
        PROVE  From
    BY <2>1, <2>9 DEF TypeOK, Retire, Current, Live, Task
  <2> QED BY <1>4, <2>3, <2>4, <2>5, <2>6, <2>7, <2>8, <2>9 DEF WriteStep
<1>5. CASE Crash
  BY <1>5 DEF Crash
<1>6. CASE UNCHANGED task
  BY <1>1, <1>6
<1> QED BY <1>2, <1>3, <1>4, <1>5, <1>6 DEF Next, TaskStep, Boot, Add, Delete, Purge

LEMMA FlagsKeep ==
    ASSUME TypeOK, NEW S, NEW l \in BOOLEAN, NEW m \in BOOLEAN, NEW id \in Ids
    PROVE  LET c == SetFlags(S, l, m)[id] IN
           /\ c.latest = chunk[id].latest /\ c.deleted = chunk[id].deleted
           /\ c.by = chunk[id].by /\ c.over = chunk[id].over
           /\ c.leased = IF id \in S \intersect stored THEN l ELSE chunk[id].leased
           /\ c.merged = (chunk[id].merged \/ (m /\ id \in S \intersect stored))
<1>1. chunk[id] \in Chunk
  BY DEF TypeOK
<1>2. ASSUME NEW c \in Chunk
      PROVE  LET d == [c EXCEPT !.leased = l, !.merged = m \/ @] IN
             /\ d.latest = c.latest /\ d.deleted = c.deleted /\ d.by = c.by /\ d.over = c.over
             /\ d.leased = l /\ d.merged = (m \/ c.merged)
  BY DEF Chunk
<1>3. CASE id \in S \intersect stored
  <2>1. SetFlags(S, l, m)[id] = [chunk[id] EXCEPT !.leased = l, !.merged = m \/ @]
    BY <1>3 DEF SetFlags
  <2> QED BY <1>1, <1>2, <1>3, <2>1
<1>4. CASE id \notin S \intersect stored
  <2>1. SetFlags(S, l, m)[id] = chunk[id]
    BY <1>4 DEF SetFlags
  <2>2. chunk[id].merged \in BOOLEAN
    BY <1>1 DEF Chunk
  <2> QED BY <1>4, <2>1, <2>2
<1> QED BY <1>3, <1>4

\* A copy that differs from a stored one in nothing that matters here.
LEMMA CopyKept ==
    ASSUME TypeOK, Stages, Known, Copies, Next, NEW id \in stored, NEW d \in Chunk,
           d.by = chunk[id].by, d.latest = chunk[id].latest, d.over = chunk[id].over,
           d.merged => chunk[id].merged \/ \E n \in persisted' : id \in sources'[n]
    PROVE  CopyOK(id, d)'
<1>1. PICK c \in Chunk : c = chunk[id]
  BY DEF TypeOK
<1>2. CopyOK(id, c)'
  BY <1>1, CopyStays DEF Copies, Known
<1> QED BY <1>1, <1>2 DEF CopyOK, Pending

\* The copy a task has read, until it writes it back.
LEMMA SnapKept ==
    ASSUME TypeOK, Stages, Known, Copies, Next, NEW t \in Tasks, task[t].pc # "idle",
           NEW a \in Ids, a = task[t].at, NEW c \in Chunk, c = task[t].snap
    PROVE  a \in persisted /\ CopyOK(a, c) /\ CopyOK(a, c)'
<1>1. task[t] # Idle /\ Stage(task[t]) /\ a # NoId
  BY Places, BusyTask DEF Busy, Ids, NoId
<1>2. a \in persisted
  BY <1>1 DEF Stage
<1>3. CopyOK(a, c)
  BY <1>1 DEF Copies, Busy
<1> QED BY <1>2, <1>3, CopyStays

\* The flipped copy: its successor is stored, or an ingest is about to store it.
LEMMA FlippedCopy ==
    ASSUME TypeOK, Stages, Known, Copies, Next, NEW t \in Tasks, Flip(t), Trusted(t),
           NEW a \in Ids, a = task[t].at, NEW d \in Chunk, d = chunk'[a]
    PROVE  CopyOK(a, d)'
<1>1. /\ task[t].pc = "flip" /\ task[t].pc # "idle" /\ task[t] \in Task /\ Stage(task[t])
      /\ task[t].op \in {"ingest", "replace", "dream"} /\ UNCHANGED birth
  BY Places DEF Flip, Stage, StepOf
<1>2. PICK c \in Chunk : c = task[t].snap
  BY <1>1 DEF Task
<1>3. PICK n \in 1..made : n = task[t].new
  BY <1>1 DEF Stage
<1>4. d.by = n /\ ~d.latest /\ d.merged = c.merged /\ d.over = c.over
  <2>1. d = [c EXCEPT !.latest = FALSE, !.by = n]
    BY <1>1, <1>2, <1>3 DEF TypeOK, Flip, WriteBack
  <2> QED BY <2>1 DEF Chunk
<1>5. a \in persisted /\ CopyOK(a, c)'
  BY <1>1, <1>2, SnapKept
<1>6. rank'[a] <= rank'[n]
  BY <1>1, <1>3 DEF Trusted, birth
<1>7. n \in 1..made'
  BY <1>1 DEF birth
<1>8. n \in persisted' \/ Pending(a, n)'
  <2>1. CASE task[t].op = "ingest"
    <3>1. task' = [task EXCEPT ![t].pc = "persist", ![t].link = task[t].at]
      BY <2>1 DEF Flip, AfterFlip
    <3>2. /\ task'[t].pc = "persist" /\ task'[t].new = n /\ task'[t].link = a
          /\ task'[t].op = "ingest" /\ task'[t] # Idle
      BY <1>1, <1>3, <2>1, <3>1 DEF TypeOK, Task, Idle
    <3> QED BY <3>2 DEF Pending, Doing, Busy
  <2>2. CASE task[t].op # "ingest"
    BY <1>1, <1>3, <2>2 DEF Stage, IsStored, Flip
  <2> QED BY <2>1, <2>2
<1> QED BY <1>4, <1>5, <1>6, <1>7, <1>8 DEF CopyOK, Pending

LEMMA CopiesStay ==
    ASSUME TypeOK, Stages, Known, Copies, Next
    PROVE  Copies'
<1> USE TypeStays
<1>1. ASSUME NEW id \in stored, NEW d \in Chunk, d = chunk[id]
      PROVE  CopyOK(id, d)'
  BY <1>1, CopyKept
<1>2. ASSUME NEW S \in SUBSET Ids, NEW l \in BOOLEAN, NEW m \in BOOLEAN,
             chunk' = SetFlags(S, l, m), UNCHANGED stored,
             m => \A id \in S : \E n \in persisted' : id \in sources'[n]
      PROVE  \A id \in stored', d \in Chunk : d = chunk'[id] => CopyOK(id, d)'
  <2> TAKE id \in stored', d \in Chunk
  <2> HAVE d = chunk'[id]
  <2>1. id \in stored /\ id \in Ids
    BY <1>2 DEF TypeOK
  <2>2. d.by = chunk[id].by /\ d.latest = chunk[id].latest /\ d.over = chunk[id].over
        /\ d.merged = (chunk[id].merged \/ (m /\ id \in S \intersect stored))
    BY <1>2, <2>1, FlagsKeep
  <2> QED BY <1>2, <2>1, <2>2, CopyKept
<1>3. ASSUME NEW t \in Tasks, NEW a \in Ids, a = task[t].at, NEW c \in Chunk, WriteBack(t, c),
             CopyOK(a, c)'
      PROVE  \A id \in stored', d \in Chunk : d = chunk'[id] => CopyOK(id, d)'
  BY <1>1, <1>3 DEF WriteBack, TypeOK
<1>4. \A id \in stored', d \in Chunk : d = chunk'[id] => CopyOK(id, d)'
  <2>1. ASSUME NEW t \in Tasks, MergeStep(t)
        PROVE  \A id \in stored', d \in Chunk : d = chunk'[id] => CopyOK(id, d)'
    <3>1. /\ UNCHANGED <<stored, birth, persisted>> /\ task[t].pc # "idle"
          /\ task[t] \in Task /\ Stage(task[t]) /\ task[t].olds \in SUBSET Ids
      BY <2>1, Places DEF MergeStep, Mark, MarkFails, Settle, SettleFails, Release, Task
    <3>2. CASE Mark(t) \/ MarkFails(t) \/ Release(t)
      <4>1. PICK S \in SUBSET Ids, l \in BOOLEAN : chunk' = SetFlags(S, l, FALSE)
        BY <3>1, <3>2 DEF Mark, MarkFails, Release, Leased
      <4> QED BY <1>2, <3>1, <4>1
    <3>3. CASE Settle(t) \/ SettleFails(t)
      <4>1. PICK S \in SUBSET task[t].olds : chunk' = SetFlags(S, FALSE, TRUE)
        BY <3>3 DEF Settle, SettleFails, Settled
      <4>2. S \in SUBSET Ids /\ \A id \in S : \E n \in persisted' : id \in sources'[n]
        BY <3>1, <3>3, <4>1 DEF Settle, SettleFails, Stage, StepOf, IsStored, birth
      <4> QED BY <1>2, <3>1, <4>1, <4>2
    <3> QED BY <2>1, <3>2, <3>3 DEF MergeStep
  <2>2. ASSUME NEW t \in Tasks, Flip(t)
        PROVE  \A id \in stored', d \in Chunk : d = chunk'[id] => CopyOK(id, d)'
    <3>1. PICK a \in Ids : a = task[t].at
      BY <2>2, Places DEF Flip
    <3>2. CASE Trusted(t)
      <4>1. \A id \in stored' \ {a} : id \in stored /\ chunk'[id] = chunk[id]
        BY <2>2, <3>1, <3>2 DEF Flip, WriteBack, TypeOK
      <4> QED BY <1>1, <2>2, <3>1, <3>2, <4>1, FlippedCopy
    <3>3. CASE ~Trusted(t)
      BY <1>1, <2>2, <3>3 DEF Flip
    <3> QED BY <3>2, <3>3
  <2>3. ASSUME NEW t \in Tasks, Detach(t) \/ EditWrite(t)
        PROVE  \A id \in stored', d \in Chunk : d = chunk'[id] => CopyOK(id, d)'
    <3>1. PICK a \in Ids : a = task[t].at
      BY <2>3, Places DEF Detach, EditWrite
    <3>2. PICK s \in Chunk : s = task[t].snap
      BY <2>3, Places DEF Detach, EditWrite, Task
    <3>3. CopyOK(a, s)'
      BY <2>3, <3>1, <3>2, SnapKept DEF Detach, EditWrite
    <3>4. PICK c \in Chunk : WriteBack(t, c) /\ (c = s \/ c = [s EXCEPT !.over = NoId])
      BY <2>3, <3>2, ChunkRecord DEF Detach, EditWrite
    <3>5. CopyOK(a, c)'
      <4>1. /\ c.by = s.by /\ c.latest = s.latest /\ c.merged = s.merged
            /\ c.over \in {s.over, NoId}
        BY <3>4 DEF Chunk
      <4> QED BY <3>3, <4>1 DEF CopyOK, Pending
    <3> QED BY <1>3, <3>1, <3>4, <3>5
  <2>4. ASSUME NEW n \in Ids, NEW o \in {NoId} \union persisted', stored' = stored \union {n},
               chunk' = [chunk EXCEPT ![n] = NewChunk(o)]
        PROVE  \A id \in stored', d \in Chunk : d = chunk'[id] => CopyOK(id, d)'
    <3>1. \A d \in Chunk : d = chunk'[n] => CopyOK(n, d)'
      BY <2>4 DEF CopyOK, NewChunk, TypeOK
    <3>2. \A id \in stored' \ {n} : id \in stored /\ chunk'[id] = chunk[id]
      BY <2>4 DEF TypeOK
    <3> QED BY <1>1, <3>1, <3>2
  <2>5. CASE \E t \in Tasks : Persist(t)
    <3>1. PICK t \in Tasks : Persist(t)
      BY <2>5
    <3>2. PICK n \in Ids : n = task[t].new
      BY <3>1, Places DEF Persist, Stage, StepOf
    <3>3. PICK o \in {NoId} \union persisted' : o = task[t].link
      <4>1. /\ Stage(task[t]) /\ task[t].pc = "persist"
            /\ task[t].op \in {"ingest", "replace", "dream", "merge"}
        BY <3>1, Places DEF Persist, Stage, StepOf
      <4>2. task[t].link \in {NoId, task[t].at} /\ task[t].at \in persisted \union {NoId}
        BY <4>1 DEF Stage, LinkOf
      <4>3. persisted \subseteq persisted'
        BY <3>1 DEF Persist
      <4> QED BY <4>2, <4>3
    <3>4. stored' = stored \union {n} /\ chunk' = [chunk EXCEPT ![n] = NewChunk(o)]
      BY <3>1, <3>2, <3>3 DEF Persist
    <3> QED BY <2>4, <3>4
  <2>6. CASE \E r \in Ranks : Add(r)
    <3>1. made + 1 \in Ids
      BY <2>6, VersionsAssumption DEF Add, Born, Ids, TypeOK
    <3> QED BY <2>4, <2>6, <3>1 DEF Add
  <2>7. ASSUME NEW x \in Ids, Delete(x) \/ Purge(x)
        PROVE  \A id \in stored', d \in Chunk : d = chunk'[id] => CopyOK(id, d)'
    <3> TAKE id \in stored', d \in Chunk
    <3> HAVE d = chunk'[id]
    <3>1. id \in stored
      BY <2>7 DEF Delete, Purge
    <3>2. /\ d.by = chunk[id].by /\ d.latest = chunk[id].latest /\ d.merged = chunk[id].merged
          /\ d.over = chunk[id].over
      BY <2>7, <3>1 DEF Delete, Purge, TypeOK, Chunk
    <3> QED BY <3>1, <3>2, CopyKept
  <2>8. CASE Boot
    <3>1. UNCHANGED stored /\ {id \in Ids : Live(id)} \in SUBSET Ids
      BY <2>8 DEF Boot
    <3> QED BY <1>2, <2>8, <3>1 DEF Boot, Recovered
  <2>9. CASE UNCHANGED <<stored, chunk>>
    BY <1>1, <2>9
  <2>10. ASSUME NEW t \in Tasks, StartStep(t)
         PROVE  UNCHANGED <<stored, chunk>>
    BY <2>10, StartLeaves
  <2>11. ASSUME NEW t \in Tasks, FlipFails(t) \/ Reload(t) \/ Unlink(t) \/ Retired(t) \/ GiveUp(t)
                                 \/ \E old \in Ids : Retire(t, old)
         PROVE  UNCHANGED <<stored, chunk>>
    BY <2>11 DEF FlipFails, Reload, Unlink, Retired, GiveUp, Retire
  <2>12. Crash => UNCHANGED <<stored, chunk>>
    BY DEF Crash
  <2> QED BY <2>1, <2>2, <2>3, <2>5, <2>6, <2>7, <2>8, <2>9, <2>10, <2>11, <2>12 DEF Next, WriteStep
<1>5. \A t \in Tasks, a \in Ids, c \in Chunk :
          task'[t] # Idle /\ a = task'[t].at /\ c = task'[t].snap => CopyOK(a, c)'
  <2> TAKE t \in Tasks, a \in Ids, c \in Chunk
  <2> HAVE task'[t] # Idle /\ a = task'[t].at /\ c = task'[t].snap
  <2>1. a # NoId
    BY DEF Ids, NoId
  <2>2. CASE task[t] # Idle /\ task'[t].at = task[t].at /\ task'[t].snap = task[t].snap
    <3>1. task[t].pc # "idle"
      BY <2>2, Places, BusyTask DEF Busy, Task
    <3> QED BY <2>2, <3>1, SnapKept
  <2>3. CASE task'[t].at \in stored /\ task'[t].snap = chunk[task'[t].at]
    BY <1>1, <2>3
  <2> QED BY <2>1, <2>2, <2>3, SnapFrom
<1>6. TypeOK'
  OBVIOUS
<1>7. \A id \in stored' : CopyOK(id, chunk[id])'
  BY <1>4, <1>6 DEF TypeOK, CopyOK, Pending
<1>8. \A t \in Tasks : Busy(t)' /\ task'[t].at # NoId => CopyOK(task[t].at, task[t].snap)'
  BY <1>5, <1>6 DEF TypeOK, Task, Busy, CopyOK, Pending
<1> QED BY <1>7, <1>8 DEF Copies

-----------------------------------------------------------------------------
(* Leases *)

LeasedBy(t, id) == /\ Doing(t, "merge")
                   /\ task[t].pc \in {"persist", "settle", "release"}
                   /\ id \in task[t].olds
Holds(id) == id \in leaked \union clobbered \/ \E t \in Tasks : LeasedBy(t, id)

\* A write of a copy changes the lease of a chunk only if the copy is stale.
LEMMA WriteLease ==
    ASSUME TypeOK, NEW t \in Tasks, NEW a \in Ids, a = task[t].at, NEW c \in Chunk,
           NEW s \in Chunk, s = task[t].snap, c.leased = s.leased, c.deleted = s.deleted,
           WriteBack(t, c), NEW id \in Ids, Live(id)', chunk'[id].leased, id \notin clobbered'
    PROVE  Live(id) /\ chunk[id].leased
<1>1. CASE id = a
  <2>1. a \in stored /\ chunk[a] = s /\ chunk'[a] = c
    BY <1>1 DEF WriteBack, TypeOK
  <2> QED BY <1>1, <2>1 DEF Live
<1>2. CASE id # a
  BY <1>2 DEF WriteBack, TypeOK, Live
<1> QED BY <1>1, <1>2

LEMMA LeaseStays ==
    ASSUME TypeOK, Stages, LeaseHeld, Next
    PROVE  LeaseHeld'
<1> USE TypeStays
<1>1. ASSUME NEW id \in Ids, Live(id), chunk[id].leased, up
      PROVE  Holds(id)
  BY <1>1 DEF LeaseHeld, Holds, LeasedBy
<1>2. ASSUME NEW id \in Ids, Holds(id), leaked \subseteq leaked', clobbered \subseteq clobbered',
             \A t \in Tasks : LeasedBy(t, id) => LeasedBy(t, id)'
      PROVE  Holds(id)'
  BY <1>2 DEF Holds
<1>4. ASSUME NEW t \in Tasks, MergeStep(t), NEW id \in Ids, up', Live(id)', chunk'[id].leased
      PROVE  Holds(id)'
  <2>1. /\ task[t].pc # "idle" /\ task[t] \in Task /\ Stage(task[t]) /\ task[t].op = "merge"
        /\ Busy(t) /\ task[t].olds \subseteq Ids /\ UNCHANGED <<stored, up, clobbered>>
    <3>1. task[t].pc # "idle" /\ UNCHANGED <<stored, up, clobbered>>
      BY <1>4 DEF MergeStep, Mark, MarkFails, Settle, SettleFails, Release, ghosts
    <3>2. task[t].op = "merge"
      BY <1>4, <3>1, Places DEF MergeStep, Mark, MarkFails, Settle, SettleFails, Release, Stage, StepOf
    <3> QED BY <3>1, <3>2, Places, BusyTask DEF Task
  <2>2. leaked \subseteq leaked'
    BY <1>4 DEF MergeStep, Mark, MarkFails, Settle, SettleFails, Release, ghosts
  <2>3. ASSUME NEW S, NEW l \in BOOLEAN, NEW m \in BOOLEAN, chunk' = SetFlags(S, l, m)
        PROVE  /\ id \in stored /\ Live(id)
               /\ IF id \in S THEN l ELSE chunk[id].leased
    BY <1>4, <2>1, <2>3, FlagsKeep DEF Live
  <2>4. ASSUME NEW u \in Tasks, u # t, LeasedBy(u, id)
        PROVE  LeasedBy(u, id)'
    <3>1. TaskStep(t)
      BY <1>4 DEF TaskStep
    <3>2. task'[u] = task[u]
      BY <2>4, <3>1, OneMoves
    <3> QED BY <2>4, <3>2 DEF LeasedBy, Doing, Busy
  <2>5. \A u \in Tasks : LeasedBy(u, id) => u = t
    BY <2>1 DEF Stages, LeasedBy, Doing
  <2>6. CASE Mark(t)
    <3>1. CASE id \in task[t].olds
      <4>1. task' = [task EXCEPT ![t].pc = "persist"]
        BY <2>6 DEF Mark, Goto
      <4>2. LeasedBy(t, id)'
        BY <2>1, <3>1, <4>1 DEF LeasedBy, Doing, Busy, Idle, TypeOK, Task
      <4> QED BY <4>2 DEF Holds
    <3>2. CASE id \notin task[t].olds
      <4>1. Live(id) /\ chunk[id].leased
        BY <2>3, <2>6, <3>2 DEF Mark, Leased
      <4> QED BY <1>1, <1>2, <1>4, <2>1, <2>2, <2>5, <2>6, <4>1 DEF LeasedBy, Mark
    <3> QED BY <3>1, <3>2
  <2>7. CASE MarkFails(t)
    <3>1. PICK S \in SUBSET task[t].olds : chunk' = SetFlags(S, TRUE, FALSE) /\ leaked' = leaked \union S
      BY <2>7 DEF MarkFails, Leased
    <3>2. CASE id \in S
      BY <3>1, <3>2 DEF Holds
    <3>3. CASE id \notin S
      <4>1. Live(id) /\ chunk[id].leased
        BY <2>3, <3>1, <3>3
      <4> QED BY <1>1, <1>2, <1>4, <2>1, <2>2, <2>5, <2>7, <4>1 DEF LeasedBy, MarkFails
    <3> QED BY <3>2, <3>3
  <2>8. CASE Settle(t)
    <3>1. id \notin task[t].olds /\ Live(id) /\ chunk[id].leased
      BY <2>3, <2>8 DEF Settle, Settled
    <3> QED BY <1>1, <1>2, <1>4, <2>1, <2>2, <2>5, <3>1 DEF LeasedBy
  <2>9. CASE SettleFails(t)
    <3>1. PICK S \in SUBSET task[t].olds : chunk' = SetFlags(S, FALSE, TRUE)
      BY <2>9 DEF SettleFails, Settled
    <3>2. Live(id) /\ chunk[id].leased
      BY <2>3, <3>1
    <3>3. LeasedBy(t, id) => LeasedBy(t, id)'
      BY <2>1, <2>9 DEF SettleFails, Goto, LeasedBy, Doing, Busy, Idle, TypeOK, Task
    <3> QED BY <1>1, <1>2, <1>4, <2>1, <2>2, <2>5, <3>2, <3>3
  <2>10. CASE Release(t)
    <3>1. PICK S \in SUBSET task[t].olds :
             chunk' = SetFlags(S, FALSE, FALSE) /\ leaked' = leaked \union (task[t].olds \ S)
      BY <2>10 DEF Release
    <3>2. id \notin S /\ Live(id) /\ chunk[id].leased
      BY <2>3, <3>1
    <3>3. CASE id \in task[t].olds
      BY <3>1, <3>2, <3>3 DEF Holds
    <3>4. CASE id \notin task[t].olds
      BY <1>1, <1>2, <1>4, <2>1, <2>2, <2>5, <3>2, <3>4 DEF LeasedBy
    <3> QED BY <3>3, <3>4
  <2> QED BY <1>4, <2>6, <2>7, <2>8, <2>9, <2>10 DEF MergeStep
<1>5. ASSUME NEW t \in Tasks, StartStep(t) \/ WriteStep(t) \/ GiveUp(t), NEW u \in Tasks,
             NEW id, LeasedBy(u, id)
      PROVE  LeasedBy(u, id)'
  <2>1. CASE u # t
    <3>1. task'[u] = task[u]
      BY <1>5, <2>1, OneMoves DEF TaskStep
    <3> QED BY <1>5, <3>1 DEF LeasedBy, Doing, Busy
  <2>2. CASE u = t
    <3>1. task[t] \in Task /\ task[t].op = "merge" /\ task[t].pc # "idle" /\ Stage(task[t]) /\ Busy(t)
      BY <1>5, <2>2, BusyTask, Places DEF LeasedBy, Doing
    <3>2. CASE StartStep(t)
      BY <3>1, <3>2, StartLeaves
    <3>3. CASE Persist(t) \/ GiveUp(t)
      <4>1. PICK pc \in {"settle", "release"} : Goto(t, pc)
        BY <3>1, <3>3 DEF Persist, GiveUp
      <4> QED BY <1>5, <2>2, <3>1, <4>1 DEF Goto, LeasedBy, Doing, Busy, Idle, TypeOK, Task
    <3>4. ASSUME WriteStep(t), ~Persist(t)
          PROVE  FALSE
      BY <3>1, <3>4 DEF WriteStep, Flip, FlipFails, Reload, Unlink, Detach, Retire, Retired,
         EditWrite, Stage, StepOf
    <3> QED BY <1>5, <3>2, <3>3, <3>4
  <2> QED BY <2>1, <2>2
<1>6. ASSUME NEW t \in Tasks, StartStep(t) \/ WriteStep(t) \/ GiveUp(t), NEW id \in Ids, up',
             Live(id)', chunk'[id].leased
      PROVE  Holds(id)'
  <2>1. UNCHANGED <<up, leaked>> /\ clobbered \subseteq clobbered'
    <3>1. CASE StartStep(t)
      BY <3>1, StartLeaves DEF ghosts
    <3>2. CASE WriteStep(t) \/ GiveUp(t)
      BY <3>2 DEF WriteStep, Flip, FlipFails, Persist, Reload, Unlink, Detach, Retire, Retired,
         EditWrite, GiveUp, WriteBack, ghosts
    <3> QED BY <1>6, <3>1, <3>2
  <2>2. ASSUME Live(id), chunk[id].leased
        PROVE  Holds(id)'
    BY <1>1, <1>2, <1>5, <1>6, <2>1, <2>2
  <2>3. CASE UNCHANGED <<stored, chunk>>
    BY <1>6, <2>2, <2>3 DEF Live
  <2>4. CASE Persist(t)
    <3>1. PICK n \in Ids : n = task[t].new
      BY <2>4, Places DEF Persist, Stage, StepOf
    <3>2. id # n
      BY <1>6, <2>4, <3>1 DEF Persist, NewChunk, TypeOK
    <3>3. Live(id) /\ chunk[id].leased
      BY <1>6, <2>4, <3>1, <3>2 DEF Persist, Live, TypeOK
    <3> QED BY <2>2, <3>3
  <2>5. CASE Flip(t) \/ Detach(t) \/ EditWrite(t)
    <3>1. PICK a \in Ids, s \in Chunk : a = task[t].at /\ s = task[t].snap
      BY <2>5, Places DEF Flip, Detach, EditWrite, Task
    <3>2. PICK n \in Ids \union {NoId} : n = task[t].new
      BY <2>5, Places DEF Flip, Detach, EditWrite, Task
    <3>3. ASSUME NEW c \in Chunk, WriteBack(t, c), c.leased = s.leased, c.deleted = s.deleted
          PROVE  Holds(id)'
      BY <1>6, <2>2, <3>1, <3>3, WriteLease DEF Holds
    <3>4. /\ [s EXCEPT !.latest = FALSE, !.by = n] \in Chunk
          /\ [s EXCEPT !.latest = FALSE, !.by = n].leased = s.leased
          /\ [s EXCEPT !.latest = FALSE, !.by = n].deleted = s.deleted
      BY DEF Chunk
    <3>5. /\ [s EXCEPT !.over = NoId] \in Chunk
          /\ [s EXCEPT !.over = NoId].leased = s.leased
          /\ [s EXCEPT !.over = NoId].deleted = s.deleted
      BY DEF Chunk
    <3>6. CASE Flip(t)
      BY <2>3, <3>1, <3>2, <3>3, <3>4, <3>6 DEF Flip
    <3>7. CASE Detach(t)
      BY <3>1, <3>3, <3>5, <3>7 DEF Detach
    <3>8. CASE EditWrite(t)
      BY <3>1, <3>3, <3>8 DEF EditWrite
    <3> QED BY <2>5, <3>6, <3>7, <3>8
  <2>6. StartStep(t) => UNCHANGED <<stored, chunk>>
    BY StartLeaves
  <2>7. FlipFails(t) \/ Reload(t) \/ Unlink(t) \/ Retired(t) \/ GiveUp(t)
           \/ (\E old \in Ids : Retire(t, old)) => UNCHANGED <<stored, chunk>>
    BY DEF FlipFails, Reload, Unlink, Retired, GiveUp, Retire
  <2> QED BY <1>6, <2>3, <2>4, <2>5, <2>6, <2>7 DEF WriteStep
<1>7. ASSUME (\E r \in Ranks : Add(r)) \/ (\E x \in Ids : Delete(x) \/ Purge(x)),
             NEW id \in Ids, up', Live(id)', chunk'[id].leased
      PROVE  Holds(id)'
  <2>1. UNCHANGED <<task, up, ghosts>>
    BY <1>7 DEF Add, Delete, Purge
  <2>2. Live(id) /\ chunk[id].leased
    <3>1. ASSUME NEW r \in Ranks, Add(r)
          PROVE  Live(id) /\ chunk[id].leased
      BY <1>7, <3>1, VersionsAssumption DEF Add, Born, Ids, NewChunk, TypeOK, Live
    <3>2. ASSUME NEW x \in Ids, Delete(x) \/ Purge(x)
          PROVE  Live(id) /\ chunk[id].leased
      <4>1. x # id => chunk'[id] = chunk[id]
        BY <3>2 DEF Delete, Purge, TypeOK
      <4>2. x = id => ~Live(id)'
        BY <3>2 DEF Delete, Purge, Live, TypeOK, Chunk
      <4>3. stored' \subseteq stored
        BY <3>2 DEF Delete, Purge
      <4> QED BY <1>7, <4>1, <4>2, <4>3 DEF Live
    <3> QED BY <1>7, <3>1, <3>2
  <2> QED BY <1>1, <1>7, <2>1, <2>2 DEF Holds, LeasedBy, Doing, Busy, ghosts
<1>8. ASSUME Boot, NEW id \in Ids
      PROVE  ~(Live(id)' /\ chunk'[id].leased)
  <2>1. PICK S : S = {x \in Ids : Live(x)}
    OBVIOUS
  <2>2. chunk' = SetFlags(S, FALSE, FALSE) /\ stored' = stored
    BY <1>8, <2>1 DEF Boot, Recovered
  <2>6. LET c == SetFlags(S, FALSE, FALSE)[id] IN
        /\ c.deleted = chunk[id].deleted
        /\ c.leased = IF id \in S \intersect stored THEN FALSE ELSE chunk[id].leased
    BY FlagsKeep
  <2>7. chunk'[id].deleted = chunk[id].deleted
    BY <2>2, <2>6
  <2>3. Live(id)' => Live(id)
    BY <2>2, <2>7 DEF Live
  <2>4. Live(id) => id \in S \intersect stored
    BY <2>1 DEF Live
  <2>5. id \in S \intersect stored => ~chunk'[id].leased
    BY <2>2, <2>6
  <2> QED BY <2>3, <2>4, <2>5
<1>9. Crash => ~up'
  BY DEF Crash
<1>10. \A id \in Ids : up' /\ Live(id)' /\ chunk'[id].leased => Holds(id)'
  BY <1>4, <1>6, <1>7, <1>8, <1>9 DEF Next
<1> QED BY <1>10 DEF LeaseHeld, Holds, LeasedBy

-----------------------------------------------------------------------------
(* Consolidation *)

Consumed(id) == id \notin stored \/ chunk[id].merged

\* A stale copy apart, nothing brings a consolidated chunk back.
LEMMA ConsumedStays ==
    ASSUME TypeOK, Stages, Known, Next, NEW id \in persisted, id \notin clobbered', Consumed(id)
    PROVE  Consumed(id)'
<1>1. id \in Ids /\ id \in 1..made
  BY DEF TypeOK, Known
<1>2. CASE UNCHANGED <<stored, chunk>>
  BY <1>2 DEF Consumed
<1>3. ASSUME NEW S, NEW l \in BOOLEAN, NEW m \in BOOLEAN, chunk' = SetFlags(S, l, m), stored' = stored
      PROVE  Consumed(id)'
  <2>1. chunk'[id].merged = (chunk[id].merged \/ (m /\ id \in S \intersect stored))
    BY <1>1, <1>3, FlagsKeep
  <2> QED BY <1>3, <2>1 DEF Consumed
<1>4. ASSUME NEW t \in Tasks, MergeStep(t)
      PROVE  Consumed(id)'
  <2>1. stored' = stored
    BY <1>4 DEF MergeStep, Mark, MarkFails, Settle, SettleFails, Release
  <2>2. \E S : \E l, m \in BOOLEAN : chunk' = SetFlags(S, l, m)
    BY <1>4 DEF MergeStep, Mark, MarkFails, Settle, SettleFails, Release, Leased, Settled
  <2> QED BY <1>3, <2>1, <2>2
<1>5. ASSUME NEW t \in Tasks, NEW a \in Ids, a = task[t].at, NEW s \in Chunk, s = task[t].snap,
             NEW c \in Chunk, c.merged = s.merged, WriteBack(t, c)
      PROVE  Consumed(id)'
  BY <1>1, <1>5 DEF WriteBack, Consumed, TypeOK
<1>6. ASSUME NEW t \in Tasks, WriteStep(t)
      PROVE  Consumed(id)'
  <2>1. CASE Persist(t)
    <3>1. PICK n \in Ids : n = task[t].new
      BY <2>1, Places DEF Persist, Stage, StepOf
    <3>2. n \notin persisted
      BY <2>1, <3>1, Places DEF Persist, Stage, Unstored
    <3> QED BY <1>1, <2>1, <3>1, <3>2 DEF Persist, Consumed, TypeOK
  <2>2. CASE Flip(t) \/ Detach(t) \/ EditWrite(t)
    <3>1. PICK a \in Ids, s \in Chunk : a = task[t].at /\ s = task[t].snap
      BY <2>2, Places DEF Flip, Detach, EditWrite, Task
    <3>2. PICK n \in Ids \union {NoId} : n = task[t].new
      BY <2>2, Places DEF Flip, Detach, EditWrite, Task
    <3>3. /\ [s EXCEPT !.latest = FALSE, !.by = n] \in Chunk
          /\ [s EXCEPT !.latest = FALSE, !.by = n].merged = s.merged
      BY DEF Chunk
    <3>4. /\ [s EXCEPT !.over = NoId] \in Chunk
          /\ [s EXCEPT !.over = NoId].merged = s.merged
      BY DEF Chunk
    <3>5. CASE Flip(t)
      BY <1>2, <1>5, <3>1, <3>2, <3>3, <3>5 DEF Flip
    <3>6. CASE Detach(t)
      BY <1>5, <3>1, <3>4, <3>6 DEF Detach
    <3>7. CASE EditWrite(t)
      BY <1>5, <3>1, <3>7 DEF EditWrite
    <3> QED BY <2>2, <3>5, <3>6, <3>7
  <2>3. CASE FlipFails(t) \/ Reload(t) \/ Unlink(t) \/ Retired(t) \/ \E old \in Ids : Retire(t, old)
    BY <1>2, <2>3 DEF FlipFails, Reload, Unlink, Retired, Retire
  <2> QED BY <1>6, <2>1, <2>2, <2>3 DEF WriteStep
<1>7. ASSUME NEW r \in Ranks, Add(r)
      PROVE  Consumed(id)'
  <2>1. id # made + 1
    BY <1>1 DEF TypeOK
  <2> QED BY <1>1, <1>7, <2>1 DEF Add, Consumed, TypeOK
<1>8. ASSUME NEW x \in Ids, Delete(x) \/ Purge(x)
      PROVE  Consumed(id)'
  <2>1. chunk[x] \in Chunk /\ [chunk[x] EXCEPT !.deleted = TRUE].merged = chunk[x].merged
    BY DEF TypeOK, Chunk
  <2> QED BY <1>1, <1>8, <2>1 DEF Delete, Purge, Consumed, TypeOK
<1>9. CASE Boot
  BY <1>3, <1>9 DEF Boot, Recovered
<1>10. \A t \in Tasks : StartStep(t) \/ GiveUp(t) => UNCHANGED <<stored, chunk>>
  BY StartLeaves DEF GiveUp
<1>11. Crash => UNCHANGED <<stored, chunk>>
  BY DEF Crash
<1> QED BY <1>2, <1>4, <1>6, <1>7, <1>8, <1>9, <1>10, <1>11 DEF Next

\* A summary that was stored by a consolidation that has not settled yet.
Settling(n) == \E t \in Tasks : Doing(t, "merge") /\ task[t].pc = "settle" /\ task[t].new = n

LEMMA SettlingStays ==
    ASSUME TypeOK, Stages, Next, NEW n \in Ids, Settling(n), NEW id \in sources[n],
           id \notin Excused'
    PROVE  Settling(n)' \/ Consumed(id)'
<1>1. PICK u \in Tasks : Doing(u, "merge") /\ task[u].pc = "settle" /\ task[u].new = n
  BY DEF Settling
<1>2. /\ task[u] \in Task /\ Stage(task[u]) /\ task[u].op = "merge" /\ id \in task[u].olds
      /\ id \in Ids /\ task[u].pc # "idle" /\ task[u].olds = sources[n]
  BY <1>1, Places DEF Doing, Stage, TypeOK
<1>3. CASE task'[u] = task[u]
  BY <1>1, <1>3 DEF Settling, Doing, Busy
<1>4. ASSUME NEW t \in Tasks, TaskStep(t)
      PROVE  Settling(n)' \/ Consumed(id)'
  <2>1. CASE t # u
    BY <1>3, <1>4, <2>1, OneMoves
  <2>2. CASE Settle(u)
    <3>1. PICK S : S = task[u].olds
      OBVIOUS
    <3>2. chunk' = SetFlags(S, FALSE, TRUE) /\ stored' = stored
      BY <2>2, <3>1 DEF Settle, Settled
    <3>3. id \in stored => chunk'[id].merged
      BY <1>2, <3>1, <3>2, FlagsKeep
    <3> QED BY <3>2, <3>3 DEF Consumed
  <2>3. CASE SettleFails(u)
    BY <1>2, <2>3 DEF SettleFails, Excused
  <2>4. CASE GiveUp(u)
    BY <1>1, <1>2, <2>4 DEF GiveUp, Abandoned, Excused
  <2>5. CASE StartStep(u)
    BY <1>1, <2>5, StartLeaves DEF Doing
  <2>6. CASE WriteStep(u) \/ Mark(u) \/ MarkFails(u) \/ Release(u)
    BY <1>1, <2>6 DEF WriteStep, Flip, FlipFails, Persist, Reload, Unlink, Detach, Retire,
       Retired, EditWrite, Mark, MarkFails, Release
  <2> QED BY <1>4, <2>1, <2>2, <2>3, <2>4, <2>5, <2>6 DEF TaskStep, MergeStep
<1>5. CASE Crash
  BY <1>1, <1>2, <1>5 DEF Crash, Abandoned, Excused
<1>6. CASE UNCHANGED task
  BY <1>3, <1>6
<1> QED BY <1>4, <1>5, <1>6 DEF Next, TaskStep, Boot, Add, Delete, Purge

\* A summary is new only when a consolidation stores it.
LEMMA NewSummary ==
    ASSUME TypeOK, Stages, Known, Next, NEW n \in Ids, Summary(n)', ~Summary(n)
    PROVE  \E t \in Tasks : Persist(t) /\ Doing(t, "merge") /\ task[t].new = n
<1>1. Grown
  BY Grows
<1>2. n \notin persisted /\ n \in persisted'
  BY <1>1 DEF Grown, Older, Summary, Known
<1>3. CASE \E t \in Tasks : Persist(t)
  <2>1. PICK t \in Tasks : Persist(t)
    BY <1>3
  <2>2. UNCHANGED birth /\ n = task[t].new /\ task[t].pc # "idle" /\ Stage(task[t])
    BY <1>2, <2>1, Places DEF Persist
  <2>3. task[t].op = "merge"
    BY <1>2, <2>2 DEF Stage, StepOf, Summary, birth, NoId, Ids
  <2> QED BY <2>1, <2>2, <2>3, BusyTask DEF Doing
<1>4. ASSUME NEW r \in Ranks, Add(r)
      PROVE  FALSE
  BY <1>2, <1>4 DEF Add, Born, Summary, TypeOK
<1>5. ASSUME ~(\E t \in Tasks : Persist(t)), ~(\E r \in Ranks : Add(r))
      PROVE  UNCHANGED persisted
  BY <1>5, StartLeaves DEF Next, MergeStep, Mark, MarkFails, Settle, SettleFails, Release,
     WriteStep, Flip, FlipFails, Reload, Unlink, Detach, Retire, Retired, EditWrite, GiveUp,
     Delete, Purge, Crash, Boot
<1> QED BY <1>2, <1>3, <1>4, <1>5

LEMMA MergingStays ==
    ASSUME TypeOK, Stages, Known, Merging, MergedOnce, Next
    PROVE  Merging' /\ MergedOnce'
<1>1. Grown /\ Excused \subseteq Excused'
  BY Grows DEF Grown, Excused
<1>2. \A n \in Ids : Summary(n) => /\ Summary(n)' /\ sources'[n] = sources[n]
                                   /\ sources[n] \subseteq persisted /\ sources[n] \subseteq Ids
  BY <1>1 DEF Grown, Older, Summary, Known, TypeOK
<1>3. ASSUME NEW n \in Ids, Summary(n)', ~Summary(n)
      PROVE  \E t \in Tasks :
                /\ Persist(t) /\ Doing(t, "merge") /\ task[t].new = n /\ sources'[n] = task[t].olds
                /\ task'[t].pc = "settle" /\ Settling(n)'
                /\ \A m \in Ids : Summary(m) => sources[m] \intersect task[t].olds \subseteq Excused
  <2>1. PICK t \in Tasks : Persist(t) /\ Doing(t, "merge") /\ task[t].new = n
    BY <1>3, NewSummary
  <2>2. task[t].pc = "persist" /\ task[t] \in Task /\ Stage(task[t]) /\ task[t].op = "merge"
    BY <2>1, Places DEF Persist, Doing
  <2>3. sources'[n] = task[t].olds
    BY <2>1, <2>2 DEF Stage, Persist, birth
  <2>4. task'[t].pc = "settle" /\ task'[t].op = "merge" /\ task'[t].new = n /\ task'[t] # Idle
    BY <2>1, <2>2 DEF Persist, Goto, TypeOK, Task, Idle
  <2>5. Settling(n)'
    BY <2>4 DEF Settling, Doing, Busy
  <2>6. \A m \in Ids : Summary(m) => sources[m] \intersect task[t].olds \subseteq Excused
    BY <2>1, <2>2 DEF Merging
  <2> QED BY <2>1, <2>3, <2>4, <2>5, <2>6
<1>4. ASSUME NEW n \in Ids, Summary(n)', NEW id \in sources'[n], id \notin Excused'
      PROVE  Consumed(id)' \/ Settling(n)'
  <2>1. CASE Summary(n)
    <3>1. id \in sources[n] /\ id \in persisted /\ id \notin Excused
      BY <1>1, <1>2, <1>4, <2>1
    <3>2. Consumed(id) \/ Settling(n)
      BY <2>1, <3>1 DEF Merging, Consumed, Settling
    <3> QED BY <1>4, <3>1, <3>2, ConsumedStays, SettlingStays DEF Excused
  <2>2. CASE ~Summary(n)
    BY <1>3, <1>4, <2>2
  <2> QED BY <2>1, <2>2
<1>5. ASSUME NEW t \in Tasks, Doing(t, "merge")', task'[t].pc \in {"mark", "persist"},
             NEW n \in Ids, Summary(n)'
      PROVE  sources'[n] \intersect task'[t].olds \subseteq Excused'
  <2>1. CASE StartStep(t)
    <3>1. PICK S \in SUBSET Ids : Merge(t, S)
      BY <1>5, <2>1 DEF StartStep, Ingest, Replace, Dream, Edit, Start, Doing, Busy, TypeOK
    <3>2. task'[t].olds = S /\ persisted' = persisted /\ (\A u \in Tasks : ~Doing(u, "merge"))
          /\ \A id \in S : id \in stored /\ ~chunk[id].merged
      BY <3>1 DEF Merge, Start, Eligible, Current, Live, TypeOK
    <3>3. Summary(n)
      BY <1>3, <1>5, <3>2
    <3>4. \A id \in sources[n] \intersect S : id \in Excused
      BY <3>2, <3>3 DEF Merging
    <3> QED BY <1>1, <1>2, <3>2, <3>3, <3>4
  <2>2. CASE task[t] # Idle /\ task[t].op = "merge" /\ task[t].olds = task'[t].olds
             /\ task[t].pc \in {"mark", "persist"} /\ ~Persist(t)
    <3>1. Doing(t, "merge")
      BY <2>2 DEF Doing, Busy
    <3>2. Summary(n)
      BY <1>3, <1>5, <2>2, <3>1 DEF Stages
    <3> QED BY <1>1, <1>2, <2>2, <3>1, <3>2 DEF Merging
  <2>3. CASE task'[t] = task[t]
    <3>1. ~Persist(t)
      <4>1. ASSUME Persist(t)
            PROVE  FALSE
        <5>1. task[t].op = "merge" /\ task[t] \in Task
          BY <1>5, <2>3, BusyTask DEF Doing, Busy
        <5>2. task'[t].pc = "settle"
          BY <4>1, <5>1 DEF Persist, Goto, TypeOK, Task
        <5> QED BY <1>5, <5>2
      <4> QED BY <4>1
    <3> QED BY <1>5, <2>2, <2>3, <3>1 DEF Doing, Busy
  <2>4. CASE Mark(t)
    <3>1. task[t] \in Task /\ task[t].pc = "mark" /\ task[t] # Idle
      BY <2>4, BusyTask DEF Mark, Busy
    <3>2. task'[t].op = task[t].op /\ task'[t].olds = task[t].olds
      BY <2>4, <3>1 DEF Mark, Goto, TypeOK, Task
    <3> QED BY <1>5, <2>2, <2>4, <3>1, <3>2 DEF Mark, Persist, Doing, Busy
  <2>5. ASSUME MergeStep(t) \/ WriteStep(t) \/ GiveUp(t), ~Mark(t)
        PROVE  FALSE
    <3>1. task[t].pc # "idle" /\ task[t] \in Task /\ task[t] # Idle /\ Stage(task[t])
      BY <2>5, KeepsName
    <3>2. CASE Done(t)
      BY <1>5, <3>2 DEF Done, Doing, Busy, TypeOK
    <3>3. ASSUME NEW pc \in Stops, Goto(t, pc)
          PROVE  task'[t].pc = pc /\ task'[t].op = task[t].op
      BY <3>1, <3>3 DEF Goto, TypeOK, Task
    <3>4. CASE SettleFails(t)
      BY <1>5, <3>3, <3>4 DEF SettleFails, Stops
    <3>5. CASE MarkFails(t) \/ Settle(t) \/ Release(t) \/ Detach(t) \/ EditWrite(t) \/ Retired(t)
      BY <3>2, <3>5 DEF MarkFails, Settle, Release, Detach, EditWrite, Retired
    <3>6. CASE GiveUp(t)
      <4>1. task[t].op = "merge" => FALSE
        BY <1>5, <3>3, <3>6 DEF GiveUp, Stops
      <4> QED BY <3>2, <3>6, <4>1 DEF GiveUp
    <3>7. CASE Persist(t)
      <4>1. CASE task[t].op = "dream"
        BY <1>5, <3>1, <3>7, <4>1 DEF Persist, Doing, TypeOK, Task
      <4>2. CASE task[t].op # "dream"
        BY <1>5, <3>1, <3>2, <3>3, <3>7, <4>2 DEF Persist, Stage, StepOf, Stops
      <4> QED BY <4>1, <4>2
    <3>8. task'[t].op = task[t].op \/ task'[t] = Idle
      BY <2>5, KeepsName
    <3>9. CASE Flip(t) \/ FlipFails(t) \/ Reload(t) \/ Unlink(t) \/ \E old \in Ids : Retire(t, old)
      BY <1>5, <3>1, <3>8, <3>9 DEF Flip, FlipFails, Reload, Unlink, Retire, Stage, StepOf, Doing, Busy
    <3> QED BY <2>5, <3>4, <3>5, <3>6, <3>7, <3>9 DEF MergeStep, WriteStep
  <2>6. ASSUME NEW u \in Tasks, TaskStep(u)
        PROVE  sources'[n] \intersect task'[t].olds \subseteq Excused'
    <3>1. CASE u # t
      BY <2>3, <2>6, <3>1, OneMoves
    <3> QED BY <2>1, <2>4, <2>5, <2>6, <3>1 DEF TaskStep
  <2>7. CASE Crash
    BY <1>5, <2>7 DEF Crash, Doing, Busy
  <2> QED BY <2>3, <2>6, <2>7 DEF Next, TaskStep, Boot, Add, Delete, Purge
<1>6. MergedOnce'
  <2> SUFFICES ASSUME NEW m \in Ids, NEW n \in Ids, m # n, Summary(m)', Summary(n)'
               PROVE  sources'[m] \intersect sources'[n] \subseteq Excused'
    BY DEF MergedOnce, Excused
  <2>1. CASE Summary(m) /\ Summary(n)
    BY <1>1, <1>2, <2>1 DEF MergedOnce, Excused
  <2>2. CASE Summary(m) /\ ~Summary(n)
    BY <1>1, <1>2, <1>3, <2>2
  <2>3. CASE ~Summary(m) /\ Summary(n)
    BY <1>1, <1>2, <1>3, <2>3
  <2>4. CASE ~Summary(m) /\ ~Summary(n)
    BY <1>3, <2>4 DEF Stages
  <2> QED BY <2>1, <2>2, <2>3, <2>4
<1> QED BY <1>4, <1>5, <1>6 DEF Merging, Consumed, Settling

-----------------------------------------------------------------------------
(* Links *)

FlipOf(t, o) == Flip(t) /\ Trusted(t) /\ task[t].at = o

\* What a step can do to a chunk, unless it writes a stale copy over it.
MarksKept(id) == /\ chunk[id].deleted => chunk'[id].deleted
                 /\ chunk[id].merged => chunk'[id].merged
KeptBy(id) == /\ id \in stored /\ chunk'[id].by = chunk[id].by /\ MarksKept(id)
              /\ chunk'[id].latest = chunk[id].latest /\ chunk'[id].over = chunk[id].over
FlippedBy(id) ==
    \E t \in Tasks : /\ FlipOf(t, id) /\ id \in stored /\ chunk[id].latest /\ MarksKept(id)
                     /\ chunk'[id].by = task[t].new /\ ~chunk'[id].latest
                     /\ chunk'[id].over = chunk[id].over
DetachedBy(id) ==
    \E t \in Tasks : /\ Detach(t) /\ task[t].new = id /\ id \in stored /\ MarksKept(id)
                     /\ chunk'[id].by = chunk[id].by /\ chunk'[id].latest = chunk[id].latest
                     /\ chunk'[id].over = NoId
PersistedBy(id) ==
    \E t \in Tasks : /\ Persist(t) /\ task[t].new = id /\ id \notin persisted
                     /\ chunk'[id].over = task[t].link
AddedNow(id) == id = made + 1 /\ chunk'[id].over = NoId
WrittenAs(id) ==
    KeptBy(id) \/ FlippedBy(id) \/ DetachedBy(id) \/ PersistedBy(id) \/ AddedNow(id)

LEMMA Written ==
    ASSUME TypeOK, Stages, Known, Next, NEW id \in stored', id \notin clobbered'
    PROVE  WrittenAs(id)
<1> USE DEF WrittenAs, MarksKept
<1>1. id \in Ids
  BY TypeStays DEF TypeOK
<1>2. CASE UNCHANGED <<stored, chunk>>
  BY <1>2 DEF KeptBy
<1>3. ASSUME NEW S, NEW l \in BOOLEAN, NEW m \in BOOLEAN, chunk' = SetFlags(S, l, m), stored' = stored
      PROVE  KeptBy(id)
  <2>1. MarksKept(id)
    BY <1>1, <1>3, FlagsKeep, Zenon DEF MarksKept
  <2>2. /\ id \in stored /\ chunk'[id].by = chunk[id].by
        /\ chunk'[id].latest = chunk[id].latest /\ chunk'[id].over = chunk[id].over
    BY <1>1, <1>3, FlagsKeep
  <2> QED BY <2>1, <2>2, Zenon DEF KeptBy
<1>4. ASSUME NEW t \in Tasks, MergeStep(t)
      PROVE  KeptBy(id)
  <2>1. stored' = stored
    BY <1>4 DEF MergeStep, Mark, MarkFails, Settle, SettleFails, Release
  <2>2. \E S : \E l, m \in BOOLEAN : chunk' = SetFlags(S, l, m)
    BY <1>4 DEF MergeStep, Mark, MarkFails, Settle, SettleFails, Release, Leased, Settled
  <2> QED BY <1>3, <2>1, <2>2
<1>5. ASSUME NEW t \in Tasks, NEW a \in Ids, a = task[t].at, NEW s \in Chunk, s = task[t].snap,
             NEW c \in Chunk, WriteBack(t, c)
      PROVE  \/ KeptBy(id)
             \/ id = a /\ id \in stored /\ chunk[id] = s /\ chunk'[id] = c
  BY <1>1, <1>5 DEF WriteBack, KeptBy, TypeOK
<1>6. ASSUME NEW t \in Tasks, Flip(t)
      PROVE  KeptBy(id) \/ FlippedBy(id)
  <2>1. CASE ~Trusted(t)
    BY <1>2, <1>6, <2>1 DEF Flip, KeptBy
  <2>2. CASE Trusted(t)
    <3>1. PICK a \in Ids, s \in Chunk, n \in Ids \union {NoId} :
             a = task[t].at /\ s = task[t].snap /\ n = task[t].new
      BY <1>6, Places DEF Flip, Task
    <3>2. s.latest
      BY <1>6, <3>1, Places DEF Flip, Stage
    <3>3. n \in Ids
      BY <1>6, <3>1, Places DEF Flip, Stage, StepOf
    <3>4. PICK c \in Chunk : c = [s EXCEPT !.latest = FALSE, !.by = n]
      BY <3>3, ChunkRecord
    <3>5. /\ c.by = n /\ ~c.latest /\ c.over = s.over
          /\ c.deleted = s.deleted /\ c.merged = s.merged
      BY <3>4 DEF Chunk
    <3>6. WriteBack(t, c)
      BY <1>6, <2>2, <3>1, <3>4 DEF Flip
    <3> QED BY <1>5, <1>6, <2>2, <3>1, <3>2, <3>5, <3>6 DEF FlippedBy, FlipOf
  <2> QED BY <2>1, <2>2
<1>7. ASSUME NEW t \in Tasks, Detach(t)
      PROVE  KeptBy(id) \/ DetachedBy(id)
  <2>1. PICK a \in Ids, s \in Chunk : a = task[t].at /\ s = task[t].snap
    BY <1>7, Places DEF Detach, Task
  <2>2. task[t].new = a
    BY <1>7, <2>1, Places DEF Detach, Stage
  <2>3. PICK c \in Chunk : c = [s EXCEPT !.over = NoId]
    BY ChunkRecord
  <2>4. /\ c.by = s.by /\ c.latest = s.latest /\ c.over = NoId
        /\ c.deleted = s.deleted /\ c.merged = s.merged
    BY <2>3 DEF Chunk
  <2>5. WriteBack(t, c)
    BY <1>7, <2>1, <2>3 DEF Detach
  <2> QED BY <1>5, <1>7, <2>1, <2>2, <2>4, <2>5 DEF DetachedBy
<1>8. ASSUME NEW t \in Tasks, EditWrite(t)
      PROVE  KeptBy(id)
  <2>1. PICK a \in Ids, s \in Chunk : a = task[t].at /\ s = task[t].snap
    BY <1>8, Places DEF EditWrite, Task
  <2> QED BY <1>5, <1>8, <2>1 DEF EditWrite, KeptBy
<1>9. ASSUME NEW t \in Tasks, Persist(t)
      PROVE  KeptBy(id) \/ PersistedBy(id)
  <2>1. PICK n \in Ids : n = task[t].new
    BY <1>9, Places DEF Persist, Stage, StepOf
  <2>2. n \notin persisted
    BY <1>9, <2>1, Places DEF Persist, Stage, Unstored
  <2> QED BY <1>1, <1>9, <2>1, <2>2 DEF Persist, KeptBy, PersistedBy, NewChunk, TypeOK
<1>10. ASSUME NEW r \in Ranks, Add(r)
       PROVE  KeptBy(id) \/ AddedNow(id)
  BY <1>1, <1>10 DEF Add, KeptBy, AddedNow, NewChunk, TypeOK
<1>11. ASSUME NEW x \in Ids, Delete(x) \/ Purge(x)
       PROVE  KeptBy(id)
  <2>1. chunk[x] \in Chunk
    BY DEF TypeOK
  <2>2. LET c == [chunk[x] EXCEPT !.deleted = TRUE] IN
        /\ c.by = chunk[x].by /\ c.latest = chunk[x].latest /\ c.over = chunk[x].over
        /\ c.deleted /\ c.merged = chunk[x].merged
    BY <2>1 DEF Chunk
  <2> QED BY <1>1, <1>11, <2>2 DEF Delete, Purge, KeptBy, TypeOK
<1>12. CASE Boot
  BY <1>3, <1>12 DEF Boot, Recovered
<1>13. \A t \in Tasks : StartStep(t) \/ GiveUp(t) \/ FlipFails(t) \/ Reload(t) \/ Unlink(t)
                        \/ Retired(t) \/ (\E old \in Ids : Retire(t, old))
                        => UNCHANGED <<stored, chunk>>
  BY StartLeaves DEF GiveUp, FlipFails, Reload, Unlink, Retired, Retire
<1>14. Crash => UNCHANGED <<stored, chunk>>
  BY DEF Crash
<1> QED BY <1>2, <1>4, <1>6, <1>7, <1>8, <1>9, <1>10, <1>11, <1>12, <1>13, <1>14 DEF Next, WriteStep

\* Where the link of a busy task comes from.
LEMMA LinkFrom ==
    ASSUME TypeOK, Stages, Known, Next, NEW t \in Tasks, task'[t] # Idle,
           task'[t].pc \notin {"unlink", "detach"}
    PROVE  \/ task'[t].new \notin stored'
           \/ /\ task[t] # Idle /\ task[t].pc \notin {"unlink", "detach"}
              /\ task'[t].new = task[t].new /\ task'[t].link = task[t].link
<1> DEFINE Goal == \/ task'[t].new \notin stored'
                   \/ /\ task[t] # Idle /\ task[t].pc \notin {"unlink", "detach"}
                      /\ task'[t].new = task[t].new /\ task'[t].link = task[t].link
<1>1. CASE task'[t] = task[t]
  BY <1>1
<1>2. ASSUME NEW u \in Tasks, TaskStep(u), u # t
      PROVE  Goal
  BY <1>1, <1>2, OneMoves
<1>3. CASE StartStep(t)
  <2>1. stored' = stored
    BY <1>3, StartLeaves
  <2>2. made + 1 \notin stored /\ NoId \notin stored
    BY DEF TypeOK, Known, Ids, NoId
  <2>3. task'[t].new \in {made + 1, NoId}
    BY <1>3 DEF StartStep, Ingest, Replace, Dream, Merge, Edit, Start, TypeOK
  <2> QED BY <2>1, <2>2, <2>3
<1>4. CASE MergeStep(t) \/ WriteStep(t) \/ GiveUp(t)
  <2>1. task[t] \in Task /\ task[t] # Idle /\ task[t].pc # "idle" /\ Stage(task[t])
    BY <1>4, KeepsName
  <2>2. ASSUME NEW pc \in Stops \ {"unlink", "detach"}, Goto(t, pc), task[t].pc \notin {"unlink", "detach"}
        PROVE  Goal
    BY <2>1, <2>2 DEF TypeOK, Goto, Task
  <2>3. CASE Done(t)
    BY <2>3 DEF Done, TypeOK
  <2>4. CASE MergeStep(t)
    BY <2>2, <2>3, <2>4 DEF MergeStep, Mark, MarkFails, Settle, SettleFails, Release, Stops
  <2>5. CASE GiveUp(t)
    <3>1. task[t].op = "merge" => task[t].pc \notin {"unlink", "detach"}
      BY <2>1 DEF Stage, StepOf
    <3> QED BY <2>2, <2>3, <2>5, <3>1 DEF GiveUp, Stops
  <2>6. CASE Flip(t)
    <3>1. task[t].op \in {"ingest", "replace", "dream"} /\ task[t].pc = "flip"
      BY <2>1, <2>6 DEF Flip, Stage, StepOf
    <3>2. CASE task[t].op = "replace"
      BY <2>3, <2>6, <3>2 DEF Flip, AfterFlip
    <3>3. CASE task[t].op = "dream"
      BY <2>1, <2>6, <3>1, <3>3 DEF TypeOK, Flip, AfterFlip, Task
    <3>4. CASE task[t].op = "ingest"
      <4>1. task[t].new \notin stored /\ task[t].new # task[t].at
        BY <2>1, <3>1, <3>4 DEF Stage, StepOf, Unstored, Known
      <4>2. task[t].new \notin stored'
        BY <2>6, <4>1 DEF Flip, WriteBack
      <4>3. task'[t].new = task[t].new
        BY <2>1, <2>6, <3>4 DEF TypeOK, Flip, AfterFlip, Task
      <4> QED BY <4>2, <4>3
    <3> QED BY <3>1, <3>2, <3>3, <3>4
  <2>7. CASE FlipFails(t)
    <3>1. task[t].op \in {"ingest", "replace", "dream"} /\ task[t].pc = "flip"
      BY <2>1, <2>7 DEF FlipFails, Stage, StepOf
    <3>2. CASE task[t].op = "replace"
      BY <2>1, <2>7, <3>2 DEF FlipFails, Goto, TypeOK, Task
    <3> QED BY <2>2, <2>3, <2>7, <3>1, <3>2 DEF FlipFails, Stops
  <2>8. CASE Persist(t)
    <3>1. task[t].op \in {"ingest", "replace", "dream", "merge"} /\ task[t].pc = "persist"
      BY <2>1, <2>8 DEF Persist, Stage, StepOf
    <3>2. CASE task[t].op = "dream"
      BY <2>1, <2>8, <3>1, <3>2 DEF TypeOK, Persist, Task
    <3>3. CASE task[t].op # "dream"
      BY <2>2, <2>3, <2>8, <3>1, <3>3 DEF Persist, Stops
    <3> QED BY <3>2, <3>3
  <2>9. CASE Detach(t) \/ EditWrite(t) \/ Retired(t)
    BY <2>3, <2>9 DEF Detach, EditWrite, Retired
  <2>10. CASE Reload(t)
    <3>1. task[t].pc = "reload"
      BY <2>10 DEF Reload
    <3>2. CASE Goto(t, "unlink")
      BY <2>1, <3>2 DEF Goto, TypeOK, Task
    <3> QED BY <2>1, <2>10, <3>1, <3>2 DEF TypeOK, Reload, Task
  <2>11. CASE Unlink(t)
    BY <2>1, <2>3, <2>11 DEF TypeOK, Unlink, Task
  <2>12. ASSUME NEW old \in Ids, Retire(t, old)
         PROVE  Goal
    BY <2>1, <2>12 DEF TypeOK, Retire, Task
  <2> QED BY <1>4, <2>4, <2>5, <2>6, <2>7, <2>8, <2>9, <2>10, <2>11, <2>12 DEF WriteStep
<1>5. CASE Crash
  BY <1>5 DEF Crash
<1>6. CASE UNCHANGED task
  BY <1>1, <1>6
<1> QED BY <1>2, <1>3, <1>4, <1>5, <1>6 DEF Next, TaskStep, Boot, Add, Delete, Purge

LEMMA LinkedStays ==
    ASSUME TypeOK, Stages, Known, Linked, Next
    PROVE  Linked'
<1> SUFFICES ASSUME NEW t \in Tasks, task'[t] # Idle, task'[t].pc \notin {"unlink", "detach"},
                    NEW n, n = task'[t].new, n \in stored', n \notin clobbered'
             PROVE  chunk'[n].over = task'[t].link
  BY DEF Linked, Busy
<1>1. /\ task[t] # Idle /\ task[t].pc \notin {"unlink", "detach"}
      /\ task[t].new = n /\ task'[t].link = task[t].link
  BY LinkFrom
<1>2. n \in Ids /\ n # NoId /\ n \notin clobbered
  <2>1. stored' \subseteq Ids
    BY TypeStays DEF TypeOK
  <2>2. clobbered \subseteq clobbered'
    BY Grows DEF Grown
  <2> QED BY <2>1, <2>2 DEF Ids, NoId
<1>3. \A u \in Tasks : Busy(u) /\ task[u].new = n => u = t
  BY <1>1, <1>2 DEF Stages, Busy
<1>4. n \in 1..made
  BY <1>1, <1>2 DEF Stages, Busy, Stage
<1>5. CASE KeptBy(n) \/ FlippedBy(n)
  BY <1>1, <1>2, <1>5 DEF Linked, Busy, KeptBy, FlippedBy
<1>6. ~DetachedBy(n)
  BY <1>1, <1>3, BusyTask DEF DetachedBy, Detach
<1>7. CASE PersistedBy(n)
  BY <1>1, <1>3, <1>7, BusyTask DEF PersistedBy, Persist
<1>8. ~AddedNow(n)
  BY <1>4 DEF AddedNow, TypeOK
<1> QED BY <1>5, <1>6, <1>7, <1>8, Written DEF WrittenAs

\* An ingest that is about to store a successor has flipped the chunk.
LEMMA PendingFrom ==
    ASSUME TypeOK, Stages, Known, Next, NEW o \in Ids, NEW n, Pending(o, n)'
    PROVE  Pending(o, n) \/ \E t \in Tasks : FlipOf(t, o) /\ task[t].new = n
<1>1. PICK t \in Tasks : /\ task'[t] # Idle /\ task'[t].op = "ingest" /\ task'[t].pc = "persist"
                         /\ task'[t].new = n /\ task'[t].link = o
  BY DEF Pending, Doing, Busy
<1>2. CASE task'[t] = task[t]
  BY <1>1, <1>2 DEF Pending, Doing, Busy
<1>3. ASSUME NEW u \in Tasks, TaskStep(u), u # t
      PROVE  Pending(o, n)
  <2>1. task'[t] = task[t]
    BY <1>3, OneMoves
  <2> QED BY <1>1, <2>1 DEF Pending, Doing, Busy
<1>4. CASE StartStep(t)
  <2>1. ASSUME NEW old \in Ids, NEW r \in Ranks, Ingest(t, old, r) \/ Replace(t, old, r)
        PROVE  FALSE
    BY <1>1, <2>1 DEF Ingest, Replace, Start, TypeOK
  <2>2. ASSUME NEW S \in SUBSET Ids, Dream(t, S) \/ Merge(t, S)
        PROVE  FALSE
    BY <1>1, <2>2 DEF Dream, Merge, Start, TypeOK
  <2>3. ASSUME NEW id \in Ids, Edit(t, id)
        PROVE  FALSE
    BY <1>1, <2>3 DEF Edit, TypeOK
  <2> QED BY <1>4, <2>1, <2>2, <2>3 DEF StartStep
<1>5. CASE MergeStep(t) \/ WriteStep(t) \/ GiveUp(t)
  <2>1. task[t] \in Task /\ Stage(task[t]) /\ task[t].op = "ingest" /\ task[t].new = n
        /\ task[t].pc # "idle" /\ task[t].pc \in {"flip", "persist"}
    BY <1>1, <1>5, KeepsName DEF Stage, StepOf
  <2>2. ~Done(t)
    BY <1>1 DEF Done, TypeOK
  <2>3. Flip(t) \/ FlipFails(t)
    BY <1>5, <2>1, <2>2 DEF MergeStep, Mark, MarkFails, Settle, SettleFails, Release, WriteStep,
       Persist, Reload, Unlink, Detach, Retire, Retired, EditWrite, GiveUp
  <2>4. CASE Flip(t)
    <3>1. o # NoId
      BY DEF Ids, NoId
    <3>2. task'[t].link = IF Trusted(t) THEN task[t].at ELSE NoId
      BY <2>1, <2>4 DEF Flip, AfterFlip, TypeOK, Task
    <3> QED BY <1>1, <2>1, <2>4, <3>1, <3>2 DEF FlipOf
  <2>5. CASE FlipFails(t)
    <3>1. task'[t].link = task[t].link
      BY <2>1, <2>5 DEF FlipFails, Goto, TypeOK, Task
    <3>2. task[t].link = NoId
      BY <2>1, <2>5 DEF FlipFails, Stage, LinkOf
    <3> QED BY <1>1, <3>1, <3>2 DEF Ids, NoId
  <2> QED BY <2>3, <2>4, <2>5
<1>6. CASE Crash
  BY <1>1, <1>6 DEF Crash
<1>7. CASE UNCHANGED task
  BY <1>2, <1>7
<1> QED BY <1>3, <1>4, <1>5, <1>6, <1>7 DEF Next, TaskStep, Boot, Add, Delete, Purge

\* A task lets go of its new chunk only when it ends.
LEMMA EndsWith ==
    ASSUME TypeOK, Stages, Next, NEW t \in Tasks, task[t] # Idle, NEW n, task[t].new = n,
           ~InFlight(n)'
    PROVE  /\ task'[t] = Idle
           /\ MergeStep(t) \/ WriteStep(t) \/ GiveUp(t) \/ Crash
<1>1. task'[t] # task[t]
  BY DEF InFlight, Busy
<1>2. StartStep(t) \/ MergeStep(t) \/ WriteStep(t) \/ GiveUp(t) \/ Crash
  <2>1. ASSUME NEW u \in Tasks, TaskStep(u)
        PROVE  u = t
    BY <1>1, <2>1, OneMoves
  <2> QED BY <1>1, <2>1 DEF Next, TaskStep, Boot, Add, Delete, Purge
<1>3. ~StartStep(t)
  BY StartLeaves DEF Busy
<1>4. CASE Crash
  BY <1>4 DEF Crash
<1>5. CASE MergeStep(t) \/ WriteStep(t) \/ GiveUp(t)
  <2>1. task'[t] = Idle \/ task'[t].new = n
    BY <1>5, KeepsName
  <2> QED BY <1>5, <2>1 DEF InFlight, Busy
<1> QED BY <1>2, <1>3, <1>4, <1>5

\* A claim on a chunk is an old one, or its successor has just flipped it.
LEMMA ClaimFrom ==
    ASSUME TypeOK, Stages, Known, Linked, Next, NEW o \in Ids, o \notin clobbered', NEW n \in Ids,
           Claims(n, o)'
    PROVE  Claims(n, o) \/ \E t \in Tasks : FlipOf(t, o) /\ task[t].new = n
<1> DEFINE Goal == Claims(n, o) \/ \E t \in Tasks : FlipOf(t, o) /\ task[t].new = n
<1>1. CASE Pending(o, n)'
  BY <1>1, PendingFrom DEF Claims
<1>2. ASSUME n \notin unconfirmed', n \notin clobbered', n \in stored', ~InFlight(n)',
             chunk'[n].over = o
      PROVE  Goal
  <2>1. o # NoId
    BY DEF Ids, NoId
  <2>2. n \notin unconfirmed /\ n \notin clobbered /\ n # NoId
    BY <1>2, Grows DEF Grown, Ids, NoId
  <2>3. CASE n \in stored /\ chunk[n].over = o
    <3>1. CASE ~InFlight(n)
      BY <2>2, <2>3, <3>1 DEF Claims, Successor
    <3>2. CASE InFlight(n)
      <4>1. PICK t \in Tasks : task[t] # Idle /\ task[t].new = n
        BY <3>2 DEF InFlight, Busy
      <4>2. task'[t] = Idle /\ (MergeStep(t) \/ WriteStep(t) \/ GiveUp(t) \/ Crash)
        BY <1>2, <4>1, EndsWith
      <4>3. task[t] \in Task /\ Stage(task[t]) /\ n \in persisted
        BY <2>3, <4>1, BusyTask DEF Stages, Busy, Known
      <4>4. task[t].op # "edit" /\ task[t].op # "ingest"
        BY <2>2, <4>1, <4>3 DEF Stage, Unstored
      <4>5. task[t].pc \notin {"unlink", "detach"} => task[t].link = o
        BY <2>2, <2>3, <4>1 DEF Linked, Busy
      <4>6. task[t].op = "replace"
        <5>1. ASSUME task[t].op \in {"dream", "merge"}
              PROVE  FALSE
          <6>1. task[t].link = NoId /\ task[t].pc \notin {"unlink", "detach"}
            BY <4>3, <5>1 DEF Stage, StepOf, LinkOf
          <6> QED BY <2>1, <4>5, <6>1
        <5> QED BY <4>3, <4>4, <5>1 DEF Task, AllOps
      <4>7. task[t].pc # "persist"
        BY <4>1, <4>3 DEF Stage, Unstored
      <4>8. ~GiveUp(t) /\ ~Crash
        BY <1>2, <4>1, <4>6, <4>7 DEF GiveUp, Crash, Abandoned, Doing, Busy
      <4>9. ASSUME NEW pc \in Stops, Goto(t, pc)
            PROVE  FALSE
        BY <4>2, <4>3, <4>9 DEF Goto, TypeOK, Task, Idle, Stops
      <4>10. task[t].pc \in {"reload", "flip", "unlink", "detach"}
        BY <4>3, <4>6, <4>7 DEF Stage, StepOf
      <4>11. WriteStep(t) /\ ~Persist(t) /\ ~EditWrite(t) /\ ~Retired(t) /\ ~\E old \in Ids : Retire(t, old)
        BY <4>2, <4>8, <4>10 DEF MergeStep, Mark, MarkFails, Settle, SettleFails, Release, Persist,
           EditWrite, Retired, Retire
      <4>12. ~Reload(t)
        <5>1. task' # [task EXCEPT ![t].pc = "flip", ![t].snap = chunk[task[t].at]]
          BY <4>2, <4>3 DEF TypeOK, Task, Idle
        <5> QED BY <4>9, <5>1 DEF Reload, Stops
      <4>13. ~FlipFails(t)
        BY <4>6, <4>9 DEF FlipFails, Stops
      <4>14. ~Unlink(t)
        <5>1. task' # [task EXCEPT ![t].pc = "detach", ![t].at = task[t].new,
                                   ![t].snap = chunk[task[t].new]]
          BY <4>2, <4>3 DEF TypeOK, Task, Idle
        <5> QED BY <2>3, <4>1, <5>1 DEF Unlink
      <4>15. ~Detach(t)
        <5>1. ASSUME Detach(t)
              PROVE  chunk'[n].over = NoId
          <6>1. task[t].at = n /\ task[t].snap \in Chunk
            BY <4>1, <4>3, <5>1 DEF Detach, Stage, Task
          <6>2. chunk'[n] = [task[t].snap EXCEPT !.over = NoId]
            BY <5>1, <6>1 DEF Detach, WriteBack, TypeOK
          <6> QED BY <6>1, <6>2 DEF Chunk
        <5> QED BY <1>2, <2>1, <5>1
      <4>16. Flip(t)
        BY <4>11, <4>12, <4>13, <4>14, <4>15 DEF WriteStep
      <4>17. Trusted(t) /\ task[t].at = o
        <5>1. task[t].link = IF rank[task[t].new] < rank[task[t].at] THEN NoId ELSE task[t].at
          BY <4>3, <4>6, <4>16 DEF Flip, Stage, LinkOf
        <5>2. task[t].link = o
          BY <4>5, <4>16 DEF Flip
        <5>3. rank[task[t].new] \in 0..3 /\ rank[task[t].at] \in 0..3
          BY <4>1, <4>16, Places DEF Flip, TypeOK
        <5> QED BY <2>1, <5>1, <5>2, <5>3 DEF Trusted
      <4> QED BY <4>1, <4>16, <4>17 DEF FlipOf
    <3> QED BY <3>1, <3>2
  <2>4. KeptBy(n) \/ FlippedBy(n) => n \in stored /\ chunk[n].over = o
    BY <1>2 DEF KeptBy, FlippedBy
  <2>5. ~DetachedBy(n) /\ ~AddedNow(n)
    BY <1>2, <2>1 DEF DetachedBy, AddedNow
  <2>6. CASE PersistedBy(n)
    <3>1. PICK t \in Tasks : Persist(t) /\ task[t].new = n /\ task[t].link = o
      BY <1>2, <2>6 DEF PersistedBy
    <3>2. task[t] \in Task /\ Stage(task[t]) /\ task[t].pc = "persist" /\ task[t] # Idle
      BY <3>1, BusyTask DEF Persist, Stages, Busy
    <3>3. task'[t] = Idle
      BY <1>2, <3>1, <3>2, EndsWith
    <3>4. task[t].op = "ingest"
      <4>1. \A pc \in Stops : ~Goto(t, pc)
        BY <3>2, <3>3 DEF Goto, TypeOK, Task, Idle, Stops
      <4>2. \A C \in SUBSET task[t].olds : task' # [task EXCEPT ![t].pc = "retire", ![t].olds = C]
        BY <3>2, <3>3 DEF TypeOK, Task, Idle
      <4> QED BY <3>1, <3>2, <4>1, <4>2 DEF Persist, Stops, Stage, StepOf
    <3> QED BY <3>1, <3>2, <3>4 DEF Claims, Pending, Doing, Busy
  <2> QED BY <1>2, <2>3, <2>4, <2>5, <2>6, Written DEF WrittenAs
<1> QED BY <1>1, <1>2 DEF Claims, Successor

LEMMA ClaimedStays ==
    ASSUME TypeOK, Stages, Known, Copies, Linked, Claimed, Next
    PROVE  Claimed'
<1> SUFFICES ASSUME NEW o \in Ids, o \notin clobbered', NEW n \in Ids, Claims(n, o)'
             PROVE  /\ o \in stored' => chunk'[o].by = n /\ ~chunk'[o].latest
                    /\ \A m \in Ids : Claims(m, o)' => m = n
  BY DEF Claimed
<1> DEFINE Flips(m) == \E t \in Tasks : FlipOf(t, o) /\ task[t].new = m
<1>1. \A m \in Ids : Claims(m, o)' => Claims(m, o) \/ Flips(m)
  BY ClaimFrom
<1>2. o \notin clobbered
  BY Grows DEF Grown
<1>3. ASSUME NEW m \in Ids, Claims(m, o)
      PROVE  /\ o \in stored => chunk[o].by = m /\ ~chunk[o].latest
             /\ \A l \in Ids : Claims(l, o) => l = m
  BY <1>2, <1>3 DEF Claimed
<1>4. ASSUME NEW m \in Ids, Flips(m)
      PROVE  /\ o \in stored /\ chunk[o].latest
             /\ chunk'[o].by = m /\ ~chunk'[o].latest
  <2>1. PICK t \in Tasks : Flip(t) /\ Trusted(t) /\ task[t].at = o /\ task[t].new = m
    BY <1>4 DEF FlipOf
  <2>2. PICK s \in Chunk : s = task[t].snap /\ s.latest
    BY <2>1, Places DEF Flip, Stage, Task
  <2>3. PICK c \in Chunk : c = [s EXCEPT !.latest = FALSE, !.by = m]
    BY ChunkRecord
  <2>4. c.by = m /\ ~c.latest
    BY <2>3 DEF Chunk
  <2>5. WriteBack(t, c)
    BY <2>1, <2>2, <2>3 DEF Flip
  <2> QED BY <2>1, <2>2, <2>4, <2>5 DEF WriteBack, TypeOK
<1>5. o \in persisted
  <2>1. CASE Pending(o, n)
    <3>1. PICK t \in Tasks : Doing(t, "ingest") /\ task[t].link = o
      BY <2>1 DEF Pending
    <3>2. Stage(task[t]) /\ task[t].op = "ingest"
      BY <3>1 DEF Stages, Doing
    <3>3. task[t].link \in {NoId, task[t].at}
      BY <3>2 DEF Stage, LinkOf
    <3> QED BY <3>1, <3>2, <3>3 DEF Stage, Ids, NoId
  <2>2. CASE Successor(n, o)
    BY <2>2 DEF Successor, Copies, CopyOK, Ids, NoId
  <2>3. CASE Flips(n)
    BY <1>4, <2>3 DEF Known
  <2> QED BY <1>1, <2>1, <2>2, <2>3 DEF Claims
<1>6. o \in stored' => KeptBy(o) \/ FlippedBy(o) \/ DetachedBy(o)
  <2>1. ~PersistedBy(o) /\ ~AddedNow(o)
    BY <1>5 DEF PersistedBy, AddedNow, Known, TypeOK
  <2> QED BY <2>1, Written DEF WrittenAs
<1>7. ASSUME NEW m \in Ids, Claims(m, o), o \in stored'
      PROVE  chunk'[o].by = m /\ ~chunk'[o].latest
  <2>1. CASE KeptBy(o) \/ DetachedBy(o)
    BY <1>3, <1>7, <2>1 DEF KeptBy, DetachedBy
  <2>2. ~FlippedBy(o)
    BY <1>3, <1>7 DEF FlippedBy
  <2> QED BY <1>6, <1>7, <2>1, <2>2
<1>8. ASSUME NEW m \in Ids, Claims(m, o), NEW l \in Ids, Flips(l)
      PROVE  FALSE
  BY <1>3, <1>4, <1>8
<1>9. \A m \in Ids : Claims(m, o)' => m = n
  <2> TAKE m \in Ids
  <2> HAVE Claims(m, o)'
  <2>1. CASE Claims(m, o) /\ Claims(n, o)
    BY <1>3, <2>1
  <2>2. CASE Flips(m) /\ Flips(n)
    <3>1. chunk'[o].by = m /\ chunk'[o].by = n
      BY <1>4, <2>2
    <3> QED BY <3>1
  <2> QED BY <1>1, <1>8, <2>1, <2>2
<1>10. o \in stored' => chunk'[o].by = n /\ ~chunk'[o].latest
  BY <1>1, <1>4, <1>7
<1> QED BY <1>9, <1>10

-----------------------------------------------------------------------------
(* The results *)

LEMMA Begins ==
    ASSUME Init
    PROVE  IInv
<1>1. TypeOK
  <2>1. made \in 0..MaxIds /\ crashes \in 0..MaxCrashes
    BY VersionsAssumption DEF Init
  <2>2. chunk \in [Ids -> Chunk]
    BY ChunkRecord DEF Init
  <2>3. rank \in [Ids -> 0..3] /\ kind \in [Ids -> {"fact", "dream", "summary"}]
    BY DEF Init
  <2>4. sources \in [Ids -> SUBSET Ids] /\ task \in [Tasks -> Task \union {Idle}]
    BY DEF Init
  <2> QED BY <2>1, <2>2, <2>3, <2>4 DEF Init, TypeOK
<1>2. \A t \in Tasks : ~Busy(t)
  BY DEF Init, Busy
<1>3. Stages /\ Linked /\ LeaseHeld
  BY <1>2 DEF Init, Stages, Linked, LeaseHeld, Doing, Live
<1>4. Known /\ Copies
  BY <1>2 DEF Init, Known, Copies
<1>5. \A n, o \in Ids : ~Claims(n, o)
  BY <1>2 DEF Init, Claims, Successor, Pending, Doing
<1>6. \A n \in Ids : ~Summary(n)
  BY DEF Init, Summary
<1> QED BY <1>1, <1>2, <1>3, <1>4, <1>5, <1>6 DEF IInv, Claimed, Merging, MergedOnce, Doing

LEMMA Inductive ==
    ASSUME IInv, [Next]_vars
    PROVE  IInv'
<1>1. CASE Next
  BY <1>1, TypeStays, StagesStay, KnownStays, CopiesStay, LinkedStays, ClaimedStays, MergingStays,
     LeaseStays DEF IInv
<1>2. CASE UNCHANGED vars
  <2>1. UNCHANGED <<stored, chunk, kind, rank, sources, made, task, up, crashes, persisted,
                    stranded, unconfirmed, clobbered, remerged, leaked>>
    BY <1>2 DEF vars, birth, ghosts
  <2>2. TypeOK' /\ LeaseHeld'
    BY <2>1 DEF IInv, TypeOK, LeaseHeld, Live, Doing, Busy
  <2>3. Stages' /\ Known'
    BY <2>1 DEF IInv, Stages, Known, Stage, StepOf, LinkOf, Unstored, IsStored, Doing, Busy
  <2>4. Copies'
    BY <2>1 DEF IInv, Copies, CopyOK, Pending, Doing, Busy
  <2>5. Linked' /\ Claimed'
    BY <2>1 DEF IInv, Linked, Claimed, Claims, Successor, InFlight, Pending, Doing, Busy
  <2>6. Merging' /\ MergedOnce'
    BY <2>1 DEF IInv, Merging, MergedOnce, Summary, Excused, Doing, Busy
  <2> QED BY <2>2, <2>3, <2>4, <2>5, <2>6 DEF IInv
<1> QED BY <1>1, <1>2

LEMMA Invariance == Spec => []IInv
BY Begins, Inductive, PTL DEF Spec

\* Every variable keeps its type: what the writers leave in the store and what the
\* tasks hold of it are chunks of ids that were given out.
THEOREM TypeCorrect == Spec => []TypeOK
<1>1. IInv => TypeOK
  BY DEF IInv
<1> QED BY <1>1, Invariance, PTL

\* persist_chunk comes before the flip in memory_store and in the dream run, after
\* it in store_handler: a chunk that is no longer the latest has a successor that was
\* stored, unless an ingest stopped in between.
THEOREM NeverStranded == Spec => []NotStranded
<1>1. IInv => NotStranded
  <2> SUFFICES ASSUME IInv, NEW id \in Ids, Live(id), ~chunk[id].latest
               PROVE  \/ chunk[id].by \in persisted
                      \/ id \in stranded
                      \/ \E t \in Tasks : Doing(t, "ingest") /\ task[t].new = chunk[id].by
    BY DEF NotStranded
  <2>1. CopyOK(id, chunk[id])
    BY DEF IInv, Copies, Live
  <2> QED BY <2>1 DEF CopyOK, Pending
<1> QED BY <1>1, Invariance, PTL

\* link_successor, apply_supersede and unlink_replacement leave both ends of a link
\* agreeing, whatever other writers did between the read and the write.
THEOREM LinksAgree == Spec => []LinksMutual
<1>1. IInv => LinksMutual
  <2> SUFFICES ASSUME IInv, NEW n \in Ids, n \notin unconfirmed \union clobbered,
                      n \in stored, ~InFlight(n), NEW o, o = chunk[n].over, o \in stored,
                      o \notin clobbered
               PROVE  chunk[o].by = n /\ ~chunk[o].latest
    BY DEF LinksMutual
  <2>1. o \in Ids
    BY DEF IInv, TypeOK
  <2>2. Claims(n, o)
    BY DEF Claims, Successor
  <2> QED BY <2>1, <2>2 DEF IInv, Claimed
<1> QED BY <1>1, Invariance, PTL

\* Every writer of a chunk, and every interleaving of them: only the write-back of a
\* copy that something else has overtaken can undo a removal, a flip or a mark.
THEOREM HistoryIsKept == Spec => HistoryKept
<1>1. ASSUME IInv, [Next]_vars, NEW id \in persisted \ clobbered'
      PROVE  /\ ~Live(id) => ~Live(id)'
             /\ id \in stored \intersect stored' =>
                   /\ ~chunk[id].latest => ~chunk'[id].latest /\ chunk'[id].by = chunk[id].by
                   /\ chunk[id].merged => chunk'[id].merged
                   /\ chunk'[id].over \in {chunk[id].over, NoId}
  <2>1. CASE UNCHANGED vars
    BY <2>1 DEF vars, Live
  <2>2. CASE Next /\ id \in stored'
    <3>1. id # made + 1
      BY <1>1 DEF IInv, TypeOK, Known
    <3>2. CASE KeptBy(id)
      BY <3>2 DEF KeptBy, MarksKept, Live
    <3>3. CASE FlippedBy(id)
      BY <3>3 DEF FlippedBy, MarksKept, Live
    <3>4. CASE DetachedBy(id)
      BY <3>4 DEF DetachedBy, MarksKept, Live
    <3> QED BY <1>1, <2>2, <3>1, <3>2, <3>3, <3>4, Written
            DEF IInv, WrittenAs, PersistedBy, AddedNow
  <2>3. CASE id \notin stored'
    BY <2>3 DEF Live
  <2> QED BY <1>1, <2>1, <2>2, <2>3
<1>2. IInv /\ [Next]_vars =>
         [\A id \in persisted \ clobbered' :
             /\ ~Live(id) => ~Live(id)'
             /\ id \in stored \intersect stored' =>
                   /\ ~chunk[id].latest => ~chunk'[id].latest /\ chunk'[id].by = chunk[id].by
                   /\ chunk[id].merged => chunk'[id].merged
                   /\ chunk'[id].over \in {chunk[id].over, NoId}]_vars
  BY <1>1
<1> QED BY <1>2, Invariance, PTL DEF Spec, HistoryKept

\* The cause of the violation of RemovedStaysRemoved: but for a copy written back after
\* it stopped being true (apply_supersede on the clone of find_candidates, the edits)
\* no writer, restart or failure brings a removed chunk back.
THEOREM OnlyStaleCopiesRevive == Spec /\ [](clobbered = {}) => RemovedStaysRemoved
<1>1. /\ (clobbered = {})'
      /\ [\A id \in persisted \ clobbered' :
             /\ ~Live(id) => ~Live(id)'
             /\ id \in stored \intersect stored' =>
                   /\ ~chunk[id].latest => ~chunk'[id].latest /\ chunk'[id].by = chunk[id].by
                   /\ chunk[id].merged => chunk'[id].merged
                   /\ chunk'[id].over \in {chunk[id].over, NoId}]_vars
      => [\A id \in persisted : ~Live(id) => ~Live(id)']_vars
  OBVIOUS
<1> QED BY <1>1, HistoryIsKept, PTL DEF HistoryKept, RemovedStaysRemoved

\* mark_in_progress, clear_in_progress and mark_consolidated read and write a chunk
\* under one lock: where consolidations are all that runs, whatever is deleted, purged,
\* dropped or crashed meanwhile, a removed chunk stays removed.
InPlace ==
    /\ clobbered = {}
    /\ \A t \in Tasks : Busy(t) =>
          task[t].op = "merge" /\ task[t].pc \in {"mark", "persist", "settle", "release"}

THEOREM InPlaceRevivesNothing ==
    ASSUME Ops \subseteq {"merge"}
    PROVE  Spec => RemovedStaysRemoved
<1>1. Init => InPlace
  BY DEF Init, InPlace, Busy
<1>2. TypeOK /\ InPlace /\ [Next]_vars => InPlace'
  <2> SUFFICES ASSUME TypeOK, InPlace, [Next]_vars
               PROVE  InPlace'
    OBVIOUS
  <2> USE DEF InPlace, Busy
  <2> DEFINE Merges(u) == u.op = "merge" /\ u.pc \in {"mark", "persist", "settle", "release"}
  <2>0. ASSUME NEW t \in Tasks, task[t].pc # "idle"
        PROVE  Busy(t) /\ Merges(task[t]) /\ task[t] \in Task
    BY <2>0 DEF Idle, TypeOK
  <2>a. ASSUME NEW t \in Tasks, clobbered' = clobbered,
               \/ Done(t)
               \/ /\ task[t].pc # "idle"
                  /\ \E pc \in {"mark", "persist", "settle", "release"} : Goto(t, pc)
        PROVE  InPlace'
    <3>1. CASE Done(t)
      BY <3>1, <2>a DEF Done, TypeOK
    <3>2. CASE /\ task[t].pc # "idle"
               /\ \E pc \in {"mark", "persist", "settle", "release"} : Goto(t, pc)
      <4>1. PICK pc \in {"mark", "persist", "settle", "release"} : Goto(t, pc)
        BY <3>2
      <4>2. Merges([task[t] EXCEPT !.pc = pc])
        BY <4>1, <3>2, <2>0 DEF Task
      <4> QED BY <4>1, <4>2, <2>a DEF Goto, TypeOK
    <3> QED BY <2>a, <3>1, <3>2
  <2>1. ASSUME NEW t \in Tasks, StartStep(t)
        PROVE  InPlace'
    <3>1. PICK S \in SUBSET Ids : Merge(t, S)
      BY <2>1 DEF StartStep, Ingest, Replace, Dream, Edit, Start
    <3> QED BY <3>1 DEF Merge, Start, ghosts, TypeOK
  <2>2. ASSUME NEW t \in Tasks, MergeStep(t)
        PROVE  InPlace'
    <3>1. clobbered' = clobbered /\ task[t].pc # "idle"
      BY <2>2 DEF MergeStep, Mark, MarkFails, Settle, SettleFails, Release, ghosts
    <3>2. Done(t) \/ Goto(t, "persist") \/ Goto(t, "release")
      BY <2>2 DEF MergeStep, Mark, MarkFails, Settle, SettleFails, Release
    <3> QED BY <3>1, <3>2, <2>a
  <2>3. ASSUME NEW t \in Tasks, Persist(t)
        PROVE  InPlace'
    <3>1. task[t].pc # "idle" /\ clobbered' = clobbered
      BY <2>3 DEF Persist, ghosts
    <3>2. Goto(t, "settle")
      BY <2>3, <3>1, <2>0 DEF Persist
    <3> QED BY <3>1, <3>2, <2>a
  <2>4. ASSUME NEW t \in Tasks, WriteStep(t), ~Persist(t)
        PROVE  FALSE
    <3>1. task[t].pc \in {"flip", "reload", "unlink", "detach", "retire", "write"}
      BY <2>4 DEF WriteStep, Flip, FlipFails, Reload, Unlink, Detach, Retire, Retired, EditWrite
    <3> QED BY <3>1, <2>0
  <2>5. ASSUME NEW t \in Tasks, GiveUp(t)
        PROVE  InPlace'
    <3>1. clobbered' = clobbered /\ (Goto(t, "release") \/ Done(t))
      BY <2>5 DEF GiveUp
    <3>2. task[t].pc # "idle"
      BY <2>5 DEF GiveUp, Doing, TypeOK, Task, Idle
    <3> QED BY <3>1, <3>2, <2>a
  <2>6. CASE \E r \in Ranks : Add(r)
    BY <2>6 DEF Add, ghosts
  <2>7. CASE \E id \in Ids : Delete(id) \/ Purge(id)
    BY <2>7 DEF Delete, Purge, ghosts
  <2>8. CASE Crash
    BY <2>8 DEF Crash, Idle
  <2>9. CASE Boot
    BY <2>9 DEF Boot
  <2>10. CASE UNCHANGED vars
    BY <2>10 DEF vars, ghosts
  <2> QED BY <2>1, <2>2, <2>3, <2>4, <2>5, <2>6, <2>7, <2>8, <2>9, <2>10 DEF Next
<1>3. InPlace => clobbered = {}
  BY DEF InPlace
<1>4. Spec => [](clobbered = {})
  BY <1>1, <1>2, <1>3, TypeCorrect, PTL DEF Spec
<1> QED BY <1>4, OnlyStaleCopiesRevive, PTL

\* plan_supersede and reload_head keep the chain of versions from forking.
THEOREM NoFork == Spec => []OneSuccessor
<1>1. IInv => OneSuccessor
  <2> SUFFICES ASSUME IInv, NEW o \in Ids, o \notin clobbered,
                      NEW m \in Ids, m \notin unconfirmed \union clobbered, Successor(m, o),
                      NEW n \in Ids, n \notin unconfirmed \union clobbered, Successor(n, o)
               PROVE  m = n
    BY DEF OneSuccessor
  <2>1. Claims(m, o) /\ Claims(n, o)
    BY DEF Claims
  <2> QED BY <2>1 DEF IInv, Claimed
<1> QED BY <1>1, Invariance, PTL

\* The trust guards and derived_trust, over every path that writes superseded_by
\* or makes a chunk of others.
THEOREM TrustNeverGained == Spec => []TrustKept
<1>1. IInv => TrustKept
  BY DEF IInv, TypeOK, Copies, CopyOK, Known, TrustKept
<1> QED BY <1>1, Invariance, PTL

\* InProgressGuard and recover_orphaned_chunks: a lease nobody holds is one that
\* could not be cleared or that a stale copy brought back.
THEOREM LeaseIsHeld == Spec => []LeaseHeld
<1>1. IInv => LeaseHeld
  BY DEF IInv
<1> QED BY <1>1, Invariance, PTL

\* mark_consolidated: no fact is in two summaries, unless a pass stored one and did
\* not settle.
THEOREM ConsolidatedOnce == Spec => []MergedOnce
<1>1. IInv => MergedOnce
  BY DEF IInv
<1> QED BY <1>1, Invariance, PTL

\* The order of persist_chunk and mark_consolidated: nothing is retired before the
\* summary that stands for it is stored.
THEOREM ConsolidatedIsCovered == Spec => []MergedIsCovered
<1>1. IInv => MergedIsCovered
  BY DEF IInv, Copies, CopyOK, MergedIsCovered
<1> QED BY <1>1, Invariance, PTL
=============================================================================
