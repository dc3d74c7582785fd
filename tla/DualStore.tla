------------------------------ MODULE DualStore ------------------------------
(***************************************************************************)
(* A memory lives in two stores: RocksDB holds the chunk, Tantivy the      *)
(* document search finds it by.  No transaction spans the two.  Each       *)
(* request writes an intent, changes RocksDB, changes and commits Tantivy, *)
(* and marks the intent committed, taking a different lock for every step; *)
(* requests of other tasks, a crash and the recovery that replays pending  *)
(* intents happen in between.                                              *)
(*                                                                         *)
(* Sources: loomem-core/src/storage/persist.rs, storage/lifecycle.rs,      *)
(* intent_log/recovery.rs, tantivy_index/, and the delete and purge        *)
(* handlers of loomem-server/src/handlers/.                                *)
(***************************************************************************)
EXTENDS Naturals, FiniteSets

CONSTANTS
    Ids,         \* chunk ids
    Streams,     \* the namespaces, each the set of the ids it owns
    Contents,    \* what a live chunk can hold
    Absent,      \* no chunk, no document
    Dead,        \* a chunk with deleted_at set
    Tasks,       \* concurrent requests and workers
    Ops,         \* the operations the tasks perform
    MaxSeq,      \* bound of the model: intents of one behaviour
    MaxCrashes   \* bound of the model: crashes of one behaviour

AllOps == {"store", "delete", "api_delete", "purge", "api_purge", "purge_chunk",
           "touch", "retention"}

ASSUME StoreAssumption ==
    /\ Streams \subseteq SUBSET Ids
    /\ Absent # Dead
    /\ Absent \notin Contents
    /\ Dead \notin Contents
    /\ Ops \subseteq AllOps
    /\ MaxSeq \in Nat
    /\ MaxCrashes \in Nat

VARIABLES
    chunk,     \* RocksDB: the chunk of each id
    doc,       \* Tantivy: the committed documents
    docMem,    \* Tantivy: what the next commit of the writer publishes
    wal,       \* the pending intents of the log
    nextSeq,   \* IntentLog::next_seq
    task,      \* what each task is doing
    mode,      \* the process: "up", "down", or in recovery "replay" or "ack"
    todo,      \* recovery: the intents not yet replayed
    crashes,   \* number of crashes so far
    excused,   \* ids whose two stores the log does not vouch for
    acked      \* per id, the number of the last store that returned Ok and
               \* that no removal or overlapping task has put in doubt (or 0)

stores == <<chunk, doc, docMem>>
ghosts == <<excused, acked>>
vars == <<chunk, doc, docMem, wal, nextSeq, task, mode, todo, crashes, excused, acked>>

IntentOps == {"store", "delete", "purge", "purge_chunk"}
Intent == [seq : 1..MaxSeq, op : IntentOps, ids : SUBSET Ids]

\* The intent an operation is logged as.
LoggedAs(op) == CASE op = "api_delete" -> "delete"
                  [] op = "api_purge" -> "purge"
                  [] OTHER -> op

\* ids: what the task may still change; sweep: the documents its index step
\* deletes; val: the content it writes.
Task == [pc : {"store", "index", "mark"}, op : AllOps, ids : SUBSET Ids,
         sweep : SUBSET Ids, val : Contents \union {Absent}, seq : 0..MaxSeq]
Idle == [pc |-> "idle"]

Busy(t) == task[t] # Idle
InFlight == UNION {task[t].ids : t \in {u \in Tasks : Busy(u)}}
Stop(t) == task' = [task EXCEPT ![t] = Idle]

Live(id) == chunk[id] \in Contents
Visible(id) == IF Live(id) THEN chunk[id] ELSE Absent
Agree(id) == doc[id] = Visible(id) /\ docMem[id] = Visible(id)
Covered(id) == \E i \in wal : id \in i.ids

TypeOK ==
    /\ chunk \in [Ids -> Contents \union {Absent, Dead}]
    /\ doc \in [Ids -> Contents \union {Absent}]
    /\ docMem \in [Ids -> Contents \union {Absent}]
    /\ wal \subseteq Intent
    /\ nextSeq \in 1..(MaxSeq + 1)
    /\ task \in [Tasks -> Task \union {Idle}]
    /\ mode \in {"up", "down", "replay", "ack"}
    /\ todo \subseteq Intent
    /\ crashes \in 0..MaxCrashes
    /\ excused \subseteq Ids
    /\ acked \in [Ids -> 0..MaxSeq]

Init ==
    /\ chunk = [id \in Ids |-> Absent]
    /\ doc = chunk
    /\ docMem = chunk
    /\ wal = {}
    /\ nextSeq = 1
    /\ task = [t \in Tasks |-> Idle]
    /\ mode = "up"
    /\ todo = {}
    /\ crashes = 0
    /\ excused = {}
    /\ acked = [id \in Ids |-> 0]

-----------------------------------------------------------------------------
(* The two stores *)

Set(f, S, v) == [id \in Ids |-> IF id \in S THEN v ELSE f[id]]

\* delete_by_id tombstones what exists; hard_delete_by_id and purge_namespace
\* leave nothing.
ChunksAfter(op, S, v) ==
    CASE LoggedAs(op) = "store" -> Set(chunk, S, v)
      [] LoggedAs(op) = "delete" -> Set(chunk, {id \in S : chunk[id] # Absent}, Dead)
      [] OTHER -> Set(chunk, S, Absent)

\* TantivyIndex::commit: everything the writer holds.
Commit(docs) == docMem' = docs /\ doc' = docs

\* A commit that fails keeps the writer's operations; the reload after a
\* commit that took effect may fail too.
CommitFails(docs) == docMem' = docs /\ doc' \in {doc, docs}

-----------------------------------------------------------------------------
(* Requests *)

\* Two tasks that overlap on an id can apply their steps to the two stores in
\* opposite orders and both be marked committed: neither the log nor an earlier
\* Ok vouches for the id then.  A removal asked for ends what a store promised.
Overlap(S, removed) ==
    /\ excused' = excused \union (S \cap InFlight)
    /\ acked' = Set(acked, removed \union (S \cap InFlight), 0)

\* What a request asks for: the ids it names and the content it brings.
Request(op, S, v) ==
    /\ op \in Ops
    /\ IF LoggedAs(op) = "purge" THEN S \in Streams ELSE \E id \in Ids : S = {id}
    /\ IF op = "store" THEN v \in Contents ELSE v = Absent

\* append_pending, then the operation goes on to RocksDB.
Begin(t, op, S, v) ==
    /\ mode = "up"
    /\ ~Busy(t)
    /\ op \notin {"touch", "retention"}
    /\ Request(op, S, v)
    /\ nextSeq <= MaxSeq
    /\ nextSeq' = nextSeq + 1
    /\ wal' = wal \union {[seq |-> nextSeq, op |-> LoggedAs(op), ids |-> S]}
    /\ task' = [task EXCEPT ![t] = [pc |-> "store", op |-> op, ids |-> S, sweep |-> S,
                                    val |-> v, seq |-> nextSeq]]
    /\ Overlap(S, IF op = "store" THEN {} ELSE S)
    /\ UNCHANGED <<stores, mode, todo, crashes>>

\* api_delete_memory_handler: append_pending(..).ok() deletes without an
\* intent when the log cannot be written.
BeginUnlogged(t, id) ==
    /\ mode = "up"
    /\ ~Busy(t)
    /\ "api_delete" \in Ops
    /\ task' = [task EXCEPT ![t] = [pc |-> "store", op |-> "api_delete", ids |-> {id},
                                    sweep |-> {id}, val |-> Absent, seq |-> 0]]
    /\ excused' = excused \union {id}
    /\ acked' = Set(acked, {id}, 0)
    /\ UNCHANGED <<stores, wal, nextSeq, mode, todo, crashes>>

\* The RocksDB batch.  api_purge_namespace_handler goes on with the ids the
\* purge reported, the others with what they named.
StoreStep(t) ==
    /\ task[t].pc = "store"
    /\ task[t].op \notin {"touch", "retention"}
    /\ chunk' = ChunksAfter(task[t].op, task[t].ids, task[t].val)
    /\ task' = [task EXCEPT ![t].pc = "index",
                            ![t].sweep = IF task[t].op = "api_purge"
                                         THEN {id \in task[t].ids : chunk[id] # Absent}
                                         ELSE task[t].ids]
    /\ UNCHANGED <<doc, docMem, wal, nextSeq, mode, todo, crashes, ghosts>>

\* A later `?`, an admission check, an I/O error, or the future dropped at an
\* await: the task is gone and its intent stays pending.
GiveUp(t) ==
    /\ Busy(t)
    /\ Stop(t)
    /\ UNCHANGED <<stores, wal, nextSeq, mode, todo, crashes, ghosts>>

\* What the writer holds after the step.
\* (Wrong: a soft delete that indexes the tombstone.)
DocsWithTombstones(t) ==
    IF task[t].op = "store" THEN Set(docMem, task[t].ids, task[t].val)
    ELSE Set(docMem, task[t].sweep, Dead)
DocsAfter(t) ==
    IF task[t].op = "store" THEN Set(docMem, task[t].ids, task[t].val)
    ELSE Set(docMem, task[t].sweep, Absent)

\* Under the Tantivy lock: delete or upsert the documents and commit.  With
\* nothing swept api_purge_namespace_handler commits nothing.
IndexStep(t) ==
    /\ task[t].pc = "index"
    /\ task[t].op # "retention"
    /\ IF task[t].op = "api_purge" /\ task[t].sweep = {}
       THEN UNCHANGED <<doc, docMem>>
       ELSE Commit(DocsAfter(t))
    /\ task' = [task EXCEPT ![t].pc = "mark"]
    /\ UNCHANGED <<chunk, wal, nextSeq, mode, todo, crashes, ghosts>>

\* The handlers that return the error: the intent stays pending.  An upsert
\* may also fail between its delete_term and its add_document.
IndexFailsStrict(t) ==
    /\ task[t].pc = "index"
    /\ task[t].op \in {"store", "delete", "purge"}
    /\ \/ CommitFails(DocsAfter(t))
       \/ /\ task[t].op = "store"
          /\ docMem' = Set(docMem, task[t].ids, Absent)
          /\ UNCHANGED doc
    /\ Stop(t)
    /\ UNCHANGED <<chunk, wal, nextSeq, mode, todo, crashes, ghosts>>

\* The handlers that note the error and go on to mark_committed.  A purge of
\* a namespace commits id by id: any of its commits may be the last to succeed.
IndexFailsLax(t) ==
    /\ task[t].pc = "index"
    /\ task[t].op \in {"api_delete", "purge_chunk", "api_purge"}
    /\ task[t].sweep # {}
    /\ \/ CommitFails(DocsAfter(t))
       \/ \E S \in SUBSET task[t].sweep :
             docMem' = DocsAfter(t) /\ doc' = Set(docMem, S, Absent)
    /\ task' = [task EXCEPT ![t].pc = "mark"]
    /\ excused' = excused \union task[t].ids
    /\ UNCHANGED <<chunk, wal, nextSeq, mode, todo, crashes, acked>>

\* mark_committed: Ok to the caller.
Mark(t) ==
    /\ task[t].pc = "mark"
    /\ wal' = {i \in wal : i.seq # task[t].seq}
    /\ acked' = IF task[t].op = "store"
                THEN Set(acked, task[t].ids \ excused, task[t].seq)
                ELSE acked
    /\ Stop(t)
    /\ UNCHANGED <<stores, nextSeq, mode, todo, crashes, excused>>

-----------------------------------------------------------------------------
(* Writers that keep no intent *)

\* apply_supersede, try_supersede_with_guard, dedup_check: a chunk read
\* earlier is written back whole, its deleted_at unset.
TouchRead(t, id) ==
    /\ mode = "up"
    /\ ~Busy(t)
    /\ "touch" \in Ops
    /\ Live(id)
    /\ task' = [task EXCEPT ![t] = [pc |-> "store", op |-> "touch", ids |-> {id},
                                    sweep |-> {}, val |-> chunk[id], seq |-> 0]]
    /\ Overlap({id}, {})
    /\ UNCHANGED <<stores, wal, nextSeq, mode, todo, crashes>>

TouchWrite(t) ==
    /\ task[t].pc = "store"
    /\ task[t].op = "touch"
    /\ chunk' = Set(chunk, task[t].ids, task[t].val)
    /\ Stop(t)
    /\ UNCHANGED <<doc, docMem, wal, nextSeq, mode, todo, crashes, ghosts>>

\* The hard-purge worker: the tombstones past their retention, then for each
\* of them the document and the chunk, whatever became of it since the scan.
RetentionScan(t, S) ==
    /\ mode = "up"
    /\ ~Busy(t)
    /\ "retention" \in Ops
    /\ S # {}
    /\ \A id \in S : chunk[id] = Dead
    /\ task' = [task EXCEPT ![t] = [pc |-> "index", op |-> "retention", ids |-> S,
                                    sweep |-> {}, val |-> Absent, seq |-> 0]]
    /\ Overlap(S, S)
    /\ UNCHANGED <<stores, wal, nextSeq, mode, todo, crashes>>

RetentionIndex(t, id) ==
    /\ task[t].pc = "index"
    /\ task[t].op = "retention"
    /\ id \in task[t].ids
    /\ CommitFails(Set(docMem, {id}, Absent))
    /\ task' = [task EXCEPT ![t].pc = "store", ![t].sweep = {id}]
    /\ UNCHANGED <<chunk, wal, nextSeq, mode, todo, crashes, ghosts>>

RetentionDelete(t) ==
    /\ task[t].pc = "store"
    /\ task[t].op = "retention"
    /\ chunk' = Set(chunk, task[t].sweep, Absent)
    /\ LET rest == task[t].ids \ task[t].sweep IN
       task' = IF rest = {} THEN [task EXCEPT ![t] = Idle]
               ELSE [task EXCEPT ![t].pc = "index", ![t].ids = rest, ![t].sweep = {}]
    /\ UNCHANGED <<doc, docMem, wal, nextSeq, mode, todo, crashes, ghosts>>

-----------------------------------------------------------------------------
(* Crash and recovery *)

\* RocksDB and the log keep what was written, Tantivy what was committed.  An
\* error in recovery ends the process the same way.
Crash ==
    /\ mode # "down"
    /\ crashes < MaxCrashes
    /\ crashes' = crashes + 1
    /\ mode' = "down"
    /\ docMem' = doc
    /\ task' = [t \in Tasks |-> Idle]
    /\ todo' = {}
    /\ UNCHANGED <<chunk, doc, wal, nextSeq, ghosts>>

\* recover: scan_pending, and nothing to do when it is empty.
\* (Wrong: no early return.)
AlwaysReplay == "replay"
\* (Wrong: what is pending is left for another start.)
NoReplay == "up"
AfterScan == IF wal = {} THEN "up" ELSE "replay"

Boot ==
    /\ mode = "down"
    /\ mode' = AfterScan
    /\ todo' = wal
    /\ UNCHANGED <<stores, wal, nextSeq, task, crashes, ghosts>>

Earliest(is) == {i \in is : \A j \in is : i.seq <= j.seq}

\* (Wrong: a pending store is rolled back.)
RollBack(i) ==
    /\ mode = "replay"
    /\ i \in Earliest(todo)
    /\ todo' = todo \ {i}
    /\ chunk' = Set(chunk, i.ids, Absent)
    /\ Commit(Set(docMem, i.ids, Absent))
    /\ UNCHANGED <<wal, nextSeq, task, mode, crashes, ghosts>>

\* replay_entry: a store is rolled forward from RocksDB, a removal done again.
\* delete_document and delete_stream commit, upsert_chunk_document does not.
Replay(i) ==
    /\ mode = "replay"
    /\ i \in Earliest(todo)
    /\ todo' = todo \ {i}
    /\ IF i.op = "store"
       THEN /\ UNCHANGED <<chunk, acked>>
            /\ IF \E id \in i.ids : Live(id)
               THEN docMem' = [id \in Ids |-> IF id \in i.ids THEN Visible(id)
                                              ELSE docMem[id]] /\ UNCHANGED doc
               ELSE Commit(Set(docMem, i.ids, Absent))
       ELSE /\ chunk' = ChunksAfter(i.op, i.ids, Absent)
            /\ Commit(Set(docMem, i.ids, Absent))
            /\ acked' = Set(acked, i.ids, 0)
    /\ UNCHANGED <<wal, nextSeq, task, mode, crashes, excused>>

\* (Wrong: acknowledged while some of them are still to be replayed.)
SomeReplayed == TRUE
AllReplayed == todo = {}

\* (Wrong: acknowledged while the index is in the writer only.)
PublishNothing == UNCHANGED <<doc, docMem>>
PublishReplayed == Commit(docMem)

\* One commit covers all of them, and repairs whatever happened to their ids.
CommitReplay ==
    /\ mode = "replay"
    /\ AllReplayed
    /\ PublishReplayed
    /\ mode' = "ack"
    /\ todo' = {}
    /\ excused' = {id \in excused : ~Covered(id)}
    /\ UNCHANGED <<chunk, wal, nextSeq, task, crashes, acked>>

\* (Wrong: after each acknowledgement the replay starts over.)
ReplayTheRest(is) == IF is = {} THEN "up" ELSE "replay"
AfterAck(is) == IF is = {} THEN "up" ELSE "ack"

Ack(i) ==
    /\ mode = "ack"
    /\ i \in Earliest(wal)
    /\ wal' = wal \ {i}
    /\ mode' = AfterAck(wal')
    /\ UNCHANGED <<stores, nextSeq, task, todo, crashes, ghosts>>

-----------------------------------------------------------------------------
TaskStep(t) ==
    \/ \E op \in Ops, S \in Streams \union {{id} : id \in Ids},
         v \in Contents \union {Absent} : Begin(t, op, S, v)
    \/ \E id \in Ids : BeginUnlogged(t, id) \/ TouchRead(t, id) \/ RetentionIndex(t, id)
    \/ StoreStep(t) \/ GiveUp(t)
    \/ IndexStep(t) \/ IndexFailsStrict(t) \/ IndexFailsLax(t)
    \/ Mark(t)
    \/ TouchWrite(t)
    \/ \E S \in SUBSET Ids : RetentionScan(t, S)
    \/ RetentionDelete(t)

Recover == Boot \/ CommitReplay \/ \E i \in wal : Replay(i) \/ Ack(i)

Next == (\E t \in Tasks : TaskStep(t)) \/ Crash \/ Recover

Spec == Init /\ [][Next]_vars

\* Recovery is straight-line code of the starting process.
FairSpec == Spec /\ WF_vars(Recover)

-----------------------------------------------------------------------------
(* Properties *)

\* Where requests did not overlap and no handler passed over an index error,
\* RocksDB and Tantivy agree on an id or a pending intent names it, in every
\* state: between any two steps, after any failure, crash or partial recovery.
DivergenceCovered ==
    \A id \in Ids : id \in excused \/ Covered(id) \/ Agree(id)

\* A store that returned Ok is not lost: until a removal of its id is
\* requested or replayed the chunk is live, whatever else fails or crashes.
AckedSurvives ==
    \A id \in Ids : acked[id] > 0 => Live(id)

\* Recovery comes to an end: intents that were pending at a crash do not keep
\* the server from starting.
RecoveryEnds == mode = "down" ~> mode = "up"

\* Why it does: every step of a start that is not a crash brings it nearer its end, the
\* replay of one intent, the commit over all of them and each acknowledgement.
Left ==
    CASE mode = "down"   -> 2 * Cardinality(wal) + 3
      [] mode = "replay" -> Cardinality(wal) + Cardinality(todo) + 2
      [] mode = "ack"    -> Cardinality(wal) + 1
      [] mode = "up"     -> 0
RecoveryAdvances ==
    [][mode # "up" /\ crashes' = crashes => Left' \in 0..(Left - 1)]_vars

Quiet == mode = "up" /\ wal = {} /\ \A t \in Tasks : ~Busy(t)

\* "Write-ahead log ensures cross-store consistency between RocksDB and
\* Tantivy": with nothing pending and nothing running the stores agree.
CrossStoreConsistent == Quiet => \A id \in Ids : Agree(id)

-----------------------------------------------------------------------------
(* The abstract memory *)

VisibleValues == [id \in Ids |-> Visible(id)]
IdsInDoubt == {id \in Ids : Covered(id) \/ id \in excused}
KeptIds == {id \in Ids : acked[id] > 0}

Abstract == INSTANCE Memory WITH
                value <- VisibleValues, found <- doc, doubt <- IdsInDoubt, kept <- KeptIds

\* The two stores are one Memory: what no pending intent names and no overlap
\* touched reads the same by id and by search and is changed by nothing, no
\* other id's request, commit, failure, crash or recovery included; and an id
\* leaves the log only when both stores have it.
RefinesMemory == Abstract!Spec

-----------------------------------------------------------------------------
(* The intent log, as its clients use it *)

Held == IF mode \in {"replay", "ack"} THEN wal
        ELSE {i \in wal : \E t \in Tasks : Busy(t) /\ task[t].seq = i.seq}

Log == INSTANCE PendingIntents WITH
           Intents <- Intent, MayMislay <- FALSE,
           up <- mode # "down", reported <- wal, held <- Held, owed <- wal

\* Requests and recovery use the log the way IntentLog, which implements the same
\* specification, is used: a request takes a fresh number and settles its own intent and
\* no other, one that fails or crashes leaves it pending, and a start hands everything
\* pending to recovery, which settles one after the other.
UsesTheLog == Log!Spec
=============================================================================
