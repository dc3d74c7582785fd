------------------------------- MODULE Versions -------------------------------
(***************************************************************************)
(* The versions of a memory.  A chunk that replaces another is stored as   *)
(* its successor and the old one is flipped: no longer the latest, pointing*)
(* at the new one.  Four kinds of writers do this, each over several steps *)
(* with LLM calls and disk writes in between: the store handler after its  *)
(* contradiction check, memory_store with "supersedes", the dream run, and *)
(* consolidation, which retires its sources by a flag.  Under them are     *)
(* edits, deletes and purges of the same chunks, and a restart.            *)
(*                                                                         *)
(* A write of RocksDB is one step here; what becomes of the search index   *)
(* is DualStore's subject.  All chunks are of one stream and of one        *)
(* subject.                                                                *)
(***************************************************************************)
EXTENDS Integers, FiniteSets

CONSTANTS
    MaxIds,      \* bound of the model: ids given out
    Ranks,       \* the trust ranks new facts come with
    Tasks,       \* concurrent requests and workers
    Ops,         \* what the tasks do
    MinSources,  \* min_group_size, min_chunks_to_consolidate
    MaxCrashes   \* bound of the model: crashes of one behaviour

AllOps == {"ingest", "replace", "dream", "merge", "edit"}

ASSUME VersionsAssumption ==
    /\ MaxIds \in Nat
    /\ Ranks \subseteq 0..3
    /\ Ops \subseteq AllOps
    /\ MinSources \in Nat \ {0}
    /\ MaxCrashes \in Nat

VARIABLES
    stored,       \* ids of the chunks that exist
    chunk,        \* what is stored of each: what writers change
    kind,         \* what made each chunk,
    rank,         \* its trust_level
    sources,      \* and its source_ids: set with the id, never changed
    made,         \* ids given out so far
    task,         \* what each task is doing
    up,           \* the process runs
    crashes,      \* number of crashes so far
    persisted,    \* ids that were stored, removed or not
    stranded,     \* ids flipped for a successor that was then not stored
    unconfirmed,  \* successors stored by a memory_store that did not get to the flip
    clobbered,    \* ids a stale copy was written back to
    remerged,     \* sources of a summary that was stored and not settled
    leaked        \* ids whose lease could not be taken or cleared in full

birth == <<kind, rank, sources, made>>
ghosts == <<stranded, unconfirmed, clobbered, remerged, leaked>>
vars == <<stored, chunk, birth, task, up, crashes, persisted, ghosts>>

Ids == 1..MaxIds
NoId == 0

\* latest: is_latest; by: superseded_by; over: supersedes_id; leased: in_progress;
\* merged: consolidated.
Chunk == [latest : BOOLEAN, deleted : BOOLEAN, by : Ids \union {NoId},
          over : Ids \union {NoId}, leased : BOOLEAN, merged : BOOLEAN]
NewChunk(over) ==
    [latest |-> TRUE, deleted |-> FALSE, by |-> NoId, over |-> over,
     leased |-> FALSE, merged |-> FALSE]
Blank == NewChunk(NoId)

\* new: the id of the chunk to store; olds: the chunks the task is about; at: the
\* one it will write to; snap: the copy of that one it has read; link: what the
\* new chunk says it supersedes.
Task == [op : AllOps,
         pc : {"flip", "persist", "reload", "unlink", "detach", "retire", "mark",
               "settle", "release", "write"},
         new : Ids \union {NoId}, olds : SUBSET Ids, at : Ids \union {NoId},
         snap : Chunk, link : Ids \union {NoId}]
Idle == [pc |-> "idle"]

Busy(t) == task[t] # Idle
Doing(t, op) == Busy(t) /\ task[t].op = op
Live(id) == id \in stored /\ ~chunk[id].deleted
Current(id) == Live(id) /\ chunk[id].latest

TypeOK ==
    /\ stored \subseteq Ids
    /\ chunk \in [Ids -> Chunk]
    /\ kind \in [Ids -> {"fact", "dream", "summary"}]
    /\ rank \in [Ids -> 0..3]
    /\ sources \in [Ids -> SUBSET Ids]
    /\ made \in 0..MaxIds
    /\ task \in [Tasks -> Task \union {Idle}]
    /\ up \in BOOLEAN
    /\ crashes \in 0..MaxCrashes
    /\ persisted \subseteq Ids
    /\ stranded \subseteq Ids
    /\ unconfirmed \subseteq Ids
    /\ clobbered \subseteq Ids
    /\ remerged \subseteq Ids
    /\ leaked \subseteq Ids

Init ==
    /\ stored = {}
    /\ chunk = [id \in Ids |-> Blank]
    /\ kind = [id \in Ids |-> "fact"]
    /\ rank = [id \in Ids |-> 0]
    /\ sources = [id \in Ids |-> {}]
    /\ made = 0
    /\ task = [t \in Tasks |-> Idle]
    /\ up = TRUE
    /\ crashes = 0
    /\ persisted = {}
    /\ stranded = {}
    /\ unconfirmed = {}
    /\ clobbered = {}
    /\ remerged = {}
    /\ leaked = {}

-----------------------------------------------------------------------------
(* Writing chunks *)

\* store_chunk of a copy read earlier: whatever was written since is undone, and
\* a chunk that was purged is back.
WriteBack(t, c) ==
    LET id == task[t].at IN
    /\ stored' = stored \union {id}
    /\ chunk' = [chunk EXCEPT ![id] = c]
    /\ clobbered' = IF id \in stored /\ chunk[id] = task[t].snap THEN clobbered
                    ELSE clobbered \union {id}

\* mark_in_progress, clear_in_progress, mark_consolidated: read and written
\* under the lifecycle lock, the chunks that still exist.
SetFlags(S, leased, merged) ==
    [id \in Ids |-> IF id \in S \intersect stored
                    THEN [chunk[id] EXCEPT !.leased = leased, !.merged = merged \/ @]
                    ELSE chunk[id]]

Goto(t, pc) == task' = [task EXCEPT ![t].pc = pc]
Done(t) == task' = [task EXCEPT ![t] = Idle]

\* A new id, with what never changes of its chunk.
Born(k, r, S) ==
    /\ up
    /\ made < MaxIds
    /\ made' = made + 1
    /\ kind' = [kind EXCEPT ![made + 1] = k]
    /\ rank' = [rank EXCEPT ![made + 1] = r]
    /\ sources' = [sources EXCEPT ![made + 1] = S]

Start(t, op, pc, olds, at, link) ==
    /\ ~Busy(t)
    /\ op \in Ops
    /\ task' = [task EXCEPT ![t] =
                   [op |-> op, pc |-> pc, new |-> made + 1, olds |-> olds, at |-> at,
                    snap |-> IF at = NoId THEN Blank ELSE chunk[at], link |-> link]]
    /\ UNCHANGED <<stored, chunk, up, crashes, persisted, ghosts>>

-----------------------------------------------------------------------------
(* Starting *)

\* A new fact that resembles nothing.
Add(r) ==
    /\ Born("fact", r, {})
    /\ stored' = stored \union {made + 1}
    /\ chunk' = [chunk EXCEPT ![made + 1] = NewChunk(NoId)]
    /\ persisted' = persisted \union {made + 1}
    /\ UNCHANGED <<task, up, crashes, ghosts>>

\* store_handler: find_candidates reads the old chunk, then an LLM is asked and
\* says "updates".
Ingest(t, old, r) ==
    /\ Current(old)
    /\ Born("fact", r, {})
    /\ Start(t, "ingest", "flip", {old}, old, NoId)

\* (Wrong: a newer version may be superseded over.)
AnyVersion(id) == Live(id)
Replaceable(id) == Current(id) /\ chunk[id].by = NoId

\* SUPERSEDE_LOCK is held from the plan to the flip.
LockFree == \A t \in Tasks : ~Doing(t, "replace")

\* memory_store with "supersedes", plan_supersede.  The new chunk is linked
\* unless the trust guard is going to refuse the flip.
LinkTo(old, r) == IF r < rank[old] THEN NoId ELSE old

\* (Wrong: the old chunk is flipped first.)
ReplaceFlipped(t, old, r) ==
    /\ LockFree
    /\ Replaceable(old)
    /\ Born("fact", r, {})
    /\ Start(t, "replace", "flip", {old}, old, LinkTo(old, r))
Replace(t, old, r) ==
    /\ LockFree
    /\ Replaceable(old)
    /\ Born("fact", r, {})
    /\ Start(t, "replace", "persist", {old}, old, LinkTo(old, r))

\* derived_trust: the lowest rank of the sources, at most a2.
\* (Wrong: the highest.)
HighestTrust(S) == CHOOSE r \in 0..3 :
    /\ \E id \in S : rank[id] = r
    /\ \A id \in S : rank[id] <= r
DerivedTrust(S) == CHOOSE r \in 0..2 :
    /\ r = 2 \/ \E id \in S : rank[id] = r
    /\ \A id \in S : r <= rank[id]

\* dream_run for one subject: its sources, unless a merged chunk covers them.
Dream(t, S) ==
    /\ Cardinality(S) >= MinSources
    /\ \A id \in S : Current(id) /\ kind[id] # "dream"
    /\ ~\E id \in stored : kind[id] = "dream" /\ chunk[id].latest /\ S \subseteq sources[id]
    /\ Born("dream", DerivedTrust(S), S)
    /\ Start(t, "dream", "persist", S, NoId, NoId)

\* (Wrong: consolidated chunks are taken again.)
EligibleMerged(id) == Current(id) /\ kind[id] = "fact" /\ ~chunk[id].leased
Eligible(id) == Current(id) /\ kind[id] = "fact" /\ ~chunk[id].leased /\ ~chunk[id].merged

\* consolidate: scan_l0_unconsolidated and a sub-group.  The scheduler's loop
\* starts no pass while one runs.
Merge(t, S) ==
    /\ \A u \in Tasks : ~Doing(u, "merge")
    /\ Cardinality(S) >= MinSources
    /\ \A id \in S : Eligible(id)
    /\ Born("summary", DerivedTrust(S), S)
    /\ Start(t, "merge", "mark", S, NoId, NoId)

\* api_update_memory_handler, tag_tier_handler, score_all, the reprocess loop:
\* a chunk is read, to be written back with other fields changed.
Edit(t, id) ==
    /\ up
    /\ ~Busy(t)
    /\ "edit" \in Ops
    /\ id \in stored
    /\ task' = [task EXCEPT ![t] =
                   [op |-> "edit", pc |-> "write", new |-> NoId, olds |-> {id}, at |-> id,
                    snap |-> chunk[id], link |-> NoId]]
    /\ UNCHANGED <<stored, chunk, birth, up, crashes, persisted, ghosts>>

-----------------------------------------------------------------------------
(* Going on *)

\* apply_supersede and try_supersede_with_guard.
Trusted(t) == rank[task[t].at] <= rank[task[t].new]

AfterFlip(t, flipped) ==
    CASE task[t].op = "ingest" ->
            task' = [task EXCEPT ![t].pc = "persist",
                                 ![t].link = IF flipped THEN task[t].at ELSE NoId]
      [] task[t].op = "replace" -> Done(t)
      [] task[t].op = "dream" ->
            task' = [task EXCEPT ![t].pc = "retire", ![t].olds = @ \ {task[t].at}]

Flip(t) ==
    /\ task[t].pc = "flip"
    /\ IF Trusted(t)
       THEN WriteBack(t, [task[t].snap EXCEPT !.latest = FALSE, !.by = task[t].new])
       ELSE UNCHANGED <<stored, chunk, clobbered>>
    /\ AfterFlip(t, Trusted(t))
    /\ UNCHANGED <<birth, up, crashes, persisted, stranded, unconfirmed, remerged, leaked>>

\* store_chunk fails: the fact is stored unlinked, the replacement detached,
\* the dream run over.
FlipFails(t) ==
    /\ task[t].pc = "flip"
    /\ Trusted(t)
    /\ CASE task[t].op = "ingest" -> Goto(t, "persist")
         [] task[t].op = "replace" -> Goto(t, "unlink")
         [] task[t].op = "dream" -> Done(t)
    /\ UNCHANGED <<stored, chunk, birth, up, crashes, persisted, ghosts>>

\* persist_chunk: the new chunk is stored.  Of a dream's sources the LLM named
\* those that the merged fact contradicts.
Persist(t) ==
    /\ task[t].pc = "persist"
    /\ stored' = stored \union {task[t].new}
    /\ chunk' = [chunk EXCEPT ![task[t].new] = NewChunk(task[t].link)]
    /\ persisted' = persisted \union {task[t].new}
    /\ CASE task[t].op = "ingest" -> Done(t)
         [] task[t].op = "replace" -> Goto(t, "reload")
         [] task[t].op = "dream" ->
               \E C \in SUBSET task[t].olds :
                  task' = [task EXCEPT ![t].pc = "retire", ![t].olds = C]
         [] task[t].op = "merge" -> Goto(t, "settle")
    /\ UNCHANGED <<birth, up, crashes, ghosts>>

\* reload_head.
\* (Wrong: a replacement that was overtaken keeps its link.)
ReloadOrLeave(t) ==
    /\ task[t].pc = "reload"
    /\ IF Replaceable(task[t].at)
       THEN task' = [task EXCEPT ![t].pc = "flip", ![t].snap = chunk[task[t].at]]
       ELSE Done(t)
    /\ UNCHANGED <<stored, chunk, birth, up, crashes, persisted, ghosts>>

Reload(t) ==
    /\ task[t].pc = "reload"
    /\ IF Replaceable(task[t].at)
       THEN task' = [task EXCEPT ![t].pc = "flip", ![t].snap = chunk[task[t].at]]
       ELSE Goto(t, "unlink")
    /\ UNCHANGED <<stored, chunk, birth, up, crashes, persisted, ghosts>>

\* unlink_replacement: the new chunk is read and written back without its link.
Unlink(t) ==
    /\ task[t].pc = "unlink"
    /\ IF task[t].new \in stored
       THEN task' = [task EXCEPT ![t].pc = "detach", ![t].at = task[t].new,
                                 ![t].snap = chunk[task[t].new]]
       ELSE Done(t)
    /\ UNCHANGED <<stored, chunk, birth, up, crashes, persisted, ghosts>>

Detach(t) ==
    /\ task[t].pc = "detach"
    /\ WriteBack(t, [task[t].snap EXCEPT !.over = NoId])
    /\ Done(t)
    /\ UNCHANGED <<birth, up, crashes, persisted, stranded, unconfirmed, remerged, leaked>>

\* resolve_dream_contradictions: each source is read again.
\* (Wrong: it is not asked again whether the source is still eligible.)
RetireAny(t, old) ==
    /\ task[t].pc = "retire"
    /\ old \in task[t].olds
    /\ task' = [task EXCEPT ![t].pc = "flip", ![t].at = old, ![t].snap = chunk[old]]
    /\ UNCHANGED <<stored, chunk, birth, up, crashes, persisted, ghosts>>

Retire(t, old) ==
    /\ task[t].pc = "retire"
    /\ old \in task[t].olds
    /\ IF Current(old)
       THEN task' = [task EXCEPT ![t].pc = "flip", ![t].at = old, ![t].snap = chunk[old]]
       ELSE task' = [task EXCEPT ![t].olds = @ \ {old}]
    /\ UNCHANGED <<stored, chunk, birth, up, crashes, persisted, ghosts>>

Retired(t) ==
    /\ task[t].pc = "retire"
    /\ task[t].olds = {}
    /\ Done(t)
    /\ UNCHANGED <<stored, chunk, birth, up, crashes, persisted, ghosts>>

\* mark_in_progress.
\* (Wrong: the mark of mark_consolidated comes with the lease.)
LeasedMerged(S) == SetFlags(S, TRUE, TRUE)
Leased(S) == SetFlags(S, TRUE, FALSE)

Mark(t) ==
    /\ task[t].pc = "mark"
    /\ chunk' = Leased(task[t].olds)
    /\ Goto(t, "persist")
    /\ UNCHANGED <<stored, birth, up, crashes, persisted, ghosts>>

\* It stops at the first chunk it cannot write; the guard is not there yet.
MarkFails(t) ==
    /\ task[t].pc = "mark"
    /\ \E S \in SUBSET task[t].olds :
          /\ chunk' = Leased(S)
          /\ leaked' = leaked \union S
    /\ Done(t)
    /\ UNCHANGED <<stored, birth, up, crashes, persisted, stranded, unconfirmed, clobbered,
                   remerged>>

\* mark_consolidated.
\* (Wrong: the lease is kept.)
SettledLeased(S) == SetFlags(S, TRUE, TRUE)
Settled(S) == SetFlags(S, FALSE, TRUE)

Settle(t) ==
    /\ task[t].pc = "settle"
    /\ chunk' = Settled(task[t].olds)
    /\ Done(t)
    /\ UNCHANGED <<stored, birth, up, crashes, persisted, ghosts>>

SettleFails(t) ==
    /\ task[t].pc = "settle"
    /\ \E S \in SUBSET task[t].olds : chunk' = Settled(S)
    /\ Goto(t, "release")
    /\ remerged' = remerged \union task[t].olds
    /\ UNCHANGED <<stored, birth, up, crashes, persisted, stranded, unconfirmed, clobbered,
                   leaked>>

\* InProgressGuard::drop: clear_in_progress, as far as it gets.
Release(t) ==
    /\ task[t].pc = "release"
    /\ \E S \in SUBSET task[t].olds :
          /\ chunk' = SetFlags(S, FALSE, FALSE)
          /\ leaked' = leaked \union (task[t].olds \ S)
    /\ Done(t)
    /\ UNCHANGED <<stored, birth, up, crashes, persisted, stranded, unconfirmed, clobbered,
                   remerged>>

EditWrite(t) ==
    /\ task[t].pc = "write"
    /\ WriteBack(t, task[t].snap)
    /\ Done(t)
    /\ UNCHANGED <<birth, up, crashes, persisted, stranded, unconfirmed, remerged, leaked>>

-----------------------------------------------------------------------------
(* Removing *)

Delete(id) ==
    /\ up
    /\ Live(id)
    /\ chunk' = [chunk EXCEPT ![id].deleted = TRUE]
    /\ UNCHANGED <<stored, birth, task, up, crashes, persisted, ghosts>>

Purge(id) ==
    /\ up
    /\ id \in stored
    /\ stored' = stored \ {id}
    /\ chunk' = [chunk EXCEPT ![id] = Blank]
    /\ UNCHANGED <<birth, task, up, crashes, persisted, ghosts>>

-----------------------------------------------------------------------------
(* Stopping *)

\* What a task that stops leaves half done.
\* (Wrong: nothing tells a fact that was linked from one that was not.)
AbandonedAny(T) ==
    /\ stranded' = stranded \union {task[t].link : t \in {u \in T : Doing(u, "ingest")}}
    /\ UNCHANGED <<unconfirmed, remerged>>

Abandoned(T) ==
    /\ stranded' = stranded \union ({task[t].link : t \in {u \in T : Doing(u, "ingest")}} \ {NoId})
    /\ unconfirmed' = unconfirmed \union
           {task[t].new : t \in {u \in T : Doing(u, "replace") /\ task[u].pc # "persist"}}
    /\ remerged' = remerged \union
           UNION {task[t].olds : t \in {u \in T : Doing(u, "merge") /\ task[u].pc = "settle"}}

\* An LLM call or a write fails, or the future is dropped at an await.
\* persist_chunk may fail, and be dropped, before the chunk is stored or after:
\* the task is past "persist" then.  A consolidation drops its guard.
GiveUp(t) ==
    /\ \/ task[t].pc \in {"persist", "reload", "retire", "settle", "detach"}
       \/ Doing(t, "ingest")
    /\ IF task[t].op = "merge" THEN Goto(t, "release") ELSE Done(t)
    /\ Abandoned({t})
    /\ UNCHANGED <<stored, chunk, birth, up, crashes, persisted, clobbered, leaked>>

Crash ==
    /\ up
    /\ crashes < MaxCrashes
    /\ crashes' = crashes + 1
    /\ up' = FALSE
    /\ task' = [t \in Tasks |-> Idle]
    /\ Abandoned(Tasks)
    /\ UNCHANGED <<stored, chunk, birth, persisted, clobbered, leaked>>

\* recover_orphaned_chunks, when the scheduler starts.
\* (Wrong: it is not called.)
NotRecovered == chunk
Recovered == SetFlags({id \in Ids : Live(id)}, FALSE, FALSE)

Boot ==
    /\ ~up
    /\ up' = TRUE
    /\ chunk' = Recovered
    /\ leaked' = {}
    /\ UNCHANGED <<stored, birth, task, crashes, persisted, stranded, unconfirmed,
                   clobbered, remerged>>

-----------------------------------------------------------------------------
StartStep(t) ==
    \/ \E old \in Ids, r \in Ranks : Ingest(t, old, r) \/ Replace(t, old, r)
    \/ \E S \in SUBSET Ids : Dream(t, S) \/ Merge(t, S)
    \/ \E id \in Ids : Edit(t, id)

MergeStep(t) == Mark(t) \/ MarkFails(t) \/ Settle(t) \/ SettleFails(t) \/ Release(t)

WriteStep(t) ==
    \/ Flip(t) \/ FlipFails(t)
    \/ Persist(t)
    \/ Reload(t) \/ Unlink(t) \/ Detach(t)
    \/ \E old \in Ids : Retire(t, old)
    \/ Retired(t)
    \/ EditWrite(t)

Next ==
    \/ \E t \in Tasks : StartStep(t) \/ MergeStep(t) \/ WriteStep(t) \/ GiveUp(t)
    \/ \E r \in Ranks : Add(r)
    \/ \E id \in Ids : Delete(id) \/ Purge(id)
    \/ Crash
    \/ Boot

Spec == Init /\ [][Next]_vars

\* A pass runs under a timeout that drops it; the process is started again.
FairSpec ==
    /\ Spec
    /\ \A t \in Tasks : WF_vars(MergeStep(t) \/ (Doing(t, "merge") /\ (Persist(t) \/ GiveUp(t))))
    /\ WF_vars(Boot)
-----------------------------------------------------------------------------
(* What is promised *)

InFlight(n) == \E t \in Tasks : Busy(t) /\ task[t].new = n

\* memory_store and the dream run store the successor before they flip what it
\* replaces: "so a failed persist cannot strand the old version as non-latest".
\* A chunk that is no longer the latest has a successor that was stored, or an
\* ingest that is about to store it (an ingest that stops then strands the chunk).
NotStranded ==
    \A id \in Ids : Live(id) /\ ~chunk[id].latest =>
        \/ chunk[id].by \in persisted
        \/ id \in stranded
        \/ \E t \in Tasks : Doing(t, "ingest") /\ task[t].new = chunk[id].by

\* unlink_replacement: "the replacement must not keep backward chain links to a
\* chunk that is still current".  A chunk whose writer is done and that says it
\* supersedes another is the one the other points at, unless a stale copy was written over
\* either of them or memory_store stopped before the flip.
LinksMutual ==
    \A n \in Ids \ (unconfirmed \union clobbered) :
        n \in stored /\ ~InFlight(n) =>
            LET o == chunk[n].over IN
            o \in stored \ clobbered =>
                chunk[o].by = n /\ ~chunk[o].latest

Successor(n, o) == n \in stored /\ ~InFlight(n) /\ chunk[n].over = o

\* SUPERSEDE_LOCK and plan_supersede: "superseding a chunk that already has a
\* newer version would fork the chain".  Writers that are done leave two successors
\* only where one wrote back a copy the other had made stale, or where memory_store
\* stopped before its flip.
OneSuccessor ==
    \A o \in Ids \ clobbered :
        \A m, n \in Ids \ (unconfirmed \union clobbered) :
            Successor(m, o) /\ Successor(n, o) => m = n

\* The trust guard of apply_supersede and try_supersede_with_guard: "lower-trust
\* content cannot supersede higher-trust", and derived_trust: generated text
\* "never acquires more authority than its weakest source".
TrustKept ==
    /\ \A id \in stored : chunk[id].by # NoId => rank[id] <= rank[chunk[id].by]
    /\ \A n \in stored : \A id \in sources[n] : rank[n] <= rank[id]

\* InProgressGuard: the lease of a source, under which it is hidden from search
\* and from the next pass, is that of a consolidation that runs.  The exceptions
\* are a lease that could not be taken or cleared in full, and one that a stale
\* copy brought back; both last until the next start.
LeaseHeld ==
    \A id \in Ids : up /\ Live(id) /\ chunk[id].leased =>
        \/ id \in leaked \union clobbered
        \/ \E t \in Tasks : /\ Doing(t, "merge")
                            /\ task[t].pc \in {"persist", "settle", "release"}
                            /\ id \in task[t].olds

Summary(n) == n \in persisted /\ kind[n] = "summary"

\* A fact is consolidated into one summary, unless a pass stored its summary and
\* did not get to mark_consolidated, or a stale copy took the mark away.
MergedOnce ==
    \A m, n \in Ids :
        m # n /\ Summary(m) /\ Summary(n) =>
            sources[m] \cap sources[n] \subseteq remerged \union clobbered

\* mark_consolidated comes after the summary is stored: a fact that no later pass
\* will look at is a source of a summary that was stored.
MergedIsCovered ==
    \A id \in stored : chunk[id].merged => \E n \in persisted : id \in sources[n]

\* A removed chunk stays removed, whatever was read before it was: memory_delete
\* "promises removal from every read path", the purge is to "hard-delete a chunk
\* from every retrieval surface".
RemovedStaysRemoved ==
    [][\A id \in persisted : ~Live(id) => ~Live(id)']_vars

\* The other half of the same promise: what a chunk has been through is not undone by
\* any writer, but one that writes back a copy older than what is stored.  A removed
\* chunk stays removed, a superseded one keeps its successor, one that was consolidated
\* is not taken again, and a link is at most dropped, never turned elsewhere
\* (plan_supersede and reload_head: one that "already has a newer version" gets no other).
HistoryKept ==
    [][\A id \in persisted \ clobbered' :
          /\ ~Live(id) => ~Live(id)'
          /\ id \in stored \intersect stored' =>
                /\ ~chunk[id].latest => ~chunk'[id].latest /\ chunk'[id].by = chunk[id].by
                /\ chunk[id].merged => chunk'[id].merged
                /\ chunk'[id].over \in {chunk[id].over, NoId}]_vars

\* Leases end, when the sub-group is done or, after a crash, with the next start:
\* again and again no chunk is leased but those that were leaked or clobbered.
LeaseEnds ==
    []<>(\A id \in Ids : Live(id) /\ chunk[id].leased => id \in leaked \union clobbered)
=============================================================================
