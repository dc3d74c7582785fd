---------------------------- MODULE EmbeddingQueue ----------------------------
(***************************************************************************)
(* Vectors are computed long after the chunk they describe was stored: a   *)
(* bounded queue hands requests to one worker, which embeds them in        *)
(* batches while the chunks are rewritten, deleted, purged and created     *)
(* again.  A generation per chunk decides whether a result may still be    *)
(* published, and a gauge counts the requests nobody has settled yet.      *)
(*                                                                         *)
(* Sources: loomem-core/src/embedding_queue.rs, storage/lifecycle.rs, and  *)
(* the backfills of loomem-server that embed without the queue.            *)
(***************************************************************************)
EXTENDS Integers, Sequences, FiniteSets

CONSTANTS
    Ids,         \* chunk ids
    Contents,    \* what a chunk can hold
    Absent,      \* no chunk, no vector
    Producers,   \* tasks that enqueue, or embed on their own
    Closers,     \* callers of shutdown
    Capacity,    \* queue_capacity
    BatchSize,   \* batch_size
    MaxGen       \* bound of the model: generations drawn in one behaviour

ASSUME QueueAssumption ==
    /\ Absent \notin [content : Contents, dead : BOOLEAN, gen : 0..MaxGen]
    /\ Absent \notin [content : Contents, version : 0..MaxGen]
    /\ Capacity \in Nat \ {0}
    /\ BatchSize \in Nat \ {0}
    /\ MaxGen \in Nat

VARIABLES
    chunk,      \* per id, the chunk and its embedding_generation (0: no key)
    vector,     \* per id, the version of which chunk its stored vector encodes
    fresh,      \* the last generation drawn (a UUID in the code)
    version,    \* per id, how often a store or a delete has changed its chunk
    queue,      \* the mpsc channel
    batch,      \* the requests the worker has taken
    settling,   \* the count flush_pending holds during a flush (0: none)
    pending,    \* the gauge
    worker,     \* "collect", "flush" or "done"
    signal,     \* the shutdown broadcast, not yet received
    closing,    \* the worker has seen it and closed the channel
    handle,     \* the worker's JoinHandle is still in the mutex
    producer,   \* what each producer is doing
    closer      \* what each caller of shutdown is doing

store == <<chunk, vector, fresh, version>>
work == <<queue, batch, settling, pending, worker, closing>>
stop == <<signal, handle, closer>>
vars == <<chunk, vector, fresh, version, queue, batch, settling, pending, worker, signal,
          closing, handle, producer, closer>>

Gens == 0..MaxGen
Chunk == [content : Contents, dead : BOOLEAN, gen : Gens]
Vector == [content : Contents, version : Gens]
EmbedRequest == [id : Ids, content : Contents, gen : Gens, version : Gens]
Producer == [pc : {"send", "refused", "embed"}, req : EmbedRequest]
Idle == [pc |-> "idle"]

Live(id) == chunk[id] # Absent /\ ~chunk[id].dead

TypeOK ==
    /\ chunk \in [Ids -> Chunk \union {Absent}]
    /\ vector \in [Ids -> Vector \union {Absent}]
    /\ fresh \in Gens
    /\ version \in [Ids -> Gens]
    /\ queue \in Seq(EmbedRequest) /\ Len(queue) <= Capacity
    /\ batch \in Seq(EmbedRequest) /\ Len(batch) <= BatchSize
    /\ settling \in 0..BatchSize
    /\ pending \in Int
    /\ worker \in {"collect", "flush", "done"}
    /\ signal \in BOOLEAN
    /\ closing \in BOOLEAN
    /\ handle \in BOOLEAN
    /\ producer \in [Producers -> Producer \union {Idle}]
    /\ closer \in [Closers -> {"idle", "sent", "join", "done"}]

\* A store may hold chunks, embedded or not, from before there were generations.
Init ==
    /\ chunk \in [Ids -> [content : Contents, dead : {FALSE}, gen : {0}] \union {Absent}]
    /\ vector \in [Ids -> [content : Contents, version : {0}] \union {Absent}]
    /\ \A id \in Ids : vector[id] # Absent =>
          chunk[id] # Absent /\ vector[id].content = chunk[id].content
    /\ fresh = 0
    /\ version = [id \in Ids |-> 0]
    /\ queue = <<>>
    /\ batch = <<>>
    /\ settling = 0
    /\ pending = 0
    /\ worker = "collect"
    /\ signal = FALSE
    /\ closing = FALSE
    /\ handle = TRUE
    /\ producer = [p \in Producers |-> Idle]
    /\ closer = [c \in Closers |-> "idle"]

-----------------------------------------------------------------------------
(* Chunks: each of these holds the lifecycle lock throughout *)

\* A new generation and no vector, or the vector kept for the recovery window.
Renew(id, c, dead) ==
    /\ fresh < MaxGen
    /\ fresh' = fresh + 1
    /\ chunk' = [chunk EXCEPT ![id] = [content |-> c, dead |-> dead, gen |-> fresh']]
    /\ vector' = IF dead THEN vector ELSE [vector EXCEPT ![id] = Absent]

\* store_chunk_locked: what differs from the chunk there was, in content,
\* stream, version (all of them Contents here) or deleted_at.
Changed(id, c) == chunk[id] = Absent \/ chunk[id].content # c \/ chunk[id].dead

Rewrite(id, c) ==
    /\ chunk' = [chunk EXCEPT ![id] =
                    [content |-> c, dead |-> FALSE,
                     gen |-> IF chunk[id] = Absent THEN 0 ELSE chunk[id].gen]]
    /\ UNCHANGED <<vector, fresh>>

StoreChunk(id, c) ==
    /\ IF Changed(id, c) THEN Renew(id, c, FALSE) ELSE Rewrite(id, c)
    /\ version' = IF Live(id) /\ chunk[id].content = c
                  THEN version ELSE [version EXCEPT ![id] = @ + 1]
    /\ UNCHANGED <<work, stop, producer>>

\* delete_by_id: a new deleted_at, on a tombstone too.
DeleteById(id) ==
    /\ chunk[id] # Absent
    /\ Renew(id, chunk[id].content, TRUE)
    /\ version' = [version EXCEPT ![id] = @ + 1]
    /\ UNCHANGED <<work, stop, producer>>

\* hard_delete_by_id, purge_namespace: chunk, vector and generation go.
HardDelete(id) ==
    /\ chunk' = [chunk EXCEPT ![id] = Absent]
    /\ vector' = [vector EXCEPT ![id] = Absent]
    /\ UNCHANGED <<fresh, version, work, stop, producer>>

\* delete_embedding: the last step of delete_memory_fully, whatever became of
\* the id since its first, and the first step of re-embed-all.
DeleteEmbedding(id) ==
    /\ vector' = [vector EXCEPT ![id] = Absent]
    /\ UNCHANGED <<chunk, fresh, version, work, stop, producer>>

\* embedding_target: what a request is bound to.
Target(id) == [id |-> id, content |-> chunk[id].content, gen |-> chunk[id].gen,
               version |-> version[id]]

\* store_embedding_if_current.
\* (Wrong: the content alone is compared.)
SameContent(r) == Live(r.id) /\ chunk[r.id].content = r.content
Current(r) == Live(r.id) /\ chunk[r.id].content = r.content /\ chunk[r.id].gen = r.gen

Publish(r) ==
    vector' = IF Current(r)
              THEN [vector EXCEPT ![r.id] = [content |-> r.content, version |-> r.version]]
              ELSE vector

-----------------------------------------------------------------------------
(* Producers *)

Become(p, pc, r) == producer' = [producer EXCEPT ![p] = [pc |-> pc, req |-> r]]
Finish(p) == producer' = [producer EXCEPT ![p] = Idle]

\* enqueue: the target is captured under the lifecycle lock, and counted before
\* it is sent.
Enqueue(p, id) ==
    /\ producer[p] = Idle
    /\ Live(id)
    /\ pending' = pending + 1
    /\ Become(p, "send", Target(id))
    /\ UNCHANGED <<store, queue, batch, settling, worker, closing, stop>>

\* (Wrong: a closed channel takes what still fits.)
AcceptingToTheEnd == worker # "done"
Accepting == ~closing /\ worker # "done"

\* (Wrong: an unbounded channel.)
NeverFull == FALSE
Full == Len(queue) = Capacity

\* try_send, which never waits: full or closed is an error.
Send(p) ==
    /\ producer[p].pc = "send"
    /\ Accepting
    /\ ~Full
    /\ queue' = Append(queue, producer[p].req)
    /\ Finish(p)
    /\ UNCHANGED <<store, batch, settling, pending, worker, closing, stop>>

SendRefused(p) ==
    /\ producer[p].pc = "send"
    /\ ~Accepting \/ Full
    /\ Become(p, "refused", producer[p].req)
    /\ UNCHANGED <<store, work, stop>>

Uncount(p) ==
    /\ producer[p].pc = "refused"
    /\ pending' = pending - 1
    /\ Finish(p)
    /\ UNCHANGED <<store, queue, batch, settling, worker, closing, stop>>

\* embed-missing, re-embed-all, the re-embedding of maintenance: target,
\* inference and publication, without the queue.
Embed(p, id) ==
    /\ producer[p] = Idle
    /\ Live(id)
    /\ Become(p, "embed", Target(id))
    /\ UNCHANGED <<store, work, stop>>

PublishOwn(p) ==
    /\ producer[p].pc = "embed"
    /\ \/ Publish(producer[p].req)
       \/ UNCHANGED vector
    /\ Finish(p)
    /\ UNCHANGED <<chunk, fresh, version, work, stop>>

-----------------------------------------------------------------------------
(* The worker *)

Receive ==
    /\ worker = "collect"
    /\ Len(batch) < BatchSize
    /\ queue # <<>>
    /\ batch' = Append(batch, Head(queue))
    /\ queue' = Tail(queue)
    /\ UNCHANGED <<store, settling, pending, worker, closing, stop, producer>>

\* flush_pending: at a full batch or the deadline; once the channel is closed,
\* at a full batch or when it is empty.
Flush ==
    /\ worker = "collect"
    /\ batch # <<>>
    /\ closing => Len(batch) = BatchSize \/ queue = <<>>
    /\ settling' = Len(batch)
    /\ worker' = "flush"
    /\ UNCHANGED <<store, queue, batch, pending, closing, stop, producer>>

\* One request of the batch: its inference failed, its result is obsolete, or
\* its vector is published.
Settle ==
    /\ worker = "flush"
    /\ batch # <<>>
    /\ Publish(Head(batch)) \/ UNCHANGED vector
    /\ batch' = Tail(batch)
    /\ UNCHANGED <<chunk, fresh, version, queue, settling, pending, worker, closing, stop, producer>>

\* The gauge goes down by the whole batch at once.
\* (Wrong: by what is left of it.)
LeftOver == Len(batch)
Settled == settling

Flushed ==
    /\ worker = "flush"
    /\ batch = <<>>
    /\ pending' = pending - Settled
    /\ settling' = 0
    /\ worker' = "collect"
    /\ UNCHANGED <<store, queue, batch, closing, stop, producer>>

\* select! takes the shutdown signal between two requests: rx.close().
\* (Wrong: the channel stays open.)
KeepOpen == closing
Closed == TRUE

Notice ==
    /\ worker = "collect"
    /\ ~closing
    /\ Len(batch) < BatchSize
    /\ signal
    /\ signal' = FALSE
    /\ closing' = Closed
    /\ UNCHANGED <<store, queue, batch, settling, pending, worker, handle, producer, closer>>

\* (Wrong: the worker stops with its batch.)
BatchDone == batch = <<>>
Drained == queue = <<>> /\ batch = <<>>

Exit ==
    /\ worker = "collect"
    /\ closing
    /\ Drained
    /\ worker' = "done"
    /\ UNCHANGED <<store, queue, batch, settling, pending, closing, stop, producer>>

-----------------------------------------------------------------------------
(* shutdown *)

Go(c, pc) == closer' = [closer EXCEPT ![c] = pc]

SendSignal(c) ==
    /\ closer[c] = "idle"
    /\ Go(c, "sent")
    /\ signal' = (worker # "done")
    /\ UNCHANGED <<store, work, handle, producer>>

\* Who finds no handle in the mutex returns at once.
TakeHandle(c) ==
    /\ closer[c] = "sent"
    /\ Go(c, IF handle THEN "join" ELSE "done")
    /\ handle' = FALSE
    /\ UNCHANGED <<store, work, signal, producer>>

Join(c) ==
    /\ closer[c] = "join"
    /\ worker = "done"
    /\ Go(c, "done")
    /\ UNCHANGED <<store, work, signal, handle, producer>>

-----------------------------------------------------------------------------
ChunkStep ==
    \E id \in Ids :
        \/ \E c \in Contents : StoreChunk(id, c)
        \/ DeleteById(id)
        \/ HardDelete(id)
        \/ DeleteEmbedding(id)

ProducerStep(p) ==
    \/ \E id \in Ids : Enqueue(p, id) \/ Embed(p, id)
    \/ Send(p) \/ SendRefused(p) \/ Uncount(p)
    \/ PublishOwn(p)

WorkerStep == Receive \/ Flush \/ Settle \/ Flushed \/ Exit

CloserStep(c) == SendSignal(c) \/ TakeHandle(c) \/ Join(c)

Next ==
    \/ ChunkStep
    \/ \E p \in Producers : ProducerStep(p)
    \/ WorkerStep
    \/ Notice
    \/ \E c \in Closers : CloserStep(c)

Spec == Init /\ [][Next]_vars

\* The worker and a caller of shutdown are tasks of the runtime; inference and
\* the flush interval are bounded by timeouts.  select! takes its branches in
\* random order, so a signal is not passed over for ever.
FairSpec ==
    /\ Spec
    /\ WF_vars(WorkerStep)
    /\ SF_vars(Notice)
    /\ \A c \in Closers : WF_vars(TakeHandle(c) \/ Join(c))

-----------------------------------------------------------------------------
(* Properties *)

\* A live chunk's vector was computed from this very chunk, not from an older
\* version and not from an earlier chunk under the same id; an absent chunk
\* has none (store_embedding_if_current, store_chunk_locked).
VectorCurrent ==
    \A id \in Ids : vector[id] # Absent =>
        /\ chunk[id] # Absent
        /\ Live(id) => vector[id] = [content |-> chunk[id].content, version |-> version[id]]

\* The gauge counts what was accepted and not settled, and what is being sent:
\* it never wraps below zero and never keeps a request that is gone.
PendingExact ==
    pending = Len(queue)
              + (IF worker = "flush" THEN settling ELSE Len(batch))
              + Cardinality({p \in Producers : producer[p].pc \in {"send", "refused"}})

\* "Zero after `shutdown` returns", but for requests about to be refused.
ZeroAfterShutdown ==
    \A c \in Closers : closer[c] = "done" =>
        pending = Cardinality({p \in Producers : producer[p].pc \in {"send", "refused"}})

\* Why it does: the channel the worker has closed takes nothing any more, so whatever
\* the producers do, every move of the worker brings it nearer its exit, which is at most
\* five moves per request in the channel away, four per request taken and two more.
Left == 5 * Len(queue) + 4 * Len(batch)
        + CASE worker = "collect" -> 1
            [] worker = "flush" -> (IF batch = <<>> THEN 2 ELSE 0)
            [] worker = "done" -> 0
Moved == <<queue, batch, worker>>' # <<queue, batch, worker>>
ShutdownAdvances ==
    [][closing => closing' /\ (Moved => Left' \in 0..(Left - 1))]_vars

\* A shutdown returns, however fast the producers refill the queue.
ShutdownReturns == \A c \in Closers : closer[c] = "sent" ~> closer[c] = "done"
=============================================================================
