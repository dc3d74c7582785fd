------------------------- MODULE EmbeddingQueueProofs -------------------------
(***************************************************************************)
(* What holds of EmbeddingQueue for every set of chunks, contents and      *)
(* producers, every capacity and batch size: the types, that no vector is  *)
(* of another chunk than the live one, that the gauge is exact, and that   *)
(* it is zero after the shutdown of a single caller.                       *)
(***************************************************************************)
EXTENDS EmbeddingQueue, FiniteSetTheorems, TLAPS

-----------------------------------------------------------------------------
(* Types *)

LEMMA RequestType ==
    ASSUME TypeOK, NEW id \in Ids, Live(id)
    PROVE  Target(id) \in EmbedRequest
BY DEF TypeOK, Live, Chunk, Target, EmbedRequest

LEMMA QueueTypes ==
    ASSUME TypeOK
    PROVE  /\ \A i \in 1..Len(queue) : queue[i] \in EmbedRequest
           /\ \A i \in 1..Len(batch) : batch[i] \in EmbedRequest
           /\ queue # <<>> => Head(queue) \in EmbedRequest
           /\ batch # <<>> => Head(batch) \in EmbedRequest
           /\ Tail(queue) \in Seq(EmbedRequest) \/ queue = <<>>
           /\ Tail(batch) \in Seq(EmbedRequest) \/ batch = <<>>
BY DEF TypeOK

LEMMA PublishTypes ==
    ASSUME TypeOK, NEW r \in EmbedRequest, Publish(r) \/ UNCHANGED vector
    PROVE  vector' \in [Ids -> Vector \union {Absent}]
<1>1. [content |-> r.content, version |-> r.version] \in Vector /\ r.id \in Ids
  BY DEF EmbedRequest, Vector
<1> QED BY <1>1 DEF TypeOK, Publish

LEMMA BecomeTypes ==
    ASSUME TypeOK, NEW p \in Producers, NEW r \in EmbedRequest,
           NEW pc \in {"send", "refused", "embed"}, Become(p, pc, r) \/ Finish(p)
    PROVE  producer' \in [Producers -> Producer \union {Idle}]
<1>1. [pc |-> pc, req |-> r] \in Producer
  BY DEF Producer
<1> QED BY <1>1 DEF TypeOK, Become, Finish

LEMMA BusyProducer ==
    ASSUME TypeOK, NEW p \in Producers, producer[p].pc \in {"send", "refused", "embed"}
    PROVE  producer[p] \in Producer /\ producer[p].req \in EmbedRequest
<1>1. producer[p] # Idle
  BY DEF Idle
<1> QED BY <1>1 DEF TypeOK, Producer

\* A generation is drawn for every change that counts as a version.
LEMMA ChunkTypes ==
    ASSUME TypeOK, \A id \in Ids : version[id] <= fresh, ChunkStep
    PROVE  /\ chunk' \in [Ids -> Chunk \union {Absent}]
           /\ vector' \in [Ids -> Vector \union {Absent}]
           /\ fresh' \in Gens
           /\ version' \in [Ids -> Gens]
           /\ \A id \in Ids : version'[id] <= fresh'
           /\ UNCHANGED <<work, stop, producer>>
<1>1. ASSUME NEW id \in Ids, NEW c \in Contents, NEW dead \in BOOLEAN, Renew(id, c, dead),
             version' = [version EXCEPT ![id] = @ + 1] \/ version' = version
      PROVE  /\ chunk' \in [Ids -> Chunk \union {Absent}]
             /\ vector' \in [Ids -> Vector \union {Absent}]
             /\ fresh' \in Gens
             /\ version' \in [Ids -> Gens]
             /\ \A x \in Ids : version'[x] <= fresh'
  <2>1. fresh' = fresh + 1 /\ fresh' \in Gens /\ fresh \in Nat
    BY <1>1, QueueAssumption DEF QueueAssumption, Renew, TypeOK, Gens
  <2>2. [content |-> c, dead |-> dead, gen |-> fresh'] \in Chunk
    BY <2>1 DEF Chunk
  <2>3. chunk' \in [Ids -> Chunk \union {Absent}] /\ vector' \in [Ids -> Vector \union {Absent}]
    BY <1>1, <2>2 DEF Renew, TypeOK
  <2>4. \A x \in Ids : version[x] \in Nat /\ version'[x] <= version[x] + 1 /\ version'[x] \in Nat
    BY <1>1, QueueAssumption DEF QueueAssumption, TypeOK, Gens
  <2>5. \A x \in Ids : version'[x] <= fresh'
    BY <2>1, <2>4
  <2>6. version' \in [Ids -> Gens]
    BY <1>1, <2>1, <2>4, <2>5, QueueAssumption DEF QueueAssumption, TypeOK, Gens
  <2> QED BY <2>1, <2>3, <2>5, <2>6
<1>2. ASSUME NEW id \in Ids, NEW c \in Contents, StoreChunk(id, c)
      PROVE  /\ chunk' \in [Ids -> Chunk \union {Absent}]
             /\ vector' \in [Ids -> Vector \union {Absent}]
             /\ fresh' \in Gens
             /\ version' \in [Ids -> Gens]
             /\ \A x \in Ids : version'[x] <= fresh'
  <2>1. CASE Changed(id, c)
    BY <1>1, <1>2, <2>1 DEF StoreChunk
  <2>2. CASE ~Changed(id, c)
    <3>1. Live(id) /\ chunk[id].content = c /\ chunk[id] \in Chunk
      BY <2>2 DEF Changed, Live, TypeOK
    <3>2. version' = version /\ fresh' = fresh /\ vector' = vector
      BY <1>2, <2>2, <3>1 DEF StoreChunk, Rewrite
    <3>3. [content |-> c, dead |-> FALSE, gen |-> chunk[id].gen] \in Chunk
      BY <3>1 DEF Chunk
    <3>4. chunk' \in [Ids -> Chunk \union {Absent}]
      BY <1>2, <2>2, <3>1, <3>3 DEF StoreChunk, Rewrite, Live, TypeOK
    <3> QED BY <3>2, <3>4 DEF TypeOK
  <2> QED BY <2>1, <2>2
<1>3. ASSUME NEW id \in Ids, DeleteById(id)
      PROVE  /\ chunk' \in [Ids -> Chunk \union {Absent}]
             /\ vector' \in [Ids -> Vector \union {Absent}]
             /\ fresh' \in Gens
             /\ version' \in [Ids -> Gens]
             /\ \A x \in Ids : version'[x] <= fresh'
  <2>1. chunk[id].content \in Contents
    BY <1>3 DEF DeleteById, TypeOK, Chunk
  <2> QED BY <1>1, <1>3, <2>1 DEF DeleteById
<1>4. ASSUME NEW id \in Ids, HardDelete(id) \/ DeleteEmbedding(id)
      PROVE  /\ chunk' \in [Ids -> Chunk \union {Absent}]
             /\ vector' \in [Ids -> Vector \union {Absent}]
             /\ fresh' = fresh /\ version' = version
  BY <1>4 DEF HardDelete, DeleteEmbedding, TypeOK
<1>5. UNCHANGED <<work, stop, producer>>
  BY DEF ChunkStep, StoreChunk, DeleteById, HardDelete, DeleteEmbedding
<1> QED BY <1>2, <1>3, <1>4, <1>5 DEF ChunkStep, TypeOK

LEMMA EnqueueTypes ==
    ASSUME TypeOK, NEW p \in Producers, NEW id \in Ids, Enqueue(p, id) \/ Embed(p, id)
    PROVE  TypeOK'
<1>1. Target(id) \in EmbedRequest
  BY RequestType DEF Enqueue, Embed
<1>2. producer' \in [Producers -> Producer \union {Idle}]
  BY <1>1, BecomeTypes DEF Enqueue, Embed
<1>3. pending' \in Int
  BY DEF Enqueue, Embed, work, TypeOK
<1> QED BY <1>2, <1>3 DEF TypeOK, Enqueue, Embed, store, work, stop

LEMMA SendTypes ==
    ASSUME TypeOK, NEW p \in Producers,
           Send(p) \/ SendRefused(p) \/ Uncount(p) \/ PublishOwn(p)
    PROVE  TypeOK'
<1>1. producer[p].pc \in {"send", "refused", "embed"}
  BY DEF Send, SendRefused, Uncount, PublishOwn
<1>2. producer[p].req \in EmbedRequest
  BY <1>1, BusyProducer
<1>3. producer' \in [Producers -> Producer \union {Idle}]
  BY <1>2, BecomeTypes DEF Send, SendRefused, Uncount, PublishOwn
<1>4. CASE Send(p)
  <2>1. queue' \in Seq(EmbedRequest) /\ Len(queue') = Len(queue) + 1
    BY <1>2, <1>4 DEF Send, TypeOK
  <2>2. Len(queue') <= Capacity
    BY <1>4, <2>1, QueueAssumption DEF QueueAssumption, Send, Full, TypeOK
  <2> QED BY <1>3, <1>4, <2>1, <2>2 DEF Send, TypeOK, store, stop
<1>5. CASE SendRefused(p)
  BY <1>3, <1>5 DEF SendRefused, TypeOK, store, work, stop
<1>6. CASE Uncount(p)
  BY <1>3, <1>6 DEF Uncount, TypeOK, store, stop
<1>7. CASE PublishOwn(p)
  <2>1. vector' \in [Ids -> Vector \union {Absent}]
    BY <1>2, <1>7, PublishTypes DEF PublishOwn
  <2> QED BY <1>3, <1>7, <2>1 DEF PublishOwn, TypeOK, work, stop
<1> QED BY <1>4, <1>5, <1>6, <1>7

LEMMA WorkerTypes ==
    ASSUME TypeOK, WorkerStep \/ Notice
    PROVE  TypeOK'
<1>1. CASE Receive
  <2>1. /\ batch' \in Seq(EmbedRequest) /\ Len(batch') = Len(batch) + 1
        /\ queue' \in Seq(EmbedRequest) /\ Len(queue') = Len(queue) - 1
    BY <1>1, QueueTypes DEF Receive, TypeOK
  <2>2. Len(batch') <= BatchSize /\ Len(queue') <= Capacity
    BY <1>1, <2>1, QueueAssumption DEF QueueAssumption, Receive, TypeOK
  <2> QED BY <1>1, <2>1, <2>2 DEF Receive, TypeOK, store, stop
<1>2. CASE Flush
  <2>1. settling' \in 0..BatchSize
    BY <1>2, QueueAssumption DEF QueueAssumption, Flush, TypeOK
  <2> QED BY <1>2, <2>1 DEF Flush, TypeOK, store, stop
<1>3. CASE Settle
  <2>1. vector' \in [Ids -> Vector \union {Absent}]
    BY <1>3, QueueTypes, PublishTypes DEF Settle
  <2>2. batch' \in Seq(EmbedRequest) /\ Len(batch') = Len(batch) - 1
    BY <1>3, QueueTypes DEF Settle, TypeOK
  <2>3. Len(batch') <= BatchSize
    BY <2>2, QueueAssumption DEF QueueAssumption, TypeOK
  <2> QED BY <1>3, <2>1, <2>2, <2>3 DEF Settle, TypeOK, stop
<1>4. CASE Flushed
  <2>1. pending' \in Int /\ settling' \in 0..BatchSize
    BY <1>4, QueueAssumption DEF QueueAssumption, Flushed, Settled, TypeOK
  <2> QED BY <1>4, <2>1 DEF Flushed, TypeOK, store, stop
<1>5. CASE Exit
  BY <1>5 DEF Exit, TypeOK, store, stop
<1>6. CASE Notice
  BY <1>6 DEF Notice, Closed, TypeOK, store
<1> QED BY <1>1, <1>2, <1>3, <1>4, <1>5, <1>6 DEF WorkerStep

LEMMA CloserTypes ==
    ASSUME TypeOK, NEW c \in Closers, CloserStep(c)
    PROVE  TypeOK'
<1>1. signal' \in BOOLEAN /\ handle' \in BOOLEAN
  BY DEF CloserStep, SendSignal, TakeHandle, Join, TypeOK
<1>2. closer' \in [Closers -> {"idle", "sent", "join", "done"}]
  BY DEF CloserStep, SendSignal, TakeHandle, Join, Go, TypeOK
<1> QED BY <1>1, <1>2 DEF CloserStep, SendSignal, TakeHandle, Join, TypeOK, store, work

Typed == TypeOK /\ \A id \in Ids : version[id] <= fresh

LEMMA TypedInit == Init => Typed
<1> SUFFICES ASSUME Init PROVE Typed
  OBVIOUS
<1>1. 0 \in Gens /\ fresh = 0
  BY QueueAssumption DEF QueueAssumption, Init, Gens
<1>2. chunk \in [Ids -> Chunk \union {Absent}]
  BY <1>1 DEF Init, Chunk
<1>3. vector \in [Ids -> Vector \union {Absent}]
  BY <1>1 DEF Init, Vector
<1>4. 0 <= Capacity /\ 0 <= BatchSize /\ 0 \in 0..BatchSize
  BY QueueAssumption DEF QueueAssumption
<1>5. queue \in Seq(EmbedRequest) /\ Len(queue) = 0 /\ batch \in Seq(EmbedRequest) /\ Len(batch) = 0
  BY DEF Init
<1>6. Len(queue) <= Capacity /\ Len(batch) <= BatchSize /\ settling \in 0..BatchSize
  BY <1>4, <1>5 DEF Init
<1>7. version \in [Ids -> Gens] /\ \A id \in Ids : version[id] <= fresh
  BY <1>1 DEF Init
<1>8. /\ producer \in [Producers -> Producer \union {Idle}]
      /\ closer \in [Closers -> {"idle", "sent", "join", "done"}]
  BY DEF Init
<1>9. pending \in Int
  BY DEF Init
<1>10. worker = "collect" /\ signal \in BOOLEAN /\ closing \in BOOLEAN /\ handle \in BOOLEAN
  BY DEF Init
<1> QED BY <1>1, <1>2, <1>3, <1>5, <1>6, <1>7, <1>8, <1>9, <1>10 DEF Typed, TypeOK

LEMMA TypedStep == Typed /\ [Next]_vars => Typed'
<1> SUFFICES ASSUME Typed, [Next]_vars PROVE Typed'
  OBVIOUS
<1>1. CASE ChunkStep
  BY <1>1, ChunkTypes DEF Typed, TypeOK, work, stop
<1>2. ASSUME NEW p \in Producers, ProducerStep(p) PROVE Typed'
  <2>1. TypeOK'
    BY <1>2, EnqueueTypes, SendTypes DEF ProducerStep, Typed
  <2>2. UNCHANGED <<fresh, version>>
    BY <1>2 DEF ProducerStep, Enqueue, Embed, Send, SendRefused, Uncount, PublishOwn, store
  <2> QED BY <2>1, <2>2 DEF Typed
<1>3. CASE WorkerStep \/ Notice
  <2>1. UNCHANGED <<fresh, version>>
    BY <1>3 DEF WorkerStep, Receive, Flush, Settle, Flushed, Exit, Notice, store
  <2> QED BY <1>3, <2>1, WorkerTypes DEF Typed
<1>4. ASSUME NEW c \in Closers, CloserStep(c) PROVE Typed'
  <2>1. UNCHANGED <<fresh, version>>
    BY <1>4 DEF CloserStep, SendSignal, TakeHandle, Join, store
  <2> QED BY <1>4, <2>1, CloserTypes DEF Typed
<1>5. CASE UNCHANGED vars
  BY <1>5 DEF vars, Typed, TypeOK
<1> QED BY <1>1, <1>2, <1>3, <1>4, <1>5 DEF Next

\* The state stays well formed, for every capacity and batch size: the queue and
\* the batch within theirs, the generations within those drawn.
THEOREM TypeCorrect == Spec => []TypeOK
<1>1. Typed => TypeOK
  BY DEF Typed
<1> QED BY <1>1, TypedInit, TypedStep, PTL DEF Spec

-----------------------------------------------------------------------------
(* Vectors *)

\* Whatever request still matches its chunk was captured from this very chunk:
\* a change draws a generation that no request has.
Good(r) == r.gen <= fresh /\ (Current(r) => r.version = version[r.id])

Carried ==
    /\ \A i \in 1..Len(queue) : Good(queue[i])
    /\ \A i \in 1..Len(batch) : Good(batch[i])
    /\ \A p \in Producers : producer[p] # Idle => Good(producer[p].req)

LEMMA TargetGood ==
    ASSUME TypeOK, \A id \in Ids : Live(id) => chunk[id].gen <= fresh,
           NEW id \in Ids, Live(id)
    PROVE  Good(Target(id))
BY DEF Good, Target, Current

\* A change of a chunk under a drawn generation makes the requests for it stale.
LEMMA RenewGood ==
    ASSUME TypeOK, NEW r \in EmbedRequest, Good(r),
           NEW id \in Ids, NEW c, NEW dead, Renew(id, c, dead),
           \A x \in Ids \ {id} : version'[x] = version[x]
    PROVE  Good(r)'
<1>1. fresh' = fresh + 1 /\ fresh \in Nat /\ r.gen \in Nat /\ r.id \in Ids
  BY QueueAssumption DEF QueueAssumption, Renew, TypeOK, Gens, EmbedRequest
<1>2. CASE r.id = id
  <2>1. chunk'[id].gen = fresh'
    BY DEF Renew, TypeOK
  <2>2. ~Current(r)'
    BY <1>1, <1>2, <2>1 DEF Good, Current
  <2> QED BY <1>1, <2>2 DEF Good
<1>3. CASE r.id # id
  <2>1. chunk'[r.id] = chunk[r.id] /\ version'[r.id] = version[r.id]
    BY <1>1, <1>3 DEF Renew, TypeOK
  <2> QED BY <1>1, <2>1 DEF Good, Current, Live
<1> QED BY <1>2, <1>3

LEMMA StoreUnchanged ==
    ASSUME TypeOK, NEW id \in Ids, NEW c \in Contents, StoreChunk(id, c), ~Changed(id, c)
    PROVE  UNCHANGED <<chunk, vector, fresh, version>>
<1>1. Live(id) /\ chunk[id] \in Chunk /\ chunk[id].content = c /\ chunk[id].dead = FALSE
  BY DEF Changed, Live, TypeOK, Chunk
<1>2. [content |-> c, dead |-> FALSE, gen |-> chunk[id].gen] = chunk[id]
  BY <1>1 DEF Chunk
<1>3. chunk' = chunk
  BY <1>1, <1>2 DEF StoreChunk, Rewrite, Live, TypeOK
<1> QED BY <1>1, <1>3 DEF StoreChunk, Rewrite

\* The four operations on a chunk, by what they do to it.
LEMMA ChunkSteps ==
    ASSUME TypeOK, ChunkStep
    PROVE  \/ UNCHANGED store
           \/ \E id \in Ids, c \in Contents, dead \in BOOLEAN :
                 /\ Renew(id, c, dead)
                 /\ \A x \in Ids \ {id} : version'[x] = version[x]
           \/ \E id \in Ids : /\ chunk' \in {chunk, [chunk EXCEPT ![id] = Absent]}
                              /\ vector' = [vector EXCEPT ![id] = Absent]
                              /\ UNCHANGED <<fresh, version>>
<1>1. ASSUME NEW id \in Ids, NEW c \in Contents, StoreChunk(id, c), Changed(id, c)
      PROVE  /\ Renew(id, c, FALSE)
             /\ \A x \in Ids \ {id} : version'[x] = version[x]
  BY <1>1 DEF StoreChunk, TypeOK
<1>2. ASSUME NEW id \in Ids, NEW c \in Contents, StoreChunk(id, c), ~Changed(id, c)
      PROVE  UNCHANGED store
  BY <1>2, StoreUnchanged DEF store
<1>3. ASSUME NEW id \in Ids, DeleteById(id)
      PROVE  /\ chunk[id].content \in Contents
             /\ Renew(id, chunk[id].content, TRUE)
             /\ \A x \in Ids \ {id} : version'[x] = version[x]
  BY <1>3 DEF DeleteById, TypeOK, Chunk
<1>4. ASSUME NEW id \in Ids, HardDelete(id) \/ DeleteEmbedding(id)
      PROVE  /\ chunk' \in {chunk, [chunk EXCEPT ![id] = Absent]}
             /\ vector' = [vector EXCEPT ![id] = Absent]
             /\ UNCHANGED <<fresh, version>>
  BY <1>4 DEF HardDelete, DeleteEmbedding
<1> QED BY <1>1, <1>2, <1>3, <1>4 DEF ChunkStep

LEMMA ChunkGood ==
    ASSUME TypeOK, ChunkStep, NEW r \in EmbedRequest, Good(r)
    PROVE  Good(r)'
<1>1. CASE UNCHANGED store
  BY <1>1 DEF store, Good, Current, Live
<1>2. ASSUME NEW id \in Ids, chunk' \in {chunk, [chunk EXCEPT ![id] = Absent]},
             UNCHANGED <<fresh, version>>
      PROVE  Good(r)'
  <2>1. r.id \in Ids
    BY DEF EmbedRequest
  <2>2. chunk'[r.id] = chunk[r.id] \/ chunk'[r.id] = Absent
    BY <1>2, <2>1 DEF TypeOK
  <2> QED BY <1>2, <2>2 DEF Good, Current, Live
<1> QED BY <1>1, <1>2, ChunkSteps, RenewGood

LEMMA ChunkVector ==
    ASSUME TypeOK, VectorCurrent, ChunkStep
    PROVE  VectorCurrent'
<1>1. CASE UNCHANGED store
  BY <1>1 DEF store, VectorCurrent, Live
<1>2. ASSUME NEW id \in Ids, NEW c \in Contents, NEW dead \in BOOLEAN, Renew(id, c, dead),
             \A x \in Ids \ {id} : version'[x] = version[x]
      PROVE  VectorCurrent'
  <2>1. chunk'[id] # Absent /\ chunk'[id].dead = dead
    <3>1. [content |-> c, dead |-> dead, gen |-> fresh'] \in [content : Contents, dead : BOOLEAN, gen : 0..MaxGen]
      BY <1>2, QueueAssumption DEF QueueAssumption, Renew, TypeOK, Gens
    <3> QED BY <1>2, <3>1, QueueAssumption DEF QueueAssumption, Renew, TypeOK
  <2>2. ~dead => vector'[id] = Absent
    BY <1>2 DEF Renew, TypeOK
  <2>3. \A x \in Ids \ {id} : chunk'[x] = chunk[x] /\ vector'[x] = vector[x]
    BY <1>2 DEF Renew, TypeOK
  <2> QED BY <1>2, <2>1, <2>2, <2>3 DEF VectorCurrent, Live
<1>3. ASSUME NEW id \in Ids, chunk' \in {chunk, [chunk EXCEPT ![id] = Absent]},
             vector' = [vector EXCEPT ![id] = Absent], UNCHANGED <<fresh, version>>
      PROVE  VectorCurrent'
  <2>1. vector'[id] = Absent
    BY <1>3 DEF TypeOK
  <2>2. \A x \in Ids \ {id} : chunk'[x] = chunk[x] /\ vector'[x] = vector[x]
    BY <1>3 DEF TypeOK
  <2> QED BY <1>3, <2>1, <2>2 DEF VectorCurrent, Live
<1> QED BY <1>1, <1>2, <1>3, ChunkSteps

\* What is published is the live chunk's.
LEMMA PublishVector ==
    ASSUME TypeOK, VectorCurrent, NEW r \in EmbedRequest, Good(r),
           Publish(r) \/ UNCHANGED vector, UNCHANGED <<chunk, version>>
    PROVE  VectorCurrent'
<1>1. r.id \in Ids
  BY DEF EmbedRequest
<1>2. CASE vector' = vector
  BY <1>2 DEF VectorCurrent, Live
<1>3. CASE Publish(r) /\ Current(r)
  <2>1. vector'[r.id] = [content |-> chunk[r.id].content, version |-> version[r.id]]
        /\ chunk[r.id] # Absent
    BY <1>1, <1>3 DEF Publish, Current, Good, Live, TypeOK
  <2>2. \A x \in Ids \ {r.id} : vector'[x] = vector[x]
    BY <1>1, <1>3 DEF Publish, TypeOK
  <2> QED BY <2>1, <2>2 DEF VectorCurrent, Live
<1> QED BY <1>2, <1>3 DEF Publish

GensDrawn == \A id \in Ids : Live(id) => chunk[id].gen <= fresh

VInv == TypeOK /\ GensDrawn /\ Carried /\ VectorCurrent

LEMMA ChunkGens ==
    ASSUME TypeOK, GensDrawn, ChunkStep
    PROVE  GensDrawn'
<1>1. CASE UNCHANGED store
  BY <1>1 DEF store, GensDrawn, Live
<1>2. ASSUME NEW id \in Ids, NEW c \in Contents, NEW dead \in BOOLEAN, Renew(id, c, dead)
      PROVE  GensDrawn'
  <2>1. fresh' = fresh + 1 /\ fresh \in Nat
    BY <1>2, QueueAssumption DEF QueueAssumption, Renew, TypeOK, Gens
  <2>2. chunk'[id].gen = fresh'
    BY <1>2 DEF Renew, TypeOK
  <2>3. ASSUME NEW x \in Ids \ {id}, Live(x)' PROVE chunk'[x].gen <= fresh'
    <3>1. chunk'[x] = chunk[x]
      BY <1>2 DEF Renew, TypeOK
    <3>2. Live(x) /\ chunk[x].gen \in Nat
      BY <2>3, <3>1, QueueAssumption DEF QueueAssumption, Live, TypeOK, Chunk, Gens
    <3> QED BY <2>1, <3>1, <3>2 DEF GensDrawn
  <2> QED BY <2>1, <2>2, <2>3 DEF GensDrawn
<1>3. ASSUME NEW id \in Ids, chunk' \in {chunk, [chunk EXCEPT ![id] = Absent]},
             UNCHANGED <<fresh, version>>
      PROVE  GensDrawn'
  <2>1. \A x \in Ids : chunk'[x] = chunk[x] \/ chunk'[x] = Absent
    BY <1>3 DEF TypeOK
  <2> QED BY <1>3, <2>1 DEF GensDrawn, Live
<1> QED BY <1>1, <1>2, <1>3, ChunkSteps

\* A request stays as good as it is while its chunk and version do.
LEMMA GoodStays ==
    ASSUME NEW r, Good(r), UNCHANGED <<chunk, fresh, version>>
    PROVE  Good(r)'
BY DEF Good, Current, Live

LEMMA ProducerGood ==
    ASSUME VInv, NEW p \in Producers, ProducerStep(p)
    PROVE  Carried' /\ VectorCurrent'
<1>1. UNCHANGED <<chunk, fresh, version, batch>>
  BY DEF ProducerStep, Enqueue, Embed, Send, SendRefused, Uncount, PublishOwn, store, work
<1>2. \A r : Good(r) => Good(r)'
  BY <1>1, GoodStays
<1>3. CASE \E id \in Ids : Enqueue(p, id) \/ Embed(p, id)
  <2>1. PICK id \in Ids : Enqueue(p, id) \/ Embed(p, id)
    BY <1>3
  <2>2. Good(Target(id)) /\ queue' = queue /\ vector' = vector
    BY <2>1, TargetGood DEF VInv, GensDrawn, Enqueue, Embed, store, work
  <2>3. \A q \in Producers : \/ producer'[q] = producer[q]
                             \/ producer'[q].req = Target(id)
    BY <2>1 DEF VInv, TypeOK, Enqueue, Embed, Become
  <2> QED BY <1>1, <1>2, <2>2, <2>3 DEF VInv, Carried, VectorCurrent, Live
<1>4. CASE Send(p) \/ SendRefused(p) \/ Uncount(p) \/ PublishOwn(p)
  <2>1. producer[p].pc \in {"send", "refused", "embed"} /\ producer[p] # Idle
    BY <1>4 DEF Send, SendRefused, Uncount, PublishOwn, Idle
  <2>2. Good(producer[p].req) /\ producer[p].req \in EmbedRequest
    BY <2>1, BusyProducer DEF VInv, Carried
  <2>3. \A q \in Producers : \/ producer'[q] = producer[q]
                             \/ producer'[q] = Idle
                             \/ producer'[q].req = producer[p].req
    BY <1>4 DEF VInv, TypeOK, Send, SendRefused, Uncount, PublishOwn, Become, Finish
  <2>4. \A q \in Producers : producer'[q] # Idle => Good(producer'[q].req)
    BY <2>2, <2>3 DEF VInv, Carried
  <2>5. \A i \in 1..Len(queue') : Good(queue'[i])
    <3>1. CASE Send(p)
      <4>1. queue' = Append(queue, producer[p].req) /\ queue \in Seq(EmbedRequest)
        BY <3>1 DEF Send, VInv, TypeOK
      <4>2. \A i \in 1..Len(queue') : (i <= Len(queue) /\ queue'[i] = queue[i])
                                      \/ queue'[i] = producer[p].req
        BY <4>1, <2>2
      <4> QED BY <4>1, <4>2, <2>2 DEF VInv, Carried
    <3>2. CASE queue' = queue
      BY <3>2 DEF VInv, Carried
    <3> QED BY <1>4, <3>1, <3>2 DEF SendRefused, Uncount, PublishOwn, work
  <2>6. VectorCurrent'
    <3>1. CASE PublishOwn(p)
      BY <1>1, <2>2, <3>1, PublishVector DEF PublishOwn, VInv
    <3>2. CASE vector' = vector
      BY <1>1, <3>2 DEF VInv, VectorCurrent, Live
    <3> QED BY <1>4, <3>1, <3>2 DEF Send, SendRefused, Uncount, store
  <2> QED BY <1>1, <1>2, <2>4, <2>5, <2>6 DEF VInv, Carried
<1> QED BY <1>3, <1>4 DEF ProducerStep

LEMMA WorkerGood ==
    ASSUME VInv, WorkerStep \/ Notice
    PROVE  Carried' /\ VectorCurrent'
<1>1. UNCHANGED <<chunk, fresh, version, producer>>
  BY DEF WorkerStep, Receive, Flush, Settle, Flushed, Exit, Notice, store
<1>2. \A r : Good(r) => Good(r)'
  BY <1>1, GoodStays
<1>3. CASE Receive
  <2>1. /\ queue \in Seq(EmbedRequest) /\ queue # <<>> /\ batch \in Seq(EmbedRequest)
        /\ queue' = Tail(queue) /\ batch' = Append(batch, Head(queue)) /\ vector' = vector
    BY <1>3 DEF Receive, VInv, TypeOK, store
  <2>2. Head(queue) = queue[1] /\ 1 \in 1..Len(queue)
    BY <2>1
  <2>3. \A i \in 1..Len(queue') : Good(queue'[i])
    <3>1. \A i \in 1..Len(queue') : i + 1 \in 1..Len(queue) /\ queue'[i] = queue[i + 1]
      BY <2>1
    <3> QED BY <3>1 DEF VInv, Carried
  <2>4. \A i \in 1..Len(batch') : Good(batch'[i])
    <3>1. \A i \in 1..Len(batch') : \/ i \in 1..Len(batch) /\ batch'[i] = batch[i]
                                    \/ batch'[i] = queue[1]
      BY <2>1, <2>2
    <3> QED BY <2>2, <3>1 DEF VInv, Carried
  <2> QED BY <1>1, <1>2, <2>1, <2>3, <2>4 DEF VInv, Carried, VectorCurrent, Live
<1>4. CASE Settle
  <2>1. /\ batch \in Seq(EmbedRequest) /\ batch # <<>> /\ queue' = queue
        /\ batch' = Tail(batch) /\ (Publish(Head(batch)) \/ UNCHANGED vector)
    BY <1>4 DEF Settle, VInv, TypeOK
  <2>2. Head(batch) = batch[1] /\ 1 \in 1..Len(batch) /\ Head(batch) \in EmbedRequest
    BY <2>1
  <2>3. \A i \in 1..Len(batch') : Good(batch'[i])
    <3>1. \A i \in 1..Len(batch') : i + 1 \in 1..Len(batch) /\ batch'[i] = batch[i + 1]
      BY <2>1
    <3> QED BY <3>1 DEF VInv, Carried
  <2>4. VectorCurrent'
    BY <1>1, <2>1, <2>2, PublishVector DEF VInv, Carried
  <2> QED BY <1>1, <1>2, <2>1, <2>3, <2>4 DEF VInv, Carried
<1>5. CASE Flush \/ Flushed \/ Exit \/ Notice
  <2>1. UNCHANGED <<queue, batch, vector>>
    BY <1>5 DEF Flush, Flushed, Exit, Notice, store
  <2> QED BY <1>1, <1>2, <2>1 DEF VInv, Carried, VectorCurrent, Live
<1> QED BY <1>3, <1>4, <1>5 DEF WorkerStep

LEMMA VInvInit == Init => VInv
<1> SUFFICES ASSUME Init PROVE VInv
  OBVIOUS
<1>1. TypeOK
  BY TypedInit DEF Typed
<1>2. GensDrawn
  <2>1. ASSUME NEW id \in Ids, Live(id) PROVE chunk[id].gen = 0
    <3>1. chunk[id] \in [content : Contents, dead : {FALSE}, gen : {0}]
      BY <2>1 DEF Init, Live
    <3> QED BY <3>1
  <2> QED BY <2>1 DEF Init, GensDrawn
<1>3. Carried
  BY DEF Init, Carried
<1>4. ASSUME NEW id \in Ids, vector[id] # Absent
      PROVE  chunk[id] # Absent /\ vector[id] = [content |-> chunk[id].content, version |-> version[id]]
  <2>1. vector[id] \in [content : Contents, version : {0}] /\ version[id] = 0
    BY <1>4 DEF Init
  <2>2. chunk[id] # Absent /\ vector[id].content = chunk[id].content
    BY <1>4 DEF Init
  <2> QED BY <2>1, <2>2
<1> QED BY <1>1, <1>2, <1>3, <1>4 DEF VInv, VectorCurrent

LEMMA VInvStep == VInv /\ TypeOK' /\ [Next]_vars => VInv'
<1> SUFFICES ASSUME VInv, TypeOK', [Next]_vars PROVE VInv'
  OBVIOUS
<1>1. CASE ChunkStep
  <2>1. \A r \in EmbedRequest : Good(r) => Good(r)'
    BY <1>1, ChunkGood DEF VInv
  <2>2. UNCHANGED <<queue, batch, producer>>
    BY <1>1 DEF ChunkStep, StoreChunk, DeleteById, HardDelete, DeleteEmbedding, work
  <2>3. \A p \in Producers : producer[p] # Idle => producer[p].req \in EmbedRequest
    BY DEF VInv, TypeOK, Producer
  <2>4. Carried'
    BY <2>1, <2>2, <2>3, QueueTypes DEF VInv, Carried
  <2> QED BY <1>1, <2>4, ChunkGens, ChunkVector DEF VInv
<1>2. CASE (\E p \in Producers : ProducerStep(p)) \/ WorkerStep \/ Notice
  <2>1. UNCHANGED <<chunk, fresh>>
    BY <1>2 DEF ProducerStep, Enqueue, Embed, Send, SendRefused, Uncount, PublishOwn, WorkerStep,
                Receive, Flush, Settle, Flushed, Exit, Notice, store
  <2>2. GensDrawn'
    BY <2>1 DEF VInv, GensDrawn, Live
  <2> QED BY <1>2, <2>2, ProducerGood, WorkerGood DEF VInv
<1>3. CASE (\E c \in Closers : CloserStep(c)) \/ UNCHANGED vars
  <2>1. UNCHANGED <<chunk, vector, fresh, version, queue, batch, producer>>
    BY <1>3 DEF CloserStep, SendSignal, TakeHandle, Join, store, work, vars
  <2>2. \A r : Good(r) => Good(r)'
    BY <2>1, GoodStays
  <2> QED BY <2>1, <2>2 DEF VInv, GensDrawn, Carried, VectorCurrent, Live
<1> QED BY <1>1, <1>2, <1>3 DEF Next

\* For every number of producers and any interleaving of rewrites, deletions,
\* purges, batches and embeddings outside the queue: no live chunk has a vector
\* of an older version of it or of an earlier chunk of its id.
THEOREM VectorsCurrent == Spec => []VectorCurrent
<1>1. VInv => VectorCurrent
  BY DEF VInv
<1> QED BY <1>1, VInvInit, VInvStep, TypeCorrect, PTL DEF Spec

-----------------------------------------------------------------------------
(* The gauge *)

Sending == {p \in Producers : producer[p].pc \in {"send", "refused"}}
Taken == IF worker = "flush" THEN settling ELSE Len(batch)

GInv == TypeOK /\ IsFiniteSet(Sending) /\ PendingExact

LEMMA ExactIs == PendingExact <=> pending = Len(queue) + Taken + Cardinality(Sending)
BY DEF PendingExact, Sending, Taken

LEMMA SendingBecomes ==
    ASSUME TypeOK, NEW p \in Producers, NEW r, NEW pc \in {"send", "refused", "embed"}
    PROVE  /\ Become(p, pc, r) /\ pc \in {"send", "refused"} => Sending' = Sending \union {p}
           /\ Become(p, "embed", r) /\ producer[p] = Idle => Sending' = Sending
           /\ Finish(p) => Sending' = Sending \ {p}
BY DEF TypeOK, Become, Finish, Sending, Idle

LEMMA ProducerCounts ==
    ASSUME GInv, TypeOK', NEW p \in Producers, ProducerStep(p)
    PROVE  GInv'
<1>1. /\ Len(queue) \in Nat /\ Taken \in Nat /\ pending \in Int
      /\ Cardinality(Sending) \in Nat /\ IsFiniteSet(Sending)
      /\ pending = Len(queue) + Taken + Cardinality(Sending)
  BY ExactIs, FS_CardinalityType, QueueAssumption DEF QueueAssumption, GInv, TypeOK, Taken
<1>2. Taken' = Taken
  BY DEF ProducerStep, Enqueue, Embed, Send, SendRefused, Uncount, PublishOwn, work, Taken
<1>3. ASSUME NEW id \in Ids, Enqueue(p, id) PROVE GInv'
  <2>1. p \notin Sending /\ Sending' = Sending \union {p}
    BY <1>3, SendingBecomes DEF Enqueue, Sending, Idle, GInv
  <2>2. IsFiniteSet(Sending') /\ Cardinality(Sending') = Cardinality(Sending) + 1
    BY <1>1, <2>1, FS_AddElement
  <2>3. pending' = pending + 1 /\ queue' = queue
    BY <1>3 DEF Enqueue
  <2> QED BY <1>1, <1>2, <2>2, <2>3, ExactIs DEF GInv, PendingExact, Sending, Taken
<1>4. ASSUME NEW id \in Ids, Embed(p, id) PROVE GInv'
  <2>1. Sending' = Sending /\ pending' = pending /\ queue' = queue
    BY <1>4, SendingBecomes DEF Embed, GInv, work
  <2> QED BY <1>1, <1>2, <2>1 DEF GInv, PendingExact, Sending, Taken
<1>5. CASE Send(p)
  <2>1. p \in Sending /\ Sending' = Sending \ {p}
    BY <1>5, SendingBecomes DEF Send, Sending, GInv
  <2>2. IsFiniteSet(Sending') /\ Cardinality(Sending') = Cardinality(Sending) - 1
    BY <1>1, <2>1, FS_RemoveElement
  <2>3. pending' = pending /\ Len(queue') = Len(queue) + 1
    BY <1>5 DEF Send, GInv, TypeOK
  <2> QED BY <1>1, <1>2, <2>2, <2>3 DEF GInv, PendingExact, Sending, Taken
<1>6. CASE SendRefused(p)
  <2>1. p \in Sending /\ Sending' = Sending \union {p} /\ pending' = pending /\ queue' = queue
    BY <1>6, SendingBecomes DEF SendRefused, Sending, GInv, work
  <2>2. Sending' = Sending
    BY <2>1
  <2> QED BY <1>1, <1>2, <2>1, <2>2 DEF GInv, PendingExact, Sending, Taken
<1>7. CASE Uncount(p)
  <2>1. p \in Sending /\ Sending' = Sending \ {p}
    BY <1>7, SendingBecomes DEF Uncount, Sending, GInv
  <2>2. IsFiniteSet(Sending') /\ Cardinality(Sending') = Cardinality(Sending) - 1
    BY <1>1, <2>1, FS_RemoveElement
  <2>3. pending' = pending - 1 /\ queue' = queue
    BY <1>7 DEF Uncount
  <2> QED BY <1>1, <1>2, <2>2, <2>3 DEF GInv, PendingExact, Sending, Taken
<1>8. CASE PublishOwn(p)
  <2>1. p \notin Sending /\ Sending' = Sending \ {p} /\ pending' = pending /\ queue' = queue
    BY <1>8, SendingBecomes DEF PublishOwn, Sending, GInv, work
  <2>2. Sending' = Sending
    BY <2>1
  <2> QED BY <1>1, <1>2, <2>1, <2>2 DEF GInv, PendingExact, Sending, Taken
<1> QED BY <1>3, <1>4, <1>5, <1>6, <1>7, <1>8 DEF ProducerStep

LEMMA WorkerCounts ==
    ASSUME GInv, TypeOK', WorkerStep \/ Notice
    PROVE  GInv'
<1>1. /\ Len(queue) \in Nat /\ Len(batch) \in Nat /\ settling \in Nat /\ pending \in Int
      /\ Cardinality(Sending) \in Nat /\ Sending' = Sending
      /\ pending = Len(queue) + Taken + Cardinality(Sending)
  BY ExactIs, FS_CardinalityType, QueueAssumption
  DEF QueueAssumption, GInv, TypeOK, Sending, WorkerStep, Receive, Flush, Settle, Flushed, Exit, Notice
<1>2. CASE Receive
  <2>1. Len(queue') = Len(queue) - 1 /\ Len(batch') = Len(batch) + 1 /\ pending' = pending
    BY <1>2 DEF Receive, GInv, TypeOK
  <2>2. worker = "collect" /\ worker' = "collect"
    BY <1>2 DEF Receive
  <2>3. Taken = Len(batch) /\ Taken' = Len(batch')
    BY <2>2 DEF Taken
  <2>4. pending' = Len(queue') + Taken' + Cardinality(Sending')
    BY <1>1, <2>1, <2>3
  <2> QED BY <1>1, <2>4 DEF GInv, PendingExact, Sending, Taken
<1>3. CASE Flush
  BY <1>1, <1>3 DEF Flush, GInv, PendingExact, Sending, Taken
<1>4. CASE Settle
  BY <1>1, <1>4 DEF Settle, GInv, PendingExact, Sending, Taken
<1>5. CASE Flushed
  <2>1. /\ pending' = pending - settling /\ worker = "flush" /\ worker' = "collect"
        /\ Len(batch') = 0 /\ queue' = queue
    BY <1>5 DEF Flushed, Settled
  <2>2. Taken = settling /\ Taken' = 0
    BY <2>1 DEF Taken
  <2>3. pending' = Len(queue') + Taken' + Cardinality(Sending')
    BY <1>1, <2>1, <2>2
  <2> QED BY <1>1, <2>3 DEF GInv, PendingExact, Sending, Taken
<1>6. CASE Exit \/ Notice
  <2>1. /\ pending' = pending /\ worker # "flush" /\ worker' # "flush"
        /\ batch' = batch /\ queue' = queue
    BY <1>6 DEF Exit, Notice
  <2> QED BY <1>1, <2>1 DEF GInv, PendingExact, Sending, Taken
<1> QED BY <1>2, <1>3, <1>4, <1>5, <1>6 DEF WorkerStep

LEMMA GInvInit == Init => GInv
<1> SUFFICES ASSUME Init PROVE GInv
  OBVIOUS
<1>1. TypeOK
  BY TypedInit DEF Typed
<1>2. Sending = {}
  BY DEF Init, Sending, Idle
<1>3. pending = 0 /\ Len(queue) = 0 /\ Taken = 0
  BY DEF Init, Taken
<1> QED BY <1>1, <1>2, <1>3, FS_EmptySet, ExactIs DEF GInv

LEMMA GInvStep == GInv /\ TypeOK' /\ [Next]_vars => GInv'
<1> SUFFICES ASSUME GInv, TypeOK', [Next]_vars PROVE GInv'
  OBVIOUS
<1>1. CASE ChunkStep \/ (\E c \in Closers : CloserStep(c)) \/ UNCHANGED vars
  <2>1. UNCHANGED <<queue, batch, settling, pending, worker, producer>>
    BY <1>1 DEF ChunkStep, StoreChunk, DeleteById, HardDelete, DeleteEmbedding, work,
                CloserStep, SendSignal, TakeHandle, Join, vars
  <2> QED BY <2>1 DEF GInv, PendingExact, Sending
<1> QED BY <1>1, ProducerCounts, WorkerCounts DEF Next

\* For every capacity, batch size and number of producers: the gauge is the
\* number of requests in the channel, in the batch and on their way, whatever is
\* refused, fails or becomes obsolete; so it never goes below zero.
THEOREM GaugeExact == Spec => []PendingExact
<1>1. GInv => PendingExact
  BY DEF GInv
<1> QED BY <1>1, GInvInit, GInvStep, TypeCorrect, PTL DEF Spec

-----------------------------------------------------------------------------
(* Shutdown *)

\* Only the caller that took the handle waits, and returns after the worker;
\* the worker ends with nothing in the channel, and nothing gets in any more.
SInv ==
    /\ TypeOK
    /\ \A c \in Closers : closer[c] \in {"idle", "sent"} => handle
    /\ \A c \in Closers : closer[c] = "done" => worker = "done"
    /\ worker = "done" => queue = <<>> /\ batch = <<>>

LEMMA SInvStep ==
    ASSUME \A c, d \in Closers : c = d, SInv, TypeOK', [Next]_vars
    PROVE  SInv'
<1>1. CASE ChunkStep \/ UNCHANGED vars
  <2>1. UNCHANGED <<closer, handle, worker, queue, batch>>
    BY <1>1 DEF ChunkStep, StoreChunk, DeleteById, HardDelete, DeleteEmbedding, work, stop, vars
  <2> QED BY <2>1 DEF SInv
<1>2. ASSUME NEW p \in Producers, ProducerStep(p) PROVE SInv'
  <2>1. UNCHANGED <<closer, handle, worker, batch>>
    BY <1>2 DEF ProducerStep, Enqueue, Embed, Send, SendRefused, Uncount, PublishOwn, work, stop
  <2>2. worker = "done" => queue' = queue
    BY <1>2 DEF ProducerStep, Enqueue, Embed, Send, SendRefused, Uncount, PublishOwn, work,
                Accepting
  <2> QED BY <2>1, <2>2 DEF SInv
<1>3. CASE WorkerStep \/ Notice
  <2>1. UNCHANGED <<closer, handle>> /\ worker # "done"
    BY <1>3 DEF WorkerStep, Receive, Flush, Settle, Flushed, Exit, Notice, stop
  <2>2. worker' = "done" => queue' = <<>> /\ batch' = <<>>
    BY <1>3, <2>1 DEF WorkerStep, Receive, Flush, Settle, Flushed, Exit, Drained, Notice
  <2> QED BY <2>1, <2>2 DEF SInv
<1>4. ASSUME NEW c \in Closers, CloserStep(c) PROVE SInv'
  <2>1. UNCHANGED <<worker, queue, batch>> /\ \A d \in Closers : d = c
    BY <1>4 DEF CloserStep, SendSignal, TakeHandle, Join, work
  <2>2. CASE SendSignal(c)
    BY <2>1, <2>2 DEF SendSignal, Go, SInv, TypeOK
  <2>3. CASE TakeHandle(c)
    <3>1. handle /\ closer'[c] = "join"
      BY <2>3 DEF TakeHandle, Go, SInv, TypeOK
    <3> QED BY <2>1, <3>1 DEF SInv
  <2>4. CASE Join(c)
    <3>1. worker = "done" /\ closer'[c] = "done"
      BY <2>4 DEF Join, Go, SInv, TypeOK
    <3> QED BY <2>1, <3>1 DEF SInv
  <2> QED BY <1>4, <2>2, <2>3, <2>4 DEF CloserStep
<1> QED BY <1>1, <1>2, <1>3, <1>4 DEF Next

LEMMA SInvInit == Init => SInv
BY TypedInit DEF Typed, Init, SInv

\* A single caller of shutdown that returns finds the gauge at zero, up to the
\* requests that are about to be refused.  (A second one would return at once.)
THEOREM ShutdownLeavesZero ==
    ASSUME \A c, d \in Closers : c = d
    PROVE  Spec => []ZeroAfterShutdown
<1>1. SInv /\ TypeOK' /\ [Next]_vars => SInv'
  BY SInvStep
<1>2. SInv /\ GInv => ZeroAfterShutdown
  <2> SUFFICES ASSUME SInv, GInv, NEW c \in Closers, closer[c] = "done"
               PROVE  pending = Cardinality(Sending)
    BY DEF ZeroAfterShutdown, Sending
  <2>1. Len(queue) = 0 /\ Taken = 0
    BY DEF SInv, Taken
  <2>2. Cardinality(Sending) \in Nat
    BY FS_CardinalityType DEF GInv
  <2> QED BY <2>1, <2>2, ExactIs DEF GInv
<1> QED BY <1>1, <1>2, SInvInit, GInvInit, GInvStep, TypeCorrect, PTL DEF Spec

-----------------------------------------------------------------------------
(* Shutdown advances *)

LEMMA Emptier ==
    ASSUME TypeOK
    PROVE  /\ queue # <<>> => Len(Tail(queue)) = Len(queue) - 1 /\ Len(queue) > 0
           /\ batch # <<>> => Len(Tail(batch)) = Len(batch) - 1 /\ Len(batch) > 0
           /\ \A r : Len(Append(batch, r)) = Len(batch) + 1
           /\ Len(queue) \in Nat /\ Len(batch) \in Nat
           /\ batch = <<>> => Len(batch) = 0
BY DEF TypeOK

LEMMA WorkerAdvances ==
    ASSUME TypeOK, WorkerStep
    PROVE  Left' \in 0..(Left - 1)
<1> USE Emptier
<1>1. CASE Receive
  <2>1. /\ worker = "collect" /\ worker' = "collect"
        /\ Len(queue') = Len(queue) - 1 /\ Len(batch') = Len(batch) + 1 /\ Len(queue) > 0
    BY <1>1 DEF Receive
  <2> QED BY <2>1 DEF Left
<1>2. CASE Flush
  <2>1. worker = "collect" /\ worker' = "flush" /\ queue' = queue /\ batch' = batch /\ batch # <<>>
    BY <1>2 DEF Flush
  <2> QED BY <2>1 DEF Left
<1>3. CASE Settle
  <2>1. /\ worker = "flush" /\ worker' = "flush" /\ queue' = queue /\ batch # <<>>
        /\ Len(batch') = Len(batch) - 1 /\ Len(batch) > 0
    BY <1>3 DEF Settle
  <2> QED BY <2>1 DEF Left
<1>4. CASE Flushed
  <2>1. /\ worker = "flush" /\ worker' = "collect" /\ queue' = queue /\ batch' = batch
        /\ batch = <<>>
    BY <1>4 DEF Flushed
  <2> QED BY <2>1 DEF Left
<1>5. CASE Exit
  <2>1. worker = "collect" /\ worker' = "done" /\ queue' = queue /\ batch' = batch
    BY <1>5 DEF Exit
  <2> QED BY <2>1 DEF Left
<1> QED BY <1>1, <1>2, <1>3, <1>4, <1>5 DEF WorkerStep

\* rx.close() and the draining loop after it: from there on the worker cannot be kept
\* from its exit by what is enqueued, whatever the capacity and the number of producers.
THEOREM ShutdownAlwaysAdvances == Spec => ShutdownAdvances
<1>1. ASSUME TypeOK, [Next]_vars, closing
      PROVE  closing' /\ (Moved => Left' \in 0..(Left - 1))
  <2>1. CASE ChunkStep \/ UNCHANGED vars
    BY <1>1, <2>1 DEF ChunkStep, StoreChunk, DeleteById, HardDelete, DeleteEmbedding, work, vars, Moved
  <2>2. ASSUME NEW p \in Producers, ProducerStep(p)
        PROVE  UNCHANGED <<closing, queue, batch, worker>>
    BY <1>1, <2>2 DEF ProducerStep, Enqueue, Embed, Send, SendRefused, Uncount, PublishOwn, work,
       Accepting
  <2>3. CASE WorkerStep
    <3>1. closing' = closing
      BY <2>3 DEF WorkerStep, Receive, Flush, Settle, Flushed, Exit
    <3> QED BY <1>1, <2>3, <3>1, WorkerAdvances
  <2>4. ~Notice
    BY <1>1 DEF Notice
  <2>5. ASSUME NEW c \in Closers, CloserStep(c)
        PROVE  UNCHANGED <<closing, queue, batch, worker>>
    BY <2>5 DEF CloserStep, SendSignal, TakeHandle, Join, work
  <2> QED BY <1>1, <2>1, <2>2, <2>3, <2>4, <2>5 DEF Next, Moved
<1>2. TypeOK /\ [Next]_vars => [closing => closing' /\ (Moved => Left' \in 0..(Left - 1))]_vars
  BY <1>1
<1> QED BY <1>2, TypeCorrect, PTL DEF Spec, ShutdownAdvances
=============================================================================
