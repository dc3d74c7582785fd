------------------------------ MODULE ReadCaches ------------------------------
(***************************************************************************)
(* The two caches in front of retrieval.  A search answers from the query  *)
(* cache, or retrieves and publishes what it found; a task it leaves       *)
(* behind publishes the reranked order later.  An ambient request does the *)
(* same with the ambient cache.  What was retrieved before an invalidation *)
(* must not be published after it: each reader remembers the generation it *)
(* began in.  Handlers that change a memory write RocksDB, then Tantivy,   *)
(* and clear the ambient and then the query cache, in an order of their    *)
(* own; readers run in between.                                            *)
(*                                                                         *)
(* Sources: loomem-core/src/query_cache.rs, ambient/cache.rs;              *)
(* loomem-server/src/handlers/search.rs, search/{cache_policy,cache_hit}.rs,*)
(* ambient.rs, cache_invalidation.rs and the handlers that call it.        *)
(***************************************************************************)
EXTENDS Integers, Sequences, FiniteSets

CONSTANTS
    Mems,        \* memories
    Keys,        \* requests that are cached: their cache keys
    NoKey,       \* a request that bypasses the cache
    Empty,       \* no entry
    Readers,     \* concurrent searches and ambient requests
    Writers,     \* concurrent handlers that change a memory
    Ops,         \* what the handlers do
    MaxEntries,  \* QueryCacheConfig::max_entries
    MaxAmbient,  \* AmbientCache::max_entries
    MaxVersion,  \* bound of the model: contents one memory has had
    MaxClears    \* bound of the model: invalidations after which no handler starts

AllOps == {"store", "update", "api_delete", "purge_chunk", "api_purge",
           "delete", "purge", "mcp_delete", "retire"}
Versions == 0..MaxVersion              \* 0: no content
Result == [Mems -> Versions]           \* which memories, with which content

ASSUME CachesAssumption ==
    /\ NoKey \notin Keys
    /\ Empty \notin Result
    /\ Ops \subseteq AllOps
    /\ MaxEntries \in Nat /\ MaxAmbient \in Nat /\ MaxVersion \in Nat /\ MaxClears \in Nat
    /\ IsFiniteSet(Keys)

VARIABLES
    chunk,         \* RocksDB
    doc,           \* Tantivy: the content found for each memory
    writer,        \* what each handler is doing
    entries,       \* QueryCache
    access_order,  \*   least recently used first
    generation,    \*   invalidations so far
    ambient,       \* AmbientCache
    last_access,   \*   least recently used first
    epoch,         \*   invalidations so far
    reader,        \* what each search or ambient request is doing
    reranks,       \* background reranks that have not finished
    promised,      \* what handlers have answered for
    lost           \* memories whose document a failed index write left behind

store == <<chunk, doc>>
query == <<entries, access_order, generation>>
ambients == <<ambient, last_access, epoch>>
ghosts == <<promised, lost>>
vars == <<store, writer, query, ambients, reader, reranks, ghosts>>

\* A reranked entry has a key of its own.
Slots == Keys \X {"plain", "reranked"}
Plain(k) == <<k, "plain">>
Reranked(k) == <<k, "reranked">>

Chunk == [ver : Versions, state : {"absent", "live", "retired", "deleted"}]

Writer == [op : AllOps, mem : Mems, pc : {"index", "ambient", "query", "ack"}, ok : BOOLEAN]
\* fresh: the content last stored; gone: what is retired or removed; out: what
\* is removed from both stores by a handler that cleared the caches last.
Promise == [fresh : Result, gone : SUBSET Mems, out : SUBSET Mems]
Reader == [op : {"search", "ambient"}, key : Keys \union {NoKey}, gen : Nat,
           pc : {"lookup", "retrieve", "check", "filter", "publish", "answered"},
           got : Result, since : Promise]
Rerank == [key : Keys, gen : Nat, got : Result]
Idle == [pc |-> "idle"]

Nothing == [m \in Mems |-> 0]
Live(m) == chunk[m].state = "live"
Changing(w) == writer[w] # Idle
Reading(r) == reader[r] # Idle
Listed(s) == {s[i] : i \in DOMAIN s}
\* retain: what is listed is listed once.
Without(s, x) ==
    IF x \notin Listed(s) THEN s
    ELSE LET i == CHOOSE j \in DOMAIN s : s[j] = x
         IN  SubSeq(s, 1, i - 1) \o SubSeq(s, i + 1, Len(s))

TypeOK ==
    /\ chunk \in [Mems -> Chunk]
    /\ doc \in Result
    /\ writer \in [Writers -> Writer \union {Idle}]
    /\ entries \in [Slots -> Result \union {Empty}]
    /\ access_order \in Seq(Slots)
    /\ generation \in Nat
    /\ ambient \in [Keys -> Result \union {Empty}]
    /\ last_access \in Seq(Keys)
    /\ epoch \in Nat
    /\ reader \in [Readers -> Reader \union {Idle}]
    /\ reranks \subseteq Rerank
    /\ promised \in Promise
    /\ lost \subseteq Mems

\* A start of the process over what its stores hold: the caches are empty.
Init ==
    /\ \E kept \in SUBSET Mems :
          /\ kept = {} \/ MaxVersion > 0
          /\ chunk = [m \in Mems |-> IF m \in kept THEN [ver |-> 1, state |-> "live"]
                                    ELSE [ver |-> 0, state |-> "absent"]]
          /\ doc = [m \in Mems |-> chunk[m].ver]
    /\ writer = [w \in Writers |-> Idle]
    /\ entries = [s \in Slots |-> Empty]
    /\ access_order = <<>>
    /\ generation = 0
    /\ ambient = [k \in Keys |-> Empty]
    /\ last_access = <<>>
    /\ epoch = 0
    /\ reader = [r \in Readers |-> Idle]
    /\ reranks = {}
    /\ promised = [fresh |-> doc, gone |-> {}, out |-> {}]
    /\ lost = {}

-----------------------------------------------------------------------------
(* Handlers that change a memory *)

\* delete_handler and purge_namespace_handler clear before they touch the
\* index; memory_delete and the writers that retire a chunk never clear.
AfterStore(op) == CASE op \in {"delete", "purge"} -> "ambient"
                    [] op = "retire" -> "ack"
                    [] OTHER -> "index"
AfterIndex(op) == IF op \in {"delete", "purge", "mcp_delete"} THEN "ack" ELSE "ambient"
AfterClear(op) == IF op \in {"delete", "purge"} THEN "index" ELSE "ack"

\* What the handler leaves in RocksDB; its write needs a chunk to work on.
Stored(op, c) ==
    CASE op = "store" -> [ver |-> 1, state |-> "live"]
      [] op = "update" -> [c EXCEPT !.ver = @ + 1]
      [] op = "retire" -> [c EXCEPT !.state = "retired"]
      [] op \in {"purge_chunk", "api_purge", "purge"} -> [c EXCEPT !.state = "absent"]
      [] OTHER -> [c EXCEPT !.state = "deleted"]
Storable(op, c) ==
    CASE op = "store" -> c.ver = 0 /\ MaxVersion > 0
      [] op = "update" -> c.state # "absent" /\ c.ver < MaxVersion
      [] op = "retire" -> c.state = "live"
      [] OTHER -> c.state # "absent"

\* One handler at a time on a memory.
Store(w, op, m) ==
    /\ ~Changing(w)
    /\ \A v \in Writers : Changing(v) => writer[v].mem # m
    /\ Storable(op, chunk[m]) /\ generation < MaxClears
    /\ chunk' = [chunk EXCEPT ![m] = Stored(op, @)]
    /\ writer' = [writer EXCEPT ![w] = [op |-> op, mem |-> m, pc |-> AfterStore(op), ok |-> TRUE]]
    /\ UNCHANGED <<doc, query, ambients, reader, reranks, ghosts>>

\* index_chunk_document adds no document for a tombstone.
Document(m) == IF chunk[m].state \in {"live", "retired"} THEN chunk[m].ver ELSE 0

IndexWrite(w) ==
    /\ Changing(w) /\ writer[w].pc = "index"
    /\ doc' = [doc EXCEPT ![writer[w].mem] = Document(writer[w].mem)]
    /\ writer' = [writer EXCEPT ![w].pc = AfterIndex(writer[w].op)]
    /\ UNCHANGED <<chunk, query, ambients, reader, reranks, ghosts>>

\* What a failed write leaves: an update removes the old document first.  The
\* update, the namespace purge and the handlers that answer 207 go on; the
\* others return the error, without clearing.
IndexFails(w) ==
    /\ Changing(w) /\ writer[w].pc = "index"
    /\ LET op == writer[w].op
           m == writer[w].mem IN
       /\ doc' \in {doc} \union (IF op = "update" THEN {[doc EXCEPT ![m] = 0]} ELSE {})
       /\ lost' = lost \union {m}
       /\ writer' = [writer EXCEPT ![w] =
                        IF op \in {"store", "delete", "purge"} THEN Idle
                        ELSE [@ EXCEPT !.pc = AfterIndex(op), !.ok = FALSE]]
    /\ UNCHANGED <<chunk, query, ambients, reader, reranks, promised>>

\* (Wrong: the entries go, the generation stays.)
ClearEntries(w) ==
    /\ Changing(w) /\ writer[w].pc = "ambient"
    /\ ambient' = [k \in Keys |-> Empty]
    /\ last_access' = <<>>
    /\ writer' = [writer EXCEPT ![w].pc = "query"]
    /\ UNCHANGED <<store, query, epoch, reader, reranks, ghosts>>

ClearAmbient(w) ==
    /\ Changing(w) /\ writer[w].pc = "ambient"
    /\ ambient' = [k \in Keys |-> Empty]
    /\ last_access' = <<>>
    /\ epoch' = epoch + 1
    /\ writer' = [writer EXCEPT ![w].pc = "query"]
    /\ UNCHANGED <<store, query, reader, reranks, ghosts>>

ClearQuery(w) ==
    /\ Changing(w) /\ writer[w].pc = "query"
    /\ entries' = [s \in Slots |-> Empty]
    /\ access_order' = <<>>
    /\ generation' = generation + 1
    /\ writer' = [writer EXCEPT ![w].pc = AfterClear(writer[w].op)]
    /\ UNCHANGED <<store, ambients, reader, reranks, ghosts>>

\* The handler's answer.  promised records what it gives its word for.
Promises(op, m, ok) ==
    CASE op \in {"store", "update"} ->
            [promised EXCEPT !.fresh[m] = IF ok THEN chunk[m].ver ELSE @]
      [] op \in {"api_delete", "purge_chunk", "api_purge"} /\ ok ->
            [promised EXCEPT !.gone = @ \union {m}, !.out = @ \union {m}]
      [] OTHER -> [promised EXCEPT !.gone = @ \union {m}]

Acknowledge(w) ==
    /\ Changing(w) /\ writer[w].pc = "ack"
    /\ promised' = Promises(writer[w].op, writer[w].mem, writer[w].ok)
    /\ writer' = [writer EXCEPT ![w] = Idle]
    /\ UNCHANGED <<store, query, ambients, reader, reranks, lost>>

-----------------------------------------------------------------------------
(* QueryCache *)

Held == {s \in Slots : entries[s] # Empty}

\* insert evicts the least recently used while the cache is full, whether or
\* not the slot is in it.
RoomAfter(n) ==
    \/ Cardinality(Held \ Listed(SubSeq(access_order, 1, n))) < MaxEntries
    \/ n = Len(access_order)
\* (Wrong: the slot is not taken from its old place in the list.)
InsertAgain(slot, got) ==
    \E n \in 0..Len(access_order) :
        /\ RoomAfter(n) /\ \A i \in 0..(n - 1) : ~RoomAfter(i)
        /\ entries' = [s \in Slots |->
                          IF s = slot THEN got
                          ELSE IF s \in Listed(SubSeq(access_order, 1, n)) THEN Empty
                          ELSE entries[s]]
        /\ access_order' = Append(SubSeq(access_order, n + 1, Len(access_order)), slot)
        /\ UNCHANGED generation
Insert(slot, got) ==
    \E n \in 0..Len(access_order) :
        /\ RoomAfter(n) /\ \A i \in 0..(n - 1) : ~RoomAfter(i)
        /\ entries' = [s \in Slots |->
                          IF s = slot THEN got
                          ELSE IF s \in Listed(SubSeq(access_order, 1, n)) THEN Empty
                          ELSE entries[s]]
        /\ access_order' =
              Append(Without(SubSeq(access_order, n + 1, Len(access_order)), slot), slot)
        /\ UNCHANGED generation

\* (Wrong: published whatever was cleared since.)
InsertAnyway(slot, gen, got) == Insert(slot, got)
InsertIfCurrent(slot, gen, got) ==
    IF gen = generation THEN Insert(slot, got) ELSE UNCHANGED query

\* get_best: the reranked entry, else the plain one.  Entries that have
\* outlived the TTL are dropped when they are looked at.
GetReranked(k, got) ==
    /\ entries[Reranked(k)] = got
    /\ access_order' = Append(Without(access_order, Reranked(k)), Reranked(k))
    /\ UNCHANGED <<entries, generation>>
GetPlain(k, got) ==
    /\ entries[Plain(k)] = got
    /\ entries' = [entries EXCEPT ![Reranked(k)] = Empty]
    /\ access_order' = Append(Without(Without(access_order, Reranked(k)), Plain(k)), Plain(k))
    /\ UNCHANGED generation
GetNone(k) ==
    /\ entries' = [entries EXCEPT ![Reranked(k)] = Empty, ![Plain(k)] = Empty]
    /\ access_order' = Without(Without(access_order, Reranked(k)), Plain(k))
    /\ UNCHANGED generation

-----------------------------------------------------------------------------
(* Readers *)

Reads(r, op, pc) == Reading(r) /\ reader[r].op = op /\ reader[r].pc = pc
Goes(r, pc) == reader' = [reader EXCEPT ![r].pc = pc]
Gets(r, pc, got) == reader' = [reader EXCEPT ![r].pc = pc, ![r].got = got]

\* A bypassing request looks nothing up and publishes nothing.
Begin(r, op, key) ==
    /\ ~Reading(r)
    /\ reader' = [reader EXCEPT ![r] =
          [op |-> op, key |-> key, gen |-> IF op = "search" THEN generation ELSE epoch,
           pc |-> IF key = NoKey THEN "retrieve" ELSE "lookup",
           got |-> Nothing, since |-> promised]]
    /\ UNCHANGED <<store, writer, query, ambients, reranks, ghosts>>

Hit(r) ==
    /\ Reads(r, "search", "lookup")
    /\ \E got \in Result :
          /\ GetReranked(reader[r].key, got) \/ GetPlain(reader[r].key, got)
          /\ Gets(r, "check", got)
    /\ UNCHANGED <<store, writer, ambients, reranks, ghosts>>

Miss(r) ==
    /\ Reads(r, "search", "lookup")
    /\ GetNone(reader[r].key)
    /\ Goes(r, "retrieve")
    /\ UNCHANGED <<store, writer, ambients, reranks, ghosts>>

\* (Wrong: tombstones are not looked at.)
VisibleIfStored(got) ==
    [m \in Mems |-> IF chunk[m].state \in {"live", "deleted"} THEN got[m] ELSE 0]

\* A result is kept if its chunk is there, not deleted and not superseded.
Visible(got) == [m \in Mems |-> IF Live(m) THEN got[m] ELSE 0]

Check(r) ==
    /\ Reads(r, "search", "check")
    /\ Gets(r, "answered", Visible(reader[r].got))
    /\ UNCHANGED <<store, writer, query, ambients, reranks, ghosts>>

Retrieve(r) ==
    /\ Reads(r, "search", "retrieve")
    /\ Gets(r, "filter", doc)
    /\ UNCHANGED <<store, writer, query, ambients, reranks, ghosts>>

\* (Wrong: reranks for requests that are not cached.)
FilterAndRerank(r) ==
    /\ Reads(r, "search", "filter")
    /\ LET got == Visible(reader[r].got) IN
       /\ Gets(r, "publish", got)
       /\ reranks' = reranks \union
             {[key |-> reader[r].key, gen |-> reader[r].gen, got |-> got]}
    /\ UNCHANGED <<store, writer, query, ambients, ghosts>>

\* The filters, then the rerank if there is something to rerank and it is on.
Filter(r) ==
    /\ Reads(r, "search", "filter")
    /\ LET got == Visible(reader[r].got) IN
       /\ Gets(r, "publish", got)
       /\ \/ UNCHANGED reranks
          \/ /\ got # Nothing /\ reader[r].key # NoKey
             /\ reranks' = reranks \union
                   {[key |-> reader[r].key, gen |-> reader[r].gen, got |-> got]}
    /\ UNCHANGED <<store, writer, query, ambients, ghosts>>

\* Not published: a response that had to fall back.
Publish(r) ==
    /\ Reads(r, "search", "publish")
    /\ Goes(r, "answered")
    /\ \/ UNCHANGED query
       \/ /\ reader[r].key # NoKey
          /\ InsertIfCurrent(Plain(reader[r].key), reader[r].gen, reader[r].got)
    /\ UNCHANGED <<store, writer, ambients, reranks, ghosts>>

PublishReranked(j) ==
    /\ InsertIfCurrent(Reranked(j.key), j.gen, j.got)
    /\ reranks' = reranks \ {j}
    /\ UNCHANGED <<store, writer, ambients, reader, ghosts>>

RerankFails(j) ==
    /\ reranks' = reranks \ {j}
    /\ UNCHANGED <<store, writer, query, ambients, reader, ghosts>>

Answer(r) ==
    /\ Reading(r) /\ reader[r].pc = "answered"
    /\ reader' = [reader EXCEPT ![r] = Idle]
    /\ UNCHANGED <<store, writer, query, ambients, reranks, ghosts>>

-----------------------------------------------------------------------------
(* AmbientCache *)

Cached == {k \in Keys : ambient[k] # Empty}

\* (Wrong: nothing is evicted.)
PutUnbounded(key, gen, got) ==
    IF gen # epoch THEN UNCHANGED ambients
    ELSE /\ ambient' = [ambient EXCEPT ![key] = got]
         /\ last_access' = Append(Without(last_access, key), key)
         /\ UNCHANGED epoch

\* put_if_current makes room only for a key that is not there.
PutIfCurrent(key, gen, got) ==
    IF gen # epoch THEN UNCHANGED ambients
    ELSE LET full == Cardinality(Cached) >= MaxAmbient /\ key \notin Cached /\ Cached # {}
             oldest == Head(last_access) IN
         /\ ambient' = [k \in Keys |-> IF k = key THEN got
                                       ELSE IF full /\ k = oldest THEN Empty ELSE ambient[k]]
         /\ last_access' = Append(Without(IF full THEN Tail(last_access) ELSE last_access, key), key)
         /\ UNCHANGED epoch

\* What is cached is served as it is.
HitAmbient(r) ==
    /\ Reads(r, "ambient", "lookup")
    /\ ambient[reader[r].key] # Empty
    /\ Gets(r, "answered", ambient[reader[r].key])
    /\ last_access' = Append(Without(last_access, reader[r].key), reader[r].key)
    /\ UNCHANGED <<store, writer, query, ambient, epoch, reranks, ghosts>>

\* Absent, or expired.
MissAmbient(r) ==
    /\ Reads(r, "ambient", "lookup")
    /\ ambient' = [ambient EXCEPT ![reader[r].key] = Empty]
    /\ last_access' = Without(last_access, reader[r].key)
    /\ Goes(r, "retrieve")
    /\ UNCHANGED <<store, writer, query, epoch, reranks, ghosts>>

\* The index alone decides what is found.  A pipeline that fails or runs into
\* the timeout leaves a degraded response, which is published like any other.
RetrieveAmbient(r) ==
    /\ Reads(r, "ambient", "retrieve")
    /\ \E got \in {doc, Nothing} : Gets(r, "publish", got)
    /\ UNCHANGED <<store, writer, query, ambients, reranks, ghosts>>

PublishAmbient(r) ==
    /\ Reads(r, "ambient", "publish")
    /\ Goes(r, "answered")
    /\ IF reader[r].key = NoKey THEN UNCHANGED ambients
       ELSE PutIfCurrent(reader[r].key, reader[r].gen, reader[r].got)
    /\ UNCHANGED <<store, writer, query, reranks, ghosts>>

-----------------------------------------------------------------------------
HandlerStep(w) ==
    \/ \E op \in Ops, m \in Mems : Store(w, op, m)
    \/ IndexWrite(w) \/ IndexFails(w) \/ ClearAmbient(w) \/ ClearQuery(w) \/ Acknowledge(w)

SearchStep(r) ==
    Hit(r) \/ Miss(r) \/ Check(r) \/ Retrieve(r) \/ Filter(r) \/ Publish(r)

AmbientStep(r) ==
    HitAmbient(r) \/ MissAmbient(r) \/ RetrieveAmbient(r) \/ PublishAmbient(r)

Next ==
    \/ \E w \in Writers : HandlerStep(w)
    \/ \E r \in Readers :
          \/ \E op \in {"search", "ambient"}, key \in Keys \union {NoKey} : Begin(r, op, key)
          \/ SearchStep(r) \/ AmbientStep(r) \/ Answer(r)
    \/ \E j \in reranks : PublishReranked(j) \/ RerankFails(j)

Spec == Init /\ [][Next]_vars

-----------------------------------------------------------------------------
(* Properties *)

Answered(r, op) == Reads(r, op, "answered")

\* The query cache evicts by access_order: what the map holds and what the
\* list names are the same, once each, and never more than the configured
\* number (one, if that number is zero).
CacheAccounted ==
    /\ Listed(access_order) = Held
    /\ \A i, j \in DOMAIN access_order : access_order[i] = access_order[j] => i = j
    /\ Cardinality(Held) <= IF MaxEntries = 0 THEN 1 ELSE MaxEntries

\* The same of the ambient cache.
AmbientAccounted ==
    /\ Listed(last_access) = Cached
    /\ \A i, j \in DOMAIN last_access : last_access[i] = last_access[j] => i = j
    /\ Cardinality(Cached) <= IF MaxAmbient = 0 THEN 1 ELSE MaxAmbient

\* A search that begins after a store or an update was acknowledged finds that
\* content or a later one: neither an older entry nor a retrieval or a rerank
\* that was under way comes between (unless the memory was since retired or
\* removed, or a failed index write left its document behind).
SearchReadsWrites ==
    \A r \in Readers : Answered(r, "search") =>
        \A m \in Mems : Live(m) /\ m \notin lost => reader[r].got[m] >= reader[r].since.fresh[m]

\* A search that begins after a removal or a supersede was acknowledged does
\* not show the memory, cached or not, whatever order the handler cleared in.
SearchHidesRemoved ==
    \A r \in Readers : Answered(r, "search") =>
        \A m \in reader[r].since.gone : reader[r].got[m] = 0

\* An ambient response, though served as cached, shows no memory that a handler
\* had removed from both stores before it cleared the caches, and no content
\* older than what had been acknowledged.
AmbientCurrent ==
    \A r \in Readers : Answered(r, "ambient") =>
        \A m \in Mems :
            /\ m \in reader[r].since.out => reader[r].got[m] = 0
            /\ reader[r].got[m] # 0 /\ m \notin lost =>
                  reader[r].got[m] >= reader[r].since.fresh[m]

\* ambient/cache.rs:196: "a deleted source cannot repopulate cleared cache".
AmbientForgets ==
    \A r \in Readers : Answered(r, "ambient") =>
        \A m \in reader[r].since.gone : reader[r].got[m] = 0

=============================================================================
