---------------------------- MODULE MCReadCaches ----------------------------
\* ReadCaches for TLC.
EXTENDS ReadCaches, TLC

Symmetry == Permutations(Mems) \union Permutations(Keys) \union Permutations(Readers)
            \union Permutations(Writers)

\* The two caches meet only in the handlers: one of them is in use at a time.
SearchInUse == Held # {} \/ reranks # {} \/ \E r \in Readers : Reading(r) /\ reader[r].op = "search"
AmbientInUse == Cached # {} \/ \E r \in Readers : Reading(r) /\ reader[r].op = "ambient"
OneInUse == ~(SearchInUse /\ AmbientInUse)

\* Bound of the model: reranks under way at a time.
OneRerank == Cardinality(reranks) <= 1

=============================================================================
