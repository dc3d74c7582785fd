--------------------------- MODULE ReadCachesProofs ---------------------------
(***************************************************************************)
(* Theorems about ReadCaches: what the caches hold and what is answered    *)
(* from them, for any number of memories, requests, readers, handlers,     *)
(* versions and entries.                                                   *)
(***************************************************************************)
EXTENDS ReadCaches, FiniteSetTheorems, SequenceTheorems, TLAPS

-----------------------------------------------------------------------------
(* The lists of least recently used entries *)

\* What is listed is listed once.
Once(s) == \A i, j \in DOMAIN s : s[i] = s[j] => i = j

LEMMA ListedAt ==
    ASSUME NEW S, NEW s \in Seq(S)
    PROVE  /\ DOMAIN s = 1..Len(s) /\ Len(s) \in Nat
           /\ \A i \in 1..Len(s) : s[i] \in S
           /\ Listed(s) = {s[i] : i \in 1..Len(s)}
           /\ Listed(s) \subseteq S
<1>1. DOMAIN s = 1..Len(s) /\ Len(s) \in Nat
    BY LenProperties
<1>2. \A i \in 1..Len(s) : s[i] \in S
    BY ElementOfSeq
<1>3. Listed(s) = {s[i] : i \in 1..Len(s)}
    BY <1>1 DEF Listed
<1> QED
    BY <1>1, <1>2, <1>3

\* What is left of a list without its first n entries.
LEMMA Suffix ==
    ASSUME NEW S, NEW s \in Seq(S), Once(s), NEW n \in 0..Len(s)
    PROVE  LET p == SubSeq(s, 1, n)
               q == SubSeq(s, n + 1, Len(s)) IN
           /\ q \in Seq(S)
           /\ Once(q)
           /\ Listed(p) \subseteq Listed(s)
           /\ Listed(q) = Listed(s) \ Listed(p)
           /\ n = Len(s) => Listed(q) = {}
<1> DEFINE p == SubSeq(s, 1, n)
           q == SubSeq(s, n + 1, Len(s))
<1>1. /\ DOMAIN s = 1..Len(s) /\ Len(s) \in Nat
      /\ \A i \in 1..Len(s) : s[i] \in S
      /\ Listed(s) = {s[i] : i \in 1..Len(s)}
    BY ListedAt
<1>2. n \in Int /\ n + 1 \in Int /\ Len(s) \in Int
    BY <1>1
<1>3. /\ p \in Seq(S) /\ Len(p) = n /\ \A i \in 1..n : p[i] = s[i]
    <2>1. \A i \in 1..n : s[i] \in S
        BY <1>1
    <2>2. /\ p \in Seq(S)
          /\ Len(p) = IF 1 <= n THEN n - 1 + 1 ELSE 0
          /\ \A i \in 1..(n - 1 + 1) : p[i] = s[1 + i - 1]
        BY <2>1, <1>2, SubSeqProperties
    <2> QED
        BY <2>2, <1>2
<1>4. /\ q \in Seq(S) /\ Len(q) = Len(s) - n /\ \A i \in 1..(Len(s) - n) : q[i] = s[n + i]
    <2>1. \A i \in (n + 1)..Len(s) : s[i] \in S
        BY <1>1
    <2>2. /\ q \in Seq(S)
          /\ Len(q) = IF n + 1 <= Len(s) THEN Len(s) - (n + 1) + 1 ELSE 0
          /\ \A i \in 1..(Len(s) - (n + 1) + 1) : q[i] = s[(n + 1) + i - 1]
        BY <2>1, <1>2, SubSeqProperties
    <2> HIDE DEF q
    <2>3. Len(s) - (n + 1) + 1 = Len(s) - n
        BY <1>1
    <2>4. Len(q) = Len(s) - n
        <3>1. CASE n + 1 <= Len(s)
            BY <3>1, <2>2, <2>3
        <3>2. CASE ~(n + 1 <= Len(s))
            <4>1. Len(q) = 0
                BY <3>2, <2>2
            <4>2. n <= Len(s)
                BY <1>2
            <4>3. Len(s) - n = 0
                BY <3>2, <4>2, <1>2
            <4> QED
                BY <4>1, <4>3
        <3> QED
            BY <3>1, <3>2
    <2>5. ASSUME NEW i \in 1..(Len(s) - n)
          PROVE  q[i] = s[n + i]
        <3>1. (n + 1) + i - 1 = n + i
            BY <1>1
        <3> QED
            BY <2>2, <2>3, <3>1
    <2> QED
        BY <2>2, <2>4, <2>5
<1>5. DOMAIN p = 1..n /\ DOMAIN q = 1..(Len(s) - n)
    BY <1>3, <1>4, LenProperties
<1>6. Once(q)
    <2> SUFFICES ASSUME NEW i \in 1..(Len(s) - n), NEW j \in 1..(Len(s) - n), q[i] = q[j]
                 PROVE  i = j
        BY <1>5 DEF Once
    <2>1. n + i \in DOMAIN s /\ n + j \in DOMAIN s
        BY <1>1
    <2>2. s[n + i] = s[n + j]
        BY <1>4
    <2>3. n + i = n + j
        BY <2>1, <2>2 DEF Once
    <2> QED
        BY <2>3
<1>7. Listed(p) = {s[i] : i \in 1..n}
    BY <1>3, <1>5 DEF Listed
<1>8. Listed(q) = {s[n + i] : i \in 1..(Len(s) - n)}
    BY <1>4, <1>5 DEF Listed
<1>9. Listed(p) \subseteq Listed(s)
    BY <1>7, <1>1
<1>10. ASSUME NEW x \in Listed(q)
       PROVE  x \in Listed(s) \ Listed(p)
    <2>1. PICK i \in 1..(Len(s) - n) : x = s[n + i]
        BY <1>8
    <2>2. n + i \in 1..Len(s) /\ n + i > n
        BY <1>1
    <2>3. ASSUME NEW j \in 1..n, x = s[j]
          PROVE  FALSE
        <3>1. j \in DOMAIN s /\ n + i \in DOMAIN s
            BY <1>1, <2>2
        <3>2. j = n + i
            BY <3>1, <2>1, <2>3 DEF Once
        <3> QED
            BY <3>2, <2>2
    <2> QED
        BY <2>1, <2>2, <2>3, <1>1, <1>7
<1>11. ASSUME NEW x \in Listed(s), x \notin Listed(p)
       PROVE  x \in Listed(q)
    <2>1. PICK i \in 1..Len(s) : x = s[i]
        BY <1>1
    <2>2. ~(i \in 1..n)
        BY <2>1, <1>7, <1>11
    <2>3. i - n \in 1..(Len(s) - n) /\ n + (i - n) = i
        BY <2>2, <1>1
    <2> QED
        BY <2>1, <2>3, <1>8
<1>12. n = Len(s) => Listed(q) = {}
    BY <1>8, <1>1
<1> QED
    BY <1>4, <1>6, <1>9, <1>10, <1>11, <1>12

\* retain.
LEMMA WithoutOne ==
    ASSUME NEW S, NEW s \in Seq(S), Once(s), NEW x
    PROVE  /\ Without(s, x) \in Seq(S)
           /\ Once(Without(s, x))
           /\ Listed(Without(s, x)) = Listed(s) \ {x}
<1>1. CASE x \notin Listed(s)
    BY <1>1 DEF Without
<1>2. CASE x \in Listed(s)
    <2> DEFINE i == CHOOSE j \in DOMAIN s : s[j] = x
               p == SubSeq(s, 1, i - 1)
               q == SubSeq(s, i + 1, Len(s))
               w == p \o q
    <2>1. /\ DOMAIN s = 1..Len(s) /\ Len(s) \in Nat
          /\ \A j \in 1..Len(s) : s[j] \in S
          /\ Listed(s) = {s[j] : j \in 1..Len(s)}
        BY ListedAt
    <2>2. i \in 1..Len(s) /\ s[i] = x
        BY <1>2, <2>1
    <2>3. Without(s, x) = w
        BY <1>2 DEF Without
    <2> HIDE DEF i
    <2>4. i - 1 \in 0..Len(s) /\ i \in 0..Len(s) /\ i - 1 \in Int /\ i + 1 \in Int /\ Len(s) \in Int
        BY <2>1, <2>2
    <2>5. /\ p \in Seq(S) /\ Len(p) = i - 1 /\ \A j \in 1..(i - 1) : p[j] = s[j]
        <3>1. \A j \in 1..(i - 1) : s[j] \in S
            BY <2>1, <2>4
        <3>2. /\ p \in Seq(S)
              /\ Len(p) = IF 1 <= i - 1 THEN (i - 1) - 1 + 1 ELSE 0
              /\ \A j \in 1..((i - 1) - 1 + 1) : p[j] = s[1 + j - 1]
            BY <3>1, <2>4, SubSeqProperties
        <3> QED
            BY <3>2, <2>4, <2>2
    <2>6. /\ q \in Seq(S) /\ Len(q) = Len(s) - i /\ \A j \in 1..(Len(s) - i) : q[j] = s[i + j]
        <3>1. \A j \in (i + 1)..Len(s) : s[j] \in S
            BY <2>1, <2>4
        <3>2. /\ q \in Seq(S)
              /\ Len(q) = IF i + 1 <= Len(s) THEN Len(s) - (i + 1) + 1 ELSE 0
              /\ \A j \in 1..(Len(s) - (i + 1) + 1) : q[j] = s[(i + 1) + j - 1]
            BY <3>1, <2>4, SubSeqProperties
        <3> QED
            BY <3>2, <2>4, <2>2
    <2> HIDE DEF p, q
    <2>7. /\ w \in Seq(S)
          /\ Len(w) = Len(s) - 1
          /\ \A j \in 1..(Len(s) - 1) : w[j] = IF j < i THEN s[j] ELSE s[j + 1]
        <3>1. /\ w \in Seq(S)
              /\ Len(w) = Len(p) + Len(q)
              /\ \A j \in 1..(Len(p) + Len(q)) : w[j] = IF j <= Len(p) THEN p[j] ELSE q[j - Len(p)]
            BY <2>5, <2>6, ConcatProperties
        <3>2. Len(p) + Len(q) = Len(s) - 1
            BY <2>5, <2>6, <2>1, <2>2
        <3>3. ASSUME NEW j \in 1..(Len(s) - 1)
              PROVE  w[j] = IF j < i THEN s[j] ELSE s[j + 1]
            <4>1. CASE j < i
                <5>1. j \in 1..(i - 1) /\ j <= Len(p)
                    BY <4>1, <2>5, <2>2, <2>1
                <5> QED
                    BY <5>1, <4>1, <3>1, <3>2, <2>5
            <4>2. CASE ~(j < i)
                <5>1. ~(j <= Len(p)) /\ j - Len(p) \in 1..(Len(s) - i) /\ i + (j - Len(p)) = j + 1
                    BY <4>2, <2>5, <2>2, <2>1
                <5>2. w[j] = q[j - Len(p)]
                    BY <5>1, <3>1, <3>2
                <5>3. q[j - Len(p)] = s[i + (j - Len(p))]
                    BY <5>1, <2>6
                <5> QED
                    BY <5>1, <5>2, <5>3, <4>2
            <4> QED
                BY <4>1, <4>2
        <3> QED
            BY <3>1, <3>2, <3>3
    <2> HIDE DEF w
    <2>8. DOMAIN w = 1..(Len(s) - 1) /\ Listed(w) = {w[j] : j \in 1..(Len(s) - 1)}
        BY <2>7, ListedAt
    \* The place in s of what w has at j.
    <2> DEFINE at(j) == IF j < i THEN j ELSE j + 1
    <2>9. \A j \in 1..(Len(s) - 1) : at(j) \in 1..Len(s) /\ at(j) # i /\ w[j] = s[at(j)]
        BY <2>7, <2>1, <2>2
    <2>10. Once(w)
        <3> SUFFICES ASSUME NEW j \in 1..(Len(s) - 1), NEW k \in 1..(Len(s) - 1), w[j] = w[k]
                     PROVE  j = k
            BY <2>8 DEF Once
        <3>1. at(j) = at(k)
            BY <2>9, <2>1 DEF Once
        <3> QED
            BY <3>1, <2>1, <2>2
    <2>11. ASSUME NEW y \in Listed(w)
           PROVE  y \in Listed(s) \ {x}
        <3>1. PICK j \in 1..(Len(s) - 1) : y = w[j]
            BY <2>8
        <3>2. y = s[at(j)] /\ at(j) \in 1..Len(s) /\ at(j) # i
            BY <3>1, <2>9
        <3>3. y # x
            BY <3>2, <2>1, <2>2 DEF Once
        <3> QED
            BY <3>2, <3>3, <2>1
    <2>12. ASSUME NEW y \in Listed(s), y # x
           PROVE  y \in Listed(w)
        <3>1. PICK k \in 1..Len(s) : y = s[k]
            BY <2>1
        <3>2. k # i
            BY <3>1, <2>12, <2>2
        <3>3. CASE k < i
            <4>1. k \in 1..(Len(s) - 1) /\ at(k) = k
                BY <3>3, <2>1, <2>2
            <4> QED
                BY <4>1, <3>1, <2>8, <2>9
        <3>4. CASE k > i
            <4>1. k - 1 \in 1..(Len(s) - 1) /\ at(k - 1) = k
                BY <3>4, <2>1, <2>2
            <4> QED
                BY <4>1, <3>1, <2>8, <2>9
        <3> QED
            BY <3>2, <3>3, <3>4, <2>1, <2>2
    <2> QED
        BY <2>3, <2>7, <2>10, <2>11, <2>12
<1> QED
    BY <1>1, <1>2

\* The entry used last goes to the end.
LEMMA AppendOne ==
    ASSUME NEW S, NEW s \in Seq(S), Once(s), NEW x \in S, x \notin Listed(s)
    PROVE  /\ Append(s, x) \in Seq(S)
           /\ Once(Append(s, x))
           /\ Listed(Append(s, x)) = Listed(s) \union {x}
<1> DEFINE a == Append(s, x)
<1>1. /\ DOMAIN s = 1..Len(s) /\ Len(s) \in Nat
      /\ Listed(s) = {s[i] : i \in 1..Len(s)}
    BY ListedAt
<1>2. /\ a \in Seq(S) /\ Len(a) = Len(s) + 1
      /\ \A i \in 1..Len(s) : a[i] = s[i]
      /\ a[Len(s) + 1] = x
    BY AppendProperties
<1> HIDE DEF a
<1>3. DOMAIN a = 1..(Len(s) + 1) /\ Listed(a) = {a[i] : i \in 1..(Len(s) + 1)}
    BY <1>2, ListedAt
<1>4. \A i \in 1..(Len(s) + 1) : i \in 1..Len(s) \/ i = Len(s) + 1
    BY <1>1
<1>5. 1..Len(s) \subseteq 1..(Len(s) + 1) /\ Len(s) + 1 \in 1..(Len(s) + 1)
    BY <1>1
<1>6. \A i \in 1..Len(s) : a[i] \in Listed(s)
    BY <1>1, <1>2
<1>7. Once(a)
    <2> SUFFICES ASSUME NEW i \in 1..(Len(s) + 1), NEW j \in 1..(Len(s) + 1), a[i] = a[j]
                 PROVE  i = j
        BY <1>3 DEF Once
    <2>1. CASE i \in 1..Len(s) /\ j \in 1..Len(s)
        BY <2>1, <1>1, <1>2 DEF Once
    <2>2. CASE i = Len(s) + 1 \/ j = Len(s) + 1
        BY <2>2, <1>2, <1>4, <1>6
    <2> QED
        BY <2>1, <2>2, <1>4
<1>8. Listed(a) = Listed(s) \union {x}
    BY <1>1, <1>2, <1>3, <1>4, <1>5
<1> QED
    BY <1>2, <1>7, <1>8 DEF a

\* The list without its head.
LEMMA TailOne ==
    ASSUME NEW S, NEW s \in Seq(S), Once(s), s # <<>>
    PROVE  /\ Tail(s) \in Seq(S)
           /\ Once(Tail(s))
           /\ Head(s) \in Listed(s)
           /\ Listed(Tail(s)) = Listed(s) \ {Head(s)}
<1> DEFINE t == Tail(s)
<1>1. /\ DOMAIN s = 1..Len(s) /\ Len(s) \in Nat
      /\ Listed(s) = {s[i] : i \in 1..Len(s)}
    BY ListedAt
<1>2. Head(s) = s[1] /\ 1 \in 1..Len(s)
    BY <1>1, EmptySeq
<1>3. /\ t \in Seq(S) /\ Len(t) = Len(s) - 1
      /\ \A i \in 1..Len(t) : t[i] = s[i + 1]
    BY HeadTailProperties
<1> HIDE DEF t
<1>4. DOMAIN t = 1..(Len(s) - 1) /\ Listed(t) = {t[i] : i \in 1..(Len(s) - 1)}
    BY <1>3, ListedAt
<1>5. \A i \in 1..(Len(s) - 1) : i + 1 \in 1..Len(s) /\ i + 1 # 1 /\ t[i] = s[i + 1]
    BY <1>1, <1>3
<1>6. Once(t)
    <2> SUFFICES ASSUME NEW i \in 1..(Len(s) - 1), NEW j \in 1..(Len(s) - 1), t[i] = t[j]
                 PROVE  i = j
        BY <1>4 DEF Once
    <2>1. i + 1 = j + 1
        BY <1>1, <1>5 DEF Once
    <2> QED
        BY <2>1
<1>7. ASSUME NEW x \in Listed(t)
      PROVE  x \in Listed(s) \ {Head(s)}
    <2>1. PICK i \in 1..(Len(s) - 1) : x = t[i]
        BY <1>4
    <2>2. x = s[i + 1] /\ i + 1 \in 1..Len(s) /\ i + 1 # 1
        BY <2>1, <1>5
    <2>3. x # s[1]
        BY <2>2, <1>1, <1>2 DEF Once
    <2> QED
        BY <2>2, <2>3, <1>1, <1>2
<1>8. ASSUME NEW x \in Listed(s), x # Head(s)
      PROVE  x \in Listed(t)
    <2>1. PICK i \in 1..Len(s) : x = s[i]
        BY <1>1
    <2>2. i # 1
        BY <2>1, <1>2, <1>8
    <2>3. i - 1 \in 1..(Len(s) - 1) /\ (i - 1) + 1 = i
        BY <2>2, <1>1
    <2>4. t[i - 1] = s[i]
        BY <2>3, <1>5
    <2> QED
        BY <2>1, <2>3, <2>4, <1>4
<1> QED
    BY <1>1, <1>2, <1>3, <1>6, <1>7, <1>8 DEF t

-----------------------------------------------------------------------------
(* What is held is what is listed *)

LEMMA OneMore ==
    ASSUME NEW S, IsFiniteSet(S), NEW x
    PROVE  /\ IsFiniteSet(S \union {x})
           /\ Cardinality(S) \in Nat /\ Cardinality(S \union {x}) \in Nat
           /\ Cardinality(S \union {x}) <= Cardinality(S) + 1
<1>1. /\ IsFiniteSet(S \union {x})
      /\ Cardinality(S \union {x}) = IF x \in S THEN Cardinality(S) ELSE Cardinality(S) + 1
    BY FS_AddElement
<1>2. Cardinality(S) \in Nat /\ Cardinality(S \union {x}) \in Nat
    BY <1>1, FS_CardinalityType
<1> QED
    BY <1>1, <1>2

QueryType ==
    /\ entries \in [Slots -> Result \union {Empty}]
    /\ access_order \in Seq(Slots)
    /\ generation \in Nat

LEMMA SlotsFinite == IsFiniteSet(Slots) /\ IsFiniteSet(Held)
<1>1. IsFiniteSet({"plain", "reranked"})
    <2>1. IsFiniteSet({"plain"}) /\ IsFiniteSet({"reranked"})
        BY FS_Singleton
    <2>2. {"plain", "reranked"} = {"plain"} \union {"reranked"}
        OBVIOUS
    <2> QED
        BY <2>1, <2>2, FS_Union
<1>2. IsFiniteSet(Slots)
    BY <1>1, FS_Product, CachesAssumption DEF CachesAssumption, Slots
<1>3. Held \subseteq Slots
    BY DEF Held
<1> QED
    BY <1>2, <1>3, FS_Subset

\* insert: room is made at the old end of the list.
LEMMA InsertKeeps ==
    ASSUME QueryType, CacheAccounted, NEW slot \in Slots, NEW got \in Result,
           Insert(slot, got)
    PROVE  /\ QueryType' /\ CacheAccounted' /\ generation' = generation
           /\ \A s \in Slots : entries'[s] \in {entries[s], got, Empty}
<1>1. got # Empty
    BY CachesAssumption DEF CachesAssumption
<1>2. PICK n \in 0..Len(access_order) :
          /\ RoomAfter(n)
          /\ entries' = [s \in Slots |->
                            IF s = slot THEN got
                            ELSE IF s \in Listed(SubSeq(access_order, 1, n)) THEN Empty
                            ELSE entries[s]]
          /\ access_order' =
                Append(Without(SubSeq(access_order, n + 1, Len(access_order)), slot), slot)
          /\ generation' = generation
    BY DEF Insert
<1> DEFINE p == SubSeq(access_order, 1, n)
           q == SubSeq(access_order, n + 1, Len(access_order))
           w == Without(q, slot)
<1>3. access_order \in Seq(Slots) /\ Once(access_order) /\ Listed(access_order) = Held
    BY DEF QueryType, CacheAccounted, Once
<1>4. /\ q \in Seq(Slots) /\ Once(q)
      /\ Listed(q) = Held \ Listed(p)
      /\ n = Len(access_order) => Listed(q) = {}
    BY <1>3, Suffix
<1>5. access_order' = Append(w, slot) /\ RoomAfter(n)
    BY <1>2
<1>6. \A s \in Slots : entries'[s] = IF s = slot THEN got
                                     ELSE IF s \in Listed(p) THEN Empty ELSE entries[s]
    BY <1>2
<1>7. Cardinality(Held \ Listed(p)) < MaxEntries \/ n = Len(access_order)
    BY <1>5 DEF RoomAfter
<1> HIDE DEF p, q
<1>8. w \in Seq(Slots) /\ Once(w) /\ Listed(w) = Listed(q) \ {slot}
    BY <1>4, WithoutOne
<1> HIDE DEF w
<1>9. /\ access_order' \in Seq(Slots) /\ Once(access_order')
      /\ Listed(access_order') = Listed(w) \union {slot}
    <2>1. slot \notin Listed(w)
        BY <1>8
    <2> QED
        BY <1>5, <1>8, <2>1, AppendOne
<1>10. Held' = Listed(q) \union {slot}
    BY <1>1, <1>4, <1>6 DEF Held
<1>11. Cardinality(Held') <= IF MaxEntries = 0 THEN 1 ELSE MaxEntries
    <2>1. MaxEntries \in Nat
        BY CachesAssumption DEF CachesAssumption
    <2>2. CASE n = Len(access_order)
        <3>1. Held' = {slot}
            BY <1>4, <1>10, <2>2
        <3>2. Cardinality({slot}) = 1
            BY FS_Singleton
        <3> QED
            BY <3>1, <3>2, <2>1
    <2>3. CASE Cardinality(Held \ Listed(p)) < MaxEntries
        <3>1. IsFiniteSet(Listed(q))
            BY <1>4, SlotsFinite, FS_Subset
        <3>2. /\ Cardinality(Listed(q)) \in Nat
              /\ Cardinality(Listed(q) \union {slot}) \in Nat
              /\ Cardinality(Listed(q) \union {slot}) <= Cardinality(Listed(q)) + 1
            BY <3>1, OneMore
        <3>3. Cardinality(Listed(q)) < MaxEntries
            BY <2>3, <1>4
        <3> QED
            BY <3>2, <3>3, <1>10, <2>1
    <2> QED
        BY <1>7, <2>2, <2>3
<1>12. entries' \in [Slots -> Result \union {Empty}]
    BY <1>2 DEF QueryType
<1>13. QueryType' /\ generation' = generation
    BY <1>2, <1>9, <1>12 DEF QueryType
<1>14. CacheAccounted'
    <2>1. Listed(access_order') = Held'
        BY <1>8, <1>9, <1>10
    <2> QED
        BY <1>9, <1>11, <2>1 DEF CacheAccounted, Once
<1> QED
    BY <1>6, <1>13, <1>14

\* get_best: a slot that is found goes to the end of the list, one that has
\* expired leaves both.
LEMMA GetKeeps ==
    ASSUME QueryType, CacheAccounted, NEW k \in Keys, NEW got \in Result,
           GetReranked(k, got) \/ GetPlain(k, got) \/ GetNone(k)
    PROVE  /\ QueryType' /\ CacheAccounted' /\ generation' = generation
           /\ \A s \in Slots : entries'[s] \in {entries[s], Empty}
<1> DEFINE r == Reranked(k)
           p == Plain(k)
           a == Without(access_order, r)
           b == Without(a, p)
<1>1. got # Empty
    BY CachesAssumption DEF CachesAssumption
<1>2. r \in Slots /\ p \in Slots /\ r # p
    BY DEF Slots, Reranked, Plain
<1>3. access_order \in Seq(Slots) /\ Once(access_order) /\ Listed(access_order) = Held
    BY DEF QueryType, CacheAccounted, Once
<1> HIDE DEF r, p
<1>4. a \in Seq(Slots) /\ Once(a) /\ Listed(a) = Held \ {r}
    BY <1>3, WithoutOne
<1> HIDE DEF a
<1>5. b \in Seq(Slots) /\ Once(b) /\ Listed(b) = (Held \ {r}) \ {p}
    BY <1>4, WithoutOne
<1> HIDE DEF b
<1>6. /\ generation' = generation
      /\ entries' \in [Slots -> Result \union {Empty}]
      /\ \A s \in Slots : entries'[s] \in {entries[s], Empty}
    BY <1>2 DEF QueryType, GetReranked, GetPlain, GetNone, r, p
<1>7. /\ access_order' \in Seq(Slots) /\ Once(access_order')
      /\ Listed(access_order') = Held'
    <2>1. CASE GetReranked(k, got)
        <3>1. entries' = entries /\ access_order' = Append(a, r) /\ entries[r] = got
            BY <2>1 DEF GetReranked, a, r
        <3>2. r \in Held /\ Held' = Held
            BY <3>1, <1>1, <1>2 DEF Held
        <3>3. r \notin Listed(a)
            BY <1>4
        <3>4. /\ Append(a, r) \in Seq(Slots) /\ Once(Append(a, r))
              /\ Listed(Append(a, r)) = Listed(a) \union {r}
            BY <3>3, <1>2, <1>4, AppendOne
        <3>5. Listed(access_order') = Held'
            BY <3>1, <3>2, <3>4, <1>4
        <3> QED
            BY <3>1, <3>4, <3>5
    <2>2. CASE GetPlain(k, got)
        <3>1. /\ entries' = [entries EXCEPT ![r] = Empty]
              /\ access_order' = Append(b, p) /\ entries[p] = got
            BY <2>2 DEF GetPlain, a, b, r, p
        <3>2. p \in Held /\ Held' = Held \ {r}
            BY <3>1, <1>1, <1>2 DEF Held, QueryType
        <3>3. p \notin Listed(b)
            BY <1>5
        <3>4. /\ Append(b, p) \in Seq(Slots) /\ Once(Append(b, p))
              /\ Listed(Append(b, p)) = Listed(b) \union {p}
            BY <3>3, <1>2, <1>5, AppendOne
        <3>5. Listed(access_order') = Held'
            BY <3>1, <3>2, <3>4, <1>2, <1>5
        <3> QED
            BY <3>1, <3>4, <3>5
    <2>3. CASE GetNone(k)
        <3>1. /\ entries' = [entries EXCEPT ![r] = Empty, ![p] = Empty]
              /\ access_order' = b
            BY <2>3 DEF GetNone, a, b, r, p
        <3>2. Held' = (Held \ {r}) \ {p}
            BY <3>1, <1>2 DEF Held, QueryType
        <3> QED
            BY <3>1, <3>2, <1>5
    <2> QED
        BY <2>1, <2>2, <2>3
<1>8. Cardinality(Held') <= IF MaxEntries = 0 THEN 1 ELSE MaxEntries
    <2>1. Held' \subseteq Held
        BY <1>6 DEF Held
    <2>2. Cardinality(Held') <= Cardinality(Held) /\ IsFiniteSet(Held')
        BY <2>1, SlotsFinite, FS_Subset
    <2>3. Cardinality(Held) \in Nat /\ Cardinality(Held') \in Nat /\ MaxEntries \in Nat
        BY <2>2, SlotsFinite, FS_CardinalityType, CachesAssumption DEF CachesAssumption
    <2>4. Cardinality(Held) <= IF MaxEntries = 0 THEN 1 ELSE MaxEntries
        BY DEF CacheAccounted
    <2> QED
        BY <2>2, <2>3, <2>4
<1>9. QueryType'
    BY <1>6, <1>7 DEF QueryType
<1>10. CacheAccounted'
    BY <1>7, <1>8 DEF CacheAccounted, Once
<1> QED
    BY <1>6, <1>9, <1>10

\* clear.
LEMMA NoneHeld ==
    ASSUME entries' = [s \in Slots |-> Empty], access_order' = <<>>
    PROVE  CacheAccounted'
<1>1. Held' = {}
    BY DEF Held
<1>2. Listed(access_order') = {} /\ DOMAIN access_order' = {}
    BY DEF Listed
<1>3. Cardinality(Held') = 0
    BY <1>1, FS_EmptySet
<1>4. Cardinality(Held') <= IF MaxEntries = 0 THEN 1 ELSE MaxEntries
    BY <1>3, CachesAssumption DEF CachesAssumption
<1> QED
    BY <1>1, <1>2, <1>4 DEF CacheAccounted

AmbientType ==
    /\ ambient \in [Keys -> Result \union {Empty}]
    /\ last_access \in Seq(Keys)
    /\ epoch \in Nat

LEMMA CachedFinite == IsFiniteSet(Cached) /\ Cardinality(Cached) \in Nat
<1>1. Cached \subseteq Keys
    BY DEF Cached
<1> QED
    BY <1>1, FS_Subset, FS_CardinalityType, CachesAssumption DEF CachesAssumption

\* put_if_current: room is made at the old end of the list, for a new key.
LEMMA PutKeeps ==
    ASSUME AmbientType, AmbientAccounted, NEW key \in Keys, NEW gen, NEW got \in Result,
           PutIfCurrent(key, gen, got)
    PROVE  /\ AmbientType' /\ AmbientAccounted' /\ epoch' = epoch
           /\ \A k \in Keys : \/ ambient'[k] \in {ambient[k], Empty}
                              \/ gen = epoch /\ ambient'[k] = got
<1>1. CASE gen # epoch
    <2>1. UNCHANGED ambients
        BY <1>1 DEF PutIfCurrent
    <2> QED
        BY <2>1 DEF ambients, AmbientType, AmbientAccounted, Cached
<1>2. CASE gen = epoch
    <2> DEFINE full == Cardinality(Cached) >= MaxAmbient /\ key \notin Cached /\ Cached # {}
               oldest == Head(last_access)
               kept == IF full THEN Tail(last_access) ELSE last_access
               evicted == IF full THEN {oldest} ELSE {}
               w == Without(kept, key)
    <2>1. got # Empty /\ MaxAmbient \in Nat
        BY CachesAssumption DEF CachesAssumption
    <2>2. /\ ambient' = [k \in Keys |-> IF k = key THEN got
                                        ELSE IF full /\ k = oldest THEN Empty ELSE ambient[k]]
          /\ last_access' = Append(w, key)
          /\ epoch' = epoch
        BY <1>2 DEF PutIfCurrent
    <2>3. last_access \in Seq(Keys) /\ Once(last_access) /\ Listed(last_access) = Cached
        BY DEF AmbientType, AmbientAccounted, Once
    <2>4. /\ kept \in Seq(Keys) /\ Once(kept) /\ Listed(kept) = Cached \ evicted
          /\ evicted \subseteq Cached
        <3>1. CASE full
            <4>1. last_access # <<>>
                <5>1. Listed(<<>>) = {}
                    BY DEF Listed
                <5> QED
                    BY <5>1, <3>1, <2>3
            <4>2. /\ Tail(last_access) \in Seq(Keys) /\ Once(Tail(last_access))
                  /\ Head(last_access) \in Listed(last_access)
                  /\ Listed(Tail(last_access)) = Listed(last_access) \ {Head(last_access)}
                BY <4>1, <2>3, TailOne
            <4> QED
                BY <4>2, <3>1, <2>3
        <3>2. CASE ~full
            BY <3>2, <2>3
        <3> QED
            BY <3>1, <3>2
    <2>5. \A k \in Keys : ambient'[k] = IF k = key THEN got
                                        ELSE IF k \in evicted THEN Empty ELSE ambient[k]
        BY <2>2
    <2>6. ambient' \in [Keys -> Result \union {Empty}]
        BY <2>2 DEF AmbientType
    <2>7. \/ full /\ Cardinality(evicted) = 1
          \/ ~full /\ evicted = {}
              /\ (Cardinality(Cached) < MaxAmbient \/ key \in Cached \/ Cached = {})
        <3>1. Cardinality({oldest}) = 1
            BY FS_Singleton
        <3>2. ~(Cardinality(Cached) >= MaxAmbient) => Cardinality(Cached) < MaxAmbient
            BY <2>1, CachedFinite
        <3> QED
            BY <3>1, <3>2
    <2>8. full => key \notin Cached /\ \E k \in Cached : evicted = {k}
        BY <2>4
    <2> HIDE DEF kept, evicted, oldest
    <2>9. w \in Seq(Keys) /\ Once(w) /\ Listed(w) = (Cached \ evicted) \ {key}
        BY <2>4, WithoutOne
    <2> HIDE DEF w
    <2>10. /\ last_access' \in Seq(Keys) /\ Once(last_access')
           /\ Listed(last_access') = Listed(w) \union {key}
        <3>1. key \notin Listed(w)
            BY <2>9
        <3> QED
            BY <2>2, <2>9, <3>1, AppendOne
    <2>11. Cached' = (Cached \ evicted) \union {key}
        BY <2>1, <2>5 DEF Cached
    <2>12. Cardinality(Cached') <= IF MaxAmbient = 0 THEN 1 ELSE MaxAmbient
        <3>1. Cardinality(Cached) <= IF MaxAmbient = 0 THEN 1 ELSE MaxAmbient
            BY DEF AmbientAccounted
        <3>2. CASE full
            <4>1. PICK k \in Cached : evicted = {k}
                BY <2>8, <3>2
            <4>2. /\ IsFiniteSet(Cached \ {k})
                  /\ Cardinality(Cached \ {k}) = Cardinality(Cached) - 1
                BY CachedFinite, FS_RemoveElement
            <4>3. /\ Cardinality(Cached \ {k}) \in Nat
                  /\ Cardinality((Cached \ {k}) \union {key}) \in Nat
                  /\ Cardinality((Cached \ {k}) \union {key}) <= Cardinality(Cached \ {k}) + 1
                BY <4>2, OneMore
            <4>4. Cached' = (Cached \ {k}) \union {key}
                BY <4>1, <2>11
            <4> QED
                BY <4>2, <4>3, <4>4, <3>1, <2>1, CachedFinite
        <3>3. CASE ~full
            <4>1. Cached' = Cached \union {key}
                BY <3>3, <2>7, <2>11
            <4>2. /\ Cardinality(Cached \union {key}) \in Nat
                  /\ Cardinality(Cached \union {key}) <= Cardinality(Cached) + 1
                BY CachedFinite, OneMore
            <4>3. CASE Cardinality(Cached) < MaxAmbient
                BY <4>1, <4>2, <4>3, <2>1, CachedFinite
            <4>4. CASE key \in Cached
                <5>1. Cached' = Cached
                    BY <4>1, <4>4
                <5> QED
                    BY <5>1, <3>1
            <4>5. CASE Cached = {}
                <5>1. Cardinality(Cached') = 1
                    <6>1. Cached' = {key}
                        BY <4>1, <4>5
                    <6> QED
                        BY <6>1, FS_Singleton
                <5> QED
                    BY <5>1, <2>1
            <4> QED
                BY <3>3, <2>7, <4>3, <4>4, <4>5
        <3> QED
            BY <3>2, <3>3
    <2>13. AmbientType' /\ epoch' = epoch
        BY <2>2, <2>6, <2>10 DEF AmbientType
    <2>14. Listed(last_access') = Cached'
        BY <2>9, <2>10, <2>11
    <2>15. AmbientAccounted'
        BY <2>10, <2>12, <2>14 DEF AmbientAccounted, Once
    <2>16. \A k \in Keys : ambient'[k] \in {ambient[k], Empty} \/ ambient'[k] = got
        BY <2>5
    <2> QED
        BY <1>2, <2>13, <2>15, <2>16
<1> QED
    BY <1>1, <1>2

\* get: what is found goes to the end of the list, what has expired leaves.
LEMMA TouchKeeps ==
    ASSUME AmbientType, AmbientAccounted, NEW k \in Keys, ambient[k] # Empty,
           last_access' = Append(Without(last_access, k), k), UNCHANGED <<ambient, epoch>>
    PROVE  AmbientType' /\ AmbientAccounted'
<1> DEFINE a == Without(last_access, k)
<1>1. last_access \in Seq(Keys) /\ Once(last_access) /\ Listed(last_access) = Cached
    BY DEF AmbientType, AmbientAccounted, Once
<1>2. a \in Seq(Keys) /\ Once(a) /\ Listed(a) = Cached \ {k}
    BY <1>1, WithoutOne
<1>3. last_access' = Append(a, k)
    OBVIOUS
<1> HIDE DEF a
<1>4. last_access' \in Seq(Keys) /\ Once(last_access') /\ Listed(last_access') = Listed(a) \union {k}
    BY <1>2, <1>3, AppendOne
<1>5. k \in Cached /\ Cached' = Cached
    BY DEF Cached
<1>6. Listed(last_access') = Cached'
    BY <1>2, <1>4, <1>5
<1> QED
    BY <1>4, <1>5, <1>6 DEF AmbientType, AmbientAccounted, Once

LEMMA ExpireKeeps ==
    ASSUME AmbientType, AmbientAccounted, NEW k \in Keys,
           ambient' = [ambient EXCEPT ![k] = Empty], last_access' = Without(last_access, k),
           UNCHANGED epoch
    PROVE  AmbientType' /\ AmbientAccounted'
<1>1. last_access \in Seq(Keys) /\ Once(last_access) /\ Listed(last_access) = Cached
    BY DEF AmbientType, AmbientAccounted, Once
<1>2. /\ last_access' \in Seq(Keys) /\ Once(last_access')
      /\ Listed(last_access') = Cached \ {k}
    BY <1>1, WithoutOne
<1>3. Cached' = Cached \ {k}
    BY DEF Cached, AmbientType
<1>4. Cardinality(Cached') \in Nat /\ Cardinality(Cached') <= Cardinality(Cached)
    BY <1>3, CachedFinite, FS_Subset, FS_CardinalityType
<1>5. Cardinality(Cached') <= IF MaxAmbient = 0 THEN 1 ELSE MaxAmbient
    BY <1>4, CachedFinite, CachesAssumption DEF AmbientAccounted, CachesAssumption
<1>6. AmbientType'
    BY <1>2 DEF AmbientType
<1> QED
    BY <1>2, <1>3, <1>5, <1>6 DEF AmbientAccounted, Once

\* clear.
LEMMA NoneCached ==
    ASSUME ambient' = [k \in Keys |-> Empty], last_access' = <<>>
    PROVE  AmbientAccounted'
<1>1. Cached' = {}
    BY DEF Cached
<1>2. Listed(last_access') = {} /\ DOMAIN last_access' = {}
    BY DEF Listed
<1>3. Cardinality(Cached') = 0
    BY <1>1, FS_EmptySet
<1>4. Cardinality(Cached') <= IF MaxAmbient = 0 THEN 1 ELSE MaxAmbient
    BY <1>3, CachesAssumption DEF CachesAssumption
<1> QED
    BY <1>1, <1>2, <1>4 DEF AmbientAccounted

-----------------------------------------------------------------------------
(* Types *)

LEMMA CachesTyped == TypeOK => QueryType /\ AmbientType
BY DEF TypeOK, QueryType, AmbientType

\* A handler that goes on.
LEMMA Moving ==
    ASSUME TypeOK, NEW w \in Writers, Changing(w),
           NEW p \in {"index", "ambient", "query", "ack"},
           writer' = [writer EXCEPT ![w].pc = p]
    PROVE  /\ writer' \in [Writers -> Writer \union {Idle}]
           /\ \A v \in Writers \ {w} : writer'[v] = writer[v]
           /\ writer'[w] # Idle /\ writer'[w].pc = p
           /\ writer'[w].op = writer[w].op /\ writer'[w].mem = writer[w].mem
           /\ writer'[w].ok = writer[w].ok
<1>1. writer \in [Writers -> Writer \union {Idle}] /\ writer[w] \in Writer
    BY DEF TypeOK, Changing
<1> DEFINE x == [writer[w] EXCEPT !.pc = p]
<1>2. writer' = [writer EXCEPT ![w] = x]
    OBVIOUS
<1>3. /\ x \in Writer /\ x.pc = p
      /\ x.op = writer[w].op /\ x.mem = writer[w].mem /\ x.ok = writer[w].ok
    BY <1>1 DEF Writer
<1>4. x # Idle
    <2>1. Idle.pc = "idle"
        BY DEF Idle
    <2> QED
        BY <2>1, <1>3
<1> HIDE DEF x
<1>5. /\ writer'[w] = x /\ \A v \in Writers \ {w} : writer'[v] = writer[v]
      /\ writer' \in [Writers -> Writer \union {Idle}]
    BY <1>1, <1>2, <1>3
<1> QED
    BY <1>3, <1>4, <1>5

\* A reader that goes on, with what it found.
LEMMA Getting ==
    ASSUME TypeOK, NEW r \in Readers, Reading(r), NEW got \in Result,
           NEW pc \in {"lookup", "retrieve", "check", "filter", "publish", "answered"},
           Gets(r, pc, got)
    PROVE  /\ reader' \in [Readers -> Reader \union {Idle}]
           /\ \A q \in Readers \ {r} : reader'[q] = reader[q]
           /\ reader'[r] # Idle /\ reader'[r].pc = pc /\ reader'[r].got = got
           /\ reader'[r].op = reader[r].op /\ reader'[r].key = reader[r].key
           /\ reader'[r].gen = reader[r].gen /\ reader'[r].since = reader[r].since
<1>1. reader \in [Readers -> Reader \union {Idle}] /\ reader[r] \in Reader
    BY DEF TypeOK, Reading
<1> DEFINE x == [reader[r] EXCEPT !.pc = pc, !.got = got]
<1>2. /\ x \in Reader /\ x.pc = pc /\ x.got = got
      /\ x.op = reader[r].op /\ x.key = reader[r].key
      /\ x.gen = reader[r].gen /\ x.since = reader[r].since
    BY <1>1 DEF Reader
<1>3. reader' = [reader EXCEPT ![r] = x]
    BY <1>1 DEF Gets
<1>4. x # Idle
    <2>1. Idle.pc = "idle"
        BY DEF Idle
    <2> QED
        BY <2>1, <1>2
<1> HIDE DEF x
<1>5. /\ reader'[r] = x /\ \A q \in Readers \ {r} : reader'[q] = reader[q]
      /\ reader' \in [Readers -> Reader \union {Idle}]
    BY <1>1, <1>2, <1>3
<1> QED
    BY <1>2, <1>4, <1>5

LEMMA Going ==
    ASSUME TypeOK, NEW r \in Readers, Reading(r),
           NEW pc \in {"lookup", "retrieve", "check", "filter", "publish", "answered"},
           Goes(r, pc)
    PROVE  /\ reader' \in [Readers -> Reader \union {Idle}]
           /\ \A q \in Readers \ {r} : reader'[q] = reader[q]
           /\ reader'[r] # Idle /\ reader'[r].pc = pc /\ reader'[r].got = reader[r].got
           /\ reader'[r].op = reader[r].op /\ reader'[r].key = reader[r].key
           /\ reader'[r].gen = reader[r].gen /\ reader'[r].since = reader[r].since
<1>1. reader \in [Readers -> Reader \union {Idle}] /\ reader[r] \in Reader
    BY DEF TypeOK, Reading
<1> DEFINE x == [reader[r] EXCEPT !.pc = pc]
<1>2. /\ x \in Reader /\ x.pc = pc /\ x.got = reader[r].got
      /\ x.op = reader[r].op /\ x.key = reader[r].key
      /\ x.gen = reader[r].gen /\ x.since = reader[r].since
    BY <1>1 DEF Reader
<1>3. reader' = [reader EXCEPT ![r] = x]
    BY <1>1 DEF Goes
<1>4. x # Idle
    <2>1. Idle.pc = "idle"
        BY DEF Idle
    <2> QED
        BY <2>1, <1>2
<1> HIDE DEF x
<1>5. /\ reader'[r] = x /\ \A q \in Readers \ {r} : reader'[q] = reader[q]
      /\ reader' \in [Readers -> Reader \union {Idle}]
    BY <1>1, <1>2, <1>3
<1> QED
    BY <1>2, <1>4, <1>5

\* What a reader carries.
LEMMA Carried ==
    ASSUME TypeOK, NEW r \in Readers, Reading(r)
    PROVE  /\ reader[r] \in Reader
           /\ reader[r].op \in {"search", "ambient"}
           /\ reader[r].key \in Keys \union {NoKey} /\ reader[r].gen \in Nat
           /\ reader[r].got \in Result /\ reader[r].since \in Promise
           /\ reader[r].since.fresh \in Result
           /\ reader[r].since.gone \in SUBSET Mems /\ reader[r].since.out \in SUBSET Mems
<1>1. reader[r] \in Reader
    BY DEF TypeOK, Reading
<1> QED
    BY <1>1 DEF Reader, Promise

\* What a handler works on.
LEMMA Working ==
    ASSUME TypeOK, NEW w \in Writers, Changing(w)
    PROVE  /\ writer[w] \in Writer
           /\ writer[w].op \in AllOps /\ writer[w].mem \in Mems /\ writer[w].ok \in BOOLEAN
           /\ writer[w].pc \in {"index", "ambient", "query", "ack"}
<1>1. writer[w] \in Writer
    BY DEF TypeOK, Changing
<1> QED
    BY <1>1 DEF Writer

LEMMA Contents ==
    ASSUME TypeOK, NEW m \in Mems
    PROVE  /\ chunk[m] \in Chunk
           /\ chunk[m].ver \in Versions /\ chunk[m].ver \in Nat
           /\ chunk[m].state \in {"absent", "live", "retired", "deleted"}
           /\ doc[m] \in Versions /\ doc[m] \in Nat
           /\ promised.fresh[m] \in Versions /\ promised.fresh[m] \in Nat
<1>1. \A v \in Versions : v \in Nat
    BY CachesAssumption DEF CachesAssumption, Versions
<1>2. chunk[m] \in Chunk /\ doc[m] \in Versions /\ promised.fresh[m] \in Versions
    BY DEF TypeOK, Promise, Result
<1> QED
    BY <1>1, <1>2 DEF Chunk

LEMMA VisibleTyped ==
    ASSUME NEW got \in Result
    PROVE  /\ Visible(got) \in Result
           /\ \A m \in Mems : Visible(got)[m] = IF Live(m) THEN got[m] ELSE 0
<1>1. 0 \in Versions
    BY CachesAssumption DEF CachesAssumption, Versions
<1> QED
    BY <1>1 DEF Visible, Result

LEMMA StoredTyped ==
    ASSUME NEW op \in AllOps, NEW c \in Chunk, Storable(op, c)
    PROVE  /\ Stored(op, c) \in Chunk
           /\ op = "store" => c.ver = 0 /\ Stored(op, c) = [ver |-> 1, state |-> "live"]
           /\ op = "update" => /\ Stored(op, c).ver = c.ver + 1
                               /\ Stored(op, c).state = c.state /\ c.state # "absent"
           /\ op \notin {"store", "update"} =>
                 /\ Stored(op, c).ver = c.ver /\ c.state # "absent"
                 /\ Stored(op, c).state \in {"retired", "deleted", "absent"}
           /\ op = "retire" => c.state = "live"
           /\ op \notin {"store", "update", "retire"} =>
                 Stored(op, c).state \in {"deleted", "absent"}
<1>1. c.ver \in Versions /\ c.ver \in Nat /\ c.state \in {"absent", "live", "retired", "deleted"}
    BY CachesAssumption DEF CachesAssumption, Versions, Chunk
<1>2. CASE op = "store"
    <2>1. Stored(op, c) = [ver |-> 1, state |-> "live"] /\ c.ver = 0 /\ MaxVersion > 0
        BY <1>2 DEF Stored, Storable
    <2>2. 1 \in Versions
        BY <2>1, CachesAssumption DEF CachesAssumption, Versions
    <2> QED
        BY <2>1, <2>2, <1>2 DEF Chunk
<1>3. CASE op = "update"
    <2>1. /\ Stored(op, c) = [c EXCEPT !.ver = c.ver + 1]
          /\ c.state # "absent" /\ c.ver < MaxVersion
        BY <1>3 DEF Stored, Storable
    <2>2. c.ver + 1 \in Versions
        BY <2>1, <1>1, CachesAssumption DEF CachesAssumption, Versions
    <2> QED
        BY <2>1, <2>2, <1>1, <1>3 DEF Chunk
<1>4. CASE op = "retire"
    <2>1. Stored(op, c) = [c EXCEPT !.state = "retired"] /\ c.state = "live"
        BY <1>4 DEF Stored, Storable
    <2> QED
        BY <2>1, <1>1, <1>4 DEF Chunk
<1>5. CASE op \in {"purge_chunk", "api_purge", "purge"}
    <2>1. Stored(op, c) = [c EXCEPT !.state = "absent"] /\ c.state # "absent"
        BY <1>5 DEF Stored, Storable
    <2> QED
        BY <2>1, <1>1, <1>5 DEF Chunk
<1>6. CASE op \in {"api_delete", "delete", "mcp_delete"}
    <2>1. Stored(op, c) = [c EXCEPT !.state = "deleted"] /\ c.state # "absent"
        BY <1>6 DEF Stored, Storable
    <2> QED
        BY <2>1, <1>1, <1>6 DEF Chunk
<1> QED
    BY <1>2, <1>3, <1>4, <1>5, <1>6 DEF AllOps

\* What each action does to the handler.
LEMMA Storing ==
    ASSUME TypeOK, NEW w \in Writers, NEW op \in Ops, NEW m \in Mems, Store(w, op, m)
    PROVE  /\ op \in AllOps
           /\ writer[w] = Idle /\ \A v \in Writers : Changing(v) => writer[v].mem # m
           /\ Storable(op, chunk[m])
           /\ chunk' \in [Mems -> Chunk] /\ chunk'[m] = Stored(op, chunk[m])
           /\ \A n \in Mems \ {m} : chunk'[n] = chunk[n]
           /\ writer' \in [Writers -> Writer \union {Idle}]
           /\ \A v \in Writers \ {w} : writer'[v] = writer[v]
           /\ writer'[w] # Idle /\ writer'[w].op = op /\ writer'[w].mem = m
           /\ writer'[w].ok = TRUE /\ writer'[w].pc = AfterStore(op)
           /\ UNCHANGED <<doc, query, ambients, reader, reranks, ghosts>>
<1>1. op \in AllOps
    BY CachesAssumption DEF CachesAssumption
<1> DEFINE x == [op |-> op, mem |-> m, pc |-> AfterStore(op), ok |-> TRUE]
           c == Stored(op, chunk[m])
<1>2. AfterStore(op) \in {"index", "ambient", "query", "ack"}
    BY DEF AfterStore
<1>3. x \in Writer /\ x # Idle
    <2>1. x.pc # "idle"
        BY <1>2
    <2> QED
        BY <1>1, <1>2, <2>1 DEF Writer, Idle
<1>4. /\ writer' = [writer EXCEPT ![w] = x]
      /\ chunk' = [chunk EXCEPT ![m] = c]
      /\ Storable(op, chunk[m])
    BY DEF Store
<1>5. chunk \in [Mems -> Chunk] /\ writer \in [Writers -> Writer \union {Idle}]
    BY DEF TypeOK
<1>6. c \in Chunk
    BY <1>1, <1>4, <1>5, StoredTyped
<1> HIDE DEF c
<1>7. /\ chunk' \in [Mems -> Chunk] /\ chunk'[m] = c
      /\ \A n \in Mems \ {m} : chunk'[n] = chunk[n]
    BY <1>4, <1>5, <1>6
<1>8. /\ x.op = op /\ x.mem = m /\ x.ok = TRUE /\ x.pc = AfterStore(op)
    OBVIOUS
<1> HIDE DEF x
<1>9. /\ writer' \in [Writers -> Writer \union {Idle}] /\ writer'[w] = x
      /\ \A v \in Writers \ {w} : writer'[v] = writer[v]
    BY <1>3, <1>4, <1>5
<1>10. /\ writer[w] = Idle /\ \A v \in Writers : Changing(v) => writer[v].mem # m
       /\ UNCHANGED <<doc, query, ambients, reader, reranks, ghosts>>
    BY DEF Store, Changing
<1> QED
    BY <1>1, <1>3, <1>4, <1>7, <1>8, <1>9, <1>10 DEF c

LEMMA Indexing ==
    ASSUME TypeOK, NEW w \in Writers, IndexWrite(w)
    PROVE  /\ Changing(w) /\ writer[w].pc = "index"
           /\ doc' \in Result /\ doc'[writer[w].mem] = Document(writer[w].mem)
           /\ \A n \in Mems \ {writer[w].mem} : doc'[n] = doc[n]
           /\ writer' = [writer EXCEPT ![w].pc = AfterIndex(writer[w].op)]
           /\ AfterIndex(writer[w].op) \in {"index", "ambient", "query", "ack"}
           /\ UNCHANGED <<chunk, query, ambients, reader, reranks, ghosts>>
<1>1. /\ Changing(w) /\ writer[w].pc = "index"
      /\ doc' = [doc EXCEPT ![writer[w].mem] = Document(writer[w].mem)]
      /\ writer' = [writer EXCEPT ![w].pc = AfterIndex(writer[w].op)]
      /\ UNCHANGED <<chunk, query, ambients, reader, reranks, ghosts>>
    BY DEF IndexWrite
<1>2. writer[w].mem \in Mems
    BY <1>1, Working
<1>3. Document(writer[w].mem) \in Versions
    <2>1. 0 \in Versions
        BY CachesAssumption DEF CachesAssumption, Versions
    <2> QED
        BY <2>1, <1>2, Contents DEF Document
<1>4. doc \in [Mems -> Versions]
    BY DEF TypeOK, Result
<1>5. AfterIndex(writer[w].op) \in {"index", "ambient", "query", "ack"}
    BY DEF AfterIndex
<1>6. /\ doc' \in [Mems -> Versions] /\ doc'[writer[w].mem] = Document(writer[w].mem)
      /\ \A n \in Mems \ {writer[w].mem} : doc'[n] = doc[n]
    BY <1>1, <1>2, <1>3, <1>4
<1> QED
    BY <1>1, <1>5, <1>6 DEF Result

\* A handler whose index write fails ends, or goes on without its word.
LEMMA Failing ==
    ASSUME TypeOK, NEW w \in Writers, IndexFails(w)
    PROVE  /\ Changing(w) /\ writer[w].pc = "index"
           /\ doc' \in Result /\ doc'[writer[w].mem] \in {doc[writer[w].mem], 0}
           /\ \A n \in Mems \ {writer[w].mem} : doc'[n] = doc[n]
           /\ lost' = lost \union {writer[w].mem} /\ lost' \subseteq Mems
           /\ writer' \in [Writers -> Writer \union {Idle}]
           /\ \A v \in Writers \ {w} : writer'[v] = writer[v]
           /\ \/ writer'[w] = Idle
              \/ /\ writer'[w] # Idle /\ writer'[w].pc = AfterIndex(writer[w].op)
                 /\ writer'[w].op = writer[w].op /\ writer'[w].mem = writer[w].mem
                 /\ writer'[w].ok = FALSE
                 /\ writer[w].op \notin {"store", "delete", "purge"}
           /\ UNCHANGED <<chunk, query, ambients, reader, reranks, promised>>
<1> DEFINE m == writer[w].mem
           op == writer[w].op
           x == [writer[w] EXCEPT !.pc = AfterIndex(op), !.ok = FALSE]
<1>1. /\ Changing(w) /\ writer[w].pc = "index"
      /\ doc' = doc \/ doc' = [doc EXCEPT ![m] = 0]
      /\ lost' = lost \union {m}
      /\ writer' = [writer EXCEPT ![w] = IF op \in {"store", "delete", "purge"} THEN Idle ELSE x]
      /\ UNCHANGED <<chunk, query, ambients, reader, reranks, promised>>
    BY DEF IndexFails
<1>2. m \in Mems /\ writer[w] \in Writer
    BY <1>1, Working
<1>3. doc \in [Mems -> Versions] /\ 0 \in Versions /\ lost \subseteq Mems
    BY CachesAssumption DEF TypeOK, Result, CachesAssumption, Versions
<1>4. AfterIndex(op) \in {"ambient", "ack"}
    BY DEF AfterIndex
<1>5. /\ x \in Writer /\ x.pc = AfterIndex(op) /\ x.op = op /\ x.mem = m /\ x.ok = FALSE
    BY <1>2, <1>4 DEF Writer
<1>6. x # Idle
    <2>1. Idle.pc = "idle"
        BY DEF Idle
    <2> QED
        BY <2>1, <1>4, <1>5
<1> HIDE DEF x, op, m
<1>7. /\ doc' \in [Mems -> Versions] /\ doc'[m] \in {doc[m], 0}
      /\ \A n \in Mems \ {m} : doc'[n] = doc[n]
    BY <1>1, <1>2, <1>3
<1>8. writer \in [Writers -> Writer \union {Idle}]
    BY DEF TypeOK
<1>9. /\ writer' \in [Writers -> Writer \union {Idle}]
      /\ \A v \in Writers \ {w} : writer'[v] = writer[v]
      /\ writer'[w] = IF op \in {"store", "delete", "purge"} THEN Idle ELSE x
    BY <1>1, <1>5, <1>8
<1>10. \/ writer'[w] = Idle
       \/ /\ writer'[w] # Idle /\ writer'[w].pc = AfterIndex(op)
          /\ writer'[w].op = op /\ writer'[w].mem = m
          /\ writer'[w].ok = FALSE
          /\ op \notin {"store", "delete", "purge"}
    BY <1>5, <1>6, <1>9
<1> QED
    BY <1>1, <1>2, <1>3, <1>7, <1>9, <1>10 DEF m, op, Result

\* What a handler answers for.
LEMMA Promising ==
    ASSUME TypeOK, NEW w \in Writers, Acknowledge(w)
    PROVE  /\ Changing(w) /\ writer[w].pc = "ack"
           /\ promised' \in Promise
           /\ promised'.fresh[writer[w].mem] =
                 IF writer[w].op \in {"store", "update"} /\ writer[w].ok
                 THEN chunk[writer[w].mem].ver ELSE promised.fresh[writer[w].mem]
           /\ \A n \in Mems \ {writer[w].mem} : promised'.fresh[n] = promised.fresh[n]
           /\ promised'.gone =
                 IF writer[w].op \in {"store", "update"} THEN promised.gone
                 ELSE promised.gone \union {writer[w].mem}
           /\ promised'.out =
                 IF writer[w].op \in {"api_delete", "purge_chunk", "api_purge"} /\ writer[w].ok
                 THEN promised.out \union {writer[w].mem} ELSE promised.out
           /\ writer' \in [Writers -> Writer \union {Idle}]
           /\ \A v \in Writers \ {w} : writer'[v] = writer[v]
           /\ writer'[w] = Idle
           /\ UNCHANGED <<store, query, ambients, reader, reranks, lost>>
<1>1. /\ Changing(w) /\ writer[w].pc = "ack"
      /\ promised' = Promises(writer[w].op, writer[w].mem, writer[w].ok)
      /\ writer' = [writer EXCEPT ![w] = Idle]
      /\ UNCHANGED <<store, query, ambients, reader, reranks, lost>>
    BY DEF Acknowledge
<1>2. PICK m \in Mems : writer[w].mem = m
    BY <1>1, Working
<1>3. PICK op \in AllOps : writer[w].op = op
    BY <1>1, Working
<1>4. PICK ok \in BOOLEAN : writer[w].ok = ok
    BY <1>1, Working
<1>5. /\ promised \in Promise /\ promised.fresh \in [Mems -> Versions]
      /\ promised.gone \subseteq Mems /\ promised.out \subseteq Mems
    BY DEF TypeOK, Promise, Result
<1>6. promised' = Promises(op, m, ok)
    BY <1>1, <1>2, <1>3, <1>4
<1>7. chunk[m].ver \in Versions
    BY Contents
<1>8. /\ promised' \in Promise
      /\ promised'.fresh[m] = IF op \in {"store", "update"} /\ ok
                              THEN chunk[m].ver ELSE promised.fresh[m]
      /\ \A n \in Mems \ {m} : promised'.fresh[n] = promised.fresh[n]
      /\ promised'.gone = IF op \in {"store", "update"} THEN promised.gone
                          ELSE promised.gone \union {m}
      /\ promised'.out = IF op \in {"api_delete", "purge_chunk", "api_purge"} /\ ok
                         THEN promised.out \union {m} ELSE promised.out
    <2>1. CASE op \in {"store", "update"}
        <3> DEFINE v == IF ok THEN chunk[m].ver ELSE promised.fresh[m]
                   f == [promised.fresh EXCEPT ![m] = v]
        <3>1. promised' = [promised EXCEPT !.fresh = f]
            BY <2>1, <1>6 DEF Promises
        <3>2. f \in [Mems -> Versions] /\ f[m] = v /\ \A n \in Mems \ {m} : f[n] = promised.fresh[n]
            BY <1>5, <1>7
        <3> HIDE DEF f
        <3>3. /\ promised'.fresh = f /\ promised'.gone = promised.gone
              /\ promised'.out = promised.out /\ promised' \in Promise
            BY <3>1, <3>2, <1>5 DEF Promise, Result
        <3> QED
            BY <3>2, <3>3, <2>1
    <2>2. CASE op \in {"api_delete", "purge_chunk", "api_purge"} /\ ok
        <3>1. promised' = [promised EXCEPT !.gone = promised.gone \union {m},
                                           !.out = promised.out \union {m}]
            BY <2>2, <1>6 DEF Promises
        <3>2. /\ promised'.fresh = promised.fresh
              /\ promised'.gone = promised.gone \union {m}
              /\ promised'.out = promised.out \union {m} /\ promised' \in Promise
            BY <3>1, <1>5 DEF Promise, Result
        <3> QED
            BY <3>2, <2>2
    <2>3. CASE /\ op \notin {"store", "update"}
               /\ ~(op \in {"api_delete", "purge_chunk", "api_purge"} /\ ok)
        <3>1. promised' = [promised EXCEPT !.gone = promised.gone \union {m}]
            BY <2>3, <1>6 DEF Promises
        <3>2. /\ promised'.fresh = promised.fresh
              /\ promised'.gone = promised.gone \union {m}
              /\ promised'.out = promised.out /\ promised' \in Promise
            BY <3>1, <1>5 DEF Promise, Result
        <3> QED
            BY <3>2, <2>3
    <2> QED
        BY <2>1, <2>2, <2>3
<1>9. writer \in [Writers -> Writer \union {Idle}]
    BY DEF TypeOK
<1>10. /\ writer' \in [Writers -> Writer \union {Idle}]
       /\ \A v \in Writers \ {w} : writer'[v] = writer[v]
       /\ writer'[w] = Idle
    BY <1>1, <1>9
<1> QED
    BY <1>1, <1>2, <1>3, <1>4, <1>8, <1>10

-----------------------------------------------------------------------------
(* The caches are accounted for *)

Lookups ==
    \A r \in Readers : Reading(r) /\ reader[r].pc = "lookup" => reader[r].key # NoKey
Basic == TypeOK /\ CacheAccounted /\ AmbientAccounted /\ Lookups

LEMMA BasicInit == Init => Basic
<1> SUFFICES ASSUME Init PROVE Basic
    OBVIOUS
<1>1. 0 \in Versions /\ (MaxVersion > 0 => 1 \in Versions)
    BY CachesAssumption DEF CachesAssumption, Versions
<1>2. PICK kept \in SUBSET Mems :
          /\ kept = {} \/ MaxVersion > 0
          /\ chunk = [m \in Mems |-> IF m \in kept THEN [ver |-> 1, state |-> "live"]
                                     ELSE [ver |-> 0, state |-> "absent"]]
          /\ doc = [m \in Mems |-> chunk[m].ver]
    BY DEF Init
<1>3. chunk \in [Mems -> Chunk]
    BY <1>1, <1>2 DEF Chunk
<1>4. doc \in Result
    BY <1>2, <1>3 DEF Chunk, Result
<1>5. promised \in Promise
    BY <1>4 DEF Init, Promise
<1>6. access_order \in Seq(Slots) /\ last_access \in Seq(Keys)
    BY DEF Init
<1>7. TypeOK
    BY <1>3, <1>4, <1>5, <1>6 DEF Init, TypeOK
<1>8. CacheAccounted
    <2>1. Held = {} /\ Listed(access_order) = {} /\ DOMAIN access_order = {}
        BY DEF Init, Held, Listed
    <2>2. Cardinality(Held) = 0
        BY <2>1, FS_EmptySet
    <2> QED
        BY <2>1, <2>2, CachesAssumption DEF CacheAccounted, CachesAssumption
<1>9. AmbientAccounted
    <2>1. Cached = {} /\ Listed(last_access) = {} /\ DOMAIN last_access = {}
        BY DEF Init, Cached, Listed
    <2>2. Cardinality(Cached) = 0
        BY <2>1, FS_EmptySet
    <2> QED
        BY <2>1, <2>2, CachesAssumption DEF AmbientAccounted, CachesAssumption
<1>10. Lookups
    BY DEF Init, Lookups, Reading
<1> QED
    BY <1>7, <1>8, <1>9, <1>10 DEF Basic

\* What leaves a cache alone leaves its accounts alone.
LEMMA QueryAlone ==
    ASSUME Basic, UNCHANGED query
    PROVE  QueryType' /\ CacheAccounted'
BY CachesTyped DEF Basic, query, QueryType, CacheAccounted, Held

LEMMA AmbientAlone ==
    ASSUME Basic, UNCHANGED ambients
    PROVE  AmbientType' /\ AmbientAccounted'
BY CachesTyped DEF Basic, ambients, AmbientType, AmbientAccounted, Cached

LEMMA BasicParts ==
    ASSUME QueryType', CacheAccounted', AmbientType', AmbientAccounted', Lookups',
           chunk' \in [Mems -> Chunk], doc' \in Result,
           writer' \in [Writers -> Writer \union {Idle}],
           reader' \in [Readers -> Reader \union {Idle}],
           reranks' \subseteq Rerank, promised' \in Promise, lost' \subseteq Mems
    PROVE  Basic'
BY DEF Basic, TypeOK, QueryType, AmbientType

LEMMA BasicHandler ==
    ASSUME Basic, NEW w \in Writers, HandlerStep(w)
    PROVE  Basic'
<1> USE DEF Basic
<1>1. /\ chunk \in [Mems -> Chunk] /\ doc \in Result
      /\ writer \in [Writers -> Writer \union {Idle}]
      /\ reader \in [Readers -> Reader \union {Idle}]
      /\ reranks \subseteq Rerank /\ promised \in Promise /\ lost \subseteq Mems
    BY DEF TypeOK
<1>2. ASSUME UNCHANGED reader PROVE Lookups'
    BY <1>2 DEF Lookups, Reading
<1>3. ASSUME NEW op \in Ops, NEW m \in Mems, Store(w, op, m)
      PROVE  Basic'
    BY <1>1, <1>2, <1>3, Storing, QueryAlone, AmbientAlone, BasicParts DEF ghosts
<1>4. CASE IndexWrite(w)
    <2>1. writer' \in [Writers -> Writer \union {Idle}]
        <3>1. PICK p \in {"index", "ambient", "query", "ack"} :
                 AfterIndex(writer[w].op) = p
            BY <1>4, Indexing
        <3> QED
            BY <1>4, <3>1, Indexing, Moving
    <2> QED
        BY <1>1, <1>2, <1>4, <2>1, Indexing, QueryAlone, AmbientAlone, BasicParts DEF ghosts
<1>5. CASE IndexFails(w)
    BY <1>1, <1>2, <1>5, Failing, QueryAlone, AmbientAlone, BasicParts
<1>6. CASE ClearAmbient(w)
    <2>1. /\ Changing(w) /\ writer' = [writer EXCEPT ![w].pc = "query"]
          /\ ambient' = [k \in Keys |-> Empty] /\ last_access' = <<>> /\ epoch' = epoch + 1
          /\ UNCHANGED <<store, query, reader, reranks, ghosts>>
        BY <1>6 DEF ClearAmbient
    <2>2. writer' \in [Writers -> Writer \union {Idle}]
        BY <2>1, Moving
    <2>3. AmbientType'
        BY <2>1, CachesTyped DEF AmbientType
    <2> QED
        BY <1>1, <1>2, <2>1, <2>2, <2>3, NoneCached, QueryAlone, BasicParts DEF store, ghosts
<1>7. CASE ClearQuery(w)
    <2>1. /\ Changing(w) /\ writer' = [writer EXCEPT ![w].pc = AfterClear(writer[w].op)]
          /\ entries' = [s \in Slots |-> Empty] /\ access_order' = <<>>
          /\ generation' = generation + 1
          /\ UNCHANGED <<store, ambients, reader, reranks, ghosts>>
        BY <1>7 DEF ClearQuery
    <2>2. writer' \in [Writers -> Writer \union {Idle}]
        <3>1. PICK p \in {"index", "ambient", "query", "ack"} :
                 AfterClear(writer[w].op) = p
            BY DEF AfterClear
        <3> QED
            BY <2>1, <3>1, Moving
    <2>3. QueryType'
        BY <2>1, CachesTyped DEF QueryType
    <2> QED
        BY <1>1, <1>2, <2>1, <2>2, <2>3, NoneHeld, AmbientAlone, BasicParts DEF store, ghosts
<1>8. CASE Acknowledge(w)
    BY <1>1, <1>2, <1>8, Promising, QueryAlone, AmbientAlone, BasicParts DEF store
<1> QED
    BY <1>3, <1>4, <1>5, <1>6, <1>7, <1>8 DEF HandlerStep

LEMMA Beginning ==
    ASSUME TypeOK, NEW r \in Readers, NEW op \in {"search", "ambient"},
           NEW key \in Keys \union {NoKey}, Begin(r, op, key)
    PROVE  /\ reader' \in [Readers -> Reader \union {Idle}]
           /\ \A q \in Readers \ {r} : reader'[q] = reader[q]
           /\ reader'[r] # Idle /\ reader'[r].op = op /\ reader'[r].key = key
           /\ reader'[r].gen = IF op = "search" THEN generation ELSE epoch
           /\ reader'[r].pc = IF key = NoKey THEN "retrieve" ELSE "lookup"
           /\ reader'[r].got = Nothing /\ reader'[r].since = promised
           /\ UNCHANGED <<store, writer, query, ambients, reranks, ghosts>>
<1> DEFINE x == [op |-> op, key |-> key, gen |-> IF op = "search" THEN generation ELSE epoch,
                 pc |-> IF key = NoKey THEN "retrieve" ELSE "lookup",
                 got |-> Nothing, since |-> promised]
<1>1. /\ reader' = [reader EXCEPT ![r] = x]
      /\ UNCHANGED <<store, writer, query, ambients, reranks, ghosts>>
    BY DEF Begin
<1>2. Nothing \in Result
    BY CachesAssumption DEF CachesAssumption, Nothing, Result, Versions
<1>3. /\ reader \in [Readers -> Reader \union {Idle}]
      /\ generation \in Nat /\ epoch \in Nat /\ promised \in Promise
    BY DEF TypeOK
<1>4. x \in Reader
    BY <1>2, <1>3 DEF Reader
<1>5. x # Idle
    <2>1. Idle.pc = "idle" /\ x.pc # "idle"
        BY DEF Idle
    <2> QED
        BY <2>1
<1>6. /\ x.op = op /\ x.key = key /\ x.gen = IF op = "search" THEN generation ELSE epoch
      /\ x.pc = IF key = NoKey THEN "retrieve" ELSE "lookup"
      /\ x.got = Nothing /\ x.since = promised
    OBVIOUS
<1> HIDE DEF x
<1>7. /\ reader' \in [Readers -> Reader \union {Idle}] /\ reader'[r] = x
      /\ \A q \in Readers \ {r} : reader'[q] = reader[q]
    BY <1>1, <1>3, <1>4
<1> QED
    BY <1>1, <1>5, <1>6, <1>7

\* A reader that goes on does not go back to the lookup.
LEMMA LookupsKept ==
    ASSUME Lookups, NEW r \in Readers,
           \A q \in Readers \ {r} : reader'[q] = reader[q],
           reader'[r].pc # "lookup"
    PROVE  Lookups'
BY DEF Lookups, Reading

\* A step that leaves what handlers change.
Leaves == UNCHANGED <<store, writer, ghosts>>

LEMMA BasicReads ==
    ASSUME Basic, Leaves, QueryType', CacheAccounted', AmbientType', AmbientAccounted',
           reader' \in [Readers -> Reader \union {Idle}], Lookups', reranks' \subseteq Rerank
    PROVE  Basic'
<1>1. /\ chunk' \in [Mems -> Chunk] /\ doc' \in Result
      /\ writer' \in [Writers -> Writer \union {Idle}]
      /\ promised' \in Promise /\ lost' \subseteq Mems
    BY DEF Basic, TypeOK, Leaves, store, ghosts
<1> QED
    BY <1>1, BasicParts

LEMMA BasicSearch ==
    ASSUME Basic, NEW r \in Readers, SearchStep(r)
    PROVE  Basic'
<1> USE DEF Basic
<1>1. reranks \subseteq Rerank
    BY DEF TypeOK
<1>2. CASE Hit(r)
    <2>1. PICK got \in Result :
              /\ GetReranked(reader[r].key, got) \/ GetPlain(reader[r].key, got)
              /\ Gets(r, "check", got)
        BY <1>2 DEF Hit
    <2>2. Reading(r) /\ reader[r].pc = "lookup" /\ UNCHANGED <<store, writer, ambients, reranks, ghosts>>
        BY <1>2 DEF Hit, Reads
    <2>3. PICK k \in Keys : reader[r].key = k
        BY <2>2, Carried DEF Lookups
    <2>4. QueryType' /\ CacheAccounted'
        BY <2>1, <2>3, CachesTyped, GetKeeps
    <2>5. reader' \in [Readers -> Reader \union {Idle}] /\ Lookups'
        BY <2>1, <2>2, Getting, LookupsKept
    <2> QED
        BY <1>1, <2>2, <2>4, <2>5, AmbientAlone, BasicReads DEF Leaves
<1>3. CASE Miss(r)
    <2>1. /\ Reading(r) /\ reader[r].pc = "lookup" /\ GetNone(reader[r].key) /\ Goes(r, "retrieve")
          /\ UNCHANGED <<store, writer, ambients, reranks, ghosts>>
        BY <1>3 DEF Miss, Reads
    <2>2. PICK k \in Keys : reader[r].key = k
        BY <2>1, Carried DEF Lookups
    <2>3. PICK got \in Result : TRUE
        BY <2>1, Carried
    <2>4. QueryType' /\ CacheAccounted'
        BY <2>1, <2>2, CachesTyped, GetKeeps
    <2>5. reader' \in [Readers -> Reader \union {Idle}] /\ Lookups'
        BY <2>1, Going, LookupsKept
    <2> QED
        BY <1>1, <2>1, <2>4, <2>5, AmbientAlone, BasicReads DEF Leaves
<1>4. CASE Check(r)
    <2>1. /\ Reading(r) /\ Gets(r, "answered", Visible(reader[r].got))
          /\ UNCHANGED <<store, writer, query, ambients, reranks, ghosts>>
        BY <1>4 DEF Check, Reads
    <2>2. PICK got \in Result : Visible(reader[r].got) = got
        BY <2>1, Carried, VisibleTyped
    <2>3. reader' \in [Readers -> Reader \union {Idle}] /\ Lookups'
        BY <2>1, <2>2, Getting, LookupsKept
    <2> QED
        BY <1>1, <2>1, <2>3, QueryAlone, AmbientAlone, BasicReads DEF Leaves
<1>5. CASE Retrieve(r)
    <2>1. /\ Reading(r) /\ Gets(r, "filter", doc)
          /\ UNCHANGED <<store, writer, query, ambients, reranks, ghosts>>
        BY <1>5 DEF Retrieve, Reads
    <2>2. PICK got \in Result : doc = got
        BY DEF TypeOK
    <2>3. reader' \in [Readers -> Reader \union {Idle}] /\ Lookups'
        BY <2>1, <2>2, Getting, LookupsKept
    <2> QED
        BY <1>1, <2>1, <2>3, QueryAlone, AmbientAlone, BasicReads DEF Leaves
<1>6. CASE Filter(r)
    <2>1. /\ Reading(r) /\ Gets(r, "publish", Visible(reader[r].got))
          /\ UNCHANGED <<store, writer, query, ambients, ghosts>>
          /\ \/ UNCHANGED reranks
             \/ /\ reader[r].key # NoKey
                /\ reranks' = reranks \union
                      {[key |-> reader[r].key, gen |-> reader[r].gen,
                        got |-> Visible(reader[r].got)]}
        BY <1>6 DEF Filter, Reads
    <2>2. PICK got \in Result : Visible(reader[r].got) = got
        BY <2>1, Carried, VisibleTyped
    <2>3. reader' \in [Readers -> Reader \union {Idle}] /\ Lookups'
        BY <2>1, <2>2, Getting, LookupsKept
    <2>4. reranks' \subseteq Rerank
        <3>1. CASE UNCHANGED reranks
            BY <1>1, <3>1
        <3>2. CASE /\ reader[r].key # NoKey
                   /\ reranks' = reranks \union
                         {[key |-> reader[r].key, gen |-> reader[r].gen, got |-> got]}
            <4>1. reader[r].key \in Keys /\ reader[r].gen \in Nat
                BY <2>1, <3>2, Carried
            <4> QED
                BY <1>1, <3>2, <4>1 DEF Rerank
        <3> QED
            BY <2>1, <2>2, <3>1, <3>2
    <2> QED
        BY <2>1, <2>3, <2>4, QueryAlone, AmbientAlone, BasicReads DEF Leaves
<1>7. CASE Publish(r)
    <2>1. /\ Reading(r) /\ Goes(r, "answered")
          /\ UNCHANGED <<store, writer, ambients, reranks, ghosts>>
          /\ \/ UNCHANGED query
             \/ /\ reader[r].key # NoKey
                /\ InsertIfCurrent(Plain(reader[r].key), reader[r].gen, reader[r].got)
        BY <1>7 DEF Publish, Reads
    <2>2. reader' \in [Readers -> Reader \union {Idle}] /\ Lookups'
        BY <2>1, Going, LookupsKept
    <2>3. QueryType' /\ CacheAccounted'
        <3>1. CASE UNCHANGED query
            BY <3>1, QueryAlone
        <3>2. CASE /\ reader[r].key # NoKey
                   /\ Insert(Plain(reader[r].key), reader[r].got)
            <4>1. PICK slot \in Slots : Plain(reader[r].key) = slot
                BY <2>1, <3>2, Carried DEF Plain, Slots
            <4>2. PICK got \in Result : reader[r].got = got
                BY <2>1, Carried
            <4> QED
                BY <3>2, <4>1, <4>2, CachesTyped, InsertKeeps
        <3> QED
            BY <2>1, <3>1, <3>2 DEF InsertIfCurrent
    <2> QED
        BY <1>1, <2>1, <2>2, <2>3, AmbientAlone, BasicReads DEF Leaves
<1> QED
    BY <1>2, <1>3, <1>4, <1>5, <1>6, <1>7 DEF SearchStep

LEMMA BasicAmbient ==
    ASSUME Basic, NEW r \in Readers, AmbientStep(r)
    PROVE  Basic'
<1> USE DEF Basic
<1>1. reranks \subseteq Rerank
    BY DEF TypeOK
<1>2. CASE HitAmbient(r)
    <2>1. /\ Reading(r) /\ reader[r].pc = "lookup" /\ ambient[reader[r].key] # Empty
          /\ Gets(r, "answered", ambient[reader[r].key])
          /\ last_access' = Append(Without(last_access, reader[r].key), reader[r].key)
          /\ UNCHANGED <<store, writer, query, ambient, epoch, reranks, ghosts>>
        BY <1>2 DEF HitAmbient, Reads
    <2>2. PICK k \in Keys : reader[r].key = k
        BY <2>1, Carried DEF Lookups
    <2>3. PICK got \in Result : ambient[k] = got
        BY <2>1, <2>2 DEF TypeOK
    <2>4. AmbientType' /\ AmbientAccounted'
        BY <2>1, <2>2, CachesTyped, TouchKeeps
    <2>5. reader' \in [Readers -> Reader \union {Idle}] /\ Lookups'
        BY <2>1, <2>2, <2>3, Getting, LookupsKept
    <2> QED
        BY <1>1, <2>1, <2>4, <2>5, QueryAlone, BasicReads DEF Leaves
<1>3. CASE MissAmbient(r)
    <2>1. /\ Reading(r) /\ reader[r].pc = "lookup"
          /\ ambient' = [ambient EXCEPT ![reader[r].key] = Empty]
          /\ last_access' = Without(last_access, reader[r].key)
          /\ Goes(r, "retrieve")
          /\ UNCHANGED <<store, writer, query, epoch, reranks, ghosts>>
        BY <1>3 DEF MissAmbient, Reads
    <2>2. PICK k \in Keys : reader[r].key = k
        BY <2>1, Carried DEF Lookups
    <2>3. AmbientType' /\ AmbientAccounted'
        BY <2>1, <2>2, CachesTyped, ExpireKeeps
    <2>4. reader' \in [Readers -> Reader \union {Idle}] /\ Lookups'
        BY <2>1, Going, LookupsKept
    <2> QED
        BY <1>1, <2>1, <2>3, <2>4, QueryAlone, BasicReads DEF Leaves
<1>4. CASE RetrieveAmbient(r)
    <2>1. PICK got \in {doc, Nothing} : Gets(r, "publish", got)
        BY <1>4 DEF RetrieveAmbient
    <2>2. Reading(r) /\ UNCHANGED <<store, writer, query, ambients, reranks, ghosts>>
        BY <1>4 DEF RetrieveAmbient, Reads
    <2>3. got \in Result
        BY CachesAssumption DEF CachesAssumption, TypeOK, Nothing, Result, Versions
    <2>4. reader' \in [Readers -> Reader \union {Idle}] /\ Lookups'
        BY <2>1, <2>2, <2>3, Getting, LookupsKept
    <2> QED
        BY <1>1, <2>2, <2>4, QueryAlone, AmbientAlone, BasicReads DEF Leaves
<1>5. CASE PublishAmbient(r)
    <2>1. /\ Reading(r) /\ Goes(r, "answered")
          /\ IF reader[r].key = NoKey THEN UNCHANGED ambients
             ELSE PutIfCurrent(reader[r].key, reader[r].gen, reader[r].got)
          /\ UNCHANGED <<store, writer, query, reranks, ghosts>>
        BY <1>5 DEF PublishAmbient, Reads
    <2>2. reader' \in [Readers -> Reader \union {Idle}] /\ Lookups'
        BY <2>1, Going, LookupsKept
    <2>3. AmbientType' /\ AmbientAccounted'
        <3>1. CASE reader[r].key = NoKey
            BY <2>1, <3>1, AmbientAlone
        <3>2. CASE reader[r].key # NoKey
            <4>1. PICK k \in Keys : reader[r].key = k
                BY <2>1, <3>2, Carried
            <4>2. PICK gen \in Nat : reader[r].gen = gen
                BY <2>1, Carried
            <4>3. PICK got \in Result : reader[r].got = got
                BY <2>1, Carried
            <4> QED
                BY <2>1, <3>2, <4>1, <4>2, <4>3, CachesTyped, PutKeeps
        <3> QED
            BY <3>1, <3>2
    <2> QED
        BY <1>1, <2>1, <2>2, <2>3, QueryAlone, BasicReads DEF Leaves
<1> QED
    BY <1>2, <1>3, <1>4, <1>5 DEF AmbientStep

LEMMA BasicStep == Basic /\ [Next]_vars => Basic'
<1> SUFFICES ASSUME Basic, [Next]_vars PROVE Basic'
    OBVIOUS
<1>1. reranks \subseteq Rerank /\ reader \in [Readers -> Reader \union {Idle}]
    BY DEF Basic, TypeOK
<1>2. ASSUME NEW w \in Writers, HandlerStep(w) PROVE Basic'
    BY <1>2, BasicHandler
<1>3. ASSUME NEW r \in Readers, NEW op \in {"search", "ambient"},
             NEW key \in Keys \union {NoKey}, Begin(r, op, key)
      PROVE  Basic'
    <2>1. TypeOK /\ Lookups
        BY DEF Basic
    <2>2. /\ reader' \in [Readers -> Reader \union {Idle}]
          /\ UNCHANGED <<store, writer, query, ambients, reranks, ghosts>>
        BY <2>1, <1>3, Beginning
    <2>3. Lookups'
        BY <2>1, <1>3, Beginning DEF Lookups, Reading
    <2> QED
        BY <1>1, <2>2, <2>3, QueryAlone, AmbientAlone, BasicReads DEF Leaves
<1>4. ASSUME NEW r \in Readers, SearchStep(r) PROVE Basic'
    BY <1>4, BasicSearch
<1>5. ASSUME NEW r \in Readers, AmbientStep(r) PROVE Basic'
    BY <1>5, BasicAmbient
<1>6. ASSUME NEW r \in Readers, Answer(r) PROVE Basic'
    <2>1. /\ reader' = [reader EXCEPT ![r] = Idle]
          /\ UNCHANGED <<store, writer, query, ambients, reranks, ghosts>>
        BY <1>6 DEF Answer
    <2>2. reader' \in [Readers -> Reader \union {Idle}]
        BY <1>1, <2>1
    <2>3. Lookups'
        BY <1>1, <2>1 DEF Basic, Lookups, Reading
    <2> QED
        BY <1>1, <2>1, <2>2, <2>3, QueryAlone, AmbientAlone, BasicReads DEF Leaves
<1>7. ASSUME NEW j \in reranks, PublishReranked(j) PROVE Basic'
    <2>1. /\ InsertIfCurrent(Reranked(j.key), j.gen, j.got) /\ reranks' = reranks \ {j}
          /\ UNCHANGED <<store, writer, ambients, reader, ghosts>>
        BY <1>7 DEF PublishReranked
    <2>2. j.key \in Keys /\ j.got \in Result
        BY <1>1 DEF Rerank
    <2>3. QueryType' /\ CacheAccounted'
        <3>1. CASE UNCHANGED query
            BY <3>1, QueryAlone
        <3>2. CASE Insert(Reranked(j.key), j.got)
            <4>1. PICK slot \in Slots : Reranked(j.key) = slot
                BY <2>2 DEF Reranked, Slots
            <4>2. PICK got \in Result : j.got = got
                BY <2>2
            <4> QED
                BY <3>2, <4>1, <4>2, CachesTyped, InsertKeeps DEF Basic
        <3> QED
            BY <2>1, <3>1, <3>2 DEF InsertIfCurrent
    <2>4. Lookups'
        BY <2>1 DEF Basic, Lookups, Reading
    <2> QED
        BY <1>1, <2>1, <2>3, <2>4, AmbientAlone, BasicReads DEF Leaves
<1>8. ASSUME NEW j \in reranks, RerankFails(j) PROVE Basic'
    <2>1. /\ reranks' = reranks \ {j}
          /\ UNCHANGED <<store, writer, query, ambients, reader, ghosts>>
        BY <1>8 DEF RerankFails
    <2>2. Lookups'
        BY <2>1 DEF Basic, Lookups, Reading
    <2> QED
        BY <1>1, <2>1, <2>2, QueryAlone, AmbientAlone, BasicReads DEF Leaves
<1>9. CASE UNCHANGED vars
    <2>1. /\ UNCHANGED <<store, writer, query, ambients, ghosts>>
          /\ UNCHANGED reader /\ UNCHANGED reranks
        BY <1>9 DEF vars
    <2>2. Lookups'
        BY <2>1 DEF Basic, Lookups, Reading
    <2> QED
        BY <1>1, <2>1, <2>2, QueryAlone, AmbientAlone, BasicReads DEF Leaves
<1> QED
    BY <1>2, <1>3, <1>4, <1>5, <1>6, <1>7, <1>8, <1>9 DEF Next

\* In every reachable state the variables have their types.
THEOREM TypeCorrect == Spec => []TypeOK
<1>1. Basic => TypeOK
    BY DEF Basic
<1> QED
    BY <1>1, BasicInit, BasicStep, PTL DEF Spec

\* What QueryCache holds is what its list of uses names, each slot once, and
\* never more than max_entries (one, if that is zero): insert finds what to
\* evict, whatever was found, expired and cleared in between.
THEOREM QueryCacheAccounted == Spec => []CacheAccounted
<1>1. Basic => CacheAccounted
    BY DEF Basic
<1> QED
    BY <1>1, BasicInit, BasicStep, PTL DEF Spec

\* The same of AmbientCache and put_if_current.
THEOREM AmbientCacheAccounted == Spec => []AmbientAccounted
<1>1. Basic => AmbientAccounted
    BY DEF Basic
<1> QED
    BY <1>1, BasicInit, BasicStep, PTL DEF Spec

-----------------------------------------------------------------------------
(* What handlers have written and promised *)

Writing == {"store", "update"}
Removing == {"api_delete", "purge_chunk", "api_purge"}
Pcs(op) == CASE op \in {"delete", "purge"} -> {"ambient", "query", "index", "ack"}
             [] op = "mcp_delete" -> {"index", "ack"}
             [] op = "retire" -> {"ack"}
             [] OTHER -> {"index", "ambient", "query", "ack"}

\* A handler of that kind is there on the memory.
At(m, ops, pcs) ==
    \E w \in Writers : /\ Changing(w) /\ writer[w].mem = m
                       /\ writer[w].op \in ops /\ writer[w].pc \in pcs
\* The memory is out of both stores, or a handler that took it out is there.
Out(m, pcs) ==
    \/ m \in promised.out
    \/ \E w \in Writers : /\ Changing(w) /\ writer[w].mem = m /\ writer[w].ok
                          /\ writer[w].op \in Removing /\ writer[w].pc \in pcs

HandlingAt(w) ==
    Changing(w) =>
        /\ writer[w].pc \in Pcs(writer[w].op)
        /\ chunk[writer[w].mem].ver > 0
        /\ writer[w].op \notin Writing => ~Live(writer[w].mem)
        /\ writer[w].op \in Removing => chunk[writer[w].mem].state \in {"deleted", "absent"}
        /\ ~writer[w].ok => writer[w].mem \in lost
Handling ==
    /\ \A w \in Writers : HandlingAt(w)
    /\ \A v, w \in Writers : Changing(v) /\ Changing(w) /\ writer[v].mem = writer[w].mem => v = w

KeptAt(m) ==
    /\ promised.fresh[m] <= chunk[m].ver
    /\ chunk[m].ver = 0 => chunk[m].state = "absent" /\ doc[m] = 0
    /\ m \in promised.gone => ~Live(m) /\ chunk[m].ver > 0
    /\ (doc[m] # 0 \/ Live(m)) /\ m \notin lost =>
          /\ promised.fresh[m] <= doc[m]
          /\ ~At(m, Writing, {"index"}) => doc[m] = chunk[m].ver
    /\ Out(m, {"ambient", "query", "ack"}) =>
          /\ doc[m] = 0 /\ chunk[m].ver > 0
          /\ chunk[m].state \in {"deleted", "absent"}
Kept == \A m \in Mems : KeptAt(m)

\* The content a current entry of the query cache does not fall behind, and
\* one of the ambient cache.
Bound(m) ==
    IF ~Live(m) \/ m \in lost THEN 0
    ELSE IF At(m, Writing, {"ack"}) THEN chunk[m].ver ELSE promised.fresh[m]
BoundA(m) ==
    IF m \in lost THEN 0
    ELSE IF At(m, Writing, {"query", "ack"}) THEN chunk[m].ver ELSE promised.fresh[m]

\* A step of w that touches m and no other memory.
On(w, m) ==
    /\ \A v \in Writers \ {w} : writer'[v] = writer[v] /\ (Changing(v) => writer[v].mem # m)
    /\ Changing(w) => writer[w].mem = m
    /\ Changing(w)' => writer'[w].mem = m
    /\ \A n \in Mems \ {m} :
          /\ chunk'[n] = chunk[n] /\ doc'[n] = doc[n]
          /\ promised'.fresh[n] = promised.fresh[n]
          /\ n \in promised'.gone <=> n \in promised.gone
          /\ n \in promised'.out <=> n \in promised.out
          /\ n \in lost' <=> n \in lost

LEMMA AtOther ==
    ASSUME NEW w \in Writers, NEW m \in Mems, On(w, m), NEW n \in Mems \ {m}, NEW ops, NEW pcs
    PROVE  /\ At(n, ops, pcs)' <=> At(n, ops, pcs)
           /\ Out(n, pcs)' <=> Out(n, pcs)
<1>1. \A v \in Writers : (Changing(v)' /\ writer'[v].mem = n) => v # w /\ writer'[v] = writer[v]
    BY DEF On, Changing
<1>2. \A v \in Writers : (Changing(v) /\ writer[v].mem = n) => v # w /\ writer'[v] = writer[v]
    BY DEF On, Changing
<1>3. n \in promised'.out <=> n \in promised.out
    BY DEF On
<1>4. At(n, ops, pcs)' <=> At(n, ops, pcs)
    BY <1>1, <1>2 DEF At, Changing
<1>5. Out(n, pcs)' <=> Out(n, pcs)
    BY <1>1, <1>2, <1>3 DEF Out, Changing
<1> QED
    BY <1>4, <1>5

LEMMA AtThis ==
    ASSUME NEW w \in Writers, NEW m \in Mems, On(w, m), NEW ops, NEW pcs
    PROVE  /\ At(m, ops, pcs) <=> Changing(w) /\ writer[w].op \in ops /\ writer[w].pc \in pcs
           /\ At(m, ops, pcs)' <=> /\ writer'[w] # Idle
                                   /\ writer'[w].op \in ops /\ writer'[w].pc \in pcs
           /\ Out(m, pcs) <=> \/ m \in promised.out
                              \/ /\ Changing(w) /\ writer[w].ok
                                 /\ writer[w].op \in Removing /\ writer[w].pc \in pcs
           /\ Out(m, pcs)' <=> \/ m \in promised'.out
                               \/ /\ writer'[w] # Idle /\ writer'[w].ok
                                  /\ writer'[w].op \in Removing /\ writer'[w].pc \in pcs
<1>1. \A v \in Writers : Changing(v) /\ writer[v].mem = m => v = w
    BY DEF On
<1>2. \A v \in Writers : Changing(v)' /\ writer'[v].mem = m => v = w
    BY DEF On, Changing
<1>3. (Changing(w) => writer[w].mem = m) /\ (Changing(w)' => writer'[w].mem = m)
    BY DEF On
<1>4. Changing(w)' <=> writer'[w] # Idle
    BY DEF Changing
<1>5. At(m, ops, pcs) <=> Changing(w) /\ writer[w].op \in ops /\ writer[w].pc \in pcs
    BY <1>1, <1>3 DEF At
<1>6. At(m, ops, pcs)' <=> /\ writer'[w] # Idle
                           /\ writer'[w].op \in ops /\ writer'[w].pc \in pcs
    BY <1>2, <1>3, <1>4 DEF At
<1>7. Out(m, pcs) <=> \/ m \in promised.out
                      \/ /\ Changing(w) /\ writer[w].ok
                         /\ writer[w].op \in Removing /\ writer[w].pc \in pcs
    BY <1>1, <1>3 DEF Out
<1>8. Out(m, pcs)' <=> \/ m \in promised'.out
                       \/ /\ writer'[w] # Idle /\ writer'[w].ok
                          /\ writer'[w].op \in Removing /\ writer'[w].pc \in pcs
    BY <1>2, <1>3, <1>4 DEF Out
<1> QED
    BY <1>5, <1>6, <1>7, <1>8

\* What a step of a handler does at its memory is all it does.
LEMMA OnlyThere ==
    ASSUME Basic, Handling, Kept, NEW w \in Writers, NEW m \in Mems, On(w, m),
           HandlingAt(w)', KeptAt(m)'
    PROVE  /\ Handling' /\ Kept'
           /\ \A n \in Mems \ {m} : /\ Bound(n)' = Bound(n) /\ BoundA(n)' = BoundA(n)
                                    /\ \A pcs : Out(n, pcs)' <=> Out(n, pcs)
<1>1. Handling'
    <2>1. ASSUME NEW v \in Writers, v # w
          PROVE  HandlingAt(v)'
        <3>1. writer'[v] = writer[v] /\ (Changing(v) => writer[v].mem \in Mems \ {m})
            BY <2>1, Working DEF On, Basic
        <3>2. HandlingAt(v)
            BY DEF Handling
        <3>3. ASSUME Changing(v)
              PROVE  /\ chunk'[writer[v].mem] = chunk[writer[v].mem]
                     /\ writer[v].mem \in lost => writer[v].mem \in lost'
            BY <3>1, <3>3 DEF On
        <3> QED
            BY <3>1, <3>2, <3>3 DEF HandlingAt, Changing, Live
    <2>2. ASSUME NEW v \in Writers, NEW u \in Writers,
                 Changing(v)', Changing(u)', writer'[v].mem = writer'[u].mem
          PROVE  v = u
        <3>1. \A x \in Writers \ {w} : writer'[x] = writer[x] /\ (Changing(x) => writer[x].mem # m)
            BY DEF On
        <3>2. Changing(w)' => writer'[w].mem = m
            BY DEF On
        <3> QED
            BY <3>1, <3>2, <2>2 DEF Handling, Changing
    <2> QED
        BY <2>1, <2>2 DEF Handling
<1>2. ASSUME NEW n \in Mems \ {m}
      PROVE  /\ KeptAt(n)'
             /\ Bound(n)' = Bound(n) /\ BoundA(n)' = BoundA(n)
    <2>1. /\ chunk'[n] = chunk[n] /\ doc'[n] = doc[n]
          /\ promised'.fresh[n] = promised.fresh[n]
          /\ n \in promised'.gone <=> n \in promised.gone
          /\ n \in lost' <=> n \in lost
        BY DEF On
    <2>2. /\ At(n, Writing, {"index"})' <=> At(n, Writing, {"index"})
          /\ At(n, Writing, {"ack"})' <=> At(n, Writing, {"ack"})
          /\ At(n, Writing, {"query", "ack"})' <=> At(n, Writing, {"query", "ack"})
          /\ Out(n, {"ambient", "query", "ack"})' <=> Out(n, {"ambient", "query", "ack"})
        BY AtOther
    <2>3. Live(n)' <=> Live(n)
        BY <2>1 DEF Live
    <2>4. KeptAt(n)
        BY DEF Kept
    <2>5. KeptAt(n)'
        BY <2>1, <2>2, <2>3, <2>4 DEF KeptAt
    <2>6. Bound(n)' = Bound(n)
        BY <2>1, <2>2, <2>3 DEF Bound
    <2>7. BoundA(n)' = BoundA(n)
        BY <2>1, <2>2 DEF BoundA
    <2> QED
        BY <2>5, <2>6, <2>7
<1>3. Kept'
    BY <1>2 DEF Kept
<1>4. \A n \in Mems \ {m} : \A pcs : Out(n, pcs)' <=> Out(n, pcs)
    BY AtOther
<1> QED
    BY <1>1, <1>2, <1>3, <1>4

\* What every step of a handler leaves true at its memory.
Here(w, m) ==
    /\ On(w, m) /\ HandlingAt(w)' /\ KeptAt(m)'
    /\ promised.fresh[m] <= promised'.fresh[m]
    /\ m \in promised.gone => m \in promised'.gone
    /\ m \in promised.out => m \in promised'.out
    /\ m \in lost => m \in lost'
    /\ Live(m)' /\ m \notin lost' => (Live(m) /\ m \notin lost) \/ promised.fresh[m] = 0
BoundFalls(m) == Bound(m)' <= Bound(m)
BoundAFalls(m) ==
    /\ BoundA(m)' <= BoundA(m)
    /\ Out(m, {"query", "ack"})' => Out(m, {"query", "ack"})

LEMMA StoreHere ==
    ASSUME Basic, Handling, Kept, NEW w \in Writers, NEW op \in Ops, NEW m \in Mems,
           Store(w, op, m)
    PROVE  Here(w, m) /\ BoundFalls(m) /\ BoundAFalls(m)
<1>1. /\ op \in AllOps
      /\ writer[w] = Idle /\ \A v \in Writers : Changing(v) => writer[v].mem # m
      /\ Storable(op, chunk[m]) /\ chunk'[m] = Stored(op, chunk[m])
      /\ \A n \in Mems \ {m} : chunk'[n] = chunk[n]
      /\ \A v \in Writers \ {w} : writer'[v] = writer[v]
      /\ writer'[w] # Idle /\ writer'[w].op = op /\ writer'[w].mem = m
      /\ writer'[w].ok = TRUE /\ writer'[w].pc = AfterStore(op)
      /\ doc' = doc /\ promised' = promised /\ lost' = lost
    <2>1. TypeOK
        BY DEF Basic
    <2>2. op \in AllOps /\ writer[w] = Idle /\ Storable(op, chunk[m])
        BY <2>1, Storing
    <2>3. \A v \in Writers : Changing(v) => writer[v].mem # m
        BY DEF Store
    <2>4. chunk'[m] = Stored(op, chunk[m]) /\ \A n \in Mems \ {m} : chunk'[n] = chunk[n]
        BY <2>1 DEF Store, TypeOK
    <2>5. \A v \in Writers \ {w} : writer'[v] = writer[v]
        BY <2>1, Storing
    <2>6. /\ writer'[w] # Idle /\ writer'[w].op = op /\ writer'[w].mem = m
          /\ writer'[w].ok = TRUE /\ writer'[w].pc = AfterStore(op)
        BY <2>1, Storing
    <2>7. doc' = doc /\ promised' = promised /\ lost' = lost
        BY <2>1, Storing DEF ghosts
    <2> QED
        BY <2>2, <2>3, <2>4, <2>5, <2>6, <2>7
<1>2. On(w, m)
    BY <1>1 DEF On, Changing
<1>3. /\ chunk[m] \in Chunk /\ chunk[m].ver \in Nat /\ doc[m] \in Nat /\ promised.fresh[m] \in Nat
      /\ chunk[m].state \in {"absent", "live", "retired", "deleted"}
    BY Contents DEF Basic
<1>4. /\ chunk'[m] \in Chunk
      /\ op = "store" => /\ chunk[m].ver = 0
                         /\ chunk'[m].ver = 1 /\ chunk'[m].state = "live"
      /\ op = "update" => /\ chunk'[m].ver = chunk[m].ver + 1
                          /\ chunk'[m].state = chunk[m].state /\ chunk[m].state # "absent"
      /\ op \notin Writing =>
            /\ chunk'[m].ver = chunk[m].ver /\ chunk[m].state # "absent"
            /\ chunk'[m].state \in {"retired", "deleted", "absent"}
      /\ op = "retire" => chunk[m].state = "live"
      /\ op \notin Writing \union {"retire"} => chunk'[m].state \in {"deleted", "absent"}
    BY <1>1, <1>3, StoredTyped DEF Writing
<1>5. /\ AfterStore(op) \in Pcs(op)
      /\ op \in Writing \union Removing => AfterStore(op) = "index"
    BY <1>1 DEF AfterStore, Pcs, AllOps, Writing, Removing
<1>6. KeptAt(m) /\ (chunk[m].ver = 0 => chunk[m].state = "absent")
    BY DEF Kept, KeptAt
<1>7. /\ ~At(m, Writing, {"index"}) /\ (op \in Writing => At(m, Writing, {"index"})')
      /\ ~At(m, Writing, {"ack"}) /\ ~At(m, Writing, {"ack"})'
      /\ ~At(m, Writing, {"query", "ack"}) /\ ~At(m, Writing, {"query", "ack"})'
    BY <1>1, <1>2, <1>5, AtThis DEF Changing
<1>8. /\ Out(m, {"ambient", "query", "ack"})' <=> Out(m, {"ambient", "query", "ack"})
      /\ Out(m, {"query", "ack"})' <=> Out(m, {"query", "ack"})
    <2>1. ~Changing(w) /\ (op \in Removing => writer'[w].pc = "index")
        BY <1>1, <1>5 DEF Changing
    <2>2. ASSUME NEW pcs, "index" \notin pcs
          PROVE  Out(m, pcs)' <=> Out(m, pcs)
        BY <1>1, <1>2, <2>1, <2>2, AtThis
    <2> QED
        BY <2>2
<1>9. Live(m)' => Live(m) \/ promised.fresh[m] = 0
    <2>1. op = "store" => promised.fresh[m] = 0
        BY <1>3, <1>4, <1>6 DEF KeptAt
    <2> QED
        BY <2>1, <1>4 DEF Live, Writing
<1>10. HandlingAt(w)'
    <2>1. chunk'[m].ver > 0
        BY <1>3, <1>4, <1>6 DEF Writing
    <2>2. op \notin Writing => ~Live(m)'
        BY <1>4 DEF Live
    <2>3. op \in Removing => chunk'[m].state \in {"deleted", "absent"}
        BY <1>4 DEF Writing, Removing
    <2> QED
        BY <1>1, <1>5, <2>1, <2>2, <2>3 DEF HandlingAt, Live
<1>11. KeptAt(m)'
    <2>1. promised'.fresh[m] <= chunk'[m].ver
        BY <1>1, <1>3, <1>4, <1>6 DEF KeptAt, Writing
    <2>2. chunk'[m].ver # 0
        BY <1>3, <1>4, <1>6 DEF Writing
    <2>3. m \in promised'.gone => ~Live(m)' /\ chunk'[m].ver > 0
        BY <1>1, <1>3, <1>4, <1>6 DEF KeptAt, Live, Writing
    <2>4. ASSUME doc'[m] # 0 \/ Live(m)', m \notin lost'
          PROVE  /\ promised'.fresh[m] <= doc'[m]
                 /\ ~At(m, Writing, {"index"})' => doc'[m] = chunk'[m].ver
        <3>1. CASE op = "store"
            BY <3>1, <2>4, <1>1, <1>3, <1>4, <1>6, <1>7 DEF KeptAt, Writing
        <3>2. CASE op = "update"
            BY <3>2, <2>4, <1>1, <1>3, <1>4, <1>6, <1>7 DEF KeptAt, Writing, Live
        <3>3. CASE op \notin Writing
            BY <3>3, <2>4, <1>1, <1>3, <1>4, <1>6, <1>7 DEF KeptAt, Live
        <3> QED
            BY <3>1, <3>2, <3>3 DEF Writing
    <2>5. Out(m, {"ambient", "query", "ack"})' =>
             /\ doc'[m] = 0 /\ chunk'[m].ver > 0
             /\ chunk'[m].state \in {"deleted", "absent"}
        BY <1>1, <1>3, <1>4, <1>6, <1>8 DEF KeptAt, Writing
    <2> QED
        BY <2>1, <2>2, <2>3, <2>4, <2>5 DEF KeptAt
<1>12. BoundFalls(m)
    BY <1>1, <1>3, <1>7, <1>9 DEF BoundFalls, Bound
<1>13. BoundAFalls(m)
    BY <1>1, <1>3, <1>7, <1>8 DEF BoundAFalls, BoundA
<1> QED
    BY <1>1, <1>2, <1>3, <1>9, <1>10, <1>11, <1>12, <1>13 DEF Here

LEMMA IndexWriteHere ==
    ASSUME Basic, Handling, Kept, NEW w \in Writers, IndexWrite(w)
    PROVE  \E m \in Mems : Here(w, m) /\ BoundFalls(m) /\ BoundAFalls(m)
<1>1. /\ Changing(w) /\ writer[w].pc = "index"
      /\ doc'[writer[w].mem] = Document(writer[w].mem)
      /\ \A n \in Mems \ {writer[w].mem} : doc'[n] = doc[n]
      /\ writer' = [writer EXCEPT ![w].pc = AfterIndex(writer[w].op)]
      /\ chunk' = chunk /\ promised' = promised /\ lost' = lost
    BY Indexing DEF Basic, ghosts
<1>2. PICK m \in Mems : writer[w].mem = m
    BY <1>1, Working DEF Basic
<1>3. PICK op \in AllOps : writer[w].op = op
    BY <1>1, Working DEF Basic
<1>4. PICK p \in {"index", "ambient", "query", "ack"} : AfterIndex(op) = p
    BY DEF AfterIndex
<1>5. /\ \A v \in Writers \ {w} : writer'[v] = writer[v]
      /\ writer'[w] # Idle /\ writer'[w].pc = p
      /\ writer'[w].op = op /\ writer'[w].mem = m /\ writer'[w].ok = writer[w].ok
    BY <1>1, <1>2, <1>3, <1>4, Moving DEF Basic
<1>6. On(w, m)
    BY <1>1, <1>2, <1>5 DEF On, Changing, Handling
<1>7. /\ chunk[m].ver \in Nat /\ doc[m] \in Nat /\ promised.fresh[m] \in Nat
      /\ chunk[m].state \in {"absent", "live", "retired", "deleted"}
    BY Contents DEF Basic
<1>8. /\ "index" \in Pcs(op)
      /\ chunk[m].ver > 0
      /\ op \notin Writing => ~Live(m)
      /\ op \in Removing => chunk[m].state \in {"deleted", "absent"}
      /\ ~writer[w].ok => m \in lost
    BY <1>1, <1>2, <1>3 DEF Handling, HandlingAt
<1>9. /\ p \in Pcs(op)
      /\ op \in Writing \union Removing => p = "ambient"
    BY <1>4, <1>8 DEF AfterIndex, Pcs, AllOps, Writing, Removing
<1>10. KeptAt(m)
    BY DEF Kept
<1>11. /\ ~At(m, Writing, {"ack"}) /\ ~At(m, Writing, {"ack"})'
       /\ ~At(m, Writing, {"query", "ack"}) /\ ~At(m, Writing, {"query", "ack"})'
    BY <1>1, <1>5, <1>6, <1>9, AtThis
<1>12. /\ Out(m, {"query", "ack"})' <=> Out(m, {"query", "ack"})
       /\ Out(m, {"ambient", "query", "ack"})' => op \in Removing \/ m \in promised.out
       /\ m \in promised.out => Out(m, {"ambient", "query", "ack"})
    BY <1>1, <1>3, <1>5, <1>6, <1>9, AtThis
<1>13. Live(m)' <=> Live(m)
    BY <1>1 DEF Live
<1>14. HandlingAt(w)'
    BY <1>1, <1>5, <1>8, <1>9, <1>13 DEF HandlingAt
<1>15. KeptAt(m)'
    <2>1. doc'[m] = IF chunk[m].state \in {"live", "retired"} THEN chunk[m].ver ELSE 0
        BY <1>1, <1>2 DEF Document
    <2>2. ASSUME doc'[m] # 0 \/ Live(m)'
          PROVE  doc'[m] = chunk'[m].ver
        BY <2>1, <2>2, <1>1, <1>13 DEF Live
    <2>3. Out(m, {"ambient", "query", "ack"})' =>
             /\ doc'[m] = 0 /\ chunk'[m].ver > 0
             /\ chunk'[m].state \in {"deleted", "absent"}
        BY <2>1, <1>1, <1>8, <1>10, <1>12 DEF KeptAt
    <2>4. promised'.fresh[m] <= chunk'[m].ver
        BY <1>1, <1>10 DEF KeptAt
    <2>5. m \in promised'.gone => ~Live(m)' /\ chunk'[m].ver > 0
        BY <1>1, <1>10, <1>13 DEF KeptAt
    <2>6. chunk'[m].ver # 0
        BY <1>1, <1>7, <1>8
    <2> QED
        BY <2>2, <2>3, <2>4, <2>5, <2>6 DEF KeptAt
<1>16. BoundFalls(m)
    BY <1>1, <1>7, <1>11, <1>13 DEF BoundFalls, Bound
<1>17. BoundAFalls(m)
    BY <1>1, <1>7, <1>11, <1>12 DEF BoundAFalls, BoundA
<1>18. Here(w, m)
    BY <1>1, <1>6, <1>7, <1>13, <1>14, <1>15 DEF Here
<1> QED
    BY <1>16, <1>17, <1>18

LEMMA IndexFailsHere ==
    ASSUME Basic, Handling, Kept, NEW w \in Writers, IndexFails(w)
    PROVE  \E m \in Mems : Here(w, m) /\ BoundFalls(m) /\ BoundAFalls(m)
<1>1. PICK m \in Mems : writer[w].mem = m
    BY Failing, Working DEF Basic
<1>2. PICK op \in AllOps : writer[w].op = op
    BY Failing, Working DEF Basic
<1>3. /\ Changing(w) /\ writer[w].pc = "index"
      /\ doc'[m] \in {doc[m], 0}
      /\ \A n \in Mems \ {m} : doc'[n] = doc[n]
      /\ lost' = lost \union {m}
      /\ \A v \in Writers \ {w} : writer'[v] = writer[v]
      /\ \/ writer'[w] = Idle
         \/ /\ writer'[w] # Idle /\ writer'[w].pc = AfterIndex(op)
            /\ writer'[w].op = op /\ writer'[w].mem = m
            /\ writer'[w].ok = FALSE /\ op \notin {"store", "delete", "purge"}
      /\ chunk' = chunk /\ promised' = promised
    BY <1>1, <1>2, Failing DEF Basic
<1>4. On(w, m)
    BY <1>1, <1>3 DEF On, Changing, Handling
<1>5. /\ chunk[m].ver \in Nat /\ doc[m] \in Nat /\ promised.fresh[m] \in Nat
    BY Contents DEF Basic
<1>6. /\ "index" \in Pcs(op)
      /\ chunk[m].ver > 0
      /\ op \notin Writing => ~Live(m)
      /\ op \in Removing => chunk[m].state \in {"deleted", "absent"}
    BY <1>1, <1>2, <1>3 DEF Handling, HandlingAt
<1>7. op \notin {"store", "delete", "purge"} => AfterIndex(op) \in Pcs(op)
    BY <1>6 DEF AfterIndex, Pcs, AllOps
<1>8. KeptAt(m)
    BY DEF Kept
<1>9. /\ Out(m, {"query", "ack"})' => m \in promised.out
      /\ Out(m, {"ambient", "query", "ack"})' => m \in promised.out
      /\ m \in promised.out => /\ Out(m, {"query", "ack"})
                               /\ Out(m, {"ambient", "query", "ack"})
    BY <1>3, <1>4, AtThis
<1>10. Live(m)' <=> Live(m)
    BY <1>3 DEF Live
<1>11. HandlingAt(w)'
    BY <1>3, <1>6, <1>7, <1>10 DEF HandlingAt, Changing
<1>12. KeptAt(m)'
    BY <1>3, <1>5, <1>6, <1>8, <1>9, <1>10 DEF KeptAt
<1>13. BoundFalls(m) /\ BoundAFalls(m)
    <2>1. /\ Bound(m)' = 0 /\ BoundA(m)' = 0
          /\ Out(m, {"query", "ack"})' => Out(m, {"query", "ack"})
        BY <1>3, <1>9 DEF Bound, BoundA
    <2>2. 0 <= Bound(m) /\ 0 <= BoundA(m)
        BY <1>5 DEF Bound, BoundA
    <2> QED
        BY <2>1, <2>2 DEF BoundFalls, BoundAFalls
<1>14. Here(w, m)
    BY <1>3, <1>4, <1>5, <1>10, <1>11, <1>12 DEF Here
<1> QED
    BY <1>13, <1>14

LEMMA ClearHere ==
    ASSUME Basic, Handling, Kept, NEW w \in Writers, ClearAmbient(w) \/ ClearQuery(w)
    PROVE  \E m \in Mems : /\ Here(w, m)
                           /\ ClearAmbient(w) => BoundFalls(m)
                           /\ ClearQuery(w) => BoundAFalls(m)
<1>1. /\ Changing(w)
      /\ \/ ClearAmbient(w) /\ writer[w].pc = "ambient"
            /\ writer' = [writer EXCEPT ![w].pc = "query"]
         \/ ClearQuery(w) /\ writer[w].pc = "query"
            /\ writer' = [writer EXCEPT ![w].pc = AfterClear(writer[w].op)]
      /\ chunk' = chunk /\ doc' = doc /\ promised' = promised /\ lost' = lost
    BY DEF ClearAmbient, ClearQuery, store, ghosts
<1>2. PICK m \in Mems : writer[w].mem = m
    BY <1>1, Working DEF Basic
<1>3. PICK op \in AllOps : writer[w].op = op
    BY <1>1, Working DEF Basic
<1>4. PICK c \in {"ambient", "query"} :
          /\ writer[w].pc = c
          /\ ClearAmbient(w) => c = "ambient"
          /\ ClearQuery(w) => c = "query"
    BY <1>1 DEF ClearAmbient, ClearQuery
<1>5. PICK p \in {"index", "ambient", "query", "ack"} :
          p = IF c = "ambient" THEN "query" ELSE AfterClear(op)
    BY DEF AfterClear
<1>6. writer' = [writer EXCEPT ![w].pc = p]
    BY <1>1, <1>3, <1>4, <1>5
<1>7. /\ \A v \in Writers \ {w} : writer'[v] = writer[v]
      /\ writer'[w] # Idle /\ writer'[w].pc = p
      /\ writer'[w].op = op /\ writer'[w].mem = m /\ writer'[w].ok = writer[w].ok
    BY <1>1, <1>2, <1>3, <1>6, Moving DEF Basic
<1>8. On(w, m)
    BY <1>1, <1>2, <1>7 DEF On, Changing, Handling
<1>9. /\ chunk[m].ver \in Nat /\ doc[m] \in Nat /\ promised.fresh[m] \in Nat
    BY Contents DEF Basic
<1>10. /\ c \in Pcs(op)
       /\ chunk[m].ver > 0
       /\ op \notin Writing => ~Live(m)
       /\ op \in Removing => chunk[m].state \in {"deleted", "absent"}
       /\ ~writer[w].ok => m \in lost
    BY <1>1, <1>2, <1>3, <1>4 DEF Handling, HandlingAt
<1>11. /\ p \in Pcs(op)
       /\ op \in Writing \union Removing => p = IF c = "ambient" THEN "query" ELSE "ack"
    BY <1>5, <1>10 DEF AfterClear, Pcs, AllOps, Writing, Removing
<1>12. /\ At(m, Writing, {"index"}) <=> Changing(w) /\ op \in Writing /\ c \in {"index"}
       /\ At(m, Writing, {"index"})' <=> op \in Writing /\ p \in {"index"}
       /\ At(m, Writing, {"ack"}) <=> Changing(w) /\ op \in Writing /\ c \in {"ack"}
       /\ At(m, Writing, {"ack"})' <=> op \in Writing /\ p \in {"ack"}
       /\ At(m, Writing, {"query", "ack"}) <=> Changing(w) /\ op \in Writing /\ c \in {"query", "ack"}
       /\ At(m, Writing, {"query", "ack"})' <=> op \in Writing /\ p \in {"query", "ack"}
    BY <1>3, <1>4, <1>7, <1>8, AtThis
<1>13. /\ Out(m, {"ambient", "query", "ack"})' => Out(m, {"ambient", "query", "ack"})
       /\ c = "query" => (Out(m, {"query", "ack"})' => Out(m, {"query", "ack"}))
    BY <1>1, <1>3, <1>4, <1>7, <1>8, <1>11, AtThis
<1>14. KeptAt(m)
    BY DEF Kept
<1>15. Live(m)' <=> Live(m)
    BY <1>1 DEF Live
<1>16. HandlingAt(w)'
    BY <1>1, <1>7, <1>10, <1>11, <1>15 DEF HandlingAt
<1>17. KeptAt(m)'
    <2>1. ~At(m, Writing, {"index"}) /\ ~At(m, Writing, {"index"})'
        BY <1>11, <1>12
    <2> QED
        BY <2>1, <1>1, <1>13, <1>14, <1>15 DEF KeptAt
<1>18. Here(w, m)
    BY <1>1, <1>8, <1>9, <1>15, <1>16, <1>17 DEF Here
<1>19. ASSUME ClearAmbient(w)
       PROVE  BoundFalls(m)
    <2>1. ~At(m, Writing, {"ack"}) /\ ~At(m, Writing, {"ack"})'
        BY <1>4, <1>11, <1>12, <1>19
    <2> QED
        BY <2>1, <1>1, <1>9, <1>15 DEF BoundFalls, Bound
<1>20. ASSUME ClearQuery(w)
       PROVE  BoundAFalls(m)
    <2>1. At(m, Writing, {"query", "ack"})' <=> At(m, Writing, {"query", "ack"})
        BY <1>1, <1>4, <1>11, <1>12, <1>20
    <2> QED
        BY <2>1, <1>1, <1>4, <1>9, <1>13, <1>20 DEF BoundAFalls, BoundA
<1> QED
    BY <1>18, <1>19, <1>20

LEMMA AcknowledgeHere ==
    ASSUME Basic, Handling, Kept, NEW w \in Writers, Acknowledge(w)
    PROVE  \E m \in Mems : Here(w, m) /\ BoundFalls(m) /\ BoundAFalls(m)
<1>1. PICK m \in Mems : writer[w].mem = m
    BY Promising, Working DEF Basic
<1>2. PICK op \in AllOps : writer[w].op = op
    BY Promising, Working DEF Basic
<1>3. PICK ok \in BOOLEAN : writer[w].ok = ok
    BY Promising, Working DEF Basic
<1>4. /\ Changing(w) /\ writer[w].pc = "ack"
      /\ promised'.fresh[m] = IF op \in Writing /\ ok THEN chunk[m].ver ELSE promised.fresh[m]
      /\ \A n \in Mems \ {m} : promised'.fresh[n] = promised.fresh[n]
      /\ promised'.gone = IF op \in Writing THEN promised.gone ELSE promised.gone \union {m}
      /\ promised'.out = IF op \in Removing /\ ok THEN promised.out \union {m} ELSE promised.out
      /\ \A v \in Writers \ {w} : writer'[v] = writer[v]
      /\ writer'[w] = Idle
      /\ chunk' = chunk /\ doc' = doc /\ lost' = lost
    BY <1>1, <1>2, <1>3, Promising DEF Basic, store, Writing, Removing
<1>5. On(w, m)
    BY <1>1, <1>4 DEF On, Changing, Handling
<1>6. /\ chunk[m].ver \in Nat /\ doc[m] \in Nat /\ promised.fresh[m] \in Nat
    BY Contents DEF Basic
<1>7. /\ chunk[m].ver > 0
      /\ op \notin Writing => ~Live(m)
      /\ ~ok => m \in lost
    BY <1>1, <1>2, <1>3, <1>4 DEF Handling, HandlingAt
<1>8. KeptAt(m)
    BY DEF Kept
<1>9. /\ ~At(m, Writing, {"index"})
      /\ At(m, Writing, {"ack"}) <=> op \in Writing
      /\ At(m, Writing, {"query", "ack"}) <=> op \in Writing
      /\ ~At(m, Writing, {"ack"})' /\ ~At(m, Writing, {"query", "ack"})'
    BY <1>2, <1>4, <1>5, AtThis
<1>10. /\ Out(m, {"query", "ack"})' => Out(m, {"query", "ack"})
       /\ Out(m, {"ambient", "query", "ack"})' => Out(m, {"ambient", "query", "ack"})
    <2>1. m \in promised'.out => m \in promised.out \/ (op \in Removing /\ ok)
        BY <1>4
    <2>2. /\ Out(m, {"query", "ack"})' => m \in promised'.out
          /\ Out(m, {"ambient", "query", "ack"})' => m \in promised'.out
        BY <1>4, <1>5, AtThis
    <2>3. ASSUME NEW pcs, "ack" \in pcs, m \in promised.out \/ (op \in Removing /\ ok)
          PROVE  Out(m, pcs)
        BY <2>3, <1>2, <1>3, <1>4, <1>5, AtThis
    <2> QED
        BY <2>1, <2>2, <2>3
<1>11. Live(m)' <=> Live(m)
    BY <1>4 DEF Live
<1>12. HandlingAt(w)'
    BY <1>4 DEF HandlingAt, Changing
<1>13. KeptAt(m)'
    <2>1. promised'.fresh[m] <= chunk'[m].ver
        BY <1>4, <1>6, <1>8 DEF KeptAt
    <2>2. m \in promised'.gone => ~Live(m)' /\ chunk'[m].ver > 0
        BY <1>4, <1>7, <1>8, <1>11 DEF KeptAt
    <2>3. ASSUME doc'[m] # 0 \/ Live(m)', m \notin lost'
          PROVE  promised'.fresh[m] <= doc'[m] /\ doc'[m] = chunk'[m].ver
        BY <2>3, <1>4, <1>6, <1>8, <1>9, <1>11 DEF KeptAt
    <2> QED
        BY <2>1, <2>2, <2>3, <1>4, <1>8, <1>10 DEF KeptAt
<1>14. BoundFalls(m)
    BY <1>4, <1>6, <1>7, <1>8, <1>9, <1>11 DEF BoundFalls, Bound, KeptAt
<1>15. BoundAFalls(m)
    BY <1>4, <1>6, <1>7, <1>8, <1>9, <1>10 DEF BoundAFalls, BoundA, KeptAt
<1>16. promised.fresh[m] <= promised'.fresh[m]
    BY <1>4, <1>6, <1>8 DEF KeptAt
<1>17. Here(w, m)
    BY <1>4, <1>5, <1>11, <1>12, <1>13, <1>16 DEF Here
<1> QED
    BY <1>14, <1>15, <1>17

\* What every step of a handler does to what was written and promised.
LEMMA HandlerEffect ==
    ASSUME Basic, Handling, Kept, NEW w \in Writers, HandlerStep(w)
    PROVE  /\ Handling' /\ Kept'
           /\ \A m \in Mems :
                 /\ promised.fresh[m] <= promised'.fresh[m]
                 /\ m \in promised.gone => m \in promised'.gone
                 /\ m \in promised.out => m \in promised'.out
                 /\ m \in lost => m \in lost'
                 /\ Live(m)' /\ m \notin lost' => (Live(m) /\ m \notin lost) \/ promised.fresh[m] = 0
           /\ ~ClearQuery(w) => \A m \in Mems : BoundFalls(m)
           /\ ~ClearAmbient(w) => \A m \in Mems : BoundAFalls(m)
<1>1. PICK m \in Mems : /\ Here(w, m)
                        /\ ~ClearQuery(w) => BoundFalls(m)
                        /\ ~ClearAmbient(w) => BoundAFalls(m)
    <2>1. CASE \E op \in Ops, n \in Mems : Store(w, op, n)
        BY <2>1, StoreHere
    <2>2. CASE ClearAmbient(w) \/ ClearQuery(w)
        <3>1. ~(ClearAmbient(w) /\ ClearQuery(w))
            BY DEF ClearAmbient, ClearQuery
        <3> QED
            BY <2>2, <3>1, ClearHere
    <2> QED
        BY <2>1, <2>2, IndexWriteHere, IndexFailsHere, AcknowledgeHere DEF HandlerStep
<1>2. On(w, m) /\ HandlingAt(w)' /\ KeptAt(m)'
    BY <1>1 DEF Here
<1>3. /\ Handling' /\ Kept'
      /\ \A n \in Mems \ {m} : /\ Bound(n)' = Bound(n) /\ BoundA(n)' = BoundA(n)
                               /\ \A pcs : Out(n, pcs)' <=> Out(n, pcs)
    BY <1>2, OnlyThere
<1>4. ASSUME NEW n \in Mems
      PROVE  /\ promised.fresh[n] <= promised'.fresh[n]
             /\ n \in promised.gone => n \in promised'.gone
             /\ n \in promised.out => n \in promised'.out
             /\ n \in lost => n \in lost'
             /\ Live(n)' /\ n \notin lost' => (Live(n) /\ n \notin lost) \/ promised.fresh[n] = 0
    <2>1. CASE n = m
        BY <2>1, <1>1 DEF Here
    <2>2. CASE n # m
        <3>1. promised.fresh[n] \in Nat
            BY Contents DEF Basic
        <3> QED
            BY <2>2, <3>1, <1>2 DEF On, Live
    <2> QED
        BY <2>1, <2>2
<1>5. ASSUME NEW n \in Mems, n # m
      PROVE  BoundFalls(n) /\ BoundAFalls(n)
    <2>1. Bound(n) \in Nat /\ BoundA(n) \in Nat
        BY Contents DEF Basic, Bound, BoundA
    <2> QED
        BY <2>1, <1>3, <1>5 DEF BoundFalls, BoundAFalls
<1> QED
    BY <1>1, <1>3, <1>4, <1>5

-----------------------------------------------------------------------------
(* What is cached and what readers carry *)

Good(e) == \A m \in Mems : Bound(m) <= e[m]
GoodA(e) ==
    \A m \in Mems : /\ e[m] # 0 => BoundA(m) <= e[m]
                    /\ Out(m, {"query", "ack"}) => e[m] = 0

\* What a reader that began with that promise owes, and what it must not show.
Due(since, got) == \A m \in Mems : Live(m) /\ m \notin lost => since.fresh[m] <= got[m]
Hides(since, got) == \A m \in since.gone : got[m] = 0
DueA(since, got) ==
    \A m \in Mems : /\ m \in since.out => got[m] = 0
                    /\ got[m] # 0 /\ m \notin lost => since.fresh[m] <= got[m]

\* Promises are not taken back.
Since(s) ==
    /\ \A m \in Mems : s.fresh[m] <= promised.fresh[m]
    /\ s.gone \subseteq promised.gone
    /\ s.out \subseteq promised.out

EntriesGood == \A s \in Slots : entries[s] # Empty => Good(entries[s])
RerankAt(j) == j.gen <= generation /\ (j.gen = generation => Good(j.got))
SearchAt(r) ==
    Reading(r) /\ reader[r].op = "search" =>
        /\ reader[r].gen <= generation
        /\ reader[r].pc \in {"filter", "publish"} /\ reader[r].gen = generation
              => Good(reader[r].got)
        /\ reader[r].pc \in {"check", "filter", "publish", "answered"}
              => Due(reader[r].since, reader[r].got)
        /\ reader[r].pc \in {"publish", "answered"} => Hides(reader[r].since, reader[r].got)
CachedGood == \A k \in Keys : ambient[k] # Empty => GoodA(ambient[k])
AmbientAt(r) ==
    Reading(r) /\ reader[r].op = "ambient" =>
        /\ reader[r].gen <= epoch
        /\ reader[r].pc = "publish" /\ reader[r].gen = epoch => GoodA(reader[r].got)
        /\ reader[r].pc \in {"publish", "answered"} => DueA(reader[r].since, reader[r].got)

Sinces == \A r \in Readers : Reading(r) => Since(reader[r].since)
Searches ==
    /\ EntriesGood
    /\ \A j \in reranks : RerankAt(j)
    /\ \A r \in Readers : SearchAt(r)
Ambients == CachedGood /\ \A r \in Readers : AmbientAt(r)
IInv == Basic /\ Handling /\ Kept /\ Sinces /\ Searches /\ Ambients

LEMMA IInvInit == Init => IInv
<1> SUFFICES ASSUME Init PROVE IInv
    OBVIOUS
<1>1. Basic
    BY BasicInit
<1>2. /\ \A w \in Writers : writer[w] = Idle
      /\ \A r \in Readers : reader[r] = Idle
      /\ \A s \in Slots : entries[s] = Empty
      /\ \A k \in Keys : ambient[k] = Empty
      /\ reranks = {} /\ lost = {}
      /\ promised.fresh = doc /\ promised.gone = {} /\ promised.out = {}
    BY DEF Init
<1>3. Handling
    BY <1>2 DEF Handling, HandlingAt, Changing
<1>4. ASSUME NEW m \in Mems
      PROVE  KeptAt(m)
    <2>1. /\ (chunk[m].ver = 0 /\ chunk[m].state = "absent") \/ chunk[m].ver = 1
          /\ doc[m] = chunk[m].ver
        BY DEF Init
    <2>2. doc[m] \in Nat
        BY <1>1, Contents DEF Basic
    <2>3. ~Out(m, {"ambient", "query", "ack"})
        BY <1>2 DEF Out, Changing
    <2> QED
        BY <2>1, <2>2, <2>3, <1>2 DEF KeptAt
<1>5. Sinces /\ Searches /\ Ambients
    BY <1>2 DEF Sinces, Searches, Ambients, EntriesGood, CachedGood, SearchAt, AmbientAt, Reading
<1> QED
    BY <1>1, <1>3, <1>4, <1>5 DEF IInv, Kept

\* What a current entry, or the index, shows is what a reader is owed.
LEMMA GoodIsDue ==
    ASSUME Basic, Kept, NEW since, Since(since), NEW e \in Result, Good(e),
           since.fresh \in Result
    PROVE  Due(since, e)
<1> SUFFICES ASSUME NEW m \in Mems, Live(m), m \notin lost
             PROVE  since.fresh[m] <= e[m]
    BY DEF Due
<1>1. /\ chunk[m].ver \in Nat /\ promised.fresh[m] \in Nat
      /\ promised.fresh[m] <= chunk[m].ver
    BY Contents DEF Basic, Kept, KeptAt
<1>2. since.fresh[m] \in Nat /\ e[m] \in Nat
    BY CachesAssumption DEF CachesAssumption, Result, Versions
<1>3. since.fresh[m] <= promised.fresh[m]
    BY DEF Since
<1>4. promised.fresh[m] <= Bound(m) /\ Bound(m) \in Nat
    BY <1>1 DEF Bound
<1>5. Bound(m) <= e[m]
    BY DEF Good
<1> QED
    BY <1>1, <1>2, <1>3, <1>4, <1>5

LEMMA GoodIsDueA ==
    ASSUME Basic, Kept, NEW since, Since(since), NEW e \in Result, GoodA(e),
           since.fresh \in Result, since.out \subseteq Mems
    PROVE  DueA(since, e)
<1> SUFFICES ASSUME NEW m \in Mems
             PROVE  /\ m \in since.out => e[m] = 0
                    /\ e[m] # 0 /\ m \notin lost => since.fresh[m] <= e[m]
    BY DEF DueA
<1>1. /\ chunk[m].ver \in Nat /\ promised.fresh[m] \in Nat
      /\ promised.fresh[m] <= chunk[m].ver
    BY Contents DEF Basic, Kept, KeptAt
<1>2. since.fresh[m] \in Nat /\ e[m] \in Nat
    BY CachesAssumption DEF CachesAssumption, Result, Versions
<1>3. since.fresh[m] <= promised.fresh[m]
    BY DEF Since
<1>4. m \notin lost => promised.fresh[m] <= BoundA(m) /\ BoundA(m) \in Nat
    BY <1>1 DEF BoundA
<1>5. m \in since.out => Out(m, {"query", "ack"})
    BY DEF Since, Out
<1> QED
    BY <1>1, <1>2, <1>3, <1>4, <1>5 DEF GoodA

LEMMA DocIsGood ==
    ASSUME Basic, Handling, Kept
    PROVE  Good(doc) /\ GoodA(doc)
<1> SUFFICES ASSUME NEW m \in Mems
             PROVE  /\ Bound(m) <= doc[m]
                    /\ doc[m] # 0 => BoundA(m) <= doc[m]
                    /\ Out(m, {"query", "ack"}) => doc[m] = 0
    BY DEF Good, GoodA
<1>1. /\ chunk[m].ver \in Nat /\ doc[m] \in Nat /\ promised.fresh[m] \in Nat
    BY Contents DEF Basic
<1>2. KeptAt(m)
    BY DEF Kept
<1>3. At(m, Writing, {"query", "ack"}) => ~At(m, Writing, {"index"})
    BY DEF At, Handling
<1>4. At(m, Writing, {"ack"}) => At(m, Writing, {"query", "ack"})
    BY DEF At
<1>5. Out(m, {"query", "ack"}) => Out(m, {"ambient", "query", "ack"})
    BY DEF Out
<1>6. Bound(m) <= doc[m]
    BY <1>1, <1>2, <1>3, <1>4 DEF Bound, KeptAt
<1>7. doc[m] # 0 => BoundA(m) <= doc[m]
    BY <1>1, <1>2, <1>3 DEF BoundA, KeptAt
<1> QED
    BY <1>2, <1>5, <1>6, <1>7 DEF KeptAt

\* Filtering takes away only what is not owed, and all that must not be shown.
LEMMA VisibleIsGood ==
    ASSUME Basic, Kept, NEW got \in Result
    PROVE  /\ Good(got) => Good(Visible(got))
           /\ \A since : Due(since, got) => Due(since, Visible(got))
           /\ \A since : Since(since) /\ since.gone \subseteq Mems => Hides(since, Visible(got))
<1>1. \A m \in Mems : Visible(got)[m] = IF Live(m) THEN got[m] ELSE 0
    BY VisibleTyped
<1>2. ASSUME Good(got)
      PROVE  Good(Visible(got))
    <2> SUFFICES ASSUME NEW m \in Mems
                 PROVE  Bound(m) <= Visible(got)[m]
        BY DEF Good
    <2>1. CASE Live(m)
        BY <2>1, <1>1, <1>2 DEF Good
    <2>2. CASE ~Live(m)
        BY <2>2, <1>1 DEF Bound
    <2> QED
        BY <2>1, <2>2
<1>3. ASSUME NEW since, Due(since, got)
      PROVE  Due(since, Visible(got))
    BY <1>1, <1>3 DEF Due
<1>4. ASSUME NEW since, Since(since), since.gone \subseteq Mems
      PROVE  Hides(since, Visible(got))
    <2> SUFFICES ASSUME NEW m \in since.gone
                 PROVE  Visible(got)[m] = 0
        BY DEF Hides
    <2>1. m \in Mems /\ m \in promised.gone
        BY <1>4 DEF Since
    <2>2. ~Live(m)
        BY <2>1 DEF Kept, KeptAt
    <2> QED
        BY <2>1, <2>2, <1>1
<1> QED
    BY <1>2, <1>3, <1>4

LEMMA HandlerHolds ==
    ASSUME IInv, NEW w \in Writers, HandlerStep(w)
    PROVE  IInv'
<1>1. Basic /\ Handling /\ Kept /\ TypeOK
    BY DEF IInv, Basic
<1>2. Basic'
    BY <1>1, BasicHandler
<1>3. /\ Handling' /\ Kept'
      /\ \A m \in Mems :
            /\ promised.fresh[m] <= promised'.fresh[m]
            /\ m \in promised.gone => m \in promised'.gone
            /\ m \in promised.out => m \in promised'.out
            /\ m \in lost => m \in lost'
            /\ Live(m)' /\ m \notin lost' => (Live(m) /\ m \notin lost) \/ promised.fresh[m] = 0
      /\ ~ClearQuery(w) => \A m \in Mems : BoundFalls(m)
      /\ ~ClearAmbient(w) => \A m \in Mems : BoundAFalls(m)
    BY <1>1, HandlerEffect
<1>4. /\ reader' = reader /\ reranks' = reranks
      /\ ~ClearQuery(w) => entries' = entries /\ generation' = generation
      /\ ~ClearAmbient(w) => ambient' = ambient /\ epoch' = epoch
    BY DEF HandlerStep, Store, IndexWrite, IndexFails, ClearAmbient, ClearQuery, Acknowledge,
           query, ambients
<1>5. \A m \in Mems : /\ promised.fresh[m] \in Nat /\ promised'.fresh[m] \in Nat
                      /\ Bound(m) \in Nat /\ Bound(m)' \in Nat
                      /\ BoundA(m) \in Nat /\ BoundA(m)' \in Nat
    <2>1. ASSUME NEW m \in Mems
          PROVE  /\ promised.fresh[m] \in Nat /\ Bound(m) \in Nat /\ BoundA(m) \in Nat
        BY <1>1, Contents DEF Bound, BoundA
    <2>2. ASSUME NEW m \in Mems
          PROVE  /\ promised'.fresh[m] \in Nat /\ chunk'[m].ver \in Nat
        BY <1>2, CachesAssumption
        DEF Basic, TypeOK, Promise, Result, Versions, Chunk, CachesAssumption
    <2>3. ASSUME NEW m \in Mems
          PROVE  Bound(m)' \in Nat /\ BoundA(m)' \in Nat
        BY <2>2 DEF Bound, BoundA
    <2> QED
        BY <2>1, <2>2, <2>3
<1>6. \A e \in Result : \A m \in Mems : e[m] \in Nat
    BY CachesAssumption DEF Result, Versions, CachesAssumption
<1>7. ASSUME NEW r \in Readers, Reading(r)
      PROVE  Since(reader[r].since)'
    <2>1. Since(reader[r].since)
        BY <1>7 DEF IInv, Sinces
    <2>2. /\ reader[r].since.gone \subseteq Mems /\ reader[r].since.out \subseteq Mems
          /\ \A m \in Mems : reader[r].since.fresh[m] \in Nat
        BY <1>1, <1>6, <1>7, Carried
    <2> QED
        BY <1>3, <1>4, <1>5, <2>1, <2>2 DEF Since
<1>8. ASSUME NEW e \in Result, Good(e), ~ClearQuery(w)
      PROVE  Good(e)'
    BY <1>3, <1>5, <1>6, <1>8 DEF Good, BoundFalls
<1>9. ASSUME NEW e \in Result, GoodA(e), ~ClearAmbient(w)
      PROVE  GoodA(e)'
    BY <1>3, <1>5, <1>6, <1>9 DEF GoodA, BoundAFalls
<1>10. Searches'
    <2>1. EntriesGood'
        <3>1. CASE ClearQuery(w)
            BY <3>1 DEF ClearQuery, EntriesGood
        <3>2. CASE ~ClearQuery(w)
            <4> SUFFICES ASSUME NEW s \in Slots, entries'[s] # Empty
                         PROVE  Good(entries[s])'
                BY DEF EntriesGood
            <4>1. PICK e \in Result : entries[s] = e
                BY <1>1, <1>4, <3>2 DEF TypeOK
            <4>2. Good(e)
                BY <1>4, <3>2, <4>1 DEF IInv, Searches, EntriesGood
            <4>3. entries'[s] = e
                BY <1>4, <3>2, <4>1
            <4> QED
                BY <1>8, <3>2, <4>2, <4>3
        <3> QED
            BY <3>1, <3>2
    <2>2. ASSUME NEW j \in reranks
          PROVE  RerankAt(j)'
        <3>1. RerankAt(j) /\ j.got \in Result /\ j.gen \in Nat /\ generation \in Nat
            BY <1>1 DEF IInv, Searches, TypeOK, Rerank
        <3>2. CASE ClearQuery(w)
            BY <3>1, <3>2 DEF ClearQuery, RerankAt
        <3>3. CASE ~ClearQuery(w)
            BY <1>4, <1>8, <3>1, <3>3 DEF RerankAt
        <3> QED
            BY <3>2, <3>3
    <2>3. ASSUME NEW r \in Readers, Reading(r), reader[r].op = "search"
          PROVE  SearchAt(r)'
        <3>1. PICK got \in Result : reader[r].got = got
            BY <1>1, <2>3, Carried
        <3>2. /\ SearchAt(r) /\ Since(reader[r].since)
              /\ generation \in Nat /\ reader[r].gen \in Nat
              /\ \A m \in Mems : reader[r].since.fresh[m] \in Nat
            BY <1>1, <1>6, <2>3, Carried DEF IInv, Searches, Sinces, TypeOK
        <3>3. ASSUME Due(reader[r].since, got)
              PROVE  Due(reader[r].since, got)'
            <4> SUFFICES ASSUME NEW m \in Mems, Live(m)', m \notin lost'
                         PROVE  reader[r].since.fresh[m] <= got[m]
                BY <1>4, <3>3 DEF Due
            <4>1. CASE Live(m) /\ m \notin lost
                BY <3>3, <4>1 DEF Due
            <4>2. CASE promised.fresh[m] = 0
                BY <1>6, <3>2, <4>2 DEF Since
            <4> QED
                BY <1>3, <4>1, <4>2
        <3>4. Hides(reader[r].since, got) => Hides(reader[r].since, got)'
            BY <1>4 DEF Hides
        <3>5. /\ reader[r].gen <= generation'
              /\ Good(got) /\ reader[r].gen = generation' => Good(got)'
              /\ reader[r].gen = generation' => generation' = generation
            <4>1. CASE ClearQuery(w)
                BY <3>2, <4>1, <2>3 DEF ClearQuery, SearchAt
            <4>2. CASE ~ClearQuery(w)
                BY <1>4, <1>8, <3>2, <4>2, <2>3 DEF SearchAt
            <4> QED
                BY <4>1, <4>2
        <3> QED
            BY <1>4, <2>3, <3>1, <3>2, <3>3, <3>4, <3>5 DEF SearchAt
    <2>4. \A r \in Readers : SearchAt(r)'
        BY <1>4, <2>3 DEF SearchAt, Reading
    <2> QED
        BY <1>4, <2>1, <2>2, <2>4 DEF Searches
<1>11. Ambients'
    <2>1. CachedGood'
        <3>1. CASE ClearAmbient(w)
            BY <3>1 DEF ClearAmbient, CachedGood
        <3>2. CASE ~ClearAmbient(w)
            <4> SUFFICES ASSUME NEW k \in Keys, ambient'[k] # Empty
                         PROVE  GoodA(ambient[k])'
                BY DEF CachedGood
            <4>1. PICK e \in Result : ambient[k] = e
                BY <1>1, <1>4, <3>2 DEF TypeOK
            <4>2. GoodA(e)
                BY <1>4, <3>2, <4>1 DEF IInv, Ambients, CachedGood
            <4>3. ambient'[k] = e
                BY <1>4, <3>2, <4>1
            <4> QED
                BY <1>9, <3>2, <4>2, <4>3
        <3> QED
            BY <3>1, <3>2
    <2>2. ASSUME NEW r \in Readers, Reading(r), reader[r].op = "ambient"
          PROVE  AmbientAt(r)'
        <3>1. PICK got \in Result : reader[r].got = got
            BY <1>1, <2>2, Carried
        <3>2. AmbientAt(r) /\ epoch \in Nat /\ reader[r].gen \in Nat
            BY <1>1, <2>2, Carried DEF IInv, Ambients, TypeOK
        <3>3. DueA(reader[r].since, got) => DueA(reader[r].since, got)'
            BY <1>3, <1>4 DEF DueA
        <3>4. /\ reader[r].gen <= epoch'
              /\ GoodA(got) /\ reader[r].gen = epoch' => GoodA(got)'
              /\ reader[r].gen = epoch' => epoch' = epoch
            <4>1. CASE ClearAmbient(w)
                BY <3>2, <4>1, <2>2 DEF ClearAmbient, AmbientAt
            <4>2. CASE ~ClearAmbient(w)
                BY <1>4, <1>9, <3>2, <4>2, <2>2 DEF AmbientAt
            <4> QED
                BY <4>1, <4>2
        <3> QED
            BY <1>4, <2>2, <3>1, <3>2, <3>3, <3>4 DEF AmbientAt
    <2>3. \A r \in Readers : AmbientAt(r)'
        BY <1>4, <2>2 DEF AmbientAt, Reading
    <2> QED
        BY <2>1, <2>3 DEF Ambients
<1>12. Sinces'
    BY <1>4, <1>7 DEF Sinces, Reading
<1> QED
    BY <1>2, <1>3, <1>10, <1>11, <1>12 DEF IInv

\* Nothing a handler changes changes: what was good stays good.
LEMMA Undisturbed ==
    ASSUME IInv, Leaves
    PROVE  /\ Handling' /\ Kept'
           /\ \A e : (Good(e)' <=> Good(e)) /\ (GoodA(e)' <=> GoodA(e))
           /\ \A s : Since(s)' <=> Since(s)
           /\ \A s, e : /\ Due(s, e)' <=> Due(s, e)
                        /\ Hides(s, e)' <=> Hides(s, e)
                        /\ DueA(s, e)' <=> DueA(s, e)
<1>1. /\ chunk' = chunk /\ doc' = doc /\ writer' = writer
      /\ promised' = promised /\ lost' = lost
    BY DEF Leaves, store, ghosts
<1>2. Handling /\ Kept
    BY DEF IInv
<1>3. \A m, ops, pcs : At(m, ops, pcs)' <=> At(m, ops, pcs)
    BY <1>1 DEF At, Changing
<1>4. \A m, pcs : Out(m, pcs)' <=> Out(m, pcs)
    BY <1>1 DEF Out, Changing
<1>5. \A m \in Mems : Live(m)' <=> Live(m)
    BY <1>1 DEF Live
<1>6. Handling'
    BY <1>1, <1>2 DEF Handling, HandlingAt, Changing, Live
<1>7. Kept'
    BY <1>1, <1>2, <1>3, <1>4, <1>5 DEF Kept, KeptAt
<1>8. \A m \in Mems : Bound(m)' = Bound(m) /\ BoundA(m)' = BoundA(m)
    BY <1>1, <1>3, <1>5 DEF Bound, BoundA
<1>9. \A e : (Good(e)' <=> Good(e)) /\ (GoodA(e)' <=> GoodA(e))
    BY <1>4, <1>8 DEF Good, GoodA
<1>10. \A s : Since(s)' <=> Since(s)
    BY <1>1 DEF Since
<1>11. \A s, e : /\ Due(s, e)' <=> Due(s, e)
                 /\ Hides(s, e)' <=> Hides(s, e)
                 /\ DueA(s, e)' <=> DueA(s, e)
    BY <1>1, <1>5 DEF Due, Hides, DueA
<1> QED
    BY <1>6, <1>7, <1>9, <1>10, <1>11

\* The invariant's other half, from what one reader, rerank or entry changes.
LEMMA ReadHolds ==
    ASSUME IInv, Basic', Leaves, UNCHANGED <<generation, epoch>>,
           NEW x, x = Empty \/ Good(x),
           \A s \in Slots : entries'[s] \in {entries[s], Empty, x},
           NEW y, y = Empty \/ GoodA(y),
           \A k \in Keys : ambient'[k] \in {ambient[k], Empty, y},
           \A j \in reranks' : j \in reranks \/ RerankAt(j),
           \A r \in Readers :
              \/ reader'[r] = reader[r]
              \/ /\ Reading(r)' => Since(reader[r].since)'
                 /\ SearchAt(r)' /\ AmbientAt(r)'
    PROVE  IInv'
<1>1. /\ Handling' /\ Kept'
      /\ \A e : (Good(e)' <=> Good(e)) /\ (GoodA(e)' <=> GoodA(e))
      /\ \A s : Since(s)' <=> Since(s)
      /\ \A s, e : /\ Due(s, e)' <=> Due(s, e)
                   /\ Hides(s, e)' <=> Hides(s, e)
                   /\ DueA(s, e)' <=> DueA(s, e)
    BY Undisturbed
<1>2. EntriesGood'
    <2> SUFFICES ASSUME NEW s \in Slots, entries'[s] # Empty
                 PROVE  Good(entries[s])'
        BY DEF EntriesGood
    <2>1. PICK e : e = entries'[s]
        OBVIOUS
    <2>2. Good(e)
        BY <2>1 DEF IInv, Searches, EntriesGood
    <2>3. Good(e)'
        BY <2>2, <1>1
    <2> QED
        BY <2>1, <2>3
<1>3. CachedGood'
    <2> SUFFICES ASSUME NEW k \in Keys, ambient'[k] # Empty
                 PROVE  GoodA(ambient[k])'
        BY DEF CachedGood
    <2>1. PICK e : e = ambient'[k]
        OBVIOUS
    <2>2. GoodA(e)
        BY <2>1 DEF IInv, Ambients, CachedGood
    <2>3. GoodA(e)'
        BY <2>2, <1>1
    <2> QED
        BY <2>1, <2>3
<1>4. ASSUME NEW j \in reranks'
      PROVE  RerankAt(j)'
    <2>1. RerankAt(j)
        BY DEF IInv, Searches
    <2>2. Good(j.got)' <=> Good(j.got)
        <3>1. PICK e : e = j.got
            OBVIOUS
        <3> QED
            BY <3>1, <1>1
    <2> QED
        BY <2>1, <2>2 DEF RerankAt
<1>5. ASSUME NEW r \in Readers, reader'[r] = reader[r]
      PROVE  /\ Reading(r)' => Since(reader[r].since)'
             /\ SearchAt(r)' /\ AmbientAt(r)'
    <2>1. PICK e : e = reader[r].got
        OBVIOUS
    <2>2. PICK s : s = reader[r].since
        OBVIOUS
    <2>3. Reading(r)' <=> Reading(r)
        BY <1>5 DEF Reading
    <2>4. SearchAt(r) /\ AmbientAt(r) /\ (Reading(r) => Since(s))
        BY <2>2 DEF IInv, Searches, Ambients, Sinces
    <2>5. e = reader'[r].got /\ s = reader'[r].since
        BY <2>1, <2>2, <1>5
    <2>6. Reading(r)' => Since(reader[r].since)'
        BY <1>1, <2>2, <2>3, <2>4, <2>5
    <2>7. SearchAt(r)'
        BY <1>1, <1>5, <2>1, <2>2, <2>3, <2>4, <2>5 DEF SearchAt
    <2>8. AmbientAt(r)'
        BY <1>1, <1>5, <2>1, <2>2, <2>3, <2>4, <2>5 DEF AmbientAt
    <2> QED
        BY <2>6, <2>7, <2>8
<1>6. Sinces' /\ Searches' /\ Ambients'
    BY <1>2, <1>3, <1>4, <1>5 DEF Sinces, Searches, Ambients
<1> QED
    BY <1>1, <1>6 DEF IInv

\* One reader goes on with what it got.
LEMMA ReaderHolds ==
    ASSUME IInv, Basic', Leaves, UNCHANGED <<generation, epoch>>,
           NEW x, x = Empty \/ Good(x),
           \A s \in Slots : entries'[s] \in {entries[s], Empty, x},
           NEW y, y = Empty \/ GoodA(y),
           \A k \in Keys : ambient'[k] \in {ambient[k], Empty, y},
           \A j \in reranks' : j \in reranks \/ RerankAt(j),
           NEW r \in Readers, Reading(r), NEW got, NEW pc,
           \A q \in Readers \ {r} : reader'[q] = reader[q],
           reader'[r].pc = pc, reader'[r].got = got,
           reader'[r].op = reader[r].op, reader'[r].gen = reader[r].gen,
           reader'[r].since = reader[r].since,
           reader[r].op = "search" =>
               /\ pc \in {"filter", "publish"} /\ reader[r].gen = generation => Good(got)
               /\ pc \in {"check", "filter", "publish", "answered"} => Due(reader[r].since, got)
               /\ pc \in {"publish", "answered"} => Hides(reader[r].since, got),
           reader[r].op = "ambient" =>
               /\ pc = "publish" /\ reader[r].gen = epoch => GoodA(got)
               /\ pc \in {"publish", "answered"} => DueA(reader[r].since, got)
    PROVE  IInv'
<1>1. /\ \A e : (Good(e)' <=> Good(e)) /\ (GoodA(e)' <=> GoodA(e))
      /\ \A s : Since(s)' <=> Since(s)
      /\ \A s, e : /\ Due(s, e)' <=> Due(s, e)
                   /\ Hides(s, e)' <=> Hides(s, e)
                   /\ DueA(s, e)' <=> DueA(s, e)
    BY Undisturbed
<1>2. PICK s : s = reader[r].since
    OBVIOUS
<1>3. s = reader'[r].since
    BY <1>2
<1>4. Since(s) /\ SearchAt(r) /\ AmbientAt(r)
    BY <1>2 DEF IInv, Sinces, Searches, Ambients
<1>5. Since(reader[r].since)'
    BY <1>1, <1>3, <1>4
<1>6. SearchAt(r)'
    BY <1>1, <1>2, <1>3, <1>4 DEF SearchAt
<1>7. AmbientAt(r)'
    BY <1>1, <1>2, <1>3, <1>4 DEF AmbientAt
<1>8. \A q \in Readers :
         \/ reader'[q] = reader[q]
         \/ /\ Reading(q)' => Since(reader[q].since)'
            /\ SearchAt(q)' /\ AmbientAt(q)'
    BY <1>5, <1>6, <1>7
<1> QED
    BY <1>8, ReadHolds

\* What insert_if_current puts there was current.
LEMMA PublishedGood ==
    ASSUME Basic, NEW slot \in Slots, NEW gen \in Nat, NEW got \in Result,
           gen = generation => Good(got),
           InsertIfCurrent(slot, gen, got)
    PROVE  /\ UNCHANGED generation
           /\ \E x : /\ x = Empty \/ Good(x)
                     /\ \A s \in Slots : entries'[s] \in {entries[s], Empty, x}
<1>1. CASE gen = generation
    <2>1. /\ generation' = generation
          /\ \A s \in Slots : entries'[s] \in {entries[s], got, Empty}
        BY <1>1, CachesTyped, InsertKeeps DEF Basic, InsertIfCurrent
    <2> QED
        BY <2>1, <1>1
<1>2. CASE gen # generation
    BY <1>2 DEF InsertIfCurrent, query
<1> QED
    BY <1>1, <1>2

LEMMA SearchHolds ==
    ASSUME IInv, NEW r \in Readers, SearchStep(r)
    PROVE  IInv'
<1>1. Basic /\ TypeOK /\ Lookups /\ Handling /\ Kept
    BY DEF IInv, Basic
<1>2. Basic' /\ Reading(r) /\ reader[r].op = "search"
    BY <1>1, BasicSearch DEF SearchStep, Hit, Miss, Check, Retrieve, Filter, Publish, Reads
<1>3. PICK since : since = reader[r].since
    OBVIOUS
<1>4. PICK got \in Result : reader[r].got = got
    BY <1>1, <1>2, Carried
<1>5. /\ Since(since) /\ since.fresh \in Result /\ since.gone \subseteq Mems
      /\ SearchAt(r) /\ reader[r].gen \in Nat
    BY <1>1, <1>2, <1>3, Carried DEF IInv, Sinces, Searches
<1>6. \A j \in reranks : RerankAt(j)
    BY DEF IInv, Searches
<1>7. CASE Hit(r)
    <2>1. PICK e \in Result :
              /\ GetReranked(reader[r].key, e) \/ GetPlain(reader[r].key, e)
              /\ Gets(r, "check", e)
        BY <1>7 DEF Hit
    <2>2. /\ reader[r].pc = "lookup"
          /\ UNCHANGED <<store, writer, ambients, reranks, ghosts>>
        BY <1>7 DEF Hit, Reads
    <2>3. PICK k \in Keys : reader[r].key = k
        BY <1>1, <1>2, <2>2, Carried DEF Lookups
    <2>4. generation' = generation /\ \A s \in Slots : entries'[s] \in {entries[s], Empty}
        BY <1>1, <2>1, <2>3, CachesTyped, GetKeeps DEF Basic
    <2>5. Good(e)
        <3>1. PICK s \in Slots : entries[s] = e
            BY <2>1, <2>3 DEF GetReranked, GetPlain, Reranked, Plain, Slots
        <3>2. e # Empty
            BY CachesAssumption DEF CachesAssumption
        <3> QED
            BY <3>1, <3>2 DEF IInv, Searches, EntriesGood
    <2>6. Due(since, e)
        BY <1>1, <1>5, <2>5, GoodIsDue
    <2>7. Leaves /\ epoch' = epoch /\ ambient' = ambient
        BY <2>2 DEF Leaves, ambients
    <2>8. /\ \A q \in Readers \ {r} : reader'[q] = reader[q]
          /\ reader'[r].pc = "check" /\ reader'[r].got = e
          /\ reader'[r].op = reader[r].op /\ reader'[r].gen = reader[r].gen
          /\ reader'[r].since = reader[r].since
        BY <1>1, <1>2, <2>1, Getting
    <2> QED
        BY <1>2, <1>3, <2>2, <2>4, <2>6, <2>7, <2>8, ReaderHolds
<1>8. CASE Miss(r)
    <2>1. /\ reader[r].pc = "lookup" /\ GetNone(reader[r].key) /\ Goes(r, "retrieve")
          /\ UNCHANGED <<store, writer, ambients, reranks, ghosts>>
        BY <1>8 DEF Miss, Reads
    <2>2. PICK k \in Keys : reader[r].key = k
        BY <1>1, <1>2, <2>1, Carried DEF Lookups
    <2>3. generation' = generation /\ \A s \in Slots : entries'[s] \in {entries[s], Empty}
        BY <1>1, <2>1, <2>2, CachesTyped, GetKeeps DEF Basic
    <2>4. Leaves /\ epoch' = epoch /\ ambient' = ambient
        BY <2>1 DEF Leaves, ambients
    <2>5. /\ \A q \in Readers \ {r} : reader'[q] = reader[q]
          /\ reader'[r].pc = "retrieve" /\ reader'[r].got = reader[r].got
          /\ reader'[r].op = reader[r].op /\ reader'[r].gen = reader[r].gen
          /\ reader'[r].since = reader[r].since
        BY <1>1, <1>2, <2>1, Going
    <2> QED
        BY <1>2, <2>1, <2>3, <2>4, <2>5, ReaderHolds
<1>9. CASE Check(r)
    <2>1. /\ reader[r].pc = "check" /\ Gets(r, "answered", Visible(reader[r].got))
          /\ UNCHANGED <<store, writer, query, ambients, reranks, ghosts>>
        BY <1>9 DEF Check, Reads
    <2>2. PICK e \in Result : Visible(got) = e
        BY VisibleTyped
    <2>3. Due(since, e) /\ Hides(since, e)
        BY <1>1, <1>2, <1>3, <1>4, <1>5, <2>1, <2>2, VisibleIsGood DEF SearchAt
    <2>4. /\ Leaves /\ epoch' = epoch /\ ambient' = ambient
          /\ generation' = generation /\ entries' = entries
        BY <2>1 DEF Leaves, ambients, query
    <2>5. Gets(r, "answered", e)
        BY <1>4, <2>1, <2>2
    <2>6. /\ \A q \in Readers \ {r} : reader'[q] = reader[q]
          /\ reader'[r].pc = "answered" /\ reader'[r].got = e
          /\ reader'[r].op = reader[r].op /\ reader'[r].gen = reader[r].gen
          /\ reader'[r].since = reader[r].since
        BY <1>1, <1>2, <2>5, Getting
    <2> QED
        BY <1>2, <1>3, <2>1, <2>3, <2>4, <2>6, ReaderHolds
<1>10. CASE Retrieve(r)
    <2>1. /\ Gets(r, "filter", doc)
          /\ UNCHANGED <<store, writer, query, ambients, reranks, ghosts>>
        BY <1>10 DEF Retrieve
    <2>2. PICK e \in Result : doc = e
        BY <1>1 DEF TypeOK
    <2>3. Good(e) /\ Due(since, e)
        BY <1>1, <1>5, <2>2, DocIsGood, GoodIsDue
    <2>4. /\ Leaves /\ epoch' = epoch /\ ambient' = ambient
          /\ generation' = generation /\ entries' = entries
        BY <2>1 DEF Leaves, ambients, query
    <2>5. Gets(r, "filter", e)
        BY <2>1, <2>2
    <2>6. /\ \A q \in Readers \ {r} : reader'[q] = reader[q]
          /\ reader'[r].pc = "filter" /\ reader'[r].got = e
          /\ reader'[r].op = reader[r].op /\ reader'[r].gen = reader[r].gen
          /\ reader'[r].since = reader[r].since
        BY <1>1, <1>2, <2>5, Getting
    <2> QED
        BY <1>2, <1>3, <2>1, <2>3, <2>4, <2>6, ReaderHolds
<1>11. CASE Filter(r)
    <2>1. /\ reader[r].pc = "filter" /\ Gets(r, "publish", Visible(reader[r].got))
          /\ UNCHANGED <<store, writer, query, ambients, ghosts>>
          /\ \/ reranks' = reranks
             \/ reranks' = reranks \union
                   {[key |-> reader[r].key, gen |-> reader[r].gen,
                     got |-> Visible(reader[r].got)]}
        BY <1>11 DEF Filter, Reads
    <2>2. PICK e \in Result : Visible(got) = e
        BY VisibleTyped
    <2>3. /\ reader[r].gen <= generation
          /\ reader[r].gen = generation => Good(got)
          /\ Due(since, got)
        BY <1>2, <1>3, <1>4, <1>5, <2>1 DEF SearchAt
    <2>4. Due(since, e) /\ Hides(since, e) /\ (reader[r].gen = generation => Good(e))
        BY <1>1, <1>5, <2>2, <2>3, VisibleIsGood
    <2>5. ASSUME NEW j \in reranks'
          PROVE  j \in reranks \/ RerankAt(j)
        <3>1. CASE j = [key |-> reader[r].key, gen |-> reader[r].gen, got |-> e]
            <4>1. j.gen = reader[r].gen /\ j.got = e
                BY <3>1
            <4> QED
                BY <4>1, <2>3, <2>4 DEF RerankAt
        <3> QED
            BY <3>1, <1>4, <2>1, <2>2, <2>5
    <2>6. /\ Leaves /\ epoch' = epoch /\ ambient' = ambient
          /\ generation' = generation /\ entries' = entries
        BY <2>1 DEF Leaves, ambients, query
    <2>7. Gets(r, "publish", e)
        BY <1>4, <2>1, <2>2
    <2>8. /\ \A q \in Readers \ {r} : reader'[q] = reader[q]
          /\ reader'[r].pc = "publish" /\ reader'[r].got = e
          /\ reader'[r].op = reader[r].op /\ reader'[r].gen = reader[r].gen
          /\ reader'[r].since = reader[r].since
        BY <1>1, <1>2, <2>7, Getting
    <2> QED
        BY <1>2, <1>3, <2>4, <2>5, <2>6, <2>8, ReaderHolds
<1>12. CASE Publish(r)
    <2>1. /\ reader[r].pc = "publish" /\ Goes(r, "answered")
          /\ UNCHANGED <<store, writer, ambients, reranks, ghosts>>
          /\ \/ UNCHANGED query
             \/ /\ reader[r].key # NoKey
                /\ InsertIfCurrent(Plain(reader[r].key), reader[r].gen, got)
        BY <1>4, <1>12 DEF Publish, Reads
    <2>2. /\ Due(since, got) /\ Hides(since, got)
          /\ reader[r].gen = generation => Good(got)
        BY <1>2, <1>3, <1>4, <1>5, <2>1 DEF SearchAt
    <2>3. /\ generation' = generation
          /\ \E x : /\ x = Empty \/ Good(x)
                    /\ \A s \in Slots : entries'[s] \in {entries[s], Empty, x}
        <3>1. CASE UNCHANGED query
            BY <3>1 DEF query
        <3>2. CASE /\ reader[r].key # NoKey
                   /\ InsertIfCurrent(Plain(reader[r].key), reader[r].gen, got)
            <4>1. PICK slot \in Slots : Plain(reader[r].key) = slot
                BY <1>1, <1>2, <3>2, Carried DEF Plain, Slots
            <4>2. PICK gen \in Nat : reader[r].gen = gen
                BY <1>5
            <4> QED
                BY <1>1, <2>2, <3>2, <4>1, <4>2, PublishedGood
        <3> QED
            BY <2>1, <3>1, <3>2
    <2>4. PICK x : /\ x = Empty \/ Good(x)
                   /\ \A s \in Slots : entries'[s] \in {entries[s], Empty, x}
        BY <2>3
    <2>5. Leaves /\ epoch' = epoch /\ ambient' = ambient
        BY <2>1 DEF Leaves, ambients
    <2>6. /\ \A q \in Readers \ {r} : reader'[q] = reader[q]
          /\ reader'[r].pc = "answered" /\ reader'[r].got = got
          /\ reader'[r].op = reader[r].op /\ reader'[r].gen = reader[r].gen
          /\ reader'[r].since = reader[r].since
        BY <1>1, <1>2, <1>4, <2>1, Going
    <2> QED
        BY <1>2, <1>3, <2>1, <2>2, <2>3, <2>4, <2>5, <2>6, ReaderHolds
<1> QED
    BY <1>7, <1>8, <1>9, <1>10, <1>11, <1>12 DEF SearchStep

LEMMA AmbientHolds ==
    ASSUME IInv, NEW r \in Readers, AmbientStep(r)
    PROVE  IInv'
<1>1. Basic /\ TypeOK /\ Lookups /\ Handling /\ Kept
    BY DEF IInv, Basic
<1>2. Basic' /\ Reading(r) /\ reader[r].op = "ambient"
    BY <1>1, BasicAmbient
    DEF AmbientStep, HitAmbient, MissAmbient, RetrieveAmbient, PublishAmbient, Reads
<1>3. PICK since : since = reader[r].since
    OBVIOUS
<1>4. PICK got \in Result : reader[r].got = got
    BY <1>1, <1>2, Carried
<1>5. /\ Since(since) /\ since.fresh \in Result /\ since.out \subseteq Mems
      /\ AmbientAt(r) /\ reader[r].gen \in Nat
    BY <1>1, <1>2, <1>3, Carried DEF IInv, Sinces, Ambients
<1>6. CASE HitAmbient(r)
    <2>1. /\ reader[r].pc = "lookup" /\ ambient[reader[r].key] # Empty
          /\ Gets(r, "answered", ambient[reader[r].key])
          /\ UNCHANGED <<store, writer, query, ambient, epoch, reranks, ghosts>>
        BY <1>6 DEF HitAmbient, Reads
    <2>2. PICK k \in Keys : reader[r].key = k
        BY <1>1, <1>2, <2>1, Carried DEF Lookups
    <2>3. PICK e \in Result : ambient[k] = e
        BY <1>1, <2>1, <2>2 DEF TypeOK
    <2>4. GoodA(e)
        BY <2>1, <2>2, <2>3 DEF IInv, Ambients, CachedGood
    <2>5. DueA(since, e)
        BY <1>1, <1>5, <2>4, GoodIsDueA
    <2>6. /\ Leaves /\ epoch' = epoch /\ ambient' = ambient
          /\ generation' = generation /\ entries' = entries
        BY <2>1 DEF Leaves, query
    <2>7. Gets(r, "answered", e)
        BY <2>1, <2>2, <2>3
    <2>8. /\ \A q \in Readers \ {r} : reader'[q] = reader[q]
          /\ reader'[r].pc = "answered" /\ reader'[r].got = e
          /\ reader'[r].op = reader[r].op /\ reader'[r].gen = reader[r].gen
          /\ reader'[r].since = reader[r].since
        BY <1>1, <1>2, <2>7, Getting
    <2> QED
        BY <1>2, <1>3, <2>1, <2>5, <2>6, <2>8, ReaderHolds
<1>7. CASE MissAmbient(r)
    <2>1. /\ reader[r].pc = "lookup" /\ Goes(r, "retrieve")
          /\ ambient' = [ambient EXCEPT ![reader[r].key] = Empty]
          /\ UNCHANGED <<store, writer, query, epoch, reranks, ghosts>>
        BY <1>7 DEF MissAmbient, Reads
    <2>2. \A k \in Keys : ambient'[k] \in {ambient[k], Empty}
        BY <1>1, <2>1 DEF TypeOK
    <2>3. /\ Leaves /\ epoch' = epoch
          /\ generation' = generation /\ entries' = entries
        BY <2>1 DEF Leaves, query
    <2>4. /\ \A q \in Readers \ {r} : reader'[q] = reader[q]
          /\ reader'[r].pc = "retrieve" /\ reader'[r].got = reader[r].got
          /\ reader'[r].op = reader[r].op /\ reader'[r].gen = reader[r].gen
          /\ reader'[r].since = reader[r].since
        BY <1>1, <1>2, <2>1, Going
    <2> QED
        BY <1>2, <2>1, <2>2, <2>3, <2>4, ReaderHolds
<1>8. CASE RetrieveAmbient(r)
    <2>1. PICK e \in {doc, Nothing} : Gets(r, "publish", e)
        BY <1>8 DEF RetrieveAmbient
    <2>2. UNCHANGED <<store, writer, query, ambients, reranks, ghosts>>
        BY <1>8 DEF RetrieveAmbient
    <2>3. e \in Result
        BY <1>1, <2>1, CachesAssumption DEF CachesAssumption, TypeOK, Nothing, Result, Versions
    <2>4. GoodA(e)
        <3>1. CASE e = doc
            BY <1>1, <3>1, DocIsGood
        <3>2. CASE e = Nothing
            BY <3>2 DEF GoodA, Nothing
        <3> QED
            BY <2>1, <3>1, <3>2
    <2>5. DueA(since, e)
        BY <1>1, <1>5, <2>3, <2>4, GoodIsDueA
    <2>6. /\ Leaves /\ epoch' = epoch /\ ambient' = ambient
          /\ generation' = generation /\ entries' = entries
        BY <2>2 DEF Leaves, query, ambients
    <2>7. /\ \A q \in Readers \ {r} : reader'[q] = reader[q]
          /\ reader'[r].pc = "publish" /\ reader'[r].got = e
          /\ reader'[r].op = reader[r].op /\ reader'[r].gen = reader[r].gen
          /\ reader'[r].since = reader[r].since
        BY <1>1, <1>2, <2>1, <2>3, Getting
    <2> QED
        BY <1>2, <1>3, <2>2, <2>4, <2>5, <2>6, <2>7, ReaderHolds
<1>9. CASE PublishAmbient(r)
    <2>1. /\ reader[r].pc = "publish" /\ Goes(r, "answered")
          /\ IF reader[r].key = NoKey THEN UNCHANGED ambients
             ELSE PutIfCurrent(reader[r].key, reader[r].gen, got)
          /\ UNCHANGED <<store, writer, query, reranks, ghosts>>
        BY <1>4, <1>9 DEF PublishAmbient, Reads
    <2>2. DueA(since, got) /\ (reader[r].gen = epoch => GoodA(got))
        BY <1>2, <1>3, <1>4, <1>5, <2>1 DEF AmbientAt
    <2>3. /\ epoch' = epoch
          /\ \E y : /\ y = Empty \/ GoodA(y)
                    /\ \A k \in Keys : ambient'[k] \in {ambient[k], Empty, y}
        <3>1. CASE reader[r].key = NoKey
            BY <2>1, <3>1 DEF ambients
        <3>2. CASE reader[r].key # NoKey
            <4>1. PICK k \in Keys : reader[r].key = k
                BY <1>1, <1>2, <3>2, Carried
            <4>2. PICK gen \in Nat : reader[r].gen = gen
                BY <1>5
            <4>3. /\ epoch' = epoch
                  /\ \A q \in Keys : \/ ambient'[q] \in {ambient[q], Empty}
                                     \/ gen = epoch /\ ambient'[q] = got
                BY <1>1, <2>1, <3>2, <4>1, <4>2, CachesTyped, PutKeeps DEF Basic
            <4>4. CASE gen = epoch
                BY <2>2, <4>2, <4>3, <4>4
            <4>5. CASE gen # epoch
                BY <4>3, <4>5
            <4> QED
                BY <4>4, <4>5
        <3> QED
            BY <3>1, <3>2
    <2>4. PICK y : /\ y = Empty \/ GoodA(y)
                   /\ \A k \in Keys : ambient'[k] \in {ambient[k], Empty, y}
        BY <2>3
    <2>5. Leaves /\ generation' = generation /\ entries' = entries
        BY <2>1 DEF Leaves, query
    <2>6. /\ \A q \in Readers \ {r} : reader'[q] = reader[q]
          /\ reader'[r].pc = "answered" /\ reader'[r].got = got
          /\ reader'[r].op = reader[r].op /\ reader'[r].gen = reader[r].gen
          /\ reader'[r].since = reader[r].since
        BY <1>1, <1>2, <1>4, <2>1, Going
    <2> QED
        BY <1>2, <1>3, <2>1, <2>2, <2>3, <2>4, <2>5, <2>6, ReaderHolds
<1> QED
    BY <1>6, <1>7, <1>8, <1>9 DEF AmbientStep

LEMMA IInvStep == IInv /\ [Next]_vars => IInv'
<1> SUFFICES ASSUME IInv, [Next]_vars PROVE IInv'
    OBVIOUS
<1>1. Basic /\ TypeOK /\ Basic'
    BY BasicStep DEF IInv, Basic
<1>2. \A j \in reranks : RerankAt(j)
    BY DEF IInv, Searches
<1>3. ASSUME NEW w \in Writers, HandlerStep(w) PROVE IInv'
    BY <1>3, HandlerHolds
<1>4. ASSUME NEW r \in Readers, NEW op \in {"search", "ambient"},
             NEW key \in Keys \union {NoKey}, Begin(r, op, key)
      PROVE  IInv'
    <2>1. /\ \A q \in Readers \ {r} : reader'[q] = reader[q]
          /\ reader'[r].op = op
          /\ reader'[r].gen = IF op = "search" THEN generation ELSE epoch
          /\ reader'[r].pc = IF key = NoKey THEN "retrieve" ELSE "lookup"
          /\ reader'[r].since = promised
          /\ UNCHANGED <<store, writer, query, ambients, reranks, ghosts>>
        BY <1>1, <1>4, Beginning
    <2>2. /\ Leaves /\ generation' = generation /\ epoch' = epoch
          /\ entries' = entries /\ ambient' = ambient /\ promised' = promised
        BY <2>1 DEF Leaves, query, ambients, ghosts
    <2>3. generation \in Nat /\ epoch \in Nat
        BY <1>1 DEF TypeOK
    <2>4. Since(reader[r].since)'
        <3>1. \A m \in Mems : promised.fresh[m] \in Nat
            BY <1>1, Contents
        <3> QED
            BY <2>1, <2>2, <3>1 DEF Since
    <2>5. SearchAt(r)' /\ AmbientAt(r)'
        BY <2>1, <2>2, <2>3 DEF SearchAt, AmbientAt
    <2> QED
        BY <1>1, <2>1, <2>2, <2>4, <2>5, ReadHolds
<1>5. ASSUME NEW r \in Readers, SearchStep(r) PROVE IInv'
    BY <1>5, SearchHolds
<1>6. ASSUME NEW r \in Readers, AmbientStep(r) PROVE IInv'
    BY <1>6, AmbientHolds
<1>7. ASSUME NEW r \in Readers, Answer(r) PROVE IInv'
    <2>1. /\ reader' = [reader EXCEPT ![r] = Idle]
          /\ UNCHANGED <<store, writer, query, ambients, reranks, ghosts>>
        BY <1>7 DEF Answer
    <2>2. /\ Leaves /\ generation' = generation /\ epoch' = epoch
          /\ entries' = entries /\ ambient' = ambient
        BY <2>1 DEF Leaves, query, ambients
    <2>3. reader'[r] = Idle /\ \A q \in Readers \ {r} : reader'[q] = reader[q]
        BY <1>1, <2>1 DEF TypeOK
    <2>4. ~Reading(r)'
        BY <2>3 DEF Reading
    <2>5. SearchAt(r)' /\ AmbientAt(r)'
        BY <2>4 DEF SearchAt, AmbientAt
    <2> QED
        BY <1>1, <2>1, <2>2, <2>3, <2>4, <2>5, ReadHolds
<1>8. ASSUME NEW j \in reranks, PublishReranked(j) PROVE IInv'
    <2>1. /\ InsertIfCurrent(Reranked(j.key), j.gen, j.got) /\ reranks' = reranks \ {j}
          /\ UNCHANGED <<store, writer, ambients, reader, ghosts>>
        BY <1>8 DEF PublishReranked
    <2>2. j.key \in Keys /\ j.gen \in Nat /\ j.got \in Result
        BY <1>1 DEF TypeOK, Rerank
    <2>3. PICK slot \in Slots : Reranked(j.key) = slot
        BY <2>2 DEF Reranked, Slots
    <2>4. PICK gen \in Nat : j.gen = gen
        BY <2>2
    <2>5. PICK got \in Result : j.got = got
        BY <2>2
    <2>6. gen = generation => Good(got)
        BY <1>2, <2>4, <2>5 DEF RerankAt
    <2>7. /\ generation' = generation
          /\ \E x : /\ x = Empty \/ Good(x)
                    /\ \A s \in Slots : entries'[s] \in {entries[s], Empty, x}
        BY <1>1, <2>1, <2>3, <2>4, <2>5, <2>6, PublishedGood
    <2>8. PICK x : /\ x = Empty \/ Good(x)
                   /\ \A s \in Slots : entries'[s] \in {entries[s], Empty, x}
        BY <2>7
    <2>9. Leaves /\ epoch' = epoch /\ ambient' = ambient
        BY <2>1 DEF Leaves, ambients
    <2> QED
        BY <1>1, <2>1, <2>7, <2>8, <2>9, ReadHolds
<1>9. ASSUME UNCHANGED <<store, writer, query, ambients, reader, ghosts>>,
             reranks' \subseteq reranks
      PROVE  IInv'
    <2>1. /\ Leaves /\ generation' = generation /\ epoch' = epoch
          /\ entries' = entries /\ ambient' = ambient
        BY <1>9 DEF Leaves, query, ambients
    <2> QED
        BY <1>1, <1>9, <2>1, ReadHolds
<1>10. ASSUME NEW j \in reranks, RerankFails(j) PROVE IInv'
    BY <1>9, <1>10 DEF RerankFails
<1>11. CASE UNCHANGED vars
    BY <1>9, <1>11 DEF vars
<1> QED
    BY <1>3, <1>4, <1>5, <1>6, <1>7, <1>8, <1>10, <1>11 DEF Next

\* A search that begins after a store or an update was acknowledged finds that
\* content or a later one: InsertIfCurrent keeps out of the cache what a
\* search or a rerank found before the last invalidation.
THEOREM SearchesReadWrites == Spec => []SearchReadsWrites
<1>1. IInv => SearchReadsWrites
    <2> SUFFICES ASSUME IInv, NEW r \in Readers, Answered(r, "search"),
                        NEW m \in Mems, Live(m), m \notin lost
                 PROVE  reader[r].got[m] >= reader[r].since.fresh[m]
        BY DEF SearchReadsWrites
    <2>1. Reading(r) /\ SearchAt(r) /\ TypeOK
        BY DEF IInv, Basic, Searches, Answered, Reads
    <2>2. reader[r].since.fresh[m] <= reader[r].got[m]
        BY <2>1 DEF SearchAt, Due, Answered, Reads
    <2>3. reader[r].got[m] \in Nat /\ reader[r].since.fresh[m] \in Nat
        BY <2>1, Carried, CachesAssumption DEF CachesAssumption, Result, Versions
    <2> QED
        BY <2>2, <2>3
<1> QED
    BY <1>1, IInvInit, IInvStep, PTL DEF Spec

\* A search that begins after a removal or a supersede was acknowledged does
\* not show the memory: what a hit or a retrieval found is filtered by its
\* chunk before it is answered.
THEOREM SearchesHideRemoved == Spec => []SearchHidesRemoved
<1>1. IInv => SearchHidesRemoved
    <2> SUFFICES ASSUME IInv, NEW r \in Readers, Answered(r, "search")
                 PROVE  Hides(reader[r].since, reader[r].got)
        BY DEF SearchHidesRemoved, Hides
    <2>1. Reading(r) /\ SearchAt(r)
        BY DEF IInv, Searches, Answered, Reads
    <2> QED
        BY <2>1 DEF SearchAt, Answered, Reads
<1> QED
    BY <1>1, IInvInit, IInvStep, PTL DEF Spec

\* An ambient response, cached or not, shows no memory that was removed from
\* both stores before the caches were cleared and acknowledged, and no content
\* older than what had been acknowledged.
THEOREM AmbientsCurrent == Spec => []AmbientCurrent
<1>1. IInv => AmbientCurrent
    <2> SUFFICES ASSUME IInv, NEW r \in Readers, Answered(r, "ambient"), NEW m \in Mems
                 PROVE  /\ m \in reader[r].since.out => reader[r].got[m] = 0
                        /\ reader[r].got[m] # 0 /\ m \notin lost =>
                              reader[r].got[m] >= reader[r].since.fresh[m]
        BY DEF AmbientCurrent
    <2>1. Reading(r) /\ AmbientAt(r) /\ TypeOK
        BY DEF IInv, Basic, Ambients, Answered, Reads
    <2>2. DueA(reader[r].since, reader[r].got)
        BY <2>1 DEF AmbientAt, Answered, Reads
    <2>3. reader[r].got[m] \in Nat /\ reader[r].since.fresh[m] \in Nat
        BY <2>1, Carried, CachesAssumption DEF CachesAssumption, Result, Versions
    <2> QED
        BY <2>2, <2>3 DEF DueA
<1> QED
    BY <1>1, IInvInit, IInvStep, PTL DEF Spec

-----------------------------------------------------------------------------
(* Ambient responses, where handlers clear after the index *)

\* Whoever was to be removed is out of both stores, or its index write failed.
Vanishing ==
    /\ promised.gone \subseteq promised.out \union lost
    /\ \A w \in Writers : Changing(w) =>
          writer[w].op \in Ops /\ (~writer[w].ok => writer[w].mem \in lost)
    /\ \A r \in Readers : Reading(r) =>
          reader[r].since.gone \subseteq reader[r].since.out \union lost

\* A step of a reader keeps what it knew as it began.
LEMMA KeepsSince ==
    ASSUME TypeOK, NEW r \in Readers, Reading(r), NEW pc,
           Goes(r, pc) \/ \E got : Gets(r, pc, got)
    PROVE  \A q \in Readers : Reading(q)' => Reading(q) /\ reader'[q].since = reader[q].since
<1>1. reader \in [Readers -> Reader \union {Idle}] /\ reader[r] \in Reader
    BY DEF TypeOK, Reading
<1>2. CASE Goes(r, pc)
    BY <1>1, <1>2 DEF Goes, Reader, Reading
<1>3. ASSUME NEW got, Gets(r, pc, got)
      PROVE  \A q \in Readers : Reading(q)' => Reading(q) /\ reader'[q].since = reader[q].since
    BY <1>1, <1>3 DEF Gets, Reader, Reading
<1> QED
    BY <1>2, <1>3

LEMMA ReaderKeepsSince ==
    ASSUME TypeOK, NEW r \in Readers, SearchStep(r) \/ AmbientStep(r)
    PROVE  /\ UNCHANGED <<writer, ghosts>>
           /\ \A q \in Readers : Reading(q)' => Reading(q) /\ reader'[q].since = reader[q].since
<1>1. Reading(r) /\ UNCHANGED <<writer, ghosts>>
    BY DEF SearchStep, AmbientStep, Hit, Miss, Check, Retrieve, Filter, Publish,
           HitAmbient, MissAmbient, RetrieveAmbient, PublishAmbient, Reads
<1>2. CASE Hit(r)
    BY <1>1, <1>2, KeepsSince DEF Hit
<1>3. CASE Miss(r)
    BY <1>1, <1>3, KeepsSince DEF Miss
<1>4. CASE Check(r)
    BY <1>1, <1>4, KeepsSince DEF Check
<1>5. CASE Retrieve(r)
    BY <1>1, <1>5, KeepsSince DEF Retrieve
<1>6. CASE Filter(r)
    BY <1>1, <1>6, KeepsSince DEF Filter
<1>7. CASE Publish(r)
    BY <1>1, <1>7, KeepsSince DEF Publish
<1>8. CASE HitAmbient(r)
    BY <1>1, <1>8, KeepsSince DEF HitAmbient
<1>9. CASE MissAmbient(r)
    BY <1>1, <1>9, KeepsSince DEF MissAmbient
<1>10. CASE RetrieveAmbient(r)
    BY <1>1, <1>10, KeepsSince DEF RetrieveAmbient
<1>11. CASE PublishAmbient(r)
    BY <1>1, <1>11, KeepsSince DEF PublishAmbient
<1> QED
    BY <1>1, <1>2, <1>3, <1>4, <1>5, <1>6, <1>7, <1>8, <1>9, <1>10, <1>11
    DEF SearchStep, AmbientStep

LEMMA HandlerVanishing ==
    ASSUME Ops \subseteq Writing \union Removing, TypeOK, Vanishing,
           NEW w \in Writers, HandlerStep(w)
    PROVE  Vanishing'
<1>0. writer \in [Writers -> Writer \union {Idle}]
    BY DEF TypeOK
<1>1. ASSUME NEW op \in Ops, NEW m \in Mems, Store(w, op, m) PROVE Vanishing'
    <2> DEFINE x == [op |-> op, mem |-> m, pc |-> AfterStore(op), ok |-> TRUE]
    <2>1. writer' = [writer EXCEPT ![w] = x] /\ UNCHANGED <<reader, ghosts>>
        BY <1>1 DEF Store
    <2>2. x.op = op /\ x.ok = TRUE
        OBVIOUS
    <2> HIDE DEF x
    <2>3. \A v \in Writers : writer'[v] = IF v = w THEN x ELSE writer[v]
        BY <1>0, <2>1
    <2> QED
        BY <2>1, <2>2, <2>3 DEF Vanishing, Changing, Reading, ghosts
<1>2. ASSUME NEW pc \in {"index", "ambient", "query", "ack"}, Changing(w),
             writer' = [writer EXCEPT ![w].pc = pc], UNCHANGED <<reader, ghosts>>
      PROVE  Vanishing'
    <2>1. /\ \A v \in Writers \ {w} : writer'[v] = writer[v]
          /\ writer'[w].op = writer[w].op /\ writer'[w].mem = writer[w].mem
          /\ writer'[w].ok = writer[w].ok
        BY <1>2, Moving
    <2> QED
        BY <1>2, <2>1 DEF Vanishing, Changing, Reading, ghosts
<1>3. CASE IndexWrite(w)
    <2>1. /\ Changing(w) /\ UNCHANGED <<reader, ghosts>>
          /\ writer' = [writer EXCEPT ![w].pc = AfterIndex(writer[w].op)]
        BY <1>3 DEF IndexWrite
    <2>2. AfterIndex(writer[w].op) \in {"index", "ambient", "query", "ack"}
        BY DEF AfterIndex
    <2> QED
        BY <1>2, <2>1, <2>2
<1>4. CASE IndexFails(w)
    <2>1. /\ Changing(w) /\ reader' = reader /\ promised' = promised
          /\ lost' = lost \union {writer[w].mem}
          /\ writer' = [writer EXCEPT ![w] =
                           IF writer[w].op \in {"store", "delete", "purge"} THEN Idle
                           ELSE [writer[w] EXCEPT !.pc = AfterIndex(writer[w].op), !.ok = FALSE]]
        BY <1>4 DEF IndexFails
    <2>2. writer[w] \in Writer
        BY <1>0, <2>1 DEF Changing
    <2> DEFINE x == [writer[w] EXCEPT !.pc = AfterIndex(writer[w].op), !.ok = FALSE]
    <2>3. x.op = writer[w].op /\ x.mem = writer[w].mem
        BY <2>2 DEF Writer
    <2> HIDE DEF x
    <2>4. \A v \in Writers \ {w} : writer'[v] = writer[v]
        BY <1>0, <2>1
    <2>5. writer'[w] \in {Idle, x}
        BY <1>0, <2>1 DEF x
    <2> QED
        BY <2>1, <2>3, <2>4, <2>5 DEF Vanishing, Changing, Reading
<1>5. CASE ClearAmbient(w)
    BY <1>2, <1>5 DEF ClearAmbient
<1>6. CASE ClearQuery(w)
    <2>1. /\ Changing(w) /\ UNCHANGED <<reader, ghosts>>
          /\ writer' = [writer EXCEPT ![w].pc = AfterClear(writer[w].op)]
        BY <1>6 DEF ClearQuery
    <2>2. AfterClear(writer[w].op) \in {"index", "ambient", "query", "ack"}
        BY DEF AfterClear
    <2> QED
        BY <1>2, <2>1, <2>2
<1>7. CASE Acknowledge(w)
    <2>1. /\ Changing(w)
          /\ promised'.gone =
                IF writer[w].op \in {"store", "update"} THEN promised.gone
                ELSE promised.gone \union {writer[w].mem}
          /\ promised'.out =
                IF writer[w].op \in {"api_delete", "purge_chunk", "api_purge"} /\ writer[w].ok
                THEN promised.out \union {writer[w].mem} ELSE promised.out
          /\ \A v \in Writers \ {w} : writer'[v] = writer[v]
          /\ writer'[w] = Idle
          /\ UNCHANGED <<store, query, ambients, reader, reranks, lost>>
        BY <1>7, Promising
    <2>2. writer[w].op \in Writing \union Removing /\ (~writer[w].ok => writer[w].mem \in lost)
        BY <2>1 DEF Vanishing
    <2>3. promised'.gone \subseteq promised'.out \union lost
        BY <2>1, <2>2 DEF Vanishing, Writing, Removing
    <2> QED
        BY <2>1, <2>3 DEF Vanishing, Changing, Reading
<1> QED
    BY <1>1, <1>3, <1>4, <1>5, <1>6, <1>7 DEF HandlerStep

LEMMA VanishingStep ==
    ASSUME Ops \subseteq Writing \union Removing, TypeOK, Vanishing, [Next]_vars
    PROVE  Vanishing'
<1>1. ASSUME NEW w \in Writers, HandlerStep(w) PROVE Vanishing'
    BY <1>1, HandlerVanishing
<1>2. ASSUME NEW r \in Readers, NEW op \in {"search", "ambient"},
             NEW key \in Keys \union {NoKey}, Begin(r, op, key)
      PROVE  Vanishing'
    <2>1. UNCHANGED <<writer, ghosts>>
        BY <1>2 DEF Begin
    <2>2. /\ reader'[r].since = promised
          /\ \A q \in Readers \ {r} : reader'[q] = reader[q]
        BY <1>2 DEF Begin, TypeOK
    <2> QED
        BY <2>1, <2>2 DEF Vanishing, Changing, Reading, ghosts
<1>3. ASSUME NEW r \in Readers, SearchStep(r) \/ AmbientStep(r) PROVE Vanishing'
    BY <1>3, ReaderKeepsSince DEF Vanishing, Changing, ghosts
<1>4. ASSUME NEW r \in Readers, Answer(r) PROVE Vanishing'
    <2>1. UNCHANGED <<writer, ghosts>>
        BY <1>4 DEF Answer
    <2>2. \A q \in Readers : reader'[q] \in {reader[q], Idle}
        BY <1>4 DEF Answer, TypeOK
    <2> QED
        BY <2>1, <2>2 DEF Vanishing, Changing, Reading, ghosts
<1>5. ASSUME UNCHANGED <<writer, reader, ghosts>> PROVE Vanishing'
    BY <1>5 DEF Vanishing, Changing, Reading, ghosts
<1>6. ASSUME NEW j \in reranks, PublishReranked(j) \/ RerankFails(j) PROVE Vanishing'
    BY <1>5, <1>6 DEF PublishReranked, RerankFails
<1>7. CASE UNCHANGED vars
    BY <1>5, <1>7 DEF vars
<1> QED
    BY <1>1, <1>2, <1>3, <1>4, <1>6, <1>7 DEF Next

\* "A deleted source cannot repopulate cleared cache" (ambient/cache.rs) is true
\* of the handlers that remove a document before they clear the caches, and as
\* long as no index write fails: the others (delete, namespace purge, the MCP
\* tool and the writers that retire) are what the comment leaves out.
THEOREM AmbientForgetsInOrder ==
    ASSUME Ops \subseteq Writing \union Removing
    PROVE  Spec /\ [](lost = {}) => []AmbientForgets
<1>1. Init => Vanishing
    BY DEF Init, Vanishing, Changing, Reading
<1>2. TypeOK /\ Vanishing /\ [Next]_vars => Vanishing'
    BY VanishingStep
<1>3. TypeOK /\ AmbientCurrent /\ Vanishing /\ lost = {} => AmbientForgets
    <2> SUFFICES ASSUME TypeOK, AmbientCurrent, Vanishing, lost = {},
                        NEW r \in Readers, Answered(r, "ambient"), NEW m \in reader[r].since.gone
                 PROVE  reader[r].got[m] = 0
        BY DEF AmbientForgets
    <2>1. Reading(r)
        BY DEF Answered, Reads
    <2>2. m \in reader[r].since.out
        BY <2>1 DEF Vanishing
    <2>3. m \in Mems
        BY <2>1, Carried
    <2> QED
        BY <2>2, <2>3 DEF AmbientCurrent
<1> QED
    BY <1>1, <1>2, <1>3, TypeCorrect, AmbientsCurrent, PTL DEF Spec

=============================================================================
