--------------------------- MODULE IntentLogProofs ---------------------------
(***************************************************************************)
(* What holds of IntentLog for every number of targets, every rotation     *)
(* limit and both fsync policies: the types, the uniqueness of sequence    *)
(* numbers, and that recovery is told of every intent it is owed.          *)
(***************************************************************************)
EXTENDS IntentLog, TLAPS

\* The numbers in the files and in the callers' hands are behind next_seq.
SeqsBehind == open => \A e \in Logged \union Held : e.seq < nextSeq

\* Only a write that stops in the middle tears a line.
TornByShort == torn => ShortWrites

-----------------------------------------------------------------------------
(* Types *)

LEMMA RotateTypes ==
    ASSUME NEW es \in SUBSET Entry, archives \subseteq Archive, Rotate(es)
    PROVE  archives' \subseteq Archive /\ current' \subseteq Entry
<1>1. CASE Cardinality(es) >= MaxEntries
  <2>1. [entries |-> es, aged |-> FALSE] \in Archive
    BY DEF Archive
  <2> QED BY <1>1, <2>1 DEF Rotate
<1>2. CASE ~(Cardinality(es) >= MaxEntries)
  BY <1>2 DEF Rotate
<1> QED BY <1>1, <1>2

LEMMA WriteTypes ==
    ASSUME TypeOK, NEW e \in Entry,
           WriteEntry(e) \/ WriteUnconfirmed(e) \/ WriteShort
    PROVE  /\ archives' \subseteq Archive
           /\ current' \subseteq Entry
           /\ torn' \in BOOLEAN
           /\ unsynced' \subseteq Entry
<1>1. Appended(e) \in SUBSET Entry
  BY DEF TypeOK, Appended
<1>2. CASE WriteEntry(e)
  <2>1. archives' \subseteq Archive /\ current' \subseteq Entry
    BY <1>1, <1>2, RotateTypes DEF WriteEntry, TypeOK
  <2>2. unsynced' \subseteq Entry
    BY <1>2 DEF WriteEntry, Synced, TypeOK
  <2> QED BY <1>2, <2>1, <2>2 DEF WriteEntry
<1>3. CASE WriteUnconfirmed(e)
  BY <1>1, <1>3 DEF WriteUnconfirmed, TypeOK
<1>4. CASE WriteShort
  BY <1>4 DEF WriteShort, TypeOK
<1> QED BY <1>2, <1>3, <1>4

LEMMA EntryTypes ==
    ASSUME NEW i \in Intent
    PROVE  /\ PendingEntry(i) \in Entry
           /\ CommittedEntry(i) \in Entry
           /\ PendingEntry(i).seq = i.seq
           /\ PendingEntry(i).target = i.target
           /\ PendingEntry(i).status = "pending"
           /\ CommittedEntry(i).seq = i.seq
           /\ CommittedEntry(i).target = i.target
BY DEF Intent, Entry, PendingEntry, CommittedEntry

LEMMA NextIntentType ==
    ASSUME TypeOK, nextSeq <= MaxSeq, NEW tg \in Targets
    PROVE  NextIntent(tg) \in Intent /\ NextIntent(tg).seq = nextSeq
BY ConfigAssumption DEF TypeOK, NextIntent, Intent

LEMMA TypeCorrectInit == Init => TypeOK
<1> SUFFICES ASSUME Init PROVE TypeOK
  OBVIOUS
<1>1. nextSeq \in 1..(MaxSeq + 1)
  BY ConfigAssumption DEF ConfigAssumption, Init
<1> QED BY <1>1 DEF Init, TypeOK

\* Every state of the log is well formed, whatever sequence of operations,
\* failed writes, kills and power losses led to it.
THEOREM TypeCorrect == Spec => []TypeOK
<1>1. Init => TypeOK
  BY TypeCorrectInit
<1>2. TypeOK /\ [Next]_vars => TypeOK'
  <2> SUFFICES ASSUME TypeOK, [Next]_vars PROVE TypeOK'
    OBVIOUS
  <2> USE ConfigAssumption DEF ConfigAssumption
  <2>1. ASSUME NEW tg \in Targets, AppendPending(tg) PROVE TypeOK'
    <3>1. NextIntent(tg) \in Intent
      BY <2>1, NextIntentType DEF AppendPending
    <3>2. PendingEntry(NextIntent(tg)) \in Entry
      BY <3>1, EntryTypes
    <3>3. /\ archives' \subseteq Archive
          /\ current' \subseteq Entry
          /\ torn' \in BOOLEAN
          /\ unsynced' \subseteq Entry
      BY <2>1, <3>2, WriteTypes DEF AppendPending
    <3> QED BY <2>1, <3>1, <3>3 DEF TypeOK, AppendPending
  <2>2. ASSUME NEW tg \in Targets, AppendFails(tg) PROVE TypeOK'
    <3>1. NextIntent(tg) \in Intent
      BY <2>2, NextIntentType DEF AppendFails
    <3>2. PendingEntry(NextIntent(tg)) \in Entry
      BY <3>1, EntryTypes
    <3>3. /\ archives' \subseteq Archive
          /\ current' \subseteq Entry
          /\ torn' \in BOOLEAN
          /\ unsynced' \subseteq Entry
      BY <2>2, <3>2, WriteTypes DEF AppendFails
    <3> QED BY <2>2, <3>3 DEF TypeOK, AppendFails
  <2>3. ASSUME NEW i \in Intent, MarkCommitted(i) \/ MarkFails(i) PROVE TypeOK'
    <3>1. CommittedEntry(i) \in Entry
      BY EntryTypes
    <3>2. /\ archives' \subseteq Archive
          /\ current' \subseteq Entry
          /\ torn' \in BOOLEAN
          /\ unsynced' \subseteq Entry
      BY <2>3, <3>1, WriteTypes DEF MarkCommitted, MarkFails
    <3> QED BY <2>3, <3>2 DEF TypeOK, MarkCommitted, MarkFails
  <2>4. ASSUME NEW i \in Intent, Abandon(i) PROVE TypeOK'
    BY <2>4 DEF TypeOK, Abandon, files
  <2>5. CASE Flush
    BY <2>5 DEF TypeOK, Flush
  <2>6. ASSUME NEW gone \in SUBSET archives, Drop(gone) PROVE TypeOK'
    BY <2>6 DEF TypeOK, Drop
  <2>7. ASSUME NEW a \in archives, Age(a) PROVE TypeOK'
    <3>1. [a EXCEPT !.aged = TRUE] \in Archive
      BY DEF TypeOK, Archive
    <3> QED BY <2>7, <3>1 DEF TypeOK, Age
  <2>8. CASE Open
    <3>1. nextSeq' \in 1..(MaxSeq + 1)
      BY <2>8 DEF Open
    <3>2. Scan \subseteq Intent
      BY DEF Scan, Unsettled
    <3> QED BY <2>8, <3>1, <3>2 DEF TypeOK, Open, Recovered, files
  <2>0. ASSUME Stop
        PROVE  nextSeq' \in 1..(MaxSeq + 1) /\ open' \in BOOLEAN /\ inHand' \subseteq Intent
    <3>1. 1 \in 1..(MaxSeq + 1)
      OBVIOUS
    <3> QED BY <2>0, <3>1 DEF Stop
  <2>9. CASE Kill
    BY <2>0, <2>9 DEF TypeOK, Kill, files
  <2>10. CASE PowerLoss
    <3>1. PICK lost \in SUBSET unsynced :
              /\ current' = current \ lost
              /\ archives' = {[a EXCEPT !.entries = a.entries \ lost] : a \in archives}
              /\ owed' = {i \in owed : PendingEntry(i) \notin lost}
      BY <2>10 DEF PowerLoss
    <3>2. \A a \in Archive : [a EXCEPT !.entries = a.entries \ lost] \in Archive
      BY DEF Archive
    <3>3. archives' \subseteq Archive
      BY <3>1, <3>2 DEF TypeOK
    <3> QED BY <2>0, <2>10, <3>1, <3>3 DEF TypeOK, PowerLoss
  <2>11. CASE UNCHANGED vars
    BY <2>11 DEF TypeOK, vars, files
  <2> QED
    BY <2>1, <2>2, <2>3, <2>4, <2>5, <2>6, <2>7, <2>8, <2>9, <2>10, <2>11
    DEF Next, Gc, GcFails
<1> QED BY <1>1, <1>2, PTL DEF Spec

-----------------------------------------------------------------------------
(* What a write adds to the files *)

LEMMA RotateKeeps ==
    ASSUME NEW es, Rotate(es)
    PROVE  Logged' = es \union InArchives(archives)
<1>1. CASE Cardinality(es) >= MaxEntries
  <2> DEFINE full == [entries |-> es, aged |-> FALSE]
  <2>1. current' = {} /\ archives' = archives \union {full}
    BY <1>1 DEF Rotate
  <2>2. full.entries = es
    OBVIOUS
  <2>3. InArchives(archives \union {full}) = InArchives(archives) \union full.entries
    BY DEF InArchives
  <2> QED BY <2>1, <2>2, <2>3 DEF Logged
<1>2. CASE ~(Cardinality(es) >= MaxEntries)
  BY <1>2 DEF Rotate, Logged, InArchives
<1> QED BY <1>1, <1>2

LEMMA WriteAdds ==
    ASSUME NEW e, WriteEntry(e) \/ WriteUnconfirmed(e) \/ WriteShort
    PROVE  /\ Logged \subseteq Logged'
           /\ Logged' \subseteq Logged \union {e}
<1>1. CASE WriteEntry(e)
  <2>1. Logged' = Appended(e) \union InArchives(archives)
    BY <1>1, RotateKeeps DEF WriteEntry
  <2> QED BY <2>1 DEF Appended, Logged
<1>2. CASE WriteUnconfirmed(e)
  BY <1>2 DEF WriteUnconfirmed, Appended, Logged, InArchives
<1>3. CASE WriteShort
  BY <1>3 DEF WriteShort, Logged, InArchives
<1> QED BY <1>1, <1>2, <1>3

LEMMA ConfirmedWriteAdds ==
    ASSUME NEW e, WriteEntry(e), ~torn
    PROVE  e \in Logged'
<1>1. Logged' = Appended(e) \union InArchives(archives)
  BY RotateKeeps DEF WriteEntry
<1> QED BY <1>1 DEF Appended

LEMMA DropKeeps ==
    ASSUME NEW gone \in SUBSET archives, Drop(gone)
    PROVE  /\ Logged' \subseteq Logged
           /\ \A e \in Logged : e \notin InArchives(gone) => e \in Logged'
BY DEF Drop, Logged, InArchives

LEMMA AgeKeeps ==
    ASSUME TypeOK, NEW a \in archives, Age(a)
    PROVE  Logged' = Logged
<1>1. a \in Archive
  BY DEF TypeOK
<1>2. [a EXCEPT !.aged = TRUE].entries = a.entries
  BY <1>1 DEF Archive
<1>3. archives' = (archives \ {a}) \union {[a EXCEPT !.aged = TRUE]}
  BY DEF Age
<1> DEFINE old == [a EXCEPT !.aged = TRUE]
<1>4. InArchives((archives \ {a}) \union {old})
          = InArchives(archives \ {a}) \union old.entries
  BY DEF InArchives
<1>5. InArchives(archives) = InArchives(archives \ {a}) \union a.entries
  BY DEF InArchives
<1>6. InArchives(archives') = InArchives(archives)
  BY <1>2, <1>3, <1>4, <1>5
<1> QED BY <1>6 DEF Logged, Age, InArchives

LEMMA PowerLossKeeps ==
    ASSUME TypeOK, NEW lost,
           current' = current \ lost,
           archives' = {[a EXCEPT !.entries = a.entries \ lost] : a \in archives}
    PROVE  Logged' = Logged \ lost
<1> DEFINE cut(a) == [a EXCEPT !.entries = a.entries \ lost]
<1>1. \A a \in archives : cut(a).entries = a.entries \ lost
  BY DEF TypeOK, Archive
<1>2. \A e : e \in InArchives(archives') <=> \E b \in archives' : e \in b.entries
  BY DEF InArchives
<1>3. \A e : e \in InArchives(archives') <=> \E a \in archives : e \in cut(a).entries
  BY <1>2
<1>4. \A e : e \in InArchives(archives) <=> \E a \in archives : e \in a.entries
  BY DEF InArchives
<1>5. \A e : e \in InArchives(archives') <=> e \in InArchives(archives) /\ e \notin lost
  BY <1>1, <1>3, <1>4
<1>6. \A e : e \in Logged' <=> e \in current' \/ e \in InArchives(archives')
  BY DEF Logged, InArchives
<1>7. \A e : e \in Logged' <=> e \in Logged /\ e \notin lost
  BY <1>5, <1>6 DEF Logged
<1> QED BY <1>7

-----------------------------------------------------------------------------
(* One number, one intent *)

NumbersOK == TypeOK /\ SeqsBehind /\ NoAlias

LEMMA LoggedTypes ==
    ASSUME TypeOK
    PROVE  Logged \union Held \subseteq Entry
<1>1. Held \subseteq Entry
  BY EntryTypes DEF Held, TypeOK
<1>2. Logged \subseteq Entry
  BY DEF Logged, InArchives, TypeOK, Archive
<1> QED BY <1>1, <1>2

\* A step that only adds an entry with the next number keeps numbers unique.
LEMMA FreshNumber ==
    ASSUME NumbersOK, open, NEW tg \in Targets, nextSeq <= MaxSeq,
           nextSeq' = nextSeq + 1,
           (Logged \union Held)'
               \subseteq Logged \union Held \union {PendingEntry(NextIntent(tg))}
    PROVE  SeqsBehind' /\ NoAlias'
<1> DEFINE new == PendingEntry(NextIntent(tg))
<1>1. NextIntent(tg) \in Intent /\ NextIntent(tg).seq = nextSeq
  BY NextIntentType DEF NumbersOK
<1>2. new.seq = nextSeq
  BY <1>1, EntryTypes
<1>3. \A e \in Logged \union Held : e \in Entry /\ e.seq < nextSeq
  BY LoggedTypes DEF NumbersOK, SeqsBehind
<1>4. nextSeq \in Nat /\ \A e \in Entry : e.seq \in Nat
  BY ConfigAssumption DEF ConfigAssumption, NumbersOK, TypeOK, Entry
<1>5. SeqsBehind'
  <2>1. ASSUME NEW e \in (Logged \union Held)' PROVE e.seq < nextSeq + 1
    <3>1. CASE e \in Logged \union Held
      BY <3>1, <1>3, <1>4
    <3>2. CASE e = new
      BY <3>2, <1>2, <1>4
    <3> QED BY <2>1, <3>1, <3>2
  <2> QED BY <2>1 DEF SeqsBehind
<1>6. NoAlias'
  <2>1. ASSUME NEW e1 \in (Logged \union Held)', NEW e2 \in (Logged \union Held)',
               e1.seq = e2.seq
        PROVE  e1.target = e2.target
    <3>1. CASE e1 \in Logged \union Held /\ e2 \in Logged \union Held
      BY <2>1, <3>1 DEF NumbersOK, NoAlias
    <3>2. CASE e1 = new /\ e2 = new
      BY <3>2
    <3>3. CASE e1 = new /\ e2 \in Logged \union Held
      BY <2>1, <3>3, <1>2, <1>3, <1>4
    <3>4. CASE e1 \in Logged \union Held /\ e2 = new
      BY <2>1, <3>4, <1>2, <1>3, <1>4
    <3> QED BY <2>1, <3>1, <3>2, <3>3, <3>4
  <2> QED BY <2>1 DEF NoAlias
<1> QED BY <1>5, <1>6

\* A step that adds at most the marker of an intent in hand does so too.
LEMMA KnownNumber ==
    ASSUME NumbersOK, open, NEW i \in inHand, nextSeq' = nextSeq,
           (Logged \union Held)' \subseteq Logged \union Held \union {CommittedEntry(i)}
    PROVE  SeqsBehind' /\ NoAlias'
<1>1. /\ PendingEntry(i) \in Logged \union Held
      /\ CommittedEntry(i).seq = PendingEntry(i).seq
      /\ CommittedEntry(i).target = PendingEntry(i).target
  BY EntryTypes DEF NumbersOK, TypeOK, Held
<1>2. \A e \in (Logged \union Held)' :
          \E f \in Logged \union Held : f.seq = e.seq /\ f.target = e.target
  BY <1>1
<1>3. SeqsBehind'
  BY <1>2 DEF NumbersOK, SeqsBehind
<1>4. NoAlias'
  <2>1. ASSUME NEW e1 \in (Logged \union Held)', NEW e2 \in (Logged \union Held)',
               e1.seq = e2.seq
        PROVE  e1.target = e2.target
    <3>1. PICK f1 \in Logged \union Held : f1.seq = e1.seq /\ f1.target = e1.target
      BY <1>2
    <3>2. PICK f2 \in Logged \union Held : f2.seq = e2.seq /\ f2.target = e2.target
      BY <1>2
    <3> QED BY <2>1, <3>1, <3>2 DEF NumbersOK, NoAlias
  <2> QED BY <2>1 DEF NoAlias
<1> QED BY <1>3, <1>4

\* A step that adds nothing.
LEMMA NoNumber ==
    ASSUME NumbersOK, ~open' \/ (open /\ nextSeq' = nextSeq),
           (Logged \union Held)' \subseteq Logged \union Held
    PROVE  SeqsBehind' /\ NoAlias'
<1>1. SeqsBehind'
  BY DEF NumbersOK, SeqsBehind
<1>2. NoAlias'
  BY DEF NumbersOK, NoAlias
<1> QED BY <1>1, <1>2

LEMMA NumbersInductive == NumbersOK /\ TypeOK' /\ [Next]_vars => NumbersOK'
<1> SUFFICES ASSUME NumbersOK, TypeOK', [Next]_vars
             PROVE  SeqsBehind' /\ NoAlias'
  BY DEF NumbersOK
<1> USE DEF Held
<1>1. ASSUME NEW tg \in Targets, AppendPending(tg) PROVE SeqsBehind' /\ NoAlias'
  <2>1. Logged' \subseteq Logged \union {PendingEntry(NextIntent(tg))}
    BY <1>1, WriteAdds DEF AppendPending
  <2>2. Held' \subseteq Held \union {PendingEntry(NextIntent(tg))}
    BY <1>1 DEF AppendPending
  <2> QED BY <1>1, <2>1, <2>2, FreshNumber DEF AppendPending
<1>2. ASSUME NEW tg \in Targets, AppendFails(tg) PROVE SeqsBehind' /\ NoAlias'
  <2>1. Logged' \subseteq Logged \union {PendingEntry(NextIntent(tg))}
    BY <1>2, WriteAdds DEF AppendFails
  <2>2. Held' = Held
    BY <1>2 DEF AppendFails
  <2> QED BY <1>2, <2>1, <2>2, FreshNumber DEF AppendFails
<1>3. ASSUME NEW i \in Intent, MarkCommitted(i) \/ MarkFails(i)
      PROVE  SeqsBehind' /\ NoAlias'
  <2>1. Logged' \subseteq Logged \union {CommittedEntry(i)}
    BY <1>3, WriteAdds DEF MarkCommitted, MarkFails
  <2>2. Held' \subseteq Held
    BY <1>3 DEF MarkCommitted, MarkFails
  <2> QED BY <1>3, <2>1, <2>2, KnownNumber DEF MarkCommitted, MarkFails
<1>4. ASSUME NEW i \in Intent, Abandon(i) PROVE SeqsBehind' /\ NoAlias'
  <2>1. Logged' = Logged /\ Held' \subseteq Held /\ open' = open /\ nextSeq' = nextSeq
    BY <1>4 DEF Abandon, files, Logged, InArchives
  <2> QED BY <2>1 DEF NumbersOK, SeqsBehind, NoAlias
<1>5. CASE Flush
  <2>1. Logged' = Logged /\ Held' = Held
    BY <1>5 DEF Flush, Logged, InArchives
  <2> QED BY <1>5, <2>1, NoNumber DEF Flush
<1>6. ASSUME NEW gone \in SUBSET archives, Drop(gone) PROVE SeqsBehind' /\ NoAlias'
  <2>1. Logged' \subseteq Logged /\ Held' = Held
    BY <1>6, DropKeeps DEF Drop
  <2> QED BY <1>6, <2>1, NoNumber DEF Drop
<1>7. ASSUME NEW a \in archives, Age(a) PROVE SeqsBehind' /\ NoAlias'
  <2>1. Logged' = Logged /\ Held' = Held /\ open' = open /\ nextSeq' = nextSeq
    BY <1>7, AgeKeeps DEF Age, NumbersOK
  <2> QED BY <2>1 DEF NumbersOK, SeqsBehind, NoAlias
<1>8. CASE Open
  <2>1. PICK m \in 0..MaxSeq : (\A e \in Logged : e.seq <= m) /\ nextSeq' = m + 1
    BY <1>8 DEF Open, Numbered
  <2>2. Logged' = Logged /\ Held' \subseteq Logged
    BY <1>8 DEF Open, files, Recovered, Logged, InArchives, Scan, Unsettled
  <2>3. \A e \in Logged : e.seq \in Nat
    BY LoggedTypes, ConfigAssumption DEF ConfigAssumption, NumbersOK, Entry
  <2>4. SeqsBehind'
    BY <2>1, <2>2, <2>3 DEF SeqsBehind
  <2>5. NoAlias'
    BY <2>2 DEF NumbersOK, NoAlias
  <2> QED BY <2>4, <2>5
<1>9. CASE Kill
  <2>1. Logged' = Logged /\ Held' = {}
    BY <1>9 DEF Kill, Stop, files, Logged, InArchives
  <2> QED BY <1>9, <2>1, NoNumber DEF Kill, Stop
<1>10. CASE PowerLoss
  <2>1. Logged' \subseteq Logged /\ Held' = {}
    BY <1>10, PowerLossKeeps DEF PowerLoss, Stop, NumbersOK
  <2> QED BY <1>10, <2>1, NoNumber DEF PowerLoss, Stop
<1>11. CASE UNCHANGED vars
  BY <1>11 DEF vars, files, NumbersOK, SeqsBehind, NoAlias, Logged, InArchives
<1> QED
  BY <1>1, <1>2, <1>3, <1>4, <1>5, <1>6, <1>7, <1>8, <1>9, <1>10, <1>11
  DEF Next, Gc, GcFails

\* No number ever names two intents, so a marker settles only the intent it
\* was written for: through failed appends, rotation, collection and reopening.
THEOREM NumbersUnique == Spec => []NoAlias
<1>1. Init => SeqsBehind /\ NoAlias
  BY DEF Init, SeqsBehind, NoAlias, Logged, Held, InArchives
<1>2. NumbersOK => NoAlias
  BY DEF NumbersOK
<1> QED BY <1>1, <1>2, TypeCorrect, NumbersInductive, PTL DEF Spec, NumbersOK

-----------------------------------------------------------------------------
(* Recovery is told of what it is owed *)

OwedOK == NumbersOK /\ TornByShort /\ OwedIsScanned

LEMMA ScannedMeans ==
    ASSUME NEW i \in Intent
    PROVE  i \in Scan <=> /\ PendingEntry(i) \in Logged
                          /\ \A e \in Logged : ~(e.status = "committed" /\ e.seq = i.seq)
BY DEF Scan, Unsettled

LEMMA TornInductive ==
    ASSUME TornByShort, [Next]_vars
    PROVE  TornByShort'
BY DEF TornByShort, Next, AppendPending, AppendFails, MarkCommitted, MarkFails,
       Abandon, Flush, Gc, GcFails, Drop, Age, Open, Kill, PowerLoss, WriteEntry,
       WriteUnconfirmed, WriteShort, vars, files

\* What is owed stays reported when the files gain no marker of an owed intent
\* and lose no line of one.
LEMMA StillScanned ==
    ASSUME OwedIsScanned, owed \subseteq Intent, owed' \subseteq owed,
           \A i \in owed' : PendingEntry(i) \in Logged => PendingEntry(i) \in Logged',
           \A e \in Logged' : e \in Logged \/ e.status = "pending"
                                \/ \A i \in owed' : i.seq # e.seq
    PROVE  OwedIsScanned'
<1> SUFFICES ASSUME NEW i \in owed' PROVE i \in Scan'
  BY DEF OwedIsScanned
<1>1. i \in Intent /\ i \in Scan
  BY DEF OwedIsScanned
<1>2. /\ PendingEntry(i) \in Logged
      /\ \A e \in Logged : ~(e.status = "committed" /\ e.seq = i.seq)
  BY <1>1, ScannedMeans
<1>3. PendingEntry(i) \in Logged'
  BY <1>2
<1>4. \A e \in Logged' : ~(e.status = "committed" /\ e.seq = i.seq)
  BY <1>2
<1> QED BY <1>1, <1>3, <1>4 DEF Scan, Unsettled

LEMMA OwedInductive ==
    OwedOK /\ NumbersOK' /\ [Next]_vars => OwedIsScanned'
<1> SUFFICES ASSUME OwedOK, NumbersOK', [Next]_vars
             PROVE  OwedIsScanned'
  OBVIOUS
<1>0. TypeOK /\ NumbersOK /\ OwedIsScanned /\ owed \subseteq Intent
  BY DEF OwedOK, NumbersOK, TypeOK
<1>1. ASSUME NEW tg \in Targets, AppendPending(tg) PROVE OwedIsScanned'
  <2> DEFINE new == NextIntent(tg)
  <2>1. new \in Intent /\ new.seq = nextSeq
    BY <1>0, <1>1, NextIntentType DEF AppendPending
  <2>2. Logged \subseteq Logged' /\ Logged' \subseteq Logged \union {PendingEntry(new)}
    BY <1>1, WriteAdds DEF AppendPending
  <2>3. \A e \in Logged' : e \in Logged \/ (e = PendingEntry(new) /\ e.status = "pending")
    BY <2>1, <2>2, EntryTypes
  <2>4. \A e \in Logged' : ~(e.status = "committed" /\ e.seq = nextSeq)
    <3>1. \A e \in Logged : e.seq < nextSeq /\ e.seq \in Nat /\ nextSeq \in Nat
      BY <1>0, <1>1, LoggedTypes, ConfigAssumption
      DEF ConfigAssumption, NumbersOK, SeqsBehind, AppendPending, Entry, TypeOK
    <3>2. \A e \in Logged : e.seq # nextSeq
      BY <3>1
    <3>3. ("committed" = "pending") = FALSE
      OBVIOUS
    <3> QED BY <2>3, <3>2, <3>3
  <2>5. ASSUME ~torn PROVE new \in Scan'
    <3>1. PendingEntry(new) \in Logged'
      BY <1>1, <2>5, ConfirmedWriteAdds DEF AppendPending
    <3> QED BY <2>1, <2>4, <3>1 DEF Scan, Unsettled
  <2>6. ASSUME NEW i \in owed PROVE i \in Scan'
    <3>1. i \in Intent /\ i \in Scan
      BY <1>0 DEF OwedIsScanned
    <3>2. PendingEntry(i) \in Logged'
      BY <2>2, <3>1, ScannedMeans
    <3>3. \A e \in Logged' : ~(e.status = "committed" /\ e.seq = i.seq)
      BY <2>3, <3>1, ScannedMeans
    <3> QED BY <3>1, <3>2, <3>3 DEF Scan, Unsettled
  <2>7. owed' = IF torn THEN owed ELSE owed \union {new}
    BY <1>1 DEF AppendPending
  <2> QED BY <2>5, <2>6, <2>7 DEF OwedIsScanned
<1>2. ASSUME NEW tg \in Targets, AppendFails(tg) PROVE OwedIsScanned'
  <2>1. NextIntent(tg) \in Intent
    BY <1>0, <1>2, NextIntentType DEF AppendFails
  <2>2. /\ Logged \subseteq Logged'
        /\ Logged' \subseteq Logged \union {PendingEntry(NextIntent(tg))}
    BY <1>2, WriteAdds DEF AppendFails
  <2>3. \A e \in Logged' : e \in Logged \/ e.status = "pending"
    BY <2>1, <2>2, EntryTypes
  <2> QED BY <1>0, <1>2, <2>2, <2>3, StillScanned DEF AppendFails
<1>3. ASSUME NEW i \in Intent, MarkCommitted(i) \/ MarkFails(i) PROVE OwedIsScanned'
  <2>1. Logged \subseteq Logged' /\ Logged' \subseteq Logged \union {CommittedEntry(i)}
    BY <1>3, WriteAdds DEF MarkCommitted, MarkFails
  <2>2. i \in inHand /\ owed' = owed \ {i}
    BY <1>3 DEF MarkCommitted, MarkFails
  <2>3. ASSUME NEW j \in owed, j.seq = i.seq PROVE j = i
    <3>1. PendingEntry(j) \in Logged /\ j \in Intent
      BY <1>0, ScannedMeans DEF OwedIsScanned
    <3>2. PendingEntry(i) \in Held
      BY <2>2 DEF Held
    <3>3. j.target = i.target
      BY <1>0, <2>3, <3>1, <3>2, EntryTypes DEF NumbersOK, NoAlias
    <3> QED BY <2>3, <3>1, <3>3 DEF Intent
  <2>4. \A e \in Logged' : e \in Logged \/ \A j \in owed' : j.seq # e.seq
    BY <2>1, <2>2, <2>3, EntryTypes
  <2> QED BY <1>0, <2>1, <2>2, <2>4, StillScanned
<1>4. ASSUME NEW i \in Intent, Abandon(i) PROVE OwedIsScanned'
  BY <1>0, <1>4 DEF Abandon, files, OwedIsScanned, Scan, Unsettled, Logged, InArchives
<1>5. CASE Flush
  BY <1>0, <1>5 DEF Flush, OwedIsScanned, Scan, Unsettled, Logged, InArchives
<1>6. ASSUME NEW gone \in SUBSET {a \in archives : Removable(a)}, Drop(gone)
      PROVE  OwedIsScanned'
  <2>1. owed' = {i \in owed : PendingEntry(i) \notin InArchives({a \in gone : TooOld(a)})}
    BY <1>6 DEF Drop
  <2>2. gone \subseteq archives
    OBVIOUS
  <2>3. Logged' \subseteq Logged
    BY <1>6, <2>2, DropKeeps
  <2>4. ASSUME NEW i \in owed', PendingEntry(i) \in Logged
        PROVE  PendingEntry(i) \in Logged'
    <3>1. ASSUME NEW a \in gone, PendingEntry(i) \in a.entries PROVE FALSE
      <4>1. HoldsPending(a)
        BY <1>0, <2>1, <3>1, EntryTypes DEF HoldsPending
      <4>2. TooOld(a)
        BY <4>1 DEF Removable
      <4> QED BY <2>1, <3>1, <4>2 DEF InArchives
    <3>2. PendingEntry(i) \notin InArchives(gone)
      BY <3>1 DEF InArchives
    <3> QED BY <1>6, <2>2, <2>4, <3>2, DropKeeps
  <2> QED BY <1>0, <2>1, <2>3, <2>4, StillScanned
<1>7. ASSUME NEW a \in archives, Age(a) PROVE OwedIsScanned'
  <2>1. Logged' = Logged /\ owed' = owed
    BY <1>0, <1>7, AgeKeeps DEF Age
  <2> QED BY <1>0, <2>1, StillScanned
<1>8. CASE Open
  BY <1>0, <1>8 DEF Open, files, OwedIsScanned, Scan, Unsettled, Logged, InArchives
<1>9. CASE Kill
  BY <1>0, <1>9 DEF Kill, files, OwedIsScanned, Scan, Unsettled, Logged, InArchives
<1>10. CASE PowerLoss
  <2>1. PICK lost \in SUBSET unsynced :
            /\ current' = current \ lost
            /\ archives' = {[a EXCEPT !.entries = a.entries \ lost] : a \in archives}
            /\ owed' = {i \in owed : PendingEntry(i) \notin lost}
    BY <1>10 DEF PowerLoss
  <2>2. Logged' = Logged \ lost
    BY <1>0, <2>1, PowerLossKeeps
  <2> QED BY <1>0, <2>1, <2>2, StillScanned
<1>11. CASE UNCHANGED vars
  BY <1>0, <1>11 DEF vars, files, OwedIsScanned, Scan, Unsettled, Logged, InArchives
<1> QED
  BY <1>1, <1>2, <1>3, <1>4, <1>5, <1>6, <1>7, <1>8, <1>9, <1>10, <1>11
  DEF Next, Gc, GcFails

LEMMA OwedInvariant == Spec => []OwedOK
<1>1. Init => NumbersOK /\ TornByShort /\ OwedIsScanned
  <2>1. Init => SeqsBehind /\ NoAlias
    BY DEF Init, SeqsBehind, NoAlias, Logged, Held, InArchives
  <2>2. Init => TornByShort /\ OwedIsScanned
    BY DEF Init, TornByShort, OwedIsScanned
  <2>3. Init => TypeOK
    BY TypeCorrectInit
  <2> QED BY <2>1, <2>2, <2>3 DEF NumbersOK
<1>2. OwedOK /\ TypeOK' /\ [Next]_vars => OwedOK'
  BY NumbersInductive, OwedInductive, TornInductive DEF OwedOK
<1> QED BY <1>1, <1>2, TypeCorrect, PTL DEF Spec, OwedOK

\* Every intent that was acknowledged on a whole line and neither settled, nor
\* aged out, nor lost unsynced to a power loss, is reported by the next scan,
\* torn lines or not (append_pending, maybe_rotate, gc_old_logs, open,
\* scan_pending).
THEOREM OwedAlwaysScanned == Spec => []OwedIsScanned
<1>1. OwedOK => OwedIsScanned
  BY DEF OwedOK
<1> QED BY <1>1, OwedInvariant, PTL

-----------------------------------------------------------------------------
(* The log implements PendingIntents *)

\* What recovery is told depends on the lines of the files alone.
LEMMA SameScan == ASSUME Logged' = Logged PROVE Scan' = Scan
BY DEF Scan, Unsettled

LEMMA ScanUnique == ASSUME NoAlias PROVE Abstract!Unique(Scan)
<1> SUFFICES ASSUME NEW i \in Scan, NEW j \in Scan, i.seq = j.seq PROVE i = j
  BY DEF Abstract!Unique
<1>1. i \in Intent /\ j \in Intent /\ PendingEntry(i) \in Logged /\ PendingEntry(j) \in Logged
  BY ScannedMeans DEF Scan, Unsettled
<1>2. i.target = j.target
  BY <1>1, EntryTypes DEF NoAlias
<1> QED BY <1>1, <1>2 DEF Intent

\* The next number is in no file and no caller's hand.
LEMMA NextIsFresh ==
    ASSUME OwedOK, open, NEW tg \in Targets, nextSeq <= MaxSeq
    PROVE  /\ NextIntent(tg) \in Intent
           /\ NextIntent(tg).seq = nextSeq
           /\ \A e \in Logged \union Held : e.seq # nextSeq
           /\ Abstract!Fresh(NextIntent(tg))
<1> DEFINE new == NextIntent(tg)
<1>1. new \in Intent /\ new.seq = nextSeq
  BY NextIntentType DEF OwedOK, NumbersOK
<1>2. \A e \in Logged \union Held : e.seq # nextSeq
  <2>1. \A e \in Logged \union Held : e.seq < nextSeq /\ e.seq \in Nat /\ nextSeq \in Nat
    BY LoggedTypes, ConfigAssumption
    DEF ConfigAssumption, OwedOK, NumbersOK, SeqsBehind, Entry, TypeOK
  <2> QED BY <2>1
<1>3. \A j \in Scan \union inHand : j.seq # nextSeq
  <2>1. \A j \in Scan \union inHand : j \in Intent /\ PendingEntry(j) \in Logged \union Held
    BY ScannedMeans DEF OwedOK, NumbersOK, TypeOK, Scan, Unsettled, Held
  <2> QED BY <1>2, <2>1, EntryTypes
<1>4. Abstract!Fresh(new)
  BY <1>1, <1>3 DEF Abstract!Fresh
<1> QED BY <1>1, <1>2, <1>4

\* An entry with a number of its own is reported and hides nothing.
LEMMA ScanAdds ==
    ASSUME OwedOK, open, NEW tg \in Targets, nextSeq <= MaxSeq,
           Logged' = Logged \union {PendingEntry(NextIntent(tg))}
    PROVE  Scan' = Scan \union {NextIntent(tg)}
<1> DEFINE new == NextIntent(tg)
<1>1. new \in Intent /\ new.seq = nextSeq
  BY NextIsFresh
<1>2. \A e \in Logged \union Held : e.seq # nextSeq
  BY NextIsFresh
<1>3. \A i \in Intent : PendingEntry(i) = PendingEntry(new) => i = new
  <2>1. \A i \in Intent : PendingEntry(i).seq = i.seq /\ PendingEntry(i).target = i.target
    BY EntryTypes
  <2> QED BY <1>1, <2>1 DEF Intent
<1>4. PendingEntry(new).status = "pending" /\ PendingEntry(new).seq = nextSeq
  BY <1>1, EntryTypes
<1>5. ASSUME NEW i \in Intent PROVE i \in Scan' <=> i \in Scan \/ i = new
  <2>1. i \in Scan' <=> /\ PendingEntry(i) \in Logged'
                        /\ \A e \in Logged' : ~(e.status = "committed" /\ e.seq = i.seq)
    BY DEF Scan, Unsettled
  <2>2. (\A e \in Logged' : ~(e.status = "committed" /\ e.seq = i.seq))
          <=> \A e \in Logged : ~(e.status = "committed" /\ e.seq = i.seq)
    <3>1. PendingEntry(new).status # "committed"
      BY <1>4
    <3>2. \A e : e \in Logged' <=> e \in Logged \/ e = PendingEntry(new)
      OBVIOUS
    <3> HIDE DEF new
    <3> QED BY <3>1, <3>2
  <2>3. PendingEntry(i) \in Logged' <=> PendingEntry(i) \in Logged \/ i = new
    BY <1>3
  <2>4. i = new => \A e \in Logged : ~(e.status = "committed" /\ e.seq = i.seq)
    BY <1>1, <1>2
  <2> HIDE DEF new
  <2> QED BY <2>1, <2>2, <2>3, <2>4, ScannedMeans
<1>6. Scan' \subseteq Intent /\ Scan \subseteq Intent
  BY DEF Scan, Unsettled
<1> QED BY <1>1, <1>5, <1>6

\* A marker settles the one intent that has its number.
LEMMA ScanSettles ==
    ASSUME OwedOK, NEW i \in Intent, i \in inHand,
           Logged' = Logged \union {CommittedEntry(i)}
    PROVE  Scan' = Scan \ {i}
<1>1. /\ CommittedEntry(i).status = "committed" /\ CommittedEntry(i).seq = i.seq
      /\ \A j \in Intent : PendingEntry(j) # CommittedEntry(i)
  BY DEF PendingEntry, CommittedEntry
<1>2. ASSUME NEW j \in Scan, j.seq = i.seq PROVE j = i
  <2>1. j \in Intent /\ PendingEntry(j) \in Logged /\ PendingEntry(i) \in Held
    BY ScannedMeans DEF Scan, Unsettled, Held
  <2>2. j.target = i.target
    BY <1>2, <2>1, EntryTypes DEF OwedOK, NumbersOK, NoAlias
  <2> QED BY <1>2, <2>1, <2>2 DEF Intent
<1>3. ASSUME NEW j \in Intent PROVE j \in Scan' <=> j \in Scan /\ j.seq # i.seq
  <2>1. j \in Scan' <=> /\ PendingEntry(j) \in Logged'
                        /\ \A e \in Logged' : ~(e.status = "committed" /\ e.seq = j.seq)
    BY DEF Scan, Unsettled
  <2> QED BY <1>1, <2>1, ScannedMeans
<1>4. Scan' \subseteq Intent /\ Scan \subseteq Intent
  BY DEF Scan, Unsettled
<1> QED BY <1>2, <1>3, <1>4

\* The lines of the files after a write: the new one, unless it went onto a torn
\* line or stopped short.
LEMMA WriteExact ==
    ASSUME NEW e, WriteEntry(e) \/ WriteUnconfirmed(e) \/ WriteShort
    PROVE  Logged' = Logged \/ Logged' = Logged \union {e}
<1>1. CASE WriteEntry(e)
  <2>1. Logged' = Appended(e) \union InArchives(archives)
    BY <1>1, RotateKeeps DEF WriteEntry
  <2> QED BY <2>1 DEF Appended, Logged
<1>2. CASE WriteUnconfirmed(e)
  BY <1>2 DEF WriteUnconfirmed, Appended, Logged, InArchives
<1>3. CASE WriteShort
  BY <1>3 DEF WriteShort, Logged, InArchives
<1> QED BY <1>1, <1>2, <1>3

LEMMA Simulates ==
    OwedOK /\ OwedOK' /\ [Next]_vars => [Abstract!Next]_(Abstract!vars)
<1> SUFFICES ASSUME OwedOK, OwedOK', [Next]_vars
             PROVE  Abstract!Next \/ UNCHANGED Abstract!vars
  OBVIOUS
<1>0. TypeOK /\ NoAlias /\ OwedIsScanned /\ NoAlias' /\ OwedIsScanned' /\ TornByShort
  BY DEF OwedOK, NumbersOK
<1>1. ASSUME NEW tg \in Targets, AppendPending(tg) PROVE Abstract!Next
  <2>1. NextIntent(tg) \in Intent /\ Abstract!Fresh(NextIntent(tg))
    BY <1>1, NextIsFresh DEF AppendPending
  <2>2. CASE torn
    <3>1. Logged' = Logged
      BY <1>1, <2>2, RotateKeeps DEF AppendPending, WriteEntry, Appended, Logged
    <3>2. Abstract!Mislay(NextIntent(tg))
      BY <1>0, <1>1, <2>1, <2>2, <3>1, SameScan
      DEF AppendPending, TornByShort, Abstract!Mislay
    <3> QED BY <2>1, <3>2 DEF Abstract!Next
  <2>3. CASE ~torn
    <3>1. Logged' = Logged \union {PendingEntry(NextIntent(tg))}
      BY <1>1, <2>3, RotateKeeps DEF AppendPending, WriteEntry, Appended, Logged
    <3>2. Scan' = Scan \union {NextIntent(tg)}
      BY <1>1, <3>1, ScanAdds DEF AppendPending
    <3>3. Abstract!Accept(NextIntent(tg))
      BY <1>1, <2>1, <2>3, <3>2 DEF AppendPending, Abstract!Accept
    <3> QED BY <2>1, <3>3 DEF Abstract!Next
  <2> QED BY <2>2, <2>3
<1>2. ASSUME NEW tg \in Targets, AppendFails(tg)
      PROVE  Abstract!Next \/ UNCHANGED Abstract!vars
  <2>1. NextIntent(tg) \in Intent /\ Abstract!Fresh(NextIntent(tg))
    BY <1>2, NextIsFresh DEF AppendFails
  <2>2. CASE Logged' = Logged
    BY <1>2, <2>2, SameScan DEF AppendFails, Abstract!vars
  <2>3. CASE Logged' = Logged \union {PendingEntry(NextIntent(tg))}
    <3>1. Scan' = Scan \union {NextIntent(tg)}
      BY <1>2, <2>3, ScanAdds DEF AppendFails
    <3>2. Abstract!Refuse(NextIntent(tg))
      BY <1>2, <2>1, <3>1 DEF AppendFails, Abstract!Refuse
    <3> QED BY <2>1, <3>2 DEF Abstract!Next
  <2> QED BY <1>2, <2>2, <2>3, WriteExact DEF AppendFails
<1>3. ASSUME NEW i \in Intent, MarkCommitted(i) \/ MarkFails(i) PROVE Abstract!Next
  <2>1. CASE Logged' = Logged
    BY <1>3, <2>1, SameScan DEF MarkCommitted, MarkFails, Abstract!Settle, Abstract!Next
  <2>2. CASE Logged' = Logged \union {CommittedEntry(i)}
    <3>1. Scan' = Scan \ {i}
      BY <1>3, <2>2, ScanSettles DEF MarkCommitted, MarkFails
    <3> QED BY <1>3, <3>1 DEF MarkCommitted, MarkFails, Abstract!Settle, Abstract!Next
  <2> QED BY <1>3, <2>1, <2>2, WriteExact DEF MarkCommitted, MarkFails
<1>4. ASSUME NEW i \in Intent, Abandon(i) PROVE Abstract!Next
  <2>1. Scan' = Scan
    BY <1>4, SameScan DEF Abandon, files, Logged, InArchives
  <2> QED BY <1>4, <2>1 DEF Abandon, Abstract!Abandon, Abstract!Next
<1>5. CASE Flush
  <2>1. Scan' = Scan
    BY <1>5, SameScan DEF Flush, Logged, InArchives
  <2> QED BY <1>5, <2>1 DEF Flush, Abstract!vars
<1>6. Abstract!Unique(Scan') /\ Scan' \subseteq Intent /\ owed' \subseteq Scan'
  <2>1. NoAlias' => Abstract!Unique(Scan)'
    BY ScanUnique, PTL
  <2>2. Abstract!Unique(Scan')
    BY <1>0, <2>1 DEF Abstract!Unique
  <2> QED BY <1>0, <2>2 DEF OwedIsScanned, Scan, Unsettled
<1>7. ASSUME NEW gone, Drop(gone) PROVE Abstract!Next
  <2>1. Abstract!Collect
    BY <1>6, <1>7 DEF Drop, Abstract!Collect, Abstract!Lose
  <2> QED BY <2>1 DEF Abstract!Next
<1>8. ASSUME NEW a \in archives, Age(a) PROVE UNCHANGED Abstract!vars
  <2>1. Scan' = Scan
    BY <1>0, <1>8, AgeKeeps, SameScan
  <2> QED BY <1>8, <2>1 DEF Age, Abstract!vars
<1>9. CASE Open
  <2>1. Scan' = Scan
    BY <1>9, SameScan DEF Open, files, Logged, InArchives
  <2>2. Abstract!Open
    BY <1>9, <2>1 DEF Open, Recovered, Abstract!Open
  <2> QED BY <2>2 DEF Abstract!Next
<1>10. CASE Kill \/ PowerLoss
  <2>1. owed' \subseteq owed /\ ~open' /\ inHand' = {}
    BY <1>10 DEF Kill, PowerLoss, Stop
  <2>2. Abstract!Down
    BY <1>6, <2>1 DEF Abstract!Down, Abstract!Lose
  <2> QED BY <2>2 DEF Abstract!Next
<1>11. CASE UNCHANGED vars
  <2>1. Scan' = Scan
    BY <1>11, SameScan DEF vars, files, Logged, InArchives
  <2> QED BY <1>11, <2>1 DEF vars, Abstract!vars
<1> QED
  BY <1>1, <1>2, <1>3, <1>4, <1>5, <1>7, <1>8, <1>9, <1>10, <1>11 DEF Next, Gc, GcFails

\* IntentLog implements PendingIntents: rotation, collection, failed calls,
\* crashes and reopening are invisible to callers and to recovery but for what is
\* lost with a file, what comes back and, where a write may stop in the middle
\* of a line, what is mislaid behind it.
THEOREM Implements == Spec => RefinesPendingIntents
<1>1. Init => Abstract!Init
  BY DEF Init, Abstract!Init, Scan, Unsettled, Logged, InArchives
<1>2. Spec => []OwedOK
  BY OwedInvariant
<1>3. OwedOK /\ OwedOK' /\ [Next]_vars => [Abstract!Next]_(Abstract!vars)
  BY Simulates
<1> QED BY <1>1, <1>2, <1>3, PTL DEF Spec, RefinesPendingIntents, Abstract!Spec
-----------------------------------------------------------------------------
(* Work under an intent, where nothing tears lines or ages archives *)

\* A step that keeps every line and adds no marker keeps what is reported.
LEMMA ScanGrows ==
    ASSUME \A e \in Logged' : e \in Logged \/ e.status = "pending",
           \A i \in Intent : PendingEntry(i) \in Logged => PendingEntry(i) \in Logged'
    PROVE  Scan \subseteq Scan'
<1> SUFFICES ASSUME NEW i \in Scan PROVE i \in Scan'
  OBVIOUS
<1>1. /\ i \in Intent /\ PendingEntry(i) \in Logged
      /\ \A e \in Logged : ~(e.status = "committed" /\ e.seq = i.seq)
  BY ScannedMeans DEF Scan, Unsettled
<1>2. \A e \in Logged' : ~(e.status = "committed" /\ e.seq = i.seq)
  BY <1>1
<1> QED BY <1>1, <1>2 DEF Scan, Unsettled

LEMMA HeldInductive ==
    ASSUME ~ShortWrites, ~AgeCap, OwedOK, HeldIsScanned, [Next]_vars
    PROVE  HeldIsScanned'
<1>0. TypeOK /\ ~torn
  BY DEF OwedOK, NumbersOK, TornByShort
<1>1. ASSUME NEW tg \in Targets, AppendPending(tg) PROVE HeldIsScanned'
  <2>1. Logged' = Logged \union {PendingEntry(NextIntent(tg))}
    BY <1>0, <1>1, RotateKeeps DEF AppendPending, WriteEntry, Appended, Logged
  <2>2. Scan' = Scan \union {NextIntent(tg)}
    BY <1>1, <2>1, ScanAdds DEF AppendPending
  <2> QED BY <1>1, <2>2 DEF AppendPending, HeldIsScanned
<1>2. ASSUME NEW tg \in Targets, AppendFails(tg) PROVE HeldIsScanned'
  <2>1. NextIntent(tg) \in Intent
    BY <1>0, <1>2, NextIntentType DEF AppendFails
  <2>2. /\ Logged \subseteq Logged'
        /\ Logged' \subseteq Logged \union {PendingEntry(NextIntent(tg))}
    BY <1>2, WriteAdds DEF AppendFails
  <2>3. Scan \subseteq Scan'
    BY <2>1, <2>2, EntryTypes, ScanGrows
  <2> QED BY <1>2, <2>3 DEF AppendFails, HeldIsScanned
<1>3. ASSUME NEW i \in Intent, MarkCommitted(i) \/ MarkFails(i) PROVE HeldIsScanned'
  <2>1. i \in inHand /\ inHand' = inHand \ {i}
    BY <1>3 DEF MarkCommitted, MarkFails
  <2>2. CASE Logged' = Logged
    BY <2>1, <2>2, SameScan DEF HeldIsScanned
  <2>3. CASE Logged' = Logged \union {CommittedEntry(i)}
    <3>1. Scan' = Scan \ {i}
      BY <2>1, <2>3, ScanSettles
    <3> QED BY <2>1, <3>1 DEF HeldIsScanned
  <2> QED BY <1>3, <2>2, <2>3, WriteExact DEF MarkCommitted, MarkFails
<1>4. ASSUME NEW i \in Intent, Abandon(i) PROVE HeldIsScanned'
  <2>1. Scan' = Scan
    BY <1>4, SameScan DEF Abandon, files, Logged, InArchives
  <2> QED BY <1>4, <2>1 DEF Abandon, HeldIsScanned
<1>5. CASE Flush
  <2>1. Scan' = Scan
    BY <1>5, SameScan DEF Flush, Logged, InArchives
  <2> QED BY <1>5, <2>1 DEF Flush, HeldIsScanned
<1>6. ASSUME NEW gone \in SUBSET {a \in archives : Removable(a)}, Drop(gone)
      PROVE  HeldIsScanned'
  <2>1. gone \subseteq archives /\ \A a \in gone : ~HoldsPending(a)
    BY DEF Removable, TooOld
  <2>2. \A i \in Intent : PendingEntry(i) \notin InArchives(gone)
    BY <2>1, EntryTypes DEF HoldsPending, InArchives
  <2>3. /\ Logged' \subseteq Logged
        /\ \A i \in Intent : PendingEntry(i) \in Logged => PendingEntry(i) \in Logged'
    BY <1>6, <2>1, <2>2, DropKeeps
  <2>4. Scan \subseteq Scan'
    BY <2>3, ScanGrows
  <2> QED BY <1>6, <2>4 DEF Drop, HeldIsScanned
<1>7. ASSUME NEW a \in archives, Age(a) PROVE HeldIsScanned'
  <2>1. Scan' = Scan
    BY <1>0, <1>7, AgeKeeps, SameScan
  <2> QED BY <1>7, <2>1 DEF Age, HeldIsScanned
<1>8. CASE Open
  <2>1. Scan' = Scan
    BY <1>8, SameScan DEF Open, files, Logged, InArchives
  <2> QED BY <1>8, <2>1 DEF Open, Recovered, HeldIsScanned
<1>9. CASE Kill \/ PowerLoss
  BY <1>9 DEF Kill, PowerLoss, Stop, HeldIsScanned
<1>10. CASE UNCHANGED vars
  <2>1. Scan' = Scan
    BY <1>10, SameScan DEF vars, files, Logged, InArchives
  <2> QED BY <1>10, <2>1 DEF vars, HeldIsScanned
<1> QED
  BY <1>1, <1>2, <1>3, <1>4, <1>5, <1>6, <1>7, <1>8, <1>9, <1>10 DEF Next, Gc, GcFails

\* Where no write stops in the middle of a line and no archive is collected by
\* age, recovery would hear of every intent an operation is at work under,
\* whatever fails, rotates, is collected or crashes: a torn line and the age cap
\* are the only two ways to lose one (append_pending, gc_old_logs).
THEOREM HeldAlwaysScanned ==
    ASSUME ~ShortWrites, ~AgeCap
    PROVE  Spec => []HeldIsScanned
<1>1. Init => HeldIsScanned
  BY DEF Init, HeldIsScanned
<1>2. OwedOK /\ HeldIsScanned /\ [Next]_vars => HeldIsScanned'
  BY HeldInductive
<1> QED BY <1>1, <1>2, OwedInvariant, PTL DEF Spec

=============================================================================
