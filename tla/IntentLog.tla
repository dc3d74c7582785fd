------------------------------ MODULE IntentLog ------------------------------
(***************************************************************************)
(* The intent log of loomem-core/src/intent_log.rs: the append-only file   *)
(* current.log, the archives it is rotated into, their garbage collection, *)
(* and the scan that decides which intents recovery replays.               *)
(*                                                                         *)
(* A file is the set of the entries its parseable lines hold: scan_pending *)
(* keeps a Pending entry unless a Committed one with its sequence number   *)
(* occurs anywhere in any file, so the order of lines does not matter.     *)
(* A line no parser accepts adds nothing to that set.  What does matter is *)
(* an unterminated last line (torn): the next entry is written onto it and *)
(* the two together are one unparseable line.                              *)
(***************************************************************************)
EXTENDS Naturals, FiniteSets

CONSTANTS
    Targets,      \* the <<operation, id>> pairs an intent can name
    MaxSeq,       \* bound of the model: sequence numbers stay below it
    MaxEntries,   \* entries in current.log that trigger a rotation (max_size_mb)
    SyncOnWrite,  \* config.sync_on_write
    AgeCap,       \* TRUE iff archive_max_age_days > 0
    ShortWrites   \* TRUE iff a write may stop in the middle of a line

ASSUME ConfigAssumption ==
    /\ MaxSeq \in Nat
    /\ MaxEntries \in Nat
    /\ SyncOnWrite \in BOOLEAN
    /\ AgeCap \in BOOLEAN
    /\ ShortWrites \in BOOLEAN

VARIABLES
    archives,   \* the wal_<ts>_<rot>.log files
    current,    \* current.log
    torn,       \* current.log ends in an unterminated, partial line
    unsynced,   \* entries written since the last fsync of their file
    nextSeq,    \* IntentLog::next_seq of the open log
    open,       \* a process has the log open
    inHand,     \* intents a live caller got a sequence number for
    owed        \* what recovery owes: intents acknowledged on a whole line and
                \* neither settled nor given up by the age cap or a power loss

files == <<archives, current, torn, unsynced>>
vars == <<files, nextSeq, open, inHand, owed>>

Intent == [seq : 1..MaxSeq, target : Targets]
Entry == [seq : 1..MaxSeq, target : Targets, status : {"pending", "committed"}]
Archive == [entries : SUBSET Entry, aged : BOOLEAN]

PendingEntry(i) == [seq |-> i.seq, target |-> i.target, status |-> "pending"]
CommittedEntry(i) == [seq |-> i.seq, target |-> i.target, status |-> "committed"]

InArchives(as) == UNION {a.entries : a \in as}
Logged == current \union InArchives(archives)

\* scan_pending: the Pending entries no Committed entry matches.
Unsettled(es) ==
    {i \in Intent : /\ PendingEntry(i) \in es
                    /\ \A e \in es : ~(e.status = "committed" /\ e.seq = i.seq)}

Scan == Unsettled(Logged)

TypeOK ==
    /\ archives \subseteq Archive
    /\ current \subseteq Entry
    /\ torn \in BOOLEAN
    /\ unsynced \subseteq Entry
    /\ nextSeq \in 1..(MaxSeq + 1)
    /\ open \in BOOLEAN
    /\ inHand \subseteq Intent
    /\ owed \subseteq Intent

Init ==
    /\ archives = {}
    /\ current = {}
    /\ torn = FALSE
    /\ unsynced = {}
    /\ nextSeq = 1
    /\ open = FALSE
    /\ inHand = {}
    /\ owed = {}

-----------------------------------------------------------------------------
(* Writing a line *)

\* maybe_rotate: current.log becomes an archive once it reaches the limit.
\* The rename goes to a name no file has, so no archive is overwritten.
Rotate(es) ==
    IF Cardinality(es) >= MaxEntries
    THEN /\ archives' = archives \union {[entries |-> es, aged |-> FALSE]}
         /\ current' = {}
    ELSE /\ current' = es
         /\ UNCHANGED archives

\* The entries of current.log once the line of e is complete: written onto a
\* torn tail it is part of a line that does not parse.
Appended(e) == IF torn THEN current ELSE current \union {e}

\* sync_all covers the whole file, the entries left unsynced before included.
Synced(e) ==
    unsynced' = IF SyncOnWrite
                THEN unsynced \ current
                ELSE IF torn THEN unsynced ELSE unsynced \union {e}

\* write_entry that returns Ok.
WriteEntry(e) ==
    /\ Rotate(Appended(e))
    /\ Synced(e)
    /\ torn' = FALSE

\* write_entry that returns Err after the whole line: flush, fsync or rename
\* failed.  The line stays in current.log.  (Opening a new current.log after
\* the rename is taken to succeed.)
WriteUnconfirmed(e) ==
    /\ current' = Appended(e)
    /\ unsynced' = IF torn THEN unsynced ELSE unsynced \union {e}
    /\ torn' = FALSE
    /\ UNCHANGED archives

\* write_entry whose write_all stopped in the middle of the line.
WriteShort ==
    /\ ShortWrites
    /\ torn' = TRUE
    /\ UNCHANGED <<archives, current, unsynced>>

-----------------------------------------------------------------------------
(* The operations *)

\* append_pending: the number is taken before the write and not given back.
\* (Wrong: the number after the increment.)
NextIntentBumped(tg) == [seq |-> nextSeq + 1, target |-> tg]
NextIntent(tg) == [seq |-> nextSeq, target |-> tg]

AppendPending(tg) ==
    /\ open
    /\ nextSeq <= MaxSeq
    /\ nextSeq' = nextSeq + 1
    /\ WriteEntry(PendingEntry(NextIntent(tg)))
    /\ inHand' = inHand \union {NextIntent(tg)}
    /\ owed' = IF torn THEN owed ELSE owed \union {NextIntent(tg)}
    /\ UNCHANGED open

AppendFails(tg) ==
    /\ open
    /\ nextSeq <= MaxSeq
    /\ nextSeq' = nextSeq + 1
    /\ \/ WriteUnconfirmed(PendingEntry(NextIntent(tg)))
       \/ WriteShort
    /\ UNCHANGED <<open, inHand, owed>>

MarkCommitted(i) ==
    /\ open
    /\ i \in inHand
    /\ WriteEntry(CommittedEntry(i))
    /\ inHand' = inHand \ {i}
    /\ owed' = owed \ {i}
    /\ UNCHANGED <<nextSeq, open>>

\* The caller gets Err: the operation is done, whether its marker is in the
\* log or not.
MarkFails(i) ==
    /\ open
    /\ i \in inHand
    /\ \/ WriteUnconfirmed(CommittedEntry(i))
       \/ WriteShort
    /\ inHand' = inHand \ {i}
    /\ owed' = owed \ {i}
    /\ UNCHANGED <<nextSeq, open>>

\* A caller that stops at a later error leaves its intent Pending.
Abandon(i) ==
    /\ i \in inHand
    /\ inHand' = inHand \ {i}
    /\ UNCHANGED <<files, nextSeq, open, owed>>

\* Flush: fsync of current.log at shutdown.
Flush ==
    /\ open
    /\ unsynced' = unsynced \ current
    /\ UNCHANGED <<archives, current, torn, nextSeq, open, inHand, owed>>

\* count_pending_in_archive counts Pending lines, settled elsewhere or not.
HoldsPending(a) == \E e \in a.entries : e.status = "pending"
TooOld(a) == AgeCap /\ a.aged
\* (Wrong: one marker in the archive passes for all its intents.)
RemovableOnMarker(a) == TooOld(a) \/ \E e \in a.entries : e.status = "committed"
Removable(a) == ~HoldsPending(a) \/ TooOld(a)

\* Removing files, one after another.  What an aged archive held Pending is
\* given up: "a lost write; no recovery scan will repair it".
Drop(gone) ==
    /\ open
    /\ gone # {}
    /\ archives' = archives \ gone
    /\ owed' = {i \in owed :
                  PendingEntry(i) \notin InArchives({a \in gone : TooOld(a)})}
    /\ UNCHANGED <<current, torn, unsynced, nextSeq, open, inHand>>

\* gc_old_logs; remove_file returns its first error, which leaves the rest.
Gc == Drop({a \in archives : Removable(a)})

GcFails == \E gone \in SUBSET {a \in archives : Removable(a)} : Drop(gone)

\* Days pass: the timestamp in an archive's name is past archive_max_age_ms.
Age(a) ==
    /\ a \in archives
    /\ ~a.aged
    /\ archives' = (archives \ {a}) \union {[a EXCEPT !.aged = TRUE]}
    /\ UNCHANGED <<current, torn, unsynced, nextSeq, open, inHand, owed>>

-----------------------------------------------------------------------------
(* Process start and end *)

\* scan_directory_max_seq reads current.log and every archive.
\* (Wrong: current.log alone, empty after each rotation.)
NumberedInCurrent == current
Numbered == Logged

\* scan_pending, which recover runs first.
\* (Wrong: of current.log alone.)
CurrentScan == Unsettled(current)
Recovered == Scan

\* IntentLog::open: next_seq is one above every number in any file.  Both
\* callers run recover next.
Open ==
    /\ ~open
    /\ \E m \in 0..MaxSeq :
          /\ \A e \in Numbered : e.seq <= m
          /\ m = 0 \/ \E e \in Numbered : e.seq = m
          /\ nextSeq' = m + 1
    /\ open' = TRUE
    /\ inHand' = Recovered
    /\ UNCHANGED <<files, owed>>

\* What the process holds in memory goes with it.
Stop == open' = FALSE /\ inHand' = {} /\ nextSeq' = 1

\* kill -9: the page cache survives.
Kill ==
    /\ open
    /\ Stop
    /\ UNCHANGED <<files, owed>>

\* Power loss: any entry not fsynced may be gone, and the line being written
\* may be left incomplete.  (One that follows a kill -9 leaves what it would
\* have left instead of it.)
PowerLoss ==
    /\ open
    /\ Stop
    /\ \E lost \in SUBSET unsynced :
          /\ current' = current \ lost
          /\ archives' = {[a EXCEPT !.entries = a.entries \ lost] : a \in archives}
          /\ owed' = {i \in owed : PendingEntry(i) \notin lost}
    /\ unsynced' = {}
    /\ \/ UNCHANGED torn
       \/ ShortWrites /\ torn' = TRUE

Next ==
    \/ \E tg \in Targets : AppendPending(tg) \/ AppendFails(tg)
    \/ \E i \in Intent : MarkCommitted(i) \/ MarkFails(i) \/ Abandon(i)
    \/ Flush
    \/ Gc
    \/ GcFails
    \/ \E a \in archives : Age(a)
    \/ Open
    \/ Kill
    \/ PowerLoss

Spec == Init /\ [][Next]_vars

-----------------------------------------------------------------------------
(* Properties *)

\* Whatever was acknowledged on a whole line and not settled is reported by the
\* next scan: through rotation, garbage collection, failed and torn writes,
\* kill -9, power loss and reopening (append_pending, maybe_rotate,
\* gc_old_logs, open).
OwedIsScanned == owed \subseteq Scan

\* An operation at work under an intent is one a recovery would hear of, should
\* the process stop now (append_pending; collection by age aside).
HeldIsScanned == inHand \subseteq Scan

Held == {PendingEntry(i) : i \in inHand}

\* A sequence number names one intent in all the files and callers there are.
\* Were it reused while a marker with it survives, the marker would settle an
\* intent it was not written for (open's directory scan).
NoAlias ==
    \A e1, e2 \in Logged \union Held : e1.seq = e2.seq => e1.target = e2.target

\* A collection is "purely a GC heuristic": what was settled before it is not
\* pending after it (gc_old_logs, count_pending_in_archive, scan_pending).
GcRevivesNoIntent == [][Gc => Scan' \subseteq Scan]_vars

-----------------------------------------------------------------------------
(* The abstract log *)

Abstract == INSTANCE PendingIntents WITH
                Intents <- Intent, MayMislay <- ShortWrites, up <- open,
                reported <- Scan, held <- inHand

\* The log is one of PendingIntents: no rotation, collection, failure, crash or
\* reopening takes an intent from recovery that it is owed, and a marker
\* settles no intent but its own.  Only a log whose writes may stop in the
\* middle of a line mislays what it accepts.
RefinesPendingIntents == Abstract!Spec
=============================================================================
