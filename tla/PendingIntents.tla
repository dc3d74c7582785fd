--------------------------- MODULE PendingIntents ---------------------------
(***************************************************************************)
(* What an intent log promises to its callers, whatever it does with its   *)
(* files: every intent it owes is reported to recovery, a number names one *)
(* reported intent, settling an intent touches no other, and the caller    *)
(* that opens the log gets all that is reported.  The log may report more  *)
(* than it owes: what was settled can come back when files are lost or     *)
(* collected.                                                              *)
(***************************************************************************)
CONSTANTS
    Intents,    \* records with a field seq
    MayMislay   \* TRUE iff an accepted intent may go unreported

VARIABLES
    up,        \* a process has the log open
    reported,  \* what a scan of the log finds pending
    held,      \* intents a caller is at work on
    owed       \* intents accepted and neither settled nor given up

vars == <<up, reported, held, owed>>

Unique(S) == \A i, j \in S : i.seq = j.seq => i = j

Init == up \in BOOLEAN /\ reported = {} /\ held = {} /\ owed = {}

Fresh(i) == \A j \in reported \union held : j.seq # i.seq

\* The caller gets the number.
Accept(i) ==
    /\ up
    /\ reported' = reported \union {i}
    /\ owed' = owed \union {i}
    /\ held' = held \union {i}
    /\ Fresh(i)
    /\ UNCHANGED up

\* The caller gets the number of an intent no recovery will see.
Mislay(i) ==
    /\ MayMislay
    /\ up
    /\ held' = held \union {i}
    /\ UNCHANGED <<up, owed, reported>>
    /\ Fresh(i)

\* The caller gets an error, and the log may hold the intent nevertheless.
Refuse(i) ==
    /\ up
    /\ reported' = reported \union {i}
    /\ UNCHANGED <<up, held, owed>>
    /\ Fresh(i)

\* The caller is done, whether the log could note it or not.
Settle(i) ==
    /\ up
    /\ i \in held
    /\ held' = held \ {i}
    /\ owed' = owed \ {i}
    /\ reported' \in {reported, reported \ {i}}
    /\ UNCHANGED up

Abandon(i) == i \in held /\ held' = held \ {i} /\ UNCHANGED <<up, owed, reported>>

\* Files are gone, with the intents and the markers that were in them.
Lose ==
    /\ reported' \subseteq Intents
    /\ Unique(reported')
    /\ owed' \subseteq owed \intersect reported'

Collect == up /\ UNCHANGED <<up, held>> /\ Lose

Down == ~up' /\ held' = {} /\ Lose

Open ==
    /\ ~up
    /\ up' = TRUE
    /\ held' = reported
    /\ UNCHANGED <<reported, owed>>

Next ==
    \/ Down
    \/ Open
    \/ Collect
    \/ \E i \in held : Settle(i) \/ Abandon(i)
    \/ \E i \in Intents : Accept(i) \/ Mislay(i) \/ Refuse(i)

Spec == Init /\ [][Next]_vars
=============================================================================
