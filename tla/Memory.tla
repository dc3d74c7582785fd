------------------------------- MODULE Memory -------------------------------
(***************************************************************************)
(* What the two stores together promise to a reader and to a writer.  Per  *)
(* id a reader by id gets value, and a search finds found; both are Absent *)
(* for what is not there.  As long as nobody asks for a change of an id,   *)
(* it reads the same through both, before and after any crash.  While it   *)
(* is in doubt, because a change was asked for and has not been settled,   *)
(* or because the log does not vouch for it, it may read either way.  What *)
(* was kept can be read by id until its removal is asked for.              *)
(***************************************************************************)
CONSTANTS Ids, Contents, Absent

VARIABLES
    value,   \* what a read by id returns
    found,   \* what a search returns
    doubt,   \* the ids that may read differently in the two
    kept     \* the ids whose store was acknowledged

vars == <<value, found, doubt, kept>>

Nothing == [id \in Ids |-> Absent]

Init == value = Nothing /\ found = Nothing /\ doubt = {} /\ kept = {}

\* A reader of what is kept gets something.
Readable == \A id \in kept : value[id] \in Contents

\* Only ids in doubt stop being kept.
Released == kept' \subseteq kept /\ kept \ kept' \subseteq doubt'

\* A change of the ids S is asked for.
Request(S) ==
    /\ doubt' = doubt \union S
    /\ Released
    /\ UNCHANGED <<value, found>>

\* A step of the work that was asked for, or of recovery.
Work ==
    /\ \A id \in Ids \ doubt : value'[id] = value[id] /\ found'[id] = found[id]
    /\ Released
    /\ Readable'
    /\ UNCHANGED doubt

\* The ids S are settled, and a store of those in K returns Ok.
Settle(S, K) ==
    /\ \A id \in S : value[id] = found[id]
    /\ doubt' = doubt \ S
    /\ K \subseteq doubt
    /\ kept' = kept \union K
    /\ Readable'
    /\ UNCHANGED <<value, found>>

Next ==
    \/ \E S \in SUBSET Ids : Request(S)
    \/ Work
    \/ \E S, K \in SUBSET Ids : Settle(S, K)

Spec == Init /\ [][Next]_vars
=============================================================================
