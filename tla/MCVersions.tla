------------------------------ MODULE MCVersions ------------------------------
EXTENDS Versions

CONSTANTS Merger, Editor

\* Bounds of the instance.  One task consolidates and the other edits: of one kind
\* there are never two at a time (of consolidations the code runs only one), all
\* other pairs of operations do overlap.
Roles ==
    /\ \A t \in Tasks : Doing(t, "merge")' => t = Merger
    /\ \A t \in Tasks : Doing(t, "edit")' => t = Editor

\* One chunk is removed, the first or the second.
OneRemoval == \E id \in {1, 2} : \A other \in persisted \ {id} : Live(other)
=============================================================================
