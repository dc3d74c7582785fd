---------------------------- MODULE MCDualStore ----------------------------
(* Instances of DualStore: all the ids are of one namespace. *)
EXTENDS DualStore, TLC

OneStream == {Ids}

\* Bound of the model: histories of several tasks end one intent and one crash
\* before those of a single task.
First == CHOOSE t \in Tasks : TRUE
LoneAtTheBound ==
    nextSeq' > MaxSeq \/ crashes' = MaxCrashes =>
        \A t \in Tasks \ {First} : task'[t] = Idle
=============================================================================
