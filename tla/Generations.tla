---------------------------- MODULE Generations ----------------------------
(***************************************************************************)
(* What a scope promises about its generations, whatever its engine does   *)
(* to join, abort and drain.  A generation is opened, is stopped, and is   *)
(* sealed once nobody writes in it; only then, or before there is one, may *)
(* the scope move to another.  Writers enter an open generation only, each *)
(* at the epoch of the scope; who has left does not come back.  Epochs do  *)
(* not go down.                                                            *)
(***************************************************************************)
EXTENDS Integers

CONSTANTS Writers, Epochs

VARIABLES
    number,  \* generations opened so far
    epoch,   \* of the scope (-1: none)
    state,   \* of the newest generation
    within,  \* of whoever writes: its generation and epoch
    left     \* who has written

vars == <<number, epoch, state, within, left>>

Init ==
    /\ number = 0
    /\ epoch = -1
    /\ state = "none"
    /\ within = [w \in {} |-> <<0, 0>>]
    /\ left = {}

Enter(w) ==
    /\ state = "open"
    /\ w \notin DOMAIN within \union left
    /\ within' = [v \in DOMAIN within \union {w} |->
                     IF v = w THEN <<number, epoch>> ELSE within[v]]
    /\ UNCHANGED <<number, epoch, state, left>>

Leave(w) ==
    /\ w \in DOMAIN within
    /\ within' = [v \in DOMAIN within \ {w} |-> within[v]]
    /\ left' = left \union {w}
    /\ UNCHANGED <<number, epoch, state>>

\* No more writers.
Stop ==
    /\ state = "open"
    /\ state' = "stopped"
    /\ UNCHANGED <<number, epoch, within, left>>

Seal ==
    /\ state = "stopped"
    /\ DOMAIN within = {}
    /\ state' = "sealed"
    /\ UNCHANGED <<number, epoch, within, left>>

\* The scope has no generation, and may have a later epoch.
Move(e) ==
    /\ state \in {"none", "sealed"}
    /\ e >= epoch
    /\ epoch' = e
    /\ state' = "none"
    /\ UNCHANGED <<number, within, left>>

Begin(e) ==
    /\ state = "none"
    /\ e >= epoch
    /\ epoch' = e
    /\ number' = number + 1
    /\ state' = "open"
    /\ UNCHANGED <<within, left>>

Next ==
    \/ \E w \in Writers : Enter(w) \/ Leave(w)
    \/ Stop
    \/ Seal
    \/ \E e \in Epochs \union {-1} : Move(e)
    \/ \E e \in Epochs : Begin(e)

Spec == Init /\ [][Next]_vars
=============================================================================
