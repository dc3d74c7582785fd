---------------------------- MODULE MCIntentLog ----------------------------
(* Model values for IntentLog: targets are interchangeable. *)
EXTENDS IntentLog, TLC

TargetSymmetry == Permutations(Targets)
=============================================================================
