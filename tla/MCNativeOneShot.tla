-------------------------- MODULE MCNativeOneShot --------------------------
(***************************************************************************)
(* Instances of NativeOneShot for TLC.                                     *)
(***************************************************************************)
EXTENDS NativeOneShot, TLC

CONSTANTS b1, b2, v1, r1, t1, s1, s2

NoInputs == {}
OneTask == t1 :> r1

Registering(w, role) ==
  [worker |-> w, role |-> role, profile |-> "NORMAL", gateway_ok |-> TRUE,
   state_validated |-> TRUE, rules_ok |-> TRUE]

BuildersAndValidator ==
  {Registering(b1, "builder"), Registering(b2, "builder"), Registering(v1, "validator")}

ThreeFencedAttempts == {[fencing_required |-> TRUE, priority |-> 1, max_attempts |-> 3]}

FencedOrNot ==
  ThreeFencedAttempts \cup {[fencing_required |-> FALSE, priority |-> 1, max_attempts |-> 3]}

CheckpointIdsOfAttempts == [attempt : 1..MaxGeneration, stage : CheckpointStages]

ExecutorSymmetry == Permutations({b1, b2}) \cup Permutations({s1, s2})
=============================================================================
