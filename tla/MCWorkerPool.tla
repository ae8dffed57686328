---------------------------- MODULE MCWorkerPool ----------------------------
(***************************************************************************)
(* Instances of WorkerPool for TLC.  The operators below are the values    *)
(* the .cfg files give to its constants.                                   *)
(***************************************************************************)
EXTENDS WorkerPool, TLC

CONSTANTS w1, w2, w3, r1, r2, t1, t2, e1, k1, k2, k3, s1, s2

NoInputs == {}
OneTask == t1 :> r1
TwoTasksOneRepo == (t1 :> r1) @@ (t2 :> r1)
TwoTasksTwoRepos == (t1 :> r1) @@ (t2 :> r2)

\* A registration of a governed worker.
Registering(w, role) ==
  [worker |-> w, role |-> role, profile |-> "NORMAL", gateway_ok |-> TRUE,
   state_validated |-> TRUE, rules_ok |-> TRUE]

BuilderAndValidator == {Registering(w1, "builder"), Registering(w2, "validator")}

BothBuilders == {Registering(w1, "builder"), Registering(w2, "builder")}

EitherRole == {Registering(w, role) : w \in {w1, w2}, role \in Roles}

\* A heartbeat that states nothing about the worker but that it lives.
BareHeartbeat == {[profile |-> None, gateway_ok |-> None, state_validated |-> None]}

PausedLane == {[enabled |-> FALSE, max_in_flight |-> 1]}
WideLane == {[enabled |-> TRUE, max_in_flight |-> 2]}
WideOrPausedLane == WideLane \cup PausedLane
OnlyFirstRepo == {{r1}}

OneAttempt == {[fencing_required |-> FALSE, priority |-> 1, max_attempts |-> 1]}
OneOrTwoAttempts ==
  {[fencing_required |-> FALSE, priority |-> 1, max_attempts |-> n] : n \in {1, 2}}
FencedAdmission == {[fencing_required |-> TRUE, priority |-> 1, max_attempts |-> 2]}

WorkersAndShas == Permutations({w1, w2}) \cup Permutations({s1, s2})
LaneSymmetry == Permutations({w1, w2}) \cup Permutations({t1, t2})
Checkpoints3 == Permutations({k1, k2, k3})
=============================================================================
