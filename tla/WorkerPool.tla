----------------------------- MODULE WorkerPool -----------------------------
(***************************************************************************)
(* The durable authority of the worker pool (app/store.py,                 *)
(* WorkerPoolStore): workers, repository lanes, tasks with their leases,   *)
(* attempts, checkpoints and effect reconciliations.                       *)
(*                                                                         *)
(* Every mutating method of the store runs inside one BEGIN IMMEDIATE      *)
(* transaction, so each is one action here.  The exception is              *)
(* heartbeat_worker, which reads the worker row before it opens its        *)
(* transaction and is therefore two actions.  A method that raises rolls   *)
(* its transaction back: a refused call is no step at all.                 *)
(*                                                                         *)
(* A caller is a worker that presents a credential the store has issued at *)
(* any earlier time, so delayed and duplicated commands are covered.       *)
(***************************************************************************)
EXTENDS Integers, FiniteSets, Sequences, IsoTime, EffectLedger

CONSTANTS
  Workers,         \* worker ids
  Repos,           \* repositories
  Tasks,           \* task ids, each of one request
  TaskRepo,        \* the repository of each task
  Shas,            \* commits a builder can produce
  Registrations,   \* worker descriptions register_worker is called with
  HeartbeatInputs, \* optional fields heartbeat_worker is called with
  Admissions,      \* [fencing_required, priority, max_attempts] of enqueue_task
  LaneConfigs,     \* [enabled, max_in_flight] of configure_repository
  Affinities,      \* sets of repositories of replace_worker_affinities
  LeaseSeconds,    \* lease durations callers ask for
  HeartbeatTTL,    \* heartbeat_ttl_seconds
  StallSeconds,    \* progress_stall_seconds
  MaxClock,        \* bound: time stops here
  AdminHorizon,    \* bound: last instant at which operators act
  MaxGeneration,   \* bound: leases granted per task
  MaxSequence      \* bound: checkpoints per lease

Roles == {"builder", "validator"}
Profiles == {"NORMAL", "ESTUDO"}
ActiveStates == {"leased", "running", "validating"}
States == ActiveStates \cup {"absent", "queued", "blocked", "completed", "failed"}
BlockReasons ==
  {"blocked_by_worker", "effect_reconciliation_required",
   "material_progress_timeout_no_alternative"}

\* What a registration says about a worker; rules_ok abstracts the comparison
\* of its rules_sha with the store's expected_rules_sha.
Registration ==
  [worker : Workers, role : Roles, profile : Profiles, gateway_ok : BOOLEAN,
   state_validated : BOOLEAN, rules_ok : BOOLEAN]

\* The fields of a heartbeat that may be left out (None).
HeartbeatInput ==
  [profile : Profiles \cup {None}, gateway_ok : BOOLEAN \cup {None},
   state_validated : BOOLEAN \cup {None}]

ASSUME ConstantsAssumption ==
  /\ TaskRepo \in [Tasks -> Repos]
  /\ Registrations \subseteq Registration
  /\ HeartbeatInputs \subseteq HeartbeatInput
  /\ Admissions \subseteq
       [fencing_required : BOOLEAN, priority : Nat, max_attempts : Nat \ {0}]
  /\ LaneConfigs \subseteq [enabled : BOOLEAN, max_in_flight : Nat \ {0}]
  /\ Affinities \subseteq SUBSET Repos
  /\ LeaseSeconds \subseteq Nat \ {0}
  /\ HeartbeatTTL \in Nat \ {0}
  /\ StallSeconds \in Nat \ {0}
  /\ MaxClock \in Nat
  /\ AdminHorizon \in Nat
  /\ MaxGeneration \in Nat
  /\ MaxSequence \in Nat

ASSUME NoneAssumption ==
  /\ None \notin Workers /\ None \notin Shas /\ None \notin Effects
  /\ None \notin Nat /\ None \notin BOOLEAN /\ None \notin Profiles
  /\ None \notin BlockReasons /\ None \notin {"blocked", "released"}

VARIABLES
  clock,            \* the store's clock, in ticks
  cutover,          \* pool_control.enabled of 'fenced_cutover'
  workers,          \* table workers: a row, or None
  heartbeats,       \* per worker, a heartbeat call between its read and its write
  affinity,         \* table worker_repository_affinity
  lanes,            \* table repository_lanes: a row, or None
  tasks,            \* tables tasks, task_attempts and quarantine, by task
  checkpoints,      \* table task_checkpoints, by task
  reconciliations   \* table effect_reconciliations, by task

vars == <<clock, cutover, workers, heartbeats, affinity, lanes, tasks,
          checkpoints, reconciliations>>

-----------------------------------------------------------------------------
(* Rows *)

WorkerRow ==
  [role : Roles, profile : Profiles, gateway_ok : BOOLEAN,
   state_validated : BOOLEAN, rules_ok : BOOLEAN, last_heartbeat_at : Nat]

HeartbeatWriteRow ==
  [profile : Profiles, gateway_ok : BOOLEAN, state_validated : BOOLEAN]

LaneRow ==
  [enabled : BOOLEAN, max_in_flight : Nat \ {0},
   builder_claim_count : Nat, validator_claim_count : Nat]

\* end_reason of an attempt: NULL, one that parked the task, or any other.
EndReasons == {None, "blocked", "released"}

\* A row of task_attempts.  Its position in the task's sequence stands for the
\* two identifiers drawn for it, attempt_id and lease_token.
AttemptRow == [gen : Nat, worker : Workers, end_reason : EndReasons]

TaskRow ==
  [state : States, fencing_required : BOOLEAN, priority : Nat, max_attempts : Nat,
   produced_sha : Shas \cup {None},
   builder_worker_id : Workers \cup {None}, validator_worker_id : Workers \cup {None},
   leased_by : Workers \cup {None}, lease_token : Nat \cup {None},
   lease_expires_at : Nat \cup {None}, lease_generation : Nat,
   attempt_id : Nat \cup {None}, attempt_count : Nat,
   blocked_reason : BlockReasons \cup {None}, last_material_progress_at : Nat,
   attempts : Seq(AttemptRow), quarantine : Nat]

\* A task id that was never enqueued.
AbsentTask ==
  [state |-> "absent", fencing_required |-> FALSE, priority |-> 0, max_attempts |-> 0,
   produced_sha |-> None, builder_worker_id |-> None, validator_worker_id |-> None,
   leased_by |-> None, lease_token |-> None, lease_expires_at |-> None,
   lease_generation |-> 0, attempt_id |-> None, attempt_count |-> 0,
   blocked_reason |-> None, last_material_progress_at |-> 0,
   attempts |-> << >>, quarantine |-> 0]

NewLane ==
  [enabled |-> TRUE, max_in_flight |-> 1,
   builder_claim_count |-> 0, validator_claim_count |-> 0]

-----------------------------------------------------------------------------
(* What a statement does to a task row *)

Active(row) == row.state \in ActiveStates

\* Fault: the attempt limit is off by one.
ExhaustedPastLimit(row) == row.attempt_count > row.max_attempts

Exhausted(row) == row.attempt_count >= row.max_attempts

\* Fault: built work goes back to the builders.
RequeueForBuilding(row) == "queued"

\* Where a task goes back to: built work is not built again.
RequeueState(row) == IF row.produced_sha # None THEN "validating" ELSE "queued"

\* _end_attempt ends the attempt the row names, as the task moves to st.
EndAttempt(row, st) ==
  IF row.attempt_id = None THEN row
  ELSE [row EXCEPT !.attempts[row.attempt_id].end_reason =
          IF st = "blocked" THEN "blocked" ELSE "released"]

\* Fault: the lease is given up but its attempt is not ended.
ReleaseWithoutEnd(row, st) ==
  [row EXCEPT
     !.state = st, !.leased_by = None, !.lease_token = None,
     !.lease_expires_at = None, !.attempt_id = None]

\* The attempt ends and the row gives the lease up for state st.
Release(row, st) ==
  [EndAttempt(row, st) EXCEPT
     !.state = st, !.leased_by = None, !.lease_token = None,
     !.lease_expires_at = None, !.attempt_id = None]

\* _quarantine: one more quarantine record for the task.
Quarantine(row) == [row EXCEPT !.quarantine = @ + 1]

Progress(row) == [row EXCEPT !.last_material_progress_at = clock]

Blocked(row, reason) == [Release(row, "blocked") EXCEPT !.blocked_reason = reason]

UnresolvedEffect(t, row) ==
  row.fencing_required /\ HasUnresolvedEffect(checkpoints[t], reconciliations[t])

\* Fault: a lease is reclaimed without a look at its open effects.
ReclaimedBlindly(t, row, otherwise) ==
  IF Exhausted(row) THEN [Release(Quarantine(row), "failed") EXCEPT !.blocked_reason = None]
  ELSE otherwise

\* Fault: an exhausted task fails without a quarantine record.
ReclaimedUnrecorded(t, row, otherwise) ==
  IF UnresolvedEffect(t, row) THEN Blocked(row, "effect_reconciliation_required")
  ELSE IF Exhausted(row) THEN [Release(row, "failed") EXCEPT !.blocked_reason = None]
  ELSE otherwise

\* Where _recover and _recover_stalled agree: unresolved effects park the task,
\* an exhausted one fails, otherwise the caller decides.
Reclaimed(t, row, otherwise) ==
  IF UnresolvedEffect(t, row) THEN Blocked(row, "effect_reconciliation_required")
  ELSE IF Exhausted(row) THEN [Release(Quarantine(row), "failed") EXCEPT !.blocked_reason = None]
  ELSE otherwise

Rerouted(row) == [Release(row, RequeueState(row)) EXCEPT !.blocked_reason = None]

-----------------------------------------------------------------------------
(* Lease recovery and the progress watchdog *)

\* lease_expires_at IS NOT NULL AND lease_expires_at <= stamp, on the texts.
LeaseLapsed(row) ==
  /\ Active(row)
  /\ row.lease_expires_at # None
  /\ IsoLE(row.lease_expires_at, clock)

RecoverExpired(tk) ==
  [t \in Tasks |-> IF LeaseLapsed(tk[t]) THEN Reclaimed(t, tk[t], Rerouted(tk[t]))
                   ELSE tk[t]]

\* last_material_progress_at <= cutoff, on the texts.
Stalled(row) ==
  /\ Active(row)
  /\ IsoLE(row.last_material_progress_at, clock - Seconds(StallSeconds))

\* The worker checks _ready and _worker_is_alternative have in common.
Governed(w, role) ==
  /\ workers[w] # None
  /\ workers[w].role = role
  /\ workers[w].profile = "NORMAL"
  /\ workers[w].gateway_ok /\ workers[w].state_validated
  /\ workers[w].rules_ok
  /\ clock - workers[w].last_heartbeat_at <= Seconds(HeartbeatTTL)

\* w holds a lease on an active task of tk, those in gone left aside.
Busy(tk, w, gone) == \E t \in Tasks \ gone : Active(tk[t]) /\ tk[t].leased_by = w

HasAffinity(w, t) == affinity[w] = {} \/ TaskRepo[t] \in affinity[w]

\* _worker_is_alternative; the rows in gone have been released already.
Alternative(tk, t, w, gone) ==
  /\ w # tk[t].leased_by
  /\ Governed(w, IF tk[t].produced_sha # None THEN "validator" ELSE "builder")
  /\ ~Busy(tk, w, gone)
  /\ HasAffinity(w, t)

StallOutcome(tk, t, gone) ==
  Reclaimed(t, tk[t],
    IF \E w \in Workers : Alternative(tk, t, w, gone) THEN Rerouted(tk[t])
    ELSE Blocked(tk[t], "material_progress_timeout_no_alternative"))

\* The order in which the watchdog's query returns the tasks is not specified.
Orders ==
  {o \in [Tasks -> 1..Cardinality(Tasks)] : \A t, u \in Tasks : o[t] = o[u] => t = u}

RecoverStalled(tk, order) ==
  [t \in Tasks |->
     IF Stalled(tk[t])
     THEN StallOutcome(tk, t, {u \in Tasks : Stalled(tk[u]) /\ order[u] < order[t]})
     ELSE tk[t]]

-----------------------------------------------------------------------------
(* Claims *)

\* Fault: a busy worker may claim again.
ReadyThoughBusy(tk, w, role) == Governed(w, role)

Ready(tk, w, role) == Governed(w, role) /\ ~Busy(tk, w, {})

InFlight(tk, r) == Cardinality({t \in Tasks : TaskRepo[t] = r /\ Active(tk[t])})

BuilderCandidates(tk, w, fenced) ==
  {t \in Tasks :
     /\ tk[t].state = "queued"
     /\ tk[t].fencing_required = fenced
     /\ lanes[TaskRepo[t]] # None
     /\ lanes[TaskRepo[t]].enabled
     /\ HasAffinity(w, t)
     /\ InFlight(tk, TaskRepo[t]) < lanes[TaskRepo[t]].max_in_flight}

\* Fault: a builder may validate its own product.
OwnProductCandidates(tk, w, fenced) ==
  {t \in Tasks :
     /\ tk[t].state = "validating"
     /\ tk[t].fencing_required = fenced
     /\ lanes[TaskRepo[t]] # None
     /\ tk[t].leased_by = None
     /\ tk[t].produced_sha # None
     /\ HasAffinity(w, t)}

ValidatorCandidates(tk, w, fenced) ==
  {t \in Tasks :
     /\ tk[t].state = "validating"
     /\ tk[t].fencing_required = fenced
     /\ lanes[TaskRepo[t]] # None
     /\ tk[t].leased_by = None
     /\ tk[t].produced_sha # None
     /\ tk[t].builder_worker_id # w
     /\ HasAffinity(w, t)}

Candidates(tk, w, role, fenced) ==
  IF role = "builder" THEN BuilderCandidates(tk, w, fenced)
  ELSE ValidatorCandidates(tk, w, fenced)

ClaimCount(r, role) ==
  IF role = "builder" THEN lanes[r].builder_claim_count
  ELSE lanes[r].validator_claim_count

\* ORDER BY: the lane served least often, then the task's priority.  The ties
\* (time of the lane's last claim, lane name, age) are left open.
First(tk, t, cands, role) ==
  \A u \in cands :
    /\ ClaimCount(TaskRepo[t], role) <= ClaimCount(TaskRepo[u], role)
    /\ TaskRepo[t] = TaskRepo[u] => tk[t].priority <= tk[u].priority

\* Fault: the lease generation is not advanced.
ClaimedSameGeneration(row, w, role, ttl) ==
  LET id == Len(row.attempts) + 1 IN
  [row EXCEPT
     !.state = IF role = "builder" THEN "leased" ELSE "validating",
     !.leased_by = w,
     !.lease_token = id,
     !.lease_expires_at = clock + Seconds(ttl),
     !.attempt_count = @ + 1,
     !.validator_worker_id = IF role = "validator" THEN w ELSE @,
     !.attempt_id = id,
     !.last_material_progress_at = clock,
     !.attempts = Append(@, [gen |-> row.lease_generation, worker |-> w, end_reason |-> None])]

\* The UPDATE of tasks and the INSERT into task_attempts of a claim.
Claimed(row, w, role, ttl) ==
  LET id == Len(row.attempts) + 1 IN
  [row EXCEPT
     !.state = IF role = "builder" THEN "leased" ELSE "validating",
     !.leased_by = w,
     !.lease_token = id,
     !.lease_expires_at = clock + Seconds(ttl),
     !.attempt_count = @ + 1,
     !.validator_worker_id = IF role = "validator" THEN w ELSE @,
     !.lease_generation = @ + 1,
     !.attempt_id = id,
     !.last_material_progress_at = clock,
     !.attempts = Append(@, [gen |-> row.lease_generation + 1, worker |-> w, end_reason |-> None])]

CountClaim(lane, role) ==
  IF role = "builder" THEN [lane EXCEPT !.builder_claim_count = @ + 1]
  ELSE [lane EXCEPT !.validator_claim_count = @ + 1]

\* The watchdog can still expire what starts now before time stops.
WithinHorizon == clock + Seconds(StallSeconds) <= MaxClock

\* claim_task once tk is the table its recovery left; only narrows the choice.
ClaimFrom(tk, w, role, fenced, only) ==
  LET cands == Candidates(tk, w, role, fenced) \cap only IN
  /\ Ready(tk, w, role)
  /\ \/ cands = {} /\ tasks' = tk /\ UNCHANGED lanes
     \/ \E t \in cands, ttl \in LeaseSeconds :
          /\ First(tk, t, cands, role)
          /\ WithinHorizon /\ tk[t].lease_generation < MaxGeneration
          /\ tasks' = [tk EXCEPT ![t] = Claimed(tk[t], w, role, ttl)]
          /\ lanes' = [lanes EXCEPT ![TaskRepo[t]] = CountClaim(@, role)]
  /\ UNCHANGED <<clock, cutover, workers, heartbeats, affinity, checkpoints, reconciliations>>

\* claim_task without only_task_id recovers first, in the same transaction.  The
\* service asks it for unfenced tasks only.
Claim(w, role) ==
  \E o \in Orders :
    ClaimFrom(RecoverStalled(RecoverExpired(tasks), o), w, role, FALSE, Tasks)

\* claim_task with only_task_id touches no other task.
ClaimExact(w, role, fenced, t) == ClaimFrom(tasks, w, role, fenced, {t})

-----------------------------------------------------------------------------
(* Commands of a worker that presents the credential of attempt i *)

\* Fault: an expired lease is still good.
LeaseHeldForever(t, i, fence, allowed) ==
  LET row == tasks[t]  att == tasks[t].attempts[i] IN
  /\ row.state \in allowed
  /\ row.leased_by = att.worker /\ row.lease_token = i
  /\ row.fencing_required => fence
  /\ fence => row.lease_generation = att.gen /\ row.attempt_id = i

\* _lease: the row is in an allowed state and the credential (worker, token,
\* and, when fence is presented, generation and attempt) is the current one.
LeaseHeld(t, i, fence, allowed) ==
  LET row == tasks[t]  att == tasks[t].attempts[i] IN
  /\ row.state \in allowed
  /\ row.leased_by = att.worker /\ row.lease_token = i
  /\ row.fencing_required => fence
  /\ fence => row.lease_generation = att.gen /\ row.attempt_id = i
  /\ row.lease_expires_at # None /\ row.lease_expires_at > clock

Presenter(t, i) == tasks[t].attempts[i].worker

\* The transaction rewrites the row of t and nothing else.
Update(t, row) ==
  /\ tasks' = [tasks EXCEPT ![t] = row]
  /\ UNCHANGED <<clock, cutover, workers, heartbeats, affinity, lanes,
                 checkpoints, reconciliations>>

\* Fault: a renewal counts as material progress.
RenewAsProgress(t, i, fence, ttl) ==
  /\ LeaseHeld(t, i, fence, ActiveStates)
  /\ Update(t, [Progress(tasks[t]) EXCEPT !.lease_expires_at = clock + Seconds(ttl)])

Renew(t, i, fence, ttl) ==
  /\ LeaseHeld(t, i, fence, ActiveStates)
  /\ Update(t, [tasks[t] EXCEPT !.lease_expires_at = clock + Seconds(ttl)])

Start(t, i, fence) ==
  /\ LeaseHeld(t, i, fence, {"leased"})
  /\ workers[Presenter(t, i)].role = "builder"
  /\ WithinHorizon
  /\ Update(t, [Progress(tasks[t]) EXCEPT
                  !.state = "running", !.builder_worker_id = Presenter(t, i)])

Submit(t, i, fence, sha) ==
  /\ LeaseHeld(t, i, fence, {"running"})
  /\ tasks[t].builder_worker_id = Presenter(t, i)
  /\ ~UnresolvedEffect(t, tasks[t])
  /\ Update(t, [Progress(Release(tasks[t], "validating")) EXCEPT !.produced_sha = sha])

Complete(t, i, fence) ==
  /\ LeaseHeld(t, i, fence, {"validating"})
  /\ workers[Presenter(t, i)].role = "validator"
  /\ tasks[t].builder_worker_id # Presenter(t, i)
  /\ tasks[t].produced_sha # None
  /\ ~UnresolvedEffect(t, tasks[t])
  /\ Update(t, Progress(Release(tasks[t], "completed")))

Fail(t, i, fence) ==
  /\ LeaseHeld(t, i, fence, ActiveStates)
  /\ ~UnresolvedEffect(t, tasks[t])
  /\ Update(t, IF Exhausted(tasks[t]) THEN Release(Quarantine(tasks[t]), "failed")
               ELSE Release(tasks[t], RequeueState(tasks[t])))

Block(t, i, fence) ==
  /\ LeaseHeld(t, i, fence, ActiveStates)
  /\ Update(t, Progress(Blocked(tasks[t],
       IF UnresolvedEffect(t, tasks[t]) THEN "effect_reconciliation_required"
       ELSE "blocked_by_worker")))

\* record_checkpoint of a checkpoint_id the task does not have yet.  A replay of
\* one it has is answered from the table or refused, and changes nothing.
RecordCheckpoint(t, i, id, seq, effect, effect_state) ==
  LET gen == tasks[t].attempts[i].gen IN
  /\ (effect_state = "none") = (effect = None)
  /\ LeaseHeld(t, i, TRUE, ActiveStates)
  /\ tasks[t].fencing_required
  /\ \A c \in checkpoints[t] : c.id # id
  /\ effect # None => ~UnresolvedUnknown(checkpoints[t], reconciliations[t], effect)
  /\ IsNextSequence(checkpoints[t], gen, seq)
  /\ WithinHorizon
  /\ checkpoints' = [checkpoints EXCEPT ![t] = @ \cup
       {[id |-> id, gen |-> gen, seq |-> seq, effect |-> effect,
         effect_state |-> effect_state]}]
  /\ tasks' = [tasks EXCEPT ![t] = Progress(tasks[t])]
  /\ UNCHANGED <<clock, cutover, workers, heartbeats, affinity, lanes, reconciliations>>

-----------------------------------------------------------------------------
(* The reconciler and the operators *)

\* reconcile_effect of an effect that has no readback in generation g yet.
ReconcileEffect(t, e, g, outcome) ==
  /\ ~\E r \in reconciliations[t] : r.effect = e /\ r.gen = g
  /\ tasks[t].fencing_required
  /\ tasks[t].state = "blocked"
  /\ tasks[t].blocked_reason = "effect_reconciliation_required"
  /\ \E c \in checkpoints[t] :
       /\ IsLatest(checkpoints[t], e, c)
       /\ c.effect_state \in {"pending", "unknown"}
       /\ c.gen = g
  /\ reconciliations' = [reconciliations EXCEPT ![t] = @ \cup
       {[effect |-> e, gen |-> g, outcome |-> outcome]}]
  /\ UNCHANGED <<clock, cutover, workers, heartbeats, affinity, lanes, tasks, checkpoints>>

\* Fault: an operator may requeue a failed task as well.
RequeueFailed(t) ==
  /\ tasks[t].state \in {"blocked", "failed"}
  /\ ~UnresolvedEffect(t, tasks[t])
  /\ Update(t, [Progress(tasks[t]) EXCEPT
                  !.state = RequeueState(tasks[t]), !.blocked_reason = None])

RequeueBlocked(t) ==
  /\ tasks[t].state = "blocked"
  /\ ~UnresolvedEffect(t, tasks[t])
  /\ Update(t, [Progress(tasks[t]) EXCEPT
                  !.state = RequeueState(tasks[t]), !.blocked_reason = None])

\* Only the task table changes, to tk.
Sweep(tk) ==
  /\ tasks' = tk
  /\ UNCHANGED <<clock, cutover, workers, heartbeats, affinity, lanes,
                 checkpoints, reconciliations>>

RecoverExpiredLeases == Sweep(RecoverExpired(tasks))

RecoverStalledTasks == \E o \in Orders : Sweep(RecoverStalled(tasks, o))

\* reconcile: both passes in one transaction.
Reconcile == \E o \in Orders : Sweep(RecoverStalled(RecoverExpired(tasks), o))

\* INSERT OR IGNORE of a lane for every repository in rs.
EnsureLanes(rs) ==
  [r \in Repos |-> IF r \in rs /\ lanes[r] = None THEN NewLane ELSE lanes[r]]

Enqueue(t, a) ==
  /\ clock <= AdminHorizon
  /\ a.fencing_required => cutover
  /\ tasks[t].state = "absent"
  /\ tasks' = [tasks EXCEPT ![t] = [Progress(AbsentTask) EXCEPT
                 !.state = "queued", !.fencing_required = a.fencing_required,
                 !.priority = a.priority, !.max_attempts = a.max_attempts]]
  /\ lanes' = EnsureLanes({TaskRepo[t]})
  /\ UNCHANGED <<clock, cutover, workers, heartbeats, affinity, checkpoints, reconciliations>>

EnableFencedCutover ==
  /\ clock <= AdminHorizon
  /\ cutover' = TRUE
  /\ UNCHANGED <<clock, workers, heartbeats, affinity, lanes, tasks, checkpoints, reconciliations>>

ConfigureRepository(r, c) ==
  /\ clock <= AdminHorizon
  /\ lanes' = [lanes EXCEPT ![r] =
       [(IF @ = None THEN NewLane ELSE @) EXCEPT
          !.enabled = c.enabled, !.max_in_flight = c.max_in_flight]]
  /\ UNCHANGED <<clock, cutover, workers, heartbeats, affinity, tasks, checkpoints, reconciliations>>

ReplaceAffinities(w, rs) ==
  /\ clock <= AdminHorizon
  /\ workers[w] # None
  /\ affinity' = [affinity EXCEPT ![w] = rs]
  /\ lanes' = EnsureLanes(rs)
  /\ UNCHANGED <<clock, cutover, workers, heartbeats, tasks, checkpoints, reconciliations>>

RegisterWorker(p) ==
  /\ clock <= AdminHorizon
  /\ workers' = [workers EXCEPT ![p.worker] =
       [role |-> p.role, profile |-> p.profile, gateway_ok |-> p.gateway_ok,
        state_validated |-> p.state_validated, rules_ok |-> p.rules_ok,
        last_heartbeat_at |-> clock]]
  /\ UNCHANGED <<clock, cutover, heartbeats, affinity, lanes, tasks, checkpoints, reconciliations>>

\* Fault: fields the caller left out are stored as they came.
HeartbeatReadRaw(w, in) ==
  /\ workers[w] # None
  /\ heartbeats[w] = None
  /\ heartbeats' = [heartbeats EXCEPT ![w] =
       [profile |-> in.profile, gateway_ok |-> in.gateway_ok,
        state_validated |-> in.state_validated]]
  /\ UNCHANGED <<clock, cutover, workers, affinity, lanes, tasks, checkpoints, reconciliations>>

\* heartbeat_worker up to its transaction: fields the caller left out are taken
\* from the row as it is now.
HeartbeatRead(w, in) ==
  LET Given(x, current) == IF x = None THEN current ELSE x IN
  /\ workers[w] # None
  /\ heartbeats[w] = None
  /\ heartbeats' = [heartbeats EXCEPT ![w] =
       [profile |-> Given(in.profile, workers[w].profile),
        gateway_ok |-> Given(in.gateway_ok, workers[w].gateway_ok),
        state_validated |-> Given(in.state_validated, workers[w].state_validated)]]
  /\ UNCHANGED <<clock, cutover, workers, affinity, lanes, tasks, checkpoints, reconciliations>>

\* ... and the transaction, which writes what was read.
HeartbeatWrite(w) ==
  /\ heartbeats[w] # None
  /\ workers' = [workers EXCEPT ![w] =
       [@ EXCEPT !.profile = heartbeats[w].profile,
                 !.gateway_ok = heartbeats[w].gateway_ok,
                 !.state_validated = heartbeats[w].state_validated,
                 !.last_heartbeat_at = clock]]
  /\ heartbeats' = [heartbeats EXCEPT ![w] = None]
  /\ UNCHANGED <<clock, cutover, affinity, lanes, tasks, checkpoints, reconciliations>>

\* The service dies and comes back: the tables survive, calls in flight do not.
Restart ==
  /\ \E w \in Workers : heartbeats[w] # None
  /\ heartbeats' = [w \in Workers |-> None]
  /\ UNCHANGED <<clock, cutover, workers, affinity, lanes, tasks, checkpoints, reconciliations>>

Tick ==
  /\ clock < MaxClock
  /\ clock' = clock + 1
  /\ UNCHANGED <<cutover, workers, heartbeats, affinity, lanes, tasks,
                 checkpoints, reconciliations>>

-----------------------------------------------------------------------------
Init ==
  /\ clock = 0
  /\ cutover = FALSE
  /\ workers = [w \in Workers |-> None]
  /\ heartbeats = [w \in Workers |-> None]
  /\ affinity = [w \in Workers |-> {}]
  /\ lanes = [r \in Repos |-> None]
  /\ tasks = [t \in Tasks |-> AbsentTask]
  /\ checkpoints = [t \in Tasks |-> {}]
  /\ reconciliations = [t \in Tasks |-> {}]

Commands ==
  \E t \in Tasks : \E i \in DOMAIN tasks[t].attempts : \E fence \in BOOLEAN :
    \/ \E ttl \in LeaseSeconds : Renew(t, i, fence, ttl)
    \/ Start(t, i, fence)
    \/ \E sha \in Shas : Submit(t, i, fence, sha)
    \/ Complete(t, i, fence)
    \/ Fail(t, i, fence)
    \/ Block(t, i, fence)

Checkpointing ==
  \E t \in Tasks : \E i \in DOMAIN tasks[t].attempts :
    \E id \in CheckpointIds, seq \in 1..MaxSequence,
       effect \in Effects \cup {None}, st \in EffectStates :
      RecordCheckpoint(t, i, id, seq, effect, st)

Claiming ==
  \E w \in Workers, role \in Roles :
    \/ Claim(w, role)
    \/ \E t \in Tasks, fenced \in BOOLEAN : ClaimExact(w, role, fenced, t)

Operating ==
  \/ EnableFencedCutover
  \/ \E t \in Tasks, a \in Admissions : Enqueue(t, a)
  \/ \E t \in Tasks : RequeueBlocked(t)
  \/ \E t \in Tasks, e \in Effects, g \in 1..MaxGeneration, o \in Outcomes :
       ReconcileEffect(t, e, g, o)
  \/ \E r \in Repos, c \in LaneConfigs : ConfigureRepository(r, c)
  \/ \E w \in Workers, rs \in Affinities : ReplaceAffinities(w, rs)
  \/ \E p \in Registrations : RegisterWorker(p)

Heartbeating ==
  \E w \in Workers :
    \/ \E in \in HeartbeatInputs : HeartbeatRead(w, in)
    \/ HeartbeatWrite(w)

Next ==
  \/ Tick
  \/ Restart
  \/ Claiming
  \/ Commands
  \/ Checkpointing
  \/ Operating
  \/ Heartbeating
  \/ RecoverExpiredLeases
  \/ RecoverStalledTasks
  \/ Reconcile

Spec == Init /\ [][Next]_vars

-----------------------------------------------------------------------------
(* Correctness *)

\* Type correctness: every table holds rows of its schema.
TypeOK ==
  /\ clock \in Nat
  /\ cutover \in BOOLEAN
  /\ workers \in [Workers -> WorkerRow \cup {None}]
  /\ heartbeats \in [Workers -> HeartbeatWriteRow \cup {None}]
  /\ affinity \in [Workers -> SUBSET Repos]
  /\ lanes \in [Repos -> LaneRow \cup {None}]
  /\ tasks \in [Tasks -> TaskRow]
  /\ checkpoints \in [Tasks -> SUBSET CheckpointRow]
  /\ reconciliations \in [Tasks -> SUBSET ReconciliationRow]

Leased(row) == row.leased_by # None

\* The lease columns of the row are all set or all NULL, a lease is held exactly
\* in the states that need one, and only in states that may have one.
LeaseColumns(row) ==
  /\ Leased(row) <=> row.attempt_id # None
  /\ Leased(row) <=> row.lease_expires_at # None
  /\ row.lease_token = row.attempt_id
  /\ row.state \in {"leased", "running"} => Leased(row)
  /\ Leased(row) => Active(row)

\* The attempts of the row are numbered 1, 2, ... by the lease generation, each
\* counts once against max_attempts, and only the one that holds the lease now,
\* the last, is still without an end_reason.
AttemptHistory(row) ==
  /\ row.lease_generation = Len(row.attempts)
  /\ row.attempt_count = Len(row.attempts)
  /\ \A i \in 1..Len(row.attempts) :
       /\ row.attempts[i].gen = i
       /\ row.attempts[i].end_reason = None <=> row.attempt_id = i
  /\ Leased(row) =>
       /\ row.attempt_id = Len(row.attempts)
       /\ row.attempts[Len(row.attempts)].worker = row.leased_by

\* The lease on a task and the attempt ledger never drift apart, whichever of the
\* nine statements that grant, end or take away a lease ran (claim_task, _recover,
\* _recover_stalled, submit, complete, fail, block, requeue, renew).
AttemptLedger == \A t \in Tasks : LeaseColumns(tasks[t]) /\ AttemptHistory(tasks[t])

\* A worker never holds two tasks, even when claims, recoveries and role changes
\* of the same worker interleave: the unique index idx_worker_active never fires.
OneLeasePerWorker ==
  \A t, u \in Tasks : Leased(tasks[t]) /\ tasks[t].leased_by = tasks[u].leased_by => t = u

\* A product names its builder; whoever validates it is somebody else.
IndependentRow(row) ==
  /\ row.produced_sha # None => row.builder_worker_id # None
  /\ row.state = "validating" => row.produced_sha # None
  /\ row.state = "validating" /\ Leased(row) =>
       row.leased_by # row.builder_worker_id /\ row.validator_worker_id = row.leased_by
  /\ row.state = "completed" =>
       /\ row.produced_sha # None
       /\ row.validator_worker_id # None
       /\ row.validator_worker_id # row.builder_worker_id

\* A completed task was built by one worker and validated by another, even when
\* workers are registered again with another role in between.
IndependentValidation == \A t \in Tasks : IndependentRow(tasks[t])

\* An effect whose outcome is open belongs to the lease that is held now, or the
\* task is parked for its reconciliation: no other worker can ever start on a
\* task whose earlier attempt may still have written outside.
UnresolvedEffectsContained ==
  \A t \in Tasks : \A c \in checkpoints[t] :
    Unresolved(checkpoints[t], reconciliations[t], c) =>
      /\ c.gen = tasks[t].lease_generation
      /\ \/ Leased(tasks[t])
         \/ /\ tasks[t].state = "blocked"
            /\ tasks[t].blocked_reason = "effect_reconciliation_required"

\* Every open effect of a parked task is one reconcile_effect will accept: its
\* open statement is the latest one about it.  Otherwise the task could never
\* leave 'blocked'.
OpenEffectsReconcilable ==
  \A t \in Tasks : \A c \in checkpoints[t] :
    Unresolved(checkpoints[t], reconciliations[t], c) =>
      IsLatest(checkpoints[t], c.effect, c)

\* A task is in quarantine exactly when it failed, and only once.
FailedIsQuarantined ==
  \A t \in Tasks : tasks[t].quarantine = IF tasks[t].state = "failed" THEN 1 ELSE 0

BlockedAttempts(row) ==
  {i \in 1..Len(row.attempts) : row.attempts[i].end_reason = "blocked"}

\* max_attempts bounds the work spent on a task: beyond it there is at most the
\* validation of what the last attempt built and one attempt for every one that
\* ended parked and that an operator requeued.
AttemptBudget ==
  \A t \in Tasks :
    tasks[t].state # "absent" =>
      tasks[t].attempt_count <= tasks[t].max_attempts + 1 + Cardinality(BlockedAttempts(tasks[t]))

\* No step changes a completed or failed task: late commands, the watchdog, the
\* recovery and operators leave it alone.
TerminalIsFinal ==
  [][\A t \in Tasks : tasks[t].state \in {"completed", "failed"} => tasks'[t] = tasks[t]]_vars

\* What was produced stays what is validated, and the record of attempts only
\* grows: a rerouted or requeued task is never built a second time.
HistoryIsKept ==
  [][\A t \in Tasks :
       /\ tasks[t].produced_sha # None => tasks'[t].produced_sha = tasks[t].produced_sha
       /\ tasks'[t].lease_generation >= tasks[t].lease_generation
       /\ \A i \in 1..Len(tasks[t].attempts) :
            tasks[t].attempts[i].end_reason # None =>
              tasks'[t].attempts[i] = tasks[t].attempts[i]]_vars

\* A result (a produced commit, a completion) is accepted only from the worker
\* that holds an unexpired lease at that moment, however late its answer is.
NoLateResult ==
  [][\A t \in Tasks :
       \/ tasks'[t].produced_sha # tasks[t].produced_sha
       \/ tasks'[t].state = "completed" /\ tasks[t].state # "completed"
       => /\ Leased(tasks[t])
          /\ tasks[t].lease_expires_at > clock
          /\ tasks[t].leased_by =
               IF tasks'[t].state = "completed" THEN tasks'[t].validator_worker_id
               ELSE tasks'[t].builder_worker_id]_vars

\* Renewing a lease is not progress: every lease ends, even when its holder
\* renews it for ever, because the watchdog of the reconciliation loop ends it.
LeaseEventuallyEnds ==
  \A t \in Tasks : \A g \in 1..MaxGeneration :
    (Leased(tasks[t]) /\ tasks[t].lease_generation = g)
      ~> ~(Leased(tasks[t]) /\ tasks[t].lease_generation = g)

\* "Lease expirado é recuperado" (codex-worker-pool-runbook.md, invariant 7):
\* the recovery of expired leases ends no lease that has not expired.
OnlyExpiredLeasesRecovered ==
  [][RecoverExpiredLeases =>
       \A t \in Tasks : Leased(tasks[t]) /\ ~Leased(tasks'[t]) =>
         tasks[t].lease_expires_at <= clock]_vars

\* w may claim t, for validation, from the task table tk.
CanValidate(tk, w, t) ==
  /\ Ready(tk, w, "validator")
  /\ t \in ValidatorCandidates(tk, w, tk[t].fencing_required)

\* "Aos 300 segundos, sem worker alternativo elegível, a tarefa deve [...] ficar
\* explicitamente bloqueada" (progress-watchdog-canonical-300s.requirements.md):
\* built work the watchdog leaves waiting has a worker that may validate it.
StalledWorkHasEligibleWorker ==
  \A o \in Orders :
    LET after == RecoverStalled(tasks, o) IN
    \A t \in Tasks :
      Stalled(tasks[t]) /\ after[t].state = "validating" =>
        \E w \in Workers : CanValidate(after, w, t)

\* The pool "mantém max_in_flight por repositório" (README.md): no lane has more
\* active tasks than it allows.
LaneCapacityRespected ==
  \A r \in Repos : lanes[r] # None => InFlight(tasks, r) <= lanes[r].max_in_flight

-----------------------------------------------------------------------------
(* What the tables promise: TaskOwnership *)

Phase(row) ==
  CASE row.state \in {"leased", "running"} -> "held"
    [] row.state = "validating" -> IF Leased(row) THEN "held" ELSE "waiting"
    [] row.state = "queued" -> "waiting"
    [] row.state = "blocked" -> "parked"
    [] row.state = "completed" -> "done"
    [] row.state = "failed" -> "dead"
    [] OTHER -> "absent"

OwnershipOf(row) ==
  [phase |-> Phase(row), holder |-> row.leased_by, epoch |-> row.lease_generation,
   product |-> row.produced_sha,
   builder |-> IF row.produced_sha = None THEN None ELSE row.builder_worker_id]

Ownership ==
  INSTANCE TaskOwnership WITH
    Products <- Shas, Nobody <- None, own <- [t \in Tasks |-> OwnershipOf(tasks[t])]

\* The store implements TaskOwnership: whatever callers, clocks and crashes do, a
\* task has one holder per epoch, is built once, by a holder, and is finished by
\* a holder that did not build it; a worker holds one task at a time.
ImplementsOwnership == Ownership!Spec
=============================================================================
