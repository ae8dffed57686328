--------------------------- MODULE NativeOneShot ---------------------------
(***************************************************************************)
(* The one-shot executor (app/native_one_shot.py, NativeOneShotExecutor)   *)
(* with its client of the pool (app/native_pool_http.py) and the durable   *)
(* store of its artifacts (app/s3_git_bundle_artifact.py), over the store  *)
(* of WorkerPool.                                                          *)
(*                                                                         *)
(* run() is one action per call it makes: between two of them leases       *)
(* expire, other executors run, and the process can die.  A POST that gets *)
(* no trustworthy answer raises in the client and is never repeated; the   *)
(* server may still apply it later, before or after anything else.  The    *)
(* client's GET after a POST turns an applied one into a success or, like  *)
(* a lost answer, into an exception, so it needs no step of its own.       *)
(*                                                                         *)
(* Each worker has a host of its own, with its lock files and receipts,    *)
(* and every run starts in a prepared checkout: the checks of manifest,    *)
(* workspace and adapter results are the choice to raise at BuildAnew and  *)
(* Validate.  The identity of an artifact effect is a digest of the task   *)
(* and the commit; here it is the commit.                                  *)
(***************************************************************************)
EXTENDS WorkerPool

CONSTANT MaxLate   \* bound: requests without an answer that may still arrive

\* The last part of a checkpoint_id.
CheckpointStages == {"artifact-pending", "artifact-unknown", "result"}

ASSUME ExecutorAssumption ==
  /\ Effects = Shas
  /\ CheckpointIds = [attempt : 1..MaxGeneration, stage : CheckpointStages]
  /\ None \notin CheckpointRow
  /\ MaxSequence >= 2      \* a run writes up to two checkpoints
  /\ MaxLate \in Nat

VARIABLES
  exec,       \* per worker, the state of its running executor, or None
  locks,      \* lock files: [worker, task, role]
  receipts,   \* receipt files: [worker, task, role, sha, gen]
  bucket,     \* the artifact store: [task, gen, sha]
  late        \* requests that got no answer and may still be applied

execVars == <<exec, locks, receipts, bucket, late>>
allVars == <<vars, execVars>>

-----------------------------------------------------------------------------
(* Requests: POSTs to the pool and PUTs to the bucket *)

Fenced(t) == tasks[t].fencing_required

\* A mutation with the lease of the run of worker w.
Mutation(w, op, sha) ==
  [op |-> op, task |-> exec[w].task, attempt |-> exec[w].attempt, sha |-> sha]

\* record_checkpoint; checkpoint_id is made of the attempt and the stage.
Checkpoint(w, stage, seq, effect, effect_state) ==
  [op |-> "checkpoint", task |-> exec[w].task, attempt |-> exec[w].attempt,
   stage |-> stage, seq |-> seq, effect |-> effect, effect_state |-> effect_state]

ClaimRequest(w, t) == [op |-> "claim", task |-> t, worker |-> w]

\* put_object of the bundle, whose header names the generation.
PutRequest(w) ==
  [op |-> "put", task |-> exec[w].task,
   gen |-> tasks[exec[w].task].attempts[exec[w].attempt].gen, sha |-> exec[w].sha]

\* The server applies r.
ApplyToPool(r) ==
  /\ \/ /\ r.op = "claim"
        /\ ClaimExact(r.worker, workers[r.worker].role, Fenced(r.task), r.task)
        /\ tasks' # tasks
     \/ r.op = "start" /\ Start(r.task, r.attempt, Fenced(r.task))
     \/ r.op = "validation" /\ Submit(r.task, r.attempt, Fenced(r.task), r.sha)
     \/ r.op = "complete" /\ Complete(r.task, r.attempt, Fenced(r.task))
     \/ r.op = "fail" /\ Fail(r.task, r.attempt, Fenced(r.task))
     \/ r.op = "block" /\ Block(r.task, r.attempt, Fenced(r.task))
     \/ /\ r.op = "checkpoint"
        /\ RecordCheckpoint(r.task, r.attempt, [attempt |-> r.attempt, stage |-> r.stage],
                            r.seq, r.effect, r.effect_state)
  /\ UNCHANGED bucket

ApplyToBucket(r) ==
  /\ r.op = "put"
  /\ bucket' = bucket \cup {[task |-> r.task, gen |-> r.gen, sha |-> r.sha]}
  /\ UNCHANGED vars

Apply(r) == ApplyToPool(r) \/ ApplyToBucket(r)

\* r was refused, is lost, or has yet to arrive.
Unanswered(r) ==
  /\ \/ late' = late
     \/ Cardinality(late) < MaxLate /\ late' = late \cup {r}
  /\ UNCHANGED <<vars, bucket>>

Deliver ==
  \E r \in late :
    /\ Apply(r)
    /\ late' = late \ {r}
    /\ UNCHANGED <<exec, locks, receipts>>

-----------------------------------------------------------------------------
(* The run of one executor *)

At(w, pc) == exec[w] # None /\ exec[w].pc = pc

LockOf(w) == [worker |-> w, task |-> exec[w].task, role |-> exec[w].role]

\* The run goes on at pc, or ends and removes its lock file.
Goto(w, pc) ==
  IF pc = "exit"
  THEN exec' = [exec EXCEPT ![w] = None] /\ locks' = locks \ {LockOf(w)}
  ELSE exec' = [exec EXCEPT ![w].pc = pc] /\ UNCHANGED locks

\* Fault: a request without an answer counts as done.
SendTrusting(w, r, ok, err) ==
  /\ \/ Apply(r) /\ UNCHANGED late /\ Goto(w, ok)
     \/ Unanswered(r) /\ Goto(w, ok)
  /\ UNCHANGED receipts

\* The run sends r; it goes on at ok, or raises and goes on at err.
Send(w, r, ok, err) ==
  /\ \/ Apply(r) /\ UNCHANGED late /\ Goto(w, ok)
     \/ Unanswered(r) /\ Goto(w, err)
  /\ UNCHANGED receipts

\* A step of the run that sends nothing.
Locally(w, pc) ==
  /\ Goto(w, pc)
  /\ UNCHANGED <<vars, receipts, bucket, late>>

\* run() up to and with its claim: the lock file, no receipt to replay, the task
\* read, the artifact store probed, claim_fenced_exact or claim_exact.  Nothing
\* others do before the claim can change what the earlier checks saw of this
\* worker and role, because the lock is held.  The run ends if the claim gets no
\* answer, and leaves the lease it may have been granted to expire.
Begin(w, t) ==
  LET role == workers[w].role
      lock == [worker |-> w, task |-> t, role |-> role]
  IN /\ exec[w] = None
     /\ workers[w] # None /\ tasks[t].state # "absent"
     /\ lock \notin locks
     /\ \A r \in receipts : <<r.worker, r.task, r.role>> # <<w, t, role>>
     /\ \/ /\ ApplyToPool(ClaimRequest(w, t))
           /\ exec' = [exec EXCEPT ![w] =
                [pc |-> "recover", task |-> t, role |-> role,
                 attempt |-> tasks'[t].attempt_id, latest |-> None, sha |-> None]]
           /\ locks' = locks \cup {lock}
           /\ UNCHANGED late
        \/ Unanswered(ClaimRequest(w, t)) /\ UNCHANGED <<exec, locks>>
     /\ UNCHANGED receipts

\* get_recovery_context: the latest checkpoint of the task ...
LatestCheckpoint(t) ==
  IF checkpoints[t] = {} THEN None
  ELSE CHOOSE c \in checkpoints[t] :
         \A d \in checkpoints[t] : d.gen < c.gen \/ (d.gen = c.gen /\ d.seq <= c.seq)

\* ... and the latest statement about each of its effects.
EffectStatements(t) ==
  {c \in checkpoints[t] : c.effect # None /\ IsLatest(checkpoints[t], c.effect, c)}

\* reconciliation_outcome or effect_state.
EffectiveState(t, c) ==
  IF \E r \in reconciliations[t] : r.effect = c.effect /\ r.gen = c.gen /\ r.outcome = "confirmed"
  THEN "confirmed"
  ELSE IF \E r \in reconciliations[t] : r.effect = c.effect /\ r.gen = c.gen
  THEN "not_applied"
  ELSE c.effect_state

\* Stage "builder_result" with next action "submit_validation": the executor
\* writes it for its confirmed checkpoints and for no other.
IsBuilderResult(c) == c # None /\ c.effect_state = "confirmed"

\* _recovery_context and _validate_recovery_effects.
SafeToResume(t, gen, latest) ==
  /\ \A c \in checkpoints[t] : c.gen < gen
  /\ \A c \in EffectStatements(t) :
       IF EffectiveState(t, c) = "not_applied" THEN latest.effect # c.effect
       ELSE /\ EffectiveState(t, c) = "confirmed"
            /\ latest.effect = c.effect /\ IsBuilderResult(latest)

\* Fault: the recovery context is ignored.
RecoverAfresh(w) ==
  /\ At(w, "recover")
  /\ exec' = [exec EXCEPT ![w].pc = IF exec[w].role = "builder" THEN "start" ELSE "validate"]
  /\ UNCHANGED <<vars, locks, receipts, bucket, late>>

\* The recovery context of a fenced claim, read after the claim's transaction.
Recover(w) ==
  LET t == exec[w].task
      gen == tasks[t].attempts[exec[w].attempt].gen
      latest == IF Fenced(t) THEN LatestCheckpoint(t) ELSE None
      next == IF Fenced(t) /\ ~SafeToResume(t, gen, latest) THEN "unsafe"
              ELSE IF exec[w].role = "builder" THEN "start" ELSE "validate"
  IN /\ At(w, "recover")
     /\ exec' = [exec EXCEPT ![w].pc = next, ![w].latest = latest]
     /\ UNCHANGED <<vars, locks, receipts, bucket, late>>

BlockUnsafe(w) == At(w, "unsafe") /\ Send(w, Mutation(w, "block", None), "exit", "exit")

\* Any other exception after the claim.
FailTask(w) == At(w, "fail") /\ Send(w, Mutation(w, "fail", None), "exit", "exit")

Stored(t, sha) == \E a \in bucket : a.task = t /\ a.sha = sha

-----------------------------------------------------------------------------
(* Builder *)

StartTask(w) == At(w, "start") /\ Send(w, Mutation(w, "start", None), "build", "fail")

\* adapter.build; a fenced product is declared as an effect before it is published.
BuildAnew(w) ==
  /\ At(w, "build") /\ exec[w].latest = None
  /\ \/ \E sha \in Shas :
          /\ exec' = [exec EXCEPT ![w].sha = sha,
                        ![w].pc = IF Fenced(exec[w].task) THEN "declare" ELSE "submit"]
          /\ UNCHANGED <<vars, locks, receipts, bucket, late>>
     \/ Locally(w, "fail")

\* materialize and verify of the artifact of an earlier generation; "build" is
\* not called again.
Materialize(w) ==
  LET latest == exec[w].latest IN
  /\ At(w, "build") /\ latest # None
  /\ \/ /\ IsBuilderResult(latest) /\ Stored(exec[w].task, latest.effect)
        /\ exec' = [exec EXCEPT ![w].sha = latest.effect, ![w].pc = "confirm"]
        /\ UNCHANGED <<vars, locks, receipts, bucket, late>>
     \/ Locally(w, "fail")

\* Fault: the effect is caused although its declaration was not acknowledged.
DeclareUnacknowledged(w) ==
  /\ At(w, "declare")
  /\ Send(w, Checkpoint(w, "artifact-pending", 1, exec[w].sha, "pending"), "publish", "publish")

DeclareEffect(w) ==
  /\ At(w, "declare")
  /\ Send(w, Checkpoint(w, "artifact-pending", 1, exec[w].sha, "pending"), "publish", "fail")

\* Fault: a failed publication is taken for one that happened.
PublishHopefully(w) == At(w, "publish") /\ Send(w, PutRequest(w), "verify", "confirm")

\* publish: put_object if absent, then the bytes read back.
Publish(w) == At(w, "publish") /\ Send(w, PutRequest(w), "verify", "ambiguous")

VerifyArtifact(w) ==
  /\ At(w, "verify")
  /\ \/ Stored(exec[w].task, exec[w].sha) /\ Locally(w, "confirm")
     \/ Locally(w, "ambiguous")

\* The publication may have happened: the effect is unknown and the task blocked.
DeclareUnknown(w) ==
  /\ At(w, "ambiguous")
  /\ Send(w, Checkpoint(w, "artifact-unknown", 2, exec[w].sha, "unknown"), "giveup", "giveup")

BlockAmbiguous(w) == At(w, "giveup") /\ Send(w, Mutation(w, "block", None), "exit", "exit")

ConfirmEffect(w) ==
  /\ At(w, "confirm")
  /\ Send(w, Checkpoint(w, "result", IF exec[w].latest = None THEN 2 ELSE 1,
                        exec[w].sha, "confirmed"), "submit", "fail")

SubmitProduct(w) ==
  At(w, "submit") /\ Send(w, Mutation(w, "validation", exec[w].sha), "receipt", "fail")

-----------------------------------------------------------------------------
(* Validator *)

\* The artifact of the product is verified and the adapter validates it.
Validate(w) ==
  LET t == exec[w].task IN
  /\ At(w, "validate")
  /\ \/ /\ tasks[t].produced_sha # None
        /\ Fenced(t) => IsBuilderResult(exec[w].latest) /\ Stored(t, tasks[t].produced_sha)
        /\ exec' = [exec EXCEPT ![w].sha = tasks[t].produced_sha,
                      ![w].pc = IF Fenced(t) THEN "record" ELSE "complete"]
        /\ UNCHANGED <<vars, locks, receipts, bucket, late>>
     \/ Locally(w, "fail")

RecordValidation(w) ==
  At(w, "record") /\ Send(w, Checkpoint(w, "result", 1, None, "none"), "complete", "fail")

CompleteTask(w) ==
  At(w, "complete") /\ Send(w, Mutation(w, "complete", None), "receipt", "fail")

-----------------------------------------------------------------------------
WriteReceipt(w) ==
  LET t == exec[w].task IN
  /\ At(w, "receipt")
  /\ receipts' = receipts \cup
       {[worker |-> w, task |-> t, role |-> exec[w].role, sha |-> exec[w].sha,
         gen |-> tasks[t].attempts[exec[w].attempt].gen]}
  /\ Goto(w, "exit")
  /\ UNCHANGED <<vars, bucket, late>>

\* The process is killed: its lock file stays.
Crash(w) ==
  /\ exec[w] # None
  /\ exec' = [exec EXCEPT ![w] = None]
  /\ UNCHANGED <<vars, locks, receipts, bucket, late>>

ExecInit ==
  /\ Init
  /\ exec = [w \in Workers |-> None]
  /\ locks = {} /\ receipts = {} /\ bucket = {} /\ late = {}

Executing(w) ==
  \/ \E t \in Tasks : Begin(w, t)
  \/ Recover(w) \/ BlockUnsafe(w) \/ FailTask(w)
  \/ StartTask(w) \/ BuildAnew(w) \/ Materialize(w) \/ DeclareEffect(w)
  \/ Publish(w) \/ VerifyArtifact(w) \/ DeclareUnknown(w) \/ BlockAmbiguous(w)
  \/ ConfirmEffect(w) \/ SubmitProduct(w)
  \/ Validate(w) \/ RecordValidation(w) \/ CompleteTask(w)
  \/ WriteReceipt(w) \/ Crash(w)

\* Time, the operators and the reconciliation loop of the pool.
Surroundings == (Tick \/ Operating \/ Reconcile) /\ UNCHANGED execVars

ExecNext == Surroundings \/ Deliver \/ \E w \in Workers : Executing(w)

ExecSpec == ExecInit /\ [][ExecNext]_allVars

-----------------------------------------------------------------------------
(* Correctness *)

\* Nothing is in the artifact store that its generation did not declare to the
\* pool first, whatever was lost, delayed or killed in between: an operator who
\* reconciles a parked task knows every effect there can be.
PublishedIsDeclared ==
  \A a \in bucket : \E c \in checkpoints[a.task] : c.effect = a.sha /\ c.gen = a.gen

\* A task is published at most once, however many executors took it over: a later
\* generation resumes the confirmed artifact or stops.
PublishedOnce == \A a, b \in bucket : a.task = b.task => a = b

\* A fenced product the pool accepted can be restored from the artifact store, and
\* it is the one artifact that was ever confirmed.
ProductIsDurable ==
  \A t \in Tasks : Fenced(t) =>
    /\ tasks[t].produced_sha # None =>
         /\ Stored(t, tasks[t].produced_sha)
         /\ \E c \in checkpoints[t] : c.effect = tasks[t].produced_sha /\ IsBuilderResult(c)
    /\ \A c \in checkpoints[t] :
         IsBuilderResult(c) =>
           Stored(t, c.effect) /\ tasks[t].produced_sha \in {None, c.effect}

\* A receipt is written only for a result the pool accepted, and the pool never
\* goes back on it: what it reads in the canonical task stays true.
ReceiptIsBacked ==
  \A r \in receipts :
    /\ tasks[r.task].produced_sha = r.sha
    /\ r.role = "validator" =>
         tasks[r.task].state = "completed" /\ tasks[r.task].lease_generation = r.gen

\* "The claimant must skip `confirmed` effects" (fenced-checkpoint-continuity
\* .requirements.md, 12): an executor that holds the lease does not stop as unsafe
\* when the last word on every effect of the task is its builder's confirmation.
ConfirmedEffectsAreSkipped ==
  \A w \in Workers :
    At(w, "unsafe") /\ tasks[exec[w].task].attempt_id = exec[w].attempt =>
      \E c \in EffectStatements(exec[w].task) : c.effect_state # "confirmed"
=============================================================================
