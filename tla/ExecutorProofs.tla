--------------------------- MODULE ExecutorProofs ---------------------------
(***************************************************************************)
(* Theorems about NativeOneShot, for every value of its constants: any     *)
(* number of executors, of requests that arrive late and of generations.   *)
(*                                                                         *)
(* Between two calls of a run anything may happen to its task, and a       *)
(* request may be applied long after its run has ended.  So the invariant  *)
(* attaches to every run and to every late request what it relies on, and  *)
(* all of these are facts that no step takes back: an attempt was granted, *)
(* an effect was declared, an artifact is stored, a result was accepted.   *)
(* The proof has two halves: what a request does to the pool and the       *)
(* bucket (PoolInv, Grew), and where each call leaves its run (RunOK).     *)
(***************************************************************************)
EXTENDS NativeOneShot, TaskMoveProofs

-----------------------------------------------------------------------------
(* Facts that stay *)

\* No checkpoint of t is older than generation i.
NoEarlier(t, i) == \A d \in checkpoints[t] : d.gen >= i

\* Generation i declared the artifact sha, and began without any checkpoint.
Origin(t, i, sha) ==
  /\ NoEarlier(t, i)
  /\ \E c \in checkpoints[t] :
       /\ c.id = [attempt |-> i, stage |-> "artifact-pending"]
       /\ c.gen = i /\ c.effect = sha

\* The builder's confirmation that sha is stored is in the pool.
Confirmed(t, sha) ==
  \E c \in checkpoints[t] : c.effect = sha /\ c.effect_state = "confirmed"

-----------------------------------------------------------------------------
(* The inductive invariant: the pool and the bucket *)

\* Checkpoint ids are unique, a table that is not empty has a latest row, and
\* what it says is confirmed is stored.
CheckpointsOK(t) ==
  /\ \A c, d \in checkpoints[t] : c.id = d.id => c = d
  /\ checkpoints[t] # {} =>
       \E c \in checkpoints[t] : \A d \in checkpoints[t] :
         d.gen < c.gen \/ (d.gen = c.gen /\ d.seq <= c.seq)
  /\ \A c \in checkpoints[t] : c.effect_state = "confirmed" => Stored(t, c.effect)

\* A fenced product was confirmed before the pool accepted it.
ProductOK(t) ==
  Fenced(t) /\ tasks[t].produced_sha # None => Confirmed(t, tasks[t].produced_sha)

Artifact == [task : Tasks, gen : Nat, sha : Shas]

BucketOK == \A a \in bucket : a \in Artifact /\ Origin(a.task, a.gen, a.sha)

PoolInv ==
  /\ TaskInv
  /\ \A t \in Tasks :
       /\ tasks[t].lease_generation <= MaxGeneration
       /\ CheckpointsOK(t)
       /\ ProductOK(t)
  /\ BucketOK

-----------------------------------------------------------------------------
(* The inductive invariant: runs, late requests and receipts *)

\* Where a run can be.
BuilderPoints ==
  {"start", "build", "declare", "publish", "verify", "ambiguous", "giveup", "confirm", "submit"}
Points ==
  BuilderPoints \cup {"recover", "unsafe", "fail", "validate", "record", "complete", "receipt"}

Run ==
  [pc : Points, task : Tasks, role : Roles, attempt : Nat,
   latest : CheckpointRow \cup {None}, sha : Shas \cup {None}]

Granted(t, i) == i \in DOMAIN tasks[t].attempts

\* The pool has the result of r, and if r validated it, its completion.
ResultAccepted(r) ==
  /\ tasks[r.task].produced_sha = r.sha /\ r.sha # None
  /\ r.role = "validator" =>
       tasks[r.task].state = "completed" /\ tasks[r.task].lease_generation = r.attempt

\* What run r relies on when it is at pc.
PointOK(pc, r) ==
  /\ pc \in BuilderPoints => r.role = "builder"
  /\ pc \in {"start", "build", "declare"} =>
       (Fenced(r.task) /\ r.latest = None => NoEarlier(r.task, r.attempt))
  /\ pc = "declare" => r.sha \in Shas /\ Fenced(r.task) /\ r.latest = None
  /\ pc \in {"publish", "verify"} => r.sha \in Shas /\ Origin(r.task, r.attempt, r.sha)
  /\ pc = "ambiguous" => r.sha \in Shas
  /\ pc = "confirm" => r.sha \in Shas /\ Stored(r.task, r.sha)
  /\ pc = "submit" => r.sha \in Shas /\ (Fenced(r.task) => Confirmed(r.task, r.sha))
  /\ pc \in {"record", "complete"} => tasks[r.task].produced_sha = r.sha /\ r.sha # None
  /\ pc = "receipt" => ResultAccepted(r)

RunOK(r) == r \in Run /\ Granted(r.task, r.attempt) /\ PointOK(r.pc, r)

Mutations == {"start", "validation", "complete", "fail", "block"}

\* What the server relies on when it applies request r.
RequestOK(r) ==
  /\ r.task \in Tasks
  /\ r.op = "claim" => r.worker \in Workers
  /\ r.op \in Mutations \cup {"checkpoint"} => Granted(r.task, r.attempt)
  /\ r.op = "validation" =>
       r.sha \in Shas /\ (Fenced(r.task) => Confirmed(r.task, r.sha))
  /\ r.op = "checkpoint" =>
       /\ r.stage \in CheckpointStages /\ r.seq \in 1..2
       /\ r.effect \in Shas \cup {None} /\ r.effect_state \in EffectStates
       /\ r.effect_state = "confirmed" => Stored(r.task, r.effect)
  /\ r.op = "put" => r.sha \in Shas /\ r.gen \in Nat /\ Origin(r.task, r.gen, r.sha)

ReceiptOK(r) ==
  /\ r.task \in Tasks
  /\ tasks[r.task].produced_sha = r.sha /\ r.sha # None
  /\ r.role = "validator" =>
       tasks[r.task].state = "completed" /\ tasks[r.task].lease_generation = r.gen

RunsInv ==
  /\ exec \in [Workers -> Run \cup {None}]
  /\ \A w \in Workers : exec[w] # None => RunOK(exec[w])
  /\ \A r \in late : RequestOK(r)
  /\ \A r \in receipts : ReceiptOK(r)

ExecInv == PoolInv /\ RunsInv


-----------------------------------------------------------------------------
(* What a step never takes back *)

\* Attempts, products, completions, checkpoints and artifacts stay, and a new
\* checkpoint is of a generation no older than any there is.
Grew ==
  /\ \A t \in Tasks :
       /\ DOMAIN tasks[t].attempts \subseteq DOMAIN tasks'[t].attempts
       /\ DOMAIN tasks[t].attempts # {} \/ tasks[t].produced_sha # None =>
            tasks'[t].fencing_required = tasks[t].fencing_required
       /\ tasks[t].produced_sha # None => tasks'[t].produced_sha = tasks[t].produced_sha
       /\ tasks[t].state = "completed" => tasks'[t] = tasks[t]
       /\ checkpoints[t] \subseteq checkpoints'[t]
       /\ \A d \in checkpoints'[t] \ checkpoints[t] :
            /\ \A i \in DOMAIN tasks[t].attempts : d.gen >= i
            /\ \A c \in checkpoints[t] : d.gen >= c.gen
  /\ bucket \subseteq bucket'

LEMMA NoEarlierKept ==
  ASSUME Grew, NEW t \in Tasks, NEW i, Granted(t, i), NoEarlier(t, i)
  PROVE  NoEarlier(t, i)'
  BY DEF Grew, Granted, NoEarlier

LEMMA OriginKept ==
  ASSUME Grew, NEW t \in Tasks, NEW i, NEW sha, Origin(t, i, sha)
  PROVE  Origin(t, i, sha)'
<1>1. PICK c \in checkpoints[t] :
        /\ c.id = [attempt |-> i, stage |-> "artifact-pending"]
        /\ c.gen = i /\ c.effect = sha
  BY DEF Origin
<1>2. c \in checkpoints'[t] BY DEF Grew
<1>3. \A d \in checkpoints'[t] : d.gen >= i
  BY <1>1 DEF Grew, Origin, NoEarlier
<1> QED BY <1>1, <1>2, <1>3 DEF Origin, NoEarlier

LEMMA StoredKept ==
  ASSUME Grew, NEW t, NEW sha, Stored(t, sha)
  PROVE  Stored(t, sha)'
  BY DEF Grew, Stored

LEMMA ConfirmedKept ==
  ASSUME Grew, NEW t \in Tasks, NEW sha, Confirmed(t, sha)
  PROVE  Confirmed(t, sha)'
  BY DEF Grew, Confirmed

\* A task that was leased keeps its fencing.
LEMMA FencedKept ==
  ASSUME Grew, NEW t \in Tasks, NEW i, Granted(t, i)
  PROVE  Granted(t, i)' /\ Fenced(t)' = Fenced(t)
  BY DEF Grew, Granted, Fenced

\* A run that does not move keeps what it relies on.
LEMMA PointKept ==
  ASSUME Grew, NEW pc, NEW r \in Run, Granted(r.task, r.attempt), PointOK(pc, r)
  PROVE  PointOK(pc, r)'
<1>1. r.task \in Tasks BY DEF Run
<1>2. Fenced(r.task)' = Fenced(r.task) BY <1>1, FencedKept
<1>3. pc \in {"start", "build", "declare"} =>
        (Fenced(r.task)' /\ r.latest = None => NoEarlier(r.task, r.attempt)')
  BY <1>1, <1>2, NoEarlierKept DEF PointOK
<1>4. pc = "declare" => r.sha \in Shas /\ Fenced(r.task)' /\ r.latest = None
  BY <1>2 DEF PointOK
<1>5. pc \in {"publish", "verify"} => r.sha \in Shas /\ Origin(r.task, r.attempt, r.sha)'
  BY <1>1, OriginKept DEF PointOK
<1>6. pc = "confirm" => r.sha \in Shas /\ Stored(r.task, r.sha)'
  BY <1>1, StoredKept DEF PointOK
<1>7. pc = "submit" => r.sha \in Shas /\ (Fenced(r.task)' => Confirmed(r.task, r.sha)')
  BY <1>1, <1>2, ConfirmedKept DEF PointOK
<1>8. /\ pc \in {"record", "complete"} => tasks'[r.task].produced_sha = r.sha /\ r.sha # None
      /\ pc = "receipt" => ResultAccepted(r)'
  BY <1>1 DEF PointOK, ResultAccepted, Grew
<1>9. (pc \in BuilderPoints => r.role = "builder") /\ (pc = "ambiguous" => r.sha \in Shas)
  BY DEF PointOK
<1> QED BY <1>3, <1>4, <1>5, <1>6, <1>7, <1>8, <1>9 DEF PointOK

LEMMA RunKept ==
  ASSUME Grew, NEW r, RunOK(r)
  PROVE  RunOK(r)'
<1>1. r \in Run /\ r.task \in Tasks BY DEF RunOK, Run
<1> QED BY <1>1, FencedKept, PointKept DEF RunOK

LEMMA RequestKept ==
  ASSUME Grew, NEW r, RequestOK(r)
  PROVE  RequestOK(r)'
<1>1. r.task \in Tasks /\ (r.op = "claim" => r.worker \in Workers) BY DEF RequestOK
<1>2. r.op \in Mutations \cup {"checkpoint"} =>
        Granted(r.task, r.attempt)' /\ Fenced(r.task)' = Fenced(r.task)
  BY <1>1, FencedKept DEF RequestOK
<1>3. r.op = "validation" =>
        r.sha \in Shas /\ (Fenced(r.task)' => Confirmed(r.task, r.sha)')
  BY <1>1, <1>2, ConfirmedKept DEF RequestOK, Mutations
<1>4. r.op = "checkpoint" =>
        /\ r.stage \in CheckpointStages /\ r.seq \in 1..2
        /\ r.effect \in Shas \cup {None} /\ r.effect_state \in EffectStates
        /\ r.effect_state = "confirmed" => Stored(r.task, r.effect)'
  BY <1>1, StoredKept DEF RequestOK
<1>5. r.op = "put" => r.sha \in Shas /\ r.gen \in Nat /\ Origin(r.task, r.gen, r.sha)'
  BY <1>1, OriginKept DEF RequestOK
<1> QED BY <1>1, <1>2, <1>3, <1>4, <1>5 DEF RequestOK

LEMMA ReceiptKept ==
  ASSUME Grew, NEW r, ReceiptOK(r)
  PROVE  ReceiptOK(r)'
  BY DEF Grew, ReceiptOK


-----------------------------------------------------------------------------
(* Every step of the pool grows it *)

\* Only enqueue_task writes fencing_required.
LEMMA FencingStep ==
  ASSUME NEW t, NEW a, RowOK(a), NEW b, TaskStep(t, a, b), a.state # "absent"
  PROVE  b.fencing_required = a.fencing_required
<1>1. CASE Move(t, a, b)
  BY <1>1 DEF Move, Withdraw, Keep, HandIn, Finish, Resume, Admit, Ended, SameTerms
<1>2. ASSUME NEW m \in TaskRow, RowOK(m), Recovered(t, a, m), b = m \/ Grant(m, b)
      PROVE  b.fencing_required = a.fencing_required
  <2>1. m.fencing_required = a.fencing_required
    BY <1>2, RecoveredFacts DEF SameTerms
  <2> QED BY <1>2, <2>1 DEF Grant
<1> QED BY <1>1, <1>2 DEF TaskStep

\* The attempts of a good row are numbered by its generations.
LEMMA AttemptNumbers ==
  ASSUME NEW row, RowOK(row)
  PROVE  /\ row.lease_generation \in Nat
         /\ DOMAIN row.attempts = 1..row.lease_generation
         /\ \A i \in DOMAIN row.attempts : row.attempts[i].gen = i
<1>1. row.attempts \in Seq(AttemptRow) /\ row.lease_generation \in Nat
  BY DEF RowOK, TaskRow
<1>2. row.lease_generation = Len(row.attempts)
  BY DEF RowOK, LedgerRow, AttemptHistory
<1>3. DOMAIN row.attempts = 1..Len(row.attempts) BY <1>1, LenProperties
<1> QED BY <1>1, <1>2, <1>3 DEF RowOK, LedgerRow, AttemptHistory

\* A transaction that only adds checkpoints of the lease held now.
LEMMA StepGrew ==
  ASSUME TaskInv, [Next]_vars, bucket \subseteq bucket',
         \A t \in Tasks :
           /\ checkpoints[t] \subseteq checkpoints'[t]
           /\ \A d \in checkpoints'[t] \ checkpoints[t] : d.gen = tasks[t].lease_generation
  PROVE  Grew
<1>1. TaskInv' BY TaskNext
<1> SUFFICES ASSUME NEW t \in Tasks
             PROVE  /\ DOMAIN tasks[t].attempts \subseteq DOMAIN tasks'[t].attempts
                    /\ DOMAIN tasks[t].attempts # {} \/ tasks[t].produced_sha # None =>
                         tasks'[t].fencing_required = tasks[t].fencing_required
                    /\ tasks[t].produced_sha # None =>
                         tasks'[t].produced_sha = tasks[t].produced_sha
                    /\ tasks[t].state = "completed" => tasks'[t] = tasks[t]
                    /\ \A d \in checkpoints'[t] \ checkpoints[t] :
                         /\ \A i \in DOMAIN tasks[t].attempts : d.gen >= i
                         /\ \A c \in checkpoints[t] : d.gen >= c.gen
  BY DEF Grew
<1> DEFINE a == tasks[t]
           b == tasks'[t]
<1>2. /\ RowOK(a) /\ StageRow(a) /\ EffectRow(t, a) /\ RowOK(b) /\ TaskStep(t, a, b)
      /\ checkpoints[t] \subseteq CheckpointRow
  BY <1>1, StepMoves DEF TaskInv, GoodTask, IInv, TasksOK, TablesOK
<1> HIDE DEF a, b
<1>3. Kept(a, b) BY <1>2, KeptStep
<1>4. /\ a.lease_generation \in Nat /\ DOMAIN a.attempts = 1..a.lease_generation
      /\ b.lease_generation \in Nat /\ DOMAIN b.attempts = 1..b.lease_generation
  BY <1>2, AttemptNumbers
<1>5. b.lease_generation >= a.lease_generation BY <1>3 DEF Kept
<1>6. DOMAIN a.attempts \subseteq DOMAIN b.attempts BY <1>4, <1>5
<1>7. DOMAIN a.attempts # {} \/ a.produced_sha # None => b.fencing_required = a.fencing_required
  <2>1. DOMAIN a.attempts # {} \/ a.produced_sha # None => a.state # "absent"
    BY <1>2, <1>4 DEF StageRow
  <2> QED BY <1>2, <2>1, FencingStep
<1>8. a.state = "completed" => b = a BY <1>2, TerminalStep
<1>9. ASSUME NEW d \in checkpoints'[t] \ checkpoints[t]
      PROVE  /\ \A i \in DOMAIN a.attempts : d.gen >= i
             /\ \A c \in checkpoints[t] : d.gen >= c.gen
  <2>1. d.gen = a.lease_generation BY <1>9 DEF a
  <2>2. \A c \in checkpoints[t] : c.gen \in Nat /\ c.gen <= a.lease_generation
    BY <1>2 DEF EffectRow, CheckpointRow
  <2> QED BY <1>4, <2>1, <2>2
<1> QED BY <1>3, <1>6, <1>7, <1>8, <1>9 DEF Kept, a, b

LEMMA CheckpointsKept ==
  ASSUME Grew, NEW t \in Tasks, CheckpointsOK(t), checkpoints'[t] = checkpoints[t]
  PROVE  CheckpointsOK(t)'
<1>1. \A c \in checkpoints'[t] : c.effect_state = "confirmed" => Stored(t, c.effect)'
  BY StoredKept DEF CheckpointsOK
<1> QED BY <1>1 DEF CheckpointsOK

\* What is left to show of a step: the generation is within its bound, a new
\* product was confirmed, new checkpoints are good and new artifacts declared.
LEMMA PoolKept ==
  ASSUME PoolInv, [Next]_vars, Grew,
         \A t \in Tasks :
           /\ tasks'[t].lease_generation <= MaxGeneration
           /\ CheckpointsOK(t)'
           /\ \/ tasks'[t].produced_sha = tasks[t].produced_sha
              \/ Fenced(t)' => Confirmed(t, tasks[t].produced_sha)',
         \A a \in bucket' \ bucket : a \in Artifact /\ Origin(a.task, a.gen, a.sha)
  PROVE  PoolInv'
<1>1. TaskInv' BY TaskNext DEF PoolInv
<1>2. ASSUME NEW t \in Tasks
      PROVE  ProductOK(t)'
  <2>1. CASE Fenced(t)' => Confirmed(t, tasks[t].produced_sha)'
    BY <2>1 DEF ProductOK, Confirmed, Fenced
  <2>2. CASE tasks'[t].produced_sha = tasks[t].produced_sha /\ tasks[t].produced_sha # None
    <3>1. Fenced(t)' = Fenced(t) BY <2>2 DEF Grew, Fenced
    <3>2. Fenced(t) => Confirmed(t, tasks[t].produced_sha) BY <2>2 DEF PoolInv, ProductOK
    <3>3. \A sha : Confirmed(t, sha) => Confirmed(t, sha)' BY ConfirmedKept
    <3> QED BY <2>2, <3>1, <3>2, <3>3 DEF ProductOK, Confirmed
  <2>3. CASE tasks'[t].produced_sha = tasks[t].produced_sha /\ tasks[t].produced_sha = None
    BY <2>3 DEF ProductOK
  <2> QED BY <2>1, <2>2, <2>3
<1>3. BucketOK'
  <2> SUFFICES ASSUME NEW a \in bucket' PROVE a \in Artifact /\ Origin(a.task, a.gen, a.sha)'
    BY DEF BucketOK
  <2>1. a \in Artifact /\ Origin(a.task, a.gen, a.sha) BY DEF PoolInv, BucketOK
  <2>2. a.task \in Tasks BY <2>1 DEF Artifact
  <2> QED BY <2>1, <2>2, OriginKept
<1> QED BY <1>1, <1>2, <1>3 DEF PoolInv

\* A transaction that neither accepts a product nor records a checkpoint.
LEMMA QuietStep ==
  ASSUME PoolInv, [Next]_vars, checkpoints' = checkpoints, bucket' = bucket,
         \A t \in Tasks : /\ tasks'[t].produced_sha = tasks[t].produced_sha
                          /\ tasks'[t].lease_generation <= MaxGeneration
  PROVE  PoolInv' /\ Grew /\ [Next]_vars
<1>1. Grew BY StepGrew DEF PoolInv
<1>2. \A t \in Tasks : CheckpointsOK(t)' BY <1>1, CheckpointsKept DEF PoolInv
<1> QED BY <1>1, <1>2, PoolKept


-----------------------------------------------------------------------------
(* Time, the operators and the reconciliation loop *)

\* The product and the generation of a row stay.
Idle(a, b) ==
  b.produced_sha = a.produced_sha /\ b.lease_generation = a.lease_generation

LEMMA IdleStep ==
  ASSUME PoolInv, [Next]_vars, checkpoints' = checkpoints, bucket' = bucket,
         \A t \in Tasks : Idle(tasks[t], tasks'[t])
  PROVE  PoolInv' /\ Grew /\ [Next]_vars
<1>1. \A t \in Tasks : /\ tasks'[t].produced_sha = tasks[t].produced_sha
                       /\ tasks'[t].lease_generation <= MaxGeneration
  BY DEF Idle, PoolInv
<1> QED BY <1>1, QuietStep

\* One row is rewritten.
LEMMA IdleUpdate ==
  ASSUME TaskInv, NEW t \in Tasks, NEW row, tasks' = [tasks EXCEPT ![t] = row],
         Idle(tasks[t], row), NEW u \in Tasks
  PROVE  Idle(tasks[u], tasks'[u])
<1>1. tasks \in [Tasks -> TaskRow] BY DEF TaskInv, IInv, TasksOK
<1>2. tasks'[u] = IF u = t THEN row ELSE tasks[u] BY <1>1
<1> QED BY <1>2 DEF Idle

\* Rows that are withdrawn or recovered keep their product.
LEMMA WithdrawIdle ==
  ASSUME NEW t, NEW a, NEW b, Withdraw(t, a, b)
  PROVE  Idle(a, b)
  BY DEF Withdraw, Ended, SameTerms, Idle

LEMMA RecoveredIdle ==
  ASSUME NEW t, NEW a, NEW b, Recovered(t, a, b)
  PROVE  Idle(a, b)
<1>1. PICK m \in TaskRow : Withdraw(t, a, m) /\ Withdraw(t, m, b) BY DEF Recovered
<1> QED BY <1>1, WithdrawIdle DEF Idle

LEMMA SurroundingsIdle ==
  ASSUME TaskInv, Tick \/ Operating \/ Reconcile, NEW u \in Tasks
  PROVE  Idle(tasks[u], tasks'[u]) /\ checkpoints' = checkpoints
<1>0. IInv /\ TasksOK(tasks) /\ \A t \in Tasks : RowOK(tasks[t]) /\ StageRow(tasks[t])
  BY DEF TaskInv, GoodTask, IInv
<1>1. CASE UNCHANGED <<tasks, checkpoints>>
  BY <1>1 DEF Idle
<1>2. ASSUME NEW t \in Tasks, NEW a \in Admissions, Enqueue(t, a)
      PROVE  Idle(tasks[u], tasks'[u]) /\ checkpoints' = checkpoints
  <2> DEFINE r == [Progress(AbsentTask) EXCEPT
                     !.state = "queued", !.fencing_required = a.fencing_required,
                     !.priority = a.priority, !.max_attempts = a.max_attempts]
  <2>1. /\ tasks' = [tasks EXCEPT ![t] = r] /\ tasks[t].state = "absent"
        /\ checkpoints' = checkpoints
    BY <1>2 DEF Enqueue
  <2>2. Admit(tasks[t], r) BY <2>1, EnqueueMove
  <2> HIDE DEF r
  <2>3. Idle(tasks[t], r) BY <1>0, <2>2 DEF Admit, StageRow, Idle
  <2> QED BY <2>1, <2>3, IdleUpdate
<1>3. ASSUME NEW t \in Tasks, RequeueBlocked(t)
      PROVE  Idle(tasks[u], tasks'[u]) /\ checkpoints' = checkpoints
  <2> DEFINE r == [Progress(tasks[t]) EXCEPT
                     !.state = RequeueState(tasks[t]), !.blocked_reason = None]
  <2>1. /\ tasks' = [tasks EXCEPT ![t] = r] /\ tasks[t].state = "blocked"
        /\ ~UnresolvedEffect(t, tasks[t]) /\ checkpoints' = checkpoints
    BY <1>3 DEF RequeueBlocked, Update
  <2>2. Resume(t, tasks[t], r) BY <1>0, <2>1, RequeueMove
  <2> HIDE DEF r
  <2>3. Idle(tasks[t], r) BY <2>2 DEF Resume, SameTerms, Idle
  <2> QED BY <2>1, <2>3, IdleUpdate
<1>4. CASE Reconcile
  <2>1. PICK o \in Orders : Sweep(RecoverStalled(RecoverExpired(tasks), o))
    BY <1>4 DEF Reconcile
  <2>2. TasksOK(RecoverStalled(RecoverExpired(tasks), o))
        /\ Recovered(u, tasks[u], RecoverStalled(RecoverExpired(tasks), o)[u])
    BY <1>0, RecoveredOK, RecoveryMoves
  <2>3. /\ RowOK(tasks'[u]) /\ Recovered(u, tasks[u], tasks'[u])
        /\ checkpoints' = checkpoints
    BY <2>1, <2>2 DEF Sweep, TasksOK
  <2> QED BY <1>0, <2>3, RecoveredIdle
<1>5. \/ UNCHANGED <<tasks, checkpoints>>
      \/ \E t \in Tasks, a \in Admissions : Enqueue(t, a)
      \/ \E t \in Tasks : RequeueBlocked(t)
      \/ Reconcile
  BY DEF Tick, Operating, EnableFencedCutover, ReconcileEffect, ConfigureRepository,
         ReplaceAffinities, RegisterWorker
<1> QED BY <1>1, <1>2, <1>3, <1>4, <1>5

LEMMA SurroundingsStep ==
  ASSUME PoolInv, Tick \/ Operating \/ Reconcile, bucket' = bucket
  PROVE  PoolInv' /\ Grew /\ [Next]_vars
<1>0. CASE Tasks = {}
  <2>1. checkpoints' = checkpoints
    BY <1>0 DEF Tick, Operating, Reconcile, Sweep, EnableFencedCutover, ConfigureRepository,
           ReplaceAffinities, RegisterWorker
  <2> QED BY <1>0, <2>1, IdleStep DEF Next
<1>1. CASE Tasks # {}
  <2>1. (\A t \in Tasks : Idle(tasks[t], tasks'[t])) /\ checkpoints' = checkpoints
    BY <1>1, SurroundingsIdle DEF PoolInv
  <2> QED BY <2>1, IdleStep DEF Next
<1> QED BY <1>0, <1>1

-----------------------------------------------------------------------------
(* The requests the server applies *)

\* A credential the store accepts is that of the last lease.
LEMMA CurrentLease ==
  ASSUME TaskInv, NEW t \in Tasks, NEW i, Granted(t, i), NEW fence, NEW allowed,
         LeaseHeld(t, i, fence, allowed)
  PROVE  tasks[t].lease_generation = i
<1>1. RowOK(tasks[t]) /\ Leased(tasks[t]) BY Held DEF TaskInv, Granted
<1>2. tasks[t].lease_token = i BY DEF LeaseHeld
<1> QED BY <1>1, <1>2 DEF RowOK, LedgerRow, LeaseColumns, AttemptHistory

\* start_task, fail_task, block_task and complete_validation change no product.
LEMMA StartIdle ==
  ASSUME TaskInv, NEW t \in Tasks, NEW i, Granted(t, i), NEW fence, Start(t, i, fence),
         NEW u \in Tasks
  PROVE  Idle(tasks[u], tasks'[u])
<1> DEFINE r == [Progress(tasks[t]) EXCEPT
                   !.state = "running", !.builder_worker_id = Presenter(t, i)]
<1>1. RowOK(tasks[t]) /\ Leased(tasks[t]) /\ tasks[t].state = "leased"
  BY Held DEF TaskInv, Granted, Start
<1>2. Keep(tasks[t], r) BY <1>1, StartMove
<1>3. tasks' = [tasks EXCEPT ![t] = r] BY DEF Start, Update
<1> HIDE DEF r
<1>4. Idle(tasks[t], r) BY <1>2 DEF Keep, SameTerms, Idle
<1> QED BY <1>3, <1>4, IdleUpdate

LEMMA FailIdle ==
  ASSUME TaskInv, NEW t \in Tasks, NEW i, Granted(t, i), NEW fence, Fail(t, i, fence),
         NEW u \in Tasks
  PROVE  Idle(tasks[u], tasks'[u])
<1> DEFINE r == IF Exhausted(tasks[t]) THEN Release(Quarantine(tasks[t]), "failed")
                ELSE Release(tasks[t], RequeueState(tasks[t]))
<1>1. RowOK(tasks[t]) /\ Active(tasks[t]) BY Held DEF TaskInv, Granted, Fail
<1>2. ~UnresolvedEffect(t, tasks[t]) /\ tasks' = [tasks EXCEPT ![t] = r]
  BY DEF Fail, Update
<1>3. Withdraw(t, tasks[t], r) BY <1>1, <1>2, SentBackMove
<1> HIDE DEF r
<1> QED BY <1>2, <1>3, WithdrawIdle, IdleUpdate

LEMMA BlockIdle ==
  ASSUME TaskInv, NEW t \in Tasks, NEW i, Granted(t, i), NEW fence, Block(t, i, fence),
         NEW u \in Tasks
  PROVE  Idle(tasks[u], tasks'[u])
<1> DEFINE why == IF UnresolvedEffect(t, tasks[t]) THEN "effect_reconciliation_required"
                  ELSE "blocked_by_worker"
           r == Progress(Blocked(tasks[t], why))
<1>1. RowOK(tasks[t]) /\ Active(tasks[t]) BY Held DEF TaskInv, Granted, Block
<1>2. /\ why \in BlockReasons
      /\ UnresolvedEffect(t, tasks[t]) => why = "effect_reconciliation_required"
  BY DEF BlockReasons
<1>3. tasks' = [tasks EXCEPT ![t] = r] BY DEF Block, Update
<1> HIDE DEF why
<1>4. Withdraw(t, tasks[t], r) BY <1>1, <1>2, BlockMove
<1> HIDE DEF r
<1> QED BY <1>3, <1>4, WithdrawIdle, IdleUpdate

LEMMA CompleteIdle ==
  ASSUME TaskInv, NEW t \in Tasks, NEW i, Granted(t, i), NEW fence, Complete(t, i, fence)
  PROVE  /\ \A u \in Tasks : Idle(tasks[u], tasks'[u])
         /\ tasks'[t].state = "completed" /\ tasks'[t].lease_generation = i
<1> DEFINE row == tasks[t]
           r == Progress(Release(row, "completed"))
<1>1. /\ RowOK(row) /\ Leased(row) /\ row.lease_expires_at > clock
      /\ row.state = "validating" /\ row.leased_by = Presenter(t, i)
  BY Held DEF TaskInv, Granted, Complete
<1>2. /\ row.builder_worker_id # row.leased_by /\ row.produced_sha # None
      /\ ~UnresolvedEffect(t, row) /\ tasks' = [tasks EXCEPT ![t] = r]
  BY <1>1 DEF Complete, Update
<1>3. Finish(t, row, r) BY <1>1, <1>2, CompleteMove
<1>4. row.lease_generation = i BY CurrentLease DEF Complete
<1>5. tasks \in [Tasks -> TaskRow] BY DEF TaskInv, IInv, TasksOK
<1> HIDE DEF r
<1>6. Idle(row, r) /\ r.state = "completed" BY <1>3 DEF Finish, Ended, SameTerms, Idle
<1>7. tasks'[t] = r BY <1>2, <1>5
<1> QED BY <1>2, <1>4, <1>6, <1>7, IdleUpdate DEF Idle


\* submit_for_validation writes the product.
LEMMA SubmitProduces ==
  ASSUME TaskInv, NEW t \in Tasks, NEW i, Granted(t, i), NEW fence, NEW sha \in Shas,
         Submit(t, i, fence, sha)
  PROVE  /\ tasks'[t].produced_sha = sha
         /\ \A u \in Tasks : /\ tasks'[u].lease_generation = tasks[u].lease_generation
                             /\ u # t => tasks'[u] = tasks[u]
<1> DEFINE row == tasks[t]
           p == Release(row, "validating")
           r == [Progress(p) EXCEPT !.produced_sha = sha]
<1>1. tasks \in [Tasks -> TaskRow] BY DEF TaskInv, IInv, TasksOK
<1>2. p \in TaskRow /\ SameBesidesLease(p, row)
  BY <1>1, ReleaseFields DEF States, ActiveStates
<1>3. tasks' = [tasks EXCEPT ![t] = r] BY DEF Submit, Update
<1> HIDE DEF p
<1>4. r.produced_sha = sha /\ r.lease_generation = p.lease_generation
  BY <1>2 DEF Progress, TaskRow
<1> HIDE DEF r
<1>5. tasks'[t] = r /\ \A u \in Tasks : u # t => tasks'[u] = tasks[u] BY <1>1, <1>3
<1> QED BY <1>2, <1>4, <1>5 DEF SameBesidesLease

\* claim_exact changes no product; the task it changes is the one it asked for,
\* and is leased afterwards.
LEMMA ClaimGrants ==
  ASSUME PoolInv, NEW w \in Workers, NEW role \in Roles, NEW fenced \in BOOLEAN,
         NEW t \in Tasks, ClaimExact(w, role, fenced, t)
  PROVE  /\ \A u \in Tasks : /\ tasks'[u].produced_sha = tasks[u].produced_sha
                             /\ tasks'[u].lease_generation <= MaxGeneration
         /\ tasks' # tasks => tasks'[t].leased_by \in Workers
<1>1. TasksOK(tasks) /\ IInv /\ tasks \in [Tasks -> TaskRow]
  BY DEF PoolInv, TaskInv, IInv, TasksOK
<1>2. ClaimFrom(tasks, w, role, fenced, {t}) BY DEF ClaimExact
<1>3. CASE tasks' = tasks
  BY <1>3 DEF PoolInv
<1>4. ASSUME NEW ttl \in LeaseSeconds, t \in Candidates(tasks, w, role, fenced),
             tasks[t].lease_generation < MaxGeneration,
             tasks' = [tasks EXCEPT ![t] = Claimed(tasks[t], w, role, ttl)]
      PROVE  /\ \A u \in Tasks : /\ tasks'[u].produced_sha = tasks[u].produced_sha
                                 /\ tasks'[u].lease_generation <= MaxGeneration
             /\ tasks'[t].leased_by \in Workers
  <2> DEFINE r == Claimed(tasks[t], w, role, ttl)
  <2>1. tasks[t] \in TaskRow BY <1>1
  <2>2. /\ r.produced_sha = tasks[t].produced_sha
        /\ r.lease_generation = tasks[t].lease_generation + 1
        /\ r.leased_by = w
    BY <2>1 DEF Claimed, TaskRow
  <2> HIDE DEF r
  <2>3. tasks'[t] = r /\ \A u \in Tasks : u # t => tasks'[u] = tasks[u]
    BY <1>1, <1>4 DEF r
  <2>4. tasks[t].lease_generation \in Nat /\ MaxGeneration \in Nat
    BY <2>1, ConstantsAssumption DEF TaskRow
  <2>5. r.lease_generation <= MaxGeneration BY <1>4, <2>2, <2>4
  <2> QED BY <2>2, <2>3, <2>5 DEF PoolInv
<1> QED BY <1>2, <1>3, <1>4 DEF ClaimFrom

\* record_checkpoint: the new row is the latest, has an id of its own, and if it
\* confirms an artifact that artifact is stored.
LEMMA RecordStep ==
  ASSUME PoolInv, NEW t \in Tasks, NEW i, Granted(t, i), NEW stage \in CheckpointStages,
         NEW seq \in 1..2, NEW effect \in Shas \cup {None}, NEW st \in EffectStates,
         st = "confirmed" => Stored(t, effect), bucket' = bucket,
         RecordCheckpoint(t, i, [attempt |-> i, stage |-> stage], seq, effect, st)
  PROVE  /\ PoolInv' /\ Grew /\ Next
         /\ \A u \in Tasks : Idle(tasks[u], tasks'[u])
         /\ checkpoints' = [checkpoints EXCEPT ![t] = @ \cup
              {[id |-> [attempt |-> i, stage |-> stage], gen |-> i, seq |-> seq,
                effect |-> effect, effect_state |-> st]}]
<1> DEFINE id == [attempt |-> i, stage |-> stage]
           c == [id |-> id, gen |-> i, seq |-> seq, effect |-> effect, effect_state |-> st]
<1>1. /\ TaskInv /\ IInv /\ RowOK(tasks[t]) /\ EffectRow(t, tasks[t])
      /\ tasks \in [Tasks -> TaskRow] /\ checkpoints \in [Tasks -> SUBSET CheckpointRow]
  BY DEF PoolInv, TaskInv, GoodTask, IInv, TasksOK, TablesOK
<1>2. LeaseHeld(t, i, TRUE, ActiveStates) BY DEF RecordCheckpoint
<1>3. tasks[t].lease_generation = i /\ tasks[t].attempts[i].gen = i /\ i \in Nat
      /\ i \in 1..MaxGeneration
  <2>1. tasks[t].lease_generation = i BY <1>1, <1>2, CurrentLease
  <2>2. i \in 1..tasks[t].lease_generation /\ tasks[t].attempts[i].gen = i
        /\ tasks[t].lease_generation \in Nat
    BY <1>1, AttemptNumbers DEF Granted
  <2>3. tasks[t].lease_generation <= MaxGeneration /\ MaxGeneration \in Nat
    BY ConstantsAssumption DEF PoolInv
  <2> QED BY <2>1, <2>2, <2>3
<1>4. /\ checkpoints' = [checkpoints EXCEPT ![t] = @ \cup {c}]
      /\ tasks' = [tasks EXCEPT ![t] = Progress(tasks[t])]
      /\ \A d \in checkpoints[t] : d.id # id
      /\ \A d \in checkpoints[t] : d.gen = i => d.seq < seq
  BY <1>3 DEF RecordCheckpoint, IsNextSequence
<1>5. id \in CheckpointIds BY <1>3, ExecutorAssumption
<1>6. seq \in 1..MaxSequence /\ seq \in Nat
  BY ExecutorAssumption, ConstantsAssumption
<1>7. effect \in Effects \cup {None} BY ExecutorAssumption
<1>8. Next
  <2>1. i \in DOMAIN tasks[t].attempts BY DEF Granted
  <2>2. Checkpointing BY <1>5, <1>6, <1>7, <2>1 DEF Checkpointing
  <2> QED BY <2>2 DEF Next
<1>9. c.id = id /\ c.gen = i /\ c.seq = seq /\ c.effect = effect /\ c.effect_state = st
  OBVIOUS
<1> HIDE DEF c, id
<1>10. /\ checkpoints'[t] = checkpoints[t] \cup {c}
       /\ \A u \in Tasks : u # t => checkpoints'[u] = checkpoints[u]
  BY <1>1, <1>4
<1>11. Grew
  <2>1. \A u \in Tasks :
          /\ checkpoints[u] \subseteq checkpoints'[u]
          /\ \A d \in checkpoints'[u] \ checkpoints[u] : d.gen = tasks[u].lease_generation
    BY <1>3, <1>9, <1>10
  <2> QED BY <1>1, <1>8, <2>1, StepGrew
<1>12. ASSUME NEW u \in Tasks
       PROVE  Idle(tasks[u], tasks'[u])
  <2>1. Idle(tasks[t], Progress(tasks[t])) BY <1>1 DEF Idle, Progress, TaskRow
  <2> QED BY <1>1, <1>4, <2>1, IdleUpdate
<1>13. CheckpointsOK(t)'
  <2>1. CheckpointsOK(t) BY DEF PoolInv
  <2>2. \A d \in checkpoints'[t] : d.gen < c.gen \/ (d.gen = c.gen /\ d.seq <= c.seq)
    <3>1. \A d \in checkpoints[t] : d.gen \in Nat /\ d.seq \in Nat /\ d.gen <= i
      BY <1>1, <1>3 DEF EffectRow, CheckpointRow
    <3> QED BY <1>3, <1>4, <1>6, <1>9, <1>10, <3>1
  <2>3. \A d \in checkpoints'[t] : d.effect_state = "confirmed" => Stored(t, d.effect)'
    BY <1>9, <1>10, <1>11, <2>1, StoredKept DEF CheckpointsOK
  <2>4. \A d, e \in checkpoints'[t] : d.id = e.id => d = e
    BY <1>4, <1>9, <1>10, <2>1 DEF CheckpointsOK
  <2>5. c \in checkpoints'[t] BY <1>10
  <2> QED BY <2>2, <2>3, <2>4, <2>5 DEF CheckpointsOK
<1>14. \A u \in Tasks : CheckpointsOK(u)'
  BY <1>10, <1>11, <1>13, CheckpointsKept DEF PoolInv
<1>15. PoolInv'
  <2>1. \A u \in Tasks : /\ tasks'[u].lease_generation <= MaxGeneration
                         /\ tasks'[u].produced_sha = tasks[u].produced_sha
    BY <1>12 DEF Idle, PoolInv
  <2>2. \A a \in bucket' \ bucket : a \in Artifact /\ Origin(a.task, a.gen, a.sha)
    OBVIOUS
  <2> QED BY <1>8, <1>11, <1>14, <2>1, <2>2, PoolKept
<1> QED BY <1>4, <1>8, <1>11, <1>12, <1>15 DEF c, id


\* Whatever request is applied, and whenever, the pool and the bucket stay good
\* and only grow.
LEMMA ApplyStep ==
  ASSUME PoolInv, NEW r, RequestOK(r), Apply(r)
  PROVE  PoolInv' /\ Grew /\ [Next]_vars
<1> DEFINE t == r.task
<1>0. TaskInv /\ t \in Tasks /\ tasks[t] \in TaskRow
  BY DEF PoolInv, RequestOK, TaskInv, IInv, TasksOK
<1>1. CASE ApplyToBucket(r)
  <2> DEFINE a == [task |-> r.task, gen |-> r.gen, sha |-> r.sha]
  <2>1. r.op = "put" /\ bucket' = bucket \cup {a} /\ UNCHANGED vars
    BY <1>1 DEF ApplyToBucket
  <2>2. UNCHANGED <<tasks, checkpoints>> /\ [Next]_vars BY <2>1 DEF vars
  <2>3. a \in Artifact /\ Origin(a.task, a.gen, a.sha)
    BY <1>0, <2>1 DEF RequestOK, Artifact
  <2> HIDE DEF a
  <2>4. Grew BY <1>0, <2>1, <2>2, StepGrew
  <2>5. \A u \in Tasks : CheckpointsOK(u)'
    BY <2>2, <2>4, CheckpointsKept DEF PoolInv
  <2>6. \A u \in Tasks : /\ tasks'[u].lease_generation <= MaxGeneration
                         /\ tasks'[u].produced_sha = tasks[u].produced_sha
    BY <2>2 DEF PoolInv
  <2> QED BY <2>1, <2>2, <2>3, <2>4, <2>5, <2>6, PoolKept
<1>2. CASE r.op = "claim" /\ ApplyToPool(r)
  <2> DEFINE w == r.worker
             role == workers[r.worker].role
  <2>1. /\ w \in Workers /\ ClaimExact(w, role, Fenced(t), t) /\ bucket' = bucket
    BY <1>2 DEF RequestOK, ApplyToPool
  <2>2. /\ ClaimFrom(tasks, w, role, Fenced(t), {t}) /\ workers[w] # None
        /\ checkpoints' = checkpoints
    BY <2>1 DEF ClaimExact, ClaimFrom, Ready, Governed
  <2>3. role \in Roles
    BY <1>0, <2>1, <2>2 DEF TaskInv, IInv, TablesOK, WorkerRow
  <2>4. Fenced(t) \in BOOLEAN BY <1>0 DEF Fenced, TaskRow
  <2> HIDE DEF role
  <2>5. Next BY <1>0, <2>1, <2>3, <2>4 DEF Next, Claiming
  <2>6. \A u \in Tasks : /\ tasks'[u].produced_sha = tasks[u].produced_sha
                         /\ tasks'[u].lease_generation <= MaxGeneration
    BY <1>0, <2>1, <2>3, <2>4, ClaimGrants
  <2> QED BY <2>1, <2>2, <2>5, <2>6, QuietStep
<1>3. CASE r.op \in {"start", "complete", "fail", "block"} /\ ApplyToPool(r)
  <2> DEFINE i == r.attempt
  <2>1. Granted(t, i) /\ bucket' = bucket
    BY <1>3 DEF RequestOK, Mutations, ApplyToPool
  <2>2. \/ Start(t, i, Fenced(t)) \/ Complete(t, i, Fenced(t))
        \/ Fail(t, i, Fenced(t)) \/ Block(t, i, Fenced(t))
    BY <1>3 DEF ApplyToPool
  <2>3. Next /\ checkpoints' = checkpoints
    <3>1. i \in DOMAIN tasks[t].attempts BY <2>1 DEF Granted
    <3>2. Fenced(t) \in BOOLEAN BY <1>0 DEF Fenced, TaskRow
    <3>3. Commands BY <1>0, <2>2, <3>1, <3>2 DEF Commands
    <3> QED BY <2>2, <3>3 DEF Next, Start, Complete, Fail, Block, Update
  <2>4. \A u \in Tasks : Idle(tasks[u], tasks'[u])
    BY <1>0, <2>1, <2>2, StartIdle, CompleteIdle, FailIdle, BlockIdle
  <2> QED BY <2>1, <2>3, <2>4, IdleStep
<1>4. CASE r.op = "validation" /\ ApplyToPool(r)
  <2> DEFINE i == r.attempt
             sha == r.sha
  <2>1. /\ Granted(t, i) /\ sha \in Shas /\ (Fenced(t) => Confirmed(t, sha))
        /\ Submit(t, i, Fenced(t), sha) /\ bucket' = bucket
    BY <1>4 DEF RequestOK, Mutations, ApplyToPool
  <2>2. Next /\ checkpoints' = checkpoints
    <3>1. i \in DOMAIN tasks[t].attempts BY <2>1 DEF Granted
    <3>2. Fenced(t) \in BOOLEAN BY <1>0 DEF Fenced, TaskRow
    <3>3. Commands BY <1>0, <2>1, <3>1, <3>2 DEF Commands
    <3> QED BY <2>1, <3>3 DEF Next, Submit, Update
  <2>3. /\ tasks'[t].produced_sha = sha
        /\ \A u \in Tasks : /\ tasks'[u].lease_generation = tasks[u].lease_generation
                            /\ u # t => tasks'[u] = tasks[u]
    BY <1>0, <2>1, SubmitProduces
  <2>4. Grew BY <1>0, <2>1, <2>2, StepGrew
  <2>5. Fenced(t)' => Confirmed(t, tasks[t].produced_sha)'
    <3>1. Fenced(t)' = Fenced(t) BY <1>0, <2>1, <2>4, FencedKept
    <3> QED BY <2>1, <2>2, <2>3, <3>1 DEF Confirmed
  <2>6. \A u \in Tasks : CheckpointsOK(u)'
    BY <2>2, <2>4, CheckpointsKept DEF PoolInv
  <2>7. \A u \in Tasks : /\ tasks'[u].lease_generation <= MaxGeneration
                         /\ \/ tasks'[u].produced_sha = tasks[u].produced_sha
                            \/ Fenced(u)' => Confirmed(u, tasks[u].produced_sha)'
    BY <2>3, <2>5 DEF PoolInv
  <2>8. \A a \in bucket' \ bucket : a \in Artifact /\ Origin(a.task, a.gen, a.sha)
    BY <2>1
  <2> QED BY <2>2, <2>4, <2>6, <2>7, <2>8, PoolKept
<1>5. CASE r.op = "checkpoint" /\ ApplyToPool(r)
  <2>1. /\ Granted(t, r.attempt) /\ r.stage \in CheckpointStages /\ r.seq \in 1..2
        /\ r.effect \in Shas \cup {None} /\ r.effect_state \in EffectStates
        /\ r.effect_state = "confirmed" => Stored(t, r.effect)
        /\ RecordCheckpoint(t, r.attempt, [attempt |-> r.attempt, stage |-> r.stage],
                            r.seq, r.effect, r.effect_state)
        /\ bucket' = bucket
    BY <1>5 DEF RequestOK, ApplyToPool
  <2> QED BY <1>0, <2>1, RecordStep
<1> QED BY <1>1, <1>2, <1>3, <1>4, <1>5 DEF Apply, ApplyToPool


-----------------------------------------------------------------------------
(* Where a call leaves its run *)

\* A request that waits without an answer changes nothing.
LEMMA StillGrew ==
  ASSUME PoolInv, UNCHANGED <<vars, bucket>>
  PROVE  PoolInv' /\ Grew /\ [Next]_vars
<1>1. UNCHANGED <<tasks, checkpoints>> /\ [Next]_vars /\ bucket' = bucket BY DEF vars
<1>2. \A t \in Tasks : Idle(tasks[t], tasks'[t]) BY <1>1 DEF Idle
<1> QED BY <1>1, <1>2, IdleStep

\* The run of one worker is replaced by x, or ends.
LEMMA RunReplaced ==
  ASSUME RunsInv, Grew, NEW w \in Workers, NEW x, x = None \/ RunOK(x)',
         exec' = [exec EXCEPT ![w] = x],
         \A q \in late' : q \in late \/ RequestOK(q),
         \A q \in receipts' : q \in receipts \/ ReceiptOK(q)'
  PROVE  RunsInv'
<1>1. x \in Run \cup {None} BY DEF RunOK
<1>2. exec' \in [Workers -> Run \cup {None}] BY <1>1 DEF RunsInv
<1>3. ASSUME NEW v \in Workers, exec'[v] # None
      PROVE  RunOK(exec[v])'
  <2>1. CASE v = w
    <3>1. exec'[v] = x BY <2>1 DEF RunsInv
    <3> QED BY <1>3, <3>1 DEF RunOK, PointOK, ResultAccepted, Granted, Fenced, NoEarlier,
                              Origin, Stored, Confirmed
  <2>2. CASE v # w
    <3>1. PICK y : y = exec[v] OBVIOUS
    <3>2. exec'[v] = y BY <2>2, <3>1 DEF RunsInv
    <3>3. RunOK(y) BY <1>3, <3>1, <3>2 DEF RunsInv
    <3>4. RunOK(y)' BY <3>3, RunKept
    <3> QED BY <3>2, <3>4 DEF RunOK, PointOK, ResultAccepted, Granted, Fenced, NoEarlier,
                              Origin, Stored, Confirmed
  <2> QED BY <2>1, <2>2
<1>4. \A q \in late' : RequestOK(q)' BY RequestKept DEF RunsInv
<1>5. \A q \in receipts' : ReceiptOK(q)' BY ReceiptKept DEF RunsInv
<1> QED BY <1>2, <1>3, <1>4, <1>5 DEF RunsInv

\* The run goes on at pc, where it has what it relies on, or ends.
LEMMA GotoStep ==
  ASSUME RunsInv, Grew, NEW w \in Workers, exec[w] # None, NEW x, x = exec[w],
         NEW pc \in Points \cup {"exit"}, Goto(w, pc), pc # "exit" => PointOK(pc, x)',
         \A q \in late' : q \in late \/ RequestOK(q),
         \A q \in receipts' : q \in receipts \/ ReceiptOK(q)'
  PROVE  RunsInv'
<1>1. RunOK(x) BY DEF RunsInv
<1>2. CASE pc = "exit"
  <2>1. exec' = [exec EXCEPT ![w] = None] BY <1>2 DEF Goto
  <2> QED BY <2>1, RunReplaced
<1>3. CASE pc # "exit"
  <2>1. PICK y : y = [x EXCEPT !.pc = pc] OBVIOUS
  <2>2. x \in Run /\ pc \in Points BY <1>1, <1>3 DEF RunOK
  <2>3. /\ y \in Run /\ y.pc = pc /\ y.task = x.task /\ y.role = x.role
        /\ y.attempt = x.attempt /\ y.latest = x.latest /\ y.sha = x.sha
    BY <2>1, <2>2 DEF Run
  <2>4. exec' = [exec EXCEPT ![w] = y] BY <1>3, <2>1 DEF Goto
  <2>5. Granted(x.task, x.attempt)' BY <1>1, FencedKept DEF RunOK, Run
  <2>6. PointOK(pc, y)' BY <1>3, <2>3 DEF PointOK, ResultAccepted
  <2>7. RunOK(y)' BY <2>3, <2>5, <2>6 DEF RunOK
  <2> QED BY <2>4, <2>7, RunReplaced
<1> QED BY <1>2, <1>3

\* A call: what it sends is good, and so is the point it goes on at.
LEMMA SendStep ==
  ASSUME ExecInv, NEW w \in Workers, exec[w] # None, NEW x, x = exec[w],
         NEW r, RequestOK(r), NEW ok \in Points \cup {"exit"}, NEW err \in Points \cup {"exit"},
         Send(w, r, ok, err),
         Apply(r) /\ Grew /\ ok # "exit" => PointOK(ok, x)',
         Grew /\ err # "exit" => PointOK(err, x)'
  PROVE  ExecInv' /\ [Next]_vars
<1>1. PoolInv /\ RunsInv /\ receipts' = receipts BY DEF ExecInv, Send
<1>2. CASE Apply(r) /\ UNCHANGED late /\ Goto(w, ok)
  <2>1. PoolInv' /\ Grew /\ [Next]_vars BY <1>1, <1>2, ApplyStep
  <2>2. RunsInv' BY <1>1, <1>2, <2>1, GotoStep
  <2> QED BY <2>1, <2>2 DEF ExecInv
<1>3. CASE Unanswered(r) /\ Goto(w, err)
  <2>1. UNCHANGED <<vars, bucket>> /\ \A q \in late' : q \in late \/ q = r
    BY <1>3 DEF Unanswered
  <2>2. PoolInv' /\ Grew /\ [Next]_vars BY <1>1, <2>1, StillGrew
  <2>3. \A q \in late' : q \in late \/ RequestOK(q) BY <2>1
  <2>4. RunsInv' BY <1>1, <1>3, <2>2, <2>3, GotoStep
  <2> QED BY <2>2, <2>4 DEF ExecInv
<1> QED BY <1>2, <1>3 DEF Send

\* A step of the run alone, to x.
LEMMA LocalStep ==
  ASSUME ExecInv, NEW w \in Workers, NEW x, exec' = [exec EXCEPT ![w] = x],
         x = None \/ RunOK(x), UNCHANGED <<vars, receipts, bucket, late>>
  PROVE  ExecInv' /\ [Next]_vars
<1>1. PoolInv /\ RunsInv BY DEF ExecInv
<1>2. UNCHANGED <<vars, bucket>> BY DEF vars
<1>3. PoolInv' /\ Grew /\ [Next]_vars BY <1>1, <1>2, StillGrew
<1>4. x = None \/ RunOK(x)' BY <1>3, RunKept
<1>5. RunsInv' BY <1>1, <1>3, <1>4, RunReplaced
<1> QED BY <1>3, <1>5 DEF ExecInv

LEMMA LocallyStep ==
  ASSUME ExecInv, NEW w \in Workers, exec[w] # None, NEW pc \in Points, Locally(w, pc),
         PointOK(pc, exec[w])
  PROVE  ExecInv' /\ [Next]_vars
<1>1. PoolInv /\ RunsInv BY DEF ExecInv
<1>2. UNCHANGED <<vars, bucket>> /\ late' = late /\ receipts' = receipts
  BY DEF Locally, vars
<1>3. PoolInv' /\ Grew /\ [Next]_vars BY <1>1, <1>2, StillGrew
<1>4. PICK x : x = exec[w] OBVIOUS
<1>5. x \in Run /\ Granted(x.task, x.attempt) BY <1>1, <1>4 DEF RunsInv, RunOK
<1>6. PointOK(pc, x)' BY <1>3, <1>4, <1>5, PointKept
<1>7. RunsInv' BY <1>1, <1>2, <1>3, <1>4, <1>6, GotoStep DEF Locally
<1> QED BY <1>3, <1>7 DEF ExecInv

-----------------------------------------------------------------------------
(* The calls of a run *)

LEMMA AtFacts ==
  ASSUME ExecInv, NEW w \in Workers, NEW pc, At(w, pc)
  PROVE  /\ exec[w] # None /\ exec[w] \in Run /\ exec[w].pc = pc /\ exec[w].task \in Tasks
         /\ Granted(exec[w].task, exec[w].attempt) /\ PointOK(pc, exec[w])
         /\ tasks[exec[w].task].attempts[exec[w].attempt].gen = exec[w].attempt
         /\ exec[w].attempt \in Nat
<1>1. RunOK(exec[w]) /\ exec[w] # None /\ exec[w].pc = pc BY DEF ExecInv, RunsInv, At
<1>2. exec[w] \in Run /\ exec[w].task \in Tasks /\ Granted(exec[w].task, exec[w].attempt)
      /\ exec[w].attempt \in Nat
  BY <1>1 DEF RunOK, Run
<1>3. RowOK(tasks[exec[w].task]) BY <1>2 DEF ExecInv, PoolInv, TaskInv, IInv, TasksOK
<1> QED BY <1>1, <1>2, <1>3, AttemptNumbers DEF RunOK, Granted

\* An exception needs nothing, and neither do the first steps of a run.
LEMMA NothingNeeded ==
  ASSUME NEW r, NEW pc \in {"recover", "unsafe", "fail", "validate"}
  PROVE  PointOK(pc, r) /\ PointOK(pc, r)'
  BY DEF PointOK, BuilderPoints

LEMMA MutationOK ==
  ASSUME NEW w, exec[w].task \in Tasks, Granted(exec[w].task, exec[w].attempt),
         NEW op \in {"start", "complete", "fail", "block"}, NEW sha
  PROVE  RequestOK(Mutation(w, op, sha))
  BY DEF RequestOK, Mutation, Mutations

LEMMA CheckpointOK ==
  ASSUME NEW w, exec[w].task \in Tasks, Granted(exec[w].task, exec[w].attempt),
         NEW stage \in CheckpointStages, NEW seq \in 1..2, NEW effect \in Shas \cup {None},
         NEW st \in EffectStates, st = "confirmed" => Stored(exec[w].task, effect)
  PROVE  RequestOK(Checkpoint(w, stage, seq, effect, st))
  BY DEF RequestOK, Checkpoint, Mutations

\* block_task and fail_task end the run, answered or not.
LEMMA GiveUpStep ==
  ASSUME ExecInv, NEW w \in Workers, BlockUnsafe(w) \/ FailTask(w) \/ BlockAmbiguous(w)
  PROVE  ExecInv' /\ [Next]_vars
<1>1. PICK pc \in {"unsafe", "fail", "giveup"}, op \in {"fail", "block"} :
        At(w, pc) /\ Send(w, Mutation(w, op, None), "exit", "exit")
  BY DEF BlockUnsafe, FailTask, BlockAmbiguous
<1>2. exec[w] # None /\ exec[w].task \in Tasks /\ Granted(exec[w].task, exec[w].attempt)
  BY <1>1, AtFacts
<1>3. RequestOK(Mutation(w, op, None)) BY <1>2, MutationOK
<1>4. PICK x : x = exec[w] OBVIOUS
<1> QED BY <1>1, <1>2, <1>3, <1>4, SendStep

LEMMA StartTaskStep ==
  ASSUME ExecInv, NEW w \in Workers, StartTask(w)
  PROVE  ExecInv' /\ [Next]_vars
<1>1. At(w, "start") /\ Send(w, Mutation(w, "start", None), "build", "fail")
  BY DEF StartTask
<1>2. PICK x : x = exec[w] OBVIOUS
<1>3. /\ x # None /\ x \in Run /\ x.task \in Tasks /\ Granted(x.task, x.attempt)
      /\ PointOK("start", x)
  BY <1>1, <1>2, AtFacts
<1>4. RequestOK(Mutation(w, "start", None)) BY <1>2, <1>3, MutationOK
<1>5. PointOK("build", x) BY <1>3 DEF PointOK, BuilderPoints
<1>6. Grew => PointOK("build", x)' BY <1>3, <1>5, PointKept
<1>7. PointOK("fail", x)' BY NothingNeeded
<1>8. "build" \in Points \cup {"exit"} /\ "fail" \in Points \cup {"exit"}
  BY DEF Points, BuilderPoints
<1> QED BY <1>1, <1>2, <1>3, <1>4, <1>6, <1>7, <1>8, SendStep

\* The effect is declared: its origin is in the pool before anything is published.
LEMMA DeclareEffectStep ==
  ASSUME ExecInv, NEW w \in Workers, DeclareEffect(w)
  PROVE  ExecInv' /\ [Next]_vars
<1> DEFINE r == Checkpoint(w, "artifact-pending", 1, exec[w].sha, "pending")
<1>1. At(w, "declare") /\ Send(w, r, "publish", "fail") BY DEF DeclareEffect
<1>2. PICK x : x = exec[w] OBVIOUS
<1>3. /\ x # None /\ x \in Run /\ x.task \in Tasks /\ Granted(x.task, x.attempt)
      /\ PointOK("declare", x)
  BY <1>1, <1>2, AtFacts
<1>4. /\ x.role = "builder" /\ x.sha \in Shas /\ Fenced(x.task) /\ x.latest = None
      /\ NoEarlier(x.task, x.attempt)
  BY <1>3 DEF PointOK, BuilderPoints
<1>5. RequestOK(r)
  <2>1. "artifact-pending" \in CheckpointStages /\ "pending" \in EffectStates /\ 1 \in 1..2
    BY DEF CheckpointStages, EffectStates
  <2> QED BY <1>2, <1>3, <1>4, <2>1, CheckpointOK
<1>6. ASSUME Apply(r), Grew
      PROVE  PointOK("publish", x)'
  <2> DEFINE id == [attempt |-> x.attempt, stage |-> "artifact-pending"]
             c == [id |-> id, gen |-> x.attempt, seq |-> 1, effect |-> x.sha,
                   effect_state |-> "pending"]
  <2>1. /\ r.op = "checkpoint" /\ r.task = x.task /\ r.attempt = x.attempt
        /\ r.stage = "artifact-pending" /\ r.seq = 1 /\ r.effect = x.sha
        /\ r.effect_state = "pending"
    BY <1>2 DEF Checkpoint
  <2> HIDE DEF r
  <2>2. /\ RecordCheckpoint(x.task, x.attempt, id, 1, x.sha, "pending") /\ bucket' = bucket
    BY <1>6, <2>1 DEF Apply, ApplyToPool, ApplyToBucket
  <2>3. /\ PoolInv /\ 1 \in 1..2 /\ x.sha \in Shas \cup {None}
        /\ "artifact-pending" \in CheckpointStages /\ "pending" \in EffectStates
    BY <1>4 DEF CheckpointStages, EffectStates, ExecInv
  <2>4. checkpoints' = [checkpoints EXCEPT ![x.task] = @ \cup {c}]
    BY <1>3, <2>2, <2>3, RecordStep
  <2>5. checkpoints \in [Tasks -> SUBSET CheckpointRow]
    BY <2>3 DEF PoolInv, TaskInv, IInv, TablesOK
  <2>6. c \in checkpoints'[x.task] /\ c.id = id /\ c.gen = x.attempt /\ c.effect = x.sha
    BY <1>3, <2>4, <2>5
  <2>7. NoEarlier(x.task, x.attempt)' BY <1>3, <1>4, <1>6, NoEarlierKept
  <2> HIDE DEF c
  <2>8. Origin(x.task, x.attempt, x.sha)' BY <2>6, <2>7 DEF Origin
  <2> QED BY <1>4, <2>8 DEF PointOK, BuilderPoints
<1>7. PointOK("fail", x)' BY NothingNeeded
<1>8. "publish" \in Points \cup {"exit"} /\ "fail" \in Points \cup {"exit"}
  BY DEF Points, BuilderPoints
<1> HIDE DEF r
<1> QED BY <1>1, <1>2, <1>3, <1>5, <1>6, <1>7, <1>8, SendStep

LEMMA PublishStep ==
  ASSUME ExecInv, NEW w \in Workers, Publish(w)
  PROVE  ExecInv' /\ [Next]_vars
<1> DEFINE r == PutRequest(w)
<1>1. At(w, "publish") /\ Send(w, r, "verify", "ambiguous") BY DEF Publish
<1>2. PICK x : x = exec[w] OBVIOUS
<1>3. /\ x # None /\ x \in Run /\ x.task \in Tasks /\ Granted(x.task, x.attempt)
      /\ PointOK("publish", x) /\ x.attempt \in Nat
      /\ tasks[x.task].attempts[x.attempt].gen = x.attempt
  BY <1>1, <1>2, AtFacts
<1>4. x.role = "builder" /\ x.sha \in Shas /\ Origin(x.task, x.attempt, x.sha)
  BY <1>3 DEF PointOK, BuilderPoints
<1>5. RequestOK(r)
  BY <1>2, <1>3, <1>4 DEF RequestOK, PutRequest, Mutations
<1>6. PointOK("verify", x) /\ PointOK("ambiguous", x)
  BY <1>4 DEF PointOK, BuilderPoints
<1>7. Grew => PointOK("verify", x)' /\ PointOK("ambiguous", x)' BY <1>3, <1>6, PointKept
<1>8. "verify" \in Points \cup {"exit"} /\ "ambiguous" \in Points \cup {"exit"}
  BY DEF Points, BuilderPoints
<1> HIDE DEF r
<1> QED BY <1>1, <1>2, <1>3, <1>5, <1>7, <1>8, SendStep

LEMMA DeclareUnknownStep ==
  ASSUME ExecInv, NEW w \in Workers, DeclareUnknown(w)
  PROVE  ExecInv' /\ [Next]_vars
<1> DEFINE r == Checkpoint(w, "artifact-unknown", 2, exec[w].sha, "unknown")
<1>1. At(w, "ambiguous") /\ Send(w, r, "giveup", "giveup") BY DEF DeclareUnknown
<1>2. PICK x : x = exec[w] OBVIOUS
<1>3. /\ x # None /\ x \in Run /\ x.task \in Tasks /\ Granted(x.task, x.attempt)
      /\ PointOK("ambiguous", x)
  BY <1>1, <1>2, AtFacts
<1>4. x.role = "builder" /\ x.sha \in Shas BY <1>3 DEF PointOK, BuilderPoints
<1>5. RequestOK(r)
  <2>1. "artifact-unknown" \in CheckpointStages /\ "unknown" \in EffectStates /\ 2 \in 1..2
    BY DEF CheckpointStages, EffectStates
  <2> QED BY <1>2, <1>3, <1>4, <2>1, CheckpointOK
<1>6. PointOK("giveup", x)' BY <1>4 DEF PointOK, BuilderPoints
<1>7. "giveup" \in Points \cup {"exit"} BY DEF Points, BuilderPoints
<1> HIDE DEF r
<1> QED BY <1>1, <1>2, <1>3, <1>5, <1>6, <1>7, SendStep


\* The confirmation is accepted: the product that is submitted next is confirmed.
LEMMA ConfirmEffectStep ==
  ASSUME ExecInv, NEW w \in Workers, ConfirmEffect(w)
  PROVE  ExecInv' /\ [Next]_vars
<1>0. PICK n \in 1..2 : n = IF exec[w].latest = None THEN 2 ELSE 1 OBVIOUS
<1> DEFINE r == Checkpoint(w, "result", n, exec[w].sha, "confirmed")
<1>1. At(w, "confirm") /\ Send(w, r, "submit", "fail") BY <1>0 DEF ConfirmEffect
<1>2. PICK x : x = exec[w] OBVIOUS
<1>3. /\ x # None /\ x \in Run /\ x.task \in Tasks /\ Granted(x.task, x.attempt)
      /\ PointOK("confirm", x)
  BY <1>1, <1>2, AtFacts
<1>4. x.role = "builder" /\ x.sha \in Shas /\ Stored(x.task, x.sha)
  BY <1>3 DEF PointOK, BuilderPoints
<1>5. RequestOK(r)
  <2>1. "result" \in CheckpointStages /\ "confirmed" \in EffectStates
    BY DEF CheckpointStages, EffectStates
  <2> QED BY <1>2, <1>3, <1>4, <2>1, CheckpointOK
<1>6. ASSUME Apply(r), Grew
      PROVE  PointOK("submit", x)'
  <2> DEFINE id == [attempt |-> x.attempt, stage |-> "result"]
             c == [id |-> id, gen |-> x.attempt, seq |-> n, effect |-> x.sha,
                   effect_state |-> "confirmed"]
  <2>1. /\ r.op = "checkpoint" /\ r.task = x.task /\ r.attempt = x.attempt
        /\ r.stage = "result" /\ r.seq = n /\ r.effect = x.sha
        /\ r.effect_state = "confirmed"
    BY <1>2 DEF Checkpoint
  <2> HIDE DEF r
  <2>2. /\ RecordCheckpoint(x.task, x.attempt, id, n, x.sha, "confirmed") /\ bucket' = bucket
    BY <1>6, <2>1 DEF Apply, ApplyToPool, ApplyToBucket
  <2>3. /\ PoolInv /\ x.sha \in Shas \cup {None}
        /\ "result" \in CheckpointStages /\ "confirmed" \in EffectStates
    BY <1>4 DEF CheckpointStages, EffectStates, ExecInv
  <2>4. checkpoints' = [checkpoints EXCEPT ![x.task] = @ \cup {c}]
    BY <1>3, <1>4, <2>2, <2>3, RecordStep
  <2>5. checkpoints \in [Tasks -> SUBSET CheckpointRow]
    BY <2>3 DEF PoolInv, TaskInv, IInv, TablesOK
  <2>6. c \in checkpoints'[x.task] /\ c.effect = x.sha /\ c.effect_state = "confirmed"
    BY <1>3, <2>4, <2>5
  <2> HIDE DEF c
  <2>7. Confirmed(x.task, x.sha)' BY <2>6 DEF Confirmed
  <2> QED BY <1>4, <2>7 DEF PointOK, BuilderPoints
<1>7. PointOK("fail", x)' BY NothingNeeded
<1>8. "submit" \in Points \cup {"exit"} /\ "fail" \in Points \cup {"exit"}
  BY DEF Points, BuilderPoints
<1> HIDE DEF r
<1> QED BY <1>1, <1>2, <1>3, <1>5, <1>6, <1>7, <1>8, SendStep

LEMMA SubmitProductStep ==
  ASSUME ExecInv, NEW w \in Workers, SubmitProduct(w)
  PROVE  ExecInv' /\ [Next]_vars
<1> DEFINE r == Mutation(w, "validation", exec[w].sha)
<1>1. At(w, "submit") /\ Send(w, r, "receipt", "fail") BY DEF SubmitProduct
<1>2. PICK x : x = exec[w] OBVIOUS
<1>3. /\ x # None /\ x \in Run /\ x.task \in Tasks /\ Granted(x.task, x.attempt)
      /\ PointOK("submit", x)
  BY <1>1, <1>2, AtFacts
<1>4. /\ x.role = "builder" /\ x.sha \in Shas /\ x.sha # None
      /\ Fenced(x.task) => Confirmed(x.task, x.sha)
  BY <1>3, NoneAssumption DEF PointOK, BuilderPoints
<1>5. RequestOK(r)
  BY <1>2, <1>3, <1>4 DEF RequestOK, Mutation, Mutations
<1>6. ASSUME Apply(r), Grew
      PROVE  PointOK("receipt", x)'
  <2>1. r.op = "validation" /\ r.task = x.task /\ r.attempt = x.attempt /\ r.sha = x.sha
    BY <1>2 DEF Mutation
  <2> HIDE DEF r
  <2>2. Submit(x.task, x.attempt, Fenced(x.task), x.sha)
    BY <1>6, <2>1 DEF Apply, ApplyToPool, ApplyToBucket
  <2>3. tasks'[x.task].produced_sha = x.sha
    BY <1>3, <1>4, <2>2, SubmitProduces DEF ExecInv, PoolInv
  <2> QED BY <1>4, <2>3 DEF PointOK, BuilderPoints, ResultAccepted
<1>7. PointOK("fail", x)' BY NothingNeeded
<1>8. "receipt" \in Points \cup {"exit"} /\ "fail" \in Points \cup {"exit"}
  BY DEF Points, BuilderPoints
<1> HIDE DEF r
<1> QED BY <1>1, <1>2, <1>3, <1>5, <1>6, <1>7, <1>8, SendStep

LEMMA RecordValidationStep ==
  ASSUME ExecInv, NEW w \in Workers, RecordValidation(w)
  PROVE  ExecInv' /\ [Next]_vars
<1> DEFINE r == Checkpoint(w, "result", 1, None, "none")
<1>1. At(w, "record") /\ Send(w, r, "complete", "fail") BY DEF RecordValidation
<1>2. PICK x : x = exec[w] OBVIOUS
<1>3. /\ x # None /\ x \in Run /\ x.task \in Tasks /\ Granted(x.task, x.attempt)
      /\ PointOK("record", x)
  BY <1>1, <1>2, AtFacts
<1>4. PointOK("complete", x) BY <1>3 DEF PointOK, BuilderPoints
<1>5. RequestOK(r)
  <2>1. "result" \in CheckpointStages /\ "none" \in EffectStates /\ 1 \in 1..2
    BY DEF CheckpointStages, EffectStates
  <2> QED BY <1>2, <1>3, <2>1, CheckpointOK
<1>6. Grew => PointOK("complete", x)' BY <1>3, <1>4, PointKept
<1>7. PointOK("fail", x)' BY NothingNeeded
<1>8. "complete" \in Points \cup {"exit"} /\ "fail" \in Points \cup {"exit"}
  BY DEF Points, BuilderPoints
<1> HIDE DEF r
<1> QED BY <1>1, <1>2, <1>3, <1>5, <1>6, <1>7, <1>8, SendStep

LEMMA CompleteTaskStep ==
  ASSUME ExecInv, NEW w \in Workers, CompleteTask(w)
  PROVE  ExecInv' /\ [Next]_vars
<1> DEFINE r == Mutation(w, "complete", None)
<1>1. At(w, "complete") /\ Send(w, r, "receipt", "fail") BY DEF CompleteTask
<1>2. PICK x : x = exec[w] OBVIOUS
<1>3. /\ x # None /\ x \in Run /\ x.task \in Tasks /\ Granted(x.task, x.attempt)
      /\ PointOK("complete", x)
  BY <1>1, <1>2, AtFacts
<1>4. tasks[x.task].produced_sha = x.sha /\ x.sha # None
  BY <1>3 DEF PointOK
<1>5. RequestOK(r) BY <1>2, <1>3, MutationOK
<1>6. ASSUME Apply(r), Grew
      PROVE  PointOK("receipt", x)'
  <2>1. r.op = "complete" /\ r.task = x.task /\ r.attempt = x.attempt
    BY <1>2 DEF Mutation
  <2> HIDE DEF r
  <2>2. Complete(x.task, x.attempt, Fenced(x.task))
    BY <1>6, <2>1 DEF Apply, ApplyToPool, ApplyToBucket
  <2>3. /\ tasks'[x.task].produced_sha = tasks[x.task].produced_sha
        /\ tasks'[x.task].state = "completed"
        /\ tasks'[x.task].lease_generation = x.attempt
    BY <1>3, <2>2, CompleteIdle DEF ExecInv, PoolInv, Idle
  <2> QED BY <1>4, <2>3 DEF PointOK, BuilderPoints, ResultAccepted
<1>7. PointOK("fail", x)' BY NothingNeeded
<1>8. "receipt" \in Points \cup {"exit"} /\ "fail" \in Points \cup {"exit"}
  BY DEF Points, BuilderPoints
<1> HIDE DEF r
<1> QED BY <1>1, <1>2, <1>3, <1>5, <1>6, <1>7, <1>8, SendStep


-----------------------------------------------------------------------------
(* The steps of a run that send nothing, its claim and its receipt *)

\* The claim was answered: the attempt of the run is the one it was granted.
LEMMA BeginStep ==
  ASSUME ExecInv, NEW w \in Workers, NEW t \in Tasks, Begin(w, t)
  PROVE  ExecInv' /\ [Next]_vars
<1> DEFINE q == ClaimRequest(w, t)
           role == workers[w].role
<1>1. PoolInv /\ RunsInv /\ receipts' = receipts /\ workers[w] # None BY DEF ExecInv, Begin
<1>2. q.op = "claim" /\ q.task = t /\ q.worker = w BY DEF ClaimRequest
<1> HIDE DEF q
<1>3. RequestOK(q) BY <1>2 DEF RequestOK, Mutations
<1>4. CASE /\ ApplyToPool(q)
           /\ exec' = [exec EXCEPT ![w] =
                [pc |-> "recover", task |-> t, role |-> role,
                 attempt |-> tasks'[t].attempt_id, latest |-> None, sha |-> None]]
           /\ UNCHANGED late
  <2>1. PoolInv' /\ Grew /\ [Next]_vars BY <1>1, <1>3, <1>4, ApplyStep DEF Apply
  <2>2. role \in Roles
    BY <1>1 DEF PoolInv, TaskInv, IInv, TablesOK, WorkerRow
  <2>3. ClaimExact(w, role, Fenced(t), t) /\ tasks' # tasks
    BY <1>2, <1>4 DEF ApplyToPool
  <2>4. Fenced(t) \in BOOLEAN
    BY <1>1 DEF PoolInv, TaskInv, IInv, TasksOK, Fenced, TaskRow
  <2>5. tasks'[t].leased_by \in Workers BY <1>1, <2>2, <2>3, <2>4, ClaimGrants
  <2>6. PICK i : i = tasks'[t].attempt_id OBVIOUS
  <2>7. i \in Nat /\ i \in DOMAIN tasks'[t].attempts
    <3>1. RowOK(tasks'[t])
      BY <2>1 DEF PoolInv, TaskInv, IInv, TasksOK, RowOK, LedgerRow, LeaseColumns,
                  AttemptHistory, IndependentRow, QuarantineRow, Leased, Active
    <3>2. Leased(tasks'[t]) BY <2>5, NoneAssumption DEF Leased
    <3>3. tasks'[t].attempt_id = tasks'[t].lease_generation /\ tasks'[t].lease_generation \in Nat
      BY <3>1, <3>2 DEF RowOK, LedgerRow, AttemptHistory, TaskRow
    <3>4. tasks'[t].attempt_id # None
      BY <3>1, <3>2 DEF RowOK, LedgerRow, LeaseColumns
    <3>5. DOMAIN tasks'[t].attempts = 1..tasks'[t].lease_generation BY <3>1, AttemptNumbers
    <3>6. tasks'[t].lease_generation > 0
      BY <2>1, <3>2 DEF PoolInv, TaskInv, GoodTask, StageRow, Leased
    <3> QED BY <2>6, <3>3, <3>5, <3>6
  <2>8. PICK x : x = [pc |-> "recover", task |-> t, role |-> role,
                      attempt |-> i, latest |-> None, sha |-> None]
    OBVIOUS
  <2>9. exec' = [exec EXCEPT ![w] = x] BY <1>4, <2>6, <2>8
  <2> HIDE DEF role
  <2>10. RunOK(x)'
    <3>1. x \in Run BY <2>2, <2>7, <2>8 DEF Run, Points
    <3>2. Granted(x.task, x.attempt)' BY <2>7, <2>8 DEF Granted
    <3>3. PointOK(x.pc, x)' BY <2>8, NothingNeeded
    <3> QED BY <3>1, <3>2, <3>3 DEF RunOK
  <2>11. RunsInv' BY <1>1, <1>4, <2>1, <2>9, <2>10, RunReplaced
  <2> QED BY <2>1, <2>11 DEF ExecInv
<1>5. CASE Unanswered(q) /\ UNCHANGED <<exec, locks>>
  <2>1. UNCHANGED <<vars, bucket>> /\ \A p \in late' : p \in late \/ p = q
    BY <1>5 DEF Unanswered
  <2>2. PoolInv' /\ Grew /\ [Next]_vars BY <1>1, <2>1, StillGrew
  <2>3. \A p \in late' : p \in late \/ RequestOK(p) BY <1>3, <2>1
  <2>4. PICK x : x = exec[w] OBVIOUS
  <2>5. exec' = [exec EXCEPT ![w] = x] /\ (x = None \/ RunOK(x)')
    BY <1>1, <1>5, <2>2, <2>4, RunKept DEF RunsInv
  <2>6. RunsInv' BY <1>1, <2>2, <2>3, <2>5, RunReplaced
  <2> QED BY <2>2, <2>6 DEF ExecInv
<1> QED BY <1>4, <1>5 DEF Begin, q, role

\* The recovery context has no latest checkpoint only when there is none at all.
LEMMA LatestFacts ==
  ASSUME PoolInv, NEW t \in Tasks
  PROVE  /\ LatestCheckpoint(t) \in CheckpointRow \cup {None}
         /\ LatestCheckpoint(t) = None => checkpoints[t] = {}
<1>1. checkpoints[t] \subseteq CheckpointRow /\ CheckpointsOK(t)
  BY DEF PoolInv, TaskInv, IInv, TablesOK
<1>2. CASE checkpoints[t] = {}
  BY <1>2 DEF LatestCheckpoint
<1>3. CASE checkpoints[t] # {}
  <2>1. \E c \in checkpoints[t] : \A d \in checkpoints[t] :
          d.gen < c.gen \/ (d.gen = c.gen /\ d.seq <= c.seq)
    BY <1>1, <1>3 DEF CheckpointsOK
  <2>2. LatestCheckpoint(t) \in checkpoints[t] BY <1>3, <2>1 DEF LatestCheckpoint
  <2> QED BY <1>1, <2>2, ExecutorAssumption
<1> QED BY <1>2, <1>3

\* A builder that finds no checkpoint is of the first generation that makes one.
LEMMA RecoverStep ==
  ASSUME ExecInv, NEW w \in Workers, Recover(w)
  PROVE  ExecInv' /\ [Next]_vars
<1> DEFINE t == exec[w].task
           gen == tasks[t].attempts[exec[w].attempt].gen
           latest == IF Fenced(t) THEN LatestCheckpoint(t) ELSE None
           next == IF Fenced(t) /\ ~SafeToResume(t, gen, latest) THEN "unsafe"
                   ELSE IF exec[w].role = "builder" THEN "start" ELSE "validate"
<1>1. /\ At(w, "recover") /\ exec' = [exec EXCEPT ![w].pc = next, ![w].latest = latest]
      /\ UNCHANGED <<vars, locks, receipts, bucket, late>>
  BY DEF Recover
<1>2. /\ exec[w] # None /\ exec[w] \in Run /\ t \in Tasks
      /\ Granted(t, exec[w].attempt)
  BY <1>1, AtFacts
<1>3. /\ next \in {"unsafe", "start", "validate"}
      /\ next = "start" => exec[w].role = "builder"
  OBVIOUS
<1>4. latest \in CheckpointRow \cup {None} /\ (Fenced(t) /\ latest = None => checkpoints[t] = {})
  BY <1>2, LatestFacts DEF ExecInv
<1> HIDE DEF next, latest, gen
<1>5. PICK x : x = [exec[w] EXCEPT !.pc = next, !.latest = latest] OBVIOUS
<1>6. exec' = [exec EXCEPT ![w] = x] BY <1>1, <1>5 DEF ExecInv, RunsInv
<1>7. /\ x \in Run /\ x.pc = next /\ x.task = t /\ x.role = exec[w].role
      /\ x.attempt = exec[w].attempt /\ x.latest = latest
  BY <1>2, <1>3, <1>4, <1>5 DEF Run, Points, BuilderPoints
<1>8. PointOK(next, x)
  <2>1. CASE next = "start"
    BY <1>3, <1>4, <1>7, <2>1 DEF PointOK, NoEarlier, BuilderPoints
  <2>2. CASE next \in {"unsafe", "validate"}
    BY <2>2, NothingNeeded
  <2> QED BY <1>3, <2>1, <2>2
<1>9. RunOK(x) BY <1>2, <1>7, <1>8 DEF RunOK
<1> QED BY <1>1, <1>6, <1>9, LocalStep DEF vars

LEMMA BuildAnewStep ==
  ASSUME ExecInv, NEW w \in Workers, BuildAnew(w)
  PROVE  ExecInv' /\ [Next]_vars
<1>1. /\ exec[w] # None /\ exec[w] \in Run /\ exec[w].task \in Tasks
      /\ Granted(exec[w].task, exec[w].attempt) /\ PointOK("build", exec[w])
      /\ exec[w].latest = None
  BY AtFacts DEF BuildAnew
<1>2. CASE Locally(w, "fail")
  BY <1>1, <1>2, NothingNeeded, LocallyStep DEF Points
<1>3. ASSUME NEW sha \in Shas,
             exec' = [exec EXCEPT ![w].sha = sha,
                        ![w].pc = IF Fenced(exec[w].task) THEN "declare" ELSE "submit"],
             UNCHANGED <<vars, locks, receipts, bucket, late>>
      PROVE  ExecInv' /\ [Next]_vars
  <2> DEFINE pc == IF Fenced(exec[w].task) THEN "declare" ELSE "submit"
  <2>1. /\ pc \in {"declare", "submit"}
        /\ pc = "declare" => Fenced(exec[w].task)
        /\ pc = "submit" => ~Fenced(exec[w].task)
    OBVIOUS
  <2>2. PICK x : x = [exec[w] EXCEPT !.sha = sha, !.pc = pc] OBVIOUS
  <2>3. exec' = [exec EXCEPT ![w] = x] BY <1>3, <2>2 DEF ExecInv, RunsInv
  <2> HIDE DEF pc
  <2>4. /\ x \in Run /\ x.pc = pc /\ x.task = exec[w].task /\ x.role = exec[w].role
        /\ x.attempt = exec[w].attempt /\ x.latest = None /\ x.sha = sha
    BY <1>1, <2>1, <2>2 DEF Run, Points, BuilderPoints
  <2>5. PointOK(pc, x)
    BY <1>1, <2>1, <2>4 DEF PointOK, BuilderPoints
  <2>6. RunOK(x) BY <1>1, <2>4, <2>5 DEF RunOK
  <2> QED BY <1>3, <2>3, <2>6, LocalStep DEF vars
<1> QED BY <1>2, <1>3 DEF BuildAnew

LEMMA MaterializeStep ==
  ASSUME ExecInv, NEW w \in Workers, Materialize(w)
  PROVE  ExecInv' /\ [Next]_vars
<1>1. /\ exec[w] # None /\ exec[w] \in Run /\ exec[w].task \in Tasks
      /\ Granted(exec[w].task, exec[w].attempt) /\ PointOK("build", exec[w])
  BY AtFacts DEF Materialize
<1>2. CASE Locally(w, "fail")
  BY <1>1, <1>2, NothingNeeded, LocallyStep DEF Points
<1>3. CASE /\ Stored(exec[w].task, exec[w].latest.effect)
           /\ exec' = [exec EXCEPT ![w].sha = exec[w].latest.effect, ![w].pc = "confirm"]
           /\ UNCHANGED <<vars, locks, receipts, bucket, late>>
  <2>1. PICK sha : sha = exec[w].latest.effect OBVIOUS
  <2>2. sha \in Shas
    BY <1>3, <2>1 DEF Stored, ExecInv, PoolInv, BucketOK, Artifact
  <2>3. PICK x : x = [exec[w] EXCEPT !.sha = sha, !.pc = "confirm"] OBVIOUS
  <2>4. exec' = [exec EXCEPT ![w] = x] BY <1>3, <2>1, <2>3 DEF ExecInv, RunsInv
  <2>5. /\ x \in Run /\ x.pc = "confirm" /\ x.task = exec[w].task /\ x.role = exec[w].role
        /\ x.attempt = exec[w].attempt /\ x.sha = sha
    BY <1>1, <2>2, <2>3 DEF Run, Points, BuilderPoints
  <2>6. PointOK("confirm", x)
    BY <1>1, <1>3, <2>1, <2>2, <2>5 DEF PointOK, BuilderPoints
  <2>7. RunOK(x) BY <1>1, <2>5, <2>6 DEF RunOK
  <2> QED BY <1>3, <2>4, <2>7, LocalStep DEF vars
<1> QED BY <1>2, <1>3 DEF Materialize

LEMMA VerifyArtifactStep ==
  ASSUME ExecInv, NEW w \in Workers, VerifyArtifact(w)
  PROVE  ExecInv' /\ [Next]_vars
<1>1. exec[w] # None /\ PointOK("verify", exec[w]) BY AtFacts DEF VerifyArtifact
<1>2. PointOK("ambiguous", exec[w]) BY <1>1 DEF PointOK, BuilderPoints
<1>3. Stored(exec[w].task, exec[w].sha) => PointOK("confirm", exec[w])
  BY <1>1 DEF PointOK, BuilderPoints
<1>4. "ambiguous" \in Points /\ "confirm" \in Points BY DEF Points, BuilderPoints
<1> QED BY <1>1, <1>2, <1>3, <1>4, LocallyStep DEF VerifyArtifact

LEMMA ValidateStep ==
  ASSUME ExecInv, NEW w \in Workers, Validate(w)
  PROVE  ExecInv' /\ [Next]_vars
<1>1. /\ exec[w] # None /\ exec[w] \in Run /\ exec[w].task \in Tasks
      /\ Granted(exec[w].task, exec[w].attempt)
  BY AtFacts DEF Validate
<1>2. CASE Locally(w, "fail")
  BY <1>1, <1>2, NothingNeeded, LocallyStep DEF Points
<1>3. CASE /\ tasks[exec[w].task].produced_sha # None
           /\ exec' = [exec EXCEPT ![w].sha = tasks[exec[w].task].produced_sha,
                         ![w].pc = IF Fenced(exec[w].task) THEN "record" ELSE "complete"]
           /\ UNCHANGED <<vars, locks, receipts, bucket, late>>
  <2> DEFINE pc == IF Fenced(exec[w].task) THEN "record" ELSE "complete"
  <2>1. pc \in {"record", "complete"} OBVIOUS
  <2>2. PICK sha : sha = tasks[exec[w].task].produced_sha OBVIOUS
  <2>3. sha \in Shas
    BY <1>1, <1>3, <2>2 DEF ExecInv, PoolInv, TaskInv, IInv, TasksOK, TaskRow
  <2>4. PICK x : x = [exec[w] EXCEPT !.sha = sha, !.pc = pc] OBVIOUS
  <2>5. exec' = [exec EXCEPT ![w] = x] BY <1>3, <2>2, <2>4 DEF ExecInv, RunsInv
  <2> HIDE DEF pc
  <2>6. /\ x \in Run /\ x.pc = pc /\ x.task = exec[w].task
        /\ x.attempt = exec[w].attempt /\ x.sha = sha
    BY <1>1, <2>1, <2>3, <2>4 DEF Run, Points, BuilderPoints
  <2>7. PointOK(pc, x)
    BY <1>3, <2>1, <2>2, <2>6 DEF PointOK, BuilderPoints
  <2>8. RunOK(x) BY <1>1, <2>6, <2>7 DEF RunOK
  <2> QED BY <1>3, <2>5, <2>8, LocalStep DEF vars
<1> QED BY <1>2, <1>3 DEF Validate

LEMMA WriteReceiptStep ==
  ASSUME ExecInv, NEW w \in Workers, WriteReceipt(w)
  PROVE  ExecInv' /\ [Next]_vars
<1>1. PICK x : x = exec[w] OBVIOUS
<1>2. /\ x # None /\ x.task \in Tasks /\ PointOK("receipt", x)
      /\ tasks[x.task].attempts[x.attempt].gen = x.attempt
  BY <1>1, AtFacts DEF WriteReceipt
<1> DEFINE p == [worker |-> w, task |-> x.task, role |-> x.role, sha |-> x.sha,
                 gen |-> x.attempt]
<1>3. /\ receipts' = receipts \cup {p} /\ Goto(w, "exit")
      /\ UNCHANGED <<vars, bucket>> /\ late' = late
  BY <1>1, <1>2 DEF WriteReceipt, vars
<1>4. ReceiptOK(p) BY <1>2 DEF PointOK, ResultAccepted, ReceiptOK
<1> HIDE DEF p
<1>5. PoolInv' /\ Grew /\ [Next]_vars BY <1>3, StillGrew DEF ExecInv
<1>6. ReceiptOK(p)' BY <1>4, <1>5, ReceiptKept
<1>7. RunsInv' BY <1>1, <1>2, <1>3, <1>5, <1>6, GotoStep DEF ExecInv
<1> QED BY <1>5, <1>7 DEF ExecInv

LEMMA CrashStep ==
  ASSUME ExecInv, NEW w \in Workers, Crash(w)
  PROVE  ExecInv' /\ [Next]_vars
<1>1. exec' = [exec EXCEPT ![w] = None] /\ UNCHANGED <<vars, receipts, bucket, late>>
  BY DEF Crash, vars
<1> QED BY <1>1, LocalStep


-----------------------------------------------------------------------------
(* The invariant holds *)

LEMMA ExecInitOK == ExecInit => ExecInv
<1> SUFFICES ASSUME ExecInit PROVE ExecInv OBVIOUS
<1>1. TaskInv BY TaskInit DEF ExecInit
<1>2. ASSUME NEW t \in Tasks
      PROVE  /\ tasks[t].lease_generation <= MaxGeneration
             /\ CheckpointsOK(t) /\ ProductOK(t)
  <2>1. tasks[t] = AbsentTask /\ checkpoints[t] = {} BY DEF ExecInit, Init
  <2>2. tasks[t].lease_generation = 0 /\ tasks[t].produced_sha = None
    BY <2>1 DEF AbsentTask
  <2> QED BY <2>1, <2>2, ConstantsAssumption DEF CheckpointsOK, ProductOK
<1>3. PoolInv BY <1>1, <1>2 DEF ExecInit, PoolInv, BucketOK
<1>4. RunsInv BY DEF ExecInit, RunsInv
<1> QED BY <1>3, <1>4 DEF ExecInv

\* The pool moves and no run does.
LEMMA RunsStay ==
  ASSUME RunsInv, Grew, exec' = exec, late' \subseteq late, receipts' = receipts
  PROVE  RunsInv'
<1>1. ASSUME NEW v \in Workers, exec'[v] # None
      PROVE  RunOK(exec[v])'
  <2>1. PICK y : y = exec[v] OBVIOUS
  <2>2. RunOK(y) /\ exec'[v] = y BY <1>1, <2>1 DEF RunsInv
  <2>3. RunOK(y)' BY <2>2, RunKept
  <2> QED BY <2>2, <2>3 DEF RunOK, PointOK, ResultAccepted, Granted, Fenced, NoEarlier,
                            Origin, Stored, Confirmed
<1>2. \A q \in late' : RequestOK(q)' BY RequestKept DEF RunsInv
<1>3. \A q \in receipts' : ReceiptOK(q)' BY ReceiptKept DEF RunsInv
<1> QED BY <1>1, <1>2, <1>3 DEF RunsInv

LEMMA ExecNextOK == ExecInv /\ [ExecNext]_allVars => ExecInv' /\ [Next]_vars
<1> SUFFICES ASSUME ExecInv, [ExecNext]_allVars PROVE ExecInv' /\ [Next]_vars
  OBVIOUS
<1>0. PoolInv /\ RunsInv BY DEF ExecInv
<1>1. CASE UNCHANGED allVars
  <2>1. UNCHANGED <<vars, bucket>> /\ UNCHANGED <<exec, late, receipts>>
    BY <1>1 DEF allVars, execVars
  <2>2. PoolInv' /\ Grew /\ [Next]_vars BY <1>0, <2>1, StillGrew
  <2>3. RunsInv' BY <1>0, <2>1, <2>2, RunsStay
  <2> QED BY <2>2, <2>3 DEF ExecInv
<1>2. CASE Surroundings
  <2>1. (Tick \/ Operating \/ Reconcile) /\ bucket' = bucket
        /\ UNCHANGED <<exec, late, receipts>>
    BY <1>2 DEF Surroundings, execVars
  <2>2. PoolInv' /\ Grew /\ [Next]_vars BY <1>0, <2>1, SurroundingsStep
  <2>3. RunsInv' BY <1>0, <2>1, <2>2, RunsStay
  <2> QED BY <2>2, <2>3 DEF ExecInv
<1>3. CASE Deliver
  <2>1. PICK r \in late :
          Apply(r) /\ late' = late \ {r} /\ UNCHANGED <<exec, locks, receipts>>
    BY <1>3 DEF Deliver
  <2>2. RequestOK(r) BY <1>0, <2>1 DEF RunsInv
  <2>3. PoolInv' /\ Grew /\ [Next]_vars BY <1>0, <2>1, <2>2, ApplyStep
  <2>4. RunsInv' BY <1>0, <2>1, <2>3, RunsStay
  <2> QED BY <2>3, <2>4 DEF ExecInv
<1>4. ASSUME NEW w \in Workers, Executing(w)
      PROVE  ExecInv' /\ [Next]_vars
  <2>1. CASE \E t \in Tasks : Begin(w, t)
    BY <2>1, BeginStep
  <2>2. CASE Recover(w)
    BY <2>2, RecoverStep
  <2>3. CASE BlockUnsafe(w) \/ FailTask(w) \/ BlockAmbiguous(w)
    BY <2>3, GiveUpStep
  <2>4. CASE StartTask(w) \/ BuildAnew(w) \/ Materialize(w)
    BY <2>4, StartTaskStep, BuildAnewStep, MaterializeStep
  <2>5. CASE DeclareEffect(w) \/ Publish(w) \/ VerifyArtifact(w) \/ DeclareUnknown(w)
    BY <2>5, DeclareEffectStep, PublishStep, VerifyArtifactStep, DeclareUnknownStep
  <2>6. CASE ConfirmEffect(w) \/ SubmitProduct(w)
    BY <2>6, ConfirmEffectStep, SubmitProductStep
  <2>7. CASE Validate(w) \/ RecordValidation(w) \/ CompleteTask(w)
    BY <2>7, ValidateStep, RecordValidationStep, CompleteTaskStep
  <2>8. CASE WriteReceipt(w) \/ Crash(w)
    BY <2>8, WriteReceiptStep, CrashStep
  <2> QED BY <1>4, <2>1, <2>2, <2>3, <2>4, <2>5, <2>6, <2>7, <2>8 DEF Executing
<1> QED BY <1>1, <1>2, <1>3, <1>4 DEF ExecNext

LEMMA ExecInvariance == ExecSpec => []ExecInv
  BY ExecInitOK, ExecNextOK, PTL DEF ExecSpec

-----------------------------------------------------------------------------
(* Theorems *)

\* The executors do nothing to the pool that the store's own specification does
\* not allow: every request, on time, late or never answered, is one of its
\* transactions with a credential it has issued.  So whatever is proved of the
\* store holds while any number of executors use it.
THEOREM ExecutorsUseTheStore == ExecSpec => Spec
<1>1. ExecInit => Init BY DEF ExecInit
<1> QED BY <1>1, ExecInvariance, ExecNextOK, PTL DEF ExecSpec, Spec

\* Two artifacts of a task have the same origin, so they are the same.
LEMMA OneArtifact ==
  ASSUME PoolInv, NEW a \in bucket, NEW b \in bucket, a.task = b.task
  PROVE  a = b
<1>1. /\ a \in Artifact /\ Origin(a.task, a.gen, a.sha)
      /\ b \in Artifact /\ Origin(b.task, b.gen, b.sha)
  BY DEF PoolInv, BucketOK
<1>2. a.task \in Tasks /\ a.gen \in Nat /\ b.gen \in Nat BY <1>1 DEF Artifact
<1>3. PICK c \in checkpoints[a.task] :
        /\ c.id = [attempt |-> a.gen, stage |-> "artifact-pending"]
        /\ c.gen = a.gen /\ c.effect = a.sha
  BY <1>1 DEF Origin
<1>4. PICK d \in checkpoints[a.task] :
        /\ d.id = [attempt |-> b.gen, stage |-> "artifact-pending"]
        /\ d.gen = b.gen /\ d.effect = b.sha
  BY <1>1 DEF Origin
<1>5. c.gen >= b.gen /\ d.gen >= a.gen BY <1>1 DEF Origin, NoEarlier
<1>6. a.gen = b.gen BY <1>2, <1>3, <1>4, <1>5
<1>7. c = d BY <1>2, <1>3, <1>4, <1>6 DEF PoolInv, CheckpointsOK
<1> QED BY <1>1, <1>3, <1>4, <1>6, <1>7 DEF Artifact

\* Nothing reaches the artifact store before the pool knows of it, for any number
\* of executors, crashes and requests applied late: every artifact was declared
\* by the generation that wrote it.
THEOREM EffectsDeclaredFirst == ExecSpec => []PublishedIsDeclared
<1>1. ExecInv => PublishedIsDeclared
  BY DEF ExecInv, PoolInv, BucketOK, Origin, PublishedIsDeclared
<1> QED BY <1>1, ExecInvariance, PTL

\* However many executors take a task over, at most one artifact of it is ever in
\* the store: later generations resume it or stop.
THEOREM ArtifactsPublishedOnce == ExecSpec => []PublishedOnce
<1>1. ExecInv => PublishedOnce
  BY OneArtifact DEF ExecInv, PublishedOnce
<1> QED BY <1>1, ExecInvariance, PTL

\* A fenced product the pool accepted is in the artifact store and was confirmed
\* there, and no other artifact of the task was ever confirmed.
THEOREM ProductsAreDurable == ExecSpec => []ProductIsDurable
<1>1. ExecInv => ProductIsDurable
  <2> SUFFICES ASSUME ExecInv, NEW t \in Tasks, Fenced(t)
               PROVE  /\ tasks[t].produced_sha # None =>
                           /\ Stored(t, tasks[t].produced_sha)
                           /\ \E c \in checkpoints[t] :
                                c.effect = tasks[t].produced_sha /\ IsBuilderResult(c)
                      /\ \A c \in checkpoints[t] : IsBuilderResult(c) =>
                           Stored(t, c.effect) /\ tasks[t].produced_sha \in {None, c.effect}
    BY DEF ProductIsDurable
  <2>1. /\ PoolInv /\ CheckpointsOK(t) /\ ProductOK(t)
        /\ checkpoints[t] \subseteq CheckpointRow
    BY DEF ExecInv, PoolInv, TaskInv, IInv, TablesOK
  <2>2. \A c \in checkpoints[t] : c # None BY <2>1, ExecutorAssumption
  <2>3. ASSUME tasks[t].produced_sha # None
        PROVE  /\ Stored(t, tasks[t].produced_sha)
               /\ \E c \in checkpoints[t] :
                    c.effect = tasks[t].produced_sha /\ IsBuilderResult(c)
    <3>1. PICK c \in checkpoints[t] :
            c.effect = tasks[t].produced_sha /\ c.effect_state = "confirmed"
      BY <2>1, <2>3 DEF ProductOK, Confirmed
    <3>2. Stored(t, tasks[t].produced_sha) BY <2>1, <3>1 DEF CheckpointsOK
    <3> QED BY <2>2, <3>1, <3>2 DEF IsBuilderResult
  <2>4. ASSUME NEW c \in checkpoints[t], IsBuilderResult(c)
        PROVE  Stored(t, c.effect) /\ tasks[t].produced_sha \in {None, c.effect}
    <3>1. Stored(t, c.effect) BY <2>1, <2>4 DEF CheckpointsOK, IsBuilderResult
    <3>2. ASSUME tasks[t].produced_sha # None
          PROVE  tasks[t].produced_sha = c.effect
      <4>1. PICK a \in bucket : a.task = t /\ a.sha = c.effect BY <3>1 DEF Stored
      <4>2. PICK b \in bucket : b.task = t /\ b.sha = tasks[t].produced_sha
        BY <2>3, <3>2 DEF Stored
      <4>3. a = b BY <2>1, <4>1, <4>2, OneArtifact
      <4> QED BY <4>1, <4>2, <4>3
    <3> QED BY <3>1, <3>2
  <2> QED BY <2>3, <2>4
<1> QED BY <1>1, ExecInvariance, PTL

\* Every receipt on a host's disk names a result the pool has accepted and keeps:
\* the product of the task and, from a validator, its completion.
THEOREM ReceiptsAreBacked == ExecSpec => []ReceiptIsBacked
<1>1. ExecInv => ReceiptIsBacked
  BY DEF ExecInv, RunsInv, ReceiptOK, ReceiptIsBacked
<1> QED BY <1>1, ExecInvariance, PTL
=============================================================================
