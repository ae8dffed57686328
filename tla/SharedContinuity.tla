-------------------------- MODULE SharedContinuity --------------------------
(***************************************************************************)
(* The continuity run of scripts/native_shared_continuity.py: a producer   *)
(* job lets an executor build a task, kills its whole process tree after   *)
(* the confirmed checkpoint, and a consumer job on another runner resumes  *)
(* the task from PostgreSQL and the artifact store alone.  The jobs meet   *)
(* only in the run's row, whose phase each of them advances with a         *)
(* conditional UPDATE; each job has one actor, an executor behind a        *)
(* gated service that also runs the reconciliation loop.  The pool is      *)
(* reduced to the one task of the run; what an artifact holds to the       *)
(* generation that built it.                                               *)
(***************************************************************************)
EXTENDS Naturals, Sequences, SequencesExt

CONSTANTS
  ContJobs,    \* the jobs of the workflow started with one run key
  ContRunner,  \* the runner each job is on
  NoRow        \* an empty column, a row that is not there

ASSUME ContAssumption ==
  /\ DOMAIN ContRunner = ContJobs
  /\ \A j \in ContJobs : ContRunner[j] # NoRow
  /\ NoRow \notin {"a", "b", "builder-a", "builder-b", "validator-b", "lease_expired_recovered"}
  /\ NoRow \notin [payload : {1, NoRow}, gen : {2}, attempt : {2}, applications : {1}]

VARIABLES
  contRow,          \* the row of native_continuity_runs
  contTask,         \* the task, and whether its lease still has time
  contAttempts,     \* task_attempts: worker and end of each generation
  contCheckpoints,  \* task_checkpoints, oldest first
  contStored,       \* the artifacts in the object store
  contSink,         \* the row of native_continuity_effects
  contJob           \* where each job and its actor are

contVars == <<contRow, contTask, contAttempts, contCheckpoints, contStored, contSink, contJob>>

ContInit ==
  /\ contRow = [phase |-> "none", producer |-> NoRow, consumer |-> NoRow,
                artifact |-> NoRow, stale |-> NoRow, produced |-> NoRow]
  /\ contTask = [state |-> "none", gen |-> 0, holder |-> NoRow, live |-> FALSE,
                 error |-> NoRow, produced |-> NoRow]
  /\ contAttempts = << >> /\ contCheckpoints = << >> /\ contStored = {} /\ contSink = NoRow
  /\ contJob = [j \in ContJobs |-> [role |-> NoRow, pc |-> "idle", proc |-> "none",
                                    actor |-> "start", gaveUp |-> FALSE, seen |-> NoRow]]

-----------------------------------------------------------------------------
(***************************************************************************)
(* The pool as the run sees it: app.main's routes over the store.          *)
(***************************************************************************)

\* Every claim makes a token and an attempt of its own, as many as generations.
LeaseFields == [worker |-> contTask.holder, token |-> contTask.gen,
                gen |-> contTask.gen, attempt |-> contTask.gen]

\* _lease: the caller's lease is the task's, and has time left.
LeaseHeld(lease, state) ==
  contTask.state = state /\ contTask.live /\ lease = LeaseFields

Claim(worker, from, to) ==
  /\ contTask.state = from /\ contTask.holder = NoRow
  /\ contTask' = [contTask EXCEPT !.state = to, !.gen = @ + 1, !.holder = worker, !.live = TRUE]
  /\ contAttempts' = Append(contAttempts, [worker |-> worker, end |-> NoRow])

Release(state, error, end) ==
  /\ contTask' = [contTask EXCEPT !.state = state, !.holder = NoRow, !.live = FALSE, !.error = error]
  /\ contAttempts' = [contAttempts EXCEPT ![Len(contAttempts)].end = end]

Checkpoint(stage, effect, artifact) ==
  contCheckpoints' = Append(contCheckpoints, [gen |-> contTask.gen, stage |-> stage,
                                              effect |-> effect, artifact |-> artifact])

\* _has_unresolved_effect, and the state a task goes back to.
Unresolved == contCheckpoints # << >> /\ Last(contCheckpoints).effect \in {"pending", "unknown"}
AfterAttempt == IF contTask.produced # NoRow THEN "validating" ELSE "queued"

-----------------------------------------------------------------------------
(***************************************************************************)
(* The run's row and the effect sink.                                      *)
(***************************************************************************)

\* Fault: the UPDATE does not name the phase the job saw.
TransitionAnyPhase(old) == contRow.phase # "none"

\* transition: one row has the old phase when the UPDATE runs.
TransitionAllowed(old) == contRow.phase = old

\* A rejected transition raises: the job ends and its actor's group is killed.
JobEnds(j, pc) == [contJob[j] EXCEPT !.pc = pc,
                                     !.proc = IF @ \in {"running", "frozen"} THEN "dead" ELSE @]
Advance(j, old, row, next) ==
  IF TransitionAllowed(old)
  THEN contRow' = row /\ contJob' = [contJob EXCEPT ![j] = next]
  ELSE contRow' = contRow /\ contJob' = [contJob EXCEPT ![j] = JobEnds(j, "blocked")]
ToPhase(phase) == [contRow EXCEPT !.phase = phase]

\* Fault: the sink knows a lease by its worker and its token alone.
SinkFenceByToken(lease) ==
  /\ contTask.state = "running" /\ contTask.live
  /\ lease.worker = contTask.holder /\ lease.token = contTask.gen

\* sink_apply: the lease is checked in the transaction that writes the effect.
SinkFence(lease) == LeaseHeld(lease, "running")
SinkRow(lease, payload) ==
  [payload |-> payload, gen |-> lease.gen, attempt |-> lease.attempt, applications |-> 1]
SinkApply(lease, payload) ==
  IF SinkFence(lease) /\ contSink = NoRow THEN SinkRow(lease, payload) ELSE contSink

-----------------------------------------------------------------------------
(***************************************************************************)
(* The producer job.                                                       *)
(***************************************************************************)

At(j, pc) == contJob[j].pc = pc
Step(j, pc) == contJob' = [contJob EXCEPT ![j].pc = pc]

\* prepare: the definition is durable before the task can be claimed.
Define(j) ==
  /\ At(j, "idle")
  /\ IF contRow.phase = "none"
     THEN /\ contRow' = [contRow EXCEPT !.phase = "definition_persisted", !.producer = ContRunner[j]]
          /\ contJob' = [contJob EXCEPT ![j].role = "a", ![j].pc = "defined"]
     ELSE contRow' = contRow /\ Step(j, "blocked")
  /\ UNCHANGED <<contTask, contAttempts, contCheckpoints, contStored, contSink>>

EnqueueDefined(j) ==
  /\ At(j, "defined") /\ contTask' = [contTask EXCEPT !.state = "queued"] /\ Step(j, "enqueued")
  /\ UNCHANGED <<contRow, contAttempts, contCheckpoints, contStored, contSink>>

Prepared(j) ==
  /\ At(j, "enqueued")
  /\ Advance(j, "definition_persisted", ToPhase("prepared"), [contJob[j] EXCEPT !.pc = "prepared"])
  /\ UNCHANGED <<contTask, contAttempts, contCheckpoints, contStored, contSink>>

ProducerStarts(j) ==
  /\ At(j, "prepared")
  /\ Advance(j, "prepared", ToPhase("a_started"), [contJob[j] EXCEPT !.pc = "spawning"])
  /\ UNCHANGED <<contTask, contAttempts, contCheckpoints, contStored, contSink>>

\* spawn_actor: the actor is the leader of a session of its own.
SpawnActor(j) ==
  /\ At(j, "spawning")
  /\ contJob' = [contJob EXCEPT ![j].pc = "watching", ![j].proc = "running"]
  /\ UNCHANGED <<contRow, contTask, contAttempts, contCheckpoints, contStored, contSink>>

\* The barrier file is there: SIGSTOP to the group, until every member stopped.
Freeze(j) ==
  /\ At(j, "watching") /\ contJob[j].proc = "running" /\ contJob[j].actor = "barrier"
  /\ contJob' = [contJob EXCEPT ![j].pc = "frozen", ![j].proc = "frozen"]
  /\ UNCHANGED <<contRow, contTask, contAttempts, contCheckpoints, contStored, contSink>>

\* What the producer reads of the frozen actor's work, and materializes.
CheckpointDurable ==
  /\ contTask.state = "running" /\ contTask.produced = NoRow
  /\ contTask.holder = "builder-a" /\ contTask.gen = 1
  /\ Last(contCheckpoints).gen = 1 /\ Last(contCheckpoints).effect = "confirmed"
  /\ contRow.phase = "a_checkpoint_confirmed"
  /\ contRow.artifact = Last(contCheckpoints).artifact /\ contRow.stale = LeaseFields
  /\ contRow.artifact \in contStored

Observe(j) ==
  /\ At(j, "frozen")
  /\ contJob' = [contJob EXCEPT ![j] = IF CheckpointDurable THEN [@ EXCEPT !.pc = "observed"]
                                       ELSE JobEnds(j, "blocked")]
  /\ UNCHANGED <<contRow, contTask, contAttempts, contCheckpoints, contStored, contSink>>

\* kill_group: SIGKILL, and a wait until no member and no listener is left.
KillGroup(j) ==
  /\ At(j, "observed")
  /\ contJob' = [contJob EXCEPT ![j] = JobEnds(j, "killed")]
  /\ UNCHANGED <<contRow, contTask, contAttempts, contCheckpoints, contStored, contSink>>

TreeTerminated(j) ==
  /\ At(j, "killed")
  /\ Advance(j, "a_checkpoint_confirmed",
             [ToPhase("a_tree_terminated") EXCEPT !.produced = contRow.artifact],
             [contJob[j] EXCEPT !.pc = "done"])
  /\ UNCHANGED <<contTask, contAttempts, contCheckpoints, contStored, contSink>>

-----------------------------------------------------------------------------
(***************************************************************************)
(* The consumer job and the independent reader.                            *)
(***************************************************************************)

ConsumerReads(j) ==
  /\ At(j, "idle")
  /\ contJob' = [contJob EXCEPT ![j].role = "b",
       ![j].pc = IF contRow.phase = "a_tree_terminated" /\ contRow.producer # ContRunner[j]
                 THEN "read" ELSE "blocked"]
  /\ UNCHANGED <<contRow, contTask, contAttempts, contCheckpoints, contStored, contSink>>

TakeOver(j) ==
  /\ At(j, "read")
  /\ Advance(j, "a_tree_terminated", [ToPhase("b_started") EXCEPT !.consumer = ContRunner[j]],
             [contJob[j] EXCEPT !.pc = "spawning"])
  /\ UNCHANGED <<contTask, contAttempts, contCheckpoints, contStored, contSink>>

ConsumerFinishes(j) ==
  /\ At(j, "watching") /\ contJob[j].proc = "exited"
  /\ Advance(j, "b_started", ToPhase("b_finished"), [contJob[j] EXCEPT !.pc = "finished"])
  /\ UNCHANGED <<contTask, contAttempts, contCheckpoints, contStored, contSink>>

HistoryComplete ==
  /\ contTask.state = "completed" /\ contTask.gen = 3 /\ contTask.holder = NoRow
  /\ contTask.produced = contRow.produced
  /\ contAttempts = << [worker |-> "builder-a", end |-> "lease_expired_recovered"],
                       [worker |-> "builder-b", end |-> "validation_handoff"],
                       [worker |-> "validator-b", end |-> "completed"] >>
  /\ [i \in DOMAIN contCheckpoints |-> <<contCheckpoints[i].gen, contCheckpoints[i].stage>>]
       = << <<1, "artifact_publish">>, <<1, "builder_result">>,
            <<2, "builder_result">>, <<3, "validator_result">> >>
  /\ \A i \in 2 .. 4 : contCheckpoints[i].artifact = contRow.artifact
  /\ contSink = [payload |-> contRow.artifact, gen |-> 2, attempt |-> 2, applications |-> 1]
  /\ contRow.artifact \in contStored

IndependentReader(j) ==
  /\ At(j, "finished")
  /\ contRow.phase = "b_finished" /\ contRow.producer # ContRunner[j]
  /\ contRow.consumer = ContRunner[j] /\ HistoryComplete
  /\ Advance(j, "b_finished", ToPhase("verified"), [contJob[j] EXCEPT !.pc = "done"])
  /\ UNCHANGED <<contTask, contAttempts, contCheckpoints, contStored, contSink>>

\* A deadline, an unreachable service, an actor that ended: the job raises, and
\* what is left of the actor's group is killed on the way out.
JobFails(j) ==
  /\ contJob[j].pc \notin {"idle", "done", "blocked", "gone"}
  /\ contJob' = [contJob EXCEPT ![j] = JobEnds(j, "blocked")]
  /\ UNCHANGED <<contRow, contTask, contAttempts, contCheckpoints, contStored, contSink>>

\* The job itself is killed: its actor stays as it is.
JobKilled(j) ==
  /\ contJob[j].pc \notin {"idle", "done", "blocked", "gone"} /\ Step(j, "gone")
  /\ UNCHANGED <<contRow, contTask, contAttempts, contCheckpoints, contStored, contSink>>

-----------------------------------------------------------------------------
(***************************************************************************)
(* The actors: the executor, and the gate in front of the service.         *)
(***************************************************************************)

\* The executor waits for the gate's answer, so one counter serves both.
ActorAt(j, role, pc) ==
  contJob[j].proc = "running" /\ contJob[j].role = role /\ contJob[j].actor = pc
Working(j, role, pc) == ActorAt(j, role, pc) /\ ~contJob[j].gaveUp
ActorStep(j, pc) == contJob' = [contJob EXCEPT ![j].actor = pc]
Holds(worker, state) ==
  contTask.state = state /\ contTask.live /\ contTask.holder = worker

ProducerClaims(j) ==
  /\ Working(j, "a", "start") /\ Claim("builder-a", "queued", "running") /\ ActorStep(j, "building")
  /\ UNCHANGED <<contRow, contCheckpoints, contStored, contSink>>

RecordPending(j) ==
  /\ Working(j, "a", "building") /\ Holds("builder-a", "running")
  /\ Checkpoint("artifact_publish", "pending", NoRow) /\ ActorStep(j, "publishing")
  /\ UNCHANGED <<contRow, contTask, contAttempts, contStored, contSink>>

PublishArtifact(j) ==
  /\ Working(j, "a", "publishing")
  /\ contStored' = contStored \cup {1} /\ ActorStep(j, "published")
  /\ UNCHANGED <<contRow, contTask, contAttempts, contCheckpoints, contSink>>

\* The gate lets the route commit the confirmed checkpoint and keeps its answer.
GateProducer(j) ==
  /\ Working(j, "a", "published") /\ Holds("builder-a", "running")
  /\ Checkpoint("builder_result", "confirmed", 1) /\ ActorStep(j, "committed")
  /\ UNCHANGED <<contRow, contTask, contAttempts, contStored, contSink>>

\* persist_a_checkpoint: with the lease of the request, whatever became of it.
PersistACheckpoint(j) ==
  /\ ActorAt(j, "a", "committed")
  /\ Advance(j, "a_started",
             [ToPhase("a_checkpoint_confirmed") EXCEPT
                !.artifact = Last(contCheckpoints).artifact,
                !.stale = [worker |-> "builder-a", token |-> 1, gen |-> 1, attempt |-> 1]],
             [contJob[j] EXCEPT !.actor = "persisted"])
  /\ UNCHANGED <<contTask, contAttempts, contCheckpoints, contStored, contSink>>

WriteBarrier(j) ==
  /\ ActorAt(j, "a", "persisted") /\ ActorStep(j, "barrier")
  /\ UNCHANGED <<contRow, contTask, contAttempts, contCheckpoints, contStored, contSink>>

\* actor: only the service's own loop recovers the producer's lease.
AwaitRecovery(j) ==
  /\ Working(j, "b", "start")
  /\ contTask.state = "queued" /\ contTask.gen = 1 /\ contTask.error = "lease_expired_recovered"
  /\ ActorStep(j, "recovered")
  /\ UNCHANGED <<contRow, contTask, contAttempts, contCheckpoints, contStored, contSink>>

ConsumerClaims(j) ==
  /\ Working(j, "b", "recovered") /\ Claim("builder-b", "queued", "running")
  /\ Last(contCheckpoints).stage = "builder_result" /\ Last(contCheckpoints).artifact \in contStored
  /\ ActorStep(j, "resumed")
  /\ UNCHANGED <<contRow, contCheckpoints, contStored, contSink>>

GateConsumer(j) ==
  /\ Working(j, "b", "resumed") /\ Holds("builder-b", "running")
  /\ Checkpoint("builder_result", "confirmed", Last(contCheckpoints).artifact)
  /\ ActorStep(j, "committed")
  /\ UNCHANGED <<contRow, contTask, contAttempts, contStored, contSink>>

\* b_fence_controls runs in a thread of the service: the executor may give up
\* and the loop may release the task between any two of its steps.
ControlsRead(j) ==
  /\ ActorAt(j, "b", "committed")
  /\ IF /\ contRow.phase = "b_started" /\ contTask.state = "running"
        /\ contTask.holder = "builder-b" /\ contTask.gen = 2
        /\ Last(contCheckpoints).gen = 2 /\ Last(contCheckpoints).artifact = contRow.artifact
     THEN contJob' = [contJob EXCEPT ![j].actor = "controls", ![j].seen = LeaseFields]
     ELSE ActorStep(j, "refused")
  /\ UNCHANGED <<contRow, contTask, contAttempts, contCheckpoints, contStored, contSink>>

\* The lost lease, and the current one with the lost generation or attempt.
LateLeases(j) ==
  {contRow.stale, [contJob[j].seen EXCEPT !.gen = contRow.stale.gen],
   [contJob[j].seen EXCEPT !.attempt = contRow.stale.attempt]}

LateRenewals(j) ==
  /\ ActorAt(j, "b", "controls")
  /\ ActorStep(j, IF /\ \A l \in LateLeases(j) : ~LeaseHeld(l, "running")
                     /\ contTask.state = "running" /\ LeaseFields = contJob[j].seen
                  THEN "unrenewed" ELSE "refused")
  /\ UNCHANGED <<contRow, contTask, contAttempts, contCheckpoints, contStored, contSink>>

LateEffects(j) ==
  /\ ActorAt(j, "b", "unrenewed")
  /\ \E l \in LateLeases(j) :
       /\ (\E k \in LateLeases(j) : SinkFence(k)) => SinkFence(l)
       /\ contSink' = SinkApply(l, contRow.artifact)
       /\ ActorStep(j, IF SinkFence(l) THEN "refused" ELSE "rejected")
  /\ UNCHANGED <<contRow, contTask, contAttempts, contCheckpoints, contStored>>

ApplyEffect(j) ==
  /\ ActorAt(j, "b", "rejected")
  /\ contSink' = SinkApply(contJob[j].seen, contRow.artifact)
  /\ ActorStep(j, IF SinkFence(contJob[j].seen) THEN "applied" ELSE "refused")
  /\ UNCHANGED <<contRow, contTask, contAttempts, contCheckpoints, contStored>>

\* The replay and the readback; then the gate gives the kept answer out.
ReplayEffect(j) ==
  /\ ActorAt(j, "b", "applied")
  /\ ActorStep(j, IF /\ SinkFence(contJob[j].seen)
                     /\ contSink = SinkRow(contJob[j].seen, contRow.artifact)
                  THEN "answered" ELSE "refused")
  /\ UNCHANGED <<contRow, contTask, contAttempts, contCheckpoints, contStored, contSink>>

SubmitValidation(j) ==
  /\ Working(j, "b", "answered") /\ Holds("builder-b", "running")
  /\ contTask' = [contTask EXCEPT !.state = "validating", !.holder = NoRow, !.live = FALSE,
                                  !.produced = Last(contCheckpoints).artifact]
  /\ contAttempts' = [contAttempts EXCEPT ![2].end = "validation_handoff"]
  /\ ActorStep(j, "built")
  /\ UNCHANGED <<contRow, contCheckpoints, contStored, contSink>>

ValidatorClaims(j) ==
  /\ Working(j, "b", "built") /\ contTask.produced = contRow.produced
  /\ contRow.artifact \in contStored
  /\ Claim("validator-b", "validating", "validating") /\ ActorStep(j, "validating")
  /\ UNCHANGED <<contRow, contCheckpoints, contStored, contSink>>

ValidatorCheckpoint(j) ==
  /\ Working(j, "b", "validating") /\ Holds("validator-b", "validating")
  /\ Checkpoint("validator_result", "none", Last(contCheckpoints).artifact)
  /\ ActorStep(j, "validated")
  /\ UNCHANGED <<contRow, contTask, contAttempts, contStored, contSink>>

ValidatorCompletes(j) ==
  /\ Working(j, "b", "validated") /\ Holds("validator-b", "validating")
  /\ Release("completed", NoRow, "completed")
  /\ contJob' = [contJob EXCEPT ![j].actor = "done", ![j].proc = "exited"]
  /\ UNCHANGED <<contRow, contCheckpoints, contStored, contSink>>

\* publish or its verification failed: the effect is unknown, the task blocked.
PublishAmbiguous(j) ==
  /\ Working(j, "a", "publishing") /\ Holds("builder-a", "running")
  /\ Checkpoint("artifact_publish", "unknown", NoRow)
  /\ Release("blocked", contTask.error, "blocked")
  /\ \E uploaded \in BOOLEAN : contStored' = contStored \cup (IF uploaded THEN {1} ELSE {})
  /\ contJob' = [contJob EXCEPT ![j].gaveUp = TRUE]
  /\ UNCHANGED <<contRow, contSink>>

\* An answer that does not come in time, or an error: the executor reports the
\* failure, which the pool accepts under the lease and with no open effect, and
\* the actor ends.
ExecutorGivesUp(j) ==
  /\ contJob[j].proc = "running" /\ ~contJob[j].gaveUp
  /\ contJob' = [contJob EXCEPT ![j].gaveUp = TRUE]
  /\ IF contJob[j].actor \notin {"start", "recovered", "built"} /\ contTask.live /\ ~Unresolved
     THEN Release(AfterAttempt, "adapter_failed", "failed_attempt")
     ELSE UNCHANGED <<contTask, contAttempts>>
  /\ UNCHANGED <<contRow, contCheckpoints, contStored, contSink>>

\* actor, finally: the service is terminated, with the gate's threads.
ServiceEnds(j) ==
  /\ contJob[j].proc = "running" /\ contJob[j].gaveUp
  /\ contJob' = [contJob EXCEPT ![j].proc = "dead"]
  /\ UNCHANGED <<contRow, contTask, contAttempts, contCheckpoints, contStored, contSink>>

\* The loop of a running service.
RecoverLease(j) ==
  /\ contJob[j].proc = "running"
  /\ contTask.holder # NoRow /\ ~contTask.live
  /\ IF Unresolved
     THEN Release("blocked", "effect_reconciliation_required", "effect_reconciliation_required")
     ELSE Release(AfterAttempt, "lease_expired_recovered", "lease_expired_recovered")
  /\ UNCHANGED <<contRow, contCheckpoints, contStored, contSink, contJob>>

LeaseRunsOut ==
  /\ contTask.live /\ contTask' = [contTask EXCEPT !.live = FALSE]
  /\ UNCHANGED <<contRow, contAttempts, contCheckpoints, contStored, contSink, contJob>>

ContNext ==
  \/ LeaseRunsOut
  \/ \E j \in ContJobs :
       \/ Define(j) \/ EnqueueDefined(j) \/ Prepared(j) \/ ProducerStarts(j) \/ SpawnActor(j)
       \/ Freeze(j) \/ Observe(j) \/ KillGroup(j) \/ TreeTerminated(j)
       \/ ConsumerReads(j) \/ TakeOver(j) \/ ConsumerFinishes(j) \/ IndependentReader(j)
       \/ JobFails(j) \/ JobKilled(j)
       \/ ProducerClaims(j) \/ RecordPending(j) \/ PublishArtifact(j) \/ PublishAmbiguous(j)
       \/ GateProducer(j) \/ PersistACheckpoint(j) \/ WriteBarrier(j)
       \/ AwaitRecovery(j) \/ ConsumerClaims(j) \/ GateConsumer(j) \/ ControlsRead(j)
       \/ LateRenewals(j) \/ LateEffects(j) \/ ApplyEffect(j) \/ ReplayEffect(j)
       \/ SubmitValidation(j) \/ ValidatorClaims(j) \/ ValidatorCheckpoint(j) \/ ValidatorCompletes(j)
       \/ ExecutorGivesUp(j) \/ ServiceEnds(j) \/ RecoverLease(j)

ContSpec == ContInit /\ [][ContNext]_contVars

-----------------------------------------------------------------------------
(***************************************************************************)
(* What the run is for.                                                    *)
(***************************************************************************)

\* At most one process tree ever works on the task of a run: whichever jobs are
\* started, killed or run twice, a second actor is only there once the first one
\* is dead (transition, kill_group and spawn_actor of native_shared_continuity.py).
OneActorTree ==
  \A j, k \in ContJobs :
    contJob[j].proc \in {"running", "frozen"} /\ contJob[k].proc \in {"running", "frozen"} => j = k

\* The effect in the sink is the successor's: applied once, in the generation and
\* the attempt that followed the recovery, with the artifact the producer had made
\* durable; and a run is only verified over a completed task with that effect
\* (sink_apply, b_fence_controls and independent_reader).
EffectOfTheSuccessor ==
  /\ contSink # NoRow => /\ contSink.gen = 2 /\ contSink.attempt = 2 /\ contSink.applications = 1
                         /\ contSink.payload = contRow.produced
                         /\ contAttempts[1].end = "lease_expired_recovered"
  /\ contRow.phase = "verified" => contSink # NoRow /\ contTask.state = "completed"
=============================================================================
