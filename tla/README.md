# TLA+ specifications of the engineering worker pool

This directory models the durable authority of the worker pool (`app/store.py`) and
the loop that keeps it honest (`app/reconcile.py`), the executor and the work
orchestrator on top of it, and the components that take an issue to a merged change:
research, evidence store, admission, code repair, governed commands, publication,
merge, and the continuity run across hosts. TLC checks the models on small instances; TLAPS
proves the safety of the store and of the components around it for every value of the
constants.
`PROJECT.json` is the machine-readable index: components, runs, the fault each
property was tested against, the map from definitions to source lines, findings,
hazards and theorems.

    tlc -workers 2 -config Effects.cfg MCWorkerPool
    tlapm TaskMoveProofs.tla

## 1. The system

The pool lets several workers, on several machines, build and validate changes to
several repositories. One database is the authority: whatever a worker believes,
only what the store has recorded counts.

| Part | State | Operations | Talks to |
|---|---|---|---|
| Worker pool store (`store.py`) | tables `workers`, `worker_repository_affinity`, `repository_lanes`, `tasks`, `task_attempts`, `quarantine`, `task_checkpoints`, `effect_reconciliations`, `pool_control` | enqueue, claim (general and exact), start, renew, submit, complete, fail, block, checkpoint, reconcile effect, requeue, register, heartbeat, affinities, lanes, cutover, recovery of expired leases, progress watchdog | called by the HTTP service, the reconciliation loop and the orchestrator |
| Reconciliation loop (`reconcile.py`) | running flag, counters | `run_cycle` every interval, start, stop | store |
| Work orchestrator (`work.py`) | table `work_runs` | create_work, record_evidence, record_merge_result | store, on separate connections |
| HTTP service (`main.py`) | none of its own | one handler per store command, bearer checks | store, orchestrator |
| PostgreSQL authority (`postgres_authority.py`) | the same tables, shared between hosts, and the schema's identity | the same statements under one advisory lock; explicit initialisation | its commit acknowledgement can be lost |
| Native one-shot executor (`native_one_shot.py`) | lock file, receipt, working tree | preflight, exact fenced claim, build or resume, checkpoint, publish, submit, validate, complete | pool over HTTP, artifact store, repository |
| Gateway session (`native_gateway_*.py`, `native_runtime.py`) | reservation, snapshot, event log, working copy | launch, inspect, attest, register, governed commands with readback | an external launcher and Gateway |
| Evidence store (`github_cas_transport.py`, `s3_git_bundle_artifact.py`, `issue_rag_receipt_cas.py`) | objects by digest, as commits of one branch | put if absent, read back, restore | GitHub, which loses answers |
| Research (`agent_rag_consumer.py`, `issue_rag_*.py`) | attempt-local | plan, retrieve, select, receipt, bind | a language model, GitHub |
| Admission (`issue_pool_admission.py`, `portfolio_*.py`) | none of its own | read sources, check lane, post one task, read it back | GitHub, portfolio pages, pool |
| Code workers (`structured_*.py`, `local_code_worker.py`, `issue_native_adapter.py`) | isolated Git copy, lock, receipt | propose, assemble edits, validate, commit, prove | a language model, Git |
| Publication (`issue_draft_pr.py`, `issue_publish_coordinator.py`, `github_draft_port.py`) | branch, draft pull request | one branch, one file, one draft, each read back | GitHub, pool |
| Governed merge (`governed_auto_merge.cjs`, `verify_postmerge_dispatch.cjs`) | none of its own | decide, look again, merge, read back, dispatch CI | GitHub |
| Continuity run (`native_shared_continuity.py`) | one row per run, one effect | producer, kill, consumer, fence controls, independent reader | pool, artifact store, processes |
| Other scripts, identity service (`services/`) | none durable of their own | rehearsal, smoke tests, token checks | everything above |

### What is hard

* **Leases.** A worker that lost its lease keeps running. Its commands arrive after
  the recovery, after another worker was granted the task, or after the same worker
  was granted it again. The fence is the credential (token, attempt, generation).
* **Two clocks in one table.** Expiry is decided by parsing in `_lease` and by
  comparing texts in the SQL of the recovery.
* **Effects on the outside world.** A fenced task declares an effect before it causes
  it. If the holder dies in between, nobody knows whether the effect happened, and
  no other worker may go on before an independent readback.
* **Nine statements that end or move a lease**, each of which must keep the lease
  columns, the attempt ledger and the quarantine in agreement.
* **Roles change.** A worker can be registered again as a validator after it built.
* **Reads outside the transaction.** `heartbeat_worker` and all methods of the
  orchestrator decide on rows they read before their transaction.
* **Crashes between two transactions** (`create_work`) and lost answers.
* **Progress.** A holder that renews its lease for ever must not keep its task, and a
  failing reconciliation cycle must not end the loop.
* **Somebody else's platform.** Evidence, drafts and merges live on GitHub: a request
  may be applied after its sender gave up, two clients may overlap, and people push,
  review, close and withdraw their approval between any two requests.
* **Long calls.** Research and repair wait for a language model; what was read before
  the call may no longer hold after it.
* **A copy anybody can touch.** Repair and governed commands work in a directory that
  other processes can edit or commit to between a check and the act it allows.
* **Edits that move each other.** A reply with several edits is assembled by trusted
  code that must not cut a block in two or apply an offset to the wrong text.

`PROJECT.json` lists each of these hazards at its line.

### What makes each part correct

* *Store*: lease columns and ledger agree; one lease per worker; results only from
  the current, unexpired holder; no unresolved effect escapes its generation and
  each one can be reconciled; validation is independent; attempts are bounded;
  terminal tasks stay terminal; every lease ends. In one sentence: it implements
  `TaskOwnership`.
* *Orchestrator*: the merge gate opens only on evidence about the validated commit;
  evidence is recorded once; replays never disturb the pool.
* *Executor*: an artifact is declared before it is published and published once, whatever
  step dies and whichever answer is lost; an accepted product is durable; a receipt is
  written only for what the pool accepted.
* *Evidence store*: together the clients are a write-once store (`ArtifactStore`): an
  object is added once, a receipt names an object that is there, only such an object is
  used; an answered write is receipted only within the reviewed part of the branch.
* *Research*: a receipt is given only for a commit that was still authorised, and still
  the head, after the last model call.
* *Admission*: an admitted issue was approved, at the commit the task starts from; what a
  dispatcher reports is what the pool holds.
* *Repair*: a receipt names a commit that changes the target alone and, as far as strangers
  left the copy in peace, whose function passed; two workers, a killed one and its successor
  never stack repairs.
* *Edit assembly*: what stays of a block stays under its own header; text edits mean what
  they mean applied at once.
* *Gateway session*: a result comes from a complete sequence of governed commands of one
  process, and from the repaired source unless the file is edited again and again.
* *Publication*: what is reported as published is the validated product, and after any
  loss a further run can always finish, unless a person intervened.
* *Governed merge*: what is merged was verified as it is; a post-merge run counts only for
  a commit the governor merged.
* *Authority*: commits form one history in which each saw all before it; a schema has one
  identity for ever.
* *Continuity run*: at most one process tree works on the task, and the effect is the
  successor's.

## 2. The modules

    IsoTime   EffectLedger
        \       /
       WorkerPool  --- refines --->  TaskOwnership <--- WorkOrchestrator
      /    |    | \                                          |
     /     |    |  WorkerPoolProofs                   MCWorkOrchestrator
    |      |  ReconciliationLoop                             |
    |      |    |                                            |
    | NativeOneShot  MCReconciliationLoop                    |
    |      |                                                 |
    | MCNativeOneShot                                        |
    MCWorkerPool                                             |
                                                             |
    IssueResearch  IssueAdmission  CodeRepair  EditAssembly  |
    GatewaySession  DraftPublication  GovernedMerge          |
    PostgresAuthority  SharedContinuity                      |
    GitHubCas --- refines ---> ArtifactStore                 |
          \__________________________________________________|
                              |
                          MCDelivery

The modules of the lower half share no state: each depends on the others only through
what it promises (a completed task, an approved issue, a stored object). `MCDelivery`
therefore explores them side by side, one per behaviour, instead of multiplying them.
Eight modules hold proofs: `WorkerPoolProofs`, `TaskMoveProofs` (which extends it),
`ExecutorProofs` (which extends that and `NativeOneShot`), `OrchestratorProofs`,
`AuthorityProofs`, `CasProofs`, `DeliveryProofs` and `RuntimeProofs`.

| Module | Models |
|---|---|
| `IsoTime` | `iso`, `parse_iso`: instants, and the order of their stored texts |
| `EffectLedger` | tables `task_checkpoints` and `effect_reconciliations` and the queries over them |
| `TaskOwnership` | no code: the abstract promise of the pool |
| `WorkerPool` | every method of `WorkerPoolStore` that changes a table |
| `WorkOrchestrator` | `create_work`, `record_evidence`, `record_merge_result`, over a pool that behaves as `TaskOwnership` |
| `NativeOneShot` | `NativeOneShotExecutor.run` with its pool client and artifact store, over the actions of `WorkerPool` |
| `ReconciliationLoop` | the controller's task over the actions of `WorkerPool`: started, stopped, asleep, a cycle that succeeds or raises |
| `PostgresAuthority` | transactions of several processes over one schema, and its initialisation |
| `ArtifactStore` | no code: the abstract write-once store |
| `GitHubCas` | put, readback and use of evidence objects, request by request |
| `IssueResearch` | research for an issue or a pull request, and the binding of its receipt |
| `IssueAdmission` | the owner-approved route and the portfolio bridge, over the pool's idempotent enqueue |
| `CodeRepair` | both code workers from lock to receipt, in one shared copy |
| `EditAssembly` | line anchors with guards, and unique text replacements |
| `GatewaySession` | a session of `native_runtime` with its attestation and governed commands |
| `DraftPublication` | overlapping publishers of one completed task |
| `GovernedMerge` | the merge workflow and the check of the run it dispatches |
| `SharedContinuity` | the jobs, actors, gate and sink of the continuity run |
| `WorkerPoolProofs` | proofs: the tables of the store and what they say of leases |
| `TaskMoveProofs` | proofs: effects, attempts, the action properties and the refinement of `TaskOwnership` |
| `ExecutorProofs` | proofs: what executors publish, submit and receipt, and that they use the store as specified |
| `OrchestratorProofs`, `AuthorityProofs`, `CasProofs` | proofs about one module each |
| `DeliveryProofs` | proofs about admission, research, publication and merge |
| `RuntimeProofs` | proofs about repair, the continuity run and the Gateway session |

### State and actions of `WorkerPool`

A task row carries the columns of `tasks` that decide anything, its `task_attempts`
rows as a sequence, and the number of its `quarantine` rows. The position of an
attempt in the sequence stands for the two random identifiers drawn for it
(`attempt_id`, `lease_token`). `checkpoints` and `reconciliations` are sets of rows
per task. Texts (stage, next action, references, free-form reasons) are left out;
`rules_ok` stands for the comparison of a worker's rules digest with the expected one.

Each mutating method runs in one `BEGIN IMMEDIATE` transaction and is one action; a
method that raises rolls back and is no step. `heartbeat_worker` reads before its
transaction, so it is `HeartbeatRead` and `HeartbeatWrite`, and `Restart` loses the
calls in between. `Claim` contains the recovery and the watchdog pass that
`claim_task` runs first, `ClaimExact` does not, as in the code.

A command (`Renew`, `Start`, `Submit`, `Complete`, `Fail`, `Block`,
`RecordCheckpoint`) may present *any credential ever issued* for the task, with or
without its fence. That covers delayed, duplicated and reordered commands, and the
retry of a command whose answer was lost.

Left open rather than guessed: the order in which the watchdog's query returns
stalled tasks (`Orders`), and the ties of the claim's `ORDER BY`.

Simplifications a reader should know:

* A method takes its timestamp just before its transaction. The model takes both at
  one instant: the wait for the database lock is not given time of its own.
* A replayed checkpoint or enqueue is answered from the stored row; the answer is
  not part of the state, so a replay is no step.
* Workers and tasks are never deleted by the code, so the models have no deletion.

### State and actions of `WorkOrchestrator`

`works` is the table `work_runs`; `calls` holds, per concurrent request, what it
decided on its reads and has not written yet. Every method is a read step and a write
step; `ServiceRestart` drops the calls. The pool is `TaskOwnership` itself
(`PoolStep` and the admission of a task in `create_work`); that the store implements it is
`ImplementsOwnership`.

### State and actions of `NativeOneShot`

The module extends `WorkerPool`: the executor's requests are the store's own actions.
`exec` holds, per worker, the program counter and the locals of `run` (the claimed
attempt, the latest checkpoint of the recovery context, the commit); `locks` and
`receipts` are the files of its host, `bucket` the artifact store, `late` the requests
that got no answer and may still be applied.

Each call `run` makes is one action, so leases expire, other executors run and the
process dies (`Crash`) between any two. `Send` is a request: it is applied and answered,
or the client raises and never repeats it, and then the request is lost, was refused, or
is in `late` until `Deliver` applies it. The client reads back after each POST; a
readback that fails makes an applied request look unanswered, which `late` covers.

| Code of `run` | Actions |
|---|---|
| lock, receipt, task, preflight, claim | `Begin` |
| `_recovery_context`, `_validate_recovery_effects` | `Recover`, `BlockUnsafe` |
| builder | `StartTask`, `BuildAnew` or `Materialize`, `DeclareEffect`, `Publish`, `VerifyArtifact`, `ConfirmEffect`, `SubmitProduct` |
| ambiguous publication | `DeclareUnknown`, `BlockAmbiguous` |
| validator | `Validate`, `RecordValidation`, `CompleteTask` |
| `except`, end | `FailTask`, `WriteReceipt` |

Every worker has a host of its own, and an operator prepares the checkout a run needs;
the manifest, workspace and adapter checks are a choice to raise. A run that finds a
receipt returns it and changes nothing.

### State and actions of the delivery modules

All of them follow one pattern. A process has a program counter and the locals the code
keeps between two requests; every request is one step, and everybody else moves in
between. A write to GitHub or to the pool may go unanswered: the caller raises (and, where
the code does so, reads back), and the request is served later or never (`CasServeLate`,
`DraftServeLate`, `AdmServeLate`). What people, clocks and operating systems do is a
bounded number of disturbances, marked external in the map.

* `GitHubCas`: `casBranch` is the list of commits of the evidence branch. `put_object` is
  `CasAuthorized`, `CasEnsureBranch` or `CasCreate`, `CasGet`, `CasWrite` or
  `CasUnanswered`, `CasReread`, `CasFinal`; `CasReadback` is the caller's own read.
  A receipt remembers whether its write was answered. Bytes are intact or not.
* `IssueResearch`: sources are read at a fixed commit; whether that commit is still the
  authorised head (`resStanding`) may change while the model answers. `CallBudget` is checked as the code counts.
* `IssueAdmission`: `PoolPost` is the store's idempotent enqueue: the first task of a
  request identity stays. The portfolio page, the issue, the approval, main and the lane
  change between reads.
* `DraftPublication`: the branch is a sequence of commits that carry a file; `publish_draft`
  is one step per request; the pull request follows its branch.
* `GovernedMerge`: `decide` and the second look are operators over what the requests saw;
  checks finish and run again, people push, review and close. `MergeRewinds` allows a
  force-push back to an earlier head and is off, see below.
* `CodeRepair`: a content of the target is its function and what surrounds it, because the
  validators look at different parts: the structured worker at the extracted function only,
  the local one at a module of one function, the validator role at every byte. The file,
  the Git index and the branch are apart, and looking at the base, writing, diffing, staging, committing,
  reading HEAD, proving, validating again and saving are one step each. Strangers write
  a text of `StrangerTexts` or commit between any two; `repTouched` counts that from the last
  look at the base to the receipt. A killed process leaves its lock, which is removed before
  the next run.
* `EditAssembly`: a state is a source and a reply, and a step adds an edit. A line is its
  indentation, its kind (`if`, `elif`, `else`, statement, comment), whether a suite follows
  and whether its text ends with a colon, which is all the strict check compares; a
  replacement has any such form, and `AnchorsRendered` adds the parse of the result. Two
  things a reply can do are outside the model: open a string or a bracket on one replaced line
  and close it on another, and use statements other than `if` that head a suite (a `for`
  behaves as an `if` that nothing continues).
* `PostgresAuthority`: the rows are the list of commits, since the statements are the
  store's own; a transaction remembers how many it saw. A commit that gets no
  acknowledgement may have happened, and its connection is retired.
* `GatewaySession`: the working copy is its file, what is staged and the head; the log is the
  sequence of the Gateway's events, in which `Readback` looks for the last command, past the
  inspections of a rival. `WorkspaceEdited` writes any other text, an earlier one too, so an
  edit can be undone. `AdapterReturns` is the adapter's last look at the file,
  `ExecutorAccepts` the executor's at the tree. The boundary holds for a window of time.
* `SharedContinuity`: the run's row, the task, its attempts and checkpoints, the sink, and
  per job its supervisor, its process tree and how far its actor is. The gate runs in the
  service, so it goes on after the executor gave up.

## 3. The runs

| Run | Asks | Result |
|---|---|---|
| `effects` | A fenced task, two leases, three checkpoints in every order, crashes, expiry, watchdog, readbacks, requeues: do unknown effects stay contained (`UnresolvedEffectsContained`), can each be reconciled (`OpenEffectsReconcilable`), does the ledger agree (`AttemptLedger`), is a late result refused (`NoLateResult`)? | holds |
| `retries` | One task, three leases, roles that change, affinity changes, heartbeats in two steps, restarts: `TypeOK`, `IndependentValidation`, `AttemptBudget`, `FailedIsQuarantined`, `HistoryIsKept`, `TerminalIsFinal` | holds |
| `lanes` | Two tasks compete for two workers and a lane of one place, or of two, or paused, once it is configured: `OneLeasePerWorker`, `ImplementsOwnership` (refinement) | holds |
| `watchdog` | The store under its loop, with cycles that fail and a service that is stopped and started, workers that go stale, endless renewals: `LeaseEventuallyEnds` | holds |
| `delivery` | The components around the pool, each with rivals, lost answers, kills and outside changes (table below) | holds |
| `executor` | Two builders and a validator, a fenced or unfenced task, three leases, crashes and late requests: `PublishedIsDeclared`, `PublishedOnce`, `ProductIsDurable`, `ReceiptIsBacked` | holds |
| `sub_second` | Does the recovery end only expired leases (`OnlyExpiredLeasesRecovered`)? | violated |
| `reroute` | Has work the watchdog reroutes somebody to take it (`StalledWorkHasEligibleWorker`)? | violated |
| `capacity` | Does a lane respect `max_in_flight` (`LaneCapacityRespected`)? | violated |
| `merge` | Is a recorded merge final (`MergeIsFinal`)? | violated |
| `cas_scope` | Is every receipt for an object within the limit of the branch (`ReceiptInScope`)? | violated |
| `takeover` | Does an executor that takes a task over go past its confirmed effects (`ConfirmedEffectsAreSkipped`)? | violated |

What `delivery` asks, part by part:

| Part | Instance | Properties |
|---|---|---|
| research | an issue and a pull-request run, two sources, two rounds, two changes of head or approval | `ReceiptStoodAfterModel` |
| cas | two clients with two and one objects to put, a branch limited to two, one outside change | `AnsweredWriteInScope`, `CasImplementsStore` (refinement) |
| admission | one dispatcher of each route, two runs each, main through three commits, one of them already repaired | `AdmittedIsApproved`, `ReportMatchesTask` |
| draft | two publishers with two runs, one outside change | `VerifiedHeadIsProduct`, `PublicationRecoverable` |
| merge | two heads, every change between a plain scope and one that needs more, two disturbances | `MergedWasVerified`, `CountedCiIsOfAMerge` |
| edits | every source of up to four lines or tokens, every reply of up to two edits of the forms in `LineForms` or `TextEdits` | `BlocksKept`, `EditsSimultaneous` |
| authority | three threads of two identities, two operators, three commits | `SerialCommits`, `OneAuthority` |
| work | two overlapping callers on one task | `WorkTypeOK`, `GateFollowsEvidence`, `EvidenceIsFinal` |
| repair | one worker of each kind, two tasks, two runs each, two disturbances with five texts | `OneRepair`, `RepairReceiptProved` |
| gateway | two runners of one session, builder or validator, two edits of the file, two kills or replaced files | `ResultIsGoverned` |
| continuity | three jobs on two runners, each producer or consumer | `OneActorTree`, `EffectOfTheSuccessor` |

### The six violations

* **`sub_second`** (`store.py:630`). `isoformat()` omits a zero fraction and `.` sorts
  before `Z`, so `…:05.5Z` compares as earlier than `…:05Z`. A lease can be taken away
  up to a second before it expires while `_lease`, which parses, still honours it.
  The damage is bounded: the holder's next command is refused and the attempt counted.
* **`reroute`** (`store.py:652`). `_worker_is_alternative` does not exclude the builder
  of the product, `claim_task` does. If the only free validator is the builder under a
  new role, the watchdog reports a reroute to a worker that may not take the task.
* **`capacity`** (`store.py:1298`). `requeue_blocked` sends built work back to
  `validating`, an active state, without looking at the lane. The lane may have
  taken another task meanwhile.
* **`merge`** (`work.py:314`). `record_merge_result` decides on a row read before its
  transaction and its `UPDATE` has no condition, unlike that of `record_evidence`. Two
  overlapping results are both accepted.
* **`takeover`** (`native_one_shot.py:488`). A validator records its result as a checkpoint
  without an effect and then completes. If `complete` gets no answer or the process dies
  between the two, the confirmed artifact effect is no longer in the latest checkpoint,
  and every later validator stops with `recovery_effect_unsafe` and blocks the task. It
  fails safe: nothing is repeated, but no requeue helps.
* **`cas_scope`** (`github_cas_transport.py:197`). The limit of the evidence branch is
  compared before a new write and after an answered one. An object that is already there,
  or whose write got no answer, is receipted after a readback of the object alone, also when
  other writers have taken the branch past its limit. The object itself is genuine
  (`CasImplementsStore`); what is lost is the claim that a fourth addition blocks.

### Close calls

Two properties hold only as far as a stranger does not come back too often, and state how
far:

* `RepairReceiptProved`. The structured worker validates the written file after the commit,
  but only the function, and compares only the *name* of what differs. One edit around the
  function between the write (`structured_code_worker.py:624`) and `git add` (`:628`) is
  therefore committed and receipted, with a patch that may not even show it; so a receipt
  of a touched copy says that the function passes, not that the rest is the base. Two
  touches can fool that too: a wrong text before `git add`, and the right one again between
  the look at the clean tree and the validation. The adapter's validator role renders the
  function over the base and wants the same bytes, so it refuses both.
* `ResultIsGoverned`. `ci.commit` commits what was staged, and the adapter then looks at the
  working file. With three edits (a wrong text before staging, the right one before the
  adapter's look, the wrong one again before the executor's clean-tree check) a commit of the
  wrong text is accepted as a builder's result. With two it is not: either the adapter or
  the clean tree refuses. The validator session of the product runs on its own copy.

`BlocksKept` is about what stays: a line and a header that are still code, an `elif` or
`else` that still is one. The checks on line edits leave two other cases to the validation
of the candidate, although `docs/STRUCTURED_ANCHORS.md:315` and the comment at
`structured_anchors.py:410` exclude them; without its conditions the property fails on both:

* A guard is refused before an `elif` or `else` of the *source* (`structured_anchors.py:332`).
  The same reply may replace the `if b:` at that anchor by `elif b:`: both edits are accepted,
  the guard is put in front, the result parses, and the `elif` continues the guard.
* A replacement must end with a colon exactly if its line did (`:421`). A comment can:
  `if b:` may become `# :`, and when the block before it is indented as deeply its suite
  joins that block.

Three things `GovernedMerge` leaves as they are in the code, because GitHub decides them:

* `pulls.merge` pins the head and not the base, and the list of files that was judged is
  read by pull request, not by commit. With force-pushes back to an earlier head
  (`MergeRewinds = TRUE`) TLC finds, with three disturbances, a merge whose file list was
  read at another head. The runs assume that heads are not rewound.
* A merge whose answer is lost counts as a refusal (`governed_auto_merge.cjs:246`): the pull
  request is merged and no post-merge run is dispatched.
* The post-merge run checks out main when it starts; `CountedCiIsOfAMerge` holds because the
  run compares its commit with the one it was dispatched for.

### Bounds, and why they are enough

| Bound | Limits | Chosen so that |
|---|---|---|
| `MaxClock` | the clock | a lease can expire, a task can stall, and both can happen to a later lease too |
| `AdminHorizon` | the last instant of enqueue, registration, lane, affinity and cutover changes | roles and affinities change before and after the first lease where a run is about that (`retries`, `reroute`) |
| `MaxGeneration` | leases per task | build, lost lease, second build or validation; three in `retries`, so that a requeue after exhaustion is followed by another claim |
| `MaxSequence` | checkpoints per lease | `pending`, `unknown` and a final statement about one effect |
| `MaxLate` | requests without an answer that may still arrive | one request of any kind is applied after anything else; for a fenced task two were checked once as well (1.5 million states) |
| `MaxCycleFailures` | failed cycles and shutdowns in `watchdog` | a cycle fails, the service restarts, and a lease still has to end |
| `ResRuns`, `AdmRuns`, `DraftRuns`, `RepRuns`, `CasRuns` | calls of one process | a call that was lost is made again, beside a rival's |
| `ResChanges`, `CasDisturbances`, `DraftDisturbances`, `MergeDisturbances`, `RepDisturbances`, `GwDisturbances` | outside changes | one change between any two steps and, where there are two, its undoing or a second kind |
| `GwEdits` | edits of the session's file by somebody else | a wrong text and its undoing; from the third edit on the content is no longer promised (checked once with three) |
| `StrangerTexts` | what strangers write in the repair copy | the original, a wrong function, and the right one alone, with a comment and with code around it: what the three validators tell apart |
| `CasCapacity` | objects of the evidence branch (three in the code) | two writers meet at the limit; `cas_scope` uses more writes |
| `MaxLines`, `MaxText`, `MaxEdits` | sources and replies | a compound statement with a clause inside, two edits that touch, overlap or move each other |
| `AuthCommits`, `AuthMaxClock`, `GwWindow`, `GwMaxClock` | transactions and time | two commits between a snapshot and a lock; a window that runs out between two commands |
| `MaxEpoch` | leases per task in the part `work` | one build, one lost validation, one validation |

`WithinHorizon` keeps a claim from being granted when too little modelled time is left
for the watchdog to end it; without it `LeaseEventuallyEnds` would fail only because
the clock stops. It guards the steps that put off the moment at which the watchdog acts:
claims, starts and recorded checkpoints.

In `executor` and `takeover` workers are registered and the task is enqueued at the first
instant, a lease lasts one tick and three leases fit: one builder that is lost, one that
takes over, one validator; or one builder and two validators.

Symmetry is used where no property distinguishes the elements (workers that may be
registered in either role, commits, checkpoint ids, callers) and not in `watchdog`,
which checks liveness. Constants of the store that no run varies are at representative
values: a lease is shorter than or equal to the stall limit, and in `watchdog` the heartbeat
TTL is short, so that workers go stale, and a lease lasts two ticks, so that it can be
renewed before it expires.

### Fairness

`LoopSpec` assumes weak fairness of `Tick` (time passes) and of the controller's own
steps: the event loop keeps scheduling a task that is not finished, and the lifespan of a
service that is restarted starts it. That a cycle runs again and again is not assumed: it
follows from `_run`, which catches every exception of a cycle, counts it, sleeps and goes
on; a loop that dies with its exception violates `LeaseEventuallyEnds`. Failed cycles and
shutdowns are finitely many, since with endless failures nothing could be promised.
Nothing is assumed of workers or operators: a worker may stop at any step for ever. The
delivery modules state safety only; their callers may give up anywhere.

## 4. The proofs

Every theorem is about a specification, `Spec`, `WorkSpec`, `CasSpec` and so on, with any
number of processes, tasks, repositories and values and with every bound left open: the
bounds only limit what TLC explores.

| Theorem | States |
|---|---|
| *`WorkerPoolProofs`* | |
| `TypeCorrectness` | `Spec => []TypeOK` |
| `LedgerAgrees` | `Spec => []AttemptLedger` |
| `WorkersHoldOneTask` | `Spec => []OneLeasePerWorker` |
| `ValidationIsIndependent` | `Spec => []IndependentValidation` |
| `QuarantineMeansFailed` | `Spec => []FailedIsQuarantined` |
| *`TaskMoveProofs`* | |
| `EffectsContained` | `Spec => []UnresolvedEffectsContained` |
| `EffectsReconcilable` | `Spec => []OpenEffectsReconcilable` |
| `AttemptsBounded` | `Spec => []AttemptBudget` |
| `TerminalStays` | `Spec => TerminalIsFinal` |
| `HistoryStays` | `Spec => HistoryIsKept` |
| `LateResultsRefused` | `Spec => NoLateResult` |
| `StoreImplementsOwnership` | `Spec => ImplementsOwnership`, the refinement |
| *`ExecutorProofs`* | |
| `EffectsDeclaredFirst`, `ArtifactsPublishedOnce` | `ExecSpec => []PublishedIsDeclared`, `[]PublishedOnce` |
| `ProductsAreDurable` | `ExecSpec => []ProductIsDurable` |
| `ReceiptsAreBacked` | `ExecSpec => []ReceiptIsBacked` |
| `ExecutorsUseTheStore` | `ExecSpec => Spec`, every step of an executor is a transaction of the store |
| *`OrchestratorProofs`* | |
| `WorkTypes`, `GateBehindEvidence` | `WorkSpec => []WorkTypeOK`, `[]GateFollowsEvidence` |
| `EvidenceStays` | `WorkSpec => EvidenceIsFinal` |
| *`AuthorityProofs`* | |
| `CommitsAreSerial`, `SchemaHasOneAuthority` | `AuthSpec => []SerialCommits`, `[]OneAuthority` |
| *`CasProofs`* | |
| `AnsweredWritesInScope` | `CasSpec => []AnsweredWriteInScope` |
| `BranchIsAStore` | `CasSpec => CasImplementsStore`, the refinement |
| *`DeliveryProofs`* | |
| `ReportsAreTrue`, `TasksAreApproved` | `AdmSpec => []ReportMatchesTask`, `[]AdmittedIsApproved` |
| `ReceiptsStood` | `ResearchSpec => []ReceiptStoodAfterModel` |
| `VerifiedHeads`, `PublicationsRecover` | `DraftSpec => []VerifiedHeadIsProduct`, `[]PublicationRecoverable` |
| `MergesWereVerified` | `MergeSpec => [](~MergeRewinds => MergedWasVerified)` |
| `CountedRunsAreMerges` | `MergeSpec => []CountedCiIsOfAMerge` |
| *`RuntimeProofs`* | |
| `ReceiptsAreProved`, `CopyIsRepairedOnce` | `RepairSpec => []RepairReceiptProved`, `[]OneRepair` |
| `OneTree`, `EffectIsTheSuccessors` | `ContSpec => []OneActorTree`, `[]EffectOfTheSuccessor` |
| `ResultsAreGoverned` | `GwSpec => []ResultIsGoverned` |

`MergesWereVerified` carries the condition the run carries too: with a rewind of the
branch the property is false (section 3, close calls). The orchestrator is proved over
`TaskOwnership`, the promise that `StoreImplementsOwnership` proves the store to keep. With `ExecutorsUseTheStore` every theorem about `Spec` also holds of a
pool that executors use, crash in and send late requests to.

### Assumptions

`ConstantsAssumption`, `TicksPerSecondAssumption`, `MergeAssumption`, `AdmAssumption`,
`ResearchAssumption` and `AuthAssumption` give the types of the constants and keep the two
kinds of process of a component apart. The others (`NoneAssumption`, `NobodyAssumption`,
`WorkAssumption`, `CasAssumption`, `DraftAssumption`, `RepairAssumption`, `ContAssumption`,
`GatewayAssumption`, `ExecutorAssumption`) say besides that the value that stands for a missing row, branch,
file or holder is none of the ordinary values, as SQL's `NULL` and Python's `None` are
not. `ExecutorAssumption` also leaves room for the checkpoints of a run: `MaxSequence`, a
bound of the model, is at least 2, since a run numbers its checkpoints 1 and 2.
`MaxGeneration` and `MaxLate` are bounds of the model too, and the theorems hold for each
value of them. TLC evaluates all of the assumptions on the runs.

### The tables of the store

None of the theorems of `WorkerPoolProofs` is inductive alone. Releasing a lease writes to
the attempt the row names, so typing needs `AttemptLedger` (the index is inside the
sequence). Independence of a completion needs that a leased `validating` row names its
holder as validator, which needs the lease columns. A task that fails is quarantined once
only because statements that fail a task start from a state that is not `failed`. The
invariant is

    IInv == TablesOK /\ TasksOK(tasks)

* `RowOK(row)`: type, lease columns and attempt history, independence, quarantine, of
  one task row;
* `TasksOK(tk)`: every row of `tk` is `RowOK` and no worker holds two of them. It is a
  predicate on a *table*, because `claim_task` works on the table its own recovery
  pass left, which is not yet the state;
* `TablesOK`: the other tables are typed, and a heartbeat in flight belongs to a
  registered worker.

The argument goes up in layers: what each row operation (`EndAttempt`, `Release`,
`Blocked`, `Reclaimed`, `Rerouted`, `Claimed`) does to `RowOK`; what the two recovery
passes do to `TasksOK`; one lemma per action; `NextOK`; `Invariance`.

### The moves of a task

`TaskMoveProofs` reads every transaction as a `TaskStep`: each task row makes one *move*
(`Admit`, `Grant`, `Keep`, `HandIn`, `Finish`, `Withdraw`, `Resume`) or none, or the two
passes of the recovery move it (`Recovered`) and perhaps a claim then grants it. That is shown once, action by
action. Each property then needs one lemma per move instead of one per action, and the
moves are what `TaskOwnership` names, so the refinement is read off them. The invariant
adds three predicates on a row to `IInv`:

* `StageRow`: before validation there is no product, and a lease is at least the first;
* `BudgetRow`: attempts against `max_attempts`, the parked ones counted apart;
* `EffectRow`: only fenced tasks have checkpoints, and none of a lease yet to be granted;
  an unresolved effect is of the latest generation and the latest statement about that
  effect, and its task is leased or parked for the readback. The generations are needed
  because a grant makes a new one: an effect left open by an earlier lease would escape.

### The executors

Between two calls of `run` its lease may expire, another executor may take the task over,
and a request may be applied after its run has ended. None of the four properties is
inductive: that nothing is published undeclared depends on what a run knew when it sent
the `put`, perhaps several generations ago. The invariant is

    ExecInv == PoolInv /\ RunsInv

* `PoolInv`: `TaskInv` of the store; checkpoint ids are unique, a table that is not empty
  has a latest row, and what it says is confirmed is stored; a fenced product was
  confirmed; and every artifact has an `Origin`, the declaration of its own generation,
  *with no checkpoint of an earlier generation*. The last clause gives `PublishedOnce`: of
  two generations that published, neither can be the later one.
* `RunsInv`: what each run relies on at its program counter (`PointOK`), what each late
  request relies on (`RequestOK`), and what each receipt says. A run that found no
  checkpoint keeps `NoEarlier`; one about to publish has its `Origin`; one about to submit
  has its confirmation.

All of these are facts of the kind that no step takes back, which `Grew` states: attempts,
products, completions, checkpoints and artifacts stay, and a new checkpoint is of a
generation no older than any there is, because the store accepts one only from the lease
held now. The proof has two halves. `ApplyStep` and `SurroundingsStep` show, once for every
request and every step of the pool, that `PoolInv` and `Grew` hold; then each call of `run`
needs only where it leaves its own run. TLC checked `ExecInv` under the bounds of the run
`executor` before it was proved (605,990 distinct states).

### The components around the pool

What a process read may be stale when it acts, so each invariant says what a process may
*still* rely on at each point of its program, and the proof shows that no step of anybody
else takes that away.

* `WorkInv`: a call in flight relies on facts that are never undone (the task is done, its
  product stands, the evidence is verified), which is why a stale read is harmless for the
  gate. The merge state is not such a fact, hence the violation `merge`.
* `AuthInv`: who is past the lock has it, the identity it verified is the schema's, and a
  snapshot taken under the lock contains every commit.
* `CasInv`: an object is added once, because GitHub adds a file only where there is none; and a place
  on the branch, once within the limit, stays, since a branch only grows.
* `AdmInv`: a task in the pool stays, so whoever was told it created a task is alone until
  it reports. A head once approved and found failing stays so.
* `ResearchInv`: a researcher that has read the head calls no model again.
* `DraftInv`: the branch only grows, so what was compared at its first commit stays
  compared; as long as nobody intervened, branch and pull request are in one of the shapes
  a later run accepts (`Quiet`).
* `MergeInv`: without rewinds a pull request leaves a commit only for a later one, so what
  the governor knows of its commit holds of what it merges; the pinned head does the rest.
* `RepairInv`: the lock is exclusive, and there is no worker's commit before the holder's
  own. Strangers' texts may pass, so the invariant counts touches: `RepairKnows` says what
  file, index, branch and patch are at each point if nobody touched the copy since the last
  look at the base. `Backed` is what one touch leaves of that: what was staged or committed
  passes, or it is still the text of the file, and then the second validation finds out.
* `TreeInv`: the phase of the run only advances, each role is taken by one job, and once
  the phase says that the producer's tree is terminated it is dead. `SuccInv` adds the
  history of the pool: the first lease is the producer's and was recovered, the second is
  the successor's, and the sink refuses every other.
* `GwInv`: only the process that created the evidence runs commands, so the commands in
  the log are its own and in the order of its role, up to the step it is at. `Tree` and
  `Returnable` count edits against the tree: a wrong text that is staged or committed took one, the
  right file over a wrong commit another, and a clean tree after that a third.

### Only model-checked

* `LeaseEventuallyEnds` rests on fairness, which is out of the prover's reach.
* `BlocksKept` and `EditsSimultaneous` say what recursive assemblers compute for every
  source and reply; that needs induction over data, which the provers cannot do.
* The six violated properties are false, so TLC's counterexamples are all there is.

## 5. Not modelled, and why

* Authentication, auditing, response shapes and schema migration of the HTTP service:
  no effect on the tables that the store does not decide.
* The texts and digests of tasks, prompts, diffs and evidence; the Python grammar the code
  workers admit, the sandboxed child that validates, and what a model answers beyond which
  kind of answer it is.
* The layout of Git bundles, event logs and HTTP answers: whether they are intact and what
  they name is modelled.
* The remote variant of the runtime (`native_remote_runtime.py`, the same order of steps
  behind HTTPS) and its readback, which only reads.
* Operating-system file permissions (`secure_file.py`) and the identity service, which
  keep no state.
* Read-only views (`task_diagnostics.py`, snapshots) and pure report checks
  (`evaluate_cutover_readiness.py`).
* The hosted rehearsals and the end-to-end scripts, which walk modelled components through
  one scripted scenario each.

## 6. Plan

1. **Done**: the store, its abstract ownership, the orchestrator and the first proofs.
2. **Done**: the one-shot executor over the store itself.
3. **Done**: the evidence store with its write-once abstraction, research, admission,
   repair, edit assembly, governed commands, publication and merge.
4. **Done**: the reconciliation loop as a module, so that the fairness of a cycle is a
   consequence; the PostgreSQL authority; the continuity run.
5. **Done**: proofs of the store's invariants and action properties, of its refinement of
   `TaskOwnership`, and of the safety of every component around the pool but edit assembly.
6. **Done**: proofs about the executors, over the proofs of the store: what they publish,
   submit and receipt, and that each of their steps is a transaction of the store.
7. **Open**: `LeaseEventuallyEnds`, `BlocksKept` and `EditsSimultaneous` stay with TLC
   (section 4); the parts of section 5 stay unmodelled.
