-------------------------- MODULE WorkOrchestrator --------------------------
(***************************************************************************)
(* The persistent facade over the pool (app/work.py): one work run per     *)
(* task, its evidence and the result of its governed merge.  The pool is   *)
(* the one TaskOwnership promises.                                         *)
(*                                                                         *)
(* Each method reads the work run (and the task) on connections of their   *)
(* own, decides, and then opens the transaction that writes: two steps,    *)
(* with other callers in between.  A call that is refused ends at its      *)
(* first step and leaves nothing behind.                                   *)
(*                                                                         *)
(* A work run is read before its task.  Reading both at once loses no      *)
(* behaviour: what the calls ask of the task ("completed", its product)    *)
(* never changes once true, and a run changes only after it is true.       *)
(***************************************************************************)
EXTENDS TaskOwnership

CONSTANTS
  Callers,     \* concurrent requests of the HTTP service
  Evidence,    \* (validation_run_id, evidence_reference) pairs
  Commits,     \* merge commits
  Reasons,     \* reasons for merged=false
  MaxEpoch     \* bound: leases granted per task

VARIABLES
  works,       \* table work_runs, by task: a row, or Nobody
  calls        \* per caller, a call between its reads and its transaction

workVars == <<own, works, calls>>

WorkRow ==
  [evidence_state : {"pending", "verified"},
   merge_state : {"pending", "ready", "blocked", "merged"},
   evidence : Evidence \cup {Nobody},
   validation_sha : Products \cup {Nobody},
   expected_head_sha : Products \cup {Nobody},
   merge_commit_sha : Commits \cup {Nobody},
   merge_reason : Reasons \cup {Nobody}]

\* Fault: the column defaults of the schema are missing.
NewWorkWithoutDefaults ==
  [evidence_state |-> Nobody, merge_state |-> Nobody, evidence |-> Nobody,
   validation_sha |-> Nobody, expected_head_sha |-> Nobody,
   merge_commit_sha |-> Nobody, merge_reason |-> Nobody]

NewWork ==
  [evidence_state |-> "pending", merge_state |-> "pending", evidence |-> Nobody,
   validation_sha |-> Nobody, expected_head_sha |-> Nobody,
   merge_commit_sha |-> Nobody, merge_reason |-> Nobody]

Call ==
  [op : {"create"}, task : Tasks]
    \cup [op : {"evidence"}, task : Tasks, sha : Products, evidence : Evidence]
    \cup [op : {"merge"}, task : Tasks, merge_state : {"merged", "blocked"},
          commit : Commits \cup {Nobody}, reason : Reasons \cup {Nobody}]

\* Caller c has passed its reads and goes on to its transaction.
Proceed(c, call) ==
  /\ calls[c] = Nobody
  /\ calls' = [calls EXCEPT ![c] = call]
  /\ UNCHANGED works

Return(c) == calls' = [calls EXCEPT ![c] = Nobody]

\* NULL is no commit and no row, and no call in flight is one.
ASSUME WorkAssumption ==
  Nobody \notin Commits /\ Nobody \notin WorkRow /\ Nobody \notin Call /\ MaxEpoch \in Nat

-----------------------------------------------------------------------------
(* create_work: enqueue_task in one transaction, the work run in another *)

CreateEnqueue(c, t) ==
  /\ Proceed(c, [op |-> "create", task |-> t])
  /\ own' = IF own[t] = Unowned THEN [own EXCEPT ![t] = Released(@, "waiting")] ELSE own

CreateInsert(c) ==
  /\ calls[c] # Nobody /\ calls[c].op = "create"
  /\ LET t == calls[c].task IN
     works' = IF works[t] = Nobody THEN [works EXCEPT ![t] = NewWork] ELSE works
  /\ Return(c)
  /\ UNCHANGED own

-----------------------------------------------------------------------------
(* record_evidence *)

\* The evidence is about the exact commit of a completed task, and the run read
\* has none yet; evidence the run has is answered or refused without a write.
EvidenceRead(c, t, sha, ev) ==
  /\ works[t] # Nobody
  /\ own[t].phase = "done" /\ own[t].product # Nobody
  /\ sha = own[t].product
  /\ works[t].evidence_state # "verified"
  /\ Proceed(c, [op |-> "evidence", task |-> t, sha |-> sha, evidence |-> ev])
  /\ UNCHANGED own

\* The columns the UPDATE of record_evidence sets.
Verified(row, call) ==
  [row EXCEPT !.evidence_state = "verified", !.merge_state = "ready",
              !.evidence = call.evidence, !.validation_sha = call.sha,
              !.expected_head_sha = call.sha]

\* Fault: the UPDATE has no "AND evidence_state='pending'".
EvidenceOverwrite(c) ==
  /\ calls[c] # Nobody /\ calls[c].op = "evidence"
  /\ works' = [works EXCEPT ![calls[c].task] = Verified(@, calls[c])]
  /\ Return(c)
  /\ UNCHANGED own

\* UPDATE ... WHERE work_id=? AND evidence_state='pending'.
EvidenceWrite(c) ==
  /\ calls[c] # Nobody /\ calls[c].op = "evidence"
  /\ LET t == calls[c].task IN
     works' = IF works[t].evidence_state = "pending"
              THEN [works EXCEPT ![t] = Verified(@, calls[c])]
              ELSE works
  /\ Return(c)
  /\ UNCHANGED own

-----------------------------------------------------------------------------
(* record_merge_result *)

\* Fault: the state of the evidence is not looked at.
MergeableUnverified(t, sha) == sha = own[t].product

\* What both results ask of the run that was read.
Mergeable(t, sha) ==
  /\ works[t].evidence_state = "verified" /\ works[t].merge_state # "pending"
  /\ sha = own[t].product /\ sha = works[t].expected_head_sha

\* merged=true, with or without a reason; a run that is already merged is
\* answered or refused.
MergedRead(c, t, sha, commit, reason) ==
  /\ works[t] # Nobody
  /\ Mergeable(t, sha)
  /\ works[t].merge_state # "merged"
  /\ Proceed(c, [op |-> "merge", task |-> t, merge_state |-> "merged",
                 commit |-> commit, reason |-> reason])
  /\ UNCHANGED own

\* merged=false; a run that is merged or blocked is answered or refused.
NotMergedRead(c, t, sha, reason) ==
  /\ works[t] # Nobody
  /\ Mergeable(t, sha)
  /\ works[t].merge_state \notin {"merged", "blocked"}
  /\ Proceed(c, [op |-> "merge", task |-> t, merge_state |-> "blocked",
                 commit |-> Nobody, reason |-> reason])
  /\ UNCHANGED own

\* The columns the UPDATE of record_merge_result sets.
Settled(row, call) ==
  [row EXCEPT !.merge_state = call.merge_state, !.merge_commit_sha = call.commit,
              !.merge_reason = call.reason]

\* UPDATE ... WHERE work_id=?: whatever the run says by now.
MergeWrite(c) ==
  /\ calls[c] # Nobody /\ calls[c].op = "merge"
  /\ works' = [works EXCEPT ![calls[c].task] = Settled(@, calls[c])]
  /\ Return(c)
  /\ UNCHANGED own

-----------------------------------------------------------------------------
\* The pool moves task t as TaskOwnership says.
PoolStep(t) ==
  /\ \E b \in [phase : Phases, holder : Workers \cup {Nobody}, epoch : 0..MaxEpoch,
               product : Products \cup {Nobody}, builder : Workers \cup {Nobody}] :
       /\ Move(own[t], b)
       /\ own' = [own EXCEPT ![t] = b]
       /\ Exclusive(own')
  /\ UNCHANGED <<works, calls>>

\* The service dies and comes back: calls in flight are lost.
ServiceRestart ==
  /\ \E c \in Callers : calls[c] # Nobody
  /\ calls' = [c \in Callers |-> Nobody]
  /\ UNCHANGED <<own, works>>

WorkInit ==
  /\ Init
  /\ works = [t \in Tasks |-> Nobody]
  /\ calls = [c \in Callers |-> Nobody]

WorkNext ==
  \/ \E c \in Callers, t \in Tasks :
       \/ CreateEnqueue(c, t)
       \/ \E sha \in Products :
            \/ \E ev \in Evidence : EvidenceRead(c, t, sha, ev)
            \/ \E commit \in Commits, reason \in Reasons \cup {Nobody} :
                 MergedRead(c, t, sha, commit, reason)
            \/ \E reason \in Reasons : NotMergedRead(c, t, sha, reason)
  \/ \E c \in Callers : CreateInsert(c) \/ EvidenceWrite(c) \/ MergeWrite(c)
  \/ \E t \in Tasks : PoolStep(t)
  \/ ServiceRestart

WorkSpec == WorkInit /\ [][WorkNext]_workVars

-----------------------------------------------------------------------------
\* Type correctness of the work runs and the calls in flight.
WorkTypeOK ==
  /\ own \in [Tasks -> Ownership]
  /\ works \in [Tasks -> WorkRow \cup {Nobody}]
  /\ calls \in [Callers -> Call \cup {Nobody}]

\* The merge gate opens only on evidence about the commit a validator other than
\* its builder completed, and the head it expects is that commit, whatever calls
\* of other requests overlapped: record_evidence and record_merge_result.
GateFollowsEvidence ==
  \A t \in Tasks : works[t] # Nobody =>
    /\ works[t].merge_state # "pending" <=> works[t].evidence_state = "verified"
    /\ works[t].evidence_state = "verified" =>
         /\ own[t].phase = "done"
         /\ works[t].validation_sha = own[t].product
         /\ works[t].expected_head_sha = own[t].product
    /\ works[t].merge_state = "merged" <=> works[t].merge_commit_sha # Nobody

\* Evidence once verified is never replaced, even by a call that read the run
\* while it was still pending.
EvidenceIsFinal ==
  [][\A t \in Tasks : works[t] # Nobody =>
       /\ works'[t] # Nobody
       /\ works[t].evidence_state = "verified" =>
            /\ works'[t].evidence_state = "verified"
            /\ works'[t].evidence = works[t].evidence
            /\ works'[t].expected_head_sha = works[t].expected_head_sha]_workVars

\* "resultado de merge divergente no replay" (record_merge_result refuses it):
\* a recorded merge is never replaced by another result.
MergeIsFinal ==
  [][\A t \in Tasks : works[t] # Nobody /\ works[t].merge_state = "merged" =>
       /\ works'[t].merge_state = "merged"
       /\ works'[t].merge_commit_sha = works[t].merge_commit_sha]_workVars
=============================================================================
