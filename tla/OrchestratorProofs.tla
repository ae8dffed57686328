------------------------- MODULE OrchestratorProofs -------------------------
(***************************************************************************)
(* Proofs about the work orchestrator, for any number of callers, tasks    *)
(* and work runs: its table and its calls keep their types, the merge gate *)
(* follows the evidence, and evidence is final.                            *)
(*                                                                         *)
(* A call decides on what it read and writes later, so the invariant says  *)
(* what is still true of a call in flight: what it read of the task cannot *)
(* change any more, because a finished task never moves again, and a run   *)
(* with evidence keeps it.                                                 *)
(***************************************************************************)
EXTENDS WorkOrchestrator, TLAPS

\* What the merge gate says about one run and its task.
GateRow(row, task) ==
  row # Nobody =>
    /\ row.merge_state # "pending" <=> row.evidence_state = "verified"
    /\ row.evidence_state = "verified" =>
         task.phase = "done" /\ row.validation_sha = task.product
           /\ row.expected_head_sha = task.product
    /\ row.merge_state = "merged" <=> row.merge_commit_sha # Nobody

\* What is still true of a call that read its run and its task in earlier states,
\* now that the tables are w and o.
InFlight(call, w, o) ==
  /\ call.op = "evidence" =>
       /\ w[call.task] # Nobody /\ o[call.task].phase = "done"
       /\ call.sha = o[call.task].product
  /\ call.op = "merge" =>
       /\ w[call.task] # Nobody /\ w[call.task].evidence_state = "verified"
       /\ call.merge_state = "merged" <=> call.commit # Nobody

WorkInv ==
  /\ WorkTypeOK
  /\ Exclusive(own)
  /\ \A t \in Tasks : GateRow(works[t], own[t])
  /\ \A c \in Callers : calls[c] # Nobody => InFlight(calls[c], works, own)

-----------------------------------------------------------------------------
(* Rows and calls *)

LEMMA ReleasedType ==
  ASSUME NEW x \in Ownership, NEW p \in Phases
  PROVE  /\ Released(x, p) \in Ownership /\ Released(x, p).holder = Nobody
         /\ Released(x, p).epoch = x.epoch /\ Released(x, p).phase = p
  BY DEF Released, Ownership

LEMMA UnownedType ==
  /\ Unowned \in Ownership /\ Unowned.phase = "absent" /\ Unowned.holder = Nobody
  BY DEF Unowned, Ownership, Phases

LEMMA CallType ==
  ASSUME NEW k \in Call
  PROVE  /\ k.op \in {"create", "evidence", "merge"} /\ k.task \in Tasks /\ k # Nobody
         /\ k.op = "evidence" => k.sha \in Products /\ k.evidence \in Evidence
         /\ k.op = "merge" => /\ k.merge_state \in {"merged", "blocked"}
                              /\ k.commit \in Commits \cup {Nobody}
                              /\ k.reason \in Reasons \cup {Nobody}
<1>1. k # Nobody BY WorkAssumption
<1>2. CASE k \in [op : {"create"}, task : Tasks]
  BY <1>1, <1>2
<1>3. CASE k \in [op : {"evidence"}, task : Tasks, sha : Products, evidence : Evidence]
  BY <1>1, <1>3
<1>4. CASE k \in [op : {"merge"}, task : Tasks, merge_state : {"merged", "blocked"},
                  commit : Commits \cup {Nobody}, reason : Reasons \cup {Nobody}]
  BY <1>1, <1>4
<1> QED BY <1>2, <1>3, <1>4 DEF Call

LEMMA NewWorkRow ==
  ASSUME NEW task
  PROVE  NewWork \in WorkRow /\ NewWork # Nobody /\ GateRow(NewWork, task)
<1>1. NewWork \in WorkRow BY DEF NewWork, WorkRow
<1> QED BY <1>1, WorkAssumption DEF NewWork, GateRow

LEMMA VerifiedRow ==
  ASSUME NEW row \in WorkRow, NEW task, GateRow(row, task), row.evidence_state = "pending",
         NEW k, k.sha \in Products, k.evidence \in Evidence,
         task.phase = "done", k.sha = task.product
  PROVE  LET r == Verified(row, k) IN
         r \in WorkRow /\ r # Nobody /\ GateRow(r, task) /\ r.evidence_state = "verified"
<1> DEFINE r == Verified(row, k)
<1>1. /\ r \in WorkRow /\ r.evidence_state = "verified" /\ r.merge_state = "ready"
      /\ r.validation_sha = k.sha /\ r.expected_head_sha = k.sha
      /\ r.merge_commit_sha = row.merge_commit_sha
  BY DEF Verified, WorkRow
<1>2. row.merge_commit_sha = Nobody
  BY WorkAssumption DEF GateRow
<1> HIDE DEF r
<1>3. r # Nobody BY <1>1, WorkAssumption
<1>4. GateRow(r, task) BY <1>1, <1>2 DEF GateRow
<1> QED BY <1>1, <1>3, <1>4 DEF r

LEMMA SettledRow ==
  ASSUME NEW row \in WorkRow, NEW task, GateRow(row, task), row.evidence_state = "verified",
         NEW k, k.merge_state \in {"merged", "blocked"},
         k.commit \in Commits \cup {Nobody}, k.reason \in Reasons \cup {Nobody},
         k.merge_state = "merged" <=> k.commit # Nobody
  PROVE  LET r == Settled(row, k) IN
         /\ r \in WorkRow /\ r # Nobody /\ GateRow(r, task)
         /\ r.evidence_state = "verified" /\ r.evidence = row.evidence
         /\ r.expected_head_sha = row.expected_head_sha
<1> DEFINE r == Settled(row, k)
<1>1. /\ r \in WorkRow /\ r.evidence_state = "verified" /\ r.merge_state = k.merge_state
      /\ r.validation_sha = row.validation_sha /\ r.expected_head_sha = row.expected_head_sha
      /\ r.merge_commit_sha = k.commit /\ r.evidence = row.evidence
  BY DEF WorkRow, Settled
<1> HIDE DEF r
<1>2. row # Nobody /\ r # Nobody BY <1>1, WorkAssumption
<1>3. GateRow(r, task) BY <1>1, <1>2 DEF GateRow
<1> QED BY <1>1, <1>2, <1>3 DEF r

-----------------------------------------------------------------------------
(* The steps *)

\* A finished task never moves again.
LEMMA DoneIsFinal == ASSUME NEW a, NEW b, Move(a, b) PROVE a.phase # "done"
  BY UnownedType DEF Move, Admit, Withdraw, Deliver, Finish, Resume, Grant

\* What the invariant needs of a step: tables of the right type, finished tasks and
\* evidence kept, every run still behind its gate, and no call in flight but those
\* that were, and at most one that is checked anew.
Kept ==
  /\ WorkTypeOK' /\ Exclusive(own')
  /\ \A t \in Tasks : own[t].phase = "done" => own'[t] = own[t]
  /\ \A t \in Tasks : works[t] # Nobody => works'[t] # Nobody
  /\ \A t \in Tasks : works[t] # Nobody /\ works[t].evidence_state = "verified" =>
       /\ works'[t].evidence_state = "verified"
       /\ works'[t].evidence = works[t].evidence
       /\ works'[t].expected_head_sha = works[t].expected_head_sha
  /\ \A t \in Tasks : GateRow(works'[t], own'[t])

LEMMA KeptOK ==
  ASSUME WorkInv, Kept,
         \A c \in Callers : calls'[c] # Nobody =>
           calls'[c] = calls[c] \/ InFlight(calls'[c], works, own)
  PROVE  WorkInv'
<1>1. ASSUME NEW k \in Call, InFlight(k, works, own) PROVE InFlight(k, works', own')
  <2>1. k.task \in Tasks BY CallType
  <2> QED BY <1>1, <2>1 DEF Kept, InFlight
<1>2. ASSUME NEW c \in Callers, calls'[c] # Nobody PROVE InFlight(calls'[c], works', own')
  <2>1. calls'[c] \in Call BY <1>2 DEF Kept, WorkTypeOK
  <2>2. InFlight(calls'[c], works, own) BY <1>2 DEF WorkInv
  <2> QED BY <1>1, <2>1, <2>2
<1> QED BY <1>2 DEF Kept, WorkInv

\* A step that leaves the tables alone.
LEMMA StillKept ==
  ASSUME WorkInv, own' = own, works' = works, calls' \in [Callers -> Call \cup {Nobody}]
  PROVE  Kept
  BY DEF Kept, WorkInv, WorkTypeOK, GateRow

\* A step that moves one task, from a phase it can leave.
LEMMA MoveKept ==
  ASSUME WorkInv, NEW t \in Tasks, NEW b \in Ownership, own' = [own EXCEPT ![t] = b],
         own[t].phase # "done", Exclusive(own'), UNCHANGED works,
         calls' \in [Callers -> Call \cup {Nobody}]
  PROVE  Kept
<1>1. WorkTypeOK' BY DEF WorkInv, WorkTypeOK
<1>2. \A u \in Tasks : own'[u] = own[u] \/ u = t BY DEF WorkInv, WorkTypeOK
<1>3. \A u \in Tasks : own[u].phase = "done" => own'[u] = own[u] BY <1>2
<1>4. ASSUME NEW u \in Tasks PROVE GateRow(works'[u], own'[u])
  <2>1. works'[u] = works[u] /\ GateRow(works[u], own[u]) BY DEF WorkInv
  <2> QED BY <1>3, <2>1 DEF GateRow
<1> QED BY <1>1, <1>3, <1>4 DEF Kept

\* A step that writes one work run.
LEMMA WriteKept ==
  ASSUME WorkInv, NEW t \in Tasks, NEW r \in WorkRow, works' = [works EXCEPT ![t] = r],
         GateRow(r, own[t]),
         works[t] # Nobody /\ works[t].evidence_state = "verified" =>
           /\ r.evidence_state = "verified" /\ r.evidence = works[t].evidence
           /\ r.expected_head_sha = works[t].expected_head_sha,
         UNCHANGED own, calls' \in [Callers -> Call \cup {Nobody}]
  PROVE  Kept
<1>1. WorkTypeOK' BY DEF WorkInv, WorkTypeOK
<1>2. \A u \in Tasks : works'[u] = IF u = t THEN r ELSE works[u] BY DEF WorkInv, WorkTypeOK
<1>3. r # Nobody BY WorkAssumption
<1>4. \A u \in Tasks : GateRow(works'[u], own'[u]) BY <1>2 DEF WorkInv
<1> QED BY <1>1, <1>2, <1>3, <1>4 DEF Kept, WorkInv

LEMMA WorkInitOK == WorkInit => WorkInv
<1> SUFFICES ASSUME WorkInit PROVE WorkInv
  OBVIOUS
<1>1. WorkTypeOK BY UnownedType DEF WorkInit, Init, WorkTypeOK
<1>2. \A t \in Tasks : own[t] = Unowned /\ works[t] = Nobody BY DEF WorkInit, Init
<1>3. Exclusive(own) BY <1>2, UnownedType DEF Exclusive
<1> QED BY <1>1, <1>2, <1>3 DEF WorkInit, WorkInv, GateRow

LEMMA WorkStep ==
  ASSUME WorkInv, [WorkNext]_workVars
  PROVE  Kept /\ WorkInv'
<1> DEFINE Goal == Kept /\ WorkInv'
<1> SUFFICES Goal
  OBVIOUS
<1>0. /\ own \in [Tasks -> Ownership] /\ works \in [Tasks -> WorkRow \cup {Nobody}]
      /\ calls \in [Callers -> Call \cup {Nobody}]
  BY DEF WorkInv, WorkTypeOK
<1>p. ASSUME NEW c \in Callers, NEW k \in Call, Proceed(c, k)
      PROVE  /\ calls' \in [Callers -> Call \cup {Nobody}] /\ UNCHANGED works
             /\ \A d \in Callers : calls'[d] = calls[d] \/ calls'[d] = k
  BY <1>0, <1>p DEF Proceed
<1>r. ASSUME NEW c \in Callers, Return(c)
      PROVE  /\ calls' \in [Callers -> Call \cup {Nobody}]
             /\ \A d \in Callers : calls'[d] = calls[d] \/ calls'[d] = Nobody
  BY <1>0, <1>r DEF Return
<1>1. CASE UNCHANGED workVars
  <2>1. own' = own /\ works' = works /\ calls' = calls BY <1>1 DEF workVars
  <2> QED BY <1>0, <2>1, StillKept, KeptOK
<1>2. ASSUME NEW c \in Callers, NEW t \in Tasks, CreateEnqueue(c, t) PROVE Goal
  <2> DEFINE k == [op |-> "create", task |-> t]
             b == Released(own[t], "waiting")
  <2>1. k \in Call /\ k.op = "create" BY DEF Call
  <2>2. Proceed(c, k) BY <1>2 DEF CreateEnqueue
  <2> HIDE DEF k
  <2>3. InFlight(k, works, own) BY <2>1 DEF InFlight
  <2>4. /\ calls' \in [Callers -> Call \cup {Nobody}] /\ UNCHANGED works
        /\ \A d \in Callers : calls'[d] = calls[d] \/ InFlight(calls'[d], works, own)
    BY <1>p, <2>1, <2>2, <2>3
  <2>5. CASE own[t] = Unowned
    <3>1. own' = [own EXCEPT ![t] = b] BY <1>2, <2>5 DEF CreateEnqueue
    <3>2. b \in Ownership /\ b.holder = Nobody BY <1>0, ReleasedType DEF Phases
    <3> HIDE DEF b
    <3>3. \A u \in Tasks : own'[u] = IF u = t THEN b ELSE own[u] BY <1>0, <3>1
    <3>4. Exclusive(own') BY <3>2, <3>3 DEF WorkInv, Exclusive
    <3>5. Kept BY <2>4, <2>5, <3>1, <3>2, <3>4, MoveKept, UnownedType
    <3> QED BY <2>4, <3>5, KeptOK
  <2>6. CASE own[t] # Unowned
    <3>1. own' = own BY <1>2, <2>6 DEF CreateEnqueue
    <3> QED BY <2>4, <3>1, StillKept, KeptOK
  <2> QED BY <2>5, <2>6
<1>3. ASSUME NEW c \in Callers, CreateInsert(c) PROVE Goal
  <2>1. calls[c] \in Call /\ calls[c].task \in Tasks BY <1>0, <1>3, CallType DEF CreateInsert
  <2>2. PICK t \in Tasks :
          works' = IF works[t] = Nobody THEN [works EXCEPT ![t] = NewWork] ELSE works
    BY <1>3, <2>1 DEF CreateInsert
  <2>3. own' = own /\ Return(c) BY <1>3 DEF CreateInsert
  <2>4. Kept
    <3>1. CASE works[t] = Nobody
      BY <1>r, <2>2, <2>3, <3>1, WriteKept, NewWorkRow
    <3>2. CASE works[t] # Nobody
      BY <1>r, <2>2, <2>3, <3>2, StillKept
    <3> QED BY <3>1, <3>2
  <2> QED BY <1>r, <2>3, <2>4, KeptOK
<1>4. ASSUME NEW c \in Callers, NEW t \in Tasks, NEW sha \in Products, NEW ev \in Evidence,
             EvidenceRead(c, t, sha, ev)
      PROVE  Goal
  <2> DEFINE k == [op |-> "evidence", task |-> t, sha |-> sha, evidence |-> ev]
  <2>1. k \in Call /\ InFlight(k, works, own)
    BY <1>4 DEF Call, InFlight, EvidenceRead
  <2>2. Proceed(c, k) /\ own' = own BY <1>4 DEF EvidenceRead
  <2> HIDE DEF k
  <2> QED BY <1>p, <2>1, <2>2, StillKept, KeptOK
<1>5. ASSUME NEW c \in Callers, EvidenceWrite(c) PROVE Goal
  <2> DEFINE k == calls[c]
             t == calls[c].task
  <2>1. /\ k \in Call /\ t \in Tasks /\ k.sha \in Products /\ k.evidence \in Evidence
        /\ k # Nobody /\ k.op = "evidence"
    BY <1>0, <1>5, CallType DEF EvidenceWrite
  <2>2. /\ works[t] \in WorkRow /\ own[t].phase = "done" /\ k.sha = own[t].product
        /\ GateRow(works[t], own[t])
    BY <1>0, <2>1 DEF WorkInv, InFlight
  <2>3. /\ own' = own /\ Return(c)
        /\ works' = IF works[t].evidence_state = "pending"
                    THEN [works EXCEPT ![t] = Verified(works[t], k)] ELSE works
    BY <1>0, <1>5, <2>1 DEF EvidenceWrite
  <2> HIDE DEF k, t
  <2>4. Kept
    <3>1. CASE works[t].evidence_state = "pending"
      <4> DEFINE r == Verified(works[t], k)
      <4>1. r \in WorkRow /\ GateRow(r, own[t]) BY <2>1, <2>2, <3>1, VerifiedRow
      <4>2. works' = [works EXCEPT ![t] = r] BY <2>3, <3>1
      <4> HIDE DEF r
      <4> QED BY <1>r, <2>1, <2>3, <3>1, <4>1, <4>2, WriteKept
    <3>2. CASE works[t].evidence_state # "pending"
      BY <1>r, <2>3, <3>2, StillKept
    <3> QED BY <3>1, <3>2
  <2> QED BY <1>r, <2>3, <2>4, KeptOK
<1>6. ASSUME NEW c \in Callers, NEW t \in Tasks, NEW sha \in Products,
             NEW commit \in Commits, NEW reason \in Reasons \cup {Nobody},
             MergedRead(c, t, sha, commit, reason)
      PROVE  Goal
  <2> DEFINE k == [op |-> "merge", task |-> t, merge_state |-> "merged",
                   commit |-> commit, reason |-> reason]
  <2>1. k \in Call /\ InFlight(k, works, own)
    BY <1>6, WorkAssumption DEF Call, InFlight, MergedRead, Mergeable
  <2>2. Proceed(c, k) /\ own' = own BY <1>6 DEF MergedRead
  <2> HIDE DEF k
  <2> QED BY <1>p, <2>1, <2>2, StillKept, KeptOK
<1>7. ASSUME NEW c \in Callers, NEW t \in Tasks, NEW sha \in Products, NEW reason \in Reasons,
             NotMergedRead(c, t, sha, reason)
      PROVE  Goal
  <2> DEFINE k == [op |-> "merge", task |-> t, merge_state |-> "blocked",
                   commit |-> Nobody, reason |-> reason]
  <2>1. k \in Call /\ InFlight(k, works, own)
    BY <1>7 DEF Call, InFlight, NotMergedRead, Mergeable
  <2>2. Proceed(c, k) /\ own' = own BY <1>7 DEF NotMergedRead
  <2> HIDE DEF k
  <2> QED BY <1>p, <2>1, <2>2, StillKept, KeptOK
<1>8. ASSUME NEW c \in Callers, MergeWrite(c) PROVE Goal
  <2> DEFINE k == calls[c]
             t == calls[c].task
             r == Settled(works[t], k)
  <2>1. /\ k \in Call /\ t \in Tasks /\ k.merge_state \in {"merged", "blocked"}
        /\ k.commit \in Commits \cup {Nobody} /\ k.reason \in Reasons \cup {Nobody}
        /\ k # Nobody /\ k.op = "merge"
    BY <1>0, <1>8, CallType DEF MergeWrite
  <2>2. /\ works[t] \in WorkRow /\ works[t].evidence_state = "verified"
        /\ k.merge_state = "merged" <=> k.commit # Nobody
        /\ GateRow(works[t], own[t])
    BY <1>0, <2>1 DEF WorkInv, InFlight
  <2>3. own' = own /\ Return(c) /\ works' = [works EXCEPT ![t] = r]
    BY <1>0, <1>8, <2>1 DEF MergeWrite
  <2> HIDE DEF k, t
  <2>4. /\ r \in WorkRow /\ GateRow(r, own[t])
        /\ r.evidence_state = "verified" /\ r.evidence = works[t].evidence
        /\ r.expected_head_sha = works[t].expected_head_sha
    BY <2>1, <2>2, SettledRow
  <2> HIDE DEF r
  <2>5. Kept BY <1>r, <2>1, <2>3, <2>4, WriteKept
  <2> QED BY <1>r, <2>3, <2>5, KeptOK
<1>9. ASSUME NEW t \in Tasks, PoolStep(t) PROVE Goal
  <2>1. PICK b \in [phase : Phases, holder : Workers \cup {Nobody}, epoch : 0..MaxEpoch,
                    product : Products \cup {Nobody}, builder : Workers \cup {Nobody}] :
          Move(own[t], b) /\ own' = [own EXCEPT ![t] = b] /\ Exclusive(own')
    BY <1>9 DEF PoolStep
  <2>2. b \in Ownership BY <2>1, WorkAssumption DEF Ownership
  <2>3. own[t].phase # "done" BY <2>1, DoneIsFinal
  <2>4. works' = works /\ calls' = calls BY <1>9 DEF PoolStep
  <2>5. Kept BY <1>0, <2>1, <2>2, <2>3, <2>4, MoveKept
  <2> QED BY <2>4, <2>5, KeptOK
<1>10. CASE ServiceRestart
  <2>1. own' = own /\ works' = works /\ calls' = [c \in Callers |-> Nobody]
    BY <1>10 DEF ServiceRestart
  <2>2. \A d \in Callers : calls'[d] = Nobody BY <2>1
  <2>3. calls' \in [Callers -> Call \cup {Nobody}] BY <2>1
  <2> QED BY <2>1, <2>2, <2>3, StillKept, KeptOK
<1> HIDE DEF Goal
<1> QED BY <1>1, <1>2, <1>3, <1>4, <1>5, <1>6, <1>7, <1>8, <1>9, <1>10 DEF WorkNext

LEMMA WorkInvariance == WorkSpec => []WorkInv
  BY WorkInitOK, WorkStep, PTL DEF WorkSpec

-----------------------------------------------------------------------------
(* The theorems *)

\* The work runs, their tasks and the calls in flight keep their types.
THEOREM WorkTypes == WorkSpec => []WorkTypeOK
<1>1. WorkInv => WorkTypeOK BY DEF WorkInv
<1> QED BY <1>1, WorkInvariance, PTL

\* The merge gate opens only on evidence about the commit a validator completed,
\* and expects that commit, however the calls of any number of callers overlap
\* (record_evidence and record_merge_result of app/work.py).
THEOREM GateBehindEvidence == WorkSpec => []GateFollowsEvidence
<1>1. WorkInv => GateFollowsEvidence BY DEF WorkInv, GateFollowsEvidence, GateRow
<1> QED BY <1>1, WorkInvariance, PTL

\* Evidence once verified is never replaced, even by a call that read the run while
\* it was pending (the UPDATE of record_evidence asks for a pending run).
THEOREM EvidenceStays == WorkSpec => EvidenceIsFinal
<1>1. WorkInv /\ [WorkNext]_workVars =>
        [\A t \in Tasks : works[t] # Nobody =>
           /\ works'[t] # Nobody
           /\ works[t].evidence_state = "verified" =>
                /\ works'[t].evidence_state = "verified"
                /\ works'[t].evidence = works[t].evidence
                /\ works'[t].expected_head_sha = works[t].expected_head_sha]_workVars
  BY WorkStep DEF Kept
<1> QED BY <1>1, WorkInvariance, PTL DEF WorkSpec, EvidenceIsFinal
=============================================================================
