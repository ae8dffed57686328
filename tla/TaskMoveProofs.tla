--------------------------- MODULE TaskMoveProofs ---------------------------
(***************************************************************************)
(* What one transaction of the store may do to one task, for every value   *)
(* of the constants of WorkerPool.                                         *)
(*                                                                         *)
(* WorkerPoolProofs shows that every row stays good.  This module says how *)
(* a row changes: every step takes every row through one of a few moves,   *)
(* stated on the columns of the row before and after (TaskStep, lemma      *)
(* StepMoves).  The action properties, the attempt budget, the containment *)
(* of open effects and the refinement of TaskOwnership follow from the     *)
(* moves alone, without the actions.                                       *)
(***************************************************************************)
EXTENDS WorkerPoolProofs, FiniteSetTheorems

-----------------------------------------------------------------------------
(* The moves of a row *)

\* b has the attempts of a, but that the one that was open ended as how.
AttemptsEnded(a, b, how) ==
  /\ Len(b.attempts) = Len(a.attempts)
  /\ \A i \in 1..Len(a.attempts) :
       b.attempts[i] = IF i = a.attempt_id THEN [a.attempts[i] EXCEPT !.end_reason = how]
                       ELSE a.attempts[i]

\* The columns that only enqueue_task and claim_task write.
SameTerms(a, b) ==
  /\ b.fencing_required = a.fencing_required
  /\ b.max_attempts = a.max_attempts
  /\ b.lease_generation = a.lease_generation
  /\ b.attempt_count = a.attempt_count

\* The lease of a, if it has one, and its attempt are over in b.
Ended(a, b) ==
  /\ SameTerms(a, b)
  /\ b.leased_by = None
  /\ b.builder_worker_id = a.builder_worker_id
  /\ b.validator_worker_id = a.validator_worker_id
  /\ AttemptsEnded(a, b, IF b.state = "blocked" THEN "blocked" ELSE "released")

\* The task is taken from its holder, or given up by it: fail_task, block_task,
\* _recover and _recover_stalled.
Withdraw(t, a, b) ==
  \/ b = a
  \/ /\ Active(a)
     /\ Ended(a, b)
     /\ b.produced_sha = a.produced_sha
     /\ \/ /\ b.state = "blocked"
           /\ UnresolvedEffect(t, a) => b.blocked_reason = "effect_reconciliation_required"
        \/ /\ ~UnresolvedEffect(t, a)
           /\ b.state = IF Exhausted(a) THEN "failed" ELSE RequeueState(a)

\* A lease is granted on a task that waits.
Grant(a, b) ==
  /\ a.leased_by = None
  /\ b.leased_by \in Workers
  /\ \/ a.state = "queued" /\ b.state = "leased"
     \/ /\ a.state = "validating" /\ b.state = "validating"
        /\ b.leased_by # a.builder_worker_id
  /\ b.fencing_required = a.fencing_required
  /\ b.max_attempts = a.max_attempts
  /\ b.lease_generation = a.lease_generation + 1
  /\ b.attempt_count = a.attempt_count + 1
  /\ b.produced_sha = a.produced_sha
  /\ b.builder_worker_id = a.builder_worker_id
  /\ Len(b.attempts) = Len(a.attempts) + 1
  /\ \A i \in 1..Len(a.attempts) : b.attempts[i] = a.attempts[i]
  /\ b.attempts[Len(a.attempts) + 1].end_reason = None

\* The holder goes on: renew_lease, start_task, record_checkpoint.
Keep(a, b) ==
  /\ Leased(a) /\ Active(a)
  /\ SameTerms(a, b)
  /\ b.leased_by = a.leased_by
  /\ b.produced_sha = a.produced_sha
  /\ b.attempts = a.attempts
  /\ \/ b.state = a.state /\ b.builder_worker_id = a.builder_worker_id
     \/ a.state = "leased" /\ b.state = "running"

\* submit_for_validation.
HandIn(t, a, b) ==
  /\ Leased(a) /\ a.lease_expires_at > clock
  /\ a.state = "running" /\ a.builder_worker_id = a.leased_by
  /\ ~UnresolvedEffect(t, a)
  /\ Ended(a, b)
  /\ b.state = "validating" /\ b.produced_sha \in Shas

\* complete_validation.
Finish(t, a, b) ==
  /\ Leased(a) /\ a.lease_expires_at > clock
  /\ a.state = "validating" /\ a.produced_sha # None
  /\ a.builder_worker_id # a.leased_by
  /\ ~UnresolvedEffect(t, a)
  /\ Ended(a, b)
  /\ b.state = "completed" /\ b.produced_sha = a.produced_sha

\* requeue_blocked_task.
Resume(t, a, b) ==
  /\ a.state = "blocked"
  /\ ~UnresolvedEffect(t, a)
  /\ SameTerms(a, b)
  /\ b.leased_by = None
  /\ b.state = RequeueState(a)
  /\ b.produced_sha = a.produced_sha
  /\ b.builder_worker_id = a.builder_worker_id
  /\ b.attempts = a.attempts

\* enqueue_task.
Admit(a, b) ==
  /\ a.state = "absent" /\ b.state = "queued"
  /\ b.leased_by = None /\ b.produced_sha = None
  /\ b.lease_generation = 0 /\ b.attempt_count = 0 /\ b.attempts = << >>
  /\ b.max_attempts \in Nat \ {0}

\* One statement of a command.
Move(t, a, b) ==
  \/ Withdraw(t, a, b)
  \/ Keep(a, b)
  \/ HandIn(t, a, b)
  \/ Finish(t, a, b)
  \/ Resume(t, a, b)
  \/ Admit(a, b)

\* What a transaction does to the row of t: one move, or the two passes of the
\* recovery and perhaps a grant.
Recovered(t, a, b) ==
  \E m \in TaskRow : RowOK(m) /\ Withdraw(t, a, m) /\ Withdraw(t, m, b)

TaskStep(t, a, b) ==
  \/ Move(t, a, b)
  \/ \E m \in TaskRow : RowOK(m) /\ Recovered(t, a, m) /\ (b = m \/ Grant(m, b))

-----------------------------------------------------------------------------
(* What the statements leave in the columns *)

\* _end_attempt gives the open attempt its end_reason and touches no other.
LEMMA EndAttemptExact ==
  ASSUME NEW row, RowOK(row), NEW st
  PROVE  AttemptsEnded(row, EndAttempt(row, st),
                       IF st = "blocked" THEN "blocked" ELSE "released")
<1> DEFINE r == EndAttempt(row, st)
           why == IF st = "blocked" THEN "blocked" ELSE "released"
           s == row.attempts
           k == row.attempt_id
           e == [s[k] EXCEPT !.end_reason = why]
<1>0. row \in TaskRow /\ s \in Seq(AttemptRow) /\ Len(s) \in Nat /\ DOMAIN s = 1..Len(s)
  BY LenProperties DEF TaskRow, RowOK
<1>n. None \notin 1..Len(s)
  BY <1>0, NoneAssumption
<1>1. CASE k = None
  <2>1. r = row BY <1>1 DEF EndAttempt
  <2> QED BY <1>1, <1>n, <2>1 DEF AttemptsEnded
<1>2. CASE k # None
  <2>1. k = Len(s) /\ k \in Nat
    BY <1>2, <1>0 DEF RowOK, LedgerRow, LeaseColumns, AttemptHistory
  <2>2. CASE k \notin 1..Len(s)
    <3>1. r = row BY <1>0, <1>2, <2>2 DEF EndAttempt, TaskRow
    <3> QED BY <2>2, <3>1 DEF AttemptsEnded
  <2>3. CASE k \in 1..Len(s)
    <3>1. s[k] \in AttemptRow BY <1>0, <2>3, ElementOfSeq
    <3>2. e \in AttemptRow BY <3>1 DEF AttemptRow, EndReasons
    <3>3. /\ Len([s EXCEPT ![k] = e]) = Len(s)
          /\ \A j \in 1..Len(s) : [s EXCEPT ![k] = e][j] = IF j = k THEN e ELSE s[j]
      BY <1>0, <2>3, <3>2, ExceptSeq
    <3>4. r.attempts = [s EXCEPT ![k] = e]
      BY <1>0, <1>2 DEF EndAttempt, TaskRow
    <3>5. ASSUME NEW j \in 1..Len(s)
          PROVE  r.attempts[j] = IF j = k THEN [s[j] EXCEPT !.end_reason = why] ELSE s[j]
      BY <3>3, <3>4
    <3> QED BY <3>3, <3>4, <3>5 DEF AttemptsEnded
  <2> QED BY <2>2, <2>3
<1> QED BY <1>1, <1>2

\* The columns of a row the moves speak of, but for the state's product and reason.
Alike(r, p) ==
  /\ SameTerms(p, r)
  /\ r.state = p.state
  /\ r.leased_by = p.leased_by
  /\ r.builder_worker_id = p.builder_worker_id
  /\ r.validator_worker_id = p.validator_worker_id
  /\ r.attempts = p.attempts

LEMMA AlikeEnded ==
  ASSUME NEW a, NEW p, NEW r, Alike(r, p), Ended(a, p)
  PROVE  Ended(a, r)
  BY DEF Alike, Ended, SameTerms, AttemptsEnded

\* Release ends the lease and its attempt.
LEMMA ReleaseEnded ==
  ASSUME NEW row, RowOK(row), NEW st \in States
  PROVE  LET r == Release(row, st) IN
         /\ r \in TaskRow
         /\ Ended(row, r)
         /\ r.state = st /\ r.produced_sha = row.produced_sha
<1> DEFINE r == Release(row, st)
<1>1. /\ r \in TaskRow /\ SameBesidesLease(r, row) /\ r.state = st /\ r.leased_by = None
      /\ r.attempts = EndAttempt(row, st).attempts
  BY ReleaseFields DEF RowOK
<1>2. AttemptsEnded(row, EndAttempt(row, st), IF st = "blocked" THEN "blocked" ELSE "released")
  BY EndAttemptExact
<1> HIDE DEF r
<1>3. AttemptsEnded(row, r, IF r.state = "blocked" THEN "blocked" ELSE "released")
  BY <1>1, <1>2 DEF AttemptsEnded
<1>4. Ended(row, r)
  BY <1>1, <1>3 DEF Ended, SameTerms, SameBesidesLease
<1> QED BY <1>1, <1>4 DEF r, SameBesidesLease

\* So does Release of a row that was put in quarantine first.
LEMMA QuarantinedEnded ==
  ASSUME NEW row, RowOK(row), row.state # "failed"
  PROVE  LET r == Release(Quarantine(row), "failed") IN
         /\ r \in TaskRow
         /\ Ended(row, r)
         /\ r.state = "failed" /\ r.produced_sha = row.produced_sha
<1> DEFINE q == Quarantine(row)
           r == Release(q, "failed")
           p == Release(row, "failed")
<1>0. "failed" \in States BY DEF States
<1>1. row \in TaskRow /\ q \in TaskRow BY QuarantineType DEF RowOK
<1>2. /\ SameBesidesLease(r, q) /\ r.state = "failed" /\ r.leased_by = None
      /\ r.attempts = EndAttempt(q, "failed").attempts /\ r \in TaskRow
  BY <1>0, <1>1, ReleaseFields
<1>3. /\ q.attempts = row.attempts /\ q.attempt_id = row.attempt_id
      /\ q.fencing_required = row.fencing_required /\ q.max_attempts = row.max_attempts
      /\ q.lease_generation = row.lease_generation /\ q.attempt_count = row.attempt_count
      /\ q.builder_worker_id = row.builder_worker_id
      /\ q.validator_worker_id = row.validator_worker_id
      /\ q.produced_sha = row.produced_sha
  BY <1>1 DEF Quarantine, TaskRow
<1>4. EndAttempt(q, "failed").attempts = EndAttempt(row, "failed").attempts
  BY <1>1, <1>3 DEF EndAttempt, TaskRow
<1>5. /\ Ended(row, p) /\ p.state = "failed" /\ p \in TaskRow
      /\ p.attempts = EndAttempt(row, "failed").attempts
      /\ SameBesidesLease(p, row) /\ p.leased_by = None
  BY <1>0, <1>1, ReleaseEnded, ReleaseFields
<1> HIDE DEF q, r, p
<1>6. Alike(r, p)
  BY <1>2, <1>3, <1>4, <1>5 DEF Alike, SameTerms, SameBesidesLease
<1> QED BY <1>2, <1>3, <1>5, <1>6, AlikeEnded DEF q, r, SameBesidesLease

\* Statements that write other columns.
LEMMA ReasonAlike ==
  ASSUME NEW row \in TaskRow, NEW reason
  PROVE  LET r == [row EXCEPT !.blocked_reason = reason] IN
         Alike(r, row) /\ r.produced_sha = row.produced_sha /\ r.blocked_reason = reason
  BY DEF Alike, SameTerms, TaskRow

LEMMA ProgressAlike ==
  ASSUME NEW row \in TaskRow
  PROVE  LET r == Progress(row) IN
         /\ Alike(r, row) /\ r.produced_sha = row.produced_sha
         /\ r.blocked_reason = row.blocked_reason
  BY DEF Alike, SameTerms, TaskRow, Progress

-----------------------------------------------------------------------------
(* Every action is made of moves *)

\* Parking an active row is a withdrawal.
LEMMA ParkedMove ==
  ASSUME NEW t \in Tasks, NEW row, RowOK(row), Active(row), NEW reason \in BlockReasons,
         UnresolvedEffect(t, row) => reason = "effect_reconciliation_required"
  PROVE  Blocked(row, reason) \in TaskRow /\ Withdraw(t, row, Blocked(row, reason))
<1> DEFINE p == Release(row, "blocked")
           r == [p EXCEPT !.blocked_reason = reason]
<1>1. p \in TaskRow /\ Ended(row, p) /\ p.state = "blocked" /\ p.produced_sha = row.produced_sha
  BY ReleaseEnded DEF States
<1>2. r = Blocked(row, reason) BY DEF Blocked
<1> HIDE DEF p
<1>3. Alike(r, p) /\ r.produced_sha = p.produced_sha /\ r.blocked_reason = reason
  BY <1>1, ReasonAlike
<1>4. r \in TaskRow BY <1>1 DEF TaskRow
<1> HIDE DEF r
<1>5. Ended(row, r) BY <1>1, <1>3, AlikeEnded
<1>6. Withdraw(t, row, r)
  BY <1>1, <1>3, <1>5 DEF Withdraw, Alike
<1> QED BY <1>2, <1>4, <1>6

\* So is failing it, or sending it back, when no effect of it is open.
LEMMA SentBackMove ==
  ASSUME NEW t \in Tasks, NEW row, RowOK(row), Active(row), ~UnresolvedEffect(t, row),
         NEW reason
  PROVE  /\ Exhausted(row) =>
              LET f == Release(Quarantine(row), "failed") IN
              Withdraw(t, row, f) /\ Withdraw(t, row, [f EXCEPT !.blocked_reason = reason])
         /\ ~Exhausted(row) =>
              LET f == Release(row, RequeueState(row)) IN
              Withdraw(t, row, f) /\ Withdraw(t, row, [f EXCEPT !.blocked_reason = reason])
<1>1. ASSUME NEW p \in TaskRow, Ended(row, p), p.produced_sha = row.produced_sha,
             p.state = IF Exhausted(row) THEN "failed" ELSE RequeueState(row)
      PROVE  Withdraw(t, row, p) /\ Withdraw(t, row, [p EXCEPT !.blocked_reason = reason])
  <2> DEFINE r == [p EXCEPT !.blocked_reason = reason]
  <2>1. Alike(r, p) /\ r.produced_sha = p.produced_sha BY ReasonAlike
  <2> HIDE DEF r
  <2>2. Ended(row, r) BY <1>1, <2>1, AlikeEnded
  <2>3. Withdraw(t, row, r) BY <1>1, <2>1, <2>2 DEF Withdraw, Alike
  <2>4. Withdraw(t, row, p) BY <1>1 DEF Withdraw
  <2> QED BY <2>3, <2>4 DEF r
<1>2. row.state # "failed" BY DEF Active, ActiveStates
<1>3. CASE Exhausted(row)
  <2> DEFINE f == Release(Quarantine(row), "failed")
  <2>1. f \in TaskRow /\ Ended(row, f) /\ f.state = "failed" /\ f.produced_sha = row.produced_sha
    BY <1>2, QuarantinedEnded
  <2> HIDE DEF f
  <2>2. Withdraw(t, row, f) /\ Withdraw(t, row, [f EXCEPT !.blocked_reason = reason])
    BY <1>1, <1>3, <2>1
  <2> QED BY <1>3, <2>2 DEF f
<1>4. CASE ~Exhausted(row)
  <2> DEFINE f == Release(row, RequeueState(row))
  <2>0. RequeueState(row) \in States BY DEF RequeueState, States, ActiveStates
  <2>1. /\ f \in TaskRow /\ Ended(row, f) /\ f.state = RequeueState(row)
        /\ f.produced_sha = row.produced_sha
    BY <2>0, ReleaseEnded
  <2> HIDE DEF f
  <2>2. Withdraw(t, row, f) /\ Withdraw(t, row, [f EXCEPT !.blocked_reason = reason])
    BY <1>1, <1>4, <2>1
  <2> QED BY <1>4, <2>2 DEF f
<1> QED BY <1>3, <1>4

\* A pass of the recovery withdraws tasks and does nothing else.
LEMMA ReclaimedMove ==
  ASSUME NEW t \in Tasks, NEW row, RowOK(row), Active(row), NEW otherwise,
         \/ otherwise = Rerouted(row)
         \/ otherwise = Blocked(row, "material_progress_timeout_no_alternative")
  PROVE  Withdraw(t, row, Reclaimed(t, row, otherwise))
<1>0. /\ "effect_reconciliation_required" \in BlockReasons
      /\ "material_progress_timeout_no_alternative" \in BlockReasons
  BY DEF BlockReasons
<1>1. CASE UnresolvedEffect(t, row)
  <2>1. Reclaimed(t, row, otherwise) = Blocked(row, "effect_reconciliation_required")
    BY <1>1 DEF Reclaimed
  <2>2. Withdraw(t, row, Blocked(row, "effect_reconciliation_required"))
    BY <1>0, ParkedMove
  <2> QED BY <2>1, <2>2
<1>2. CASE ~UnresolvedEffect(t, row) /\ Exhausted(row)
  BY <1>2, SentBackMove DEF Reclaimed
<1>3. CASE ~UnresolvedEffect(t, row) /\ ~Exhausted(row)
  <2>1. Reclaimed(t, row, otherwise) = otherwise BY <1>3 DEF Reclaimed
  <2>2. CASE otherwise = Rerouted(row)
    <3>1. Withdraw(t, row, [Release(row, RequeueState(row)) EXCEPT !.blocked_reason = None])
      BY <1>3, SentBackMove
    <3>2. Withdraw(t, row, Rerouted(row)) BY <3>1 DEF Rerouted
    <3> QED BY <2>1, <2>2, <3>2
  <2>3. CASE otherwise = Blocked(row, "material_progress_timeout_no_alternative")
    BY <1>0, <1>3, <2>1, <2>3, ParkedMove
  <2> QED BY <2>2, <2>3
<1> QED BY <1>1, <1>2, <1>3

LEMMA ExpiredMoves ==
  ASSUME NEW tk, TasksOK(tk), NEW t \in Tasks
  PROVE  Withdraw(t, tk[t], RecoverExpired(tk)[t])
<1>1. RowOK(tk[t]) BY DEF TasksOK
<1>2. CASE LeaseLapsed(tk[t])
  <2>1. Active(tk[t]) BY <1>2 DEF LeaseLapsed
  <2>2. RecoverExpired(tk)[t] = Reclaimed(t, tk[t], Rerouted(tk[t]))
    BY <1>2 DEF RecoverExpired
  <2> QED BY <1>1, <2>1, <2>2, ReclaimedMove
<1>3. CASE ~LeaseLapsed(tk[t])
  <2>1. RecoverExpired(tk)[t] = tk[t] BY <1>3 DEF RecoverExpired
  <2> QED BY <2>1 DEF Withdraw
<1> QED BY <1>2, <1>3

LEMMA StalledMoves ==
  ASSUME NEW tk, TasksOK(tk), NEW o, NEW t \in Tasks
  PROVE  Withdraw(t, tk[t], RecoverStalled(tk, o)[t])
<1>1. RowOK(tk[t]) BY DEF TasksOK
<1>2. CASE Stalled(tk[t])
  <2> DEFINE gone == {u \in Tasks : Stalled(tk[u]) /\ o[u] < o[t]}
             other == IF \E w \in Workers : Alternative(tk, t, w, gone) THEN Rerouted(tk[t])
                      ELSE Blocked(tk[t], "material_progress_timeout_no_alternative")
  <2>1. Active(tk[t]) BY <1>2 DEF Stalled
  <2>2. RecoverStalled(tk, o)[t] = Reclaimed(t, tk[t], other)
    BY <1>2 DEF RecoverStalled, StallOutcome
  <2>3. \/ other = Rerouted(tk[t])
        \/ other = Blocked(tk[t], "material_progress_timeout_no_alternative")
    OBVIOUS
  <2> HIDE DEF other
  <2> QED BY <1>1, <2>1, <2>2, <2>3, ReclaimedMove
<1>3. CASE ~Stalled(tk[t])
  <2>1. RecoverStalled(tk, o)[t] = tk[t] BY <1>3 DEF RecoverStalled
  <2> QED BY <2>1 DEF Withdraw
<1> QED BY <1>2, <1>3

\* Both passes, in any of the combinations in which they run.
LEMMA RecoveryMoves ==
  ASSUME NEW tk, TasksOK(tk), NEW o, NEW t \in Tasks
  PROVE  /\ Recovered(t, tk[t], tk[t])
         /\ Recovered(t, tk[t], RecoverExpired(tk)[t])
         /\ Recovered(t, tk[t], RecoverStalled(tk, o)[t])
         /\ Recovered(t, tk[t], RecoverStalled(RecoverExpired(tk), o)[t])
<1>1. ASSUME NEW T, TasksOK(T)
      PROVE  /\ T[t] \in TaskRow /\ RowOK(T[t]) /\ Withdraw(t, T[t], T[t])
             /\ Withdraw(t, T[t], RecoverExpired(T)[t])
             /\ Withdraw(t, T[t], RecoverStalled(T, o)[t])
  <2>1. T[t] \in TaskRow /\ RowOK(T[t]) /\ Withdraw(t, T[t], T[t])
    BY <1>1 DEF TasksOK, Withdraw
  <2>2. Withdraw(t, T[t], RecoverExpired(T)[t]) BY <1>1, ExpiredMoves
  <2>3. Withdraw(t, T[t], RecoverStalled(T, o)[t]) BY <1>1, StalledMoves
  <2> QED BY <2>1, <2>2, <2>3
<1> DEFINE E == RecoverExpired(tk)
<1>2. TasksOK(tk) /\ TasksOK(E) BY RecoveredOK
<1>3. /\ E[t] \in TaskRow /\ RowOK(E[t]) /\ Withdraw(t, tk[t], E[t])
      /\ Withdraw(t, E[t], RecoverStalled(E, o)[t])
  <2>1. Withdraw(t, tk[t], E[t]) BY <1>1, <1>2
  <2> HIDE DEF E
  <2> QED BY <1>1, <1>2, <2>1
<1>4. /\ tk[t] \in TaskRow /\ RowOK(tk[t]) /\ Withdraw(t, tk[t], tk[t])
      /\ Withdraw(t, tk[t], RecoverStalled(tk, o)[t])
  BY <1>1, <1>2
<1> QED BY <1>3, <1>4 DEF Recovered

\* A claim grants a task that waits.
LEMMA ClaimedMove ==
  ASSUME NEW row, RowOK(row), row.leased_by = None,
         NEW w \in Workers, NEW role \in Roles, NEW ttl \in LeaseSeconds,
         role = "builder" => row.state = "queued",
         role = "validator" => row.state = "validating" /\ row.builder_worker_id # w
  PROVE  Grant(row, Claimed(row, w, role, ttl))
<1> DEFINE r == Claimed(row, w, role, ttl)
           n == Len(row.attempts)
           new == [gen |-> row.lease_generation + 1, worker |-> w, end_reason |-> None]
<1>1. row \in TaskRow /\ row.attempts \in Seq(AttemptRow) /\ n \in Nat
  BY LenProperties DEF RowOK, TaskRow
<1>2. new \in AttemptRow
  BY <1>1 DEF TaskRow, AttemptRow, EndReasons
<1>3. /\ Len(Append(row.attempts, new)) = n + 1
      /\ \A i \in 1..n : Append(row.attempts, new)[i] = row.attempts[i]
      /\ Append(row.attempts, new)[n + 1] = new
  BY <1>1, <1>2, AppendProperties
<1>4. new.end_reason = None OBVIOUS
<1>5. /\ r.state = IF role = "builder" THEN "leased" ELSE "validating"
      /\ r.leased_by = w
      /\ r.fencing_required = row.fencing_required
      /\ r.max_attempts = row.max_attempts
      /\ r.lease_generation = row.lease_generation + 1
      /\ r.attempt_count = row.attempt_count + 1
      /\ r.produced_sha = row.produced_sha
      /\ r.builder_worker_id = row.builder_worker_id
      /\ r.attempts = Append(row.attempts, new)
  BY <1>1 DEF Claimed, TaskRow
<1> HIDE DEF r, new, n
<1> QED BY <1>3, <1>4, <1>5 DEF Grant, Roles, r, n

\* The row after a command of a lease holder, or of an operator, by the command.
LEMMA RenewMove ==
  ASSUME NEW row, RowOK(row), Leased(row), NEW at
  PROVE  Keep(row, [row EXCEPT !.lease_expires_at = at])
<1>1. row \in TaskRow /\ Active(row)
  BY DEF RowOK, LedgerRow, LeaseColumns
<1> QED BY <1>1 DEF Keep, SameTerms, TaskRow

LEMMA StartMove ==
  ASSUME NEW row, RowOK(row), Leased(row), row.state = "leased", NEW w
  PROVE  Keep(row, [Progress(row) EXCEPT !.state = "running", !.builder_worker_id = w])
<1>1. row \in TaskRow /\ Active(row)
  BY DEF RowOK, LedgerRow, LeaseColumns
<1> QED BY <1>1 DEF Keep, SameTerms, TaskRow, Progress

LEMMA ProgressMove ==
  ASSUME NEW row, RowOK(row), Leased(row)
  PROVE  Keep(row, Progress(row))
<1>1. row \in TaskRow /\ Active(row)
  BY DEF RowOK, LedgerRow, LeaseColumns
<1> QED BY <1>1 DEF Keep, SameTerms, TaskRow, Progress

LEMMA SubmitMove ==
  ASSUME NEW t \in Tasks, NEW row, RowOK(row), Leased(row), row.lease_expires_at > clock,
         row.state = "running", row.builder_worker_id = row.leased_by,
         ~UnresolvedEffect(t, row), NEW sha \in Shas
  PROVE  HandIn(t, row, [Progress(Release(row, "validating")) EXCEPT !.produced_sha = sha])
<1> DEFINE p == Release(row, "validating")
           r == [Progress(p) EXCEPT !.produced_sha = sha]
<1>1. p \in TaskRow /\ Ended(row, p) /\ p.state = "validating"
  BY ReleaseEnded DEF States, ActiveStates
<1> HIDE DEF p
<1>2. Alike(r, p) /\ r.produced_sha = sha
  BY <1>1 DEF Alike, SameTerms, TaskRow, Progress
<1> HIDE DEF r
<1>3. Ended(row, r) BY <1>1, <1>2, AlikeEnded
<1>4. HandIn(t, row, r) BY <1>1, <1>2, <1>3 DEF HandIn, Alike
<1> QED BY <1>4 DEF r, p

LEMMA CompleteMove ==
  ASSUME NEW t \in Tasks, NEW row, RowOK(row), Leased(row), row.lease_expires_at > clock,
         row.state = "validating", row.produced_sha # None,
         row.builder_worker_id # row.leased_by, ~UnresolvedEffect(t, row)
  PROVE  Finish(t, row, Progress(Release(row, "completed")))
<1> DEFINE p == Release(row, "completed")
           r == Progress(p)
<1>1. /\ p \in TaskRow /\ Ended(row, p) /\ p.state = "completed"
      /\ p.produced_sha = row.produced_sha
  BY ReleaseEnded DEF States
<1> HIDE DEF p
<1>2. Alike(r, p) /\ r.produced_sha = p.produced_sha BY <1>1, ProgressAlike
<1> HIDE DEF r
<1>3. Ended(row, r) BY <1>1, <1>2, AlikeEnded
<1>4. Finish(t, row, r) BY <1>1, <1>2, <1>3 DEF Finish, Alike
<1> QED BY <1>4 DEF r, p

LEMMA BlockMove ==
  ASSUME NEW t \in Tasks, NEW row, RowOK(row), Active(row), NEW reason \in BlockReasons,
         UnresolvedEffect(t, row) => reason = "effect_reconciliation_required"
  PROVE  Withdraw(t, row, Progress(Blocked(row, reason)))
<1> DEFINE p == Release(row, "blocked")
           q == [p EXCEPT !.blocked_reason = reason]
           r == Progress(q)
<1>1. p \in TaskRow /\ Ended(row, p) /\ p.state = "blocked" /\ p.produced_sha = row.produced_sha
  BY ReleaseEnded DEF States
<1>2. r = Progress(Blocked(row, reason)) BY DEF Blocked
<1> HIDE DEF p
<1>3. Alike(q, p) /\ q.produced_sha = p.produced_sha /\ q.blocked_reason = reason
  BY <1>1, ReasonAlike
<1>4. q \in TaskRow BY <1>1 DEF TaskRow
<1> HIDE DEF q
<1>5. Alike(r, q) /\ r.produced_sha = q.produced_sha /\ r.blocked_reason = reason
  BY <1>3, <1>4, ProgressAlike
<1> HIDE DEF r
<1>6. Ended(row, r) BY <1>1, <1>3, <1>5, AlikeEnded
<1>7. Withdraw(t, row, r)
  BY <1>1, <1>3, <1>5, <1>6 DEF Withdraw, Alike
<1> QED BY <1>2, <1>7

LEMMA RequeueMove ==
  ASSUME NEW t \in Tasks, NEW row, RowOK(row), row.state = "blocked", ~UnresolvedEffect(t, row)
  PROVE  Resume(t, row, [Progress(row) EXCEPT
                           !.state = RequeueState(row), !.blocked_reason = None])
<1> DEFINE st == RequeueState(row)
           r == [Progress(row) EXCEPT !.state = st, !.blocked_reason = None]
<1>1. row \in TaskRow /\ row.leased_by = None
  BY DEF RowOK, LedgerRow, LeaseColumns, Leased, Active, ActiveStates
<1>2. st = RequeueState(row) OBVIOUS
<1> HIDE DEF st
<1>3. /\ SameTerms(row, r) /\ r.leased_by = None /\ r.state = st
      /\ r.produced_sha = row.produced_sha
      /\ r.builder_worker_id = row.builder_worker_id
      /\ r.attempts = row.attempts
  BY <1>1 DEF SameTerms, Progress, TaskRow
<1> QED BY <1>2, <1>3 DEF Resume, st

LEMMA EnqueueMove ==
  ASSUME NEW a \in Admissions, NEW row, row.state = "absent"
  PROVE  Admit(row, [Progress(AbsentTask) EXCEPT
                       !.state = "queued", !.fencing_required = a.fencing_required,
                       !.priority = a.priority, !.max_attempts = a.max_attempts])
<1>1. a.max_attempts \in Nat \ {0} BY ConstantsAssumption
<1> QED BY <1>1 DEF Admit, Progress, AbsentTask

\* No row moves.
LEMMA StillMoves ==
  ASSUME UNCHANGED tasks, NEW u
  PROVE  Move(u, tasks[u], tasks'[u])
  BY DEF Move, Withdraw

\* One row moves.
LEMMA UpdateMoves ==
  ASSUME IInv, NEW t \in Tasks, NEW row, tasks' = [tasks EXCEPT ![t] = row],
         Move(t, tasks[t], row), NEW u \in Tasks
  PROVE  Move(u, tasks[u], tasks'[u])
<1>1. tasks \in [Tasks -> TaskRow] BY DEF IInv, TasksOK
<1>2. CASE u = t
  BY <1>1, <1>2
<1>3. CASE u # t
  <2>1. tasks'[u] = tasks[u] BY <1>1, <1>3
  <2> QED BY <2>1 DEF Move, Withdraw
<1> QED BY <1>2, <1>3

\* The credential of the lease that is held now, in a state the command allows.
LEMMA Held ==
  ASSUME IInv, NEW t \in Tasks, NEW i \in DOMAIN tasks[t].attempts, NEW fence, NEW allowed,
         LeaseHeld(t, i, fence, allowed)
  PROVE  /\ RowOK(tasks[t]) /\ Leased(tasks[t]) /\ Active(tasks[t])
         /\ tasks[t].state \in allowed
         /\ tasks[t].leased_by = Presenter(t, i)
         /\ tasks[t].lease_expires_at > clock
         /\ fence => tasks[t].lease_generation = tasks[t].attempts[i].gen
<1>1. RowOK(tasks[t]) /\ Leased(tasks[t]) /\ tasks[t].state \in allowed BY HeldFacts
<1>2. Active(tasks[t]) BY <1>1 DEF RowOK, LedgerRow, LeaseColumns
<1> QED BY <1>1, <1>2 DEF LeaseHeld, Presenter

LEMMA CommandsMoves ==
  ASSUME IInv, Commands, NEW u \in Tasks
  PROVE  Move(u, tasks[u], tasks'[u])
<1>0. PICK t \in Tasks : \E i \in DOMAIN tasks[t].attempts : \E fence \in BOOLEAN :
        \/ \E ttl \in LeaseSeconds : Renew(t, i, fence, ttl)
        \/ Start(t, i, fence)
        \/ \E sha \in Shas : Submit(t, i, fence, sha)
        \/ Complete(t, i, fence)
        \/ Fail(t, i, fence)
        \/ Block(t, i, fence)
  BY DEF Commands
<1>1. PICK i \in DOMAIN tasks[t].attempts, fence \in BOOLEAN :
        \/ \E ttl \in LeaseSeconds : Renew(t, i, fence, ttl)
        \/ Start(t, i, fence)
        \/ \E sha \in Shas : Submit(t, i, fence, sha)
        \/ Complete(t, i, fence)
        \/ Fail(t, i, fence)
        \/ Block(t, i, fence)
  BY <1>0
<1> DEFINE row == tasks[t]
<1>2. ASSUME NEW new, Update(t, new), Move(t, row, new)
      PROVE  Move(u, tasks[u], tasks'[u])
  <2>1. tasks' = [tasks EXCEPT ![t] = new] BY <1>2 DEF Update
  <2> QED BY <1>2, <2>1, UpdateMoves
<1>3. ASSUME NEW ttl \in LeaseSeconds, Renew(t, i, fence, ttl)
      PROVE  Move(u, tasks[u], tasks'[u])
  <2>1. RowOK(row) /\ Leased(row) BY <1>3, Held DEF Renew
  <2>2. Keep(row, [row EXCEPT !.lease_expires_at = clock + Seconds(ttl)])
    BY <2>1, RenewMove
  <2> QED BY <1>2, <1>3, <2>2 DEF Renew, Move
<1>4. CASE Start(t, i, fence)
  <2>1. RowOK(row) /\ Leased(row) /\ row.state = "leased" BY <1>4, Held DEF Start
  <2>2. Keep(row, [Progress(row) EXCEPT !.state = "running", !.builder_worker_id = Presenter(t, i)])
    BY <2>1, StartMove
  <2> QED BY <1>2, <1>4, <2>2 DEF Start, Move
<1>5. ASSUME NEW sha \in Shas, Submit(t, i, fence, sha)
      PROVE  Move(u, tasks[u], tasks'[u])
  <2>1. /\ RowOK(row) /\ Leased(row) /\ row.lease_expires_at > clock /\ row.state = "running"
        /\ row.leased_by = Presenter(t, i)
    BY <1>5, Held DEF Submit
  <2>2. row.builder_worker_id = row.leased_by /\ ~UnresolvedEffect(t, row)
    BY <1>5, <2>1 DEF Submit
  <2>3. HandIn(t, row, [Progress(Release(row, "validating")) EXCEPT !.produced_sha = sha])
    BY <2>1, <2>2, SubmitMove
  <2> QED BY <1>2, <1>5, <2>3 DEF Submit, Move
<1>6. CASE Complete(t, i, fence)
  <2>1. /\ RowOK(row) /\ Leased(row) /\ row.lease_expires_at > clock
        /\ row.state = "validating" /\ row.leased_by = Presenter(t, i)
    BY <1>6, Held DEF Complete
  <2>2. /\ row.builder_worker_id # row.leased_by /\ row.produced_sha # None
        /\ ~UnresolvedEffect(t, row)
    BY <1>6, <2>1 DEF Complete
  <2>3. Finish(t, row, Progress(Release(row, "completed")))
    BY <2>1, <2>2, CompleteMove
  <2> QED BY <1>2, <1>6, <2>3 DEF Complete, Move
<1>7. CASE Fail(t, i, fence)
  <2> DEFINE new == IF Exhausted(row) THEN Release(Quarantine(row), "failed")
                    ELSE Release(row, RequeueState(row))
  <2>1. RowOK(row) /\ Active(row) BY <1>7, Held DEF Fail
  <2>2. ~UnresolvedEffect(t, row) /\ Update(t, new) BY <1>7 DEF Fail
  <2>3. Withdraw(t, row, new)
    BY <2>1, <2>2, SentBackMove
  <2> QED BY <1>2, <2>2, <2>3 DEF Move
<1>8. CASE Block(t, i, fence)
  <2> DEFINE why == IF UnresolvedEffect(t, row) THEN "effect_reconciliation_required"
                    ELSE "blocked_by_worker"
  <2>1. RowOK(row) /\ Active(row) BY <1>8, Held DEF Block
  <2>2. /\ why \in BlockReasons
        /\ UnresolvedEffect(t, row) => why = "effect_reconciliation_required"
    BY DEF BlockReasons
  <2>3. Update(t, Progress(Blocked(row, why))) BY <1>8 DEF Block
  <2> HIDE DEF why
  <2>4. Withdraw(t, row, Progress(Blocked(row, why)))
    BY <2>1, <2>2, BlockMove
  <2> QED BY <1>2, <2>3, <2>4 DEF Move
<1> QED BY <1>1, <1>3, <1>4, <1>5, <1>6, <1>7, <1>8

\* claim_task: the passes of the recovery that ran, then a grant or nothing.
LEMMA ClaimFromMoves ==
  ASSUME IInv, NEW tk, TasksOK(tk), NEW w \in Workers, NEW role \in Roles,
         NEW fenced, NEW only, ClaimFrom(tk, w, role, fenced, only)
  PROVE  /\ \A u \in Tasks : tasks'[u] = tk[u] \/ Grant(tk[u], tasks'[u])
         /\ \A u, v \in Tasks : tasks'[u] # tk[u] /\ tasks'[v] # tk[v] => u = v
<1>1. CASE tasks' = tk
  BY <1>1
<1>2. ASSUME NEW t \in Candidates(tk, w, role, fenced), NEW ttl \in LeaseSeconds,
             tasks' = [tk EXCEPT ![t] = Claimed(tk[t], w, role, ttl)]
      PROVE  /\ \A u \in Tasks : tasks'[u] = tk[u] \/ Grant(tk[u], tasks'[u])
             /\ \A u, v \in Tasks : tasks'[u] # tk[u] /\ tasks'[v] # tk[v] => u = v
  <2>1. /\ t \in Tasks
        /\ tk[t].state = "queued" \/ tk[t].leased_by = None
        /\ role = "builder" => tk[t].state = "queued"
        /\ role = "validator" => tk[t].state = "validating" /\ tk[t].builder_worker_id # w
    BY DEF Candidates, BuilderCandidates, ValidatorCandidates, Roles
  <2>2. RowOK(tk[t]) /\ tk \in [Tasks -> TaskRow] BY <2>1 DEF TasksOK
  <2>3. tk[t].leased_by = None
    BY <2>1, <2>2 DEF RowOK, LedgerRow, LeaseColumns, Leased, Active, ActiveStates
  <2>4. Grant(tk[t], Claimed(tk[t], w, role, ttl)) BY <2>1, <2>2, <2>3, ClaimedMove
  <2>5. /\ tasks'[t] = Claimed(tk[t], w, role, ttl)
        /\ \A u \in Tasks : u # t => tasks'[u] = tk[u]
    BY <1>2, <2>1, <2>2
  <2> QED BY <2>4, <2>5
<1> QED BY <1>1, <1>2 DEF ClaimFrom

LEMMA ClaimingMoves ==
  ASSUME IInv, Claiming
  PROVE  /\ \A u \in Tasks : TaskStep(u, tasks[u], tasks'[u])
         /\ \E tk : /\ TasksOK(tk)
                    /\ \A u \in Tasks : Recovered(u, tasks[u], tk[u])
                    /\ \A u \in Tasks : tasks'[u] = tk[u] \/ Grant(tk[u], tasks'[u])
                    /\ \A u, v \in Tasks : tasks'[u] # tk[u] /\ tasks'[v] # tk[v] => u = v
<1>1. PICK w \in Workers, role \in Roles :
        \/ Claim(w, role)
        \/ \E t \in Tasks, fenced \in BOOLEAN : ClaimExact(w, role, fenced, t)
  BY DEF Claiming
<1>2. PICK tk, fenced, only :
        /\ TasksOK(tk)
        /\ \A u \in Tasks : Recovered(u, tasks[u], tk[u])
        /\ ClaimFrom(tk, w, role, fenced, only)
  <2>0. TasksOK(tasks) BY DEF IInv
  <2>1. CASE Claim(w, role)
    <3>1. PICK o \in Orders :
            ClaimFrom(RecoverStalled(RecoverExpired(tasks), o), w, role, FALSE, Tasks)
      BY <2>1 DEF Claim
    <3>2. /\ TasksOK(RecoverStalled(RecoverExpired(tasks), o))
          /\ \A u \in Tasks : Recovered(u, tasks[u], RecoverStalled(RecoverExpired(tasks), o)[u])
      BY <2>0, RecoveredOK, RecoveryMoves
    <3> QED BY <3>1, <3>2
  <2>2. CASE \E t \in Tasks, fenced \in BOOLEAN : ClaimExact(w, role, fenced, t)
    <3>1. PICK t \in Tasks, fenced \in BOOLEAN : ClaimFrom(tasks, w, role, fenced, {t})
      BY <2>2 DEF ClaimExact
    <3>2. \A u \in Tasks : Recovered(u, tasks[u], tasks[u]) BY <2>0, RecoveryMoves
    <3> QED BY <2>0, <3>1, <3>2
  <2> QED BY <1>1, <2>1, <2>2
<1>3. /\ \A u \in Tasks : tasks'[u] = tk[u] \/ Grant(tk[u], tasks'[u])
      /\ \A u, v \in Tasks : tasks'[u] # tk[u] /\ tasks'[v] # tk[v] => u = v
  BY <1>2, ClaimFromMoves
<1>4. \A u \in Tasks : tk[u] \in TaskRow /\ RowOK(tk[u]) BY <1>2 DEF TasksOK
<1>5. \A u \in Tasks : TaskStep(u, tasks[u], tasks'[u])
  BY <1>2, <1>3, <1>4 DEF TaskStep
<1> QED BY <1>2, <1>3, <1>5

\* Only claim_task grants leases.
LEMMA PlainMoves ==
  ASSUME IInv, [Next]_vars, ~Claiming, NEW u \in Tasks
  PROVE  Move(u, tasks[u], tasks'[u]) \/ Recovered(u, tasks[u], tasks'[u])
<1>1. CASE UNCHANGED tasks
  BY <1>1, StillMoves
<1>2. CASE Commands
  BY <1>2, CommandsMoves
<1>3. CASE Checkpointing
  <2>0. PICK t \in Tasks : \E i \in DOMAIN tasks[t].attempts :
          \E id \in CheckpointIds, seq \in 1..MaxSequence,
             effect \in Effects \cup {None}, st \in EffectStates :
            RecordCheckpoint(t, i, id, seq, effect, st)
    BY <1>3 DEF Checkpointing
  <2>1. PICK i \in DOMAIN tasks[t].attempts :
          \E id \in CheckpointIds, seq \in 1..MaxSequence,
             effect \in Effects \cup {None}, st \in EffectStates :
            RecordCheckpoint(t, i, id, seq, effect, st)
    BY <2>0
  <2>2. /\ LeaseHeld(t, i, TRUE, ActiveStates)
        /\ tasks' = [tasks EXCEPT ![t] = Progress(tasks[t])]
    BY <2>1 DEF RecordCheckpoint
  <2>3. Keep(tasks[t], Progress(tasks[t])) BY <2>2, Held, ProgressMove
  <2> QED BY <2>2, <2>3, UpdateMoves DEF Move
<1>4. ASSUME NEW t \in Tasks, NEW a \in Admissions, Enqueue(t, a)
      PROVE  Move(u, tasks[u], tasks'[u]) \/ Recovered(u, tasks[u], tasks'[u])
  <2> DEFINE r == [Progress(AbsentTask) EXCEPT
                     !.state = "queued", !.fencing_required = a.fencing_required,
                     !.priority = a.priority, !.max_attempts = a.max_attempts]
  <2>1. tasks' = [tasks EXCEPT ![t] = r] /\ tasks[t].state = "absent" BY <1>4 DEF Enqueue
  <2>2. Admit(tasks[t], r) BY <2>1, EnqueueMove
  <2> HIDE DEF r
  <2> QED BY <2>1, <2>2, UpdateMoves DEF Move
<1>5. ASSUME NEW t \in Tasks, RequeueBlocked(t)
      PROVE  Move(u, tasks[u], tasks'[u]) \/ Recovered(u, tasks[u], tasks'[u])
  <2> DEFINE r == [Progress(tasks[t]) EXCEPT
                     !.state = RequeueState(tasks[t]), !.blocked_reason = None]
  <2>1. /\ tasks' = [tasks EXCEPT ![t] = r] /\ tasks[t].state = "blocked"
        /\ ~UnresolvedEffect(t, tasks[t])
    BY <1>5 DEF RequeueBlocked, Update
  <2>2. RowOK(tasks[t]) BY DEF IInv, TasksOK
  <2>3. Resume(t, tasks[t], r) BY <2>1, <2>2, RequeueMove
  <2> HIDE DEF r
  <2> QED BY <2>1, <2>3, UpdateMoves DEF Move
<1>6. CASE RecoverExpiredLeases \/ RecoverStalledTasks \/ Reconcile
  <2>0. TasksOK(tasks) BY DEF IInv
  <2> QED BY <1>6, <2>0, RecoveryMoves
          DEF RecoverExpiredLeases, RecoverStalledTasks, Reconcile, Sweep
<1>7. \/ UNCHANGED tasks \/ Commands \/ Checkpointing
      \/ \E t \in Tasks, a \in Admissions : Enqueue(t, a)
      \/ \E t \in Tasks : RequeueBlocked(t)
      \/ RecoverExpiredLeases \/ RecoverStalledTasks \/ Reconcile
  BY DEF Next, vars, Tick, Restart, Operating, Heartbeating, EnableFencedCutover,
         ReconcileEffect, ConfigureRepository, ReplaceAffinities, RegisterWorker,
         HeartbeatRead, HeartbeatWrite
<1> QED BY <1>1, <1>2, <1>3, <1>4, <1>5, <1>6, <1>7

\* Every transaction moves every task as TaskStep says.
LEMMA StepMoves ==
  ASSUME IInv, [Next]_vars, NEW u \in Tasks
  PROVE  TaskStep(u, tasks[u], tasks'[u])
<1>1. CASE Claiming
  BY <1>1, ClaimingMoves
<1>2. CASE ~Claiming
  <2>1. IInv' BY NextOK
  <2>2. tasks'[u] \in TaskRow /\ RowOK(tasks'[u]) BY <2>1 DEF IInv, TasksOK
  <2> QED BY <1>2, <2>2, PlainMoves DEF TaskStep
<1> QED BY <1>1, <1>2

-----------------------------------------------------------------------------
(* The inductive invariant of a task and its effects *)

\* A task that waits for a builder, or has one, has no product; a task id nobody
\* enqueued has no history; a lease is at least the first.
StageRow(row) ==
  /\ row.state \in {"queued", "leased", "running"} => row.produced_sha = None
  /\ row.state = "absent" =>
       row.lease_generation = 0 /\ row.produced_sha = None /\ ~row.fencing_required
  /\ Leased(row) => row.lease_generation > 0

\* The attempts a row may have had: max_attempts, and one for each that was parked.
Allowance(row) == row.max_attempts + Cardinality(BlockedAttempts(row))

\* How much of the allowance may be used, by the state of the row: a builder is
\* granted only below it, so only the validation of a product can exceed it.
BudgetRow(row) ==
  /\ (row.state = "queued" \/ (row.state = "blocked" /\ row.produced_sha = None)) =>
       row.attempt_count < Allowance(row)
  /\ (row.state \in {"leased", "running", "blocked"}
      \/ (row.state = "validating" /\ ~Leased(row))) =>
       row.attempt_count <= Allowance(row)
  /\ row.state # "absent" => row.attempt_count <= Allowance(row) + 1

\* Only fenced tasks have checkpoints, none of a lease yet to be granted, and an
\* open effect is of the last lease, which is held or parked for its readback.
EffectRow(t, row) ==
  /\ checkpoints[t] # {} => row.fencing_required
  /\ \A c \in checkpoints[t] :
       /\ c.gen <= row.lease_generation
       /\ Unresolved(checkpoints[t], reconciliations[t], c) =>
            /\ c.gen = row.lease_generation
            /\ IsLatest(checkpoints[t], c.effect, c)
            /\ \/ Leased(row)
               \/ /\ row.state = "blocked"
                  /\ row.blocked_reason = "effect_reconciliation_required"

GoodTask(t, row) == RowOK(row) /\ StageRow(row) /\ BudgetRow(row) /\ EffectRow(t, row)

TaskInv == IInv /\ \A t \in Tasks : GoodTask(t, tasks[t])

-----------------------------------------------------------------------------
(* Counting the parked attempts *)

LEMMA BlockedFinite ==
  ASSUME NEW row \in TaskRow
  PROVE  /\ IsFiniteSet(BlockedAttempts(row)) /\ Cardinality(BlockedAttempts(row)) \in Nat
         /\ Len(row.attempts) \in Nat
<1>1. Len(row.attempts) \in Nat BY LenProperties DEF TaskRow
<1>2. IsFiniteSet(1..Len(row.attempts)) BY <1>1, FS_Interval
<1>3. BlockedAttempts(row) \subseteq 1..Len(row.attempts) BY DEF BlockedAttempts
<1> QED BY <1>1, <1>2, <1>3, FS_Subset, FS_CardinalityType

\* Ending an attempt adds it to the parked ones when the task is parked.
LEMMA EndedCount ==
  ASSUME NEW a, RowOK(a), StageRow(a), NEW b \in TaskRow, Ended(a, b)
  PROVE  Cardinality(BlockedAttempts(b)) =
           Cardinality(BlockedAttempts(a)) + IF b.state = "blocked" /\ Leased(a) THEN 1 ELSE 0
<1> DEFINE n == Len(a.attempts)
           k == a.attempt_id
           how == IF b.state = "blocked" THEN "blocked" ELSE "released"
<1>0. a \in TaskRow /\ a.attempts \in Seq(AttemptRow) BY DEF RowOK, TaskRow
<1>1. n \in Nat /\ IsFiniteSet(BlockedAttempts(a)) /\ Cardinality(BlockedAttempts(a)) \in Nat
  BY <1>0, BlockedFinite
<1>2. /\ Len(b.attempts) = n
      /\ \A i \in 1..n : b.attempts[i] =
           IF i = k THEN [a.attempts[i] EXCEPT !.end_reason = how] ELSE a.attempts[i]
  BY DEF Ended, AttemptsEnded
<1>3. \A i \in 1..n : a.attempts[i] \in AttemptRow
  BY <1>0, ElementOfSeq
<1>4. \A i \in 1..n : i = k => a.attempts[i].end_reason = None
  BY DEF RowOK, LedgerRow, AttemptHistory
<1>5. \A i \in 1..n : b.attempts[i].end_reason = IF i = k THEN how ELSE a.attempts[i].end_reason
  <2> SUFFICES ASSUME NEW i \in 1..n
               PROVE  b.attempts[i].end_reason = IF i = k THEN how ELSE a.attempts[i].end_reason
    OBVIOUS
  <2>1. a.attempts[i] \in AttemptRow BY <1>3
  <2>2. [a.attempts[i] EXCEPT !.end_reason = how].end_reason = how
    BY <2>1 DEF AttemptRow
  <2> QED BY <1>2, <2>2
<1>6. k \notin BlockedAttempts(a)
  BY <1>4, NoneAssumption DEF BlockedAttempts
<1>7. CASE b.state = "blocked" /\ Leased(a)
  <2>1. k = n /\ n > 0
    BY <1>7 DEF RowOK, LedgerRow, AttemptHistory, LeaseColumns, StageRow
  <2>2. k \in 1..n BY <1>1, <2>1
  <2>3. BlockedAttempts(b) = BlockedAttempts(a) \cup {k}
    BY <1>2, <1>5, <1>7, <2>2 DEF BlockedAttempts
  <2> QED BY <1>1, <1>6, <1>7, <2>3, FS_AddElement
<1>8. CASE b.state # "blocked"
  <2>1. how = "released" /\ how # "blocked" BY <1>8
  <2>2. BlockedAttempts(b) = BlockedAttempts(a)
    BY <1>2, <1>4, <1>5, <2>1, NoneAssumption DEF BlockedAttempts
  <2> QED BY <1>1, <1>8, <2>2
<1>9. CASE ~Leased(a)
  <2>1. k = None BY <1>9 DEF RowOK, LedgerRow, LeaseColumns
  <2>2. k \notin 1..n BY <1>1, <2>1, NoneAssumption
  <2>3. BlockedAttempts(b) = BlockedAttempts(a)
    BY <1>2, <1>5, <2>2 DEF BlockedAttempts
  <2> QED BY <1>1, <1>9, <2>3
<1> QED BY <1>7, <1>8, <1>9

LEMMA GrantCount ==
  ASSUME NEW a, RowOK(a), NEW b, Grant(a, b)
  PROVE  BlockedAttempts(b) = BlockedAttempts(a)
<1> DEFINE n == Len(a.attempts)
<1>0. n \in Nat BY LenProperties DEF RowOK, TaskRow
<1>1. /\ Len(b.attempts) = n + 1
      /\ \A i \in 1..n : b.attempts[i] = a.attempts[i]
      /\ b.attempts[n + 1].end_reason = None
  BY DEF Grant
<1>2. \A i \in 1..(n + 1) : i \in 1..n \/ i = n + 1 BY <1>0
<1>3. 1..n \subseteq 1..(n + 1) BY <1>0
<1> QED BY <1>1, <1>2, <1>3, NoneAssumption DEF BlockedAttempts

-----------------------------------------------------------------------------
(* Every move keeps the invariant *)

LEMMA StageKept ==
  ASSUME NEW t, NEW a, RowOK(a), StageRow(a), NEW b, RowOK(b), Move(t, a, b) \/ Grant(a, b)
  PROVE  StageRow(b)
<1>0. a \in TaskRow /\ a.lease_generation \in Nat BY DEF RowOK, TaskRow
<1>1. CASE b = a
  BY <1>1
<1>2. CASE Withdraw(t, a, b) /\ b # a
  BY <1>2 DEF Withdraw, Ended, StageRow, Leased, RequeueState
<1>3. CASE Keep(a, b)
  BY <1>3 DEF Keep, SameTerms, StageRow, Leased, Active, ActiveStates
<1>4. CASE HandIn(t, a, b)
  BY <1>4 DEF HandIn, Ended, StageRow, Leased
<1>5. CASE Finish(t, a, b)
  BY <1>5 DEF Finish, Ended, StageRow, Leased
<1>6. CASE Resume(t, a, b)
  BY <1>6 DEF Resume, StageRow, Leased, RequeueState
<1>7. CASE Admit(a, b)
  BY <1>7 DEF Admit, StageRow, Leased
<1>8. CASE Grant(a, b)
  BY <1>0, <1>8 DEF Grant, StageRow
<1> QED BY <1>1, <1>2, <1>3, <1>4, <1>5, <1>6, <1>7, <1>8 DEF Move

LEMMA BudgetKept ==
  ASSUME NEW t, NEW a, RowOK(a), StageRow(a), BudgetRow(a), NEW b, RowOK(b),
         Move(t, a, b) \/ Grant(a, b)
  PROVE  BudgetRow(b)
<1> DEFINE ca == Cardinality(BlockedAttempts(a))
           cb == Cardinality(BlockedAttempts(b))
<1>0. /\ a \in TaskRow /\ b \in TaskRow
      /\ a.attempt_count \in Nat /\ a.max_attempts \in Nat
      /\ b.attempt_count \in Nat /\ b.max_attempts \in Nat
  BY DEF RowOK, TaskRow
<1>1. ca \in Nat /\ cb \in Nat BY <1>0, BlockedFinite
<1>2. Allowance(a) = a.max_attempts + ca /\ Allowance(b) = b.max_attempts + cb
  BY DEF Allowance
<1>3. Ended(a, b) => cb = ca + IF b.state = "blocked" /\ Leased(a) THEN 1 ELSE 0
  BY <1>0, EndedCount
<1>4. b.attempts = a.attempts => cb = ca
  BY DEF BlockedAttempts
<1>5. Grant(a, b) => cb = ca
  BY GrantCount
<1>6. a.state \in {"leased", "running"} => Leased(a)
  BY DEF RowOK, LedgerRow, LeaseColumns
<1> HIDE DEF ca, cb
<1>7. CASE b = a
  BY <1>7
<1>8. CASE Withdraw(t, a, b) /\ b # a
  <2>1. /\ Active(a) /\ Ended(a, b) /\ b.produced_sha = a.produced_sha
        /\ \/ b.state = "blocked"
           \/ b.state = "failed"
           \/ ~Exhausted(a) /\ b.state = RequeueState(a)
    BY <1>8 DEF Withdraw
  <2>2. /\ b.attempt_count = a.attempt_count /\ b.max_attempts = a.max_attempts
        /\ b.leased_by = None
    BY <2>1 DEF Ended, SameTerms
  <2>3. CASE b.state = "blocked"
    <3>1. CASE Leased(a)
      <4>1. a.state = "validating" => b.produced_sha # None
        BY <2>1 DEF RowOK, IndependentRow
      <4>2. cb = ca + 1 BY <1>3, <2>1, <2>3, <3>1
      <4> QED BY <1>0, <1>1, <1>2, <2>1, <2>2, <2>3, <4>1, <4>2
              DEF BudgetRow, Active, ActiveStates
    <3>2. CASE ~Leased(a)
      <4>1. a.state = "validating" BY <1>6, <2>1, <3>2 DEF Active, ActiveStates
      <4>2. b.produced_sha # None BY <2>1, <4>1 DEF RowOK, IndependentRow
      <4> QED BY <1>0, <1>1, <1>2, <1>3, <2>1, <2>2, <2>3, <3>2, <4>1, <4>2 DEF BudgetRow
    <3> QED BY <3>1, <3>2
  <2>4. CASE b.state = "failed"
    BY <1>0, <1>1, <1>2, <1>3, <2>1, <2>2, <2>4 DEF BudgetRow, Active, ActiveStates
  <2>5. CASE ~Exhausted(a) /\ b.state = RequeueState(a)
    BY <1>0, <1>1, <1>2, <1>3, <2>1, <2>2, <2>5 DEF BudgetRow, Exhausted, RequeueState
  <2> QED BY <2>1, <2>3, <2>4, <2>5
<1>9. CASE Keep(a, b)
  BY <1>0, <1>1, <1>2, <1>4, <1>9
     DEF Keep, SameTerms, BudgetRow, Leased, Active, ActiveStates
<1>10. CASE HandIn(t, a, b)
  BY <1>0, <1>1, <1>2, <1>3, <1>10 DEF HandIn, Ended, SameTerms, BudgetRow
<1>11. CASE Finish(t, a, b)
  BY <1>0, <1>1, <1>2, <1>3, <1>11 DEF Finish, Ended, SameTerms, BudgetRow
<1>12. CASE Resume(t, a, b)
  BY <1>0, <1>1, <1>2, <1>4, <1>12 DEF Resume, SameTerms, BudgetRow, RequeueState, Leased
<1>13. CASE Admit(a, b)
  BY <1>0, <1>1, <1>2, <1>13 DEF Admit, BudgetRow
<1>14. CASE Grant(a, b)
  BY <1>0, <1>1, <1>2, <1>5, <1>14, NoneAssumption DEF Grant, BudgetRow, Leased
<1> QED BY <1>7, <1>8, <1>9, <1>10, <1>11, <1>12, <1>13, <1>14 DEF Move

\* No move lets go of a task with an open effect but to park it for the readback.
LEMMA EffectKept ==
  ASSUME NEW t \in Tasks, NEW a, RowOK(a), StageRow(a), EffectRow(t, a), NEW b, RowOK(b),
         checkpoints \in [Tasks -> SUBSET CheckpointRow], Move(t, a, b) \/ Grant(a, b)
  PROVE  EffectRow(t, b)
<1> DEFINE Open(c) == Unresolved(checkpoints[t], reconciliations[t], c)
<1>0. /\ a.lease_generation \in Nat /\ b.lease_generation \in Nat
      /\ a.fencing_required \in BOOLEAN /\ b.fencing_required \in BOOLEAN
  BY DEF RowOK, TaskRow
<1>1. \A c \in checkpoints[t] : Open(c) => UnresolvedEffect(t, a)
  BY DEF EffectRow, UnresolvedEffect, HasUnresolvedEffect
<1>2. CASE b = a
  BY <1>2
<1>3. CASE checkpoints[t] = {}
  BY <1>3 DEF EffectRow
<1>4. ASSUME b.fencing_required = a.fencing_required,
             b.lease_generation = a.lease_generation,
             \/ ~UnresolvedEffect(t, a)
             \/ Leased(b)
             \/ b.state = "blocked" /\ b.blocked_reason = "effect_reconciliation_required"
      PROVE  EffectRow(t, b)
  BY <1>1, <1>4 DEF EffectRow
<1>5. CASE Withdraw(t, a, b) /\ b # a
  BY <1>4, <1>5 DEF Withdraw, Ended, SameTerms
<1>6. CASE Keep(a, b)
  BY <1>4, <1>6 DEF Keep, SameTerms, Leased
<1>7. CASE HandIn(t, a, b)
  BY <1>4, <1>7 DEF HandIn, Ended, SameTerms
<1>8. CASE Finish(t, a, b)
  BY <1>4, <1>8 DEF Finish, Ended, SameTerms
<1>9. CASE Resume(t, a, b)
  BY <1>4, <1>9 DEF Resume, SameTerms
<1>10. CASE Admit(a, b)
  <2>1. ~a.fencing_required BY <1>10 DEF Admit, StageRow
  <2> QED BY <1>3, <2>1 DEF EffectRow
<1>11. CASE Grant(a, b)
  <2>1. \A c \in checkpoints[t] : ~Open(c)
    BY <1>11 DEF Grant, EffectRow, Leased
  <2>2. /\ b.fencing_required = a.fencing_required
        /\ b.lease_generation = a.lease_generation + 1
    BY <1>11 DEF Grant
  <2>3. \A c \in checkpoints[t] : c.gen <= a.lease_generation BY DEF EffectRow
  <2>4. \A c \in checkpoints[t] : c.gen \in Nat BY DEF CheckpointRow
  <2> QED BY <1>0, <2>1, <2>2, <2>3, <2>4 DEF EffectRow
<1> QED BY <1>2, <1>5, <1>6, <1>7, <1>8, <1>9, <1>10, <1>11 DEF Move

LEMMA GoodKept ==
  ASSUME NEW t \in Tasks, NEW a, GoodTask(t, a), NEW b, RowOK(b),
         checkpoints \in [Tasks -> SUBSET CheckpointRow], Move(t, a, b) \/ Grant(a, b)
  PROVE  GoodTask(t, b)
  BY StageKept, BudgetKept, EffectKept DEF GoodTask

\* A whole transaction, before the effect ledger is written to.
LEMMA StepGood ==
  ASSUME NEW t \in Tasks, NEW a, GoodTask(t, a), NEW b, RowOK(b),
         checkpoints \in [Tasks -> SUBSET CheckpointRow], TaskStep(t, a, b)
  PROVE  GoodTask(t, b)
<1>1. CASE Move(t, a, b)
  BY <1>1, GoodKept
<1>2. ASSUME NEW m \in TaskRow, RowOK(m), Recovered(t, a, m), b = m \/ Grant(m, b)
      PROVE  GoodTask(t, b)
  <2>1. PICK n \in TaskRow : RowOK(n) /\ Withdraw(t, a, n) /\ Withdraw(t, n, m)
    BY <1>2 DEF Recovered
  <2>2. GoodTask(t, n) BY <2>1, GoodKept DEF Move
  <2>3. GoodTask(t, m) BY <1>2, <2>1, <2>2, GoodKept DEF Move
  <2> QED BY <1>2, <2>3, GoodKept
<1> QED BY <1>1, <1>2 DEF TaskStep

\* record_checkpoint: the new statement is of the lease held now and the latest
\* one about its effect, and no unknown statement is overtaken by it.
LEMMA RecordedEffect ==
  ASSUME TaskInv, NEW t \in Tasks, NEW i \in DOMAIN tasks[t].attempts, NEW id \in CheckpointIds,
         NEW seq \in 1..MaxSequence, NEW effect \in Effects \cup {None}, NEW st \in EffectStates,
         RecordCheckpoint(t, i, id, seq, effect, st), EffectRow(t, tasks'[t])
  PROVE  EffectRow(t, tasks[t])'
<1> DEFINE row == tasks[t]
           g == row.attempts[i].gen
           new == [id |-> id, gen |-> g, seq |-> seq, effect |-> effect, effect_state |-> st]
           cps == checkpoints[t]
           recs == reconciliations[t]
<1>1. /\ tasks'[t] = Progress(row) /\ checkpoints'[t] = cps \cup {new} /\ reconciliations' = reconciliations
  BY DEF RecordCheckpoint, TaskInv, IInv, TablesOK, TasksOK
<1>2. /\ LeaseHeld(t, i, TRUE, ActiveStates) /\ row.fencing_required
      /\ effect # None => ~UnresolvedUnknown(cps, recs, effect)
      /\ \A c \in cps : c.gen = g => c.seq < seq
  BY DEF RecordCheckpoint, IsNextSequence
<1>3. Leased(row) /\ row.lease_generation = g /\ RowOK(row)
  BY <1>2, Held DEF TaskInv
<1>4. row \in TaskRow /\ g \in Nat BY <1>3 DEF RowOK, TaskRow
<1>5. /\ tasks'[t].lease_generation = g /\ tasks'[t].fencing_required
      /\ tasks'[t].leased_by = row.leased_by
  BY <1>1, <1>2, <1>3, <1>4, ProgressAlike DEF Alike, SameTerms
<1>6. \A c \in cps : c.gen \in Nat /\ c.seq \in Nat /\ c.gen <= g
  BY <1>3 DEF TaskInv, GoodTask, EffectRow, IInv, TablesOK, CheckpointRow
<1>7. new.gen = g /\ new.seq = seq /\ new.effect = effect /\ new.effect_state = st
  OBVIOUS
<1>8. seq \in Nat BY ConstantsAssumption
<1>9. ASSUME NEW c \in cps, Unresolved(cps \cup {new}, recs, c)
      PROVE  Unresolved(cps, recs, c) /\ ~Later(new, c)
  <2>1. Unresolved(cps, recs, c) BY <1>9 DEF Unresolved
  <2>2. CASE c.effect_state = "pending"
    BY <1>9, <2>2 DEF Unresolved
  <2>3. CASE c.effect_state = "unknown"
    <3>1. UnresolvedUnknown(cps, recs, c.effect) /\ c.effect # None
      BY <2>1, <2>3 DEF Unresolved, UnresolvedUnknown
    <3>2. new.effect # c.effect BY <1>2, <1>7, <3>1
    <3> QED BY <2>1, <3>2 DEF Later
  <2> QED BY <2>1, <2>2, <2>3 DEF Unresolved
<1> HIDE DEF new
<1>10. \A c \in cps \cup {new} : ~Later(c, new)
  <2>1. ~Later(new, new) BY <1>4, <1>7, <1>8 DEF Later
  <2>2. \A c \in cps : ~Later(c, new) BY <1>2, <1>4, <1>6, <1>7, <1>8 DEF Later
  <2> QED BY <2>1, <2>2
<1>11. ASSUME NEW c \in cps \cup {new}
       PROVE  /\ c.gen <= g
              /\ Unresolved(cps \cup {new}, recs, c) =>
                   c.gen = g /\ IsLatest(cps \cup {new}, c.effect, c)
  <2>1. CASE c = new
    BY <1>4, <1>7, <1>10, <2>1 DEF IsLatest
  <2>2. CASE c \in cps
    <3>1. Unresolved(cps, recs, c) => c.gen = g /\ IsLatest(cps, c.effect, c)
      BY <1>3, <2>2 DEF TaskInv, GoodTask, EffectRow
    <3> QED BY <1>6, <1>9, <2>2, <3>1 DEF IsLatest
  <2> QED BY <2>1, <2>2
<1>12. Leased(tasks'[t]) BY <1>3, <1>5 DEF Leased
<1> QED BY <1>1, <1>5, <1>11, <1>12 DEF EffectRow

\* reconcile_effect only settles effects.
LEMMA ReconciledEffect ==
  ASSUME TaskInv, NEW t \in Tasks, checkpoints' = checkpoints,
         reconciliations[t] \subseteq reconciliations'[t], EffectRow(t, tasks'[t])
  PROVE  EffectRow(t, tasks[t])'
<1>1. \A c \in checkpoints[t] :
        Unresolved(checkpoints[t], reconciliations'[t], c) =>
          Unresolved(checkpoints[t], reconciliations[t], c)
  BY DEF Unresolved, Reconciled
<1> QED BY <1>1 DEF EffectRow

LEMMA TaskInit == Init => TaskInv
<1> SUFFICES ASSUME Init, NEW t \in Tasks PROVE GoodTask(t, tasks[t])
  BY InitOK DEF TaskInv
<1>1. tasks[t] = AbsentTask /\ checkpoints[t] = {} BY DEF Init
<1>2. RowOK(tasks[t]) BY <1>1, AbsentOK
<1>3. StageRow(tasks[t]) /\ BudgetRow(tasks[t])
  BY <1>1 DEF AbsentTask, StageRow, BudgetRow, Leased
<1>4. EffectRow(t, tasks[t]) BY <1>1 DEF EffectRow
<1> QED BY <1>2, <1>3, <1>4 DEF GoodTask

LEMMA TaskNext == TaskInv /\ [Next]_vars => TaskInv'
<1> SUFFICES ASSUME TaskInv, [Next]_vars PROVE TaskInv'
  OBVIOUS
<1>1. IInv /\ IInv' BY NextOK DEF TaskInv
<1> SUFFICES ASSUME NEW t \in Tasks PROVE GoodTask(t, tasks[t])'
  BY <1>1 DEF TaskInv
<1>2. RowOK(tasks'[t]) BY <1>1 DEF IInv, TasksOK
<1>3. GoodTask(t, tasks'[t])
  BY <1>1, <1>2, StepMoves, StepGood DEF TaskInv, IInv, TablesOK
<1>4. EffectRow(t, tasks[t])'
  <2>0. EffectRow(t, tasks'[t]) BY <1>3 DEF GoodTask
  <2>1. CASE checkpoints' = checkpoints /\ reconciliations' = reconciliations
    BY <2>0, <2>1, ReconciledEffect
  <2>2. CASE Checkpointing
    <3>0. PICK u \in Tasks : \E i \in DOMAIN tasks[u].attempts :
            \E id \in CheckpointIds, seq \in 1..MaxSequence,
               effect \in Effects \cup {None}, st \in EffectStates :
              RecordCheckpoint(u, i, id, seq, effect, st)
      BY <2>2 DEF Checkpointing
    <3>1. CASE u = t
      BY <2>0, <3>0, <3>1, RecordedEffect
    <3>2. CASE u # t
      <4>1. checkpoints'[t] = checkpoints[t] /\ reconciliations' = reconciliations
        BY <1>1, <3>0, <3>2 DEF RecordCheckpoint, IInv, TablesOK
      <4> QED BY <2>0, <4>1 DEF EffectRow
    <3> QED BY <3>1, <3>2
  <2>3. ASSUME NEW u \in Tasks, NEW e \in Effects, NEW g \in 1..MaxGeneration, NEW o \in Outcomes,
               ReconcileEffect(u, e, g, o)
        PROVE  EffectRow(t, tasks[t])'
    <3>1. checkpoints' = checkpoints /\ reconciliations[t] \subseteq reconciliations'[t]
      BY <1>1, <2>3 DEF ReconcileEffect, IInv, TablesOK
    <3> QED BY <2>0, <3>1, ReconciledEffect
  <2>4. \/ checkpoints' = checkpoints /\ reconciliations' = reconciliations
        \/ Checkpointing
        \/ \E u \in Tasks, e \in Effects, g \in 1..MaxGeneration, o \in Outcomes :
             ReconcileEffect(u, e, g, o)
    <3>1. CASE Commands
      BY <3>1 DEF Commands, Renew, Start, Submit, Complete, Fail, Block, Update
    <3>2. CASE Claiming
      BY <3>2 DEF Claiming, Claim, ClaimExact, ClaimFrom
    <3> QED BY <3>1, <3>2
       DEF Next, vars, Tick, Restart, Operating, Heartbeating, EnableFencedCutover, Enqueue,
           RequeueBlocked, Update, ConfigureRepository, ReplaceAffinities, RegisterWorker,
           HeartbeatRead, HeartbeatWrite, RecoverExpiredLeases, RecoverStalledTasks,
           Reconcile, Sweep
  <2> QED BY <2>1, <2>2, <2>3, <2>4
<1> QED BY <1>3, <1>4 DEF GoodTask, RowOK, LedgerRow, LeaseColumns, AttemptHistory,
             IndependentRow, QuarantineRow, StageRow, BudgetRow, Allowance, BlockedAttempts,
             Leased, Active

LEMMA TaskInvariance == Spec => []TaskInv
  BY TaskInit, TaskNext, PTL DEF Spec

-----------------------------------------------------------------------------
(* Theorems: effects and budget *)

\* An open effect is of the lease held now or its task is parked for the readback,
\* for any number of workers, leases and checkpoints: no later attempt starts on a
\* task while an earlier one may still have written outside.
THEOREM EffectsContained == Spec => []UnresolvedEffectsContained
<1>1. TaskInv => UnresolvedEffectsContained
  BY DEF TaskInv, GoodTask, EffectRow, UnresolvedEffectsContained
<1> QED BY <1>1, TaskInvariance, PTL

\* reconcile_effect finds every open effect of a task: it is the latest statement
\* about that effect, so a parked task can always be released.
THEOREM EffectsReconcilable == Spec => []OpenEffectsReconcilable
<1>1. TaskInv => OpenEffectsReconcilable
  BY DEF TaskInv, GoodTask, EffectRow, OpenEffectsReconcilable
<1> QED BY <1>1, TaskInvariance, PTL

\* No task is attempted more often than max_attempts allows, but for one validation
\* of a product and one attempt for each that was parked and requeued.
THEOREM AttemptsBounded == Spec => []AttemptBudget
<1>1. TaskInv => AttemptBudget
  <2> SUFFICES ASSUME TaskInv, NEW t \in Tasks, tasks[t].state # "absent"
               PROVE  tasks[t].attempt_count <=
                        tasks[t].max_attempts + 1 + Cardinality(BlockedAttempts(tasks[t]))
    BY DEF AttemptBudget
  <2>1. tasks[t] \in TaskRow BY DEF TaskInv, IInv, TasksOK
  <2>2. /\ tasks[t].attempt_count \in Nat /\ tasks[t].max_attempts \in Nat
        /\ Cardinality(BlockedAttempts(tasks[t])) \in Nat
    BY <2>1, BlockedFinite DEF TaskRow
  <2>3. tasks[t].attempt_count <= Allowance(tasks[t]) + 1
    BY DEF TaskInv, GoodTask, BudgetRow
  <2> QED BY <2>2, <2>3 DEF Allowance
<1> QED BY <1>1, TaskInvariance, PTL

-----------------------------------------------------------------------------
(* Theorems: what a step may never do *)

\* The passes of the recovery leave the product, the terms and the ended attempts
\* alone; a row they change is an active one, and has no lease afterwards.
LEMMA RecoveredFacts ==
  ASSUME NEW t, NEW a, RowOK(a), NEW b, RowOK(b), Recovered(t, a, b)
  PROVE  \/ b = a
         \/ /\ Active(a)
            /\ b.leased_by = None
            /\ b.state \in {"queued", "validating", "blocked", "failed"}
            /\ b.produced_sha = a.produced_sha
            /\ b.builder_worker_id = a.builder_worker_id
            /\ SameTerms(a, b)
            /\ Len(b.attempts) = Len(a.attempts)
            /\ \A i \in 1..Len(a.attempts) :
                 a.attempts[i].end_reason # None => b.attempts[i] = a.attempts[i]
<1> DEFINE Facts(x, y) ==
             \/ y = x
             \/ /\ Active(x)
                /\ y.leased_by = None
                /\ y.state \in {"queued", "validating", "blocked", "failed"}
                /\ y.produced_sha = x.produced_sha
                /\ y.builder_worker_id = x.builder_worker_id
                /\ SameTerms(x, y)
                /\ Len(y.attempts) = Len(x.attempts)
                /\ \A i \in 1..Len(x.attempts) :
                     x.attempts[i].end_reason # None => y.attempts[i] = x.attempts[i]
<1>1. ASSUME NEW x, RowOK(x), NEW y, Withdraw(t, x, y)
      PROVE  Facts(x, y)
  <2>1. \A i \in 1..Len(x.attempts) :
          x.attempts[i].end_reason = None <=> x.attempt_id = i
    BY <1>1 DEF RowOK, LedgerRow, AttemptHistory
  <2> QED BY <1>1, <2>1 DEF Withdraw, Ended, AttemptsEnded, RequeueState
<1>2. ASSUME NEW x, NEW y, NEW z, Facts(x, y), Facts(y, z)
      PROVE  Facts(x, z)
  <2>1. CASE y = x \/ z = y
    BY <1>2, <2>1
  <2>2. CASE y # x /\ z # y
    BY <1>2, <2>2 DEF SameTerms
  <2> QED BY <2>1, <2>2
<1>3. PICK m \in TaskRow : RowOK(m) /\ Withdraw(t, a, m) /\ Withdraw(t, m, b)
  BY DEF Recovered
<1>4. Facts(a, m) /\ Facts(m, b) BY <1>1, <1>3
<1> HIDE DEF Facts
<1>5. Facts(a, b) BY <1>2, <1>4
<1> QED BY <1>5 DEF Facts

\* A terminal row does not move.
LEMMA TerminalStep ==
  ASSUME NEW t, NEW a, RowOK(a), NEW b, TaskStep(t, a, b), a.state \in {"completed", "failed"}
  PROVE  b = a
<1>1. a.leased_by = None /\ ~Active(a)
  BY DEF RowOK, LedgerRow, LeaseColumns, Leased, Active, ActiveStates
<1>2. CASE Move(t, a, b)
  BY <1>1, <1>2 DEF Move, Withdraw, Keep, HandIn, Finish, Resume, Admit
<1>3. ASSUME NEW m \in TaskRow, RowOK(m), Recovered(t, a, m), b = m \/ Grant(m, b)
      PROVE  b = a
  <2>1. m = a BY <1>1, <1>3, RecoveredFacts
  <2> QED BY <1>3, <2>1 DEF Grant
<1> QED BY <1>2, <1>3 DEF TaskStep

\* The product and the ended attempts of x are those of y, which is no older.
Kept(x, y) ==
  /\ x.produced_sha # None => y.produced_sha = x.produced_sha
  /\ y.lease_generation >= x.lease_generation
  /\ \A i \in 1..Len(x.attempts) :
       x.attempts[i].end_reason # None => y.attempts[i] = x.attempts[i]

LEMMA KeptStep ==
  ASSUME NEW t, NEW a, RowOK(a), StageRow(a), NEW b, TaskStep(t, a, b)
  PROVE  Kept(a, b)
<1>1. a.lease_generation \in Nat BY DEF RowOK, TaskRow
<1>2. \A i \in 1..Len(a.attempts) : a.attempts[i].end_reason = None <=> a.attempt_id = i
  BY DEF RowOK, LedgerRow, AttemptHistory
<1>3. ASSUME Ended(a, b), a.produced_sha # None => b.produced_sha = a.produced_sha
      PROVE  Kept(a, b)
  <2>1. b.lease_generation >= a.lease_generation BY <1>1, <1>3 DEF Ended, SameTerms
  <2>2. \A i \in 1..Len(a.attempts) : i # a.attempt_id => b.attempts[i] = a.attempts[i]
    BY <1>3 DEF Ended, AttemptsEnded
  <2> QED BY <1>2, <1>3, <2>1, <2>2 DEF Kept
<1>4. CASE Move(t, a, b)
  <2>0. CASE b = a
    BY <1>1, <2>0 DEF Kept
  <2>1. CASE Withdraw(t, a, b) /\ b # a
    BY <1>3, <2>1 DEF Withdraw
  <2>2. CASE Keep(a, b)
    BY <1>1, <2>2 DEF Keep, SameTerms, Kept
  <2>3. CASE HandIn(t, a, b)
    <3>1. a.produced_sha = None BY <2>3 DEF HandIn, StageRow
    <3> QED BY <1>3, <2>3, <3>1 DEF HandIn
  <2>4. CASE Finish(t, a, b)
    BY <1>3, <2>4 DEF Finish
  <2>5. CASE Resume(t, a, b)
    BY <1>1, <2>5 DEF Resume, SameTerms, Kept
  <2>6. CASE Admit(a, b)
    <3>1. a.produced_sha = None /\ a.lease_generation = 0 /\ Len(a.attempts) = 0
      BY <2>6 DEF Admit, StageRow, RowOK, LedgerRow, AttemptHistory
    <3> QED BY <2>6, <3>1 DEF Admit, Kept
  <2> QED BY <1>4, <2>0, <2>1, <2>2, <2>3, <2>4, <2>5, <2>6 DEF Move
<1>5. ASSUME NEW m \in TaskRow, RowOK(m), Recovered(t, a, m), b = m \/ Grant(m, b)
      PROVE  Kept(a, b)
  <2>1. /\ m.produced_sha = a.produced_sha /\ m.lease_generation = a.lease_generation
        /\ Len(m.attempts) = Len(a.attempts)
        /\ \A i \in 1..Len(a.attempts) :
             a.attempts[i].end_reason # None => m.attempts[i] = a.attempts[i]
    <3>1. CASE m = a
      BY <3>1
    <3>2. CASE m # a
      <4>1. /\ m.produced_sha = a.produced_sha /\ SameTerms(a, m)
            /\ Len(m.attempts) = Len(a.attempts)
            /\ \A i \in 1..Len(a.attempts) :
                 a.attempts[i].end_reason # None => m.attempts[i] = a.attempts[i]
        BY <1>5, <3>2, RecoveredFacts
      <4> QED BY <4>1 DEF SameTerms
    <3> QED BY <3>1, <3>2
  <2> QED BY <1>1, <1>5, <2>1 DEF Grant, Kept
<1> QED BY <1>4, <1>5 DEF TaskStep

\* If y has a new product or is newly completed, the lease of x was good and its
\* holder is named in y.
Timely(x, y) ==
  y.produced_sha # x.produced_sha \/ (y.state = "completed" /\ x.state # "completed") =>
    /\ Leased(x)
    /\ x.lease_expires_at > clock
    /\ x.leased_by = IF y.state = "completed" THEN y.validator_worker_id
                     ELSE y.builder_worker_id

LEMMA TimelyStep ==
  ASSUME NEW t, NEW a, RowOK(a), StageRow(a), NEW b, TaskStep(t, a, b)
  PROVE  Timely(a, b)
<1>1. a.state = "validating" /\ Leased(a) => a.validator_worker_id = a.leased_by
  BY DEF RowOK, IndependentRow
<1>2. CASE Move(t, a, b)
  <2>1. CASE Withdraw(t, a, b)
    BY <2>1 DEF Withdraw, RequeueState, Timely
  <2>2. CASE Keep(a, b)
    BY <2>2 DEF Keep, Timely
  <2>3. CASE HandIn(t, a, b)
    BY <2>3 DEF HandIn, Ended, Timely
  <2>4. CASE Finish(t, a, b)
    BY <1>1, <2>4 DEF Finish, Ended, Timely
  <2>5. CASE Resume(t, a, b)
    BY <2>5 DEF Resume, RequeueState, Timely
  <2>6. CASE Admit(a, b)
    BY <2>6 DEF Admit, StageRow, Timely
  <2> QED BY <1>2, <2>1, <2>2, <2>3, <2>4, <2>5, <2>6 DEF Move
<1>3. ASSUME NEW m \in TaskRow, RowOK(m), Recovered(t, a, m), b = m \/ Grant(m, b)
      PROVE  Timely(a, b)
  <2>1. m.produced_sha = a.produced_sha /\ (m.state = a.state \/ m.state # "completed")
    BY <1>3, RecoveredFacts
  <2>2. b.produced_sha = m.produced_sha /\ (b.state = m.state \/ b.state # "completed")
    BY <1>3 DEF Grant
  <2> QED BY <2>1, <2>2 DEF Timely
<1> QED BY <1>2, <1>3 DEF TaskStep

\* A completed or failed task never changes again, whatever late commands, passes
\* of the recovery and operators do.
THEOREM TerminalStays == Spec => TerminalIsFinal
<1>1. TaskInv /\ [Next]_vars =>
        [\A t \in Tasks : tasks[t].state \in {"completed", "failed"} => tasks'[t] = tasks[t]]_vars
  BY StepMoves, TerminalStep DEF TaskInv, GoodTask
<1> QED BY <1>1, TaskInvariance, PTL DEF Spec, TerminalIsFinal

\* A product is never replaced, the generation never goes back and an attempt that
\* has ended is never rewritten.
THEOREM HistoryStays == Spec => HistoryIsKept
<1>1. TaskInv /\ [Next]_vars => \A t \in Tasks : Kept(tasks[t], tasks'[t])
  BY StepMoves, KeptStep DEF TaskInv, GoodTask
<1>2. TaskInv /\ [Next]_vars =>
        [\A t \in Tasks :
           /\ tasks[t].produced_sha # None => tasks'[t].produced_sha = tasks[t].produced_sha
           /\ tasks'[t].lease_generation >= tasks[t].lease_generation
           /\ \A i \in 1..Len(tasks[t].attempts) :
                tasks[t].attempts[i].end_reason # None =>
                  tasks'[t].attempts[i] = tasks[t].attempts[i]]_vars
  BY <1>1 DEF Kept
<1> QED BY <1>2, TaskInvariance, PTL DEF Spec, HistoryIsKept

\* A product or a completion is accepted only from the worker that holds the lease
\* at that moment, and before the lease expires.
THEOREM LateResultsRefused == Spec => NoLateResult
<1>1. TaskInv /\ [Next]_vars => \A t \in Tasks : Timely(tasks[t], tasks'[t])
  BY StepMoves, TimelyStep DEF TaskInv, GoodTask
<1>2. TaskInv /\ [Next]_vars =>
        [\A t \in Tasks :
           \/ tasks'[t].produced_sha # tasks[t].produced_sha
           \/ tasks'[t].state = "completed" /\ tasks[t].state # "completed"
           => /\ Leased(tasks[t])
              /\ tasks[t].lease_expires_at > clock
              /\ tasks[t].leased_by =
                   IF tasks'[t].state = "completed" THEN tasks'[t].validator_worker_id
                   ELSE tasks'[t].builder_worker_id]_vars
  BY <1>1 DEF Timely
<1> QED BY <1>2, TaskInvariance, PTL DEF Spec, NoLateResult

-----------------------------------------------------------------------------
(* Theorem: the store implements TaskOwnership *)

\* The phase of a row, by its state.
LEMMA PhaseOf ==
  ASSUME NEW row, RowOK(row)
  PROVE  /\ Leased(row) => Phase(row) = "held"
         /\ ~Leased(row) /\ row.state \in {"queued", "validating"} => Phase(row) = "waiting"
         /\ row.state = "blocked" => Phase(row) = "parked"
         /\ row.state = "completed" => Phase(row) = "done"
         /\ row.state = "failed" => Phase(row) = "dead"
         /\ row.state = "absent" => Phase(row) = "absent"
         /\ Active(row) => Phase(row) \in {"held", "waiting"}
<1>1. row.state \in States BY DEF RowOK, TaskRow
<1>2. /\ row.state \in {"leased", "running"} => Leased(row)
      /\ Leased(row) => Active(row)
  BY DEF RowOK, LedgerRow, LeaseColumns
<1>3. CASE row.state \in {"leased", "running"}
  BY <1>2, <1>3 DEF Phase, Active, ActiveStates
<1>4. CASE row.state = "validating"
  BY <1>2, <1>4 DEF Phase, Active, ActiveStates
<1>5. CASE row.state = "queued"
  BY <1>2, <1>5 DEF Phase, Active, ActiveStates
<1>6. CASE row.state = "blocked"
  BY <1>2, <1>6 DEF Phase, Active, ActiveStates
<1>7. CASE row.state = "completed"
  BY <1>2, <1>7 DEF Phase, Active, ActiveStates
<1>8. CASE row.state = "failed"
  BY <1>2, <1>8 DEF Phase, Active, ActiveStates
<1>9. CASE row.state = "absent"
  BY <1>2, <1>9 DEF Phase, Active, ActiveStates
<1> QED BY <1>1, <1>3, <1>4, <1>5, <1>6, <1>7, <1>8, <1>9 DEF States, ActiveStates

\* The abstract value of a good row.
LEMMA OwnType ==
  ASSUME NEW row, RowOK(row)
  PROVE  LET x == OwnershipOf(row) IN
         /\ x \in Ownership!Ownership
         /\ x.phase = Phase(row) /\ x.holder = row.leased_by
         /\ x.epoch = row.lease_generation /\ x.product = row.produced_sha
         /\ x.builder = IF row.produced_sha = None THEN None ELSE row.builder_worker_id
<1>1. /\ row.leased_by \in Workers \cup {None} /\ row.lease_generation \in Nat
      /\ row.produced_sha \in Shas \cup {None}
      /\ row.builder_worker_id \in Workers \cup {None}
      /\ row.state \in States
  BY DEF RowOK, TaskRow
<1>2. Phase(row) \in {"absent", "waiting", "held", "parked", "done", "dead"}
  BY <1>1, PhaseOf DEF States, Active
<1> QED BY <1>1, <1>2 DEF OwnershipOf, Ownership!Ownership, Ownership!Phases

\* What the abstract operations make of an abstract value, column by column.
LEMMA OwnEqual ==
  ASSUME NEW x \in Ownership!Ownership, NEW y \in Ownership!Ownership
  PROVE  /\ /\ y.phase = x.phase /\ y.holder = x.holder /\ y.epoch = x.epoch
            /\ y.product = x.product /\ y.builder = x.builder
            => y = x
         /\ /\ y.holder = None /\ y.epoch = x.epoch
            /\ y.product = x.product /\ y.builder = x.builder
            => y = Ownership!Released(x, y.phase)
         /\ /\ y.holder = None /\ y.epoch = x.epoch /\ y.builder = x.holder
            => y = [Ownership!Released(x, y.phase) EXCEPT
                      !.product = y.product, !.builder = x.holder]
         /\ /\ y.epoch = x.epoch + 1 /\ y.product = x.product /\ y.builder = x.builder
            => y = [x EXCEPT !.phase = y.phase, !.holder = y.holder, !.epoch = @ + 1]
<1>1. /\ y.phase \in Ownership!Phases /\ y.holder \in Workers \cup {None} /\ y.epoch \in Nat
      /\ y.product \in Shas \cup {None} /\ y.builder \in Workers \cup {None}
  BY DEF Ownership!Ownership
<1>2. ASSUME NEW z \in Ownership!Ownership, y.phase = z.phase, y.holder = z.holder,
             y.epoch = z.epoch, y.product = z.product, y.builder = z.builder
      PROVE  y = z
  BY <1>2 DEF Ownership!Ownership
<1>3. ASSUME NEW e \in Nat
      PROVE  LET z == [x EXCEPT !.phase = y.phase, !.holder = y.holder, !.epoch = e] IN
             /\ z \in Ownership!Ownership
             /\ z.phase = y.phase /\ z.holder = y.holder /\ z.epoch = e
             /\ z.product = x.product /\ z.builder = x.builder
  BY <1>1 DEF Ownership!Ownership
<1>4. LET z == Ownership!Released(x, y.phase) IN
      /\ z \in Ownership!Ownership
      /\ z.phase = y.phase /\ z.holder = None /\ z.epoch = x.epoch
      /\ z.product = x.product /\ z.builder = x.builder
  BY <1>1 DEF Ownership!Ownership, Ownership!Released
<1>5. ASSUME NEW r \in Ownership!Ownership
      PROVE  LET z == [r EXCEPT !.product = y.product, !.builder = y.builder] IN
             /\ z \in Ownership!Ownership
             /\ z.phase = r.phase /\ z.holder = r.holder /\ z.epoch = r.epoch
             /\ z.product = y.product /\ z.builder = y.builder
  BY <1>1 DEF Ownership!Ownership
<1>6. ASSUME y.phase = x.phase, y.holder = x.holder, y.epoch = x.epoch,
             y.product = x.product, y.builder = x.builder
      PROVE  y = x
  BY <1>2, <1>6
<1>7. ASSUME y.holder = None, y.epoch = x.epoch, y.product = x.product, y.builder = x.builder
      PROVE  y = Ownership!Released(x, y.phase)
  BY <1>2, <1>4, <1>7
<1>8. ASSUME y.holder = None, y.epoch = x.epoch, y.builder = x.holder
      PROVE  y = [Ownership!Released(x, y.phase) EXCEPT
                    !.product = y.product, !.builder = x.holder]
  <2> DEFINE r == Ownership!Released(x, y.phase)
             z == [r EXCEPT !.product = y.product, !.builder = y.builder]
  <2>1. r \in Ownership!Ownership /\ r.phase = y.phase /\ r.holder = None /\ r.epoch = x.epoch
    BY <1>4
  <2> HIDE DEF r
  <2>2. /\ z \in Ownership!Ownership
        /\ z.phase = y.phase /\ z.holder = None /\ z.epoch = x.epoch
        /\ z.product = y.product /\ z.builder = y.builder
    BY <1>5, <2>1
  <2> HIDE DEF z
  <2>3. y = z BY <1>2, <1>8, <2>2
  <2> QED BY <1>8, <2>3 DEF z, r
<1>9. ASSUME y.epoch = x.epoch + 1, y.product = x.product, y.builder = x.builder
      PROVE  y = [x EXCEPT !.phase = y.phase, !.holder = y.holder, !.epoch = @ + 1]
  <2> DEFINE z == [x EXCEPT !.phase = y.phase, !.holder = y.holder, !.epoch = x.epoch + 1]
  <2>1. /\ z \in Ownership!Ownership
        /\ z.phase = y.phase /\ z.holder = y.holder /\ z.epoch = y.epoch
        /\ z.product = x.product /\ z.builder = x.builder
    BY <1>1, <1>3, <1>9
  <2> HIDE DEF z
  <2>2. y = z BY <1>2, <1>9, <2>1
  <2> QED BY <2>2 DEF z
<1> QED BY <1>6, <1>7, <1>8, <1>9

\* One move is an abstract move or none.
LEMMA OwnMove ==
  ASSUME NEW t, NEW a, RowOK(a), StageRow(a), NEW b, RowOK(b), Move(t, a, b)
  PROVE  \/ OwnershipOf(b) = OwnershipOf(a)
         \/ Ownership!Move(OwnershipOf(a), OwnershipOf(b))
<1> DEFINE x == OwnershipOf(a)
           y == OwnershipOf(b)
<1>0. /\ x \in Ownership!Ownership /\ y \in Ownership!Ownership
      /\ x.phase = Phase(a) /\ x.holder = a.leased_by /\ x.epoch = a.lease_generation
      /\ x.product = a.produced_sha
      /\ x.builder = IF a.produced_sha = None THEN None ELSE a.builder_worker_id
      /\ y.phase = Phase(b) /\ y.holder = b.leased_by /\ y.epoch = b.lease_generation
      /\ y.product = b.produced_sha
      /\ y.builder = IF b.produced_sha = None THEN None ELSE b.builder_worker_id
  BY OwnType
<1> HIDE DEF x, y
<1>1. ASSUME b.lease_generation = a.lease_generation, b.produced_sha = a.produced_sha,
             a.produced_sha # None => b.builder_worker_id = a.builder_worker_id
      PROVE  /\ b.leased_by = None => y = Ownership!Released(x, Phase(b))
             /\ b.leased_by = a.leased_by /\ Phase(b) = Phase(a) => y = x
  <2>1. y.epoch = x.epoch /\ y.product = x.product /\ y.builder = x.builder
    BY <1>0, <1>1
  <2>2. ASSUME b.leased_by = None PROVE y = Ownership!Released(x, Phase(b))
    <3>1. y.holder = None BY <1>0, <2>2
    <3>2. y = Ownership!Released(x, y.phase) BY <1>0, <2>1, <3>1, OwnEqual
    <3> QED BY <1>0, <3>2
  <2>3. ASSUME b.leased_by = a.leased_by, Phase(b) = Phase(a) PROVE y = x
    <3>1. y.phase = x.phase /\ y.holder = x.holder BY <1>0, <2>3
    <3> QED BY <1>0, <2>1, <3>1, OwnEqual
  <2> QED BY <2>2, <2>3
<1>2. CASE b = a
  BY <1>2 DEF x, y
<1>3. CASE Withdraw(t, a, b) /\ b # a
  <2>1. /\ Active(a) /\ b.leased_by = None /\ b.lease_generation = a.lease_generation
        /\ b.produced_sha = a.produced_sha /\ b.builder_worker_id = a.builder_worker_id
        /\ b.state \in {"queued", "validating", "blocked", "failed"}
    BY <1>3 DEF Withdraw, Ended, SameTerms, RequeueState
  <2>2. Phase(b) \in {"waiting", "parked", "dead"} BY <2>1, PhaseOf DEF Leased
  <2>3. x.phase \in {"held", "waiting"} BY <1>0, <2>1, PhaseOf
  <2>4. y = Ownership!Released(x, Phase(b)) BY <1>1, <2>1
  <2>5. Ownership!Withdraw(x, y) BY <2>2, <2>3, <2>4 DEF Ownership!Withdraw
  <2> QED BY <2>5 DEF Ownership!Move, x, y
<1>4. CASE Keep(a, b)
  <2>1. /\ Leased(a) /\ Leased(b) /\ b.leased_by = a.leased_by
        /\ b.lease_generation = a.lease_generation /\ b.produced_sha = a.produced_sha
    BY <1>4 DEF Keep, SameTerms, Leased
  <2>2. a.produced_sha # None => b.builder_worker_id = a.builder_worker_id
    BY <1>4 DEF Keep, StageRow
  <2>3. Phase(b) = Phase(a) BY <2>1, PhaseOf
  <2>4. y = x BY <1>1, <2>1, <2>2, <2>3
  <2> QED BY <2>4 DEF x, y
<1>5. CASE HandIn(t, a, b)
  <2>1. /\ Leased(a) /\ b.leased_by = None /\ b.lease_generation = a.lease_generation
        /\ b.produced_sha \in Shas /\ b.builder_worker_id = a.leased_by
        /\ b.state = "validating" /\ a.produced_sha = None
    BY <1>5 DEF HandIn, Ended, SameTerms, StageRow
  <2>2. b.produced_sha # None BY <2>1, NoneAssumption
  <2>3. Phase(b) = "waiting" /\ Phase(a) = "held" BY <2>1, PhaseOf DEF Leased
  <2>4. y = [Ownership!Released(x, "waiting") EXCEPT
               !.product = b.produced_sha, !.builder = x.holder]
    <3>1. /\ y.holder = None /\ y.epoch = x.epoch /\ y.builder = x.holder
          /\ y.phase = "waiting" /\ y.product = b.produced_sha
      BY <1>0, <2>1, <2>2, <2>3
    <3>2. y = [Ownership!Released(x, y.phase) EXCEPT !.product = y.product, !.builder = x.holder]
      BY <1>0, <3>1, OwnEqual
    <3> QED BY <3>1, <3>2
  <2>5. Ownership!Deliver(x, y)
    BY <1>0, <2>1, <2>3, <2>4 DEF Ownership!Deliver
  <2> QED BY <2>5 DEF Ownership!Move, x, y
<1>6. CASE Finish(t, a, b)
  <2>1. /\ Leased(a) /\ b.leased_by = None /\ b.lease_generation = a.lease_generation
        /\ b.produced_sha = a.produced_sha /\ b.builder_worker_id = a.builder_worker_id
        /\ b.state = "completed" /\ a.produced_sha # None
        /\ a.leased_by # a.builder_worker_id
    BY <1>6 DEF Finish, Ended, SameTerms
  <2>2. Phase(b) = "done" /\ Phase(a) = "held" BY <2>1, PhaseOf
  <2>3. y = Ownership!Released(x, "done") BY <1>1, <2>1, <2>2
  <2>4. Ownership!Finish(x, y) BY <1>0, <2>1, <2>2, <2>3 DEF Ownership!Finish
  <2> QED BY <2>4 DEF Ownership!Move, x, y
<1>7. CASE Resume(t, a, b)
  <2>1. /\ b.leased_by = None /\ b.lease_generation = a.lease_generation
        /\ b.produced_sha = a.produced_sha /\ b.builder_worker_id = a.builder_worker_id
        /\ b.state \in {"queued", "validating"} /\ a.state = "blocked"
    BY <1>7 DEF Resume, SameTerms, RequeueState
  <2>2. Phase(b) = "waiting" /\ Phase(a) = "parked" BY <2>1, PhaseOf DEF Leased
  <2>3. y = Ownership!Released(x, "waiting") BY <1>1, <2>1, <2>2
  <2>4. Ownership!Resume(x, y) BY <1>0, <2>2, <2>3 DEF Ownership!Resume
  <2> QED BY <2>4 DEF Ownership!Move, x, y
<1>8. CASE Admit(a, b)
  <2>1. /\ a.lease_generation = 0 /\ a.produced_sha = None /\ a.leased_by = None
        /\ b.leased_by = None /\ b.lease_generation = 0 /\ b.produced_sha = None
        /\ a.state = "absent" /\ b.state = "queued"
    BY <1>8 DEF Admit, StageRow, RowOK, LedgerRow, LeaseColumns, Leased, Active, ActiveStates
  <2>2. Phase(b) = "waiting" /\ Phase(a) = "absent" BY <2>1, PhaseOf DEF Leased
  <2>3. x = Ownership!Unowned BY <2>1, <2>2 DEF OwnershipOf, Ownership!Unowned, x
  <2>4. y = Ownership!Released(x, "waiting") BY <1>1, <2>1, <2>2
  <2>5. Ownership!Admit(x, y) BY <2>3, <2>4 DEF Ownership!Admit
  <2> QED BY <2>5 DEF Ownership!Move, x, y
<1> QED BY <1>2, <1>3, <1>4, <1>5, <1>6, <1>7, <1>8 DEF Move, x, y

\* The passes of the recovery, and the grant that may follow them.
LEMMA OwnRecovered ==
  ASSUME NEW t, NEW a, RowOK(a), NEW m, RowOK(m), Recovered(t, a, m)
  PROVE  \/ OwnershipOf(m) = OwnershipOf(a)
         \/ Ownership!Move(OwnershipOf(a), OwnershipOf(m))
<1> DEFINE x == OwnershipOf(a)
           y == OwnershipOf(m)
<1>1. CASE m = a
  BY <1>1
<1>2. CASE m # a
  <2>1. /\ Active(a) /\ m.leased_by = None /\ SameTerms(a, m)
        /\ m.produced_sha = a.produced_sha /\ m.builder_worker_id = a.builder_worker_id
        /\ m.state \in {"queued", "validating", "blocked", "failed"}
    BY <1>2, RecoveredFacts
  <2>2. Phase(m) \in {"waiting", "parked", "dead"} BY <2>1, PhaseOf DEF Leased
  <2>3. /\ x \in Ownership!Ownership /\ y \in Ownership!Ownership
        /\ x.phase = Phase(a) /\ y.phase = Phase(m) /\ y.holder = None
        /\ y.epoch = x.epoch /\ y.product = x.product /\ y.builder = x.builder
    BY <2>1, OwnType DEF SameTerms
  <2> HIDE DEF x, y
  <2>4. y = Ownership!Released(x, Phase(m)) /\ x.phase \in {"held", "waiting"}
    BY <2>1, <2>3, OwnEqual, PhaseOf
  <2>5. Ownership!Withdraw(x, y) BY <2>2, <2>3, <2>4 DEF Ownership!Withdraw
  <2> QED BY <2>5 DEF Ownership!Move, x, y
<1> QED BY <1>1, <1>2

\* What a recovery leaves alone.
LEMMA RecoveredSame ==
  ASSUME NEW t, NEW a, RowOK(a), NEW m, RowOK(m), Recovered(t, a, m)
  PROVE  /\ m.lease_generation = a.lease_generation /\ m.produced_sha = a.produced_sha
         /\ m.builder_worker_id = a.builder_worker_id
         /\ m = a \/ Active(a)
<1>1. CASE m = a
  BY <1>1
<1>2. CASE m # a
  <2>1. /\ Active(a) /\ m.leased_by = None /\ SameTerms(a, m)
        /\ m.produced_sha = a.produced_sha /\ m.builder_worker_id = a.builder_worker_id
    BY <1>2, RecoveredFacts
  <2> QED BY <2>1 DEF SameTerms
<1> QED BY <1>1, <1>2

LEMMA OwnGranted ==
  ASSUME NEW t, NEW a, RowOK(a), NEW m, RowOK(m), Recovered(t, a, m),
         StageRow(m), NEW b, RowOK(b), Grant(m, b)
  PROVE  Ownership!Move(OwnershipOf(a), OwnershipOf(b))
<1> DEFINE x == OwnershipOf(a)
           y == OwnershipOf(b)
           w == b.leased_by
<1>1. /\ m.state \in {"queued", "validating"} /\ m.leased_by = None
      /\ w \in Workers
      /\ m.state = "validating" => w # m.builder_worker_id
      /\ b.lease_generation = m.lease_generation + 1
      /\ b.produced_sha = m.produced_sha /\ b.builder_worker_id = m.builder_worker_id
  BY DEF Grant
<1>2. Leased(b) /\ Phase(b) = "held" BY <1>1, PhaseOf, NoneAssumption DEF Leased
<1>3. /\ m.lease_generation = a.lease_generation /\ m.produced_sha = a.produced_sha
      /\ m.builder_worker_id = a.builder_worker_id
      /\ Phase(a) \in {"held", "waiting"}
  <2>1. CASE m = a
    BY <1>1, <2>1, PhaseOf DEF Leased
  <2>2. CASE m # a
    <3>1. Active(a) BY <2>2, RecoveredSame
    <3> QED BY <3>1, PhaseOf, RecoveredSame
  <2> QED BY <2>1, <2>2
<1>t. /\ x \in Ownership!Ownership /\ y \in Ownership!Ownership
      /\ x.phase = Phase(a) /\ x.epoch = a.lease_generation /\ x.product = a.produced_sha
      /\ x.builder = IF a.produced_sha = None THEN None ELSE a.builder_worker_id
      /\ y.phase = Phase(b) /\ y.epoch = b.lease_generation /\ y.holder = w
      /\ y.product = b.produced_sha
      /\ y.builder = IF b.produced_sha = None THEN None ELSE b.builder_worker_id
  BY OwnType
<1> HIDE DEF x, y
<1>4. x.product # None => w # x.builder
  <2>1. x.product = a.produced_sha /\ (a.produced_sha # None => x.builder = a.builder_worker_id)
    BY <1>t
  <2>2. CASE m.state = "validating"
    BY <1>1, <1>3, <2>1, <2>2
  <2>3. CASE m.state = "queued"
    BY <1>3, <2>1, <2>3 DEF StageRow
  <2> QED BY <1>1, <2>2, <2>3
<1>5. y = [x EXCEPT !.phase = "held", !.holder = w, !.epoch = @ + 1]
  <2>1. /\ y.epoch = x.epoch + 1 /\ y.product = x.product /\ y.builder = x.builder
        /\ y.phase = "held" /\ y.holder = w
    BY <1>1, <1>2, <1>3, <1>t
  <2> HIDE DEF w
  <2> QED BY <1>t, <2>1, OwnEqual
<1>6. x.phase \in {"waiting", "held"} BY <1>3, <1>t
<1>7. Ownership!Grant(x, y) BY <1>1, <1>4, <1>5, <1>6 DEF Ownership!Grant
<1> QED BY <1>7 DEF Ownership!Move, x, y

\* A row keeps its generation in every move but a grant.
LEMMA SameEpoch ==
  ASSUME NEW t, NEW a, RowOK(a), StageRow(a), NEW b, RowOK(b),
         Move(t, a, b) \/ Recovered(t, a, b)
  PROVE  b.lease_generation = a.lease_generation
<1>1. CASE Recovered(t, a, b)
  BY <1>1, RecoveredSame
<1>2. CASE Move(t, a, b)
  BY <1>2 DEF Move, Withdraw, Keep, HandIn, Finish, Resume, Admit, Ended,
              SameTerms, StageRow
<1> QED BY <1>1, <1>2

\* A transaction moves the abstract value of each task once, or leaves it.
LEMMA OwnStep ==
  ASSUME NEW t \in Tasks, NEW a, GoodTask(t, a), NEW b, RowOK(b),
         checkpoints \in [Tasks -> SUBSET CheckpointRow], TaskStep(t, a, b)
  PROVE  \/ OwnershipOf(b) = OwnershipOf(a)
         \/ Ownership!Move(OwnershipOf(a), OwnershipOf(b))
<1>0. RowOK(a) /\ StageRow(a) BY DEF GoodTask
<1>1. CASE Move(t, a, b)
  BY <1>0, <1>1, OwnMove
<1>2. ASSUME NEW m \in TaskRow, RowOK(m), Recovered(t, a, m), b = m \/ Grant(m, b)
      PROVE  \/ OwnershipOf(b) = OwnershipOf(a)
             \/ Ownership!Move(OwnershipOf(a), OwnershipOf(b))
  <2>1. TaskStep(t, a, m) BY <1>2 DEF TaskStep
  <2>2. StageRow(m) BY <1>2, <2>1, StepGood DEF GoodTask
  <2>3. CASE b = m
    BY <1>0, <1>2, <2>3, OwnRecovered
  <2>4. CASE Grant(m, b)
    BY <1>0, <1>2, <2>2, <2>4, OwnGranted
  <2> QED BY <1>2, <2>3, <2>4
<1> QED BY <1>1, <1>2 DEF TaskStep

\* At most one task is granted in a transaction.
LEMMA OneEpoch ==
  ASSUME TaskInv, [Next]_vars, NEW t \in Tasks, NEW u \in Tasks,
         tasks'[t].lease_generation # tasks[t].lease_generation,
         tasks'[u].lease_generation # tasks[u].lease_generation
  PROVE  t = u
<1>0. IInv /\ IInv' BY NextOK DEF TaskInv
<1>1. \A v \in Tasks : /\ RowOK(tasks[v]) /\ StageRow(tasks[v]) /\ RowOK(tasks'[v])
  BY <1>0 DEF TaskInv, GoodTask, IInv, TasksOK
<1>2. CASE ~Claiming
  <2>1. tasks'[t].lease_generation = tasks[t].lease_generation
    BY <1>0, <1>1, <1>2, PlainMoves, SameEpoch
  <2> QED BY <2>1
<1>3. CASE Claiming
  <2>1. PICK tk : /\ TasksOK(tk)
                  /\ \A v \in Tasks : Recovered(v, tasks[v], tk[v])
                  /\ \A v, x \in Tasks : tasks'[v] # tk[v] /\ tasks'[x] # tk[x] => v = x
    BY <1>0, <1>3, ClaimingMoves
  <2>2. \A v \in Tasks : tk[v].lease_generation = tasks[v].lease_generation
    BY <1>1, <2>1, RecoveredSame DEF TasksOK
  <2>3. tasks'[t] # tk[t] /\ tasks'[u] # tk[u] BY <2>2
  <2> QED BY <2>1, <2>3
<1> QED BY <1>2, <1>3

\* The store implements TaskOwnership, for any number of tasks and workers: every
\* transaction of app/store.py, the recovery inside a claim included, moves each
\* task along one operation of the abstract specification, or none; a task has one
\* holder per epoch, is built once, by a holder, and is finished by a holder that
\* did not build it; and a worker holds one task at a time.
THEOREM StoreImplementsOwnership == Spec => ImplementsOwnership
<1> DEFINE o == [t \in Tasks |-> OwnershipOf(tasks[t])]
<1>1. Init => Ownership!Init
  <2> SUFFICES ASSUME Init PROVE o = [t \in Tasks |-> Ownership!Unowned]
    BY DEF Ownership!Init
  <2>1. \A t \in Tasks : tasks[t] = AbsentTask BY DEF Init
  <2>2. OwnershipOf(AbsentTask) = Ownership!Unowned
    BY DEF OwnershipOf, Ownership!Unowned, AbsentTask, Phase, Leased
  <2> QED BY <2>1, <2>2
<1>2. ASSUME TaskInv, [Next]_vars PROVE [Ownership!Next]_o
  <2>0. /\ IInv /\ IInv' /\ TaskInv'
        /\ checkpoints \in [Tasks -> SUBSET CheckpointRow]
    BY <1>2, NextOK, TaskNext DEF TaskInv, IInv, TablesOK
  <2>1. \A t \in Tasks : RowOK(tasks[t]) /\ RowOK(tasks'[t])
    BY <2>0 DEF IInv, TasksOK
  <2>2. \A t \in Tasks : OwnershipOf(tasks'[t]) \in Ownership!Ownership
    BY <2>1, OwnType
  <2>3. \A t \in Tasks : \/ OwnershipOf(tasks'[t]) = OwnershipOf(tasks[t])
                         \/ Ownership!Move(OwnershipOf(tasks[t]), OwnershipOf(tasks'[t]))
    <3> TAKE t \in Tasks
    <3>1. GoodTask(t, tasks[t]) /\ TaskStep(t, tasks[t], tasks'[t])
      BY <1>2, <2>0, StepMoves DEF TaskInv
    <3> QED BY <2>0, <2>1, <3>1, OwnStep
  <2>4. \A t, u \in Tasks :
          \/ OwnershipOf(tasks'[t]).epoch = OwnershipOf(tasks[t]).epoch
          \/ OwnershipOf(tasks'[u]).epoch = OwnershipOf(tasks[u]).epoch
          \/ t = u
    <3> TAKE t \in Tasks, u \in Tasks
    <3>1. \A v \in Tasks :
            /\ OwnershipOf(tasks'[v]).epoch = tasks'[v].lease_generation
            /\ OwnershipOf(tasks[v]).epoch = tasks[v].lease_generation
      BY DEF OwnershipOf
    <3> QED BY <1>2, <3>1, OneEpoch
  <2>5. \A t, u \in Tasks :
          \/ OwnershipOf(tasks'[t]).holder = None
          \/ OwnershipOf(tasks'[t]).holder # OwnershipOf(tasks'[u]).holder
          \/ t = u
    <3>1. \A v \in Tasks : OwnershipOf(tasks'[v]).holder = tasks'[v].leased_by
      BY DEF OwnershipOf
    <3>2. \A t, u \in Tasks :
            tasks'[t].leased_by # None /\ tasks'[t].leased_by = tasks'[u].leased_by => t = u
      BY <2>0 DEF IInv, TasksOK, Leased
    <3> QED BY <3>1, <3>2
  <2>6. /\ o' = [t \in Tasks |-> OwnershipOf(tasks'[t])]
        /\ \A t \in Tasks : o'[t] = OwnershipOf(tasks'[t]) /\ o[t] = OwnershipOf(tasks[t])
    BY DEF OwnershipOf, Phase, Leased, Active, ActiveStates
  <2> HIDE DEF o
  <2>7. o' \in [Tasks -> Ownership!Ownership] BY <2>2, <2>6
  <2>8. \A t \in Tasks : o'[t] = o[t] \/ Ownership!Move(o[t], o'[t]) BY <2>3, <2>6
  <2>9. \A t, u \in Tasks : o'[t].epoch # o[t].epoch /\ o'[u].epoch # o[u].epoch => t = u
    BY <2>4, <2>6
  <2>10. Ownership!Exclusive(o') BY <2>5, <2>6 DEF Ownership!Exclusive
  <2>11. Ownership!Next BY <2>7, <2>8, <2>9, <2>10 DEF Ownership!Next, o
  <2> QED BY <2>11
<1> QED BY <1>1, <1>2, TaskInvariance, PTL DEF Spec, ImplementsOwnership, Ownership!Spec
=============================================================================
