-------------------------- MODULE WorkerPoolProofs --------------------------
(***************************************************************************)
(* Theorems about WorkerPool, for every value of its constants.            *)
(*                                                                         *)
(* The invariants proved here are facts about one row of the task table.   *)
(* A transaction replaces rows by the results of a few row operations      *)
(* (Release, Claimed, Progress, ...), so the proof has three layers: what  *)
(* an operation does to the fields of a row, that it preserves RowOK, and  *)
(* that every action changes rows by these operations only.                *)
(***************************************************************************)
EXTENDS WorkerPool, SequenceTheorems, TLAPS

\* A number of seconds is a natural number of ticks.
LEMMA SecondsNat == ASSUME NEW n \in Nat PROVE Seconds(n) \in Nat
  BY TicksPerSecondAssumption DEF Seconds

-----------------------------------------------------------------------------
(* The inductive invariant of a row *)

\* The lease columns and the attempt ledger agree.
LedgerRow(row) == LeaseColumns(row) /\ AttemptHistory(row)

\* A row is in quarantine once when it failed and not otherwise.
QuarantineRow(row) == row.quarantine = IF row.state = "failed" THEN 1 ELSE 0

RowOK(row) ==
  /\ row \in TaskRow
  /\ LedgerRow(row)
  /\ IndependentRow(row)
  /\ QuarantineRow(row)

\* r is row but for the fields that Release writes.
SameBesidesLease(r, row) ==
  /\ r.fencing_required = row.fencing_required
  /\ r.priority = row.priority
  /\ r.max_attempts = row.max_attempts
  /\ r.produced_sha = row.produced_sha
  /\ r.builder_worker_id = row.builder_worker_id
  /\ r.validator_worker_id = row.validator_worker_id
  /\ r.lease_generation = row.lease_generation
  /\ r.attempt_count = row.attempt_count
  /\ r.blocked_reason = row.blocked_reason
  /\ r.last_material_progress_at = row.last_material_progress_at
  /\ r.quarantine = row.quarantine

-----------------------------------------------------------------------------
(* What each statement leaves in a row *)

\* Ending an attempt keeps the row in its schema and gives the attempt the row
\* names, and no other, an end_reason.
LEMMA EndAttemptFields ==
  ASSUME NEW row \in TaskRow, NEW st
  PROVE  LET r == EndAttempt(row, st) IN
         /\ r \in TaskRow
         /\ SameBesidesLease(r, row)
         /\ Len(r.attempts) = Len(row.attempts)
         /\ \A i \in 1..Len(row.attempts) :
              /\ r.attempts[i].gen = row.attempts[i].gen
              /\ r.attempts[i].worker = row.attempts[i].worker
              /\ i # row.attempt_id =>
                   r.attempts[i].end_reason = row.attempts[i].end_reason
              /\ i = row.attempt_id => r.attempts[i].end_reason # None
<1> DEFINE r == EndAttempt(row, st)
           why == IF st = "blocked" THEN "blocked" ELSE "released"
           s == row.attempts
           k == row.attempt_id
           e == [s[k] EXCEPT !.end_reason = why]
<1>0. s \in Seq(AttemptRow) /\ Len(s) \in Nat /\ DOMAIN s = 1..Len(s)
  BY LenProperties DEF TaskRow
<1>n. 1..Len(s) \subseteq Nat /\ None \notin 1..Len(s)
  BY <1>0, NoneAssumption
<1>1. CASE k = None
  BY <1>1, <1>n DEF EndAttempt, SameBesidesLease
<1>2. CASE k # None /\ k \notin DOMAIN s
  <2>1. r = row
    BY <1>2 DEF EndAttempt, TaskRow
  <2> QED BY <1>0, <1>2, <2>1 DEF SameBesidesLease
<1>3. CASE k # None /\ k \in DOMAIN s
  <2>1. k \in 1..Len(s) BY <1>0, <1>3
  <2>2. s[k] \in AttemptRow BY <1>0, <2>1, ElementOfSeq
  <2>3. /\ e \in AttemptRow
        /\ e.gen = s[k].gen /\ e.worker = s[k].worker /\ e.end_reason = why
    BY <2>2 DEF AttemptRow, EndReasons
  <2>4. /\ [s EXCEPT ![k] = e] \in Seq(AttemptRow)
        /\ Len([s EXCEPT ![k] = e]) = Len(s)
        /\ \A j \in 1..Len(s) : [s EXCEPT ![k] = e][j] = IF j = k THEN e ELSE s[j]
    BY <1>0, <2>1, <2>3, ExceptSeq
  <2>5. r = [row EXCEPT !.attempts = [s EXCEPT ![k] = e]]
    BY <1>3 DEF EndAttempt
  <2>6. /\ r.attempts = [s EXCEPT ![k] = e]
        /\ r \in TaskRow
        /\ SameBesidesLease(r, row)
    BY <2>4, <2>5 DEF TaskRow, SameBesidesLease
  <2>7. why # None BY NoneAssumption
  <2> HIDE DEF e, why
  <2> QED BY <2>3, <2>4, <2>6, <2>7
<1> QED BY <1>1, <1>2, <1>3

\* Releasing a row: the state is the one asked for, the lease columns are NULL,
\* no attempt is left open, the rest is as before.
LEMMA ReleaseFields ==
  ASSUME NEW row \in TaskRow, NEW st \in States
  PROVE  LET r == Release(row, st) IN
         /\ r \in TaskRow
         /\ SameBesidesLease(r, row)
         /\ r.state = st
         /\ r.leased_by = None /\ r.lease_token = None
         /\ r.lease_expires_at = None /\ r.attempt_id = None
         /\ r.attempts = EndAttempt(row, st).attempts
<1>1. EndAttempt(row, st) \in TaskRow /\ SameBesidesLease(EndAttempt(row, st), row)
  BY EndAttemptFields
<1> QED BY <1>1 DEF Release, TaskRow, SameBesidesLease

\* Releasing a row keeps its ledger.
LEMMA ReleaseLedger ==
  ASSUME NEW row \in TaskRow, LedgerRow(row), NEW st \in States \ {"leased", "running"}
  PROVE  LedgerRow(Release(row, st))
<1> DEFINE r == Release(row, st)
<1>1. /\ r \in TaskRow
      /\ SameBesidesLease(r, row)
      /\ r.state = st
      /\ r.leased_by = None /\ r.lease_token = None
      /\ r.lease_expires_at = None /\ r.attempt_id = None
      /\ r.attempts = EndAttempt(row, st).attempts
  BY ReleaseFields
<1>2. /\ Len(r.attempts) = Len(row.attempts)
      /\ \A i \in 1..Len(row.attempts) :
           /\ r.attempts[i].gen = row.attempts[i].gen
           /\ i # row.attempt_id => r.attempts[i].end_reason = row.attempts[i].end_reason
           /\ i = row.attempt_id => r.attempts[i].end_reason # None
  BY <1>1, EndAttemptFields
<1>3. Len(row.attempts) \in Nat
  BY LenProperties DEF TaskRow
<1> HIDE DEF r
<1>4. LeaseColumns(r)
  BY <1>1 DEF LeaseColumns, Leased
<1>5. AttemptHistory(r)
  <2>1. \A i \in 1..Len(r.attempts) : r.attempts[i].end_reason # None
    BY <1>2 DEF LedgerRow, AttemptHistory
  <2>2. \A i \in 1..Len(r.attempts) : i # None
    BY <1>2, <1>3, NoneAssumption
  <2> QED BY <1>1, <1>2, <2>1, <2>2
          DEF LedgerRow, AttemptHistory, SameBesidesLease, Leased
<1> QED BY <1>4, <1>5 DEF LedgerRow, r

\* Progress changes only the progress mark.
LEMMA ProgressFields ==
  ASSUME NEW row \in TaskRow, clock \in Nat
  PROVE  LET r == Progress(row) IN
         /\ r \in TaskRow
         /\ r.last_material_progress_at = clock
         /\ RowOK(row) => RowOK(r)
         /\ LedgerRow(row) => LedgerRow(r)
         /\ r.state = row.state /\ r.produced_sha = row.produced_sha
         /\ r.builder_worker_id = row.builder_worker_id
         /\ r.validator_worker_id = row.validator_worker_id
         /\ r.leased_by = row.leased_by
         /\ r.quarantine = row.quarantine
<1> DEFINE r == Progress(row)
<1>1. /\ r \in TaskRow
      /\ r.last_material_progress_at = clock
      /\ r.state = row.state
      /\ r.produced_sha = row.produced_sha
      /\ r.builder_worker_id = row.builder_worker_id
      /\ r.validator_worker_id = row.validator_worker_id
      /\ r.leased_by = row.leased_by
      /\ r.lease_token = row.lease_token
      /\ r.lease_expires_at = row.lease_expires_at
      /\ r.lease_generation = row.lease_generation
      /\ r.attempt_id = row.attempt_id
      /\ r.attempt_count = row.attempt_count
      /\ r.attempts = row.attempts
      /\ r.quarantine = row.quarantine
  BY DEF Progress, TaskRow
<1> HIDE DEF r
<1>2. LedgerRow(row) => LedgerRow(r)
  BY <1>1 DEF LedgerRow, LeaseColumns, AttemptHistory, Leased, Active
<1>3. IndependentRow(row) => IndependentRow(r)
  BY <1>1 DEF IndependentRow, Leased
<1>4. QuarantineRow(row) => QuarantineRow(r)
  BY <1>1 DEF QuarantineRow
<1> QED BY <1>1, <1>2, <1>3, <1>4 DEF RowOK, r

-----------------------------------------------------------------------------
(* Each operation keeps a row good *)

\* A row that is released into a state it may be released into stays good.
LEMMA ReleaseOK ==
  ASSUME NEW row, RowOK(row), row.state # "failed",
         NEW st \in {"queued", "validating", "blocked"},
         st = "validating" => row.produced_sha # None
  PROVE  RowOK(Release(row, st))
<1> DEFINE r == Release(row, st)
<1>1. row \in TaskRow /\ LedgerRow(row) BY DEF RowOK
<1>2. st \in States /\ st \in States \ {"leased", "running"}
  BY DEF States, ActiveStates
<1>3. /\ r \in TaskRow
      /\ SameBesidesLease(r, row)
      /\ r.state = st
      /\ r.leased_by = None
  BY <1>1, <1>2, ReleaseFields
<1>4. LedgerRow(r) BY <1>1, <1>2, ReleaseLedger
<1> HIDE DEF r
<1>5. IndependentRow(r)
  BY <1>3 DEF RowOK, IndependentRow, SameBesidesLease, Leased
<1>6. QuarantineRow(r)
  BY <1>3 DEF RowOK, QuarantineRow, SameBesidesLease
<1> QED BY <1>3, <1>4, <1>5, <1>6 DEF RowOK, r

\* blocked_reason is no part of RowOK but for its type.
LEMMA ReasonOK ==
  ASSUME NEW row, RowOK(row), NEW reason \in BlockReasons \cup {None}
  PROVE  RowOK([row EXCEPT !.blocked_reason = reason])
<1> DEFINE r == [row EXCEPT !.blocked_reason = reason]
<1>1. /\ r \in TaskRow
      /\ r.state = row.state
      /\ r.produced_sha = row.produced_sha
      /\ r.builder_worker_id = row.builder_worker_id
      /\ r.validator_worker_id = row.validator_worker_id
      /\ r.leased_by = row.leased_by
      /\ r.lease_token = row.lease_token
      /\ r.lease_expires_at = row.lease_expires_at
      /\ r.lease_generation = row.lease_generation
      /\ r.attempt_id = row.attempt_id
      /\ r.attempt_count = row.attempt_count
      /\ r.attempts = row.attempts
      /\ r.quarantine = row.quarantine
  BY DEF RowOK, TaskRow
<1> HIDE DEF r
<1>2. LedgerRow(r)
  BY <1>1 DEF RowOK, LedgerRow, LeaseColumns, AttemptHistory, Leased, Active
<1>3. IndependentRow(r)
  BY <1>1 DEF RowOK, IndependentRow, Leased
<1>4. QuarantineRow(r)
  BY <1>1 DEF RowOK, QuarantineRow
<1> QED BY <1>1, <1>2, <1>3, <1>4 DEF RowOK, r

LEMMA QuarantineType == ASSUME NEW row \in TaskRow PROVE Quarantine(row) \in TaskRow
  BY DEF Quarantine, TaskRow

\* A task that fails for good is released into 'failed' with its one record.
LEMMA FailedOK ==
  ASSUME NEW row, RowOK(row), row.state # "failed"
  PROVE  RowOK(Release(Quarantine(row), "failed"))
<1> DEFINE q == Quarantine(row)
           r == Release(q, "failed")
<1>1. /\ q \in TaskRow
      /\ q.quarantine = row.quarantine + 1
      /\ q.produced_sha = row.produced_sha
      /\ q.builder_worker_id = row.builder_worker_id
      /\ q.state = row.state
      /\ q.leased_by = row.leased_by
      /\ q.lease_token = row.lease_token
      /\ q.lease_expires_at = row.lease_expires_at
      /\ q.lease_generation = row.lease_generation
      /\ q.attempt_id = row.attempt_id
      /\ q.attempt_count = row.attempt_count
      /\ q.attempts = row.attempts
  BY DEF RowOK, Quarantine, TaskRow
<1> HIDE DEF q
<1>2. LedgerRow(q)
  BY <1>1 DEF RowOK, LedgerRow, LeaseColumns, AttemptHistory, Leased, Active
<1>3. "failed" \in States /\ "failed" \in States \ {"leased", "running"}
  BY DEF States
<1>4. /\ r \in TaskRow
      /\ SameBesidesLease(r, q)
      /\ r.state = "failed"
      /\ r.leased_by = None
  BY <1>1, <1>3, ReleaseFields
<1>5. LedgerRow(r) BY <1>1, <1>2, <1>3, ReleaseLedger
<1> HIDE DEF r
<1>6. IndependentRow(r)
  BY <1>1, <1>4 DEF RowOK, IndependentRow, SameBesidesLease, Leased
<1>7. QuarantineRow(r)
  BY <1>1, <1>4 DEF RowOK, QuarantineRow, SameBesidesLease
<1> QED BY <1>4, <1>5, <1>6, <1>7 DEF RowOK, r, q

\* Whatever a pass of the recovery does with an active row keeps it good, and
\* leaves it without a lease.
LEMMA ReclaimedOK ==
  ASSUME NEW t \in Tasks, NEW row, RowOK(row), Active(row),
         NEW otherwise, RowOK(otherwise), otherwise.leased_by = None
  PROVE  /\ RowOK(Reclaimed(t, row, otherwise))
         /\ Reclaimed(t, row, otherwise).leased_by = None
<1>1. row \in TaskRow /\ row.state # "failed"
  BY DEF RowOK, Active, ActiveStates
<1>2. CASE UnresolvedEffect(t, row)
  <2>1. RowOK(Release(row, "blocked")) /\ Release(row, "blocked").leased_by = None
    BY <1>1, ReleaseOK, ReleaseFields DEF States
  <2>2. Release(row, "blocked") \in TaskRow BY <2>1 DEF RowOK
  <2>3. Reclaimed(t, row, otherwise)
          = [Release(row, "blocked") EXCEPT !.blocked_reason = "effect_reconciliation_required"]
    BY <1>2 DEF Reclaimed, Blocked
  <2>4. "effect_reconciliation_required" \in BlockReasons \cup {None}
    BY DEF BlockReasons
  <2>5. Reclaimed(t, row, otherwise).leased_by = None
    BY <2>1, <2>2, <2>3 DEF TaskRow
  <2> QED BY <2>1, <2>3, <2>4, <2>5, ReasonOK
<1>3. CASE ~UnresolvedEffect(t, row) /\ Exhausted(row)
  <2> DEFINE f == Release(Quarantine(row), "failed")
  <2>1. RowOK(f) BY <1>1, FailedOK
  <2>2. Quarantine(row) \in TaskRow BY <1>1, QuarantineType
  <2>3. f.leased_by = None BY <2>2, ReleaseFields DEF States
  <2>4. Reclaimed(t, row, otherwise) = [f EXCEPT !.blocked_reason = None]
    BY <1>3 DEF Reclaimed
  <2>5. f \in TaskRow BY <2>1 DEF RowOK
  <2> HIDE DEF f
  <2>6. Reclaimed(t, row, otherwise).leased_by = None
    BY <2>3, <2>4, <2>5 DEF TaskRow
  <2> QED BY <2>1, <2>4, <2>6, ReasonOK
<1>4. CASE ~UnresolvedEffect(t, row) /\ ~Exhausted(row)
  BY <1>4 DEF Reclaimed
<1> QED BY <1>2, <1>3, <1>4

\* A row sent back to the queue or to validation, or parked, stays good.
LEMMA GivenUpOK ==
  ASSUME NEW row, RowOK(row), Active(row)
  PROVE  /\ RowOK(Rerouted(row)) /\ Rerouted(row).leased_by = None
         /\ \A reason \in BlockReasons :
              RowOK(Blocked(row, reason)) /\ Blocked(row, reason).leased_by = None
<1>1. row \in TaskRow /\ row.state # "failed"
  BY DEF RowOK, Active, ActiveStates
<1>2. ASSUME NEW st \in {"queued", "validating", "blocked"},
             st = "validating" => row.produced_sha # None,
             NEW reason \in BlockReasons \cup {None}
      PROVE  LET r == [Release(row, st) EXCEPT !.blocked_reason = reason] IN
             RowOK(r) /\ r.leased_by = None
  <2>1. RowOK(Release(row, st)) BY <1>1, <1>2, ReleaseOK
  <2>2. st \in States BY DEF States, ActiveStates
  <2>3. Release(row, st).leased_by = None BY <1>1, <2>2, ReleaseFields
  <2>4. Release(row, st) \in TaskRow BY <2>1 DEF RowOK
  <2>5. [Release(row, st) EXCEPT !.blocked_reason = reason].leased_by = None
    BY <2>3, <2>4 DEF TaskRow
  <2> QED BY <2>1, <2>5, ReasonOK
<1>3. /\ RequeueState(row) \in {"queued", "validating", "blocked"}
      /\ RequeueState(row) = "validating" => row.produced_sha # None
  BY DEF RequeueState
<1> QED BY <1>2, <1>3 DEF Rerouted, Blocked

\* T is what a recovery pass may make of the good table tk: every row is good,
\* and as it was or without a lease.
SweptFrom(T, tk) ==
  /\ T \in [Tasks -> TaskRow]
  /\ \A t \in Tasks : RowOK(T[t]) /\ (T[t] = tk[t] \/ T[t].leased_by = None)

LEMMA RecoverExpiredOK ==
  ASSUME NEW tk, \A t \in Tasks : RowOK(tk[t])
  PROVE  SweptFrom(RecoverExpired(tk), tk)
<1> DEFINE T == RecoverExpired(tk)
<1>1. ASSUME NEW t \in Tasks
      PROVE  RowOK(T[t]) /\ (T[t] = tk[t] \/ T[t].leased_by = None)
  <2>1. CASE LeaseLapsed(tk[t])
    <3>1. Active(tk[t]) BY <2>1 DEF LeaseLapsed
    <3>2. T[t] = Reclaimed(t, tk[t], Rerouted(tk[t])) BY <2>1 DEF RecoverExpired
    <3> QED BY <3>1, <3>2, GivenUpOK, ReclaimedOK
  <2>2. CASE ~LeaseLapsed(tk[t])
    BY <2>2 DEF RecoverExpired
  <2> QED BY <2>1, <2>2
<1>2. T = [t \in Tasks |-> T[t]] BY DEF RecoverExpired
<1> HIDE DEF T
<1>3. T \in [Tasks -> TaskRow] BY <1>1, <1>2 DEF RowOK
<1> QED BY <1>1, <1>3 DEF SweptFrom, T

LEMMA RecoverStalledOK ==
  ASSUME NEW tk, \A t \in Tasks : RowOK(tk[t]), NEW o
  PROVE  SweptFrom(RecoverStalled(tk, o), tk)
<1> DEFINE T == RecoverStalled(tk, o)
<1>1. ASSUME NEW t \in Tasks
      PROVE  RowOK(T[t]) /\ (T[t] = tk[t] \/ T[t].leased_by = None)
  <2> DEFINE gone == {u \in Tasks : Stalled(tk[u]) /\ o[u] < o[t]}
             blocked == Blocked(tk[t], "material_progress_timeout_no_alternative")
             other == IF \E w \in Workers : Alternative(tk, t, w, gone)
                      THEN Rerouted(tk[t]) ELSE blocked
  <2>1. CASE Stalled(tk[t])
    <3>1. Active(tk[t]) BY <2>1 DEF Stalled
    <3>2. T[t] = Reclaimed(t, tk[t], other) BY <2>1 DEF RecoverStalled, StallOutcome
    <3>3. /\ RowOK(Rerouted(tk[t])) /\ Rerouted(tk[t]).leased_by = None
          /\ RowOK(blocked) /\ blocked.leased_by = None
      BY <3>1, GivenUpOK DEF BlockReasons
    <3> HIDE DEF blocked
    <3>4. RowOK(other) /\ other.leased_by = None
      BY <3>3
    <3> HIDE DEF other
    <3> QED BY <3>1, <3>2, <3>4, ReclaimedOK
  <2>2. CASE ~Stalled(tk[t])
    BY <2>2 DEF RecoverStalled
  <2> QED BY <2>1, <2>2
<1>2. T = [t \in Tasks |-> T[t]] BY DEF RecoverStalled
<1> HIDE DEF T
<1>3. T \in [Tasks -> TaskRow] BY <1>1, <1>2 DEF RowOK
<1> QED BY <1>1, <1>3 DEF SweptFrom, T

\* A granted lease is one more attempt, and the only open one.
LEMMA ClaimedOK ==
  ASSUME NEW row, RowOK(row), row.leased_by = None, clock \in Nat,
         NEW w \in Workers, NEW role \in Roles, NEW ttl \in LeaseSeconds,
         row.state \in {"queued", "validating"},
         role = "validator" =>
           row.state = "validating" /\ row.produced_sha # None /\ row.builder_worker_id # w
  PROVE  RowOK(Claimed(row, w, role, ttl)) /\ Claimed(row, w, role, ttl).leased_by = w
<1> DEFINE r == Claimed(row, w, role, ttl)
           n == Len(row.attempts)
           a == [gen |-> row.lease_generation + 1, worker |-> w, end_reason |-> None]
           st == IF role = "builder" THEN "leased" ELSE "validating"
           vw == IF role = "validator" THEN w ELSE row.validator_worker_id
           exp == clock + Seconds(ttl)
           as == Append(row.attempts, a)
<1>1. row \in TaskRow /\ row.attempts \in Seq(AttemptRow) /\ n \in Nat
  BY LenProperties DEF RowOK, TaskRow
<1>2. /\ row.lease_generation = n /\ row.attempt_count = n
      /\ row.attempt_id = None
      /\ \A i \in 1..n : row.attempts[i].gen = i
      /\ \A i \in 1..n : row.attempts[i].end_reason = None <=> row.attempt_id = i
  BY DEF RowOK, LedgerRow, AttemptHistory, LeaseColumns, Leased
<1>3. \A i \in 1..n : row.attempts[i].end_reason # None
  BY <1>1, <1>2, NoneAssumption
<1>4. a \in AttemptRow
  BY <1>1, <1>2 DEF AttemptRow, EndReasons
<1>5. /\ Append(row.attempts, a) \in Seq(AttemptRow)
      /\ Len(Append(row.attempts, a)) = n + 1
      /\ \A i \in 1..n : Append(row.attempts, a)[i] = row.attempts[i]
      /\ Append(row.attempts, a)[n + 1] = a
  BY <1>1, <1>4, AppendProperties
<1>6. clock + Seconds(ttl) \in Nat
  BY SecondsNat, ConstantsAssumption
<1>v. /\ st \in States /\ vw \in Workers \cup {None} /\ exp \in Nat
      /\ as \in Seq(AttemptRow) /\ n + 1 \in Nat
  BY <1>1, <1>5, <1>6 DEF TaskRow, States, ActiveStates
<1>r. r = [row EXCEPT !.state = st, !.leased_by = w, !.lease_token = n + 1,
             !.lease_expires_at = exp, !.attempt_count = n + 1,
             !.validator_worker_id = vw, !.lease_generation = n + 1,
             !.attempt_id = n + 1, !.last_material_progress_at = clock,
             !.attempts = as]
  BY <1>2 DEF Claimed
<1> HIDE DEF r, st, vw, exp, as, n, a
<1>f. /\ r \in TaskRow
      /\ r.state = st
      /\ r.produced_sha = row.produced_sha
      /\ r.builder_worker_id = row.builder_worker_id
      /\ r.validator_worker_id = vw
      /\ r.leased_by = w
      /\ r.lease_token = n + 1 /\ r.attempt_id = n + 1
      /\ r.lease_expires_at = exp
      /\ r.lease_generation = n + 1 /\ r.attempt_count = n + 1
      /\ r.attempts = as
      /\ r.quarantine = row.quarantine
  <2> DEFINE m == [row EXCEPT !.state = st, !.leased_by = w, !.lease_token = n + 1,
                     !.lease_expires_at = exp, !.attempt_count = n + 1]
  <2>1. /\ m \in TaskRow
        /\ m.state = st /\ m.leased_by = w /\ m.lease_token = n + 1
        /\ m.lease_expires_at = exp /\ m.attempt_count = n + 1
        /\ m.produced_sha = row.produced_sha
        /\ m.builder_worker_id = row.builder_worker_id
        /\ m.quarantine = row.quarantine
    BY <1>1, <1>v DEF TaskRow
  <2>2. r = [m EXCEPT !.validator_worker_id = vw, !.lease_generation = n + 1,
               !.attempt_id = n + 1, !.last_material_progress_at = clock,
               !.attempts = as]
    BY <1>1, <1>r DEF TaskRow
  <2> HIDE DEF m
  <2> DEFINE q == [m EXCEPT !.validator_worker_id = vw, !.lease_generation = n + 1,
                     !.attempt_id = n + 1]
  <2>3. /\ q \in TaskRow
        /\ q.state = st /\ q.leased_by = w /\ q.lease_token = n + 1
        /\ q.lease_expires_at = exp /\ q.attempt_count = n + 1
        /\ q.validator_worker_id = vw /\ q.lease_generation = n + 1
        /\ q.attempt_id = n + 1
        /\ q.produced_sha = row.produced_sha
        /\ q.builder_worker_id = row.builder_worker_id
        /\ q.quarantine = row.quarantine
    BY <2>1, <1>v DEF TaskRow
  <2>4. r = [q EXCEPT !.last_material_progress_at = clock, !.attempts = as]
    BY <2>1, <2>2 DEF TaskRow
  <2> HIDE DEF q
  <2>5. r \in TaskRow
    <3>1. q \in TaskRow /\ as \in Seq(AttemptRow) BY <2>3, <1>v
    <3>2. [q EXCEPT !.attempts = as] \in TaskRow BY ONLY <3>1 DEF TaskRow
    <3>3. r = Progress([q EXCEPT !.attempts = as])
      BY <3>1, <2>4 DEF Progress, TaskRow
    <3> QED BY <3>2, <3>3, ProgressFields
  <2> QED BY <2>3, <2>4, <2>5 DEF TaskRow
<1>7. /\ r \in TaskRow
      /\ r.state = IF role = "builder" THEN "leased" ELSE "validating"
      /\ r.produced_sha = row.produced_sha
      /\ r.builder_worker_id = row.builder_worker_id
      /\ role = "validator" => r.validator_worker_id = w
      /\ r.leased_by = w
      /\ r.lease_token = n + 1 /\ r.attempt_id = n + 1
      /\ r.lease_expires_at = clock + Seconds(ttl)
      /\ r.lease_generation = n + 1 /\ r.attempt_count = n + 1
      /\ r.attempts = Append(row.attempts, a)
      /\ r.quarantine = row.quarantine
  BY <1>f DEF st, vw, exp, as
<1> USE DEF n, a
<1>8. w # None /\ n + 1 # None /\ clock + Seconds(ttl) # None
  BY <1>1, <1>6, NoneAssumption
<1> HIDE DEF r
<1>9. LeaseColumns(r)
  BY <1>7, <1>8 DEF LeaseColumns, Leased, Active, ActiveStates
<1>10. AttemptHistory(r)
  <2>1. \A i \in 1..(n + 1) : i \in 1..n \/ i = n + 1
    BY <1>1
  <2>2. a.gen = n + 1 /\ a.worker = w /\ a.end_reason = None
    BY <1>2
  <2> HIDE DEF a
  <2>3. Len(r.attempts) = n + 1
    BY <1>5, <1>7
  <2>4. ASSUME NEW i \in 1..(n + 1)
        PROVE  /\ r.attempts[i].gen = i
               /\ r.attempts[i].end_reason = None <=> r.attempt_id = i
    <3>1. CASE i \in 1..n
      <4>1. r.attempts[i] = row.attempts[i] BY <3>1, <1>5, <1>7
      <4>2. r.attempt_id # i BY <3>1, <1>1, <1>7
      <4> QED BY <3>1, <4>1, <4>2, <1>2, <1>3
    <3>2. CASE i = n + 1
      BY <3>2, <2>2, <1>5, <1>7
    <3> QED BY <3>1, <3>2, <2>1
  <2>5. r.attempts[n + 1].worker = r.leased_by
    BY <2>2, <1>5, <1>7
  <2> QED BY <2>3, <2>4, <2>5, <1>7 DEF AttemptHistory
<1>11. IndependentRow(r)
  BY <1>7, <1>8 DEF RowOK, IndependentRow, Leased, Roles
<1>12. QuarantineRow(r)
  BY <1>7 DEF RowOK, QuarantineRow
<1> QED BY <1>7, <1>9, <1>10, <1>11, <1>12 DEF RowOK, LedgerRow, r

\* Renewing moves only the expiry of a lease that is held.
LEMMA RenewedOK ==
  ASSUME NEW row, RowOK(row), Leased(row), NEW at \in Nat
  PROVE  LET r == [row EXCEPT !.lease_expires_at = at] IN
         RowOK(r) /\ r.leased_by = row.leased_by
<1> DEFINE r == [row EXCEPT !.lease_expires_at = at]
<1>1. /\ r \in TaskRow
      /\ r.state = row.state
      /\ r.produced_sha = row.produced_sha
      /\ r.builder_worker_id = row.builder_worker_id
      /\ r.validator_worker_id = row.validator_worker_id
      /\ r.leased_by = row.leased_by
      /\ r.lease_token = row.lease_token
      /\ r.lease_expires_at = at
      /\ r.lease_generation = row.lease_generation
      /\ r.attempt_id = row.attempt_id
      /\ r.attempt_count = row.attempt_count
      /\ r.attempts = row.attempts
      /\ r.quarantine = row.quarantine
  BY DEF RowOK, TaskRow
<1>2. at # None BY NoneAssumption
<1> HIDE DEF r
<1>3. LedgerRow(r)
  BY <1>1, <1>2 DEF RowOK, LedgerRow, LeaseColumns, AttemptHistory, Leased, Active
<1>4. IndependentRow(r)
  BY <1>1 DEF RowOK, IndependentRow, Leased
<1>5. QuarantineRow(r)
  BY <1>1 DEF RowOK, QuarantineRow
<1> QED BY <1>1, <1>3, <1>4, <1>5 DEF RowOK, r

\* Starting a leased task makes its holder the builder.
LEMMA StartedOK ==
  ASSUME NEW row, RowOK(row), row.state = "leased", NEW w \in Workers, clock \in Nat
  PROVE  LET r == [Progress(row) EXCEPT !.state = "running", !.builder_worker_id = w] IN
         RowOK(r) /\ r.leased_by = row.leased_by
<1> DEFINE r == [Progress(row) EXCEPT !.state = "running", !.builder_worker_id = w]
<1>1. /\ r \in TaskRow
      /\ r.state = "running"
      /\ r.produced_sha = row.produced_sha
      /\ r.builder_worker_id = w
      /\ r.leased_by = row.leased_by
      /\ r.lease_token = row.lease_token
      /\ r.lease_expires_at = row.lease_expires_at
      /\ r.lease_generation = row.lease_generation
      /\ r.attempt_id = row.attempt_id
      /\ r.attempt_count = row.attempt_count
      /\ r.attempts = row.attempts
      /\ r.quarantine = row.quarantine
  BY DEF RowOK, TaskRow, Progress, States, ActiveStates
<1>2. w # None BY NoneAssumption
<1> HIDE DEF r
<1>3. LedgerRow(r)
  BY <1>1 DEF RowOK, LedgerRow, LeaseColumns, AttemptHistory, Leased, Active, ActiveStates
<1>4. IndependentRow(r)
  BY <1>1, <1>2 DEF IndependentRow
<1>5. QuarantineRow(r)
  BY <1>1 DEF RowOK, QuarantineRow
<1> QED BY <1>1, <1>3, <1>4, <1>5 DEF RowOK, r

\* Handing a product over ends the builder's lease.
LEMMA SubmittedOK ==
  ASSUME NEW row, RowOK(row), row.state = "running", row.builder_worker_id \in Workers,
         NEW sha \in Shas, clock \in Nat
  PROVE  LET r == [Progress(Release(row, "validating")) EXCEPT !.produced_sha = sha] IN
         RowOK(r) /\ r.leased_by = None
<1> DEFINE p == Release(row, "validating")
           q == Progress(p)
           r == [q EXCEPT !.produced_sha = sha]
<1>0. "validating" \in States /\ "validating" \in States \ {"leased", "running"}
  BY DEF States, ActiveStates
<1>1. /\ p \in TaskRow /\ SameBesidesLease(p, row) /\ p.state = "validating"
      /\ p.leased_by = None
  BY <1>0, ReleaseFields DEF RowOK
<1>2. LedgerRow(p)
  BY <1>0, ReleaseLedger DEF RowOK
<1> HIDE DEF p
<1>3. /\ q \in TaskRow /\ LedgerRow(q) /\ q.state = "validating"
      /\ q.builder_worker_id = row.builder_worker_id
      /\ q.leased_by = None /\ q.quarantine = row.quarantine
  BY <1>1, <1>2, ProgressFields DEF SameBesidesLease
<1> HIDE DEF q
<1>4. /\ r \in TaskRow
      /\ r.state = q.state
      /\ r.produced_sha = sha
      /\ r.builder_worker_id = q.builder_worker_id
      /\ r.leased_by = q.leased_by
      /\ r.lease_token = q.lease_token
      /\ r.lease_expires_at = q.lease_expires_at
      /\ r.lease_generation = q.lease_generation
      /\ r.attempt_id = q.attempt_id
      /\ r.attempt_count = q.attempt_count
      /\ r.attempts = q.attempts
      /\ r.quarantine = q.quarantine
  BY <1>3 DEF TaskRow
<1> HIDE DEF r
<1>5. LedgerRow(r)
  BY <1>3, <1>4 DEF LedgerRow, LeaseColumns, AttemptHistory, Leased, Active
<1>6. IndependentRow(r)
  BY <1>3, <1>4, NoneAssumption DEF IndependentRow, Leased
<1>7. QuarantineRow(r)
  BY <1>3, <1>4 DEF RowOK, QuarantineRow
<1> QED BY <1>3, <1>4, <1>5, <1>6, <1>7 DEF RowOK, r, q, p

\* Completing a validation ends the validator's lease.
LEMMA CompletedOK ==
  ASSUME NEW row, RowOK(row), row.state = "validating", Leased(row), clock \in Nat
  PROVE  LET r == Progress(Release(row, "completed")) IN RowOK(r) /\ r.leased_by = None
<1> DEFINE p == Release(row, "completed")
<1>0. "completed" \in States /\ "completed" \in States \ {"leased", "running"}
  BY DEF States
<1>1. /\ p \in TaskRow /\ SameBesidesLease(p, row) /\ p.state = "completed"
      /\ p.leased_by = None
  BY <1>0, ReleaseFields DEF RowOK
<1>2. LedgerRow(p)
  BY <1>0, ReleaseLedger DEF RowOK
<1> HIDE DEF p
<1>3. IndependentRow(p)
  BY <1>1 DEF RowOK, IndependentRow, SameBesidesLease, Leased
<1>4. QuarantineRow(p)
  BY <1>1 DEF RowOK, QuarantineRow, SameBesidesLease
<1>5. RowOK(p) BY <1>1, <1>2, <1>3, <1>4 DEF RowOK
<1> QED BY <1>1, <1>5, ProgressFields DEF p

\* An operator's requeue puts a parked row back where it belongs.
LEMMA RequeuedOK ==
  ASSUME NEW row, RowOK(row), row.state = "blocked", clock \in Nat
  PROVE  LET r == [Progress(row) EXCEPT
                     !.state = RequeueState(row), !.blocked_reason = None] IN
         RowOK(r) /\ r.leased_by = None
<1> DEFINE r == [Progress(row) EXCEPT !.state = RequeueState(row), !.blocked_reason = None]
<1>0. row.leased_by = None
  BY DEF RowOK, LedgerRow, LeaseColumns, Leased, Active, ActiveStates
<1>1. /\ r \in TaskRow
      /\ r.state = RequeueState(row)
      /\ r.produced_sha = row.produced_sha
      /\ r.builder_worker_id = row.builder_worker_id
      /\ r.leased_by = row.leased_by
      /\ r.lease_token = row.lease_token
      /\ r.lease_expires_at = row.lease_expires_at
      /\ r.lease_generation = row.lease_generation
      /\ r.attempt_id = row.attempt_id
      /\ r.attempt_count = row.attempt_count
      /\ r.attempts = row.attempts
      /\ r.quarantine = row.quarantine
  <2>1. RequeueState(row) \in States BY DEF RequeueState, States, ActiveStates
  <2>2. row \in TaskRow BY DEF RowOK
  <2> QED BY <2>1, <2>2 DEF TaskRow, Progress
<1> HIDE DEF r
<1>2. LedgerRow(r)
  BY <1>0, <1>1 DEF RowOK, LedgerRow, LeaseColumns, AttemptHistory, Leased, Active, RequeueState
<1>3. IndependentRow(r)
  BY <1>0, <1>1 DEF RowOK, IndependentRow, Leased, RequeueState
<1>4. QuarantineRow(r)
  BY <1>1 DEF RowOK, QuarantineRow, RequeueState
<1> QED BY <1>0, <1>1, <1>2, <1>3, <1>4 DEF RowOK, r

\* The row enqueue_task inserts.
LEMMA EnqueuedOK ==
  ASSUME NEW a \in Admissions, clock \in Nat
  PROVE  LET r == [Progress(AbsentTask) EXCEPT
                     !.state = "queued", !.fencing_required = a.fencing_required,
                     !.priority = a.priority, !.max_attempts = a.max_attempts] IN
         RowOK(r) /\ r.leased_by = None
<1>1. /\ a.fencing_required \in BOOLEAN /\ a.priority \in Nat
      /\ a.max_attempts \in Nat
  BY ConstantsAssumption
<1>2. << >> \in Seq(AttemptRow) /\ Len(<< >>) = 0
  OBVIOUS
<1> DEFINE r == [Progress(AbsentTask) EXCEPT
                   !.state = "queued", !.fencing_required = a.fencing_required,
                   !.priority = a.priority, !.max_attempts = a.max_attempts]
<1>3. r \in TaskRow
  BY <1>1, <1>2 DEF Progress, AbsentTask, TaskRow, States
<1>4. LedgerRow(r)
  BY <1>2 DEF Progress, AbsentTask, LedgerRow, LeaseColumns, AttemptHistory, Leased
<1>5. IndependentRow(r) /\ QuarantineRow(r) /\ r.leased_by = None
  BY DEF Progress, AbsentTask, IndependentRow, QuarantineRow
<1> QED BY <1>3, <1>4, <1>5 DEF RowOK

\* A task id nobody has enqueued.
LEMMA AbsentOK == RowOK(AbsentTask) /\ AbsentTask.leased_by = None
<1>1. << >> \in Seq(AttemptRow) /\ Len(<< >>) = 0
  OBVIOUS
<1>2. AbsentTask \in TaskRow
  BY <1>1 DEF AbsentTask, TaskRow, States
<1>3. LedgerRow(AbsentTask)
  BY <1>1 DEF AbsentTask, LedgerRow, LeaseColumns, AttemptHistory, Leased
<1> QED BY <1>2, <1>3 DEF RowOK, AbsentTask, IndependentRow, QuarantineRow

-----------------------------------------------------------------------------
(* The task table *)

\* Every row is good and no worker holds two of them.
TasksOK(tk) ==
  /\ tk \in [Tasks -> TaskRow]
  /\ \A t \in Tasks : RowOK(tk[t])
  /\ \A t, u \in Tasks : Leased(tk[t]) /\ tk[t].leased_by = tk[u].leased_by => t = u

\* Replacing a row by a good one that is held by the same worker or by nobody.
LEMMA UpdatedOK ==
  ASSUME NEW tk, TasksOK(tk), NEW t \in Tasks, NEW row, RowOK(row),
         row.leased_by \in {None, tk[t].leased_by}
  PROVE  TasksOK([tk EXCEPT ![t] = row])
<1> DEFINE T == [tk EXCEPT ![t] = row]
<1>1. row \in TaskRow BY DEF RowOK
<1>2. /\ T \in [Tasks -> TaskRow] /\ T[t] = row
      /\ \A u \in Tasks : u # t => T[u] = tk[u]
  BY <1>1 DEF TasksOK
<1> HIDE DEF T
<1>3. \A u \in Tasks : T[u].leased_by = None \/ T[u].leased_by = tk[u].leased_by
  BY <1>2
<1>4. \A u \in Tasks : RowOK(T[u]) BY <1>2 DEF TasksOK
<1>5. \A u, v \in Tasks : Leased(T[u]) /\ T[u].leased_by = T[v].leased_by => u = v
  BY <1>3 DEF TasksOK, Leased
<1> QED BY <1>2, <1>4, <1>5 DEF TasksOK, T

\* A recovery pass.
LEMMA SweptOK ==
  ASSUME NEW tk, TasksOK(tk), NEW T, SweptFrom(T, tk)
  PROVE  TasksOK(T)
<1>1. \A u \in Tasks : T[u].leased_by = None \/ T[u].leased_by = tk[u].leased_by
  BY DEF SweptFrom
<1>2. \A u, v \in Tasks : Leased(T[u]) /\ T[u].leased_by = T[v].leased_by => u = v
  BY <1>1 DEF TasksOK, Leased
<1> QED BY <1>2 DEF TasksOK, SweptFrom

\* reconcile and the start of claim_task run both passes.
LEMMA RecoveredOK ==
  ASSUME NEW tk, TasksOK(tk), NEW o
  PROVE  /\ TasksOK(RecoverExpired(tk))
         /\ TasksOK(RecoverStalled(tk, o))
         /\ TasksOK(RecoverStalled(RecoverExpired(tk), o))
<1>1. TasksOK(RecoverExpired(tk))
  BY RecoverExpiredOK, SweptOK DEF TasksOK
<1>2. TasksOK(RecoverStalled(tk, o))
  BY RecoverStalledOK, SweptOK DEF TasksOK
<1>3. TasksOK(RecoverStalled(RecoverExpired(tk), o))
  <2> DEFINE T == RecoverExpired(tk)
  <2>1. TasksOK(T) BY <1>1
  <2> HIDE DEF T
  <2>2. TasksOK(RecoverStalled(T, o)) BY <2>1, RecoverStalledOK, SweptOK DEF TasksOK
  <2> QED BY <2>2 DEF T
<1> QED BY <1>1, <1>2, <1>3

\* A claim: the worker is not busy, so the lease it gets is its only one.
LEMMA GrantedOK ==
  ASSUME NEW tk, TasksOK(tk), clock \in Nat,
         NEW w \in Workers, NEW role \in Roles, NEW fenced \in BOOLEAN,
         NEW ttl \in LeaseSeconds, Ready(tk, w, role),
         NEW t \in Candidates(tk, w, role, fenced)
  PROVE  t \in Tasks /\ TasksOK([tk EXCEPT ![t] = Claimed(tk[t], w, role, ttl)])
<1> DEFINE r == Claimed(tk[t], w, role, ttl)
           T == [tk EXCEPT ![t] = r]
<1>1. /\ t \in Tasks
      /\ tk[t].state \in {"queued", "validating"}
      /\ tk[t].state = "queued" \/ tk[t].leased_by = None
      /\ role = "validator" =>
           /\ tk[t].state = "validating" /\ tk[t].produced_sha # None
           /\ tk[t].builder_worker_id # w
  BY DEF Candidates, BuilderCandidates, ValidatorCandidates, Roles
<1>2. RowOK(tk[t]) BY <1>1 DEF TasksOK
<1>3. tk[t].leased_by = None
  BY <1>1, <1>2 DEF RowOK, LedgerRow, LeaseColumns, Leased, Active, ActiveStates
<1>4. RowOK(r) /\ r.leased_by = w BY <1>1, <1>2, <1>3, ClaimedOK
<1> HIDE DEF r
<1>5. \A u \in Tasks : tk[u].leased_by # w
  <2>1. \A u \in Tasks : ~(Active(tk[u]) /\ tk[u].leased_by = w)
    BY DEF Ready, Busy
  <2>2. \A u \in Tasks : Leased(tk[u]) => Active(tk[u])
    BY DEF TasksOK, RowOK, LedgerRow, LeaseColumns
  <2> QED BY <2>1, <2>2, NoneAssumption DEF Leased
<1>6. r \in TaskRow BY <1>4 DEF RowOK
<1>7. /\ T \in [Tasks -> TaskRow] /\ T[t] = r
      /\ \A u \in Tasks : u # t => T[u] = tk[u]
  BY <1>1, <1>6 DEF TasksOK
<1> HIDE DEF T
<1>8. \A u \in Tasks : RowOK(T[u]) BY <1>4, <1>7 DEF TasksOK
<1>9. \A u, v \in Tasks : Leased(T[u]) /\ T[u].leased_by = T[v].leased_by => u = v
  BY <1>1, <1>4, <1>5, <1>7 DEF TasksOK, Leased
<1> QED BY <1>1, <1>7, <1>8, <1>9 DEF TasksOK, T, r

-----------------------------------------------------------------------------
(* The inductive invariant *)

\* The tables besides the task table.  A heartbeat in flight is about a worker
\* that is registered: workers are never deleted.
TablesOK ==
  /\ clock \in Nat
  /\ cutover \in BOOLEAN
  /\ workers \in [Workers -> WorkerRow \cup {None}]
  /\ heartbeats \in [Workers -> HeartbeatWriteRow \cup {None}]
  /\ \A w \in Workers : heartbeats[w] # None => workers[w] \in WorkerRow
  /\ affinity \in [Workers -> SUBSET Repos]
  /\ lanes \in [Repos -> LaneRow \cup {None}]
  /\ checkpoints \in [Tasks -> SUBSET CheckpointRow]
  /\ reconciliations \in [Tasks -> SUBSET ReconciliationRow]

IInv == TablesOK /\ TasksOK(tasks)

others == <<clock, cutover, workers, heartbeats, affinity, lanes, checkpoints, reconciliations>>

LEMMA OthersUnchanged ==
  ASSUME TablesOK, UNCHANGED others
  PROVE  TablesOK'
  BY DEF TablesOK, others

LEMMA InitOK == Init => IInv
<1> SUFFICES ASSUME Init PROVE IInv OBVIOUS
<1>1. TablesOK BY DEF Init, TablesOK
<1>2. TasksOK(tasks)
  <2>1. tasks \in [Tasks -> TaskRow] BY AbsentOK DEF Init, RowOK
  <2>2. \A t \in Tasks : tasks[t] = AbsentTask BY DEF Init
  <2> QED BY <2>1, <2>2, AbsentOK DEF TasksOK, Leased
<1> QED BY <1>1, <1>2 DEF IInv

\* A command that rewrites the row of one task.
LEMMA UpdateStep ==
  ASSUME IInv, NEW t \in Tasks, NEW row, RowOK(row),
         row.leased_by \in {None, tasks[t].leased_by}, Update(t, row)
  PROVE  IInv'
<1>1. TablesOK' BY OthersUnchanged DEF IInv, Update, others
<1>2. tasks' = [tasks EXCEPT ![t] = row] BY DEF Update
<1>3. TasksOK([tasks EXCEPT ![t] = row]) BY UpdatedOK DEF IInv
<1> QED BY <1>1, <1>2, <1>3 DEF IInv

\* Whoever presents the credential of an attempt is a worker, and a credential
\* that _lease accepts is that of the lease held now.
LEMMA HeldFacts ==
  ASSUME IInv, NEW t \in Tasks, NEW i \in DOMAIN tasks[t].attempts
  PROVE  /\ RowOK(tasks[t]) /\ tasks[t] \in TaskRow /\ clock \in Nat
         /\ tasks[t].attempts[i] \in AttemptRow
         /\ Presenter(t, i) \in Workers
         /\ \A fence, allowed : LeaseHeld(t, i, fence, allowed) =>
              tasks[t].state \in allowed /\ Leased(tasks[t])
<1>1. RowOK(tasks[t]) /\ tasks[t] \in TaskRow /\ clock \in Nat
  BY DEF IInv, TasksOK, TablesOK
<1>2. tasks[t].attempts \in Seq(AttemptRow) BY <1>1 DEF TaskRow
<1>3. i \in 1..Len(tasks[t].attempts) BY <1>2, LenProperties
<1>4. tasks[t].attempts[i] \in AttemptRow BY <1>2, <1>3, ElementOfSeq
<1>5. Presenter(t, i) \in Workers BY <1>4 DEF Presenter, AttemptRow
<1>6. \A fence, allowed : LeaseHeld(t, i, fence, allowed) =>
        tasks[t].state \in allowed /\ Leased(tasks[t])
  BY <1>5, NoneAssumption DEF LeaseHeld, Leased, Presenter
<1> QED BY <1>1, <1>4, <1>5, <1>6

LEMMA RenewStep ==
  ASSUME IInv, NEW t \in Tasks, NEW i \in DOMAIN tasks[t].attempts, NEW fence,
         NEW ttl \in LeaseSeconds, Renew(t, i, fence, ttl)
  PROVE  IInv'
<1>1. RowOK(tasks[t]) /\ Leased(tasks[t]) /\ clock \in Nat BY HeldFacts DEF Renew
<1>2. clock + Seconds(ttl) \in Nat BY <1>1, SecondsNat, ConstantsAssumption
<1> DEFINE r == [tasks[t] EXCEPT !.lease_expires_at = clock + Seconds(ttl)]
<1>3. RowOK(r) /\ r.leased_by = tasks[t].leased_by BY <1>1, <1>2, RenewedOK
<1>4. Update(t, r) BY DEF Renew
<1> HIDE DEF r
<1> QED BY <1>3, <1>4, UpdateStep

LEMMA StartStep ==
  ASSUME IInv, NEW t \in Tasks, NEW i \in DOMAIN tasks[t].attempts, NEW fence,
         Start(t, i, fence)
  PROVE  IInv'
<1>1. /\ RowOK(tasks[t]) /\ clock \in Nat /\ tasks[t].state = "leased"
      /\ Presenter(t, i) \in Workers
  BY HeldFacts DEF Start
<1> DEFINE r == [Progress(tasks[t]) EXCEPT
                   !.state = "running", !.builder_worker_id = Presenter(t, i)]
<1>2. RowOK(r) /\ r.leased_by = tasks[t].leased_by BY <1>1, StartedOK
<1>3. Update(t, r) BY DEF Start
<1> HIDE DEF r
<1> QED BY <1>2, <1>3, UpdateStep

LEMMA SubmitStep ==
  ASSUME IInv, NEW t \in Tasks, NEW i \in DOMAIN tasks[t].attempts, NEW fence,
         NEW sha \in Shas, Submit(t, i, fence, sha)
  PROVE  IInv'
<1>1. /\ RowOK(tasks[t]) /\ clock \in Nat /\ tasks[t].state = "running"
      /\ tasks[t].builder_worker_id \in Workers
  BY HeldFacts DEF Submit
<1> DEFINE r == [Progress(Release(tasks[t], "validating")) EXCEPT !.produced_sha = sha]
<1>2. RowOK(r) /\ r.leased_by = None BY <1>1, SubmittedOK
<1>3. Update(t, r) BY DEF Submit
<1> HIDE DEF r
<1> QED BY <1>2, <1>3, UpdateStep

LEMMA CompleteStep ==
  ASSUME IInv, NEW t \in Tasks, NEW i \in DOMAIN tasks[t].attempts, NEW fence,
         Complete(t, i, fence)
  PROVE  IInv'
<1>1. /\ RowOK(tasks[t]) /\ clock \in Nat /\ tasks[t].state = "validating"
      /\ Leased(tasks[t])
  BY HeldFacts DEF Complete
<1> DEFINE r == Progress(Release(tasks[t], "completed"))
<1>2. RowOK(r) /\ r.leased_by = None BY <1>1, CompletedOK
<1>3. Update(t, r) BY DEF Complete
<1> HIDE DEF r
<1> QED BY <1>2, <1>3, UpdateStep

LEMMA FailStep ==
  ASSUME IInv, NEW t \in Tasks, NEW i \in DOMAIN tasks[t].attempts, NEW fence,
         Fail(t, i, fence)
  PROVE  IInv'
<1>1. /\ RowOK(tasks[t]) /\ tasks[t] \in TaskRow /\ Active(tasks[t])
      /\ tasks[t].state # "failed"
  BY HeldFacts DEF Fail, Active, ActiveStates
<1> DEFINE st == RequeueState(tasks[t])
           dead == Release(Quarantine(tasks[t]), "failed")
           again == Release(tasks[t], st)
<1>2. st \in {"queued", "validating", "blocked"} /\ (st = "validating" => tasks[t].produced_sha # None)
  BY DEF RequeueState
<1>3. st \in States /\ "failed" \in States BY <1>2 DEF States, ActiveStates
<1>4. Quarantine(tasks[t]) \in TaskRow BY <1>1, QuarantineType
<1>5. RowOK(dead) /\ dead.leased_by = None BY <1>1, <1>3, <1>4, FailedOK, ReleaseFields
<1> HIDE DEF st
<1>6. RowOK(again) /\ again.leased_by = None BY <1>1, <1>2, <1>3, ReleaseOK, ReleaseFields
<1>7. Update(t, dead) \/ Update(t, again) BY DEF Fail, st
<1> HIDE DEF dead, again
<1> QED BY <1>5, <1>6, <1>7, UpdateStep

LEMMA BlockStep ==
  ASSUME IInv, NEW t \in Tasks, NEW i \in DOMAIN tasks[t].attempts, NEW fence,
         Block(t, i, fence)
  PROVE  IInv'
<1>1. /\ RowOK(tasks[t]) /\ clock \in Nat /\ Active(tasks[t])
  BY HeldFacts DEF Block, Active
<1> DEFINE why == IF UnresolvedEffect(t, tasks[t]) THEN "effect_reconciliation_required"
                  ELSE "blocked_by_worker"
           b == Blocked(tasks[t], why)
           r == Progress(b)
<1>2. why \in BlockReasons BY DEF BlockReasons
<1> HIDE DEF why
<1>3. RowOK(b) /\ b.leased_by = None BY <1>1, <1>2, GivenUpOK
<1> HIDE DEF b
<1>4. b \in TaskRow BY <1>3 DEF RowOK
<1>5. RowOK(r) /\ r.leased_by = None BY <1>1, <1>3, <1>4, ProgressFields
<1>6. Update(t, r) BY DEF Block, b, why
<1> HIDE DEF r
<1> QED BY <1>5, <1>6, UpdateStep

LEMMA RecordCheckpointStep ==
  ASSUME IInv, NEW t \in Tasks, NEW i \in DOMAIN tasks[t].attempts,
         NEW id \in CheckpointIds, NEW seq \in 1..MaxSequence,
         NEW effect \in Effects \cup {None}, NEW st \in EffectStates,
         RecordCheckpoint(t, i, id, seq, effect, st)
  PROVE  IInv'
<1>1. /\ RowOK(tasks[t]) /\ tasks[t] \in TaskRow /\ clock \in Nat
      /\ tasks[t].attempts[i] \in AttemptRow
  BY HeldFacts
<1> DEFINE c == [id |-> id, gen |-> tasks[t].attempts[i].gen, seq |-> seq,
                 effect |-> effect, effect_state |-> st]
<1>2. c \in CheckpointRow
  <2>1. tasks[t].attempts[i].gen \in Nat BY <1>1 DEF AttemptRow
  <2>2. seq \in Nat BY ConstantsAssumption
  <2> QED BY <2>1, <2>2 DEF CheckpointRow
<1>3. checkpoints' = [checkpoints EXCEPT ![t] = @ \cup {c}] BY DEF RecordCheckpoint
<1> HIDE DEF c
<1>4. checkpoints' \in [Tasks -> SUBSET CheckpointRow]
  BY <1>2, <1>3 DEF IInv, TablesOK
<1>5. TablesOK'
  BY <1>4 DEF RecordCheckpoint, IInv, TablesOK
<1>6. RowOK(Progress(tasks[t])) /\ Progress(tasks[t]).leased_by = tasks[t].leased_by
  BY <1>1, ProgressFields
<1>7. tasks' = [tasks EXCEPT ![t] = Progress(tasks[t])] BY DEF RecordCheckpoint
<1>8. TasksOK([tasks EXCEPT ![t] = Progress(tasks[t])])
  BY <1>6, UpdatedOK DEF IInv
<1> QED BY <1>5, <1>7, <1>8 DEF IInv

LEMMA ReconcileEffectStep ==
  ASSUME IInv, NEW t \in Tasks, NEW e \in Effects, NEW g \in 1..MaxGeneration,
         NEW o \in Outcomes, ReconcileEffect(t, e, g, o)
  PROVE  IInv'
<1> DEFINE r == [effect |-> e, gen |-> g, outcome |-> o]
<1>1. r \in ReconciliationRow BY ConstantsAssumption DEF ReconciliationRow
<1>2. reconciliations' = [reconciliations EXCEPT ![t] = @ \cup {r}] BY DEF ReconcileEffect
<1> HIDE DEF r
<1>3. reconciliations' \in [Tasks -> SUBSET ReconciliationRow]
  BY <1>1, <1>2 DEF IInv, TablesOK
<1>4. TablesOK' BY <1>3 DEF ReconcileEffect, IInv, TablesOK
<1> QED BY <1>4 DEF ReconcileEffect, IInv

LEMMA RequeueBlockedStep ==
  ASSUME IInv, NEW t \in Tasks, RequeueBlocked(t)
  PROVE  IInv'
<1>1. RowOK(tasks[t]) /\ tasks[t].state = "blocked" /\ clock \in Nat
  BY DEF RequeueBlocked, IInv, TasksOK, TablesOK
<1> DEFINE r == [Progress(tasks[t]) EXCEPT
                   !.state = RequeueState(tasks[t]), !.blocked_reason = None]
<1>2. RowOK(r) /\ r.leased_by = None BY <1>1, RequeuedOK
<1>3. Update(t, r) BY DEF RequeueBlocked
<1> HIDE DEF r
<1> QED BY <1>2, <1>3, UpdateStep

LEMMA SweepStep ==
  ASSUME IInv, RecoverExpiredLeases \/ RecoverStalledTasks \/ Reconcile
  PROVE  IInv'
<1>1. PICK tk : Sweep(tk) /\ TasksOK(tk)
  BY RecoveredOK DEF IInv, RecoverExpiredLeases, RecoverStalledTasks, Reconcile
<1>2. tasks' = tk BY <1>1 DEF Sweep
<1>3. TablesOK' BY <1>1, OthersUnchanged DEF IInv, Sweep, others
<1> QED BY <1>1, <1>2, <1>3 DEF IInv

LEMMA CountClaimOK ==
  ASSUME NEW lane \in LaneRow, NEW role
  PROVE  CountClaim(lane, role) \in LaneRow
  BY DEF CountClaim, LaneRow

LEMMA ClaimFromStep ==
  ASSUME IInv, NEW tk, TasksOK(tk), NEW w \in Workers, NEW role \in Roles,
         NEW fenced \in BOOLEAN, NEW only \in SUBSET Tasks,
         ClaimFrom(tk, w, role, fenced, only)
  PROVE  IInv'
<1> DEFINE cands == Candidates(tk, w, role, fenced) \cap only
<1>1. CASE tasks' = tk /\ UNCHANGED lanes
  <2>1. TablesOK' BY <1>1, OthersUnchanged DEF IInv, ClaimFrom, others
  <2> QED BY <1>1, <2>1 DEF IInv
<1>2. ASSUME NEW t \in cands, NEW ttl \in LeaseSeconds,
             tasks' = [tk EXCEPT ![t] = Claimed(tk[t], w, role, ttl)],
             lanes' = [lanes EXCEPT ![TaskRepo[t]] = CountClaim(@, role)]
      PROVE  IInv'
  <2>1. Ready(tk, w, role) /\ t \in Candidates(tk, w, role, fenced) BY DEF ClaimFrom
  <2>2. clock \in Nat BY DEF IInv, TablesOK
  <2>3. TasksOK([tk EXCEPT ![t] = Claimed(tk[t], w, role, ttl)]) BY <2>1, <2>2, GrantedOK
  <2>4. lanes[TaskRepo[t]] # None /\ t \in Tasks
    BY <2>1 DEF Candidates, BuilderCandidates, ValidatorCandidates
  <2>5. TaskRepo[t] \in Repos /\ lanes[TaskRepo[t]] \in LaneRow
    BY <2>4, ConstantsAssumption DEF IInv, TablesOK
  <2>6. CountClaim(lanes[TaskRepo[t]], role) \in LaneRow BY <2>5, CountClaimOK
  <2>7. lanes' \in [Repos -> LaneRow \cup {None}]
    BY <1>2, <2>5, <2>6 DEF IInv, TablesOK
  <2>8. TablesOK' BY <2>7 DEF IInv, TablesOK, ClaimFrom
  <2> QED BY <1>2, <2>3, <2>8 DEF IInv
<1> QED BY <1>1, <1>2 DEF ClaimFrom

LEMMA ClaimingStep ==
  ASSUME IInv, Claiming
  PROVE  IInv'
<1>1. PICK w \in Workers, role \in Roles :
        \/ Claim(w, role)
        \/ \E t \in Tasks, fenced \in BOOLEAN : ClaimExact(w, role, fenced, t)
  BY DEF Claiming
<1>2. CASE Claim(w, role)
  <2>1. PICK o \in Orders :
          ClaimFrom(RecoverStalled(RecoverExpired(tasks), o), w, role, FALSE, Tasks)
    BY <1>2 DEF Claim
  <2>2. TasksOK(RecoverStalled(RecoverExpired(tasks), o)) BY RecoveredOK DEF IInv
  <2> QED BY <2>1, <2>2, ClaimFromStep
<1>3. CASE \E t \in Tasks, fenced \in BOOLEAN : ClaimExact(w, role, fenced, t)
  <2>1. PICK t \in Tasks, fenced \in BOOLEAN : ClaimFrom(tasks, w, role, fenced, {t})
    BY <1>3 DEF ClaimExact
  <2>2. {t} \in SUBSET Tasks /\ TasksOK(tasks) BY DEF IInv
  <2> QED BY <2>1, <2>2, ClaimFromStep
<1> QED BY <1>1, <1>2, <1>3

LEMMA EnsureLanesOK ==
  ASSUME TablesOK, NEW rs
  PROVE  EnsureLanes(rs) \in [Repos -> LaneRow \cup {None}]
<1>1. NewLane \in LaneRow BY DEF NewLane, LaneRow
<1> QED BY <1>1 DEF TablesOK, EnsureLanes

LEMMA EnqueueStep ==
  ASSUME IInv, NEW t \in Tasks, NEW a \in Admissions, Enqueue(t, a)
  PROVE  IInv'
<1> DEFINE r == [Progress(AbsentTask) EXCEPT
                   !.state = "queued", !.fencing_required = a.fencing_required,
                   !.priority = a.priority, !.max_attempts = a.max_attempts]
<1>1. RowOK(r) /\ r.leased_by = None BY EnqueuedOK DEF IInv, TablesOK
<1>2. tasks' = [tasks EXCEPT ![t] = r] BY DEF Enqueue
<1> HIDE DEF r
<1>3. TasksOK([tasks EXCEPT ![t] = r]) BY <1>1, UpdatedOK DEF IInv
<1>4. lanes' \in [Repos -> LaneRow \cup {None}] BY EnsureLanesOK DEF IInv, Enqueue
<1>5. TablesOK' BY <1>4 DEF IInv, TablesOK, Enqueue
<1> QED BY <1>2, <1>3, <1>5 DEF IInv

LEMMA ConfigureRepositoryStep ==
  ASSUME IInv, NEW r \in Repos, NEW c \in LaneConfigs, ConfigureRepository(r, c)
  PROVE  IInv'
<1> DEFINE old == IF lanes[r] = None THEN NewLane ELSE lanes[r]
           new == [old EXCEPT !.enabled = c.enabled, !.max_in_flight = c.max_in_flight]
<1>1. old \in LaneRow BY DEF NewLane, LaneRow, IInv, TablesOK
<1>2. c.enabled \in BOOLEAN /\ c.max_in_flight \in Nat \ {0} BY ConstantsAssumption
<1>3. lanes' = [lanes EXCEPT ![r] = new] BY DEF ConfigureRepository
<1> HIDE DEF old
<1>4. new \in LaneRow BY <1>1, <1>2 DEF LaneRow
<1> HIDE DEF new
<1>5. lanes' \in [Repos -> LaneRow \cup {None}] BY <1>3, <1>4 DEF IInv, TablesOK
<1>6. TablesOK' BY <1>5 DEF IInv, TablesOK, ConfigureRepository
<1> QED BY <1>6 DEF IInv, ConfigureRepository

LEMMA ReplaceAffinitiesStep ==
  ASSUME IInv, NEW w \in Workers, NEW rs \in Affinities, ReplaceAffinities(w, rs)
  PROVE  IInv'
<1>1. lanes' \in [Repos -> LaneRow \cup {None}]
  BY EnsureLanesOK DEF IInv, ReplaceAffinities
<1>2. affinity' \in [Workers -> SUBSET Repos]
  BY ConstantsAssumption DEF IInv, TablesOK, ReplaceAffinities
<1>3. TablesOK' BY <1>1, <1>2 DEF IInv, TablesOK, ReplaceAffinities
<1> QED BY <1>3 DEF IInv, ReplaceAffinities

LEMMA RegisterWorkerStep ==
  ASSUME IInv, NEW p \in Registrations, RegisterWorker(p)
  PROVE  IInv'
<1> DEFINE r == [role |-> p.role, profile |-> p.profile, gateway_ok |-> p.gateway_ok,
                 state_validated |-> p.state_validated, rules_ok |-> p.rules_ok,
                 last_heartbeat_at |-> clock]
<1>1. p \in Registration BY ConstantsAssumption
<1>2. r \in WorkerRow /\ p.worker \in Workers
  BY <1>1 DEF Registration, WorkerRow, IInv, TablesOK
<1>3. workers' = [workers EXCEPT ![p.worker] = r] BY DEF RegisterWorker
<1> HIDE DEF r
<1>4. /\ workers' \in [Workers -> WorkerRow \cup {None}]
      /\ \A w \in Workers : workers'[w] = workers[w] \/ workers'[w] \in WorkerRow
  BY <1>2, <1>3 DEF IInv, TablesOK
<1>5. TablesOK' BY <1>4 DEF IInv, TablesOK, RegisterWorker
<1> QED BY <1>5 DEF IInv, RegisterWorker

LEMMA HeartbeatReadStep ==
  ASSUME IInv, NEW w \in Workers, NEW in \in HeartbeatInputs, HeartbeatRead(w, in)
  PROVE  IInv'
<1> DEFINE Given(x, current) == IF x = None THEN current ELSE x
           h == [profile |-> Given(in.profile, workers[w].profile),
                 gateway_ok |-> Given(in.gateway_ok, workers[w].gateway_ok),
                 state_validated |-> Given(in.state_validated, workers[w].state_validated)]
<1>1. workers[w] \in WorkerRow BY DEF HeartbeatRead, IInv, TablesOK
<1>2. in \in HeartbeatInput BY ConstantsAssumption
<1>3. h \in HeartbeatWriteRow
  <2>1. Given(in.profile, workers[w].profile) \in Profiles
    BY <1>1, <1>2 DEF WorkerRow, HeartbeatInput
  <2>2. Given(in.gateway_ok, workers[w].gateway_ok) \in BOOLEAN
    BY <1>1, <1>2 DEF WorkerRow, HeartbeatInput
  <2>3. Given(in.state_validated, workers[w].state_validated) \in BOOLEAN
    BY <1>1, <1>2 DEF WorkerRow, HeartbeatInput
  <2> HIDE DEF Given
  <2> QED BY <2>1, <2>2, <2>3 DEF HeartbeatWriteRow
<1>4. heartbeats' = [heartbeats EXCEPT ![w] = h] BY DEF HeartbeatRead
<1> HIDE DEF h
<1>5. /\ heartbeats' \in [Workers -> HeartbeatWriteRow \cup {None}]
      /\ \A v \in Workers : v # w => heartbeats'[v] = heartbeats[v]
  BY <1>3, <1>4 DEF IInv, TablesOK
<1>6. TablesOK' BY <1>1, <1>5 DEF IInv, TablesOK, HeartbeatRead
<1> QED BY <1>6 DEF IInv, HeartbeatRead

LEMMA HeartbeatWriteStep ==
  ASSUME IInv, NEW w \in Workers, HeartbeatWrite(w)
  PROVE  IInv'
<1> DEFINE h == heartbeats[w]
           r == [workers[w] EXCEPT !.profile = h.profile, !.gateway_ok = h.gateway_ok,
                   !.state_validated = h.state_validated, !.last_heartbeat_at = clock]
<1>1. workers[w] \in WorkerRow /\ h \in HeartbeatWriteRow /\ clock \in Nat
  BY DEF HeartbeatWrite, IInv, TablesOK
<1>2. r \in WorkerRow BY <1>1 DEF WorkerRow, HeartbeatWriteRow
<1>3. workers' = [workers EXCEPT ![w] = r] BY DEF HeartbeatWrite
<1> HIDE DEF r
<1>4. /\ workers' \in [Workers -> WorkerRow \cup {None}]
      /\ \A v \in Workers : workers'[v] = workers[v] \/ workers'[v] \in WorkerRow
  BY <1>2, <1>3 DEF IInv, TablesOK
<1>5. /\ heartbeats' \in [Workers -> HeartbeatWriteRow \cup {None}]
      /\ \A v \in Workers : heartbeats'[v] = heartbeats[v] \/ heartbeats'[v] = None
  BY DEF HeartbeatWrite, IInv, TablesOK
<1>6. TablesOK' BY <1>4, <1>5 DEF IInv, TablesOK, HeartbeatWrite
<1> QED BY <1>6 DEF IInv, HeartbeatWrite

\* The invariant is inductive.
LEMMA NextOK == IInv /\ [Next]_vars => IInv'
<1> SUFFICES ASSUME IInv, [Next]_vars PROVE IInv'
  OBVIOUS
<1>1. CASE Tick
  BY <1>1 DEF Tick, IInv, TablesOK
<1>2. CASE Restart
  BY <1>2 DEF Restart, IInv, TablesOK
<1>3. CASE Claiming
  BY <1>3, ClaimingStep
<1>4. CASE Commands
  BY <1>4, RenewStep, StartStep, SubmitStep, CompleteStep, FailStep, BlockStep DEF Commands
<1>5. CASE Checkpointing
  BY <1>5, RecordCheckpointStep DEF Checkpointing
<1>6. CASE Operating
  <2>1. CASE EnableFencedCutover
    BY <2>1 DEF EnableFencedCutover, IInv, TablesOK
  <2> QED BY <1>6, <2>1, EnqueueStep, RequeueBlockedStep, ReconcileEffectStep,
             ConfigureRepositoryStep, ReplaceAffinitiesStep, RegisterWorkerStep
          DEF Operating
<1>7. CASE Heartbeating
  BY <1>7, HeartbeatReadStep, HeartbeatWriteStep DEF Heartbeating
<1>8. CASE RecoverExpiredLeases \/ RecoverStalledTasks \/ Reconcile
  BY <1>8, SweepStep
<1>9. CASE UNCHANGED vars
  BY <1>9 DEF vars, IInv, TablesOK
<1> QED BY <1>1, <1>2, <1>3, <1>4, <1>5, <1>6, <1>7, <1>8, <1>9 DEF Next

LEMMA Invariance == Spec => []IInv
  BY InitOK, NextOK, PTL DEF Spec

-----------------------------------------------------------------------------
(* The theorems *)

\* Every table of the store holds rows of its schema, whatever the number of
\* workers, tasks and repositories and whatever the timeouts are.
THEOREM TypeCorrectness == Spec => []TypeOK
<1>1. IInv => TypeOK BY DEF IInv, TablesOK, TasksOK, TypeOK
<1> QED BY <1>1, Invariance, PTL

\* The lease on a task and its attempt ledger always agree.
THEOREM LedgerAgrees == Spec => []AttemptLedger
<1>1. IInv => AttemptLedger BY DEF IInv, TasksOK, RowOK, LedgerRow, AttemptLedger
<1> QED BY <1>1, Invariance, PTL

\* No worker ever holds two tasks: the unique index idx_worker_active never fires.
THEOREM WorkersHoldOneTask == Spec => []OneLeasePerWorker
<1>1. IInv => OneLeasePerWorker BY DEF IInv, TasksOK, OneLeasePerWorker
<1> QED BY <1>1, Invariance, PTL

\* A completed task was built by one worker and validated by another.
THEOREM ValidationIsIndependent == Spec => []IndependentValidation
<1>1. IInv => IndependentValidation BY DEF IInv, TasksOK, RowOK, IndependentValidation
<1> QED BY <1>1, Invariance, PTL

\* A task is in quarantine exactly when it failed, and only once.
THEOREM QuarantineMeansFailed == Spec => []FailedIsQuarantined
<1>1. IInv => FailedIsQuarantined
  BY DEF IInv, TasksOK, RowOK, QuarantineRow, FailedIsQuarantined
<1> QED BY <1>1, Invariance, PTL
=============================================================================
