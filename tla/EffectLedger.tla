---------------------------- MODULE EffectLedger ----------------------------
(***************************************************************************)
(* The two append-only tables that record what a fenced task has done to   *)
(* the outside world (app/store.py: task_checkpoints,                      *)
(* effect_reconciliations) and the queries over them.  A checkpoint row is *)
(*   [id, gen, seq, effect, effect_state]   (effect = None: no effect)     *)
(* and a reconciliation row is [effect, gen, outcome].  The text columns   *)
(* (stage, next_action, references) are left out; the content digest of a  *)
(* checkpoint is the tuple of the remaining semantic columns, which, as in *)
(* the code, does not include the generation.                              *)
(***************************************************************************)
EXTENDS Naturals

CONSTANTS CheckpointIds, Effects, None

EffectStates == {"none", "pending", "confirmed", "not_applied", "unknown"}
Outcomes == {"confirmed", "not_applied"}

CheckpointRow ==
  [id : CheckpointIds, gen : Nat, seq : Nat,
   effect : Effects \cup {None}, effect_state : EffectStates]

ReconciliationRow == [effect : Effects, gen : Nat, outcome : Outcomes]

\* d is a later statement about the effect that c is about.
Later(d, c) ==
  /\ d.effect = c.effect
  /\ \/ d.gen > c.gen
     \/ d.gen = c.gen /\ d.seq > c.seq

\* An independent readback was recorded for c's effect in c's generation.
Reconciled(recs, c) == \E r \in recs : r.effect = c.effect /\ r.gen = c.gen

\* The row c makes _has_unresolved_effect true.
Unresolved(cps, recs, c) ==
  /\ c.effect # None
  /\ ~Reconciled(recs, c)
  /\ \/ c.effect_state = "unknown"
     \/ c.effect_state = "pending" /\ ~\E d \in cps : Later(d, c)

HasUnresolvedEffect(cps, recs) == \E c \in cps : Unresolved(cps, recs, c)

\* Fault: a readback of any generation settles the effect.
UnresolvedInAnyGeneration(cps, recs, e) ==
  \E c \in cps : c.effect = e /\ c.effect_state = "unknown" /\ ~\E r \in recs : r.effect = e

\* An unknown statement about effect e still waits for its readback.
UnresolvedUnknown(cps, recs, e) ==
  \E c \in cps : c.effect = e /\ c.effect_state = "unknown" /\ ~Reconciled(recs, c)

\* n is one more than the last sequence number of generation g.
IsNextSequence(cps, g, n) ==
  /\ \A c \in cps : c.gen = g => c.seq < n
  /\ n = 1 \/ \E c \in cps : c.gen = g /\ c.seq = n - 1

\* The statement reconcile_effect looks at: the latest one about effect e.
IsLatest(cps, e, c) == c \in cps /\ c.effect = e /\ ~\E d \in cps : Later(d, c)
=============================================================================
