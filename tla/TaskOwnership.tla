--------------------------- MODULE TaskOwnership ---------------------------
(***************************************************************************)
(* What the worker pool promises about its tasks, without tables, clocks,  *)
(* credentials or lanes.                                                   *)
(*                                                                         *)
(* A task waits, is held by one worker under an epoch that no earlier or   *)
(* later holder shares, is parked, done or dead.  Only the holder can      *)
(* deliver the product, once; only a holder other than the builder can     *)
(* finish the task; and a worker holds one task at a time.                 *)
(*                                                                         *)
(* One step may move several tasks, because one sweep of the recovery may  *)
(* end several leases, but at most one task is granted in a step.          *)
(***************************************************************************)
EXTENDS Naturals

CONSTANTS Tasks, Workers, Products, Nobody

ASSUME NobodyAssumption == Nobody \notin Workers /\ Nobody \notin Products

VARIABLE own

Phases == {"absent", "waiting", "held", "parked", "done", "dead"}

Ownership ==
  [phase : Phases, holder : Workers \cup {Nobody}, epoch : Nat,
   product : Products \cup {Nobody}, builder : Workers \cup {Nobody}]

Unowned ==
  [phase |-> "absent", holder |-> Nobody, epoch |-> 0,
   product |-> Nobody, builder |-> Nobody]

\* The task leaves its holder, if it has one, for phase p.
Released(a, p) == [a EXCEPT !.phase = p, !.holder = Nobody]

Admit(a, b) == a = Unowned /\ b = Released(a, "waiting")

\* The holder gives up, or is given up on; a waiting task can be given up on too.
Withdraw(a, b) ==
  /\ a.phase \in {"waiting", "held"}
  /\ \E p \in {"waiting", "parked", "dead"} : b = Released(a, p)

Deliver(a, b) ==
  /\ a.phase = "held" /\ a.product = Nobody
  /\ \E x \in Products :
       b = [Released(a, "waiting") EXCEPT !.product = x, !.builder = a.holder]

Finish(a, b) ==
  /\ a.phase = "held" /\ a.product # Nobody /\ a.holder # a.builder
  /\ b = Released(a, "done")

Resume(a, b) == a.phase = "parked" /\ b = Released(a, "waiting")

\* A new holder; when the task was held, its lease was withdrawn in the same step.
Grant(a, b) ==
  /\ a.phase \in {"waiting", "held"}
  /\ \E w \in Workers :
       /\ a.product # Nobody => w # a.builder
       /\ b = [a EXCEPT !.phase = "held", !.holder = w, !.epoch = @ + 1]

Move(a, b) ==
  Admit(a, b) \/ Withdraw(a, b) \/ Deliver(a, b) \/ Finish(a, b) \/ Resume(a, b) \/ Grant(a, b)

\* Nobody holds two of the tasks of o.
Exclusive(o) ==
  \A t, u \in Tasks : o[t].holder # Nobody /\ o[t].holder = o[u].holder => t = u

Init == own = [t \in Tasks |-> Unowned]

Next ==
  /\ own' \in [Tasks -> Ownership]
  /\ \A t \in Tasks : own'[t] = own[t] \/ Move(own[t], own'[t])
  /\ \A t, u \in Tasks :
       own'[t].epoch # own[t].epoch /\ own'[u].epoch # own[u].epoch => t = u
  /\ Exclusive(own')

Spec == Init /\ [][Next]_own
=============================================================================
