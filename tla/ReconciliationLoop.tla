------------------------- MODULE ReconciliationLoop -------------------------
(***************************************************************************)
(* The reconciliation controller of app/reconcile.py over the pool's       *)
(* store: the asyncio task that runs store.reconcile in a worker thread,   *)
(* sleeps, and starts again, and that must survive a failing cycle.  The   *)
(* HTTP service starts it with its lifespan and stops it at shutdown.      *)
(***************************************************************************)
EXTENDS WorkerPool

CONSTANT MaxCycleFailures   \* bound: cycles that fail, and shutdowns

ASSUME LoopAssumption == MaxCycleFailures \in Nat

VARIABLES
  loop,          \* where the controller's task is
  cycleFailures, \* consecutive_failures
  trouble        \* failed cycles and shutdowns so far

loopVars == <<loop, cycleFailures, trouble>>
poolAndLoop == <<vars, loopVars>>

LoopInit == Init /\ loop = "stopped" /\ cycleFailures = 0 /\ trouble = 0

Trouble == trouble < MaxCycleFailures /\ trouble' = trouble + 1

\* The lifespan of the service starts the task, once.
LoopStart ==
  /\ loop = "stopped" /\ loop' = "cycle"
  /\ UNCHANGED <<vars, cycleFailures, trouble>>

\* Shutdown cancels the task and waits for it.
LoopStop ==
  /\ Trouble /\ loop # "stopped" /\ loop' = "stopped"
  /\ UNCHANGED <<vars, cycleFailures>>

\* A cycle that succeeds clears the count of failures.
LoopCycle ==
  /\ loop = "cycle" /\ Reconcile
  /\ loop' = "asleep" /\ cycleFailures' = 0
  /\ UNCHANGED trouble

\* Fault: an exception ends the task.
LoopDies ==
  /\ Trouble /\ loop = "cycle"
  /\ loop' = "dead" /\ cycleFailures' = cycleFailures + 1
  /\ UNCHANGED vars

\* A cycle whose transaction raises is counted, and the task goes on.
LoopFails ==
  /\ Trouble /\ loop = "cycle"
  /\ loop' = "asleep" /\ cycleFailures' = cycleFailures + 1
  /\ UNCHANGED vars

LoopWakes ==
  /\ loop = "asleep" /\ loop' = "cycle"
  /\ UNCHANGED <<vars, cycleFailures, trouble>>

LoopStep == LoopStart \/ LoopCycle \/ LoopWakes

LoopNext ==
  \/ Next /\ UNCHANGED loopVars
  \/ LoopStep \/ LoopFails \/ LoopStop

\* Time passes, and the event loop keeps scheduling the controller's task.
LoopSpec ==
  /\ LoopInit /\ [][LoopNext]_poolAndLoop
  /\ WF_vars(Tick) /\ WF_poolAndLoop(LoopStep)
=============================================================================
