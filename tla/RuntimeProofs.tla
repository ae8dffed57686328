--------------------------- MODULE RuntimeProofs ----------------------------
(***************************************************************************)
(* Proofs about the programs that do a task's work: the bounded repair of  *)
(* a copy by the code workers, the continuity run in which a second worker *)
(* takes over from a killed one, and a command session at the Gateway.     *)
(* Each argument rests on who holds what: the lock of the copy, the one    *)
(* live tree of processes, the evidence of a preflight.                    *)
(***************************************************************************)
EXTENDS CodeRepair, SharedContinuity, GatewaySession, FiniteSetTheorems, TLAPS

-----------------------------------------------------------------------------
(***************************************************************************)
(* Code repair.  The lock is exclusive, so from a call's inspection to its *)
(* receipt only a stranger can write.  What the call still knows then      *)
(* depends on how often strangers touched the copy since it looked at the  *)
(* base: untouched, everything; touched once, that the text it staged is   *)
(* its own or is the text in the file, which is validated once more.       *)
(***************************************************************************)

RepPoints == {"idle", "inspect", "propose", "recheck", "write", "check", "scope", "diff", "add",
              "commit", "produced", "prove", "revalidate", "patch", "receipt"}
RepairRow ==
  [pc : RepPoints, task : RepTasks \cup {"none"}, attempt : Nat, first : RepContents,
   after : RepContents, patch : RepPatches, head : Seq(RepCommits), left : Nat, issue : BOOLEAN]

WorkerCommits(b) == {i \in DOMAIN b : b[i].by = "worker"}
Targeted(b) == \A i \in DOMAIN b : b[i].scope = "target"
PatchOf(content) == [from |-> Original, to |-> content]

\* The points of a call before its own commit.
Uncommitted == {"propose", "recheck", "write", "check", "scope", "diff", "add", "commit"}

\* A call past its inspection: nothing has been answered, and until its own
\* commit no worker has committed.
RepairWorking(row, b, receipt, answers) ==
  /\ row.pc \in RepPoints \ {"idle", "inspect"} => receipt = NoHolder /\ answers = {}
  /\ row.pc \in Uncommitted => WorkerCommits(b) = {}

\* What a call knows of the text it has staged or committed, after t touches.
Backed(row, f, made, t) ==
  /\ t = 0 => f = row.after /\ made = row.after /\ row.patch = PatchOf(row.after)
  /\ t <= 1 => StructuredPasses(made, row.task) \/ f = made

\* What a call knows of the file f, the index x and the branch b.
RepairKnows(row, f, x, b, t) ==
  /\ row.pc \in RepPoints \ {"idle", "inspect", "propose", "patch", "receipt"} =>
       IssueValidates(row.after, row.task)
  /\ row.pc = "write" /\ t = 0 => x = Original
  /\ row.pc \in {"check", "scope", "diff", "add"} /\ t = 0 => x = Original /\ f = row.after
  /\ row.pc = "add" /\ t = 0 => row.patch = PatchOf(row.after)
  /\ row.pc = "commit" => Backed(row, f, x, t)
  /\ row.pc = "produced" => b # << >> /\ Backed(row, f, HeadOf(b).file, t)
  /\ row.pc \in {"prove", "revalidate"} => Backed(row, f, HeadOf(row.head).file, t)
  /\ row.pc \in {"revalidate", "patch", "receipt"} => Targeted(row.head)
  /\ row.pc \in {"patch", "receipt"} =>
       /\ t <= 1 => StructuredPasses(HeadOf(row.head).file, row.task)
       /\ t = 0 => /\ IssueValidates(HeadOf(row.head).file, row.task)
                   /\ row.patch = PatchOf(HeadOf(row.head).file)

\* What RepairReceiptProved says of a receipt.
ReceiptProved(receipt, t) ==
  /\ Targeted(receipt.sha)
  /\ t <= 1 => StructuredPasses(HeadOf(receipt.sha).file, receipt.task)
  /\ t = 0 => /\ IssueValidates(HeadOf(receipt.sha).file, receipt.task)
              /\ receipt.patch = PatchOf(HeadOf(receipt.sha).file)

AnswersOfReceipt(receipt, answers) ==
  \A a \in answers : receipt # NoHolder /\ a.sha = receipt.sha /\ a.task = receipt.task

RepTypes ==
  /\ repBranch \in Seq(RepCommits) /\ repFile \in RepContents /\ repIndex \in RepContents
  /\ repReceipt \in RepReceipts \cup {NoHolder} /\ repairer \in [Repairers -> RepairRow]
  /\ repTouched \in Nat

RepairInv ==
  /\ RepTypes
  /\ \A p \in Repairers : repairer[p].pc # "idle" => repLock = p /\ repairer[p].task \in RepTasks
  /\ \A p \in Repairers : RepairWorking(repairer[p], repBranch, repReceipt, repAnswers)
  /\ \A p \in Repairers : RepairKnows(repairer[p], repFile, repIndex, repBranch, repTouched)
  /\ \A i, j \in WorkerCommits(repBranch) : i = j
  /\ repReceipt # NoHolder => ReceiptProved(repReceipt, repTouched)
  /\ AnswersOfReceipt(repReceipt, repAnswers)

LEMMA RepairInvSuffices ==
  ASSUME RepairInv
  PROVE  RepairReceiptProved /\ OneRepair
<1>1. RepairReceiptProved
  BY DEF RepairInv, RepairReceiptProved, ReceiptProved, Targeted, PatchOf
<1>2. Cardinality(WorkerCommits(repBranch)) <= 1
  <2>1. CASE WorkerCommits(repBranch) = {}
    BY <2>1, FS_EmptySet
  <2>2. ASSUME NEW i \in WorkerCommits(repBranch) PROVE Cardinality(WorkerCommits(repBranch)) <= 1
    <3>1. WorkerCommits(repBranch) = {i}
      BY DEF RepairInv
    <3>2. Cardinality({i}) = 1
      BY FS_Singleton
    <3> QED BY <3>1, <3>2
  <2> QED BY <2>1, <2>2
<1>3. \A a, b \in repAnswers : a.sha = b.sha /\ a.task = b.task
  BY DEF RepairInv, AnswersOfReceipt
<1> QED BY <1>1, <1>2, <1>3 DEF OneRepair, WorkerCommits

\* The contents the model names are contents.
LEMMA RepContentsNamed ==
  /\ Original \in RepContents /\ Refused \in RepContents /\ Candidates \subseteq RepContents
  /\ \A task \in RepTasks : Rendering(<<"right", task>>) \in RepContents
BY DEF Original, Refused, Candidates, Rendering, RepContents, RepFunctions

LEMMA RepairIdleRow ==
  ASSUME NEW left \in Nat
  PROVE  RepairIdle(left) \in RepairRow /\ RepairIdle(left).pc = "idle"
BY RepContentsNamed DEF RepairIdle, RepairRow, RepPoints, RepPatches

\* A call that is not under way relies on nothing.
LEMMA IdleRelies ==
  ASSUME NEW row \in RepairRow, row.pc = "idle", NEW b, NEW f, NEW x, NEW t, NEW receipt, NEW answers
  PROVE  RepairWorking(row, b, receipt, answers) /\ RepairKnows(row, f, x, b, t)
BY DEF RepairWorking, RepairKnows, Uncommitted

LEMMA RepairInitInv == RepairInit => RepairInv
<1> SUFFICES ASSUME RepairInit PROVE RepairInv
  OBVIOUS
<1>1. \A p \in Repairers : repairer[p] \in RepairRow /\ repairer[p].pc = "idle"
  BY RepairIdleRow, RepairAssumption DEF RepairInit
<1>2. RepTypes
  BY <1>1, RepContentsNamed DEF RepairInit, RepTypes
<1>3. \A p \in Repairers : RepairWorking(repairer[p], repBranch, repReceipt, repAnswers)
                           /\ RepairKnows(repairer[p], repFile, repIndex, repBranch, repTouched)
  BY <1>1, IdleRelies
<1>4. WorkerCommits(repBranch) = {}
  BY DEF RepairInit, WorkerCommits
<1> QED BY <1>1, <1>2, <1>3, <1>4 DEF RepairInit, RepairInv, AnswersOfReceipt

-----------------------------------------------------------------------------
\* The lock: while a call is under way every other process is idle.
LEMMA OthersIdle ==
  ASSUME RepairInv, NEW p \in Repairers, repairer[p].pc # "idle"
  PROVE  \A q \in Repairers \ {p} : repairer[q].pc = "idle"
BY DEF RepairInv

\* One process moves while the others are idle.
LEMMA RepairerMoves ==
  ASSUME RepairInv, NEW p \in Repairers, NEW row \in RepairRow,
         \A q \in Repairers \ {p} : repairer[q].pc = "idle",
         repairer' = [repairer EXCEPT ![p] = row],
         row.pc # "idle" => repLock' = p /\ row.task \in RepTasks,
         repBranch' \in Seq(RepCommits), repFile' \in RepContents, repIndex' \in RepContents,
         repReceipt' \in RepReceipts \cup {NoHolder}, repTouched' \in Nat,
         RepairWorking(row, repBranch', repReceipt', repAnswers'),
         RepairKnows(row, repFile', repIndex', repBranch', repTouched'),
         \A i, j \in WorkerCommits(repBranch') : i = j,
         repReceipt' # NoHolder => ReceiptProved(repReceipt', repTouched'),
         AnswersOfReceipt(repReceipt', repAnswers')
  PROVE  RepairInv'
<1>1. repairer \in [Repairers -> RepairRow]
  BY DEF RepairInv, RepTypes
<1>2. repairer'[p] = row /\ \A q \in Repairers \ {p} : repairer'[q] = repairer[q]
  BY <1>1
<1>3. RepTypes'
  BY <1>1 DEF RepTypes
<1>4. \A q \in Repairers \ {p} : repairer'[q] \in RepairRow /\ repairer'[q].pc = "idle"
  BY <1>1, <1>2
<1>5. \A q \in Repairers \ {p} :
        RepairWorking(repairer'[q], repBranch', repReceipt', repAnswers')
        /\ RepairKnows(repairer'[q], repFile', repIndex', repBranch', repTouched')
  BY <1>4, IdleRelies
<1> QED BY <1>2, <1>3, <1>4, <1>5 DEF RepairInv

\* A step of a call under way that neither commits nor answers.
LEMMA RepairerNotes ==
  ASSUME RepairInv, NEW p \in Repairers, repairer[p].pc # "idle", NEW row \in RepairRow,
         repairer' = [repairer EXCEPT ![p] = row],
         row.pc # "idle" => repLock' = repLock /\ row.task = repairer[p].task,
         repFile' \in RepContents, repIndex' \in RepContents,
         repTouched' \in Nat, repReceipt # NoHolder => repTouched' = repTouched,
         RepairWorking(row, repBranch, repReceipt, repAnswers),
         RepairKnows(row, repFile', repIndex', repBranch, repTouched'),
         UNCHANGED <<repBranch, repReceipt>>,
         repAnswers' = repAnswers
  PROVE  RepairInv'
<1>1. \A q \in Repairers \ {p} : repairer[q].pc = "idle"
  BY OthersIdle
<1>2. row.pc # "idle" => repLock' = p /\ row.task \in RepTasks
  BY DEF RepairInv
<1>3. /\ repBranch' \in Seq(RepCommits) /\ repReceipt' \in RepReceipts \cup {NoHolder}
      /\ RepairWorking(row, repBranch', repReceipt', repAnswers')
      /\ RepairKnows(row, repFile', repIndex', repBranch', repTouched')
      /\ \A i, j \in WorkerCommits(repBranch') : i = j
      /\ repReceipt' # NoHolder => ReceiptProved(repReceipt', repTouched')
      /\ AnswersOfReceipt(repReceipt', repAnswers')
  BY DEF RepairInv, RepTypes
<1> QED BY <1>1, <1>2, <1>3, RepairerMoves

\* A call that ends, for whatever reason.
LEMMA RepairEnds ==
  ASSUME RepairInv, NEW p \in Repairers, repairer[p].pc # "idle",
         repairer' = [repairer EXCEPT ![p] = RepairIdle(@.left)],
         repFile' \in RepContents, UNCHANGED <<repBranch, repIndex, repReceipt, repAnswers, repTouched>>
  PROVE  RepairInv'
<1> DEFINE row == RepairIdle(repairer[p].left)
<1>1. repairer[p] \in RepairRow /\ repIndex' \in RepContents /\ repTouched' \in Nat
  BY DEF RepairInv, RepTypes
<1>2. repairer[p].left \in Nat
  BY <1>1 DEF RepairRow
<1>3. row \in RepairRow /\ row.pc = "idle" /\ repairer' = [repairer EXCEPT ![p] = row]
  BY <1>2, RepairIdleRow
<1> HIDE DEF row
<1>4. /\ RepairWorking(row, repBranch, repReceipt, repAnswers)
      /\ RepairKnows(row, repFile', repIndex', repBranch, repTouched')
  BY <1>3, IdleRelies
<1> QED BY <1>1, <1>3, <1>4, RepairerNotes

\* The row of a call that goes on.
LEMMA RepairGoesTo ==
  ASSUME NEW r \in RepairRow, NEW pc \in RepPoints
  PROVE  LET row == [r EXCEPT !.pc = pc] IN
         /\ row \in RepairRow /\ row.pc = pc /\ row.task = r.task /\ row.after = r.after
         /\ row.patch = r.patch /\ row.head = r.head
BY DEF RepairRow

\* A call that goes on without a word about the copy.
LEMMA RepairGoes ==
  ASSUME RepairInv, NEW p \in Repairers, repairer[p].pc # "idle", NEW pc \in RepPoints,
         RepairGoto(p, pc), repLock' = repLock, repFile' \in RepContents, repIndex' \in RepContents,
         repTouched' \in Nat, repReceipt # NoHolder => repTouched' = repTouched,
         UNCHANGED <<repBranch, repReceipt, repAnswers>>,
         RepairWorking([repairer[p] EXCEPT !.pc = pc], repBranch, repReceipt, repAnswers),
         RepairKnows([repairer[p] EXCEPT !.pc = pc], repFile', repIndex', repBranch, repTouched')
  PROVE  RepairInv'
<1> DEFINE row == [repairer[p] EXCEPT !.pc = pc]
<1>1. repairer[p] \in RepairRow
  BY DEF RepairInv, RepTypes
<1>2. row \in RepairRow /\ row.task = repairer[p].task
  BY <1>1, RepairGoesTo
<1>3. repairer' = [repairer EXCEPT ![p] = row]
  BY DEF RepairGoto, RepairInv, RepTypes
<1>4. /\ RepairWorking(row, repBranch, repReceipt, repAnswers)
      /\ RepairKnows(row, repFile', repIndex', repBranch, repTouched')
  OBVIOUS
<1> HIDE DEF row
<1> QED BY <1>2, <1>3, <1>4, RepairerNotes

\* Appending to the branch.
LEMMA BranchGrows ==
  ASSUME NEW b \in Seq(RepCommits), NEW c \in RepCommits
  PROVE  /\ Append(b, c) \in Seq(RepCommits) /\ Append(b, c) # << >> /\ HeadOf(Append(b, c)) = c
         /\ c.by # "worker" => WorkerCommits(Append(b, c)) = WorkerCommits(b)
         /\ WorkerCommits(b) = {} => \A i, j \in WorkerCommits(Append(b, c)) : i = j
<1>1. /\ Append(b, c) \in Seq(RepCommits) /\ Len(Append(b, c)) = Len(b) + 1 /\ Len(b) \in Nat
      /\ Append(b, c)[Len(b) + 1] = c
      /\ \A i \in 1..Len(b) : Append(b, c)[i] = b[i]
  OBVIOUS
<1>2. /\ DOMAIN b = 1..Len(b) /\ DOMAIN Append(b, c) = 1..Len(b) + 1
  BY <1>1
<1>3. \A i \in 1..Len(b) + 1 : i = Len(b) + 1 \/ i \in 1..Len(b)
  BY <1>1
<1>4. ASSUME c.by # "worker" PROVE WorkerCommits(Append(b, c)) = WorkerCommits(b)
  <2>1. \A i \in WorkerCommits(Append(b, c)) : i \in WorkerCommits(b)
    BY <1>1, <1>2, <1>3, <1>4 DEF WorkerCommits
  <2>2. \A i \in WorkerCommits(b) : i \in WorkerCommits(Append(b, c))
    BY <1>1, <1>2 DEF WorkerCommits
  <2> QED BY <2>1, <2>2
<1>5. ASSUME WorkerCommits(b) = {} PROVE \A i, j \in WorkerCommits(Append(b, c)) : i = j
  <2>1. \A i \in WorkerCommits(Append(b, c)) : i = Len(b) + 1
    BY <1>1, <1>2, <1>3, <1>5 DEF WorkerCommits
  <2> QED BY <2>1
<1>6. Append(b, c) # << >> /\ HeadOf(Append(b, c)) = c
  BY <1>1 DEF HeadOf
<1> QED BY <1>1, <1>4, <1>5, <1>6

\* What passes has the right function; a rendering of it satisfies the validator role.
LEMMA PassesIsRight ==
  ASSUME NEW p, NEW content, NEW task, RepairPasses(p, content, task)
  PROVE  StructuredPasses(content, task) /\ (content.rest = "base" => IssueValidates(content, task))
BY DEF RepairPasses, LocalPasses, StructuredPasses, IssueValidates

-----------------------------------------------------------------------------
LEMMA RepairStartKeeps ==
  ASSUME RepairInv, NEW p \in Repairers, NEW t \in RepTasks, NEW issue \in BOOLEAN,
         RepairStart(p, t, issue)
  PROVE  RepairInv'
<1> DEFINE left == repairer[p].left - 1
           row == [repairer[p] EXCEPT !.pc = "inspect", !.task = t, !.issue = issue, !.left = left]
<1>1. repairer[p] \in RepairRow /\ repairer \in [Repairers -> RepairRow]
  BY DEF RepairInv, RepTypes
<1>2. left \in Nat
  BY <1>1 DEF RepairStart, RepairRow
<1>3. repairer' = [repairer EXCEPT ![p].pc = "inspect", ![p].task = t, ![p].issue = issue,
                                  ![p].left = left]
  BY DEF RepairStart
<1> HIDE DEF left
<1>4. row \in RepairRow /\ row.pc = "inspect" /\ row.task = t
  BY <1>1, <1>2 DEF RepairRow, RepPoints
<1>5. repairer' = [repairer EXCEPT ![p] = row]
  BY <1>1, <1>3
<1> HIDE DEF row
<1>6. \A q \in Repairers : repairer[q].pc = "idle"
  BY RepairAssumption DEF RepairStart, RepairInv
<1>7. UNCHANGED <<repBranch, repFile, repIndex, repReceipt, repAnswers, repTouched>> /\ repLock' = p
  BY DEF RepairStart, repCopy, repCounts
<1>8. /\ RepairWorking(row, repBranch', repReceipt', repAnswers')
      /\ RepairKnows(row, repFile', repIndex', repBranch', repTouched')
  BY <1>4 DEF RepairWorking, RepairKnows, Uncommitted
<1>9. /\ repBranch' \in Seq(RepCommits) /\ repFile' \in RepContents /\ repIndex' \in RepContents
      /\ repReceipt' \in RepReceipts \cup {NoHolder} /\ repTouched' \in Nat
      /\ \A i, j \in WorkerCommits(repBranch') : i = j
      /\ repReceipt' # NoHolder => ReceiptProved(repReceipt', repTouched')
      /\ AnswersOfReceipt(repReceipt', repAnswers')
  BY <1>7 DEF RepairInv, RepTypes
<1> QED BY <1>4, <1>5, <1>6, <1>7, <1>8, <1>9, RepairerMoves

LEMMA RepairInspectKeeps ==
  ASSUME RepairInv, NEW p \in Repairers, RepairInspect(p)
  PROVE  RepairInv'
<1>0. /\ repairer[p] \in RepairRow /\ repairer[p].pc = "inspect" /\ repFile' \in RepContents
      /\ repIndex' \in RepContents /\ repTouched' \in Nat
      /\ UNCHANGED <<repBranch, repReceipt, repTouched>>
  BY DEF RepairInspect, RepairAt, RepairInv, RepTypes, repCopy, repCounts
<1>1. CASE /\ repReceipt = NoHolder /\ RepairAtBase
           /\ RepairGoto(p, "propose") /\ UNCHANGED <<repLock, repAnswers>>
  <2> DEFINE row == [repairer[p] EXCEPT !.pc = "propose"]
  <2>1. WorkerCommits(repBranch) = {}
    BY <1>1 DEF RepairAtBase, WorkerCommits
  <2>2. repAnswers = {}
    BY <1>1 DEF RepairInv, AnswersOfReceipt
  <2>3. row.pc = "propose"
    BY <1>0, RepairGoesTo DEF RepPoints
  <2>4. /\ RepairWorking(row, repBranch, repReceipt, repAnswers)
        /\ RepairKnows(row, repFile', repIndex', repBranch, repTouched')
    BY <1>1, <2>1, <2>2, <2>3 DEF RepairWorking, RepairKnows
  <2> QED BY <1>0, <1>1, <2>4, RepairGoes DEF RepPoints
<1>2. CASE /\ RepairEnd(p)
           /\ repAnswers' = repAnswers \cup
                (IF RepairClean /\ repReceipt # NoHolder /\ ~repairer[p].issue /\ ReceiptReplays(p)
                   THEN {[sha |-> repReceipt.sha, task |-> repReceipt.task, replayed |-> TRUE]}
                   ELSE {})
  <2> DEFINE row == RepairIdle(repairer[p].left)
  <2>1. repairer[p].left \in Nat
    BY <1>0 DEF RepairRow
  <2>2. row \in RepairRow /\ row.pc = "idle"
    BY <2>1, RepairIdleRow
  <2>3. repairer' = [repairer EXCEPT ![p] = row]
    BY <1>2 DEF RepairEnd
  <2> HIDE DEF row
  <2>4. \A q \in Repairers \ {p} : repairer[q].pc = "idle"
    BY <1>0, OthersIdle
  <2>5. /\ RepairWorking(row, repBranch', repReceipt', repAnswers')
        /\ RepairKnows(row, repFile', repIndex', repBranch', repTouched')
    BY <2>2, IdleRelies
  <2>6. AnswersOfReceipt(repReceipt', repAnswers')
    BY <1>0, <1>2 DEF RepairInv, AnswersOfReceipt
  <2>7. /\ repBranch' \in Seq(RepCommits) /\ repReceipt' \in RepReceipts \cup {NoHolder}
        /\ \A i, j \in WorkerCommits(repBranch') : i = j
        /\ repReceipt' # NoHolder => ReceiptProved(repReceipt', repTouched')
    BY <1>0 DEF RepairInv, RepTypes
  <2> QED BY <1>0, <2>2, <2>3, <2>4, <2>5, <2>6, <2>7, RepairerMoves
<1> QED BY <1>1, <1>2 DEF RepairInspect

\* What the steps of a call between its inspection and its receipt start from.
LEMMA RepairStepFacts ==
  ASSUME RepairInv, NEW p \in Repairers, repairer[p].pc \in RepPoints \ {"idle", "inspect"}
  PROVE  /\ repairer[p] \in RepairRow /\ repairer \in [Repairers -> RepairRow]
         /\ repFile \in RepContents /\ repIndex \in RepContents /\ repBranch \in Seq(RepCommits)
         /\ repTouched \in Nat /\ repLock = p /\ repairer[p].task \in RepTasks
         /\ repReceipt = NoHolder /\ repAnswers = {}
         /\ repairer[p].pc \in Uncommitted => WorkerCommits(repBranch) = {}
         /\ RepairKnows(repairer[p], repFile, repIndex, repBranch, repTouched)
BY DEF RepairInv, RepTypes, RepairWorking

LEMMA RepairProposeKeeps ==
  ASSUME RepairInv, NEW p \in Repairers, RepairPropose(p)
  PROVE  RepairInv'
<1>0. repairer[p].pc = "propose" /\ UNCHANGED <<repBranch, repFile, repIndex, repReceipt, repAnswers, repTouched>>
  BY DEF RepairPropose, RepairAt, repCopy, repCounts
<1>1. /\ repairer[p] \in RepairRow /\ repairer \in [Repairers -> RepairRow]
      /\ repFile' \in RepContents /\ repIndex' \in RepContents /\ repTouched' \in Nat
      /\ repairer[p].task \in RepTasks
      /\ repReceipt = NoHolder /\ repAnswers = {} /\ WorkerCommits(repBranch) = {}
  BY <1>0, RepairStepFacts DEF RepPoints, Uncommitted
<1>2. CASE RepairEnd(p)
  BY <1>0, <1>1, <1>2, RepairEnds DEF RepairEnd
<1>3. ASSUME NEW after \in RepContents, IssueValidates(after, repairer[p].task),
             repairer' = [repairer EXCEPT ![p].pc = "recheck", ![p].after = after], UNCHANGED repLock
      PROVE  RepairInv'
  <2> DEFINE row == [repairer[p] EXCEPT !.pc = "recheck", !.after = after]
  <2>1. row \in RepairRow /\ row.pc = "recheck" /\ row.task = repairer[p].task /\ row.after = after
    BY <1>1 DEF RepairRow, RepPoints
  <2>2. repairer' = [repairer EXCEPT ![p] = row]
    BY <1>1, <1>3
  <2> HIDE DEF row
  <2>3. RepairWorking(row, repBranch, repReceipt, repAnswers)
    BY <1>1, <2>1 DEF RepairWorking
  <2>4. RepairKnows(row, repFile', repIndex', repBranch, repTouched')
    BY <1>3, <2>1 DEF RepairKnows
  <2> QED BY <1>0, <1>1, <1>3, <2>1, <2>2, <2>3, <2>4, RepairerNotes
<1>4. ASSUME NEW reply \in RepContents,
             repairer' = [repairer EXCEPT ![p].attempt = 2, ![p].first = reply], UNCHANGED repLock
      PROVE  RepairInv'
  <2> DEFINE row == [repairer[p] EXCEPT !.attempt = 2, !.first = reply]
  <2>1. row \in RepairRow /\ row.pc = "propose" /\ row.task = repairer[p].task
    BY <1>0, <1>1 DEF RepairRow, RepPoints
  <2>2. repairer' = [repairer EXCEPT ![p] = row]
    BY <1>1, <1>4
  <2> HIDE DEF row
  <2>3. RepairWorking(row, repBranch, repReceipt, repAnswers)
    BY <1>1, <2>1 DEF RepairWorking
  <2>4. RepairKnows(row, repFile', repIndex', repBranch, repTouched')
    BY <2>1 DEF RepairKnows
  <2> QED BY <1>0, <1>1, <1>4, <2>1, <2>2, <2>3, <2>4, RepairerNotes
<1>5. ASSUME NEW reply \in Answers(p)
      PROVE  /\ reply \in RepContents /\ reply.rest = "base"
             /\ GuardCompletion(reply, repairer[p].task) \in RepContents
             /\ GuardCompletion(reply, repairer[p].task).rest = "base"
  <2>1. reply \in Candidates \cup {Original, Refused}
    BY DEF Answers, LocalAnswers, StructuredAnswers
  <2>2. reply \in RepContents
    BY <2>1, RepContentsNamed
  <2>3. reply.rest = "base"
    BY <2>1 DEF Candidates, Original, Refused, Rendering
  <2>4. Rendering(<<"right", repairer[p].task>>) \in RepContents
        /\ Rendering(<<"right", repairer[p].task>>).rest = "base"
    BY <1>1, RepContentsNamed DEF Rendering
  <2> QED BY <2>2, <2>3, <2>4 DEF GuardCompletion
<1>6. PICK reply \in Answers(p) :
        \/ RepairEnd(p)
        \/ \E after \in {GuardCompletion(reply, repairer[p].task), reply} :
             /\ RepairPasses(p, after, repairer[p].task)
             /\ repairer' = [repairer EXCEPT ![p].pc = "recheck", ![p].after = after]
             /\ UNCHANGED repLock
        \/ /\ repairer' = [repairer EXCEPT ![p].attempt = 2, ![p].first = reply]
           /\ UNCHANGED repLock
  BY DEF RepairPropose
<1>7. ASSUME NEW after \in {GuardCompletion(reply, repairer[p].task), reply},
             RepairPasses(p, after, repairer[p].task)
      PROVE  after \in RepContents /\ IssueValidates(after, repairer[p].task)
  BY <1>5, <1>7, PassesIsRight
<1> QED BY <1>2, <1>3, <1>4, <1>5, <1>6, <1>7

LEMMA RepairRecheckKeeps ==
  ASSUME RepairInv, NEW p \in Repairers, RepairRecheck(p)
  PROVE  RepairInv'
<1> DEFINE row == [repairer[p] EXCEPT !.pc = "write"]
<1>0. repairer[p].pc = "recheck" /\ UNCHANGED <<repBranch, repFile, repIndex, repReceipt, repAnswers>>
  BY DEF RepairRecheck, RepairAt, repCopy
<1>1. /\ repairer[p] \in RepairRow /\ repFile' \in RepContents /\ repIndex' \in RepContents
      /\ repReceipt = NoHolder /\ repAnswers = {} /\ WorkerCommits(repBranch) = {}
      /\ RepairKnows(repairer[p], repFile, repIndex, repBranch, repTouched)
  BY <1>0, RepairStepFacts DEF RepPoints, Uncommitted
<1>2. CASE RepairEnd(p) /\ UNCHANGED repTouched
  BY <1>0, <1>1, <1>2, RepairEnds DEF RepairEnd
<1>3. CASE RepairAtBase /\ RepairGoto(p, "write") /\ repTouched' = 0 /\ UNCHANGED repLock
  <2>1. row.pc = "write" /\ row.task = repairer[p].task /\ row.after = repairer[p].after
    BY <1>1, RepairGoesTo DEF RepPoints
  <2>2. repIndex' = Original
    BY <1>0, <1>3 DEF RepairAtBase, RepairClean
  <2>3. IssueValidates(repairer[p].after, repairer[p].task)
    BY <1>0, <1>1 DEF RepairKnows, RepPoints
  <2>4. RepairWorking(row, repBranch, repReceipt, repAnswers)
    BY <1>1, <2>1 DEF RepairWorking
  <2>5. RepairKnows(row, repFile', repIndex', repBranch, repTouched')
    BY <2>1, <2>2, <2>3 DEF RepairKnows
  <2> HIDE DEF row
  <2>6. repTouched' \in Nat
    BY <1>3
  <2> QED BY <1>0, <1>1, <1>3, <2>4, <2>5, <2>6, RepairGoes DEF row, RepPoints
<1> QED BY <1>2, <1>3 DEF RepairRecheck

LEMMA RepairWriteKeeps ==
  ASSUME RepairInv, NEW p \in Repairers, RepairWrite(p)
  PROVE  RepairInv'
<1>0. /\ repairer[p].pc = "write" /\ repFile' = repairer[p].after
      /\ UNCHANGED <<repBranch, repIndex, repLock, repReceipt, repAnswers, repTouched>>
  BY DEF RepairWrite, RepairAt, repCounts
<1>1. /\ repairer[p] \in RepairRow /\ repIndex' \in RepContents /\ repTouched' \in Nat
      /\ repReceipt = NoHolder /\ repAnswers = {} /\ WorkerCommits(repBranch) = {}
      /\ RepairKnows(repairer[p], repFile, repIndex, repBranch, repTouched)
  BY <1>0, RepairStepFacts DEF RepPoints, Uncommitted
<1>2. repFile' \in RepContents
  BY <1>0, <1>1 DEF RepairRow
<1>3. PICK pc \in {"check", "scope"} : RepairGoto(p, pc)
  BY DEF RepairWrite
<1> DEFINE row == [repairer[p] EXCEPT !.pc = pc]
<1>4. row.pc = pc /\ row.task = repairer[p].task /\ row.after = repairer[p].after
  BY <1>1, RepairGoesTo DEF RepPoints
<1>5. RepairWorking(row, repBranch, repReceipt, repAnswers)
  BY <1>1, <1>4 DEF RepairWorking
<1>6. /\ IssueValidates(repairer[p].after, repairer[p].task)
      /\ repTouched = 0 => repIndex = Original
  BY <1>0, <1>1 DEF RepairKnows, RepPoints
<1>7. RepairKnows(row, repFile', repIndex', repBranch, repTouched')
  BY <1>0, <1>4, <1>6 DEF RepairKnows
<1> HIDE DEF row
<1>8. pc \in RepPoints
  BY DEF RepPoints
<1> QED BY <1>0, <1>1, <1>2, <1>3, <1>5, <1>7, <1>8, RepairGoes DEF row

LEMMA RepairScopeKeeps ==
  ASSUME RepairInv, NEW p \in Repairers, LocalCheck(p) \/ StructuredScope(p)
  PROVE  RepairInv'
<1> DEFINE row == [repairer[p] EXCEPT !.pc = "diff"]
<1>0. /\ repairer[p].pc \in {"check", "scope"}
      /\ UNCHANGED <<repBranch, repIndex, repReceipt, repAnswers, repTouched>>
  BY DEF LocalCheck, StructuredScope, RepairAt, repCopy, repCounts
<1>1. /\ repairer[p] \in RepairRow /\ repIndex' \in RepContents /\ repTouched' \in Nat
      /\ repFile \in RepContents
      /\ repReceipt = NoHolder /\ repAnswers = {} /\ WorkerCommits(repBranch) = {}
      /\ RepairKnows(repairer[p], repFile, repIndex, repBranch, repTouched)
  BY <1>0, RepairStepFacts DEF RepPoints, Uncommitted
<1>2. CASE RepairEnd(p)
  <2>1. repFile' \in RepContents
    BY <1>1, RepContentsNamed DEF LocalCheck, StructuredScope, repCopy
  <2> QED BY <1>0, <1>1, <1>2, <2>1, RepairEnds DEF RepairEnd
<1>3. CASE RepairGoto(p, "diff") /\ UNCHANGED <<repFile, repLock>>
  <2>1. row.pc = "diff" /\ row.task = repairer[p].task /\ row.after = repairer[p].after
    BY <1>1, RepairGoesTo DEF RepPoints
  <2>2. RepairWorking(row, repBranch, repReceipt, repAnswers)
    BY <1>1, <2>1 DEF RepairWorking
  <2>3. /\ IssueValidates(repairer[p].after, repairer[p].task)
        /\ repTouched = 0 => repIndex = Original /\ repFile = repairer[p].after
    BY <1>0, <1>1 DEF RepairKnows, RepPoints
  <2>4. RepairKnows(row, repFile', repIndex', repBranch, repTouched')
    BY <1>0, <1>3, <2>1, <2>3 DEF RepairKnows
  <2> HIDE DEF row
  <2> QED BY <1>0, <1>1, <1>3, <2>2, <2>4, RepairGoes DEF row, RepPoints
<1> QED BY <1>2, <1>3 DEF LocalCheck, StructuredScope, repCopy

LEMMA RepairDiffKeeps ==
  ASSUME RepairInv, NEW p \in Repairers, RepairDiff(p)
  PROVE  RepairInv'
<1> DEFINE patch == [from |-> repIndex, to |-> repFile]
           row == [repairer[p] EXCEPT !.pc = "add", !.patch = patch]
<1>0. /\ repairer[p].pc = "diff"
      /\ UNCHANGED <<repBranch, repFile, repIndex, repLock, repReceipt, repAnswers, repTouched>>
  BY DEF RepairDiff, RepairAt, repCopy, repCounts
<1>1. /\ repairer[p] \in RepairRow /\ repairer \in [Repairers -> RepairRow]
      /\ repIndex \in RepContents /\ repTouched' \in Nat /\ repFile \in RepContents
      /\ repReceipt = NoHolder /\ repAnswers = {} /\ WorkerCommits(repBranch) = {}
      /\ RepairKnows(repairer[p], repFile, repIndex, repBranch, repTouched)
  BY <1>0, RepairStepFacts DEF RepPoints, Uncommitted
<1>2. patch \in RepPatches
  BY <1>1 DEF RepPatches
<1>3. repairer' = [repairer EXCEPT ![p].pc = "add", ![p].patch = patch]
  BY DEF RepairDiff
<1>4. repTouched = 0 => patch = PatchOf(repairer[p].after)
  BY <1>0, <1>1 DEF RepairKnows, PatchOf
<1> HIDE DEF patch
<1>5. /\ row \in RepairRow /\ row.pc = "add" /\ row.task = repairer[p].task
      /\ row.after = repairer[p].after /\ row.patch = patch
  BY <1>1, <1>2 DEF RepairRow, RepPoints
<1>6. repairer' = [repairer EXCEPT ![p] = row]
  BY <1>1, <1>3
<1> HIDE DEF row
<1>7. RepairWorking(row, repBranch, repReceipt, repAnswers)
  BY <1>1, <1>5 DEF RepairWorking
<1>8. /\ IssueValidates(repairer[p].after, repairer[p].task)
      /\ repTouched = 0 => repIndex = Original /\ repFile = repairer[p].after
  BY <1>0, <1>1 DEF RepairKnows, RepPoints
<1>9. RepairKnows(row, repFile', repIndex', repBranch, repTouched')
  BY <1>0, <1>4, <1>5, <1>8 DEF RepairKnows
<1> QED BY <1>0, <1>1, <1>5, <1>6, <1>7, <1>9, RepairerNotes

LEMMA RepairAddKeeps ==
  ASSUME RepairInv, NEW p \in Repairers, RepairAdd(p)
  PROVE  RepairInv'
<1> DEFINE row == [repairer[p] EXCEPT !.pc = "commit"]
<1>0. /\ repairer[p].pc = "add" /\ repIndex' = repFile /\ RepairGoto(p, "commit")
      /\ UNCHANGED <<repBranch, repFile, repLock, repReceipt, repAnswers, repTouched>>
  BY DEF RepairAdd, RepairAt, repCounts
<1>1. /\ repairer[p] \in RepairRow /\ repFile \in RepContents /\ repTouched' \in Nat
      /\ repReceipt = NoHolder /\ repAnswers = {} /\ WorkerCommits(repBranch) = {}
      /\ RepairKnows(repairer[p], repFile, repIndex, repBranch, repTouched)
  BY <1>0, RepairStepFacts DEF RepPoints, Uncommitted
<1>2. /\ row.pc = "commit" /\ row.task = repairer[p].task /\ row.after = repairer[p].after
      /\ row.patch = repairer[p].patch
  BY <1>1, RepairGoesTo DEF RepPoints
<1>3. RepairWorking(row, repBranch, repReceipt, repAnswers)
  BY <1>1, <1>2 DEF RepairWorking
<1>4. /\ IssueValidates(repairer[p].after, repairer[p].task)
      /\ repTouched = 0 => repFile = repairer[p].after /\ repairer[p].patch = PatchOf(repairer[p].after)
  BY <1>0, <1>1 DEF RepairKnows, RepPoints
<1>5. Backed(row, repFile', repIndex', repTouched')
  BY <1>0, <1>2, <1>4 DEF Backed
<1>6. RepairKnows(row, repFile', repIndex', repBranch, repTouched')
  BY <1>2, <1>4, <1>5 DEF RepairKnows
<1> HIDE DEF row
<1> QED BY <1>0, <1>1, <1>3, <1>6, RepairGoes DEF row, RepPoints

LEMMA RepairCommitKeeps ==
  ASSUME RepairInv, NEW p \in Repairers, RepairCommit(p)
  PROVE  RepairInv'
<1>0. repairer[p].pc = "commit" /\ UNCHANGED <<repFile, repIndex, repReceipt, repAnswers, repTouched>>
  BY DEF RepairCommit, RepairAt, repCounts
<1>1. /\ repairer[p] \in RepairRow /\ repairer \in [Repairers -> RepairRow] /\ repTouched \in Nat
      /\ repFile \in RepContents /\ repIndex \in RepContents /\ repBranch \in Seq(RepCommits)
      /\ repairer[p].task \in RepTasks /\ repLock = p
      /\ repReceipt = NoHolder /\ repAnswers = {} /\ WorkerCommits(repBranch) = {}
      /\ RepairKnows(repairer[p], repFile, repIndex, repBranch, repTouched)
  BY <1>0, RepairStepFacts DEF RepPoints, Uncommitted
<1>2. CASE RepairEnd(p) /\ UNCHANGED repBranch
  BY <1>0, <1>1, <1>2, RepairEnds DEF RepairEnd
<1>3. CASE /\ repBranch' = Append(repBranch, [by |-> "worker", file |-> repIndex, scope |-> "target"])
           /\ RepairGoto(p, "produced") /\ UNCHANGED repLock
  <2> DEFINE c == [by |-> "worker", file |-> repIndex, scope |-> "target"]
             row == [repairer[p] EXCEPT !.pc = "produced"]
  <2>1. c \in RepCommits /\ c.file = repIndex
    BY <1>1 DEF RepCommits
  <2>2. /\ row \in RepairRow /\ row.pc = "produced" /\ row.task = repairer[p].task
        /\ row.after = repairer[p].after /\ row.patch = repairer[p].patch
    BY <1>1, RepairGoesTo DEF RepPoints
  <2>3. repairer' = [repairer EXCEPT ![p] = row] /\ repBranch' = Append(repBranch, c)
    BY <1>1, <1>3 DEF RepairGoto
  <2> HIDE DEF row, c
  <2>4. /\ repBranch' \in Seq(RepCommits) /\ \A i, j \in WorkerCommits(repBranch') : i = j
        /\ repBranch' # << >> /\ HeadOf(repBranch').file = repIndex
    BY <1>1, <2>1, <2>3, BranchGrows
  <2>5. RepairWorking(row, repBranch', repReceipt', repAnswers')
    BY <1>0, <1>1, <2>2 DEF RepairWorking, Uncommitted
  <2>6. Backed(repairer[p], repFile, repIndex, repTouched)
        /\ IssueValidates(repairer[p].after, repairer[p].task)
    BY <1>0, <1>1 DEF RepairKnows, RepPoints
  <2>7. Backed(row, repFile', HeadOf(repBranch').file, repTouched')
    BY <1>0, <2>2, <2>4, <2>6 DEF Backed
  <2>8. RepairKnows(row, repFile', repIndex', repBranch', repTouched')
    BY <2>2, <2>4, <2>6, <2>7 DEF RepairKnows
  <2>9. \A q \in Repairers \ {p} : repairer[q].pc = "idle"
    BY <1>0, OthersIdle
  <2>10. repReceipt' = NoHolder /\ AnswersOfReceipt(repReceipt', repAnswers')
    BY <1>0, <1>1 DEF AnswersOfReceipt
  <2>11. /\ repFile' \in RepContents /\ repIndex' \in RepContents /\ repTouched' \in Nat
         /\ repLock' = p /\ row.task \in RepTasks
    BY <1>0, <1>1, <1>3, <2>2
  <2> QED BY <2>2, <2>3, <2>4, <2>5, <2>8, <2>9, <2>10, <2>11, RepairerMoves
<1> QED BY <1>2, <1>3 DEF RepairCommit

LEMMA RepairProducedKeeps ==
  ASSUME RepairInv, NEW p \in Repairers, RepairProduced(p)
  PROVE  RepairInv'
<1> DEFINE row == [repairer[p] EXCEPT !.pc = "prove", !.head = repBranch]
<1>0. /\ repairer[p].pc = "produced"
      /\ UNCHANGED <<repBranch, repFile, repIndex, repLock, repReceipt, repAnswers, repTouched>>
  BY DEF RepairProduced, RepairAt, repCopy, repCounts
<1>1. /\ repairer[p] \in RepairRow /\ repairer \in [Repairers -> RepairRow] /\ repTouched' \in Nat
      /\ repFile' \in RepContents /\ repIndex' \in RepContents /\ repBranch \in Seq(RepCommits)
      /\ repReceipt = NoHolder /\ repAnswers = {}
      /\ RepairKnows(repairer[p], repFile, repIndex, repBranch, repTouched)
  BY <1>0, RepairStepFacts DEF RepPoints
<1>2. /\ row \in RepairRow /\ row.pc = "prove" /\ row.task = repairer[p].task
      /\ row.after = repairer[p].after /\ row.patch = repairer[p].patch /\ row.head = repBranch
  BY <1>1 DEF RepairRow, RepPoints
<1>3. repairer' = [repairer EXCEPT ![p] = row]
  BY <1>1 DEF RepairProduced
<1> HIDE DEF row
<1>4. RepairWorking(row, repBranch, repReceipt, repAnswers)
  BY <1>1, <1>2 DEF RepairWorking, Uncommitted
<1>5. /\ Backed(repairer[p], repFile, HeadOf(repBranch).file, repTouched)
      /\ IssueValidates(repairer[p].after, repairer[p].task)
  BY <1>0, <1>1 DEF RepairKnows, RepPoints
<1>6. Backed(row, repFile', HeadOf(row.head).file, repTouched')
  BY <1>0, <1>2, <1>5 DEF Backed
<1>7. RepairKnows(row, repFile', repIndex', repBranch, repTouched')
  BY <1>2, <1>5, <1>6 DEF RepairKnows
<1> QED BY <1>0, <1>1, <1>2, <1>3, <1>4, <1>7, RepairerNotes

LEMMA RepairProveKeeps ==
  ASSUME RepairInv, NEW p \in Repairers, RepairProve(p)
  PROVE  RepairInv'
<1> DEFINE row == [repairer[p] EXCEPT !.pc = "revalidate"]
<1>0. /\ repairer[p].pc = "prove"
      /\ UNCHANGED <<repBranch, repFile, repIndex, repReceipt, repAnswers, repTouched>>
  BY DEF RepairProve, RepairAt, repCopy, repCounts
<1>1. /\ repairer[p] \in RepairRow /\ repTouched' \in Nat
      /\ repFile' \in RepContents /\ repIndex' \in RepContents
      /\ repReceipt = NoHolder /\ repAnswers = {}
      /\ RepairKnows(repairer[p], repFile, repIndex, repBranch, repTouched)
  BY <1>0, RepairStepFacts DEF RepPoints
<1>2. CASE RepairEnd(p)
  BY <1>0, <1>1, <1>2, RepairEnds DEF RepairEnd
<1>3. CASE /\ \A i \in DOMAIN repairer[p].head : repairer[p].head[i].scope = "target"
           /\ RepairGoto(p, "revalidate") /\ UNCHANGED repLock
  <2>1. /\ row.pc = "revalidate" /\ row.task = repairer[p].task /\ row.after = repairer[p].after
        /\ row.patch = repairer[p].patch /\ row.head = repairer[p].head
    BY <1>1, RepairGoesTo DEF RepPoints
  <2>2. RepairWorking(row, repBranch, repReceipt, repAnswers)
    BY <1>1, <2>1 DEF RepairWorking, Uncommitted
  <2>3. /\ Backed(repairer[p], repFile, HeadOf(repairer[p].head).file, repTouched)
        /\ IssueValidates(repairer[p].after, repairer[p].task)
    BY <1>0, <1>1 DEF RepairKnows, RepPoints
  <2>4. Backed(row, repFile', HeadOf(row.head).file, repTouched') /\ Targeted(row.head)
    BY <1>0, <1>3, <2>1, <2>3 DEF Backed, Targeted
  <2>5. RepairKnows(row, repFile', repIndex', repBranch, repTouched')
    BY <2>1, <2>3, <2>4 DEF RepairKnows
  <2> HIDE DEF row
  <2> QED BY <1>0, <1>1, <1>3, <2>2, <2>5, RepairGoes DEF row, RepPoints
<1> QED BY <1>2, <1>3 DEF RepairProve

\* The second validation turns "it is the text in the file" into "it passes".
LEMMA RepairRevalidateKeeps ==
  ASSUME RepairInv, NEW p \in Repairers, RepairRevalidate(p)
  PROVE  RepairInv'
<1> DEFINE row == [repairer[p] EXCEPT !.pc = "patch"]
           made == HeadOf(repairer[p].head).file
<1>0. /\ repairer[p].pc = "revalidate"
      /\ UNCHANGED <<repBranch, repFile, repIndex, repReceipt, repAnswers, repTouched>>
  BY DEF RepairRevalidate, RepairAt, repCopy, repCounts
<1>1. /\ repairer[p] \in RepairRow /\ repTouched' \in Nat
      /\ repFile' \in RepContents /\ repIndex' \in RepContents
      /\ repReceipt = NoHolder /\ repAnswers = {}
      /\ RepairKnows(repairer[p], repFile, repIndex, repBranch, repTouched)
  BY <1>0, RepairStepFacts DEF RepPoints
<1>2. CASE RepairEnd(p)
  BY <1>0, <1>1, <1>2, RepairEnds DEF RepairEnd
<1>3. CASE /\ RepairPasses(p, repFile, repairer[p].task)
           /\ RepairGoto(p, "patch") /\ UNCHANGED repLock
  <2>1. /\ row.pc = "patch" /\ row.task = repairer[p].task
        /\ row.patch = repairer[p].patch /\ row.head = repairer[p].head
    BY <1>1, RepairGoesTo DEF RepPoints
  <2>2. RepairWorking(row, repBranch, repReceipt, repAnswers)
    BY <1>1, <2>1 DEF RepairWorking, Uncommitted
  <2>3. /\ Backed(repairer[p], repFile, made, repTouched) /\ Targeted(repairer[p].head)
        /\ IssueValidates(repairer[p].after, repairer[p].task)
    BY <1>0, <1>1 DEF RepairKnows, RepPoints
  <2>4. StructuredPasses(repFile, repairer[p].task)
    BY <1>3, PassesIsRight
  <2>5. repTouched <= 1 => StructuredPasses(made, repairer[p].task)
    BY <2>3, <2>4 DEF Backed
  <2>6. repTouched = 0 => IssueValidates(made, repairer[p].task) /\ repairer[p].patch = PatchOf(made)
    BY <2>3 DEF Backed
  <2>7. RepairKnows(row, repFile', repIndex', repBranch, repTouched')
    BY <1>0, <2>1, <2>3, <2>5, <2>6 DEF RepairKnows
  <2> HIDE DEF row
  <2> QED BY <1>0, <1>1, <1>3, <2>2, <2>7, RepairGoes DEF row, RepPoints
<1> QED BY <1>2, <1>3 DEF RepairRevalidate

LEMMA SavePatchKeeps ==
  ASSUME RepairInv, NEW p \in Repairers, SavePatch(p)
  PROVE  RepairInv'
<1> DEFINE row == [repairer[p] EXCEPT !.pc = "receipt", !.after = repFile]
<1>0. /\ repairer[p].pc = "patch"
      /\ UNCHANGED <<repBranch, repFile, repIndex, repLock, repReceipt, repAnswers, repTouched>>
  BY DEF SavePatch, RepairAt, repCopy, repCounts
<1>1. /\ repairer[p] \in RepairRow /\ repairer \in [Repairers -> RepairRow] /\ repTouched' \in Nat
      /\ repFile \in RepContents /\ repIndex' \in RepContents
      /\ repReceipt = NoHolder /\ repAnswers = {}
      /\ RepairKnows(repairer[p], repFile, repIndex, repBranch, repTouched)
  BY <1>0, RepairStepFacts DEF RepPoints
<1>2. /\ row \in RepairRow /\ row.pc = "receipt" /\ row.task = repairer[p].task
      /\ row.patch = repairer[p].patch /\ row.head = repairer[p].head
  BY <1>1 DEF RepairRow, RepPoints
<1>3. repairer' = [repairer EXCEPT ![p] = row]
  BY <1>1 DEF SavePatch
<1> HIDE DEF row
<1>4. RepairWorking(row, repBranch, repReceipt, repAnswers)
  BY <1>1, <1>2 DEF RepairWorking, Uncommitted
<1>5. RepairKnows(row, repFile', repIndex', repBranch, repTouched')
  BY <1>0, <1>1, <1>2 DEF RepairKnows
<1> QED BY <1>0, <1>1, <1>2, <1>3, <1>4, <1>5, RepairerNotes

LEMMA SaveReceiptKeeps ==
  ASSUME RepairInv, NEW p \in Repairers, SaveReceipt(p)
  PROVE  RepairInv'
<1> DEFINE r == repairer[p]
           row == RepairIdle(r.left)
           receipt == [task |-> r.task, sha |-> r.head, after |-> r.after, patch |-> r.patch]
<1>0. r.pc = "receipt" /\ UNCHANGED <<repBranch, repFile, repIndex, repTouched>>
  BY DEF SaveReceipt, RepairAt, repCopy, repCounts
<1>1. /\ r \in RepairRow /\ repFile' \in RepContents /\ repIndex' \in RepContents
      /\ repTouched' \in Nat /\ r.task \in RepTasks /\ repReceipt = NoHolder /\ repAnswers = {}
      /\ RepairKnows(r, repFile, repIndex, repBranch, repTouched)
  BY <1>0, RepairStepFacts DEF RepPoints
<1>2. /\ repReceipt' = receipt /\ repairer' = [repairer EXCEPT ![p] = row]
      /\ repAnswers' = {[sha |-> r.head, task |-> r.task, replayed |-> FALSE]}
  BY <1>1 DEF SaveReceipt, RepairEnd
<1>3. r.left \in Nat /\ r.head \in Seq(RepCommits) /\ r.patch \in RepPatches /\ r.after \in RepContents
  BY <1>1 DEF RepairRow
<1>4. receipt \in RepReceipts
  BY <1>1, <1>3 DEF RepReceipts
<1>5. receipt # NoHolder
  BY <1>4, RepairAssumption
<1>6. row \in RepairRow /\ row.pc = "idle"
  BY <1>3, RepairIdleRow
<1>7. ReceiptProved(receipt, repTouched')
  BY <1>0, <1>1 DEF RepairKnows, ReceiptProved
<1>8. AnswersOfReceipt(repReceipt', repAnswers')
  BY <1>2, <1>5 DEF AnswersOfReceipt
<1> HIDE DEF row, receipt
<1>9. /\ RepairWorking(row, repBranch', repReceipt', repAnswers')
      /\ RepairKnows(row, repFile', repIndex', repBranch', repTouched')
  BY <1>6, IdleRelies
<1>10. \A q \in Repairers \ {p} : repairer[q].pc = "idle"
  BY <1>0, OthersIdle
<1>11. repBranch' \in Seq(RepCommits) /\ \A i, j \in WorkerCommits(repBranch') : i = j
  BY <1>0 DEF RepairInv, RepTypes
<1> QED BY <1>1, <1>2, <1>4, <1>6, <1>7, <1>8, <1>9, <1>10, <1>11, RepairerMoves

-----------------------------------------------------------------------------
\* A touch by a stranger: what a call knew of an untouched copy shrinks to what
\* it knows of a copy touched once.
LEMMA TouchedOnce ==
  ASSUME NEW row \in RepairRow, NEW f, NEW x, NEW b, NEW g, NEW y, NEW c, NEW t \in Nat,
         RepairKnows(row, f, x, b, t),
         row.pc = "commit" => y = x \/ g = y,
         row.pc = "produced" => c # << >> /\ (HeadOf(c).file = HeadOf(b).file \/ g = HeadOf(c).file)
  PROVE  RepairKnows(row, g, y, c, t + 1)
<1>1. t + 1 # 0 /\ (t + 1 <= 1 => t = 0)
  OBVIOUS
<1>2. ASSUME row.pc \in {"commit", "produced", "prove", "revalidate"}, t = 0,
             NEW made, Backed(row, f, made, t)
      PROVE  StructuredPasses(made, row.task)
  BY <1>2 DEF RepairKnows, Backed, IssueValidates, RepPoints
<1>3. row.pc = "commit" => Backed(row, g, y, t + 1)
  BY <1>1, <1>2 DEF RepairKnows, Backed
<1>4. row.pc = "produced" => Backed(row, g, HeadOf(c).file, t + 1)
  BY <1>1, <1>2 DEF RepairKnows, Backed
<1>5. row.pc \in {"prove", "revalidate"} => Backed(row, g, HeadOf(row.head).file, t + 1)
  BY <1>1, <1>2 DEF RepairKnows, Backed
<1>6. row.pc \in {"patch", "receipt"} /\ t + 1 <= 1 => StructuredPasses(HeadOf(row.head).file, row.task)
  BY <1>1 DEF RepairKnows
<1> QED BY <1>1, <1>3, <1>4, <1>5, <1>6 DEF RepairKnows

\* What strangers do to the copy.
LEMMA StrangersKeep ==
  ASSUME RepairInv,
         \/ \E content \in StrangerTexts : StrangerEdit(content)
         \/ \E scope \in {"target", "other"} : StrangerCommit(scope)
  PROVE  RepairInv'
<1>0. /\ UNCHANGED <<repLock, repReceipt, repairer, repAnswers>> /\ repFile \in RepContents
      /\ repIndex \in RepContents /\ repBranch \in Seq(RepCommits) /\ repTouched \in Nat
      /\ repairer \in [Repairers -> RepairRow]
      /\ repTouched' = IF repReceipt = NoHolder THEN repTouched + 1 ELSE repTouched
  BY DEF StrangerEdit, StrangerCommit, Touch, RepairInv, RepTypes
<1>1. /\ repBranch' \in Seq(RepCommits) /\ WorkerCommits(repBranch') = WorkerCommits(repBranch)
      /\ repFile' \in RepContents /\ repIndex' \in RepContents
      /\ repIndex' = repIndex \/ repFile' = repIndex'
      /\ repBranch # << >> =>
           /\ repBranch' # << >>
           /\ HeadOf(repBranch').file = HeadOf(repBranch).file \/ repFile' = HeadOf(repBranch').file
  <2>1. ASSUME NEW content \in StrangerTexts, StrangerEdit(content) PROVE <1>1!:
    BY <1>0, <2>1, RepairAssumption DEF StrangerEdit
  <2>2. ASSUME NEW scope \in {"target", "other"}, StrangerCommit(scope) PROVE <1>1!:
    <3> DEFINE file == IF scope = "target" THEN repFile ELSE HeadFile
               c == [by |-> "stranger", scope |-> scope, file |-> file]
    <3>1. HeadFile \in RepContents
      <4>1. CASE repBranch = << >>
        BY <4>1, RepContentsNamed DEF HeadFile
      <4>2. CASE repBranch # << >>
        <5>1. repBranch[Len(repBranch)] \in RepCommits
          BY <1>0, <4>2
        <5>2. repBranch[Len(repBranch)].file \in RepContents
          BY <5>1 DEF RepCommits
        <5> QED BY <4>2, <5>2 DEF HeadFile, HeadOf
      <4> QED BY <4>1, <4>2
    <3>2. file \in RepContents
      BY <1>0, <3>1
    <3>3. /\ repBranch' = Append(repBranch, c) /\ repFile' = repFile
          /\ repIndex' = IF scope = "target" THEN repFile ELSE repIndex
      BY <2>2 DEF StrangerCommit
    <3>4. repBranch # << >> => file = HeadOf(repBranch).file \/ repFile' = file
      BY <3>3 DEF HeadFile
    <3> HIDE DEF file
    <3>5. c \in RepCommits /\ c.by = "stranger" /\ c.file = file
      BY <3>2 DEF RepCommits
    <3> HIDE DEF c
    <3>6. /\ repBranch' \in Seq(RepCommits) /\ WorkerCommits(repBranch') = WorkerCommits(repBranch)
          /\ repBranch' # << >> /\ HeadOf(repBranch').file = file
      BY <1>0, <3>3, <3>5, BranchGrows
    <3> QED BY <1>0, <3>3, <3>4, <3>6
  <2> QED BY <2>1, <2>2
<1>2. repTouched' \in Nat
  BY <1>0
<1>3. RepTypes'
  BY <1>0, <1>1, <1>2 DEF RepairInv, RepTypes
<1>4. \A p \in Repairers : RepairWorking(repairer'[p], repBranch', repReceipt', repAnswers')
  BY <1>0, <1>1 DEF RepairInv, RepairWorking
<1>5. ASSUME NEW p \in Repairers
      PROVE  RepairKnows(repairer'[p], repFile', repIndex', repBranch', repTouched')
  <2>1. repairer[p] \in RepairRow /\ RepairKnows(repairer[p], repFile, repIndex, repBranch, repTouched)
    BY <1>0 DEF RepairInv
  <2>2. CASE repairer[p].pc \in RepPoints \ {"idle", "inspect"}
    <3>1. repTouched' = repTouched + 1
      BY <1>0, <2>2, RepairStepFacts
    <3>2. repairer[p].pc = "produced" => repBranch # << >>
      BY <2>1 DEF RepairKnows
    <3> QED BY <1>0, <1>1, <2>1, <3>1, <3>2, TouchedOnce
  <2>3. CASE repairer[p].pc \in {"idle", "inspect"}
    BY <1>0, <2>3 DEF RepairKnows
  <2> QED BY <2>1, <2>2, <2>3 DEF RepairRow
<1>6. repReceipt' # NoHolder => ReceiptProved(repReceipt', repTouched')
  BY <1>0 DEF RepairInv
<1> QED BY <1>0, <1>1, <1>3, <1>4, <1>5, <1>6 DEF RepairInv

LEMMA RepairUnlockKeeps ==
  ASSUME RepairInv, RepairUnlock
  PROVE  RepairInv'
<1>1. UNCHANGED <<repBranch, repFile, repIndex, repReceipt, repairer, repAnswers, repTouched>>
      /\ repairer[repLock].pc = "idle"
  BY DEF RepairUnlock, RepairAt, repCopy, repCounts
<1>2. \A p \in Repairers : repairer[p].pc = "idle"
  BY <1>1 DEF RepairInv
<1>3. RepTypes'
  BY <1>1 DEF RepairInv, RepTypes
<1> QED BY <1>1, <1>2, <1>3 DEF RepairInv

LEMMA RepairStepKeeps ==
  ASSUME RepairInv, [RepairNext]_repVars
  PROVE  RepairInv'
<1>0. repFile \in RepContents
  BY DEF RepairInv, RepTypes
<1>1. ASSUME NEW p \in Repairers, RepairFails(p) PROVE RepairInv'
  BY <1>0, <1>1, RepairEnds DEF RepairFails, RepairEnd, repCopy, repCounts
<1>2. ASSUME NEW p \in Repairers, RepairKilled(p) PROVE RepairInv'
  BY <1>0, <1>2, RepairEnds DEF RepairKilled, RepairAt, repCopy
<1>3. CASE UNCHANGED repVars
  BY <1>3 DEF repVars, RepairInv, RepTypes
<1> QED BY <1>1, <1>2, <1>3, RepairStartKeeps, RepairInspectKeeps, RepairProposeKeeps,
           RepairRecheckKeeps, RepairWriteKeeps, RepairScopeKeeps, RepairDiffKeeps, RepairAddKeeps,
           RepairCommitKeeps, RepairProducedKeeps, RepairProveKeeps, RepairRevalidateKeeps,
           SavePatchKeeps, SaveReceiptKeeps, RepairUnlockKeeps, StrangersKeep
        DEF RepairNext

\* What a saved receipt is worth, by how often strangers touched the copy, for
\* any number of processes of both workers, tasks, kills, edits and commits and
\* any texts that strangers write.
THEOREM ReceiptsAreProved == RepairSpec => []RepairReceiptProved
BY RepairInvSuffices, RepairInitInv, RepairStepKeeps, PTL DEF RepairSpec

\* A copy yields one repair: one worker commit, one commit and task answered.
THEOREM CopyIsRepairedOnce == RepairSpec => []OneRepair
BY RepairInvSuffices, RepairInitInv, RepairStepKeeps, PTL DEF RepairSpec

-----------------------------------------------------------------------------
(***************************************************************************)
(* Continuity run.  The phase only advances, the producer is dead before the*)
(* successor starts, and the history of the pool orders their leases.      *)
(***************************************************************************)

PhasesOfB == {"b_started", "b_finished", "verified"}
PhasesAfterA == {"a_tree_terminated"} \cup PhasesOfB
ContPhases == {"none", "definition_persisted", "prepared", "a_started",
               "a_checkpoint_confirmed"} \cup PhasesAfterA

RunColumns == {"phase", "producer", "consumer", "artifact", "stale", "produced"}

JobPoints == {"idle", "defined", "enqueued", "prepared", "read", "spawning", "watching", "frozen",
              "observed", "killed", "finished", "done", "blocked", "gone"}
ActorsOfA == {"building", "publishing", "published", "persisted", "barrier"}
ControlPoints == {"controls", "unrenewed", "rejected", "applied"}
ActorsOfB == {"recovered", "resumed", "answered", "refused", "built", "validating", "validated",
              "done"} \cup ControlPoints

LostLease == [worker |-> "builder-a", token |-> 1, gen |-> 1, attempt |-> 1]
HeldLease == [worker |-> "builder-b", token |-> 2, gen |-> 2, attempt |-> 2]

ContRow ==
  [role : {NoRow, "a", "b"}, pc : JobPoints, proc : {"none", "running", "frozen", "dead", "exited"},
   actor : {"start", "committed"} \cup ActorsOfA \cup ActorsOfB, gaveUp : BOOLEAN,
   seen : {NoRow, HeldLease}]

Lives(row) == row.proc \in {"running", "frozen"}
HasActor(row) == row.pc = "spawning" \/ row.proc # "none"

\* What a job's own columns say of its role and its actor.
JobRow(row) ==
  /\ row.pc = "idle" => row.role = NoRow
  /\ row.role = NoRow => row.pc \in {"idle", "blocked"} /\ row.proc = "none"
  /\ row.pc \in {"defined", "enqueued", "prepared", "frozen", "observed", "killed"} => row.role = "a"
  /\ row.pc \in {"read", "finished"} => row.role = "b"
  /\ row.pc \in {"defined", "enqueued", "prepared", "read", "spawning"} => row.proc = "none"
  /\ row.pc = "killed" => ~Lives(row)
  /\ row.proc = "none" => row.actor = "start"
  /\ row.proc = "exited" => row.role = "b"
  /\ row.actor \in ActorsOfA => row.role = "a"
  /\ row.actor \in ActorsOfB => row.role = "b"
  /\ row.role = "b" /\ row.actor \in ControlPoints => row.seen = HeldLease

\* What the phase of the run says of a job.
JobPhase(row, phase) ==
  /\ row.role = "a" => phase # "none"
  /\ row.pc \in {"defined", "enqueued"} => phase = "definition_persisted"
  /\ row.role = "a" /\ HasActor(row) => phase \notin {"none", "definition_persisted", "prepared"}
  /\ row.role = "a" /\ phase \in PhasesAfterA => ~Lives(row) /\ row.pc # "spawning"
  /\ row.role = "b" /\ HasActor(row) => phase \in PhasesOfB

\* There is one producer, and one consumer that was let past its transition.
OneOfEach(rows) ==
  \A j, k \in ContJobs :
    \/ rows[j].role = "a" /\ rows[k].role = "a"
    \/ rows[j].role = "b" /\ HasActor(rows[j]) /\ rows[k].role = "b" /\ HasActor(rows[k])
    => j = k

TreeInv ==
  /\ contJob \in [ContJobs -> ContRow]
  /\ DOMAIN contRow = RunColumns /\ contRow.phase \in ContPhases
  /\ \A j \in ContJobs : JobRow(contJob[j]) /\ JobPhase(contJob[j], contRow.phase)
  /\ OneOfEach(contJob)

\* The phases a job's transition can lead from and to.
PhaseStep(p, q) ==
  \/ q = p
  \/ p = "none" /\ q = "definition_persisted"
  \/ p = "definition_persisted" /\ q = "prepared"
  \/ p = "prepared" /\ q = "a_started"
  \/ p = "a_started" /\ q = "a_checkpoint_confirmed"
  \/ p = "a_checkpoint_confirmed" /\ q = "a_tree_terminated"
  \/ p = "a_tree_terminated" /\ q = "b_started"
  \/ p \in PhasesOfB /\ q \in PhasesOfB

LEMMA TreeImplies == TreeInv => OneActorTree
BY DEF TreeInv, OneActorTree, OneOfEach, JobRow, JobPhase, ContRow, HasActor, Lives, PhasesOfB,
       PhasesAfterA

LEMMA TreeInit == ContInit => TreeInv
BY ContAssumption
   DEF ContInit, TreeInv, OneOfEach, JobRow, JobPhase, ContRow, HasActor, Lives, PhasesOfB,
       PhasesAfterA, ContPhases, JobPoints, ActorsOfA, ActorsOfB, ControlPoints, RunColumns

\* The phase moves only by the job whose turn it is: what it says of another job
\* stays true.
LEMMA OtherJobs ==
  ASSUME TreeInv, NEW j \in ContJobs, NEW k \in ContJobs, k # j, NEW q, PhaseStep(contRow.phase, q),
         contRow.phase \in {"definition_persisted", "a_checkpoint_confirmed"} /\ q # contRow.phase
           => contJob[j].role = "a"
  PROVE  JobPhase(contJob[k], q)
BY DEF TreeInv, PhaseStep, JobPhase, JobRow, OneOfEach, HasActor, Lives, PhasesOfB, PhasesAfterA,
       ContPhases

\* One job's step, given what it does to that job's row.
LEMMA TreeStep ==
  ASSUME TreeInv, NEW j \in ContJobs, NEW row \in ContRow,
         contJob' = [contJob EXCEPT ![j] = row],
         DOMAIN contRow' = RunColumns,
         PhaseStep(contRow.phase, contRow.phase'),
         contRow.phase \in {"definition_persisted", "a_checkpoint_confirmed"}
           /\ contRow.phase' # contRow.phase => contJob[j].role = "a",
         JobRow(row), JobPhase(row, contRow.phase'),
         row.role = "a" => contJob[j].role = "a" \/ contRow.phase = "none",
         row.role = "b" /\ HasActor(row) =>
           \/ contJob[j].role = "b" /\ HasActor(contJob[j])
           \/ contRow.phase = "a_tree_terminated"
  PROVE  TreeInv'
<1>1. contRow.phase' \in ContPhases
  BY DEF TreeInv, PhaseStep, ContPhases, PhasesOfB, PhasesAfterA
<1>2. contJob' \in [ContJobs -> ContRow] /\ contJob'[j] = row
      /\ \A k \in ContJobs \ {j} : contJob'[k] = contJob[k]
  BY DEF TreeInv
<1>3. \A k \in ContJobs \ {j} : JobRow(contJob[k]) /\ JobPhase(contJob[k], contRow.phase')
  BY OtherJobs DEF TreeInv
<1>4. \A k \in ContJobs : JobRow(contJob'[k]) /\ JobPhase(contJob'[k], contRow.phase')
  BY <1>2, <1>3
<1>5. \A k \in ContJobs \ {j} : row.role = "a" => contJob[k].role # "a"
  BY DEF TreeInv, OneOfEach, JobPhase
<1>6. \A k \in ContJobs \ {j} :
        row.role = "b" /\ HasActor(row) => ~(contJob[k].role = "b" /\ HasActor(contJob[k]))
  BY DEF TreeInv, OneOfEach, JobPhase, PhasesOfB
<1>7. OneOfEach(contJob')
  BY <1>2, <1>5, <1>6 DEF TreeInv, OneOfEach
<1> QED BY <1>1, <1>2, <1>4, <1>7 DEF TreeInv

\* A step of job j that leaves the phase: what it may do to the job's row.
Calm(old, new, phase) ==
  /\ new \in ContRow /\ JobRow(new) /\ new.role = old.role
  /\ HasActor(new) => HasActor(old)
  /\ Lives(new) => Lives(old) \/ old.pc = "spawning"
  /\ new.pc \in {"spawning", "defined", "enqueued"} =>
       new.pc = old.pc \/ (old.pc = "defined" /\ new.pc = "enqueued")

LEMMA CalmStep ==
  ASSUME TreeInv, NEW j \in ContJobs, NEW row,
         contJob' = [contJob EXCEPT ![j] = row], contRow' = contRow, Calm(contJob[j], row, contRow.phase)
  PROVE  TreeInv'
<1>1. JobPhase(row, contRow.phase)
  BY DEF TreeInv, JobRow, JobPhase, Calm, HasActor, Lives, ContRow, PhasesAfterA
<1> QED BY <1>1, TreeStep DEF Calm, PhaseStep, TreeInv

ProcEnded(proc) == IF proc \in {"running", "frozen"} THEN "dead" ELSE proc

LEMMA EndedRow ==
  ASSUME TreeInv, NEW j \in ContJobs, NEW pc \in JobPoints, NEW s, s = JobEnds(j, pc)
  PROVE  /\ s \in ContRow /\ s.pc = pc /\ s.role = contJob[j].role
         /\ s.actor = contJob[j].actor /\ s.seen = contJob[j].seen
         /\ s.proc \in {"none", "dead", "exited"} /\ (s.proc = "none" <=> contJob[j].proc = "none")
         /\ s.proc = "exited" => contJob[j].proc = "exited"
<1> DEFINE r == contJob[j]
           proc == ProcEnded(r.proc)
<1>1. s = [r EXCEPT !.pc = pc, !.proc = proc]
  BY DEF JobEnds, ProcEnded
<1>2. r \in ContRow
  BY DEF TreeInv
<1>3. proc \in {"none", "dead", "exited"} /\ (proc = "none" <=> r.proc = "none")
      /\ (proc = "exited" => r.proc = "exited")
  BY <1>2 DEF ContRow, ProcEnded
<1> HIDE DEF proc, r
<1>4. proc \in {"none", "running", "frozen", "dead", "exited"}
  BY <1>3
<1>5. /\ s \in ContRow /\ s.pc = pc /\ s.proc = proc /\ s.role = r.role
      /\ s.actor = r.actor /\ s.seen = r.seen
  BY <1>1, <1>2, <1>4 DEF ContRow
<1> QED BY <1>3, <1>5 DEF r

LEMMA EndsIsCalm ==
  ASSUME TreeInv, NEW j \in ContJobs, NEW pc \in {"blocked", "killed"}, NEW s, s = JobEnds(j, pc),
         pc = "killed" => contJob[j].role = "a"
  PROVE  Calm(contJob[j], s, contRow.phase)
<1>1. contJob[j] \in ContRow /\ JobRow(contJob[j])
  BY DEF TreeInv
<1>2. /\ s \in ContRow /\ s.pc = pc /\ s.role = contJob[j].role
      /\ s.actor = contJob[j].actor /\ s.seen = contJob[j].seen
      /\ s.proc \in {"none", "dead", "exited"} /\ (s.proc = "none" <=> contJob[j].proc = "none")
      /\ s.proc = "exited" => contJob[j].proc = "exited"
  BY EndedRow DEF JobPoints
<1>3. JobRow(s)
  BY <1>1, <1>2, ContAssumption DEF JobRow, Lives
<1> QED
  BY <1>1, <1>2, <1>3 DEF Calm, HasActor, Lives

\* A refused transition ends the job.
LEMMA RefusedIsCalm ==
  ASSUME TreeInv, NEW j \in ContJobs, contRow' = contRow,
         contJob' = [contJob EXCEPT ![j] = JobEnds(j, "blocked")]
  PROVE  TreeInv'
BY EndsIsCalm, CalmStep

\* Steps of a job on its own.
LEMMA JobCalm ==
  ASSUME TreeInv, NEW j \in ContJobs,
         \/ EnqueueDefined(j) \/ SpawnActor(j) \/ Freeze(j) \/ Observe(j) \/ KillGroup(j)
         \/ ConsumerReads(j) \/ JobFails(j) \/ JobKilled(j)
  PROVE  TreeInv'
<1> DEFINE r == contJob[j]
<1>1. r \in ContRow /\ JobRow(r) /\ contJob \in [ContJobs -> ContRow]
  BY DEF TreeInv
<1>2. CASE EnqueueDefined(j)
  <2> DEFINE s == [r EXCEPT !.pc = "enqueued"]
  <2>1. Calm(r, s, contRow.phase)
    BY <1>1, <1>2 DEF EnqueueDefined, At, Calm, ContRow, JobRow, HasActor, Lives, JobPoints
  <2>2. contJob' = [contJob EXCEPT ![j] = s] /\ contRow' = contRow
    BY <1>1, <1>2 DEF EnqueueDefined, Step
  <2> QED BY <2>1, <2>2, CalmStep
<1>3. CASE SpawnActor(j)
  <2> DEFINE s == [r EXCEPT !.pc = "watching", !.proc = "running"]
  <2>1. Calm(r, s, contRow.phase)
    BY <1>1, <1>3, ContAssumption DEF SpawnActor, At, Calm, ContRow, JobRow, HasActor, Lives, JobPoints
  <2>2. contJob' = [contJob EXCEPT ![j] = s] /\ contRow' = contRow
    BY <1>1, <1>3 DEF SpawnActor
  <2> QED BY <2>1, <2>2, CalmStep
<1>4. CASE Freeze(j)
  <2> DEFINE s == [r EXCEPT !.pc = "frozen", !.proc = "frozen"]
  <2>1. Calm(r, s, contRow.phase)
    BY <1>1, <1>4 DEF Freeze, At, Calm, ContRow, JobRow, HasActor, Lives, JobPoints, ActorsOfA
  <2>2. contJob' = [contJob EXCEPT ![j] = s] /\ contRow' = contRow
    BY <1>1, <1>4 DEF Freeze
  <2> QED BY <2>1, <2>2, CalmStep
<1>5. CASE Observe(j)
  <2> DEFINE s == [r EXCEPT !.pc = "observed"]
  <2>1. Calm(r, s, contRow.phase)
    BY <1>1, <1>5 DEF Observe, At, Calm, ContRow, JobRow, HasActor, Lives, JobPoints
  <2>2. CASE CheckpointDurable
    BY <1>1, <1>5, <2>1, <2>2, CalmStep DEF Observe
  <2>3. CASE ~CheckpointDurable
    BY <1>1, <1>5, <2>3, RefusedIsCalm DEF Observe
  <2> QED BY <2>2, <2>3
<1>6. CASE KillGroup(j)
  <2>1. r.role = "a"
    BY <1>1, <1>6 DEF KillGroup, At, JobRow
  <2> QED BY <1>6, <2>1, EndsIsCalm, CalmStep DEF KillGroup
<1>7. CASE ConsumerReads(j)
  <2> DEFINE pc == IF contRow.phase = "a_tree_terminated" /\ contRow.producer # ContRunner[j]
                   THEN "read" ELSE "blocked"
             s == [r EXCEPT !.role = "b", !.pc = pc]
  <2>1. pc \in {"read", "blocked"}
    OBVIOUS
  <2>2. contJob' = [contJob EXCEPT ![j] = s] /\ contRow' = contRow
    BY <1>1, <1>7 DEF ConsumerReads
  <2> HIDE DEF pc
  <2>3. s \in ContRow /\ JobRow(s) /\ s.role = "b" /\ ~HasActor(s) /\ s.pc = pc
    BY <1>1, <1>7, <2>1, ContAssumption
       DEF ConsumerReads, At, ContRow, JobRow, HasActor, Lives, JobPoints, ActorsOfA, ActorsOfB,
           ControlPoints
  <2>4. JobPhase(s, contRow.phase)
    BY <2>1, <2>3 DEF JobPhase, TreeInv
  <2> QED BY <2>2, <2>3, <2>4, TreeStep DEF PhaseStep, TreeInv
<1>8. CASE JobFails(j)
  BY <1>8, RefusedIsCalm DEF JobFails
<1>9. CASE JobKilled(j)
  <2> DEFINE s == [r EXCEPT !.pc = "gone"]
  <2>1. Calm(r, s, contRow.phase)
    BY <1>1, <1>9, ContAssumption DEF JobKilled, Calm, ContRow, JobRow, HasActor, Lives, JobPoints
  <2>2. contJob' = [contJob EXCEPT ![j] = s] /\ contRow' = contRow
    BY <1>1, <1>9 DEF JobKilled, Step
  <2> QED BY <2>1, <2>2, CalmStep
<1> QED BY <1>2, <1>3, <1>4, <1>5, <1>6, <1>7, <1>8, <1>9

\* The transitions of the jobs' main programs.
LEMMA JobTransitions ==
  ASSUME TreeInv, NEW j \in ContJobs,
         \/ Define(j) \/ Prepared(j) \/ ProducerStarts(j) \/ TreeTerminated(j) \/ TakeOver(j)
         \/ ConsumerFinishes(j) \/ IndependentReader(j)
  PROVE  TreeInv'
<1> DEFINE r == contJob[j]
<1> USE ContAssumption
<1>1. /\ r \in ContRow /\ JobRow(r) /\ JobPhase(r, contRow.phase) /\ contJob \in [ContJobs -> ContRow]
      /\ DOMAIN contRow = RunColumns
  BY DEF TreeInv
<1>2. CASE Define(j)
  <2>1. CASE contRow.phase = "none"
    <3> DEFINE s == [r EXCEPT !.role = "a", !.pc = "defined"]
    <3>1. contJob' = [contJob EXCEPT ![j] = s]
      BY <1>1, <1>2, <2>1 DEF Define
    <3>2. contRow'.phase = "definition_persisted" /\ DOMAIN contRow' = RunColumns
      BY <1>1, <1>2, <2>1 DEF Define, RunColumns
    <3>3. s \in ContRow /\ JobRow(s) /\ s.role = "a" /\ s.pc = "defined" /\ ~HasActor(s)
      BY <1>1, <1>2 DEF Define, At, ContRow, JobRow, HasActor, Lives, JobPoints, ActorsOfA, ActorsOfB,
                        ControlPoints
    <3>4. JobPhase(s, contRow'.phase)
      BY <3>2, <3>3 DEF JobPhase, PhasesAfterA, PhasesOfB
    <3> QED BY <2>1, <3>1, <3>2, <3>3, <3>4, TreeStep DEF PhaseStep
  <2>2. CASE contRow.phase # "none"
    <3> DEFINE s == [r EXCEPT !.pc = "blocked"]
    <3>1. contJob' = [contJob EXCEPT ![j] = s] /\ contRow' = contRow
      BY <1>1, <1>2, <2>2 DEF Define, Step
    <3>2. Calm(r, s, contRow.phase)
      BY <1>1, <1>2 DEF Define, At, Calm, ContRow, JobRow, HasActor, Lives, JobPoints
    <3> QED BY <3>1, <3>2, CalmStep
  <2> QED BY <2>1, <2>2
<1>3. CASE Prepared(j)
  <2> DEFINE s == [r EXCEPT !.pc = "prepared"]
  <2>1. CASE contRow.phase = "definition_persisted"
    <3>1. contJob' = [contJob EXCEPT ![j] = s]
      BY <1>1, <1>3, <2>1 DEF Prepared, Advance, TransitionAllowed
    <3>2. contRow'.phase = "prepared" /\ DOMAIN contRow' = RunColumns
      BY <1>1, <1>3, <2>1 DEF Prepared, Advance, TransitionAllowed, ToPhase, RunColumns
    <3>3. s \in ContRow /\ JobRow(s) /\ s.role = "a" /\ s.pc = "prepared" /\ ~HasActor(s) /\ r.role = "a"
      BY <1>1, <1>3 DEF Prepared, At, ContRow, JobRow, HasActor, Lives, JobPoints
    <3>4. JobPhase(s, contRow'.phase)
      BY <3>2, <3>3 DEF JobPhase, PhasesAfterA, PhasesOfB
    <3> QED BY <2>1, <3>1, <3>2, <3>3, <3>4, TreeStep DEF PhaseStep
  <2>2. CASE contRow.phase # "definition_persisted"
    BY <1>3, <2>2, RefusedIsCalm DEF Prepared, Advance, TransitionAllowed
  <2> QED BY <2>1, <2>2
<1>4. CASE ProducerStarts(j)
  <2> DEFINE s == [r EXCEPT !.pc = "spawning"]
  <2>1. CASE contRow.phase = "prepared"
    <3>1. contJob' = [contJob EXCEPT ![j] = s]
      BY <1>1, <1>4, <2>1 DEF ProducerStarts, Advance, TransitionAllowed
    <3>2. contRow'.phase = "a_started" /\ DOMAIN contRow' = RunColumns
      BY <1>1, <1>4, <2>1 DEF ProducerStarts, Advance, TransitionAllowed, ToPhase, RunColumns
    <3>3. s \in ContRow /\ JobRow(s) /\ s.role = "a" /\ s.pc = "spawning" /\ ~Lives(s) /\ r.role = "a"
      BY <1>1, <1>4 DEF ProducerStarts, At, ContRow, JobRow, HasActor, Lives, JobPoints
    <3>4. JobPhase(s, contRow'.phase)
      BY <3>2, <3>3 DEF JobPhase, PhasesAfterA, PhasesOfB
    <3> QED BY <2>1, <3>1, <3>2, <3>3, <3>4, TreeStep DEF PhaseStep
  <2>2. CASE contRow.phase # "prepared"
    BY <1>4, <2>2, RefusedIsCalm DEF ProducerStarts, Advance, TransitionAllowed
  <2> QED BY <2>1, <2>2
<1>5. CASE TreeTerminated(j)
  <2> DEFINE s == [r EXCEPT !.pc = "done"]
  <2>1. CASE contRow.phase = "a_checkpoint_confirmed"
    <3>1. contJob' = [contJob EXCEPT ![j] = s]
      BY <1>1, <1>5, <2>1 DEF TreeTerminated, Advance, TransitionAllowed
    <3>2. contRow'.phase = "a_tree_terminated" /\ DOMAIN contRow' = RunColumns
      BY <1>1, <1>5, <2>1 DEF TreeTerminated, Advance, TransitionAllowed, ToPhase, RunColumns
    <3>3. s \in ContRow /\ JobRow(s) /\ s.role = "a" /\ s.pc = "done" /\ ~Lives(s) /\ r.role = "a"
      BY <1>1, <1>5 DEF TreeTerminated, At, ContRow, JobRow, HasActor, Lives, JobPoints
    <3>4. JobPhase(s, contRow'.phase)
      BY <3>2, <3>3 DEF JobPhase, PhasesAfterA, PhasesOfB
    <3> QED BY <2>1, <3>1, <3>2, <3>3, <3>4, TreeStep DEF PhaseStep
  <2>2. CASE contRow.phase # "a_checkpoint_confirmed"
    BY <1>5, <2>2, RefusedIsCalm DEF TreeTerminated, Advance, TransitionAllowed
  <2> QED BY <2>1, <2>2
<1>6. CASE TakeOver(j)
  <2> DEFINE s == [r EXCEPT !.pc = "spawning"]
  <2>1. CASE contRow.phase = "a_tree_terminated"
    <3>1. contJob' = [contJob EXCEPT ![j] = s]
      BY <1>1, <1>6, <2>1 DEF TakeOver, Advance, TransitionAllowed
    <3>2. contRow'.phase = "b_started" /\ DOMAIN contRow' = RunColumns
      BY <1>1, <1>6, <2>1 DEF TakeOver, Advance, TransitionAllowed, ToPhase, RunColumns
    <3>3. s \in ContRow /\ JobRow(s) /\ s.role = "b" /\ s.pc = "spawning" /\ r.role = "b"
      BY <1>1, <1>6 DEF TakeOver, At, ContRow, JobRow, HasActor, Lives, JobPoints
    <3>4. JobPhase(s, contRow'.phase)
      BY <3>2, <3>3 DEF JobPhase, PhasesAfterA, PhasesOfB
    <3> QED BY <2>1, <3>1, <3>2, <3>3, <3>4, TreeStep DEF PhaseStep
  <2>2. CASE contRow.phase # "a_tree_terminated"
    BY <1>6, <2>2, RefusedIsCalm DEF TakeOver, Advance, TransitionAllowed
  <2> QED BY <2>1, <2>2
<1>7. CASE ConsumerFinishes(j)
  <2> DEFINE s == [r EXCEPT !.pc = "finished"]
  <2>1. CASE contRow.phase = "b_started"
    <3>1. contJob' = [contJob EXCEPT ![j] = s]
      BY <1>1, <1>7, <2>1 DEF ConsumerFinishes, Advance, TransitionAllowed
    <3>2. contRow'.phase = "b_finished" /\ DOMAIN contRow' = RunColumns
      BY <1>1, <1>7, <2>1 DEF ConsumerFinishes, Advance, TransitionAllowed, ToPhase, RunColumns
    <3>3. r.role = "b"
      BY <1>1, <1>7 DEF ConsumerFinishes, At, ContRow, JobRow
    <3>4. s \in ContRow /\ JobRow(s) /\ s.role = "b" /\ s.pc = "finished" /\ HasActor(r)
      BY <1>1, <1>7, <3>3 DEF ConsumerFinishes, At, ContRow, JobRow, HasActor, Lives, JobPoints
    <3>5. JobPhase(s, contRow'.phase)
      BY <3>2, <3>4 DEF JobPhase, PhasesAfterA, PhasesOfB
    <3> QED BY <2>1, <3>1, <3>2, <3>3, <3>4, <3>5, TreeStep DEF PhaseStep, PhasesOfB
  <2>2. CASE contRow.phase # "b_started"
    BY <1>7, <2>2, RefusedIsCalm DEF ConsumerFinishes, Advance, TransitionAllowed
  <2> QED BY <2>1, <2>2
<1>8. CASE IndependentReader(j)
  <2> DEFINE s == [r EXCEPT !.pc = "done"]
  <2>1. contRow.phase = "b_finished"
    BY <1>8 DEF IndependentReader
  <2>2. contJob' = [contJob EXCEPT ![j] = s]
    BY <1>1, <1>8, <2>1 DEF IndependentReader, Advance, TransitionAllowed
  <2>3. contRow'.phase = "verified" /\ DOMAIN contRow' = RunColumns
    BY <1>1, <1>8, <2>1 DEF IndependentReader, Advance, TransitionAllowed, ToPhase, RunColumns
  <2>4. s \in ContRow /\ JobRow(s) /\ s.role = "b" /\ s.pc = "done" /\ r.role = "b"
        /\ (HasActor(s) => HasActor(r))
    BY <1>1, <1>8 DEF IndependentReader, At, ContRow, JobRow, HasActor, Lives, JobPoints
  <2>5. JobPhase(s, contRow'.phase)
    BY <2>3, <2>4 DEF JobPhase, PhasesAfterA, PhasesOfB
  <2> QED BY <2>1, <2>2, <2>3, <2>4, <2>5, TreeStep DEF PhaseStep, PhasesOfB
<1> QED BY <1>2, <1>3, <1>4, <1>5, <1>6, <1>7, <1>8

\* An actor goes on at a point of its own role.
LEMMA ActorStepCalm ==
  ASSUME TreeInv, NEW j \in ContJobs, NEW role \in {"a", "b"},
         NEW pc \in {"committed"} \cup (IF role = "a" THEN ActorsOfA ELSE ActorsOfB),
         contJob[j].role = role, contJob[j].proc = "running",
         pc \in ControlPoints => contJob[j].seen = HeldLease,
         ActorStep(j, pc), contRow' = contRow
  PROVE  TreeInv'
<1> DEFINE r == contJob[j]
           s == [r EXCEPT !.actor = pc]
<1>1. r \in ContRow /\ JobRow(r) /\ contJob \in [ContJobs -> ContRow]
  BY DEF TreeInv
<1>2. contJob' = [contJob EXCEPT ![j] = s]
  BY <1>1 DEF ActorStep
<1>3. /\ s \in ContRow /\ s.role = r.role /\ s.pc = r.pc /\ s.proc = r.proc /\ s.actor = pc
      /\ s.seen = r.seen
  BY <1>1 DEF ContRow
<1>4. JobRow(s)
  BY <1>1, <1>3, ContAssumption DEF JobRow, Lives, ActorsOfA, ActorsOfB, ControlPoints
<1> QED BY <1>2, <1>3, <1>4, CalmStep DEF Calm, HasActor, Lives

\* The actors' steps that end nothing.
LEMMA ActorCalm ==
  ASSUME TreeInv, NEW j \in ContJobs,
         \/ ProducerClaims(j) \/ RecordPending(j) \/ PublishArtifact(j) \/ GateProducer(j)
         \/ WriteBarrier(j) \/ AwaitRecovery(j) \/ ConsumerClaims(j) \/ GateConsumer(j)
         \/ LateRenewals(j) \/ LateEffects(j) \/ ApplyEffect(j) \/ ReplayEffect(j)
         \/ SubmitValidation(j) \/ ValidatorClaims(j) \/ ValidatorCheckpoint(j)
  PROVE  TreeInv'
<1>1. JobRow(contJob[j])
  BY DEF TreeInv
<1>2. \A pc \in {"committed"} \cup ActorsOfA :
        /\ contJob[j].role = "a" /\ contJob[j].proc = "running" /\ ActorStep(j, pc) /\ contRow' = contRow
        => TreeInv'
  BY ActorStepCalm DEF ActorsOfA, ControlPoints
<1>3. \A pc \in {"committed"} \cup ActorsOfB :
        /\ contJob[j].role = "b" /\ contJob[j].proc = "running" /\ ActorStep(j, pc) /\ contRow' = contRow
        /\ (pc \in ControlPoints => contJob[j].actor \in ControlPoints)
        => TreeInv'
  BY <1>1, ActorStepCalm DEF JobRow
<1>4. CASE ProducerClaims(j)
  BY <1>2, <1>4 DEF ProducerClaims, Working, ActorAt, ActorsOfA
<1>5. CASE RecordPending(j)
  BY <1>2, <1>5 DEF RecordPending, Working, ActorAt, ActorsOfA
<1>6. CASE PublishArtifact(j)
  BY <1>2, <1>6 DEF PublishArtifact, Working, ActorAt, ActorsOfA
<1>7. CASE GateProducer(j)
  BY <1>2, <1>7 DEF GateProducer, Working, ActorAt
<1>8. CASE WriteBarrier(j)
  BY <1>2, <1>8 DEF WriteBarrier, ActorAt, ActorsOfA
<1>9. CASE AwaitRecovery(j)
  BY <1>3, <1>9 DEF AwaitRecovery, Working, ActorAt, ActorsOfB, ControlPoints
<1>10. CASE ConsumerClaims(j)
  BY <1>3, <1>10 DEF ConsumerClaims, Working, ActorAt, ActorsOfB, ControlPoints
<1>11. CASE GateConsumer(j)
  BY <1>3, <1>11 DEF GateConsumer, Working, ActorAt, ControlPoints
<1>12. CASE LateRenewals(j)
  <2>1. \E pc \in {"unrenewed", "refused"} : ActorStep(j, pc)
    BY <1>12 DEF LateRenewals
  <2> QED BY <1>3, <1>12, <2>1 DEF LateRenewals, ActorAt, ActorsOfB, ControlPoints
<1>13. CASE LateEffects(j)
  <2>1. \E pc \in {"rejected", "refused"} : ActorStep(j, pc)
    BY <1>13 DEF LateEffects
  <2> QED BY <1>3, <1>13, <2>1 DEF LateEffects, ActorAt, ActorsOfB, ControlPoints
<1>14. CASE ApplyEffect(j)
  <2>1. \E pc \in {"applied", "refused"} : ActorStep(j, pc)
    BY <1>14 DEF ApplyEffect
  <2> QED BY <1>3, <1>14, <2>1 DEF ApplyEffect, ActorAt, ActorsOfB, ControlPoints
<1>15. CASE ReplayEffect(j)
  <2>1. \E pc \in {"answered", "refused"} : ActorStep(j, pc)
    BY <1>15 DEF ReplayEffect
  <2> QED BY <1>3, <1>15, <2>1 DEF ReplayEffect, ActorAt, ActorsOfB, ControlPoints
<1>16. CASE SubmitValidation(j)
  BY <1>3, <1>16 DEF SubmitValidation, Working, ActorAt, ActorsOfB, ControlPoints
<1>17. CASE ValidatorClaims(j)
  BY <1>3, <1>17 DEF ValidatorClaims, Working, ActorAt, ActorsOfB, ControlPoints
<1>18. CASE ValidatorCheckpoint(j)
  BY <1>3, <1>18 DEF ValidatorCheckpoint, Working, ActorAt, ActorsOfB, ControlPoints
<1> QED
  BY <1>4, <1>5, <1>6, <1>7, <1>8, <1>9, <1>10, <1>11, <1>12, <1>13, <1>14, <1>15, <1>16, <1>17, <1>18

\* The steps that end an actor or its executor, the transition of the gate, and
\* the first of the controls.
LEMMA ActorEnds ==
  ASSUME TreeInv, NEW j \in ContJobs,
         \/ PersistACheckpoint(j) \/ ControlsRead(j) \/ ValidatorCompletes(j) \/ PublishAmbiguous(j)
         \/ ExecutorGivesUp(j) \/ ServiceEnds(j) \/ RecoverLease(j)
  PROVE  TreeInv'
<1> DEFINE r == contJob[j]
<1>1. /\ r \in ContRow /\ JobRow(r) /\ JobPhase(r, contRow.phase)
      /\ contJob \in [ContJobs -> ContRow] /\ DOMAIN contRow = RunColumns
  BY DEF TreeInv
<1>2. CASE PersistACheckpoint(j)
  <2> DEFINE s == [r EXCEPT !.actor = "persisted"]
  <2>1. CASE contRow.phase = "a_started"
    <3>1. contJob' = [contJob EXCEPT ![j] = s]
      BY <1>1, <1>2, <2>1 DEF PersistACheckpoint, Advance, TransitionAllowed
    <3>2. contRow'.phase = "a_checkpoint_confirmed" /\ DOMAIN contRow' = RunColumns
      BY <1>1, <1>2, <2>1 DEF PersistACheckpoint, Advance, TransitionAllowed, ToPhase, RunColumns
    <3>3. /\ s \in ContRow /\ s.role = "a" /\ s.pc = r.pc /\ s.proc = r.proc /\ s.proc = "running"
          /\ s.actor = "persisted" /\ r.role = "a"
      BY <1>1, <1>2 DEF PersistACheckpoint, ActorAt, ContRow, ActorsOfA
    <3>4. JobRow(s)
      BY <1>1, <3>3, ContAssumption DEF JobRow, Lives, ActorsOfA, ActorsOfB, ControlPoints
    <3>5. JobPhase(s, contRow'.phase)
      BY <1>1, <2>1, <3>2, <3>3 DEF JobPhase, HasActor, PhasesAfterA, PhasesOfB
    <3> QED BY <2>1, <3>1, <3>2, <3>3, <3>4, <3>5, TreeStep DEF PhaseStep
  <2>2. CASE contRow.phase # "a_started"
    BY <1>2, <2>2, RefusedIsCalm DEF PersistACheckpoint, Advance, TransitionAllowed
  <2> QED BY <2>1, <2>2
<1>3. CASE ControlsRead(j)
  <2> DEFINE G == /\ contRow.phase = "b_started" /\ contTask.state = "running"
                  /\ contTask.holder = "builder-b" /\ contTask.gen = 2
                  /\ Last(contCheckpoints).gen = 2 /\ Last(contCheckpoints).artifact = contRow.artifact
  <2>1. CASE G
    <3> DEFINE s == [r EXCEPT !.actor = "controls", !.seen = LeaseFields]
    <3>1. contJob' = [contJob EXCEPT ![j] = s] /\ contRow' = contRow
      BY <1>1, <1>3, <2>1 DEF ControlsRead
    <3>2. LeaseFields = HeldLease
      BY <2>1 DEF LeaseFields, HeldLease
    <3>3. /\ s \in ContRow /\ s.role = "b" /\ s.pc = r.pc /\ s.proc = r.proc /\ s.proc = "running"
          /\ s.actor = "controls" /\ s.seen = HeldLease /\ r.role = "b"
      BY <1>1, <1>3, <3>2 DEF ControlsRead, ActorAt, ContRow, ActorsOfB, ControlPoints
    <3>4. JobRow(s)
      BY <1>1, <3>3, ContAssumption DEF JobRow, Lives, ActorsOfA, ActorsOfB, ControlPoints
    <3> QED BY <3>1, <3>3, <3>4, CalmStep DEF Calm, HasActor, Lives
  <2>2. CASE ~G
    <3>1. ActorStep(j, "refused") /\ contRow' = contRow /\ r.role = "b" /\ r.proc = "running"
      BY <1>3, <2>2 DEF ControlsRead, ActorAt
    <3> QED BY <3>1, ActorStepCalm DEF ActorsOfB, ControlPoints
  <2> QED BY <2>1, <2>2
<1>4. CASE ValidatorCompletes(j)
  <2> DEFINE s == [r EXCEPT !.actor = "done", !.proc = "exited"]
  <2>1. contJob' = [contJob EXCEPT ![j] = s] /\ contRow' = contRow
    BY <1>1, <1>4 DEF ValidatorCompletes
  <2>2. /\ s \in ContRow /\ s.role = "b" /\ s.pc = r.pc /\ s.proc = "exited" /\ s.actor = "done"
        /\ r.role = "b" /\ r.proc = "running"
    BY <1>1, <1>4 DEF ValidatorCompletes, Working, ActorAt, ContRow, ActorsOfB
  <2>3. JobRow(s)
    BY <1>1, <2>2, ContAssumption DEF JobRow, Lives, ActorsOfA, ActorsOfB, ControlPoints
  <2> QED BY <2>1, <2>2, <2>3, CalmStep DEF Calm, HasActor, Lives
<1>5. CASE PublishAmbiguous(j) \/ ExecutorGivesUp(j)
  <2> DEFINE s == [r EXCEPT !.gaveUp = TRUE]
  <2>1. contJob' = [contJob EXCEPT ![j] = s] /\ contRow' = contRow
    BY <1>1, <1>5 DEF PublishAmbiguous, ExecutorGivesUp
  <2>2. /\ s \in ContRow /\ s.role = r.role /\ s.pc = r.pc /\ s.proc = r.proc /\ s.actor = r.actor
        /\ s.seen = r.seen
    BY <1>1 DEF ContRow
  <2>3. JobRow(s)
    BY <1>1, <2>2 DEF JobRow, Lives
  <2> QED BY <2>1, <2>2, <2>3, CalmStep DEF Calm, HasActor, Lives
<1>6. CASE ServiceEnds(j)
  <2> DEFINE s == [r EXCEPT !.proc = "dead"]
  <2>1. contJob' = [contJob EXCEPT ![j] = s] /\ contRow' = contRow
    BY <1>1, <1>6 DEF ServiceEnds
  <2>2. /\ s \in ContRow /\ s.role = r.role /\ s.pc = r.pc /\ s.proc = "dead" /\ s.actor = r.actor
        /\ s.seen = r.seen /\ r.proc = "running"
    BY <1>1, <1>6 DEF ServiceEnds, ContRow
  <2>3. JobRow(s)
    BY <1>1, <2>2 DEF JobRow, Lives
  <2> QED BY <2>1, <2>2, <2>3, CalmStep DEF Calm, HasActor, Lives
<1>7. CASE RecoverLease(j)
  BY <1>7 DEF RecoverLease, TreeInv, OneOfEach, HasActor
<1> QED BY <1>2, <1>3, <1>4, <1>5, <1>6, <1>7

LEMMA TreeNext == TreeInv /\ [ContNext]_contVars => TreeInv'
<1> SUFFICES ASSUME TreeInv, [ContNext]_contVars PROVE TreeInv'
  OBVIOUS
<1>1. CASE LeaseRunsOut \/ UNCHANGED contVars
  BY <1>1 DEF LeaseRunsOut, contVars, TreeInv, OneOfEach, HasActor
<1>2. ASSUME NEW j \in ContJobs,
             \/ EnqueueDefined(j) \/ SpawnActor(j) \/ Freeze(j) \/ Observe(j) \/ KillGroup(j)
             \/ ConsumerReads(j) \/ JobFails(j) \/ JobKilled(j)
      PROVE  TreeInv'
  BY <1>2, JobCalm
<1>3. ASSUME NEW j \in ContJobs,
             \/ Define(j) \/ Prepared(j) \/ ProducerStarts(j) \/ TreeTerminated(j) \/ TakeOver(j)
             \/ ConsumerFinishes(j) \/ IndependentReader(j)
      PROVE  TreeInv'
  BY <1>3, JobTransitions
<1>4. ASSUME NEW j \in ContJobs,
             \/ ProducerClaims(j) \/ RecordPending(j) \/ PublishArtifact(j) \/ GateProducer(j)
             \/ WriteBarrier(j) \/ AwaitRecovery(j) \/ ConsumerClaims(j) \/ GateConsumer(j)
             \/ LateRenewals(j) \/ LateEffects(j) \/ ApplyEffect(j) \/ ReplayEffect(j)
             \/ SubmitValidation(j) \/ ValidatorClaims(j) \/ ValidatorCheckpoint(j)
      PROVE  TreeInv'
  BY <1>4, ActorCalm
<1>5. ASSUME NEW j \in ContJobs,
             \/ PersistACheckpoint(j) \/ ControlsRead(j) \/ ValidatorCompletes(j)
             \/ PublishAmbiguous(j) \/ ExecutorGivesUp(j) \/ ServiceEnds(j) \/ RecoverLease(j)
      PROVE  TreeInv'
  BY <1>5, ActorEnds
<1> QED BY <1>1, <1>2, <1>3, <1>4, <1>5 DEF ContNext

\* The run has one process tree at a time (transition, kill_group and spawn_actor
\* of native_shared_continuity.py), for any number of jobs started with its key,
\* whichever of them fail or are killed and when.
THEOREM OneTree == ContSpec => []OneActorTree
<1>1. ContInit => TreeInv
  BY TreeInit
<1>2. TreeInv /\ [ContNext]_contVars => TreeInv'
  BY TreeNext
<1>3. TreeInv => OneActorTree
  BY TreeImplies
<1> QED BY <1>1, <1>2, <1>3, PTL DEF ContSpec

-----------------------------------------------------------------------------
\* The pool: the attempts are the generations, only a held task has an attempt
\* to end, and a task that waits for its second generation with the error of a
\* recovery has its first attempt ended as recovered.
TaskStates == {"none", "queued", "running", "validating", "blocked", "completed"}
Ends == {NoRow, "lease_expired_recovered", "validation_handoff", "completed", "blocked",
         "failed_attempt", "adapter_failed", "effect_reconciliation_required"}
Workers == {NoRow, "builder-a", "builder-b", "validator-b"}
Attempt == [worker : Workers, end : Ends]
Stages == {"artifact_publish", "builder_result", "validator_result"}
EffectStates == {"none", "pending", "unknown", "confirmed"}
CheckpointRow == [gen : Nat, stage : Stages, effect : EffectStates, artifact : {1, NoRow}]
TaskRow == [state : TaskStates, gen : Nat, holder : Workers, live : BOOLEAN, error : Ends,
            produced : {1, NoRow}]

Recovered == "lease_expired_recovered"
Free(task) == ~task.live /\ task.holder = NoRow
FirstRecovered(attempts) == attempts[1].end = Recovered

History(task, attempts) ==
  /\ task \in TaskRow /\ attempts \in Seq(Attempt) /\ Len(attempts) = task.gen
  /\ task.live => task.holder # NoRow
  /\ task.holder # NoRow => task.gen > 0 /\ task.state \in {"running", "validating"}
  /\ task.state = "queued" /\ task.gen = 1 /\ task.error = Recovered => FirstRecovered(attempts)

\* What a step may do to the pool once the first attempt is over.
PoolStep(t, hs, u, bs) ==
  /\ History(u, bs)
  /\ u.gen \in {t.gen, t.gen + 1}
  /\ t.gen > 1 \/ (t.gen = 1 /\ Free(t)) => bs[1] = hs[1]
  /\ t.gen = 1 /\ Free(t) /\ u.gen = 1 => Free(u)
  /\ t.state = "completed" => u.state = "completed"

EndLast(hs, end) == [hs EXCEPT ![Len(hs)].end = end]
AddAttempt(hs, worker) == Append(hs, [worker |-> worker, end |-> NoRow])

LEMMA LastEnded ==
  ASSUME NEW hs \in Seq(Attempt), Len(hs) > 0, NEW end \in Ends
  PROVE  LET bs == EndLast(hs, end) IN
         /\ bs \in Seq(Attempt) /\ Len(bs) = Len(hs)
         /\ Len(hs) = 1 => bs[1].end = end
         /\ Len(hs) > 1 => bs[1] = hs[1]
<1> DEFINE n == Len(hs)
           e == [hs[n] EXCEPT !.end = end]
           bs == [hs EXCEPT ![n] = e]
<1>1. n \in Nat /\ n > 0 /\ n \in 1 .. Len(hs)
  OBVIOUS
<1>2. hs[n] \in Attempt
  BY <1>1
<1>3. e \in Attempt /\ e.end = end
  BY <1>2 DEF Attempt
<1>4. EndLast(hs, end) = bs
  BY DEF EndLast
<1> HIDE DEF e
<1>5. bs \in Seq(Attempt) /\ Len(bs) = Len(hs) /\ bs[n] = e
  BY <1>1, <1>3
<1>6. n > 1 => bs[1] = hs[1]
  <2>1. \A i \in DOMAIN hs : i # n => bs[i] = hs[i]
    OBVIOUS
  <2>2. DOMAIN hs = 1 .. n /\ n \in Nat
    BY <1>1
  <2>3. \A m \in Nat : m > 1 => 1 \in 1 .. m /\ 1 # m
    OBVIOUS
  <2> HIDE DEF bs, n
  <2> QED BY <2>1, <2>2, <2>3
<1> QED BY <1>3, <1>4, <1>5, <1>6

LEMMA AttemptAdded ==
  ASSUME NEW hs \in Seq(Attempt), NEW worker \in Workers
  PROVE  LET bs == AddAttempt(hs, worker) IN
         /\ bs \in Seq(Attempt) /\ Len(bs) = Len(hs) + 1
         /\ Len(hs) > 0 => bs[1] = hs[1]
<1> DEFINE e == [worker |-> worker, end |-> NoRow]
<1>1. e \in Attempt
  BY DEF Attempt, Ends
<1>2. AddAttempt(hs, worker) = Append(hs, e)
  BY DEF AddAttempt
<1> HIDE DEF e
<1> QED BY <1>1, <1>2

TaskReleased(t, state, error) ==
  [t EXCEPT !.state = state, !.holder = NoRow, !.live = FALSE, !.error = error]
TaskClaimed(t, state, worker) ==
  [t EXCEPT !.state = state, !.gen = t.gen + 1, !.holder = worker, !.live = TRUE]

LEMMA ReleaseKeeps ==
  ASSUME NEW t, NEW hs, History(t, hs), t.holder # NoRow,
         NEW state \in TaskStates \ {"running"}, NEW error \in Ends, NEW end \in Ends,
         state = "queued" /\ error = Recovered => end = Recovered
  PROVE  PoolStep(t, hs, TaskReleased(t, state, error), EndLast(hs, end))
<1> DEFINE u == TaskReleased(t, state, error)
           bs == EndLast(hs, end)
<1>1. /\ t \in TaskRow /\ hs \in Seq(Attempt) /\ Len(hs) = t.gen /\ t.gen > 0 /\ t.gen \in Nat
      /\ t.state \in {"running", "validating"}
  BY DEF History, TaskRow
<1>2. /\ bs \in Seq(Attempt) /\ Len(bs) = t.gen
      /\ (t.gen = 1 => bs[1].end = end) /\ (t.gen > 1 => bs[1] = hs[1])
  BY <1>1, LastEnded
<1>3. u \in TaskRow
  BY <1>1 DEF TaskRow, Workers, TaskReleased
<1>4. u.gen = t.gen /\ u.state = state /\ u.error = error /\ u.holder = NoRow /\ u.live = FALSE
  BY <1>1 DEF TaskRow, TaskReleased
<1> HIDE DEF u, bs
<1>5. History(u, bs)
  BY <1>1, <1>2, <1>3, <1>4 DEF History, FirstRecovered
<1>6. PoolStep(t, hs, u, bs)
  BY <1>1, <1>2, <1>4, <1>5 DEF PoolStep, Free
<1> QED BY <1>6 DEF u, bs

LEMMA ClaimKeeps ==
  ASSUME NEW t, NEW hs, History(t, hs), t.holder = NoRow, t.state \in {"queued", "validating"},
         NEW state \in {"running", "validating"}, NEW worker \in Workers \ {NoRow}
  PROVE  PoolStep(t, hs, TaskClaimed(t, state, worker), AddAttempt(hs, worker))
<1> DEFINE u == TaskClaimed(t, state, worker)
           bs == AddAttempt(hs, worker)
           n == t.gen + 1
<1>1. t \in TaskRow /\ hs \in Seq(Attempt) /\ Len(hs) = t.gen /\ t.gen \in Nat
  BY DEF History, TaskRow
<1>2. bs \in Seq(Attempt) /\ Len(bs) = n /\ (t.gen > 0 => bs[1] = hs[1])
  BY <1>1, AttemptAdded
<1>3. n \in Nat /\ n > 0 /\ n # t.gen /\ (n = 1 <=> t.gen = 0)
  BY <1>1
<1>4. u = [t EXCEPT !.state = state, !.gen = n, !.holder = worker, !.live = TRUE]
  BY DEF TaskClaimed
<1>5. n = t.gen + 1
  OBVIOUS
<1> HIDE DEF u, bs, n
<1>6. u \in TaskRow
  BY <1>1, <1>3, <1>4 DEF TaskRow, TaskStates
<1>7. u.gen = n /\ u.state = state /\ u.holder = worker /\ u.live = TRUE
  BY <1>1, <1>3, <1>4 DEF TaskRow
<1>8. History(u, bs)
  BY <1>2, <1>3, <1>6, <1>7 DEF History
<1>9. PoolStep(t, hs, u, bs)
  BY <1>1, <1>2, <1>3, <1>5, <1>7, <1>8 DEF PoolStep, Free
<1> QED BY <1>9 DEF u, bs

LEMMA LastIsRow ==
  ASSUME NEW log \in Seq(CheckpointRow), log # << >>
  PROVE  Last(log) \in CheckpointRow /\ Last(log).artifact \in {1, NoRow}
<1>1. Last(log) = log[Len(log)] /\ Len(log) \in 1 .. Len(log)
  BY DEF Last
<1>2. Last(log) \in CheckpointRow
  BY <1>1
<1> QED BY <1>2 DEF CheckpointRow

LEMMA PoolRests ==
  ASSUME NEW t, NEW hs, History(t, hs)
  PROVE  PoolStep(t, hs, t, hs)
BY DEF PoolStep, History, TaskRow

-----------------------------------------------------------------------------
ConfirmedPhases == {"a_checkpoint_confirmed"} \cup PhasesAfterA

\* What the run's row says of the artifact and of the lease that was lost.
RunRow(row, log) ==
  /\ row.phase \in ConfirmedPhases => row.stale = LostLease /\ row.artifact \in {1, NoRow} /\ log # << >>
  /\ row.phase \in PhasesAfterA => row.produced = row.artifact

\* Before the definition is enqueued nobody can have claimed the task.
Unclaimed(row, task) ==
  row.phase \in {"none", "definition_persisted"} =>
    task.gen = 0 /\ task.holder = NoRow /\ task.state \in {"none", "queued"}

\* A consumer's actor past its wait has seen the first attempt recovered, and
\* the producer's lease cannot come back.
Following(row, task, attempts) ==
  row.role = "b" /\ row.actor # "start" =>
    /\ task.gen > 0 /\ FirstRecovered(attempts)
    /\ task.gen = 1 => Free(task)
Committed(row, log) == row.role = "a" /\ row.actor = "committed" => log # << >>

SinkOK(sink, row, task, attempts) ==
  sink # NoRow =>
    /\ row.phase \in PhasesOfB
    /\ sink = SinkRow(HeldLease, row.artifact)
    /\ task.gen > 1 /\ FirstRecovered(attempts)

Verified(row, sink, task) == row.phase = "verified" => sink # NoRow /\ task.state = "completed"

SuccInv ==
  /\ TreeInv
  /\ History(contTask, contAttempts) /\ contCheckpoints \in Seq(CheckpointRow)
  /\ RunRow(contRow, contCheckpoints) /\ Unclaimed(contRow, contTask)
  /\ \A j \in ContJobs : /\ Following(contJob[j], contTask, contAttempts)
                         /\ Committed(contJob[j], contCheckpoints)
  /\ SinkOK(contSink, contRow, contTask, contAttempts)
  /\ Verified(contRow, contSink, contTask)

LEMMA SuccImplies == SuccInv => EffectOfTheSuccessor
<1> SUFFICES ASSUME SuccInv PROVE EffectOfTheSuccessor
  OBVIOUS
<1>1. ASSUME contSink # NoRow
      PROVE  /\ contSink.gen = 2 /\ contSink.attempt = 2 /\ contSink.applications = 1
             /\ contSink.payload = contRow.produced
             /\ contAttempts[1].end = "lease_expired_recovered"
  BY <1>1 DEF SuccInv, SinkOK, SinkRow, HeldLease, RunRow, PhasesAfterA, FirstRecovered, Recovered
<1> QED BY <1>1 DEF EffectOfTheSuccessor, SuccInv, Verified

LEMMA SuccInit == ContInit => SuccInv
<1> SUFFICES ASSUME ContInit PROVE SuccInv
  OBVIOUS
<1>1. TreeInv
  BY TreeInit
<1>2. History(contTask, contAttempts)
  BY DEF ContInit, History, TaskRow, TaskStates, Workers, Ends
<1>3. \A j \in ContJobs : contJob[j].actor = "start"
  BY DEF ContInit
<1> QED
  BY <1>1, <1>2, <1>3
     DEF ContInit, SuccInv, RunRow, ConfirmedPhases, PhasesAfterA, PhasesOfB, Unclaimed, Following,
         Committed, SinkOK, Verified

\* What a step owes the invariant.
SuccStep ==
  /\ TreeInv' /\ PoolStep(contTask, contAttempts, contTask', contAttempts')
  /\ contCheckpoints' \in Seq(CheckpointRow) /\ (contCheckpoints # << >> => contCheckpoints' # << >>)
  /\ RunRow(contRow', contCheckpoints') /\ Unclaimed(contRow', contTask')
  /\ \A j \in ContJobs :
       \/ contJob'[j].role = contJob[j].role /\ contJob'[j].actor = contJob[j].actor
       \/ contJob'[j].actor = "start"
       \/ /\ Following(contJob'[j], contTask', contAttempts')
          /\ Committed(contJob'[j], contCheckpoints')
  /\ contRow.phase \in PhasesOfB => contRow'.phase \in PhasesOfB /\ contRow'.artifact = contRow.artifact
  /\ contSink' = contSink \/ (contSink' # NoRow /\ SinkOK(contSink', contRow', contTask', contAttempts'))
  /\ contRow'.phase = "verified" /\ contRow.phase # "verified" =>
       contSink # NoRow /\ contTask.state = "completed"

LEMMA FollowingStays ==
  ASSUME NEW row, NEW t, NEW hs, NEW u, NEW bs, History(t, hs), PoolStep(t, hs, u, bs),
         Following(row, t, hs)
  PROVE  Following(row, u, bs)
<1>1. t.gen \in Nat /\ u.gen \in Nat
  BY DEF PoolStep, History, TaskRow
<1> QED BY <1>1 DEF PoolStep, Following, FirstRecovered

LEMMA SuccPreserved ==
  ASSUME SuccInv, SuccStep
  PROVE  SuccInv'
<1>1. History(contTask', contAttempts')
  BY DEF SuccStep, PoolStep
<1>2. ASSUME NEW j \in ContJobs
      PROVE  /\ Following(contJob'[j], contTask', contAttempts')
             /\ Committed(contJob'[j], contCheckpoints')
  <2>1. CASE contJob'[j].role = contJob[j].role /\ contJob'[j].actor = contJob[j].actor
    <3>1. Following(contJob[j], contTask', contAttempts')
      BY FollowingStays DEF SuccInv, SuccStep
    <3> QED BY <2>1, <3>1 DEF SuccInv, SuccStep, Following, Committed
  <2>2. CASE contJob'[j].actor = "start"
    BY <2>2 DEF Following, Committed
  <2> QED BY <2>1, <2>2 DEF SuccStep
<1>3. SinkOK(contSink', contRow', contTask', contAttempts')
  <2>1. contTask.gen \in Nat /\ contTask'.gen \in Nat
    BY <1>1 DEF SuccInv, History, TaskRow
  <2>2. CASE contSink' = contSink
    BY <2>1, <2>2 DEF SuccInv, SuccStep, SinkOK, SinkRow, PoolStep, FirstRecovered
  <2> QED BY <2>2 DEF SuccStep
<1>4. Verified(contRow', contSink', contTask')
  BY DEF SuccInv, SuccStep, Verified, PoolStep
<1> QED BY <1>1, <1>2, <1>3, <1>4 DEF SuccInv, SuccStep

\* What a step of job j owes for the jobs.
JobsStep(j) ==
  /\ \A k \in ContJobs \ {j} : contJob'[k] = contJob[k]
  /\ \/ contJob'[j].role = contJob[j].role /\ contJob'[j].actor = contJob[j].actor
     \/ contJob'[j].actor = "start"
     \/ /\ Following(contJob'[j], contTask', contAttempts')
        /\ Committed(contJob'[j], contCheckpoints')

\* A step of a job or an actor that leaves the pool and the sink alone.
LEMMA PoolLeft ==
  ASSUME SuccInv, TreeInv', NEW j \in ContJobs, JobsStep(j),
         UNCHANGED <<contRow, contTask, contAttempts, contCheckpoints, contSink>>
  PROVE  SuccInv'
<1>1. PoolStep(contTask, contAttempts, contTask', contAttempts')
  BY PoolRests DEF SuccInv
<1>2. SuccStep
  BY <1>1 DEF SuccStep, SuccInv, JobsStep
<1> QED BY <1>2, SuccPreserved

\* A transition of the run's row.
LEMMA PhaseMoved ==
  ASSUME SuccInv, TreeInv', NEW j \in ContJobs, JobsStep(j),
         UNCHANGED <<contTask, contAttempts, contCheckpoints, contSink>>,
         RunRow(contRow', contCheckpoints), Unclaimed(contRow', contTask),
         contRow.phase \in PhasesOfB => contRow'.phase \in PhasesOfB /\ contRow'.artifact = contRow.artifact,
         contRow'.phase = "verified" => contSink # NoRow /\ contTask.state = "completed"
  PROVE  SuccInv'
<1>1. PoolStep(contTask, contAttempts, contTask', contAttempts')
  BY PoolRests DEF SuccInv
<1>2. SuccStep
  BY <1>1 DEF SuccStep, SuccInv, JobsStep
<1> QED BY <1>2, SuccPreserved

\* A call of the pool, by an actor or its service.
LEMMA PoolMoved ==
  ASSUME SuccInv, TreeInv', NEW j \in ContJobs, JobsStep(j), HasActor(contJob[j]),
         contJob[j].role \in {"a", "b"}, UNCHANGED <<contRow, contSink>>,
         PoolStep(contTask, contAttempts, contTask', contAttempts'),
         contCheckpoints' = contCheckpoints \/ \E c \in CheckpointRow : contCheckpoints' = Append(contCheckpoints, c)
  PROVE  SuccInv'
<1>1. contRow.phase \notin {"none", "definition_persisted"}
  BY DEF SuccInv, TreeInv, JobPhase, PhasesOfB
<1>2. contCheckpoints' \in Seq(CheckpointRow) /\ (contCheckpoints # << >> => contCheckpoints' # << >>)
  BY DEF SuccInv
<1>3. RunRow(contRow', contCheckpoints') /\ Unclaimed(contRow', contTask')
  BY <1>1, <1>2 DEF SuccInv, RunRow, Unclaimed
<1>4. SuccStep
  BY <1>2, <1>3 DEF SuccStep, SuccInv, JobsStep
<1> QED BY <1>4, SuccPreserved

LEMMA JobRowMoved ==
  ASSUME TreeInv, NEW j \in ContJobs, NEW s, contJob' = [contJob EXCEPT ![j] = s],
         s.actor = contJob[j].actor, s.role = contJob[j].role \/ s.actor = "start"
  PROVE  JobsStep(j)
BY DEF TreeInv, JobsStep

LEMMA JobEndsQuietly ==
  ASSUME TreeInv, NEW j \in ContJobs, NEW pc \in JobPoints,
         contJob' = [contJob EXCEPT ![j] = JobEnds(j, pc)]
  PROVE  JobsStep(j)
<1>1. JobEnds(j, pc).role = contJob[j].role /\ JobEnds(j, pc).actor = contJob[j].actor
  BY EndedRow
<1> QED BY <1>1, JobRowMoved

\* The jobs' steps that leave the row of the run.
LEMMA SuccJobCalm ==
  ASSUME SuccInv, TreeInv', NEW j \in ContJobs,
         \/ EnqueueDefined(j) \/ SpawnActor(j) \/ Freeze(j) \/ Observe(j) \/ KillGroup(j)
         \/ ConsumerReads(j) \/ JobFails(j) \/ JobKilled(j) \/ ServiceEnds(j)
  PROVE  SuccInv'
<1> DEFINE r == contJob[j]
<1>1. r \in ContRow /\ JobRow(r) /\ JobPhase(r, contRow.phase) /\ contJob \in [ContJobs -> ContRow] /\ TreeInv
  BY DEF SuccInv, TreeInv
<1>2. CASE EnqueueDefined(j)
  <2> DEFINE u == [contTask EXCEPT !.state = "queued"]
  <2>1. JobsStep(j)
    BY <1>1, <1>2 DEF EnqueueDefined, Step, JobsStep, ContRow
  <2>2. contRow.phase = "definition_persisted"
    BY <1>1, <1>2 DEF EnqueueDefined, At, JobPhase
  <2>3. contTask \in TaskRow /\ contTask.gen = 0 /\ contTask.holder = NoRow /\ ~contTask.live
        /\ contTask.state # "completed"
    BY <2>2 DEF SuccInv, Unclaimed, History
  <2>4. u \in TaskRow /\ u.gen = 0 /\ u.holder = NoRow /\ ~u.live /\ u.state = "queued"
    BY <2>3 DEF TaskRow, TaskStates
  <2> HIDE DEF u
  <2>5. PoolStep(contTask, contAttempts, u, contAttempts)
    BY <2>3, <2>4 DEF PoolStep, History, SuccInv
  <2>6. UNCHANGED <<contRow, contAttempts, contCheckpoints, contSink>> /\ contTask' = u
    BY <1>2 DEF EnqueueDefined, u
  <2>7. Unclaimed(contRow', contTask')
    BY <2>4, <2>6 DEF Unclaimed
  <2>8. SuccStep
    BY <2>1, <2>5, <2>6, <2>7 DEF SuccStep, SuccInv, JobsStep
  <2> QED BY <2>8, SuccPreserved
<1>3. CASE SpawnActor(j)
  <2>1. JobsStep(j)
    BY <1>1, <1>3 DEF SpawnActor, JobsStep, ContRow
  <2> QED BY <1>3, <2>1, PoolLeft DEF SpawnActor
<1>4. CASE Freeze(j)
  <2>1. JobsStep(j)
    BY <1>1, <1>4 DEF Freeze, JobsStep, ContRow
  <2> QED BY <1>4, <2>1, PoolLeft DEF Freeze
<1>5. CASE Observe(j)
  <2>1. CASE CheckpointDurable
    <3>1. JobsStep(j)
      BY <1>1, <1>5, <2>1 DEF Observe, JobsStep, ContRow
    <3> QED BY <1>5, <3>1, PoolLeft DEF Observe
  <2>2. CASE ~CheckpointDurable
    <3>1. JobsStep(j)
      BY <1>1, <1>5, <2>2, JobEndsQuietly DEF Observe, JobPoints
    <3> QED BY <1>5, <3>1, PoolLeft DEF Observe
  <2> QED BY <2>1, <2>2
<1>6. CASE KillGroup(j)
  <2>1. JobsStep(j)
    BY <1>1, <1>6, JobEndsQuietly DEF KillGroup, JobPoints
  <2> QED BY <1>6, <2>1, PoolLeft DEF KillGroup
<1>7. CASE ConsumerReads(j)
  <2>1. r.actor = "start"
    BY <1>1, <1>7 DEF ConsumerReads, At, JobRow
  <2>2. contJob'[j].actor = "start" /\ \A k \in ContJobs \ {j} : contJob'[k] = contJob[k]
    BY <1>1, <1>7, <2>1 DEF ConsumerReads, ContRow
  <2> QED BY <1>7, <2>2, PoolLeft DEF ConsumerReads, JobsStep
<1>8. CASE JobFails(j)
  <2>1. JobsStep(j)
    BY <1>1, <1>8, JobEndsQuietly DEF JobFails, JobPoints
  <2> QED BY <1>8, <2>1, PoolLeft DEF JobFails
<1>9. CASE JobKilled(j)
  <2>1. JobsStep(j)
    BY <1>1, <1>9 DEF JobKilled, Step, JobsStep, ContRow
  <2> QED BY <1>9, <2>1, PoolLeft DEF JobKilled
<1>10. CASE ServiceEnds(j)
  <2>1. JobsStep(j)
    BY <1>1, <1>10 DEF ServiceEnds, JobsStep, ContRow
  <2> QED BY <1>10, <2>1, PoolLeft DEF ServiceEnds
<1> QED BY <1>2, <1>3, <1>4, <1>5, <1>6, <1>7, <1>8, <1>9, <1>10

\* The transitions.
LEMMA SuccTransitions ==
  ASSUME SuccInv, TreeInv', NEW j \in ContJobs,
         \/ Define(j) \/ Prepared(j) \/ ProducerStarts(j) \/ TreeTerminated(j) \/ TakeOver(j)
         \/ ConsumerFinishes(j) \/ IndependentReader(j) \/ PersistACheckpoint(j)
  PROVE  SuccInv'
<1> DEFINE r == contJob[j]
<1> USE ContAssumption
<1>1. /\ r \in ContRow /\ JobRow(r) /\ contJob \in [ContJobs -> ContRow] /\ TreeInv
      /\ DOMAIN contRow = RunColumns /\ RunRow(contRow, contCheckpoints) /\ Unclaimed(contRow, contTask)
  BY DEF SuccInv, TreeInv
<1>2. ASSUME contJob' = [contJob EXCEPT ![j] = JobEnds(j, "blocked")],
             UNCHANGED <<contRow, contTask, contAttempts, contCheckpoints, contSink>>
      PROVE  SuccInv'
  BY <1>1, <1>2, JobEndsQuietly, PoolLeft DEF JobPoints
<1>3. CASE Define(j)
  <2>1. r.actor = "start"
    BY <1>1, <1>3 DEF Define, At, JobRow
  <2>2. CASE contRow.phase = "none"
    <3>1. contJob'[j].actor = "start" /\ \A k \in ContJobs \ {j} : contJob'[k] = contJob[k]
      BY <1>1, <1>3, <2>1, <2>2 DEF Define, ContRow
    <3>2. contRow'.phase = "definition_persisted"
      BY <1>1, <1>3, <2>2 DEF Define, RunColumns
    <3>3. RunRow(contRow', contCheckpoints) /\ Unclaimed(contRow', contTask)
      BY <1>1, <2>2, <3>2 DEF RunRow, Unclaimed, ConfirmedPhases, PhasesAfterA, PhasesOfB
    <3> QED BY <1>3, <2>2, <3>1, <3>2, <3>3, PhaseMoved DEF Define, JobsStep, PhasesOfB
  <2>3. CASE contRow.phase # "none"
    <3>1. JobsStep(j)
      BY <1>1, <1>3, <2>3 DEF Define, Step, JobsStep, ContRow
    <3> QED BY <1>3, <2>3, <3>1, PoolLeft DEF Define
  <2> QED BY <2>2, <2>3
<1>4. CASE Prepared(j)
  <2>1. CASE contRow.phase = "definition_persisted"
    <3>1. JobsStep(j)
      BY <1>1, <1>4, <2>1 DEF Prepared, Advance, TransitionAllowed, JobsStep, ContRow
    <3>2. contRow'.phase = "prepared"
      BY <1>1, <1>4, <2>1 DEF Prepared, Advance, TransitionAllowed, ToPhase, RunColumns
    <3>3. RunRow(contRow', contCheckpoints) /\ Unclaimed(contRow', contTask)
      BY <3>2 DEF RunRow, Unclaimed, ConfirmedPhases, PhasesAfterA, PhasesOfB
    <3> QED BY <1>4, <2>1, <3>1, <3>2, <3>3, PhaseMoved DEF Prepared, PhasesOfB
  <2>2. CASE contRow.phase # "definition_persisted"
    BY <1>2, <1>4, <2>2 DEF Prepared, Advance, TransitionAllowed
  <2> QED BY <2>1, <2>2
<1>5. CASE ProducerStarts(j)
  <2>1. CASE contRow.phase = "prepared"
    <3>1. JobsStep(j)
      BY <1>1, <1>5, <2>1 DEF ProducerStarts, Advance, TransitionAllowed, JobsStep, ContRow
    <3>2. contRow'.phase = "a_started"
      BY <1>1, <1>5, <2>1 DEF ProducerStarts, Advance, TransitionAllowed, ToPhase, RunColumns
    <3>3. RunRow(contRow', contCheckpoints) /\ Unclaimed(contRow', contTask)
      BY <3>2 DEF RunRow, Unclaimed, ConfirmedPhases, PhasesAfterA, PhasesOfB
    <3> QED BY <1>5, <2>1, <3>1, <3>2, <3>3, PhaseMoved DEF ProducerStarts, PhasesOfB
  <2>2. CASE contRow.phase # "prepared"
    BY <1>2, <1>5, <2>2 DEF ProducerStarts, Advance, TransitionAllowed
  <2> QED BY <2>1, <2>2
<1>6. CASE TreeTerminated(j)
  <2>1. CASE contRow.phase = "a_checkpoint_confirmed"
    <3>1. JobsStep(j)
      BY <1>1, <1>6, <2>1 DEF TreeTerminated, Advance, TransitionAllowed, JobsStep, ContRow
    <3>2. /\ contRow'.phase = "a_tree_terminated" /\ contRow'.produced = contRow.artifact
          /\ contRow'.artifact = contRow.artifact /\ contRow'.stale = contRow.stale
      BY <1>1, <1>6, <2>1 DEF TreeTerminated, Advance, TransitionAllowed, ToPhase, RunColumns
    <3>3. RunRow(contRow', contCheckpoints) /\ Unclaimed(contRow', contTask)
      BY <1>1, <2>1, <3>2 DEF RunRow, Unclaimed, ConfirmedPhases, PhasesAfterA, PhasesOfB
    <3> QED BY <1>6, <2>1, <3>1, <3>2, <3>3, PhaseMoved DEF TreeTerminated, PhasesOfB
  <2>2. CASE contRow.phase # "a_checkpoint_confirmed"
    BY <1>2, <1>6, <2>2 DEF TreeTerminated, Advance, TransitionAllowed
  <2> QED BY <2>1, <2>2
<1>7. CASE TakeOver(j)
  <2>1. CASE contRow.phase = "a_tree_terminated"
    <3>1. JobsStep(j)
      BY <1>1, <1>7, <2>1 DEF TakeOver, Advance, TransitionAllowed, JobsStep, ContRow
    <3>2. /\ contRow'.phase = "b_started" /\ contRow'.produced = contRow.produced
          /\ contRow'.artifact = contRow.artifact /\ contRow'.stale = contRow.stale
      BY <1>1, <1>7, <2>1 DEF TakeOver, Advance, TransitionAllowed, ToPhase, RunColumns
    <3>3. RunRow(contRow', contCheckpoints) /\ Unclaimed(contRow', contTask)
      BY <1>1, <2>1, <3>2 DEF RunRow, Unclaimed, ConfirmedPhases, PhasesAfterA, PhasesOfB
    <3> QED BY <1>7, <2>1, <3>1, <3>2, <3>3, PhaseMoved DEF TakeOver, PhasesOfB
  <2>2. CASE contRow.phase # "a_tree_terminated"
    BY <1>2, <1>7, <2>2 DEF TakeOver, Advance, TransitionAllowed
  <2> QED BY <2>1, <2>2
<1>8. CASE ConsumerFinishes(j)
  <2>1. CASE contRow.phase = "b_started"
    <3>1. JobsStep(j)
      BY <1>1, <1>8, <2>1 DEF ConsumerFinishes, Advance, TransitionAllowed, JobsStep, ContRow
    <3>2. /\ contRow'.phase = "b_finished" /\ contRow'.produced = contRow.produced
          /\ contRow'.artifact = contRow.artifact /\ contRow'.stale = contRow.stale
      BY <1>1, <1>8, <2>1 DEF ConsumerFinishes, Advance, TransitionAllowed, ToPhase, RunColumns
    <3>3. RunRow(contRow', contCheckpoints) /\ Unclaimed(contRow', contTask)
      BY <1>1, <2>1, <3>2 DEF RunRow, Unclaimed, ConfirmedPhases, PhasesAfterA, PhasesOfB
    <3> QED BY <1>8, <2>1, <3>1, <3>2, <3>3, PhaseMoved DEF ConsumerFinishes, PhasesOfB
  <2>2. CASE contRow.phase # "b_started"
    BY <1>2, <1>8, <2>2 DEF ConsumerFinishes, Advance, TransitionAllowed
  <2> QED BY <2>1, <2>2
<1>9. CASE IndependentReader(j)
  <2>1. contRow.phase = "b_finished"
    BY <1>9 DEF IndependentReader
  <2>2. JobsStep(j)
    BY <1>1, <1>9, <2>1 DEF IndependentReader, Advance, TransitionAllowed, JobsStep, ContRow
  <2>3. /\ contRow'.phase = "verified" /\ contRow'.produced = contRow.produced
        /\ contRow'.artifact = contRow.artifact /\ contRow'.stale = contRow.stale
    BY <1>1, <1>9, <2>1 DEF IndependentReader, Advance, TransitionAllowed, ToPhase, RunColumns
  <2>4. RunRow(contRow', contCheckpoints) /\ Unclaimed(contRow', contTask)
    BY <1>1, <2>1, <2>3 DEF RunRow, Unclaimed, ConfirmedPhases, PhasesAfterA, PhasesOfB
  <2>5. contRow.artifact \in {1, NoRow}
    BY <1>1, <2>1 DEF RunRow, ConfirmedPhases, PhasesAfterA, PhasesOfB
  <2>6. /\ contSink = [payload |-> contRow.artifact, gen |-> 2, attempt |-> 2, applications |-> 1]
        /\ contTask.state = "completed"
    BY <1>9 DEF IndependentReader, HistoryComplete
  <2>7. contSink \in [payload : {1, NoRow}, gen : {2}, attempt : {2}, applications : {1}]
    BY <2>5, <2>6
  <2>8. contSink # NoRow
    BY <2>7
  <2> QED BY <1>9, <2>1, <2>2, <2>3, <2>4, <2>6, <2>8, PhaseMoved DEF IndependentReader, PhasesOfB
<1>10. CASE PersistACheckpoint(j)
  <2>1. CASE contRow.phase = "a_started"
    <3>1. r.role = "a" /\ r.actor = "committed" /\ contCheckpoints # << >>
          /\ contCheckpoints \in Seq(CheckpointRow)
      BY <1>10 DEF PersistACheckpoint, ActorAt, SuccInv, Committed
    <3>2. Last(contCheckpoints).artifact \in {1, NoRow}
      BY <3>1, LastIsRow
    <3>3. contJob'[j].role = "a" /\ contJob'[j].actor = "persisted"
          /\ \A k \in ContJobs \ {j} : contJob'[k] = contJob[k]
      BY <1>1, <1>10, <2>1, <3>1 DEF PersistACheckpoint, Advance, TransitionAllowed, ContRow
    <3>4. JobsStep(j)
      BY <3>3 DEF JobsStep, Following, Committed
    <3>5. /\ contRow'.phase = "a_checkpoint_confirmed" /\ contRow'.stale = LostLease
          /\ contRow'.artifact = Last(contCheckpoints).artifact
      <4> DEFINE art == Last(contCheckpoints).artifact
      <4>1. contRow' = [[contRow EXCEPT !.phase = "a_checkpoint_confirmed"] EXCEPT
                          !.artifact = art, !.stale = LostLease]
        BY <1>10, <2>1 DEF PersistACheckpoint, Advance, TransitionAllowed, ToPhase, LostLease
      <4> HIDE DEF art
      <4> QED BY <1>1, <4>1 DEF RunColumns, art
    <3>6. RunRow(contRow', contCheckpoints) /\ Unclaimed(contRow', contTask)
      BY <3>1, <3>2, <3>5 DEF RunRow, Unclaimed, ConfirmedPhases, PhasesAfterA, PhasesOfB
    <3> QED BY <1>10, <2>1, <3>4, <3>5, <3>6, PhaseMoved DEF PersistACheckpoint, PhasesOfB
  <2>2. CASE contRow.phase # "a_started"
    BY <1>2, <1>10, <2>2 DEF PersistACheckpoint, Advance, TransitionAllowed
  <2> QED BY <2>1, <2>2
<1> QED BY <1>3, <1>4, <1>5, <1>6, <1>7, <1>8, <1>9, <1>10

\* The actors' steps that leave the pool and the sink.
LEMMA SuccActorCalm ==
  ASSUME SuccInv, TreeInv', NEW j \in ContJobs,
         \/ PublishArtifact(j) \/ WriteBarrier(j) \/ AwaitRecovery(j) \/ ControlsRead(j)
         \/ LateRenewals(j) \/ ReplayEffect(j)
  PROVE  SuccInv'
<1> DEFINE r == contJob[j]
<1> USE ContAssumption
<1>1. r \in ContRow /\ contJob \in [ContJobs -> ContRow]
  BY DEF SuccInv, TreeInv
<1>2. ASSUME NEW pc, ActorStep(j, pc), r.role = "a", pc # "committed"
      PROVE  JobsStep(j)
  BY <1>1, <1>2 DEF ActorStep, JobsStep, ContRow, Following, Committed
<1>3. ASSUME r.role = "b", r.actor # "start", UNCHANGED <<contTask, contAttempts>>,
             contJob'[j].role = "b", \A k \in ContJobs \ {j} : contJob'[k] = contJob[k]
      PROVE  JobsStep(j)
  BY <1>3 DEF SuccInv, JobsStep, Following, Committed
<1>4. ASSUME NEW pc, ActorStep(j, pc)
      PROVE  contJob'[j].role = r.role /\ \A k \in ContJobs \ {j} : contJob'[k] = contJob[k]
  BY <1>1, <1>4 DEF ActorStep, ContRow
<1>5. CASE PublishArtifact(j)
  <2>1. JobsStep(j)
    BY <1>2, <1>5 DEF PublishArtifact, Working, ActorAt
  <2> QED BY <1>5, <2>1, PoolLeft DEF PublishArtifact
<1>6. CASE WriteBarrier(j)
  <2>1. JobsStep(j)
    BY <1>2, <1>6 DEF WriteBarrier, ActorAt
  <2> QED BY <1>6, <2>1, PoolLeft DEF WriteBarrier
<1>7. CASE AwaitRecovery(j)
  <2>1. /\ contTask.state = "queued" /\ contTask.gen = 1 /\ contTask.error = Recovered
        /\ UNCHANGED <<contTask, contAttempts>> /\ ActorStep(j, "recovered") /\ r.role = "b"
    BY <1>7 DEF AwaitRecovery, Recovered, Working, ActorAt
  <2>2. FirstRecovered(contAttempts) /\ Free(contTask) /\ contTask.gen > 0
    BY <2>1 DEF SuccInv, History, Free
  <2>3. Following(contJob'[j], contTask', contAttempts')
    BY <2>1, <2>2 DEF Following
  <2>4. contJob'[j].role = "b" /\ \A k \in ContJobs \ {j} : contJob'[k] = contJob[k]
    BY <1>4, <2>1
  <2>5. JobsStep(j)
    BY <2>3, <2>4 DEF JobsStep, Committed
  <2> QED BY <1>7, <2>5, PoolLeft DEF AwaitRecovery
<1>8. CASE ControlsRead(j)
  <2>1. contJob'[j].role = "b" /\ (\A k \in ContJobs \ {j} : contJob'[k] = contJob[k])
        /\ r.role = "b" /\ r.actor # "start"
    BY <1>1, <1>8 DEF ControlsRead, ActorAt, ContRow, ActorStep
  <2>2. JobsStep(j)
    BY <1>3, <1>8, <2>1 DEF ControlsRead
  <2> QED BY <1>8, <2>2, PoolLeft DEF ControlsRead
<1>9. CASE LateRenewals(j)
  <2>1. JobsStep(j)
    BY <1>3, <1>4, <1>9 DEF LateRenewals, ActorAt
  <2> QED BY <1>9, <2>1, PoolLeft DEF LateRenewals
<1>10. CASE ReplayEffect(j)
  <2>1. JobsStep(j)
    BY <1>3, <1>4, <1>10 DEF ReplayEffect, ActorAt
  <2> QED BY <1>10, <2>1, PoolLeft DEF ReplayEffect
<1> QED BY <1>5, <1>6, <1>7, <1>8, <1>9, <1>10

\* No late lease is ever the lease of the task: the lost one has its generation
\* closed, and no lease has a generation other than its attempt and its token.
LEMMA LateLeasesRefused ==
  ASSUME SuccInv, NEW j \in ContJobs, ActorAt(j, "b", "unrenewed"), NEW l \in LateLeases(j)
  PROVE  ~SinkFence(l)
<1> DEFINE r == contJob[j]
<1>1. r.role = "b" /\ r.actor = "unrenewed" /\ r.seen = HeldLease /\ HasActor(r)
  BY DEF ActorAt, SuccInv, TreeInv, JobRow, ControlPoints, HasActor
<1>2. contRow.stale = LostLease
  BY <1>1 DEF SuccInv, TreeInv, JobPhase, RunRow, ConfirmedPhases, PhasesAfterA
<1>3. contTask.gen = 1 => ~contTask.live
  BY <1>1 DEF SuccInv, Following, Free
<1>4. \/ l = LostLease
      \/ l = [worker |-> "builder-b", token |-> 2, gen |-> 1, attempt |-> 2]
      \/ l = [worker |-> "builder-b", token |-> 2, gen |-> 2, attempt |-> 1]
  BY <1>1, <1>2 DEF LateLeases, HeldLease, LostLease
<1>5. SUFFICES ASSUME SinkFence(l) PROVE FALSE
  OBVIOUS
<1>6. contTask.live /\ l.token = contTask.gen /\ l.gen = contTask.gen /\ l.attempt = contTask.gen
  BY <1>5 DEF SinkFence, LeaseHeld, LeaseFields
<1> QED BY <1>3, <1>4, <1>6 DEF LostLease

\* The controls of the consumer.
LEMMA SuccControls ==
  ASSUME SuccInv, TreeInv', NEW j \in ContJobs, LateEffects(j) \/ ApplyEffect(j)
  PROVE  SuccInv'
<1> DEFINE r == contJob[j]
<1>1. r \in ContRow /\ contJob \in [ContJobs -> ContRow] /\ r.role = "b" /\ r.actor # "start"
      /\ r.actor \in ControlPoints /\ r.seen = HeldLease /\ r.proc = "running"
  BY DEF SuccInv, TreeInv, LateEffects, ApplyEffect, ActorAt, JobRow, ControlPoints
<1>2. \E pc : ActorStep(j, pc)
  BY DEF LateEffects, ApplyEffect
<1>3. contJob'[j].role = "b" /\ \A k \in ContJobs \ {j} : contJob'[k] = contJob[k]
  BY <1>1, <1>2 DEF ActorStep, ContRow
<1>4. UNCHANGED <<contRow, contTask, contAttempts, contCheckpoints>>
  BY DEF LateEffects, ApplyEffect
<1>5. JobsStep(j)
  BY <1>1, <1>3, <1>4, ContAssumption DEF SuccInv, JobsStep, Following, Committed
<1>6. CASE LateEffects(j)
  <2>1. contSink' = contSink
    <3>1. PICK l \in LateLeases(j) : contSink' = SinkApply(l, contRow.artifact)
      BY <1>6 DEF LateEffects
    <3>2. ~SinkFence(l)
      BY <1>6, LateLeasesRefused DEF LateEffects
    <3> QED BY <3>1, <3>2 DEF SinkApply
  <2> QED BY <1>4, <1>5, <2>1, PoolLeft
<1>7. CASE ApplyEffect(j)
  <2>1. CASE ~(SinkFence(HeldLease) /\ contSink = NoRow)
    <3>1. contSink' = contSink
      BY <1>1, <1>7, <2>1 DEF ApplyEffect, SinkApply
    <3> QED BY <1>4, <1>5, <3>1, PoolLeft
  <2>2. CASE SinkFence(HeldLease) /\ contSink = NoRow
    <3>1. contSink' = SinkRow(HeldLease, contRow.artifact)
      BY <1>1, <1>7, <2>2 DEF ApplyEffect, SinkApply
    <3>2. contTask.gen = 2
      BY <2>2 DEF SinkFence, LeaseHeld, LeaseFields, HeldLease
    <3>3. contRow.phase \in PhasesOfB
      BY <1>1 DEF SuccInv, TreeInv, JobPhase, HasActor
    <3>4. contRow.artifact \in {1, NoRow}
      BY <3>3 DEF SuccInv, RunRow, ConfirmedPhases, PhasesAfterA
    <3>5. contSink' \in [payload : {1, NoRow}, gen : {2}, attempt : {2}, applications : {1}]
      BY <3>1, <3>4 DEF SinkRow, HeldLease
    <3>6. contSink' # NoRow
      BY <3>5, ContAssumption
    <3>7. FirstRecovered(contAttempts)
      BY <1>1 DEF SuccInv, Following
    <3>8. SinkOK(contSink', contRow', contTask', contAttempts')
      BY <1>4, <3>1, <3>2, <3>3, <3>7 DEF SinkOK
    <3>9. PoolStep(contTask, contAttempts, contTask', contAttempts')
      BY <1>4, PoolRests DEF SuccInv
    <3>10. SuccStep
      BY <1>4, <1>5, <3>6, <3>8, <3>9 DEF SuccStep, SuccInv, JobsStep
    <3> QED BY <3>10, SuccPreserved
  <2> QED BY <2>1, <2>2
<1> QED BY <1>6, <1>7

SecondEnded(hs) == [hs EXCEPT ![2].end = "validation_handoff"]
TaskHandedOff(t, artifact) ==
  [t EXCEPT !.state = "validating", !.holder = NoRow, !.live = FALSE, !.produced = artifact]

LEMMA HandOffKeeps ==
  ASSUME NEW t, NEW hs, History(t, hs), t.gen > 1, t.state = "running", NEW artifact \in {1, NoRow}
  PROVE  PoolStep(t, hs, TaskHandedOff(t, artifact), SecondEnded(hs))
<1> DEFINE u == TaskHandedOff(t, artifact)
           bs == SecondEnded(hs)
           e == [hs[2] EXCEPT !.end = "validation_handoff"]
<1>1. t \in TaskRow /\ hs \in Seq(Attempt) /\ Len(hs) = t.gen /\ t.gen \in Nat
  BY DEF History, TaskRow
<1>2. 1 \in DOMAIN hs /\ 2 \in DOMAIN hs
  BY <1>1
<1>3. hs[2] \in Attempt
  BY <1>1, <1>2
<1>4. e \in Attempt
  BY <1>3 DEF Attempt, Ends
<1>5. bs = [hs EXCEPT ![2] = e]
  BY DEF SecondEnded
<1> HIDE DEF e, bs
<1>6. bs \in Seq(Attempt) /\ Len(bs) = t.gen
  BY <1>1, <1>2, <1>4, <1>5
<1>7. bs[1] = hs[1]
  BY <1>2, <1>5
<1>8. u \in TaskRow
  BY <1>1 DEF TaskRow, TaskHandedOff, TaskStates, Workers
<1>9. u.gen = t.gen /\ u.state = "validating" /\ u.holder = NoRow /\ u.live = FALSE
  BY <1>1 DEF TaskRow, TaskHandedOff
<1> HIDE DEF u
<1>10. History(u, bs)
  BY <1>1, <1>6, <1>8, <1>9 DEF History
<1>11. PoolStep(t, hs, u, bs)
  BY <1>1, <1>7, <1>9, <1>10 DEF PoolStep, Free
<1> QED BY <1>11 DEF u, bs

\* Claims, checkpoints and results of the actors, through the pool.
LEMMA SuccPool ==
  ASSUME SuccInv, TreeInv', NEW j \in ContJobs,
         \/ ProducerClaims(j) \/ RecordPending(j) \/ GateProducer(j) \/ ConsumerClaims(j)
         \/ GateConsumer(j) \/ SubmitValidation(j) \/ ValidatorClaims(j) \/ ValidatorCheckpoint(j)
         \/ ValidatorCompletes(j)
  PROVE  SuccInv'
<1> DEFINE r == contJob[j]
<1> USE ContAssumption
<1>1. /\ r \in ContRow /\ contJob \in [ContJobs -> ContRow] /\ History(contTask, contAttempts)
      /\ contCheckpoints \in Seq(CheckpointRow) /\ Following(r, contTask, contAttempts)
      /\ contTask \in TaskRow /\ contTask.gen \in Nat
  BY DEF SuccInv, TreeInv, History, TaskRow
<1>2. r.proc = "running" /\ r.role \in {"a", "b"} /\ HasActor(r) /\ UNCHANGED <<contRow, contSink>>
  BY DEF ProducerClaims, RecordPending, GateProducer, ConsumerClaims, GateConsumer, SubmitValidation,
         ValidatorClaims, ValidatorCheckpoint, ValidatorCompletes, Working, ActorAt, HasActor
<1>3. ASSUME NEW pc, ActorStep(j, pc)
      PROVE  /\ contJob'[j].role = r.role /\ contJob'[j].actor = pc
             /\ \A k \in ContJobs \ {j} : contJob'[k] = contJob[k]
  BY <1>1, <1>3 DEF ActorStep, ContRow
<1>4. PoolStep(contTask, contAttempts, contTask, contAttempts)
  BY <1>1, PoolRests
\* What the jobs owe, for a step of the producer's and of the consumer's actor.
<1>5. ASSUME r.role = "a", contJob'[j].role = "a",
             contJob'[j].actor # "committed" \/ contCheckpoints' # << >>,
             \A k \in ContJobs \ {j} : contJob'[k] = contJob[k]
      PROVE  JobsStep(j)
  BY <1>5 DEF JobsStep, Following, Committed
<1>6. ASSUME r.role = "b", r.actor # "start", contJob'[j].role = "b",
             PoolStep(contTask, contAttempts, contTask', contAttempts'),
             \A k \in ContJobs \ {j} : contJob'[k] = contJob[k]
      PROVE  JobsStep(j)
  <2>1. Following(r, contTask', contAttempts')
    BY <1>1, <1>6, FollowingStays
  <2> QED BY <1>6, <2>1 DEF JobsStep, Following, Committed
<1>7. ASSUME r.role = "b"
      PROVE  contCheckpoints # << >> /\ Last(contCheckpoints).artifact \in {1, NoRow}
  <2>1. contCheckpoints # << >>
    BY <1>2, <1>7 DEF SuccInv, TreeInv, JobPhase, RunRow, ConfirmedPhases, PhasesAfterA
  <2> QED BY <1>1, <2>1, LastIsRow
<1>8. ASSUME NEW worker \in Workers \ {NoRow}, NEW from \in {"queued", "validating"},
             NEW to \in {"running", "validating"}, Claim(worker, from, to)
      PROVE  PoolStep(contTask, contAttempts, contTask', contAttempts')
  <2>1. contTask' = TaskClaimed(contTask, to, worker) /\ contAttempts' = AddAttempt(contAttempts, worker)
        /\ contTask.holder = NoRow /\ contTask.state = from
    BY <1>8 DEF Claim, TaskClaimed, AddAttempt
  <2> QED BY <1>1, <1>8, <2>1, ClaimKeeps
<1>9. ASSUME NEW stage \in Stages, NEW effect \in EffectStates, NEW artifact \in {1, NoRow},
             Checkpoint(stage, effect, artifact)
      PROVE  /\ \E c \in CheckpointRow : contCheckpoints' = Append(contCheckpoints, c)
             /\ contCheckpoints' # << >>
  <2> DEFINE c == [gen |-> contTask.gen, stage |-> stage, effect |-> effect, artifact |-> artifact]
  <2>1. c \in CheckpointRow
    BY <1>1 DEF CheckpointRow
  <2>2. contCheckpoints' = Append(contCheckpoints, c)
    BY <1>9 DEF Checkpoint
  <2> HIDE DEF c
  <2> QED BY <1>1, <2>1, <2>2
<1>10. CASE ProducerClaims(j)
  <2>1. Claim("builder-a", "queued", "running") /\ ActorStep(j, "building") /\ r.role = "a"
    BY <1>10 DEF ProducerClaims, Working, ActorAt
  <2>2. PoolStep(contTask, contAttempts, contTask', contAttempts')
    BY <1>8, <2>1 DEF Workers
  <2>3. JobsStep(j)
    BY <1>3, <1>5, <2>1
  <2> QED BY <1>2, <1>10, <2>2, <2>3, PoolMoved DEF ProducerClaims
<1>11. CASE RecordPending(j)
  <2>1. Checkpoint("artifact_publish", "pending", NoRow) /\ ActorStep(j, "publishing") /\ r.role = "a"
        /\ UNCHANGED <<contTask, contAttempts>>
    BY <1>11 DEF RecordPending, Working, ActorAt
  <2>2. JobsStep(j)
    BY <1>3, <1>5, <2>1
  <2>3. \E c \in CheckpointRow : contCheckpoints' = Append(contCheckpoints, c)
    BY <1>9, <2>1 DEF Stages, EffectStates
  <2> QED BY <1>2, <1>4, <2>1, <2>2, <2>3, PoolMoved
<1>12. CASE GateProducer(j)
  <2>1. Checkpoint("builder_result", "confirmed", 1) /\ ActorStep(j, "committed") /\ r.role = "a"
        /\ UNCHANGED <<contTask, contAttempts>>
    BY <1>12 DEF GateProducer, Working, ActorAt
  <2>2. (\E c \in CheckpointRow : contCheckpoints' = Append(contCheckpoints, c)) /\ contCheckpoints' # << >>
    BY <1>9, <2>1 DEF Stages, EffectStates
  <2>3. JobsStep(j)
    BY <1>3, <1>5, <2>1, <2>2
  <2> QED BY <1>2, <1>4, <2>1, <2>2, <2>3, PoolMoved
<1>13. CASE ConsumerClaims(j)
  <2>1. Claim("builder-b", "queued", "running") /\ ActorStep(j, "resumed") /\ r.role = "b"
        /\ r.actor = "recovered"
    BY <1>13 DEF ConsumerClaims, Working, ActorAt
  <2>2. PoolStep(contTask, contAttempts, contTask', contAttempts')
    BY <1>8, <2>1 DEF Workers
  <2>3. JobsStep(j)
    BY <1>3, <1>6, <2>1, <2>2
  <2> QED BY <1>2, <1>13, <2>2, <2>3, PoolMoved DEF ConsumerClaims
<1>14. CASE GateConsumer(j)
  <2>1. /\ Checkpoint("builder_result", "confirmed", Last(contCheckpoints).artifact)
        /\ ActorStep(j, "committed") /\ r.role = "b" /\ r.actor = "resumed"
        /\ UNCHANGED <<contTask, contAttempts>>
    BY <1>14 DEF GateConsumer, Working, ActorAt
  <2>2. \E c \in CheckpointRow : contCheckpoints' = Append(contCheckpoints, c)
    BY <1>7, <1>9, <2>1 DEF Stages, EffectStates
  <2>3. JobsStep(j)
    BY <1>3, <1>4, <1>6, <2>1
  <2> QED BY <1>2, <1>4, <2>1, <2>2, <2>3, PoolMoved
<1>15. CASE SubmitValidation(j)
  <2> DEFINE art == Last(contCheckpoints).artifact
  <2>1. /\ contTask' = TaskHandedOff(contTask, art) /\ contAttempts' = SecondEnded(contAttempts)
        /\ ActorStep(j, "built") /\ r.role = "b" /\ r.actor = "answered" /\ contTask.live
        /\ contTask.state = "running" /\ contCheckpoints' = contCheckpoints
    BY <1>15 DEF SubmitValidation, Working, ActorAt, Holds, TaskHandedOff, SecondEnded
  <2>2. contTask.gen > 1
    BY <1>1, <2>1 DEF Following, Free
  <2>3. art \in {1, NoRow}
    BY <1>7, <2>1
  <2>4. PoolStep(contTask, contAttempts, contTask', contAttempts')
    BY <1>1, <2>1, <2>2, <2>3, HandOffKeeps
  <2>5. JobsStep(j)
    BY <1>3, <1>6, <2>1, <2>4
  <2> QED BY <1>2, <2>1, <2>4, <2>5, PoolMoved
<1>16. CASE ValidatorClaims(j)
  <2>1. Claim("validator-b", "validating", "validating") /\ ActorStep(j, "validating") /\ r.role = "b"
        /\ r.actor = "built"
    BY <1>16 DEF ValidatorClaims, Working, ActorAt
  <2>2. PoolStep(contTask, contAttempts, contTask', contAttempts')
    BY <1>8, <2>1 DEF Workers
  <2>3. JobsStep(j)
    BY <1>3, <1>6, <2>1, <2>2
  <2> QED BY <1>2, <1>16, <2>2, <2>3, PoolMoved DEF ValidatorClaims
<1>17. CASE ValidatorCheckpoint(j)
  <2>1. /\ Checkpoint("validator_result", "none", Last(contCheckpoints).artifact)
        /\ ActorStep(j, "validated") /\ r.role = "b" /\ r.actor = "validating"
        /\ UNCHANGED <<contTask, contAttempts>>
    BY <1>17 DEF ValidatorCheckpoint, Working, ActorAt
  <2>2. \E c \in CheckpointRow : contCheckpoints' = Append(contCheckpoints, c)
    BY <1>7, <1>9, <2>1 DEF Stages, EffectStates
  <2>3. JobsStep(j)
    BY <1>3, <1>4, <1>6, <2>1
  <2> QED BY <1>2, <1>4, <2>1, <2>2, <2>3, PoolMoved
<1>18. CASE ValidatorCompletes(j)
  <2>1. /\ contTask' = TaskReleased(contTask, "completed", NoRow)
        /\ contAttempts' = EndLast(contAttempts, "completed") /\ contCheckpoints' = contCheckpoints
        /\ r.role = "b" /\ r.actor = "validated" /\ contTask.holder # NoRow
    BY <1>18 DEF ValidatorCompletes, Release, TaskReleased, EndLast, Working, ActorAt, Holds
  <2>2. PoolStep(contTask, contAttempts, contTask', contAttempts')
    BY <1>1, <2>1, ReleaseKeeps DEF TaskStates, Ends, Recovered
  <2>3. contJob'[j].role = "b" /\ \A k \in ContJobs \ {j} : contJob'[k] = contJob[k]
    BY <1>1, <1>18, <2>1 DEF ValidatorCompletes, ContRow
  <2>4. JobsStep(j)
    BY <1>6, <2>1, <2>2, <2>3
  <2> QED BY <1>2, <2>1, <2>2, <2>4, PoolMoved
<1> QED BY <1>10, <1>11, <1>12, <1>13, <1>14, <1>15, <1>16, <1>17, <1>18

\* A failure, an ambiguous publication, a lease that ended.
LEMMA SuccReleases ==
  ASSUME SuccInv, TreeInv', NEW j \in ContJobs,
         PublishAmbiguous(j) \/ ExecutorGivesUp(j) \/ RecoverLease(j)
  PROVE  SuccInv'
<1> DEFINE r == contJob[j]
<1> USE ContAssumption
<1>1. /\ r \in ContRow /\ contJob \in [ContJobs -> ContRow] /\ History(contTask, contAttempts)
      /\ contTask \in TaskRow /\ contTask.gen \in Nat /\ contTask.error \in Ends /\ JobRow(r)
  BY DEF SuccInv, TreeInv, History, TaskRow
<1>2. r.proc = "running" /\ HasActor(r) /\ UNCHANGED <<contRow, contSink>>
  BY DEF PublishAmbiguous, ExecutorGivesUp, RecoverLease, Working, ActorAt, HasActor
<1>3. r.role \in {"a", "b"}
  BY <1>1, <1>2 DEF JobRow, ContRow
<1>4. contTask.live => contTask.holder # NoRow
  BY <1>1 DEF History
<1>5. ASSUME NEW state \in TaskStates \ {"running"}, NEW error \in Ends, NEW end \in Ends,
             state = "queued" /\ error = Recovered => end = Recovered,
             contTask.holder # NoRow, Release(state, error, end)
      PROVE  PoolStep(contTask, contAttempts, contTask', contAttempts')
  <2>1. contTask' = TaskReleased(contTask, state, error) /\ contAttempts' = EndLast(contAttempts, end)
    BY <1>5 DEF Release, TaskReleased, EndLast
  <2> QED BY <1>1, <1>5, <2>1, ReleaseKeeps
<1>6. AfterAttempt \in {"validating", "queued"}
  BY DEF AfterAttempt
<1>7. CASE PublishAmbiguous(j)
  <2>1. PoolStep(contTask, contAttempts, contTask', contAttempts')
    BY <1>1, <1>4, <1>5, <1>7 DEF PublishAmbiguous, Holds, TaskStates, Ends
  <2>2. \E c \in CheckpointRow : contCheckpoints' = Append(contCheckpoints, c)
    <3> DEFINE c == [gen |-> contTask.gen, stage |-> "artifact_publish", effect |-> "unknown", artifact |-> NoRow]
    <3>1. c \in CheckpointRow
      BY <1>1 DEF CheckpointRow, Stages, EffectStates
    <3>2. contCheckpoints' = Append(contCheckpoints, c)
      BY <1>7 DEF PublishAmbiguous, Checkpoint
    <3> QED BY <3>1, <3>2
  <2>3. JobsStep(j)
    BY <1>1, <1>7 DEF PublishAmbiguous, JobsStep, ContRow
  <2> QED BY <1>2, <1>3, <2>1, <2>2, <2>3, PoolMoved
<1>8. CASE ExecutorGivesUp(j)
  <2>1. PoolStep(contTask, contAttempts, contTask', contAttempts')
    <3>1. CASE contTask.live /\ Release(AfterAttempt, "adapter_failed", "failed_attempt")
      BY <1>4, <1>5, <1>6, <3>1 DEF TaskStates, Ends, Recovered
    <3>2. CASE UNCHANGED <<contTask, contAttempts>>
      BY <1>1, <3>2, PoolRests
    <3> QED BY <1>8, <3>1, <3>2 DEF ExecutorGivesUp
  <2>2. JobsStep(j)
    BY <1>1, <1>8 DEF ExecutorGivesUp, JobsStep, ContRow
  <2> QED BY <1>2, <1>3, <1>8, <2>1, <2>2, PoolMoved DEF ExecutorGivesUp
<1>9. CASE RecoverLease(j)
  <2>1. PoolStep(contTask, contAttempts, contTask', contAttempts')
    <3>1. contTask.holder # NoRow
      BY <1>9 DEF RecoverLease
    <3>2. CASE Release("blocked", "effect_reconciliation_required", "effect_reconciliation_required")
      BY <1>5, <3>1, <3>2 DEF TaskStates, Ends
    <3>3. CASE Release(AfterAttempt, "lease_expired_recovered", "lease_expired_recovered")
      BY <1>5, <1>6, <3>1, <3>3 DEF TaskStates, Ends, Recovered
    <3> QED BY <1>9, <3>2, <3>3 DEF RecoverLease
  <2>2. JobsStep(j)
    BY <1>9 DEF RecoverLease, JobsStep
  <2> QED BY <1>2, <1>3, <1>9, <2>1, <2>2, PoolMoved DEF RecoverLease
<1> QED BY <1>7, <1>8, <1>9

LEMMA SuccLease ==
  ASSUME SuccInv, TreeInv', LeaseRunsOut \/ UNCHANGED contVars
  PROVE  SuccInv'
<1> DEFINE u == [contTask EXCEPT !.live = FALSE]
<1>1. contTask \in TaskRow /\ History(contTask, contAttempts)
  BY DEF SuccInv, History
<1>2. CASE LeaseRunsOut
  <2>1. /\ u \in TaskRow /\ u.gen = contTask.gen /\ u.holder = contTask.holder /\ ~u.live
        /\ u.state = contTask.state /\ u.error = contTask.error
    BY <1>1 DEF TaskRow
  <2>2. contTask' = u /\ UNCHANGED <<contRow, contAttempts, contCheckpoints, contSink, contJob>>
        /\ contTask.live
    BY <1>2 DEF LeaseRunsOut
  <2> HIDE DEF u
  <2>3. PoolStep(contTask, contAttempts, u, contAttempts)
    BY <1>1, <2>1, <2>2 DEF PoolStep, History, Free
  <2>4. Unclaimed(contRow, u)
    BY <2>1 DEF SuccInv, Unclaimed
  <2>5. SuccStep
    BY <2>2, <2>3, <2>4 DEF SuccStep, SuccInv
  <2> QED BY <2>5, SuccPreserved
<1>3. CASE UNCHANGED contVars
  <2>1. PoolStep(contTask, contAttempts, contTask', contAttempts')
    BY <1>1, <1>3, PoolRests DEF contVars
  <2>2. SuccStep
    BY <1>3, <2>1 DEF SuccStep, SuccInv, contVars
  <2> QED BY <2>2, SuccPreserved
<1> QED BY <1>2, <1>3

LEMMA SuccNext == SuccInv /\ [ContNext]_contVars => SuccInv'
<1> SUFFICES ASSUME SuccInv, [ContNext]_contVars PROVE SuccInv'
  OBVIOUS
<1>1. TreeInv'
  BY TreeNext DEF SuccInv
<1>2. CASE LeaseRunsOut \/ UNCHANGED contVars
  BY <1>1, <1>2, SuccLease
<1>3. ASSUME NEW j \in ContJobs,
             \/ EnqueueDefined(j) \/ SpawnActor(j) \/ Freeze(j) \/ Observe(j) \/ KillGroup(j)
             \/ ConsumerReads(j) \/ JobFails(j) \/ JobKilled(j) \/ ServiceEnds(j)
      PROVE  SuccInv'
  BY <1>1, <1>3, SuccJobCalm
<1>4. ASSUME NEW j \in ContJobs,
             \/ Define(j) \/ Prepared(j) \/ ProducerStarts(j) \/ TreeTerminated(j) \/ TakeOver(j)
             \/ ConsumerFinishes(j) \/ IndependentReader(j) \/ PersistACheckpoint(j)
      PROVE  SuccInv'
  BY <1>1, <1>4, SuccTransitions
<1>5. ASSUME NEW j \in ContJobs,
             \/ PublishArtifact(j) \/ WriteBarrier(j) \/ AwaitRecovery(j) \/ ControlsRead(j)
             \/ LateRenewals(j) \/ ReplayEffect(j)
      PROVE  SuccInv'
  BY <1>1, <1>5, SuccActorCalm
<1>6. ASSUME NEW j \in ContJobs, LateEffects(j) \/ ApplyEffect(j)
      PROVE  SuccInv'
  BY <1>1, <1>6, SuccControls
<1>7. ASSUME NEW j \in ContJobs,
             \/ ProducerClaims(j) \/ RecordPending(j) \/ GateProducer(j) \/ ConsumerClaims(j)
             \/ GateConsumer(j) \/ SubmitValidation(j) \/ ValidatorClaims(j) \/ ValidatorCheckpoint(j)
             \/ ValidatorCompletes(j)
      PROVE  SuccInv'
  BY <1>1, <1>7, SuccPool
<1>8. ASSUME NEW j \in ContJobs, PublishAmbiguous(j) \/ ExecutorGivesUp(j) \/ RecoverLease(j)
      PROVE  SuccInv'
  BY <1>1, <1>8, SuccReleases
<1> QED BY <1>2, <1>3, <1>4, <1>5, <1>6, <1>7, <1>8 DEF ContNext

\* The effect in the sink is the successor's, of the generation after the
\* recovery and with the artifact the producer made durable, and a verified run
\* has it (sink_apply, b_fence_controls and independent_reader): whatever leases
\* run out, processes die and answers stay away, for any number of jobs.
THEOREM EffectIsTheSuccessors == ContSpec => []EffectOfTheSuccessor
<1>1. ContInit => SuccInv
  BY SuccInit
<1>2. SuccInv /\ [ContNext]_contVars => SuccInv'
  BY SuccNext
<1>3. SuccInv => EffectOfTheSuccessor
  BY SuccImplies
<1> QED BY <1>1, <1>2, <1>3, PTL DEF ContSpec

-----------------------------------------------------------------------------
(***************************************************************************)
(* Gateway session.  Only the process that has the evidence runs commands, *)
(* so the commands in the log are its own, in the order of its role.  A    *)
(* wrong text in the head has been paid for with edits: one to have it     *)
(* staged, one to undo it before the adapter looks, one for a clean tree.  *)
(***************************************************************************)

GwContents == {"original", "repaired", "alien"}
GwActions == {"inspect", "fix", "stage", "commit", "validate"}
GwStates == [head : Seq(GwContents), dirty : BOOLEAN]
GwEvents == [action : GwActions, by : GwRunners, before : GwStates, after : GwStates, at : Nat]
GwPoints == {"idle", "launched", "inspected", "attested", "registered", "invoke", "execute",
             "readback", "returned", "ended"}
GwRows == [pc : GwPoints, step : Nat, before : GwStates \cup {Nothing}]
Commanding == {"invoke", "execute", "readback", "returned"}

Touched == [head |-> << >>, dirty |-> TRUE]

\* The commands of a role, in order.
LEMMA RoleOrder ==
  /\ DOMAIN RoleCommands("builder") = 1 .. 3 /\ Len(RoleCommands("builder")) = 3
  /\ RoleCommands("builder")[1] = "fix" /\ RoleCommands("builder")[2] = "stage"
  /\ RoleCommands("builder")[3] = "commit"
  /\ DOMAIN RoleCommands("validator") = 1 .. 1 /\ Len(RoleCommands("validator")) = 1
  /\ RoleCommands("validator")[1] = "validate"
BY DEF RoleCommands

\* What the log tells of one command.
EventOK(event, order) ==
  /\ \E k \in DOMAIN order : event.action = order[k]
  /\ event.action = "fix" => event.after = Touched
  /\ event.action = "commit" => event.before = Touched

\* What was staged was a change: the file was not the head's before or after.
StagedChange(log) ==
  \A i \in CommandsIn(log) :
    log[i].action = "stage" => log[i].before = Touched /\ log[i].after = Touched

\* The commands in a log are of one process and in the order of the role.
InOrder(log, order, p) ==
  /\ \A i \in CommandsIn(log) : log[i].by = p /\ EventOK(log[i], order)
  /\ \A i, j \in CommandsIn(log) : i < j =>
       \E k, l \in DOMAIN order : k < l /\ log[i].action = order[k] /\ log[j].action = order[l]

\* They are the first n of the role.
Ran(log, order, n) ==
  /\ n \in 0 .. Len(order)
  /\ \A i \in CommandsIn(log) : \E k \in 1 .. n : log[i].action = order[k]
  /\ \A k \in 1 .. n : \E i \in CommandsIn(log) : log[i].action = order[k]

Done(row) == IF row.pc = "readback" THEN row.step ELSE row.step - 1

\* The edits it took for a staged or committed text to be a wrong one.
Paid(text, file, edits) ==
  text # "repaired" => edits >= 1 /\ (file = "repaired" => edits >= 2)

\* What the working copy can be, given what ran and what was edited.
Tree(role, file, staged, commits, log, edits) ==
  /\ \A i \in DOMAIN log : log[i].action = "fix" => file = "repaired" \/ edits >= 1
  /\ \A i \in DOMAIN log : log[i].action = "commit" => commits # << >>
  /\ staged # Nothing => StagedChange(log) /\ Paid(staged, file, edits)
  /\ commits # << >> => StagedChange(log) /\ Paid(Last(commits), file, edits)
  /\ role = "validator" => commits = << >>

\* The edits it took for the adapter to return a wrong text.
Returnable(file, commits, edits) ==
  commits # << >> /\ Last(commits) # "repaired" => edits >= 2 /\ (file # "repaired" => edits >= 3)

\* What ResultIsGoverned says of a result.
Governed(log, role, result, edits) ==
  LET order == RoleCommands(role)
      ran == CommandsIn(log)
  IN /\ \A k \in DOMAIN order : \E i \in ran : log[i].action = order[k]
     /\ \A i \in ran : log[i].by = result.by /\ \E k \in DOMAIN order : log[i].action = order[k]
     /\ \A i, j \in ran : i < j =>
          /\ \E k, l \in DOMAIN order : k < l /\ log[i].action = order[k] /\ log[j].action = order[l]
          /\ (\A m \in ran : m <= i \/ m >= j) => log[j].before = log[i].after
     /\ edits <= 2 =>
          (IF result.head = << >> THEN GwBaseContent(role) ELSE Last(result.head)) = "repaired"

LEMMA GovernedSame ==
  ResultIsGoverned <=> (gwResult # Nothing => Governed(gwLog, gwRole, gwResult, gwEdited))
BY DEF ResultIsGoverned, Governed

LEMMA GovernedStays ==
  ASSUME NEW log, NEW new, NEW role, NEW result, NEW edits \in Nat, NEW more \in Nat,
         Governed(log, role, result, edits), more >= edits, CommandsIn(new) = CommandsIn(log), \A i \in CommandsIn(log) : new[i] = log[i]
  PROVE  Governed(new, role, result, more)
<1> DEFINE order == RoleCommands(role)
           ran == CommandsIn(log)
<1>1. \A k \in DOMAIN order : \E i \in ran : new[i].action = order[k]
  BY DEF Governed
<1>2. \A i \in ran : new[i].by = result.by /\ \E k \in DOMAIN order : new[i].action = order[k]
  BY DEF Governed
<1>3. ASSUME NEW i \in ran, NEW j \in ran, i < j
      PROVE  /\ \E k, l \in DOMAIN order : k < l /\ new[i].action = order[k] /\ new[j].action = order[l]
             /\ (\A m \in ran : m <= i \/ m >= j) => new[j].before = new[i].after
  BY <1>3 DEF Governed
<1>4. more <= 2 =>
        (IF result.head = << >> THEN GwBaseContent(role) ELSE Last(result.head)) = "repaired"
  <2>1. more <= 2 => edits <= 2
    OBVIOUS
  <2> QED BY <2>1 DEF Governed
<1> QED BY <1>1, <1>2, <1>3, <1>4 DEF Governed

GwTypes ==
  /\ gwRole \in {"builder", "validator"} /\ gwCommits \in Seq(GwContents) /\ gwFile \in GwContents
  /\ gwStaged \in GwContents \cup {Nothing} /\ gwLog \in Seq(GwEvents) /\ gwNow \in Nat /\ gwEdited \in Nat
  /\ gwEvidence \in GwRunners \cup {Nothing} /\ gwRunner \in [GwRunners -> GwRows]

GwInv ==
  /\ GwTypes
  /\ \A p \in GwRunners : gwRunner[p].pc \in Commanding => gwEvidence = p
  /\ gwEvidence = Nothing => CommandsIn(gwLog) = {} /\ gwResult = Nothing
  /\ \A p \in GwRunners : gwRunner[p].pc \in GwPoints \ (Commanding \cup {"ended"}) => gwRunner[p].step = 1
  /\ InOrder(gwLog, RoleCommands(gwRole), gwEvidence)
  /\ \A p \in GwRunners : gwRunner[p].pc \in Commanding =>
       Ran(gwLog, RoleCommands(gwRole), Done(gwRunner[p]))
  /\ \A p \in GwRunners : gwRunner[p].pc = "execute" =>
       gwRunner[p].step \in DOMAIN RoleCommands(gwRole)
  /\ \A p \in GwRunners : gwRunner[p].pc = "returned" =>
       gwRunner[p].step > Len(RoleCommands(gwRole)) /\ Returnable(gwFile, gwCommits, gwEdited)
  /\ Tree(gwRole, gwFile, gwStaged, gwCommits, gwLog, gwEdited)
  /\ gwResult # Nothing =>
       /\ Governed(gwLog, gwRole, gwResult, gwEdited)
       /\ \A p \in GwRunners : gwRunner[p].pc \notin Commanding

LEMMA GitStateTyped == GwTypes => GitState \in GwStates
BY DEF GwTypes, GitState, GwStates

LEMMA GwStarts == GwInit => GwInv
<1> SUFFICES ASSUME GwInit PROVE GwInv
  OBVIOUS
<1>1. GwTypes
  BY GatewayAssumption DEF GwInit, GwTypes, GwIdle, GwRows, GwPoints, GwStates, GwBaseContent, GwContents
<1>2. CommandsIn(gwLog) = {} /\ DOMAIN gwLog = {}
  BY DEF GwInit, CommandsIn
<1>3. \A p \in GwRunners : gwRunner[p].pc = "idle" /\ gwRunner[p].step = 1
  BY DEF GwInit, GwIdle
<1>4. InOrder(gwLog, RoleCommands(gwRole), gwEvidence)
  BY <1>2 DEF InOrder
<1>5. Tree(gwRole, gwFile, gwStaged, gwCommits, gwLog, gwEdited)
  BY <1>2, GatewayAssumption DEF Tree, GwInit
<1> QED BY <1>1, <1>2, <1>3, <1>4, <1>5 DEF GwInv, GwInit, Commanding

\* A log with one event more.
LEMMA LogGrows ==
  ASSUME NEW log \in Seq(GwEvents), NEW e \in GwEvents
  PROVE  LET n == Len(log) + 1
             new == Append(log, e)
         IN
         /\ new \in Seq(GwEvents) /\ n \in Nat /\ DOMAIN new = DOMAIN log \cup {n} /\ new[n] = e
         /\ \A i \in DOMAIN log : new[i] = log[i] /\ i < n /\ i \in Nat
         /\ n \notin DOMAIN log
         /\ e.action = "inspect" => CommandsIn(new) = CommandsIn(log)
         /\ e.action # "inspect" => CommandsIn(new) = CommandsIn(log) \cup {n}
<1> DEFINE n == Len(log) + 1
           new == Append(log, e)
<1>1. new \in Seq(GwEvents) /\ n \in Nat /\ DOMAIN new = 1 .. n /\ DOMAIN log = 1 .. Len(log) /\ new[n] = e
  OBVIOUS
<1>2. \A i \in DOMAIN log : new[i] = log[i] /\ i < n /\ i \in Nat
  OBVIOUS
<1>3. DOMAIN new = DOMAIN log \cup {n} /\ n \notin DOMAIN log
  BY <1>1
<1> HIDE DEF n, new
<1>4. e.action = "inspect" => CommandsIn(new) = CommandsIn(log)
  BY <1>1, <1>2, <1>3 DEF CommandsIn
<1>5. e.action # "inspect" => CommandsIn(new) = CommandsIn(log) \cup {n}
  BY <1>1, <1>2, <1>3 DEF CommandsIn
<1> QED BY <1>1, <1>2, <1>3, <1>4, <1>5 DEF n, new

\* A process goes on without a command.
LEMMA RunnerMoves ==
  ASSUME GwInv, NEW p \in GwRunners, NEW s \in GwRows, gwRunner' = [gwRunner EXCEPT ![p] = s],
         UNCHANGED <<gwRole, gwCommits, gwFile, gwStaged, gwLog, gwResult, gwEvidence, gwEdited>>,
         gwNow' \in Nat,
         s.pc \in Commanding => gwRunner[p].pc \in Commanding /\ Done(s) = Done(gwRunner[p]),
         s.pc \notin Commanding \cup {"ended"} => s.step = 1,
         s.pc = "execute" => s.step \in DOMAIN RoleCommands(gwRole),
         s.pc = "returned" =>
           s.step > Len(RoleCommands(gwRole)) /\ Returnable(gwFile, gwCommits, gwEdited)
  PROVE  GwInv'
<1>1. gwRunner' \in [GwRunners -> GwRows] /\ gwRunner'[p] = s
      /\ \A q \in GwRunners \ {p} : gwRunner'[q] = gwRunner[q]
  BY DEF GwInv, GwTypes
<1>2. GwTypes'
  BY <1>1 DEF GwInv, GwTypes
<1>3. \A q \in GwRunners : gwRunner'[q].pc \in Commanding =>
        gwEvidence = q /\ Ran(gwLog, RoleCommands(gwRole), Done(gwRunner'[q]))
  BY <1>1 DEF GwInv
<1>4. \A q \in GwRunners : gwRunner'[q].pc \in GwPoints \ (Commanding \cup {"ended"}) => gwRunner'[q].step = 1
  BY <1>1 DEF GwInv
<1>5. gwResult # Nothing =>
        Governed(gwLog, gwRole, gwResult, gwEdited) /\ \A q \in GwRunners : gwRunner'[q].pc \notin Commanding
  BY <1>1 DEF GwInv
<1>6. \A q \in GwRunners : gwRunner'[q].pc = "execute" =>
        gwRunner'[q].step \in DOMAIN RoleCommands(gwRole)
  BY <1>1 DEF GwInv
<1>7. \A q \in GwRunners : gwRunner'[q].pc = "returned" =>
        gwRunner'[q].step > Len(RoleCommands(gwRole)) /\ Returnable(gwFile, gwCommits, gwEdited)
  BY <1>1 DEF GwInv
<1> QED BY <1>2, <1>3, <1>4, <1>5, <1>6, <1>7 DEF GwInv

LEMMA RunnerEnds ==
  ASSUME GwInv, NEW p \in GwRunners, GwBlocked(p),
         UNCHANGED <<gwRole, gwCommits, gwFile, gwStaged, gwLog, gwResult, gwEvidence, gwEdited>>,
         gwNow' \in Nat
  PROVE  GwInv'
<1> DEFINE s == [gwRunner[p] EXCEPT !.pc = "ended"]
<1>1. gwRunner[p] \in GwRows /\ gwRunner \in [GwRunners -> GwRows]
  BY DEF GwInv, GwTypes
<1>2. s \in GwRows /\ s.pc = "ended"
  BY <1>1 DEF GwRows, GwPoints
<1>3. gwRunner' = [gwRunner EXCEPT ![p] = s]
  BY <1>1 DEF GwBlocked, GwTo
<1> QED BY <1>2, <1>3, RunnerMoves DEF Commanding

\* The steps of a process up to its commands, and around them.
LEMMA GwCalm ==
  ASSUME GwInv, NEW p \in GwRunners,
         \/ Launch(p) \/ AttestBoundary(p) \/ RegisterAttested(p) \/ InvokeCheck(p) \/ Readback(p)
         \/ RunnerKilled(p)
  PROVE  GwInv'
<1> DEFINE r == gwRunner[p]
<1>1. r \in GwRows /\ gwRunner \in [GwRunners -> GwRows] /\ GwTypes /\ gwNow \in Nat
  BY DEF GwInv, GwTypes
<1>2. UNCHANGED <<gwRole, gwCommits, gwFile, gwStaged, gwLog, gwResult, gwEvidence, gwEdited>>
      /\ gwNow' \in Nat
  BY <1>1 DEF Launch, AttestBoundary, RegisterAttested, InvokeCheck, Readback, RunnerKilled, gwTree, gwRest
<1>3. CASE GwBlocked(p)
  BY <1>2, <1>3, RunnerEnds
<1>4. ASSUME NEW pc \in {"launched", "attested", "registered"}, GwTo(p, pc), r.step = 1
      PROVE  GwInv'
  <2> DEFINE s == [r EXCEPT !.pc = pc]
  <2>1. s \in GwRows /\ s.pc = pc /\ s.step = 1
    BY <1>1, <1>4 DEF GwRows, GwPoints
  <2>2. gwRunner' = [gwRunner EXCEPT ![p] = s]
    BY <1>1, <1>4 DEF GwTo
  <2> QED BY <1>2, <2>1, <2>2, RunnerMoves DEF Commanding
<1>5. r.pc \in {"idle", "launched", "inspected", "attested", "registered"} => r.step = 1
  BY DEF GwInv, GwPoints, Commanding
<1>6. CASE Launch(p) /\ ~GwBlocked(p)
  BY <1>4, <1>5, <1>6 DEF Launch, GwAt
<1>7. CASE AttestBoundary(p) /\ ~GwBlocked(p)
  BY <1>4, <1>5, <1>7 DEF AttestBoundary, GwAt
<1>8. CASE RegisterAttested(p) /\ ~GwBlocked(p)
  BY <1>4, <1>5, <1>8 DEF RegisterAttested, GwAt
<1>9. CASE InvokeCheck(p) /\ ~GwBlocked(p)
  <2> DEFINE s == [r EXCEPT !.pc = "execute", !.before = GitState]
  <2>1. gwRunner' = [gwRunner EXCEPT ![p] = s] /\ r.pc = "invoke"
    BY <1>1, <1>9 DEF InvokeCheck, GwAt
  <2>2. GitState \in GwStates
    BY <1>1, GitStateTyped
  <2>3. s \in GwRows /\ s.pc = "execute" /\ s.step = r.step
    BY <1>1, <2>2 DEF GwRows, GwPoints
  <2>4. r.step \in DOMAIN RoleCommands(gwRole)
    <3>1. Ran(gwLog, RoleCommands(gwRole), r.step - 1) /\ r.step \in Nat
      BY <1>1, <2>1 DEF GwInv, Done, Commanding, GwRows
    <3>2. r.step <= Len(RoleCommands(gwRole)) /\ gwRole \in {"builder", "validator"}
      BY <1>1, <1>9 DEF InvokeCheck, GwTypes
    <3>3. r.step - 1 \in 0 .. Len(RoleCommands(gwRole))
      BY <3>1 DEF Ran
    <3>4. r.step \in 1 .. Len(RoleCommands(gwRole))
      BY <3>1, <3>2, <3>3, RoleOrder
    <3> QED BY <3>2, <3>4, RoleOrder
  <2> HIDE DEF s
  <2> QED BY <1>2, <2>1, <2>3, <2>4, RunnerMoves DEF Commanding, Done
<1>10. CASE Readback(p) /\ ~GwBlocked(p)
  <2> DEFINE n == r.step + 1
             s == [r EXCEPT !.pc = "invoke", !.step = n]
  <2>1. gwRunner' = [gwRunner EXCEPT ![p] = s] /\ r.pc = "readback"
    BY <1>1, <1>10 DEF Readback, GwAt
  <2>2. n \in Nat /\ r.step \in Nat /\ n - 1 = r.step
    BY <1>1 DEF GwRows
  <2> HIDE DEF n
  <2>3. s \in GwRows /\ s.pc = "invoke" /\ s.step = n
    BY <1>1, <2>2 DEF GwRows, GwPoints
  <2> HIDE DEF s
  <2>4. Done(s) = Done(r)
    BY <2>1, <2>2, <2>3 DEF Done
  <2> QED BY <1>2, <2>1, <2>3, <2>4, RunnerMoves DEF Commanding
<1>11. CASE RunnerKilled(p)
  BY <1>3, <1>11 DEF RunnerKilled
<1> QED BY <1>3, <1>6, <1>7, <1>8, <1>9, <1>10, <1>11

\* The first process to create the evidence starts with no command run.
LEMMA GwEvidenceWritten ==
  ASSUME GwInv, NEW p \in GwRunners, WriteEvidence(p)
  PROVE  GwInv'
<1> DEFINE r == gwRunner[p]
           s == [r EXCEPT !.pc = "invoke"]
<1>1. r \in GwRows /\ gwRunner \in [GwRunners -> GwRows] /\ GwTypes
  BY DEF GwInv, GwTypes
<1>2. UNCHANGED <<gwRole, gwCommits, gwFile, gwStaged, gwLog, gwResult, gwEdited>> /\ gwNow' = gwNow
  BY DEF WriteEvidence, gwTree, gwRest
<1>3. CASE gwEvidence # Nothing
  BY <1>1, <1>2, <1>3, RunnerEnds DEF WriteEvidence, GwTypes
<1>4. CASE gwEvidence = Nothing
  <2>1. gwEvidence' = p /\ gwRunner' = [gwRunner EXCEPT ![p] = s]
    BY <1>1, <1>4 DEF WriteEvidence, GwTo
  <2>2. s \in GwRows /\ s.pc = "invoke" /\ s.step = 1
    BY <1>1 DEF WriteEvidence, GwAt, GwInv, GwRows, GwPoints, Commanding
  <2>3. gwRunner' \in [GwRunners -> GwRows] /\ gwRunner'[p] = s
        /\ \A q \in GwRunners \ {p} : gwRunner'[q] = gwRunner[q]
    BY <1>1, <2>1, <2>2
  <2>4. \A q \in GwRunners : gwRunner[q].pc \notin Commanding
    BY <1>4, GatewayAssumption DEF GwInv
  <2>5. CommandsIn(gwLog) = {} /\ gwResult = Nothing
    BY <1>4 DEF GwInv
  <2>6. GwTypes'
    BY <1>1, <1>2, <2>1, <2>3 DEF GwTypes
  <2>7. InOrder(gwLog, RoleCommands(gwRole), p)
    BY <2>5 DEF InOrder
  <2>8. Ran(gwLog, RoleCommands(gwRole), Done(s))
    <3>1. Done(s) = 0
      BY <2>2 DEF Done
    <3>2. 0 \in 0 .. Len(RoleCommands(gwRole))
      BY <1>1, RoleOrder DEF GwTypes
    <3>3. \A k \in 1 .. 0 : FALSE
      OBVIOUS
    <3> QED BY <2>5, <3>1, <3>2, <3>3 DEF Ran
  <2>9. /\ \A q \in GwRunners : gwRunner'[q].pc \in Commanding => q = p
        /\ \A q \in GwRunners : gwRunner'[q].pc \notin {"execute", "returned"}
    BY <2>2, <2>3, <2>4 DEF Commanding
  <2>10. \A q \in GwRunners : gwRunner'[q].pc \in GwPoints \ (Commanding \cup {"ended"}) => gwRunner'[q].step = 1
    BY <2>2, <2>3 DEF GwInv
  <2> QED BY <1>2, <2>1, <2>3, <2>5, <2>6, <2>7, <2>8, <2>9, <2>10, GatewayAssumption DEF GwInv
<1> QED BY <1>3, <1>4

\* An inspection more says nothing of the commands.
LEMMA GwInspected ==
  ASSUME GwInv, NEW p \in GwRunners, Inspect(p)
  PROVE  GwInv'
<1> DEFINE r == gwRunner[p]
           s == [r EXCEPT !.pc = "inspected"]
           e == [action |-> "inspect", by |-> p, before |-> GitState, after |-> GitState, at |-> gwNow]
           n == Len(gwLog) + 1
<1>1. r \in GwRows /\ gwRunner \in [GwRunners -> GwRows] /\ GwTypes /\ gwLog \in Seq(GwEvents)
  BY DEF GwInv, GwTypes
<1>2. UNCHANGED <<gwRole, gwCommits, gwFile, gwStaged, gwResult, gwEvidence, gwNow, gwEdited>>
      /\ gwLog' = Append(gwLog, e) /\ gwRunner' = [gwRunner EXCEPT ![p] = s]
  BY <1>1 DEF Inspect, gwTree, gwRest, Logged, GwTo
<1>3. e \in GwEvents /\ e.action = "inspect"
  BY <1>1, GitStateTyped DEF GwEvents, GwActions, GwTypes
<1>4. s \in GwRows /\ s.pc = "inspected" /\ s.step = 1
  BY <1>1 DEF Inspect, GwAt, GwInv, GwRows, GwPoints, Commanding
<1> HIDE DEF e, s
<1>5. /\ gwLog' \in Seq(GwEvents) /\ DOMAIN gwLog' = DOMAIN gwLog \cup {n} /\ gwLog'[n] = e
      /\ \A i \in DOMAIN gwLog : gwLog'[i] = gwLog[i]
      /\ CommandsIn(gwLog') = CommandsIn(gwLog)
  BY <1>1, <1>2, <1>3, LogGrows
<1> HIDE DEF n
<1>6. gwRunner' \in [GwRunners -> GwRows] /\ gwRunner'[p] = s
      /\ \A q \in GwRunners \ {p} : gwRunner'[q] = gwRunner[q]
  BY <1>1, <1>2, <1>4
<1>7. GwTypes'
  BY <1>1, <1>2, <1>5, <1>6 DEF GwTypes
<1>8. \A i \in CommandsIn(gwLog) : gwLog'[i] = gwLog[i]
  BY <1>5 DEF CommandsIn
<1>9. InOrder(gwLog', RoleCommands(gwRole), gwEvidence)
  BY <1>5, <1>8 DEF GwInv, InOrder
<1>10. \A m : Ran(gwLog, RoleCommands(gwRole), m) => Ran(gwLog', RoleCommands(gwRole), m)
  BY <1>5, <1>8 DEF Ran
<1>11. \A q \in GwRunners : gwRunner'[q].pc \in Commanding =>
         gwEvidence = q /\ Ran(gwLog', RoleCommands(gwRole), Done(gwRunner'[q]))
  BY <1>4, <1>6, <1>10 DEF GwInv, Commanding
<1>12. Tree(gwRole, gwFile, gwStaged, gwCommits, gwLog', gwEdited)
  <2>1. StagedChange(gwLog) => StagedChange(gwLog')
    BY <1>5, <1>8 DEF StagedChange
  <2> QED BY <1>3, <1>5, <2>1 DEF GwInv, Tree
<1>13. gwResult # Nothing =>
         Governed(gwLog', gwRole, gwResult, gwEdited) /\ \A q \in GwRunners : gwRunner'[q].pc \notin Commanding
  <2>1. gwResult # Nothing => Governed(gwLog', gwRole, gwResult, gwEdited)
    BY <1>5, <1>8, GovernedStays DEF GwInv, GwTypes
  <2> QED BY <1>4, <1>6, <2>1 DEF GwInv, Commanding
<1>14. \A q \in GwRunners : gwRunner'[q].pc = "execute" => gwRunner'[q].step \in DOMAIN RoleCommands(gwRole)
  BY <1>4, <1>6 DEF GwInv
<1>15. \A q \in GwRunners : gwRunner'[q].pc = "returned" =>
         gwRunner'[q].step > Len(RoleCommands(gwRole)) /\ Returnable(gwFile, gwCommits, gwEdited)
  BY <1>4, <1>6 DEF GwInv
<1> QED BY <1>2, <1>4, <1>5, <1>6, <1>7, <1>9, <1>11, <1>12, <1>13, <1>14, <1>15 DEF GwInv

\* What a command did to the working copy, and what the log says of it.
LEMMA CommandDone ==
  ASSUME GwInv, NEW p \in GwRunners, GwAt(p, "execute"), gwCommits = << >>, UNCHANGED gwRole,
         CommandEffect(Command(p)), NEW e \in GwEvents, e.action = Command(p),
         e.before = GitState, e.after = GitState'
  PROVE  /\ EventOK(e, RoleCommands(gwRole))
         /\ Tree(gwRole, gwFile', gwStaged', gwCommits', gwLog, gwEdited)
         /\ e.action = "fix" => gwFile' = "repaired"
         /\ e.action = "commit" => gwCommits' # << >>
         /\ e.action = "stage" /\ (gwStaged' # Nothing \/ gwCommits' # << >>) =>
              e.before = Touched /\ e.after = Touched
         /\ gwStaged' \in GwContents \cup {Nothing}
<1> DEFINE k == gwRunner[p].step
           order == RoleCommands(gwRole)
<1>1. /\ k \in DOMAIN order /\ e.action = order[k] /\ gwRole \in {"builder", "validator"}
      /\ Ran(gwLog, order, k - 1) /\ Tree(gwRole, gwFile, gwStaged, gwCommits, gwLog, gwEdited)
      /\ gwFile \in GwContents /\ gwStaged \in GwContents \cup {Nothing} /\ gwCommits \in Seq(GwContents)
      /\ gwEdited \in Nat
  BY DEF GwInv, GwTypes, GwAt, Command, Commanding, Done
<1>2. \E i \in DOMAIN order : e.action = order[i]
  BY <1>1
<1>3. CASE gwRole = "validator"
  <2>1. k = 1 /\ e.action = "validate"
    BY <1>1, <1>3, RoleOrder
  <2>2. UNCHANGED gwTree
    BY <2>1 DEF CommandEffect
  <2> QED BY <1>1, <1>2, <2>1, <2>2 DEF EventOK, gwTree
<1>4. CASE gwRole = "builder"
  <2>1. GwHeadContent = "original" /\ (gwCommits' = << >> => GwHeadContent' = "original")
    BY <1>4 DEF GwHeadContent, GwBaseContent
  <2>2. gwFile # "original" \/ gwStaged # Nothing => GitState = Touched
    BY <2>1 DEF GitState, Touched
  <2>3. gwCommits' = << >> /\ (gwFile' # "original" \/ gwStaged' # Nothing) => GitState' = Touched
    BY <2>1 DEF GitState, Touched
  <2>4. CASE k = 1
    <3>1. e.action = "fix"
      BY <1>1, <1>4, <2>4, RoleOrder
    <3>2. /\ ~GitState.dirty /\ gwFile = "original" /\ gwFile' = "repaired"
          /\ UNCHANGED <<gwCommits, gwStaged>>
      BY <3>1 DEF CommandEffect
    <3>3. gwStaged = Nothing
      BY <3>2 DEF GitState
    <3>4. Tree(gwRole, gwFile', gwStaged', gwCommits', gwLog, gwEdited)
      BY <1>1, <1>4, <3>2, <3>3 DEF Tree
    <3> QED BY <1>1, <1>2, <2>3, <3>1, <3>2, <3>4 DEF EventOK
  <2>5. CASE k = 2
    <3>1. e.action = "stage"
      BY <1>1, <1>4, <2>5, RoleOrder
    <3>2. /\ gwStaged' = (IF gwFile = "original" THEN Nothing ELSE gwFile)
          /\ UNCHANGED <<gwCommits, gwFile>>
      BY <2>1, <3>1 DEF CommandEffect
    <3>3. 1 \in 1 .. (k - 1) /\ \A m \in 1 .. (k - 1) : m = 1
      BY <2>5
    <3>4. \E i \in CommandsIn(gwLog) : gwLog[i].action = "fix"
      BY <1>1, <1>4, <3>3, RoleOrder DEF Ran
    <3>5. gwFile = "repaired" \/ gwEdited >= 1
      BY <1>1, <3>4 DEF Tree, CommandsIn
    <3>6. StagedChange(gwLog)
      BY <1>1, <1>4, <3>3, RoleOrder DEF Ran, StagedChange
    <3>7. gwStaged' # Nothing => Paid(gwStaged', gwFile', gwEdited)
      BY <3>2, <3>5 DEF Paid
    <3>8. Tree(gwRole, gwFile', gwStaged', gwCommits', gwLog, gwEdited)
      BY <1>1, <1>4, <3>2, <3>6, <3>7 DEF Tree
    <3>9. gwStaged' # Nothing => e.before = Touched /\ e.after = Touched
      BY <2>2, <2>3, <3>2
    <3> QED BY <1>1, <1>2, <3>1, <3>2, <3>8, <3>9 DEF EventOK
  <2>6. CASE k = 3
    <3>1. e.action = "commit"
      BY <1>1, <1>4, <2>6, RoleOrder
    <3>2. gwStaged # Nothing /\ gwCommits' = Append(gwCommits, gwStaged) /\ gwStaged' = Nothing
          /\ UNCHANGED gwFile
      BY <3>1 DEF CommandEffect
    <3>3. gwCommits' = << gwStaged >> /\ gwCommits' # << >>
      BY <3>2
    <3>4. Last(gwCommits') = gwStaged
      BY <3>3 DEF Last
    <3>5. Tree(gwRole, gwFile', gwStaged', gwCommits', gwLog, gwEdited)
      BY <1>1, <1>4, <3>2, <3>3, <3>4 DEF Tree
    <3>6. EventOK(e, order)
      BY <1>2, <2>2, <3>1, <3>2 DEF EventOK
    <3> QED BY <1>1, <3>1, <3>2, <3>3, <3>5, <3>6
  <2> QED BY <1>1, <1>4, <2>4, <2>5, <2>6, RoleOrder
<1> QED BY <1>1, <1>3, <1>4

\* One command more, the next of the role.
LEMMA OrderGrows ==
  ASSUME NEW log \in Seq(GwEvents), NEW e \in GwEvents, NEW role \in {"builder", "validator"},
         NEW p, NEW k \in DOMAIN RoleCommands(role), InOrder(log, RoleCommands(role), p),
         Ran(log, RoleCommands(role), k - 1), e.by = p, EventOK(e, RoleCommands(role)),
         e.action = RoleCommands(role)[k]
  PROVE  LET new == Append(log, e) IN
         InOrder(new, RoleCommands(role), p) /\ Ran(new, RoleCommands(role), k)
<1> DEFINE order == RoleCommands(role)
           new == Append(log, e)
           n == Len(log) + 1
<1>1. /\ k \in Nat /\ k \in 1 .. Len(order) /\ DOMAIN order = 1 .. Len(order) /\ Len(order) \in Nat
      /\ e.action # "inspect"
  BY RoleOrder
<1>2. /\ n \in Nat /\ new[n] = e /\ CommandsIn(new) = CommandsIn(log) \cup {n}
      /\ \A i \in CommandsIn(log) : new[i] = log[i] /\ i < n /\ i \in Nat
  BY <1>1, LogGrows DEF CommandsIn
<1>3. \A i \in CommandsIn(log) : \E m \in 1 .. (k - 1) : log[i].action = order[m]
  BY DEF Ran
<1>4. \A m \in 1 .. (k - 1) : m \in DOMAIN order /\ m < k /\ m \in 1 .. k
  BY <1>1
<1>5. \A m \in 1 .. k : m \in 1 .. (k - 1) \/ m = k
  BY <1>1
<1>6. k \in 1 .. k /\ k \in 0 .. Len(order)
  BY <1>1
<1> HIDE DEF new, n, order
<1>7. \A i \in CommandsIn(new) : new[i].by = p /\ EventOK(new[i], order)
  BY <1>2 DEF InOrder, order
<1>8. ASSUME NEW i \in CommandsIn(new), NEW j \in CommandsIn(new), i < j
      PROVE  \E a, b \in DOMAIN order : a < b /\ new[i].action = order[a] /\ new[j].action = order[b]
  <2>1. CASE i \in CommandsIn(log) /\ j \in CommandsIn(log)
    BY <1>2, <1>8, <2>1 DEF InOrder, order
  <2>2. CASE i \in CommandsIn(log) /\ j = n
    <3>1. PICK m \in 1 .. (k - 1) : log[i].action = order[m]
      BY <1>3, <2>2
    <3> QED BY <1>2, <1>4, <2>2, <3>1 DEF order
  <2>3. CASE i = n
    BY <1>2, <1>8, <2>3
  <2> QED BY <1>2, <2>1, <2>2, <2>3
<1>9. InOrder(new, order, p)
  BY <1>7, <1>8 DEF InOrder
<1>10. \A i \in CommandsIn(new) : \E m \in 1 .. k : new[i].action = order[m]
  BY <1>2, <1>3, <1>4, <1>6 DEF order
<1>11. \A m \in 1 .. k : \E i \in CommandsIn(new) : new[i].action = order[m]
  BY <1>2, <1>5 DEF Ran, order
<1>12. Ran(new, order, k)
  BY <1>6, <1>10, <1>11 DEF Ran
<1> QED BY <1>9, <1>12 DEF new, order

\* The Gateway runs a command of the process that has the evidence.
LEMMA GwExecuted ==
  ASSUME GwInv, NEW p \in GwRunners, Execute(p)
  PROVE  GwInv'
<1> DEFINE r == gwRunner[p]
           s == [r EXCEPT !.pc = "readback"]
           order == RoleCommands(gwRole)
           e == [action |-> Command(p), by |-> p, before |-> GitState, after |-> GitState', at |-> gwNow]
           n == Len(gwLog) + 1
<1>1. /\ r \in GwRows /\ r.pc = "execute" /\ gwRunner \in [GwRunners -> GwRows] /\ GwTypes
      /\ gwLog \in Seq(GwEvents) /\ gwRole \in {"builder", "validator"} /\ gwNow \in Nat
  BY DEF GwInv, GwTypes, Execute, GwAt
<1>2. UNCHANGED <<gwRole, gwResult, gwEvidence, gwNow, gwEdited>>
  BY DEF Execute, gwRest
<1>3. CASE GwBlocked(p) /\ UNCHANGED <<gwTree, gwLog>>
  BY <1>1, <1>2, <1>3, RunnerEnds DEF gwTree
<1>4. CASE /\ gwCommits = << >> /\ CommandEffect(Command(p))
           /\ Logged(Command(p), p, GitState, GitState') /\ GwTo(p, "readback")
  <2>1. gwLog' = Append(gwLog, e) /\ gwRunner' = [gwRunner EXCEPT ![p] = s]
    BY <1>1, <1>4 DEF Logged, GwTo
  <2>2. /\ gwEvidence = p /\ r.step \in DOMAIN order /\ Ran(gwLog, order, r.step - 1)
        /\ InOrder(gwLog, order, p) /\ gwResult = Nothing
    BY <1>1 DEF GwInv, Commanding, Done
  <2>3. s \in GwRows /\ s.pc = "readback" /\ s.step = r.step
    BY <1>1 DEF GwRows, GwPoints
  <2>4. Command(p) \in GwActions \ {"inspect"} /\ Command(p) = order[r.step]
    BY <1>1, <2>2, RoleOrder DEF Command, GwActions
  <2>5. gwFile' \in GwContents /\ gwCommits' \in Seq(GwContents)
    <3>1. /\ "repaired" \in GwContents /\ gwFile \in GwContents
          /\ gwCommits \in Seq(GwContents) /\ gwStaged \in GwContents \cup {Nothing}
      BY <1>1 DEF GwContents, GwTypes
    <3>2. \/ gwFile' = "repaired" /\ UNCHANGED gwCommits
          \/ UNCHANGED <<gwCommits, gwFile>>
          \/ gwStaged # Nothing /\ gwCommits' = Append(gwCommits, gwStaged) /\ UNCHANGED gwFile
      BY <1>4 DEF CommandEffect, gwTree
    <3>3. gwStaged # Nothing => gwStaged \in GwContents
      BY <3>1
    <3> QED BY <3>1, <3>2, <3>3
  <2>6. GitState \in GwStates /\ GitState' \in GwStates
    BY <1>1, <2>5, GitStateTyped DEF GitState, GwStates
  <2>7. e \in GwEvents
    BY <1>1, <2>4, <2>6 DEF GwEvents
  <2>8. e.action = Command(p) /\ e.before = GitState /\ e.after = GitState' /\ e.by = p
    OBVIOUS
  <2> HIDE DEF e, s
  <2>9. /\ EventOK(e, order) /\ gwStaged' \in GwContents \cup {Nothing}
        /\ Tree(gwRole, gwFile', gwStaged', gwCommits', gwLog, gwEdited)
        /\ e.action = "fix" => gwFile' = "repaired"
        /\ e.action = "commit" => gwCommits' # << >>
        /\ e.action = "stage" /\ (gwStaged' # Nothing \/ gwCommits' # << >>) =>
             e.before = Touched /\ e.after = Touched
    BY <1>1, <1>2, <1>4, <2>7, <2>8, CommandDone DEF GwAt
  <2>10. InOrder(gwLog', order, p) /\ Ran(gwLog', order, r.step)
    BY <1>1, <2>1, <2>2, <2>4, <2>7, <2>8, <2>9, OrderGrows
  <2>11. /\ gwLog' \in Seq(GwEvents) /\ DOMAIN gwLog' = DOMAIN gwLog \cup {n} /\ gwLog'[n] = e
         /\ \A i \in DOMAIN gwLog : gwLog'[i] = gwLog[i]
         /\ CommandsIn(gwLog') = CommandsIn(gwLog) \cup {n}
    BY <1>1, <2>1, <2>4, <2>7, <2>8, LogGrows
  <2> HIDE DEF n
  <2>12. Tree(gwRole, gwFile', gwStaged', gwCommits', gwLog', gwEdited)
    <3>1. gwStaged' # Nothing \/ gwCommits' # << >> => StagedChange(gwLog')
      BY <2>9, <2>11 DEF Tree, StagedChange, CommandsIn
    <3> QED BY <2>9, <2>11, <3>1 DEF Tree
  <2>13. gwRunner' \in [GwRunners -> GwRows] /\ gwRunner'[p] = s
         /\ \A q \in GwRunners \ {p} : gwRunner'[q] = gwRunner[q]
    BY <1>1, <2>1, <2>3
  <2>14. GwTypes'
    BY <1>1, <1>2, <2>5, <2>9, <2>11, <2>13 DEF GwTypes
  <2>15. \A q \in GwRunners : gwRunner'[q].pc \in Commanding => q = p
    BY <2>2, <2>13 DEF GwInv
  <2>16. Done(gwRunner'[p]) = r.step
    BY <2>3, <2>13 DEF Done
  <2>17. \A q \in GwRunners : gwRunner'[q].pc \notin {"execute", "returned"}
    BY <2>3, <2>13, <2>15 DEF Commanding
  <2>18. \A q \in GwRunners : gwRunner'[q].pc \in GwPoints \ (Commanding \cup {"ended"}) => gwRunner'[q].step = 1
    BY <2>3, <2>13 DEF GwInv, Commanding
  <2> QED
    BY <1>2, <2>2, <2>10, <2>12, <2>14, <2>15, <2>16, <2>17, <2>18, GatewayAssumption DEF GwInv
<1> QED BY <1>3, <1>4 DEF Execute

\* The adapter has seen the repaired file after the last command: a wrong text
\* in the head has been staged and then undone.
LEMMA GwAdapterReturned ==
  ASSUME GwInv, NEW p \in GwRunners, AdapterReturns(p)
  PROVE  GwInv'
<1> DEFINE r == gwRunner[p]
           s == [r EXCEPT !.pc = "returned"]
<1>1. /\ r \in GwRows /\ r.pc = "invoke" /\ r.step > Len(RoleCommands(gwRole))
      /\ gwRunner \in [GwRunners -> GwRows] /\ gwNow \in Nat
  BY DEF GwInv, GwTypes, AdapterReturns, GwAt
<1>2. UNCHANGED <<gwRole, gwCommits, gwFile, gwStaged, gwLog, gwResult, gwEvidence, gwEdited>>
      /\ gwNow' \in Nat
  BY <1>1 DEF AdapterReturns, gwTree, gwRest
<1>3. CASE gwFile # "repaired"
  BY <1>2, <1>3, RunnerEnds DEF AdapterReturns
<1>4. CASE gwFile = "repaired"
  <2>1. gwRunner' = [gwRunner EXCEPT ![p] = s]
    BY <1>1, <1>4 DEF AdapterReturns, GwTo
  <2>2. s \in GwRows /\ s.pc = "returned" /\ s.step = r.step
    BY <1>1 DEF GwRows, GwPoints
  <2>3. Returnable(gwFile, gwCommits, gwEdited)
    BY <1>4 DEF GwInv, Tree, Paid, Returnable
  <2> HIDE DEF s
  <2>4. Done(s) = Done(r)
    BY <1>1, <2>2 DEF Done
  <2> QED BY <1>1, <1>2, <2>1, <2>2, <2>3, <2>4, RunnerMoves DEF Commanding
<1> QED BY <1>3, <1>4

\* After the last command the log is the whole order, and a clean tree has the
\* head's text in the file.
LEMMA GwAccepted ==
  ASSUME GwInv, NEW p \in GwRunners, ExecutorAccepts(p)
  PROVE  GwInv'
<1> DEFINE r == gwRunner[p]
           s == [r EXCEPT !.pc = "ended"]
           order == RoleCommands(gwRole)
           result == [by |-> p, head |-> gwCommits]
<1>1. /\ r \in GwRows /\ r.pc = "returned" /\ r.step > Len(order) /\ gwRunner \in [GwRunners -> GwRows]
      /\ gwRole \in {"builder", "validator"} /\ r.step \in Nat /\ GwTypes /\ gwEdited \in Nat
  BY DEF GwInv, GwTypes, ExecutorAccepts, GwAt, GwRows
<1>2. UNCHANGED <<gwRole, gwCommits, gwFile, gwStaged, gwLog, gwEvidence, gwNow, gwEdited>>
  BY DEF ExecutorAccepts, gwTree, gwRest
<1>3. GwBlocked(p)
  BY DEF ExecutorAccepts, GwBlocked
<1>4. CASE gwResult' = gwResult
  BY <1>1, <1>2, <1>3, <1>4, RunnerEnds DEF GwTypes
<1>5. CASE gwResult' # gwResult
  <2>1. gwResult' = result /\ ~GitState.dirty /\ gwRunner' = [gwRunner EXCEPT ![p] = s]
    BY <1>1, <1>5 DEF ExecutorAccepts, GwTo
  <2>2. s \in GwRows /\ s.pc = "ended"
    BY <1>1 DEF GwRows, GwPoints
  <2>3. /\ gwEvidence = p /\ Ran(gwLog, order, r.step - 1) /\ InOrder(gwLog, order, p)
        /\ Tree(gwRole, gwFile, gwStaged, gwCommits, gwLog, gwEdited)
        /\ Returnable(gwFile, gwCommits, gwEdited)
    BY <1>1 DEF GwInv, Commanding, Done
  <2>4. r.step - 1 = Len(order) /\ DOMAIN order = 1 .. Len(order)
    BY <1>1, <2>3, RoleOrder DEF Ran
  <2>5. \A k \in DOMAIN order : \E i \in CommandsIn(gwLog) : gwLog[i].action = order[k]
    BY <2>3, <2>4 DEF Ran
  <2>6. \A i \in CommandsIn(gwLog) : gwLog[i].by = p /\ EventOK(gwLog[i], order)
    BY <2>3 DEF InOrder
  <2>7. gwRole = "builder" => gwCommits # << >> /\ StagedChange(gwLog)
    <3>1. SUFFICES ASSUME gwRole = "builder" PROVE gwCommits # << >> /\ StagedChange(gwLog)
      OBVIOUS
    <3>2. \E i \in CommandsIn(gwLog) : gwLog[i].action = "commit"
      BY <2>5, <3>1, RoleOrder
    <3> QED BY <2>3, <3>2 DEF Tree, CommandsIn
  <2>8. ASSUME NEW i \in CommandsIn(gwLog), NEW j \in CommandsIn(gwLog), i < j
        PROVE  /\ \E k, l \in DOMAIN order :
                    k < l /\ gwLog[i].action = order[k] /\ gwLog[j].action = order[l]
               /\ gwLog[j].before = gwLog[i].after
    <3>1. PICK k \in DOMAIN order, l \in DOMAIN order :
            k < l /\ gwLog[i].action = order[k] /\ gwLog[j].action = order[l]
      BY <2>3, <2>8 DEF InOrder
    <3>2. /\ gwLog[i].action \in {"fix", "stage"} /\ gwLog[j].action \in {"stage", "commit"}
          /\ gwRole = "builder"
      BY <1>1, <3>1, RoleOrder
    <3>3. gwLog[i].after = Touched /\ gwLog[j].before = Touched
      BY <2>6, <2>7, <3>2 DEF EventOK, StagedChange
    <3> QED BY <3>1, <3>3
  <2>9. gwEdited <= 2 =>
          (IF gwCommits = << >> THEN GwBaseContent(gwRole) ELSE Last(gwCommits)) = "repaired"
    <3>1. CASE gwRole = "validator"
      BY <2>3, <3>1 DEF Tree, GwBaseContent
    <3>2. CASE gwRole = "builder"
      <4>1. gwFile = Last(gwCommits)
        BY <2>1, <2>7, <3>2 DEF GitState, GwHeadContent
      <4>2. Last(gwCommits) # "repaired" => gwEdited >= 3
        BY <2>3, <2>7, <3>2, <4>1 DEF Returnable
      <4>3. gwEdited <= 2 => ~(gwEdited >= 3)
        BY <1>1
      <4> QED BY <2>7, <3>2, <4>2, <4>3
    <3> QED BY <1>1, <3>1, <3>2
  <2>10. result.by = p /\ result.head = gwCommits
    OBVIOUS
  <2>11. Governed(gwLog, gwRole, result, gwEdited)
    <3> HIDE DEF result
    <3> QED BY <2>5, <2>6, <2>8, <2>9, <2>10 DEF Governed, EventOK
  <2>12. gwRunner' \in [GwRunners -> GwRows] /\ gwRunner'[p] = s
         /\ \A q \in GwRunners \ {p} : gwRunner'[q] = gwRunner[q]
    BY <1>1, <2>1, <2>2
  <2>13. GwTypes'
    BY <1>1, <1>2, <2>12 DEF GwTypes
  <2>14. \A q \in GwRunners : gwRunner'[q].pc \notin Commanding
    BY <2>2, <2>3, <2>12 DEF GwInv, Commanding
  <2>15. \A q \in GwRunners : gwRunner'[q].pc \in GwPoints \ (Commanding \cup {"ended"}) => gwRunner'[q].step = 1
    BY <2>2, <2>12 DEF GwInv
  <2>16. gwEvidence # Nothing
    BY <2>3, GatewayAssumption
  <2> HIDE DEF result
  <2> QED
    BY <1>2, <2>1, <2>3, <2>11, <2>13, <2>14, <2>15, <2>16 DEF GwInv, Commanding
<1> QED BY <1>4, <1>5

\* Edits and their undoing, replaced files and time.
LEMMA GwDisturbed ==
  ASSUME GwInv,
         \/ \E text \in {"original", "repaired", "alien"} : WorkspaceEdited(text)
         \/ AuthorityReplaced \/ GwTick \/ UNCHANGED gwVars
  PROVE  GwInv'
<1>1. UNCHANGED <<gwRole, gwCommits, gwStaged, gwLog, gwEvidence, gwRunner, gwResult>>
  BY DEF WorkspaceEdited, AuthorityReplaced, GwTick, gwVars, gwTree
<1>2. /\ gwNow' \in Nat /\ gwFile' \in GwContents /\ gwEdited' \in Nat /\ gwEdited \in Nat
      /\ (gwFile' = gwFile /\ gwEdited' = gwEdited) \/ gwEdited' = gwEdited + 1
  BY DEF WorkspaceEdited, AuthorityReplaced, GwTick, gwVars, gwTree, GwInv, GwTypes, GwContents
<1>3. GwTypes'
  BY <1>1, <1>2 DEF GwInv, GwTypes
<1>4. \A text : Paid(text, gwFile, gwEdited) => Paid(text, gwFile', gwEdited')
  BY <1>2 DEF Paid
<1>5. gwFile = "repaired" \/ gwEdited >= 1 => gwFile' = "repaired" \/ gwEdited' >= 1
  BY <1>2
<1>6. Tree(gwRole, gwFile', gwStaged, gwCommits, gwLog, gwEdited')
  BY <1>4, <1>5 DEF GwInv, Tree
<1>7. Returnable(gwFile, gwCommits, gwEdited) => Returnable(gwFile', gwCommits, gwEdited')
  BY <1>2 DEF Returnable
<1>8. gwResult # Nothing => Governed(gwLog, gwRole, gwResult, gwEdited')
  <2>1. gwEdited' >= gwEdited
    BY <1>2
  <2> QED BY <1>2, <2>1, GovernedStays DEF GwInv
<1> QED BY <1>1, <1>3, <1>6, <1>7, <1>8 DEF GwInv

\* The result of a session is the work of one process through the Gateway
\* (invoke_governed_command, the adapters of native_runtime.py and the checks
\* of native_one_shot.py), for any number of processes started for it, whichever
\* die, however slow they are, and whatever somebody does to the file or the
\* trusted programs meanwhile; with fewer than three edits of the file its head
\* holds the repaired source.
THEOREM ResultsAreGoverned == GwSpec => []ResultIsGoverned
<1>1. GwInit => GwInv
  BY GwStarts
<1>2. GwInv /\ [GwNext]_gwVars => GwInv'
  <2> SUFFICES ASSUME GwInv, [GwNext]_gwVars PROVE GwInv'
    OBVIOUS
  <2>1. CASE \/ \E text \in {"original", "repaired", "alien"} : WorkspaceEdited(text)
             \/ AuthorityReplaced \/ GwTick \/ UNCHANGED gwVars
    BY <2>1, GwDisturbed
  <2>2. ASSUME NEW p \in GwRunners,
               \/ Launch(p) \/ AttestBoundary(p) \/ RegisterAttested(p) \/ InvokeCheck(p) \/ Readback(p)
               \/ RunnerKilled(p)
        PROVE  GwInv'
    BY <2>2, GwCalm
  <2>3. ASSUME NEW p \in GwRunners,
               \/ WriteEvidence(p) \/ Inspect(p) \/ Execute(p) \/ AdapterReturns(p)
               \/ ExecutorAccepts(p)
        PROVE  GwInv'
    BY <2>3, GwEvidenceWritten, GwInspected, GwExecuted, GwAdapterReturned, GwAccepted
  <2> QED BY <2>1, <2>2, <2>3 DEF GwNext
<1>3. GwInv => ResultIsGoverned
  BY GovernedSame DEF GwInv
<1> QED BY <1>1, <1>2, <1>3, PTL DEF GwSpec
=============================================================================
