----------------------------- MODULE CodeRepair -----------------------------
(***************************************************************************)
(* The code workers: structured_code_worker.repair and                     *)
(* local_code_worker.repair turn one failing function of an isolated Git   *)
(* copy into one validated commit, a patch and a receipt.  Both keep their *)
(* lock and their receipt under the same names, so they exclude and replay *)
(* each other.  The issue adapter (app/issue_native_adapter.py) runs the   *)
(* structured one.  Somebody else may edit or commit in the copy between   *)
(* any two steps, and a process may be killed at any of them.              *)
(***************************************************************************)
EXTENDS Naturals, Sequences, FiniteSets

CONSTANTS
  StructuredRepairers, \* processes that run the structured worker
  LocalRepairers,      \* processes that run the local worker
  RepTasks,            \* tasks for the same function and base
  RepRuns,             \* bound: calls each process makes
  RepDisturbances,     \* bound: edits, commits and kills
  StrangerTexts,       \* what a stranger may write to the target
  NoHolder             \* the lock is free, or there is no receipt

Repairers == StructuredRepairers \cup LocalRepairers

VARIABLES
  repBranch,     \* the commits above the task's base
  repFile,       \* the target file in the working tree
  repIndex,      \* the target in the Git index
  repLock,       \* who holds the lock file
  repPatch,      \* the content of change.patch
  repReceipt,    \* the saved receipt
  repairer,      \* what each process is doing
  repAnswers,    \* the answers returned
  repDisturbed,  \* edits, commits and kills so far
  repTouched     \* history: edits and commits of strangers from the last look
                 \* at the base to the receipt

repVars == <<repBranch, repFile, repIndex, repLock, repPatch, repReceipt, repairer, repAnswers,
             repDisturbed, repTouched>>
repCopy == <<repBranch, repFile, repIndex>>
repCounts == <<repDisturbed, repTouched>>

\* A content of the target: the function of the tasks, and what surrounds it.
\* The function is the failing original, a stranger's, or for a task a right
\* version, one that only misses a type guard, or a wrong one; around it is what
\* the base has, or that with a comment or with code added.  "refused" is what a
\* model answers when no grammar accepts it.
RepFunctions == {<<"original", "any">>, <<"alien", "any">>, <<"refused", "any">>}
                  \cup ({"right", "unguarded", "wrong"} \X RepTasks)
RepContents == [fn : RepFunctions, rest : {"base", "remark", "code"}]

Rendering(fn) == [fn |-> fn, rest |-> "base"]
Original == Rendering(<<"original", "any">>)
Refused == Rendering(<<"refused", "any">>)
Candidates == {Rendering(fn) : fn \in {"right", "unguarded", "wrong"} \X RepTasks}

RepCommits == [by : {"worker", "stranger"}, file : RepContents, scope : {"target", "other"}]
RepPatches == [from : RepContents, to : RepContents]
RepReceipts == [task : RepTasks, sha : Seq(RepCommits), after : RepContents, patch : RepPatches]

ASSUME RepairAssumption ==
  /\ StructuredRepairers \cap LocalRepairers = {} /\ StrangerTexts \subseteq RepContents
  /\ NoHolder \notin Repairers \cup RepReceipts /\ RepRuns \in Nat /\ RepDisturbances \in Nat

\* What passes every case of the task.  The structured worker extracts the
\* function and runs it in a child process, whatever is around it; the local one
\* wants a module of that one function, in which comments do not count; the
\* validator role of the adapter (independently_validate) renders the function
\* over the base again and wants the same bytes.
StructuredPasses(content, task) == content.fn = <<"right", task>>
LocalPasses(content, task) == content.fn = <<"right", task>> /\ content.rest # "code"
IssueValidates(content, task) == StructuredPasses(content, task) /\ content.rest = "base"

RepairPasses(p, content, task) ==
  IF p \in LocalRepairers THEN LocalPasses(content, task) ELSE StructuredPasses(content, task)

\* The bounded search for one type guard, accepted only on a full pass.
GuardCompletion(content, task) ==
  IF content.fn = <<"unguarded", task>> THEN Rendering(<<"right", task>>) ELSE content

\* What the model may answer once the provider has proved that it is the pinned
\* local model: a candidate, the code as it was, or what no grammar accepts.
\* The expressions of the local worker have no types to guard.
LocalAnswers == {c \in Candidates : c.fn[1] # "unguarded"} \cup {Original, Refused}
StructuredAnswers == Candidates \cup {Original, Refused}
Answers(p) == IF p \in LocalRepairers THEN LocalAnswers ELSE StructuredAnswers

\* The grammar of each worker, and a change: source_for, render.
LocalRendered(reply) == reply \notin {Refused, Original}
StructuredRendered(reply, first) == reply \notin {Refused, Original, first}

HeadOf(branch) == branch[Len(branch)]
HeadFile == IF repBranch = << >> THEN Original ELSE HeadOf(repBranch).file
RepairClean == repFile = HeadFile /\ repIndex = HeadFile

\* Fault: any clean HEAD will do.
RepairAtAnyHead == RepairClean

\* HEAD is the task's base, the tree is clean and the file is the original.
RepairAtBase == repBranch = << >> /\ RepairClean /\ repFile = Original

---------------------------------------------------------------------------
RepairIdle(left) ==
  [pc |-> "idle", task |-> "none", attempt |-> 1, first |-> Original,
   after |-> Original, patch |-> [from |-> Original, to |-> Original], head |-> << >>,
   left |-> left, issue |-> FALSE]

RepairInit ==
  /\ repBranch = << >> /\ repFile = Original /\ repIndex = Original /\ repLock = NoHolder
  /\ repPatch = NoHolder /\ repReceipt = NoHolder
  /\ repairer = [p \in Repairers |-> RepairIdle(RepRuns)]
  /\ repAnswers = {} /\ repDisturbed = 0 /\ repTouched = 0

RepairAt(p, pc) == repairer[p].pc = pc
RepairGoto(p, pc) == repairer' = [repairer EXCEPT ![p].pc = pc]

\* Whatever ends a call, its lock file is removed.
RepairEnd(p) ==
  /\ repairer' = [repairer EXCEPT ![p] = RepairIdle(@.left)]
  /\ repLock' = NoHolder

\* The lock file is created exclusively; the adapter first insists on the
\* original content.
RepairStart(p, task, issue) ==
  /\ RepairAt(p, "idle") /\ repairer[p].left > 0 /\ repLock = NoHolder
  /\ issue => p \in StructuredRepairers /\ repFile = Original
  /\ repLock' = p
  /\ repairer' = [repairer EXCEPT ![p].pc = "inspect", ![p].task = task,
                    ![p].issue = issue, ![p].left = @ - 1]
  /\ UNCHANGED <<repCopy, repPatch, repReceipt, repAnswers, repCounts>>

\* A receipt is replayed only for the same task, commit and content, after
\* validating again; the structured worker checks the patch too.
LocalReplays(task) ==
  /\ repReceipt.task = task
  /\ repReceipt.sha = repBranch /\ repReceipt.after = repFile
  /\ LocalPasses(repFile, task)

StructuredReplays(task) ==
  /\ repReceipt.task = task
  /\ repReceipt.sha = repBranch /\ repReceipt.after = repFile
  /\ StructuredPasses(repFile, task)
  /\ repPatch = repReceipt.patch

ReceiptReplays(p) ==
  IF p \in LocalRepairers THEN LocalReplays(repairer[p].task) ELSE StructuredReplays(repairer[p].task)

\* A call of the adapter does not accept a replay, which made no model call.
RepairInspect(p) ==
  /\ RepairAt(p, "inspect")
  /\ IF RepairClean /\ repReceipt = NoHolder /\ RepairAtBase
       THEN RepairGoto(p, "propose") /\ UNCHANGED <<repLock, repAnswers>>
       ELSE /\ RepairEnd(p)
            /\ repAnswers' = repAnswers \cup
                 (IF RepairClean /\ repReceipt # NoHolder /\ ~repairer[p].issue /\ ReceiptReplays(p)
                    THEN {[sha |-> repReceipt.sha, task |-> repReceipt.task, replayed |-> TRUE]}
                    ELSE {})
  /\ UNCHANGED <<repCopy, repPatch, repReceipt, repCounts>>

\* One proposal, and one correction after a real failure.  What cannot be
\* rendered, changes nothing or repeats the first candidate ends the call;
\* only the structured worker tries the guard completion.
RepairPropose(p) ==
  LET r == repairer[p] IN
  /\ RepairAt(p, "propose")
  /\ \E reply \in Answers(p) :
       LET after == IF r.attempt = 2 /\ p \in StructuredRepairers
                      THEN GuardCompletion(reply, r.task) ELSE reply
           fresh == IF p \in LocalRepairers THEN LocalRendered(reply)
                    ELSE StructuredRendered(reply, r.first)
       IN
       IF ~(RepairAtBase /\ fresh) THEN RepairEnd(p)
       ELSE IF RepairPasses(p, after, r.task)
         THEN /\ repairer' = [repairer EXCEPT ![p].pc = "recheck", ![p].after = after]
              /\ UNCHANGED repLock
       ELSE IF r.attempt = 1
         THEN /\ repairer' = [repairer EXCEPT ![p].attempt = 2, ![p].first = reply]
              /\ UNCHANGED repLock
       ELSE RepairEnd(p)
  /\ UNCHANGED <<repCopy, repPatch, repReceipt, repAnswers, repCounts>>

\* The base is looked at once more, and then the file is written, without
\* another look at what it has become.
RepairRecheck(p) ==
  /\ RepairAt(p, "recheck")
  /\ IF RepairAtBase
       THEN RepairGoto(p, "write") /\ repTouched' = 0 /\ UNCHANGED repLock
       ELSE RepairEnd(p) /\ UNCHANGED repTouched
  /\ UNCHANGED <<repCopy, repPatch, repReceipt, repAnswers, repDisturbed>>

RepairWrite(p) ==
  /\ RepairAt(p, "write")
  /\ repFile' = repairer[p].after
  /\ RepairGoto(p, IF p \in LocalRepairers THEN "check" ELSE "scope")
  /\ UNCHANGED <<repBranch, repIndex, repLock, repPatch, repReceipt, repAnswers, repCounts>>

\* Both insist that the target is what differs from the index.  The local
\* worker validates the written file first, and takes its own text back when
\* one of the two fails.
LocalCheck(p) ==
  /\ RepairAt(p, "check")
  /\ \/ /\ LocalPasses(repFile, repairer[p].task) /\ repFile # repIndex
        /\ RepairGoto(p, "diff") /\ UNCHANGED <<repFile, repLock>>
     \/ /\ RepairEnd(p)
        /\ repFile' = IF repFile = repairer[p].after THEN Original ELSE repFile
  /\ UNCHANGED <<repBranch, repIndex, repPatch, repReceipt, repAnswers, repCounts>>

StructuredScope(p) ==
  /\ RepairAt(p, "scope")
  /\ IF repFile # repIndex THEN RepairGoto(p, "diff") /\ UNCHANGED repLock ELSE RepairEnd(p)
  /\ UNCHANGED <<repCopy, repPatch, repReceipt, repAnswers, repCounts>>

\* The difference becomes the patch, the file as it then is is staged, and
\* what is staged is committed on the HEAD there is.
RepairDiff(p) ==
  /\ RepairAt(p, "diff")
  /\ repairer' = [repairer EXCEPT ![p].pc = "add", ![p].patch = [from |-> repIndex, to |-> repFile]]
  /\ UNCHANGED <<repCopy, repLock, repPatch, repReceipt, repAnswers, repCounts>>

RepairAdd(p) ==
  /\ RepairAt(p, "add")
  /\ repIndex' = repFile /\ RepairGoto(p, "commit")
  /\ UNCHANGED <<repBranch, repFile, repLock, repPatch, repReceipt, repAnswers, repCounts>>

RepairCommit(p) ==
  /\ RepairAt(p, "commit")
  /\ IF repIndex # HeadFile
       THEN /\ repBranch' = Append(repBranch, [by |-> "worker", file |-> repIndex, scope |-> "target"])
            /\ RepairGoto(p, "produced") /\ UNCHANGED repLock
       ELSE RepairEnd(p) /\ UNCHANGED repBranch
  /\ UNCHANGED <<repFile, repIndex, repPatch, repReceipt, repAnswers, repCounts>>

\* HEAD is read; then the tree must be clean, and the target alone differ
\* between the base and the commit that was read.
RepairProduced(p) ==
  /\ RepairAt(p, "produced")
  /\ repairer' = [repairer EXCEPT ![p].pc = "prove", ![p].head = repBranch]
  /\ UNCHANGED <<repCopy, repLock, repPatch, repReceipt, repAnswers, repCounts>>

RepairProve(p) ==
  LET head == repairer[p].head IN
  /\ RepairAt(p, "prove")
  /\ IF /\ head # << >> /\ RepairClean /\ HeadOf(head).file # Original
        /\ \A i \in DOMAIN head : head[i].scope = "target"
       THEN RepairGoto(p, "revalidate") /\ UNCHANGED repLock
       ELSE RepairEnd(p)
  /\ UNCHANGED <<repCopy, repPatch, repReceipt, repAnswers, repCounts>>

\* Fault: what was validated before the commit is not validated again.
RepairTrusting(p) ==
  /\ RepairAt(p, "revalidate") /\ RepairGoto(p, "patch")
  /\ UNCHANGED <<repCopy, repLock, repPatch, repReceipt, repAnswers, repCounts>>

\* The committed file is validated once more before anything is saved.
RepairRevalidate(p) ==
  /\ RepairAt(p, "revalidate")
  /\ IF RepairPasses(p, repFile, repairer[p].task)
       THEN RepairGoto(p, "patch") /\ UNCHANGED repLock
       ELSE RepairEnd(p)
  /\ UNCHANGED <<repCopy, repPatch, repReceipt, repAnswers, repCounts>>

\* The digest of the file as it is then goes into the receipt, which is
\* replaced in one step once the patch is saved.
SavePatch(p) ==
  /\ RepairAt(p, "patch")
  /\ repPatch' = repairer[p].patch
  /\ repairer' = [repairer EXCEPT ![p].pc = "receipt", ![p].after = repFile]
  /\ UNCHANGED <<repCopy, repLock, repReceipt, repAnswers, repCounts>>

SaveReceipt(p) ==
  LET r == repairer[p] IN
  /\ RepairAt(p, "receipt")
  /\ repReceipt' = [task |-> r.task, sha |-> r.head, after |-> r.after, patch |-> r.patch]
  /\ repAnswers' = repAnswers \cup {[sha |-> r.head, task |-> r.task, replayed |-> FALSE]}
  /\ RepairEnd(p)
  /\ UNCHANGED <<repCopy, repPatch, repCounts>>

---------------------------------------------------------------------------
\* A Git command, the validator process or the model is unavailable, or the copy
\* has Git settings or a target that are refused.
RepairFails(p) ==
  /\ repairer[p].pc \in {"inspect", "propose", "recheck", "write", "scope", "diff", "add",
                         "commit", "produced", "prove", "revalidate"}
  /\ RepairEnd(p)
  /\ UNCHANGED <<repCopy, repPatch, repReceipt, repAnswers, repCounts>>

Disturb == repDisturbed < RepDisturbances /\ repDisturbed' = repDisturbed + 1

\* A killed process leaves its lock file; nothing in the code removes it, so
\* whoever starts the next worker does.
RepairKilled(p) ==
  /\ Disturb /\ ~RepairAt(p, "idle")
  /\ repairer' = [repairer EXCEPT ![p] = RepairIdle(@.left)]
  /\ UNCHANGED <<repCopy, repLock, repPatch, repReceipt, repAnswers, repTouched>>

RepairUnlock ==
  /\ repLock # NoHolder /\ RepairAt(repLock, "idle")
  /\ repLock' = NoHolder
  /\ UNCHANGED <<repCopy, repPatch, repReceipt, repairer, repAnswers, repCounts>>

\* Somebody else writes the target, an earlier text of it perhaps, or commits
\* it, or commits another file.
Touch == Disturb /\ repTouched' = IF repReceipt = NoHolder THEN repTouched + 1 ELSE repTouched

StrangerEdit(content) ==
  /\ Touch /\ content # repFile /\ repFile' = content
  /\ UNCHANGED <<repBranch, repIndex, repLock, repPatch, repReceipt, repairer, repAnswers>>

StrangerCommit(scope) ==
  /\ Touch
  /\ scope = "target" => ~RepairClean
  /\ repBranch' = Append(repBranch, [by |-> "stranger", scope |-> scope,
                                     file |-> IF scope = "target" THEN repFile ELSE HeadFile])
  /\ repIndex' = IF scope = "target" THEN repFile ELSE repIndex
  /\ UNCHANGED <<repFile, repLock, repPatch, repReceipt, repairer, repAnswers>>

RepairNext ==
  \/ \E p \in Repairers, t \in RepTasks, issue \in BOOLEAN : RepairStart(p, t, issue)
  \/ \E p \in Repairers :
       \/ RepairInspect(p) \/ RepairPropose(p) \/ RepairRecheck(p) \/ RepairWrite(p)
       \/ LocalCheck(p) \/ StructuredScope(p) \/ RepairDiff(p) \/ RepairAdd(p)
       \/ RepairCommit(p) \/ RepairProduced(p) \/ RepairProve(p) \/ RepairRevalidate(p)
       \/ SavePatch(p) \/ SaveReceipt(p) \/ RepairFails(p) \/ RepairKilled(p)
  \/ RepairUnlock
  \/ \E content \in StrangerTexts : StrangerEdit(content)
  \/ \E scope \in {"target", "other"} : StrangerCommit(scope)

RepairSpec == RepairInit /\ [][RepairNext]_repVars

---------------------------------------------------------------------------
\* What a receipt is worth when strangers touch the copy while the worker runs.
\* The commit it names differs from the base in the target alone, always.  If the
\* copy was touched at most once since the last look at the base, the function
\* committed passes the cases of the task, because the file is validated again
\* after the commit; a stranger's text around the function is committed with it.
\* Untouched, the commit satisfies the validator role, which wants the base
\* around the function, and the patch is its difference from the base.
RepairReceiptProved ==
  repReceipt # NoHolder =>
    LET made == HeadOf(repReceipt.sha).file IN
    /\ \A i \in DOMAIN repReceipt.sha : repReceipt.sha[i].scope = "target"
    /\ repTouched <= 1 => StructuredPasses(made, repReceipt.task)
    /\ repTouched = 0 => /\ IssueValidates(made, repReceipt.task)
                         /\ repReceipt.patch = [from |-> Original, to |-> made]

\* A copy yields one repair: however calls are killed, retried, replayed and
\* interleaved with other tasks, at most one worker commit lies above the base
\* and every answer names the same commit and task, at most one of them new.
OneRepair ==
  /\ Cardinality({i \in DOMAIN repBranch : repBranch[i].by = "worker"}) <= 1
  /\ \A a, b \in repAnswers : a.sha = b.sha /\ a.task = b.task
=============================================================================
