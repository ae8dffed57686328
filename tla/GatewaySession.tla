--------------------------- MODULE GatewaySession ---------------------------
(***************************************************************************)
(* A governed session of the native runtime (app/native_runtime.py): the   *)
(* launcher materialises a workspace, the Gateway inspects it, the         *)
(* boundary is attested (app/native_gateway_preflight.py), the worker is   *)
(* registered, and the adapter's fixed commands run through the Gateway,   *)
(* each checked before and read back from the Gateway's log after          *)
(* (app/native_gateway_commands.py).  Launcher and Gateway are external.   *)
(* The executor (app/native_one_shot.py) accepts what the adapter returns. *)
(* Two processes may be started for one session, each may die, and         *)
(* somebody else may edit the workspace, undo that, or replace a trusted   *)
(* file.                                                                   *)
(***************************************************************************)
EXTENDS Naturals, Sequences, SequencesExt

CONSTANTS
  GwRunners,      \* processes started for the session
  GwWindow,       \* age at which snapshot and inspection expire
  GwMaxClock,     \* bound: the clock
  GwDisturbances, \* bound: authority changes and kills
  GwEdits,        \* bound: edits of the source file by somebody else
  Nothing         \* no snapshot, nothing staged, no evidence, no result

ASSUME GatewayAssumption ==
  /\ Nothing \notin GwRunners \cup {"original", "repaired", "alien"}
  /\ GwWindow \in Nat /\ GwMaxClock \in Nat /\ GwDisturbances \in Nat /\ GwEdits \in Nat

VARIABLES
  gwRole,       \* the role of the session
  gwCommits,    \* contents committed above the session's head
  gwFile,       \* the source file in the workspace
  gwStaged,     \* the staged content
  gwAuthority,  \* launcher, Gateway and policy still have the trusted digests
  gwSnapshot,   \* the session's preflight snapshot
  gwLog,        \* the Gateway's events of this session
  gwEvidence,   \* who created session-evidence.json
  gwRunner,     \* what each process is doing
  gwResult,     \* what the executor accepted from the adapter
  gwNow, gwDisturbed,
  gwEdited      \* how often somebody else has edited the file

gwVars == <<gwRole, gwCommits, gwFile, gwStaged, gwAuthority, gwSnapshot, gwLog,
            gwEvidence, gwRunner, gwResult, gwNow, gwDisturbed, gwEdited>>
gwTree == <<gwCommits, gwFile, gwStaged>>
gwRest == <<gwRole, gwAuthority, gwNow, gwDisturbed, gwEdited>>

GwBaseContent(role) == IF role = "builder" THEN "original" ELSE "repaired"
GwHeadContent == IF gwCommits = << >> THEN GwBaseContent(gwRole) ELSE Last(gwCommits)

\* git_state: the head and how many paths differ from it.
GitState == [head |-> gwCommits, dirty |-> gwFile # GwHeadContent \/ gwStaged # Nothing]

RoleCommands(role) == IF role = "builder" THEN <<"fix", "stage", "commit">> ELSE <<"validate">>
Command(p) == RoleCommands(gwRole)[gwRunner[p].step]

GwIdle == [pc |-> "idle", step |-> 1, before |-> Nothing]

GwInit ==
  /\ gwRole \in {"builder", "validator"}
  /\ gwCommits = << >> /\ gwFile = GwBaseContent(gwRole) /\ gwStaged = Nothing
  /\ gwAuthority = TRUE /\ gwSnapshot = Nothing /\ gwLog = << >> /\ gwEvidence = Nothing
  /\ gwRunner = [p \in GwRunners |-> GwIdle] /\ gwResult = Nothing
  /\ gwNow = 0 /\ gwDisturbed = 0 /\ gwEdited = 0

GwAt(p, pc) == gwRunner[p].pc = pc
GwTo(p, pc) == gwRunner' = [gwRunner EXCEPT ![p].pc = pc]
GwBlocked(p) == GwTo(p, "ended")
Fresh(at) == gwNow - at <= GwWindow

---------------------------------------------------------------------------
\* The launcher reserves the session and snapshots a clean workspace at the
\* expected head; trusted files and fixture are read before it.
Launch(p) ==
  /\ GwAt(p, "idle")
  /\ IF gwAuthority /\ gwCommits = << >> /\ ~GitState.dirty
       THEN GwTo(p, "launched") /\ gwSnapshot' = [state |-> GitState, at |-> gwNow]
       ELSE GwBlocked(p) /\ UNCHANGED gwSnapshot
  /\ UNCHANGED <<gwTree, gwRest, gwLog, gwEvidence, gwResult>>

Logged(action, p, before, after) ==
  gwLog' = Append(gwLog, [action |-> action, by |-> p, before |-> before,
                          after |-> after, at |-> gwNow])

Inspect(p) ==
  /\ GwAt(p, "launched")
  /\ Logged("inspect", p, GitState, GitState)
  /\ GwTo(p, "inspected")
  /\ UNCHANGED <<gwTree, gwRest, gwSnapshot, gwEvidence, gwResult>>

\* The last event of the session is a fresh inspection of this very state, no
\* older than the snapshot.
InspectEvent ==
  /\ gwLog # << >>
  /\ LET event == Last(gwLog) IN
       /\ event.action = "inspect" /\ event.before = GitState
       /\ Fresh(event.at) /\ event.at >= gwSnapshot.at

AttestBoundary(p) ==
  /\ GwAt(p, "inspected")
  /\ IF /\ gwAuthority /\ gwSnapshot # Nothing
        /\ gwCommits = << >> /\ ~GitState.dirty /\ gwSnapshot.state = GitState
        /\ Fresh(gwSnapshot.at) /\ InspectEvent
       THEN GwTo(p, "attested") ELSE GwBlocked(p)
  /\ UNCHANGED <<gwTree, gwRest, gwSnapshot, gwLog, gwEvidence, gwResult>>

\* The worker is registered and read back; the pool may be unreachable.
RegisterAttested(p) ==
  /\ GwAt(p, "attested")
  /\ GwTo(p, "registered") \/ GwBlocked(p)
  /\ UNCHANGED <<gwTree, gwRest, gwSnapshot, gwLog, gwEvidence, gwResult>>

\* The evidence file is created exclusively: only one process goes on.
WriteEvidence(p) ==
  /\ GwAt(p, "registered")
  /\ IF gwEvidence = Nothing
       THEN gwEvidence' = p /\ GwTo(p, "invoke")
       ELSE UNCHANGED gwEvidence /\ GwBlocked(p)
  /\ UNCHANGED <<gwTree, gwRest, gwSnapshot, gwLog, gwResult>>

\* Before a command: trusted files, script, session and head; before the first
\* one of a builder the adapter wants the original source.
InvokeCheck(p) ==
  /\ GwAt(p, "invoke") /\ gwRunner[p].step <= Len(RoleCommands(gwRole))
  /\ IF /\ gwAuthority /\ gwCommits = << >>
        /\ Command(p) = "fix" => gwFile = "original"
       THEN gwRunner' = [gwRunner EXCEPT ![p].pc = "execute", ![p].before = GitState]
       ELSE GwBlocked(p)
  /\ UNCHANGED <<gwTree, gwRest, gwSnapshot, gwLog, gwEvidence, gwResult>>

\* What each command does to the workspace when it succeeds.  A clean tree is
\* required unless the command allows a dirty one.
CommandEffect(command) ==
  \/ /\ command = "fix" /\ ~GitState.dirty /\ gwFile = "original"
     /\ gwFile' = "repaired" /\ UNCHANGED <<gwCommits, gwStaged>>
  \/ /\ command = "stage"
     /\ gwStaged' = (IF gwFile = GwHeadContent THEN Nothing ELSE gwFile)
     /\ UNCHANGED <<gwCommits, gwFile>>
  \/ /\ command = "commit" /\ gwStaged # Nothing
     /\ gwCommits' = Append(gwCommits, gwStaged) /\ gwStaged' = Nothing /\ UNCHANGED gwFile
  \/ /\ command = "validate" /\ ~GitState.dirty /\ gwFile = "repaired" /\ UNCHANGED gwTree

\* The Gateway runs the fixed command on the expected head and logs it.
Execute(p) ==
  /\ GwAt(p, "execute")
  /\ UNCHANGED <<gwRest, gwSnapshot, gwEvidence, gwResult>>
  /\ \/ /\ gwCommits = << >> /\ CommandEffect(Command(p))
        /\ Logged(Command(p), p, GitState, GitState')
        /\ GwTo(p, "readback")
     \/ GwBlocked(p) /\ UNCHANGED <<gwTree, gwLog>>

\* The positions of the commands in a log; the other events are inspections.
CommandsIn(log) == {i \in DOMAIN log : log[i].action # "inspect"}

\* The workspace is read again and the last command in the log, whatever was
\* inspected since, must tell the same story; only the commit may have moved
\* the head.
Readback(p) ==
  /\ GwAt(p, "readback")
  /\ IF /\ (gwRunner[p].before.head # gwCommits) <=> Command(p) = "commit"
        /\ \E i \in CommandsIn(gwLog) :
             /\ \A j \in CommandsIn(gwLog) : j <= i
             /\ gwLog[i].action = Command(p) /\ gwLog[i].before = gwRunner[p].before
             /\ gwLog[i].after = GitState /\ Fresh(gwLog[i].at)
       THEN gwRunner' = [gwRunner EXCEPT ![p].pc = "invoke", ![p].step = @ + 1]
       ELSE GwBlocked(p)
  /\ UNCHANGED <<gwTree, gwRest, gwSnapshot, gwLog, gwEvidence, gwResult>>

\* Fault: the adapter returns without a look at the file.
AdapterReturnsBlindly(p) ==
  /\ GwAt(p, "invoke") /\ gwRunner[p].step > Len(RoleCommands(gwRole))
  /\ GwTo(p, "returned")
  /\ UNCHANGED <<gwTree, gwRest, gwSnapshot, gwLog, gwEvidence, gwResult>>

\* The adapter looks at the file once more and returns the head.
AdapterReturns(p) ==
  /\ GwAt(p, "invoke") /\ gwRunner[p].step > Len(RoleCommands(gwRole))
  /\ IF gwFile = "repaired" THEN GwTo(p, "returned") ELSE GwBlocked(p)
  /\ UNCHANGED <<gwTree, gwRest, gwSnapshot, gwLog, gwEvidence, gwResult>>

\* The executor accepts it from a clean tree, and from a builder only a change.
ExecutorAccepts(p) ==
  /\ GwAt(p, "returned")
  /\ gwResult' = IF ~GitState.dirty /\ (gwRole = "builder" => GwHeadContent # "original")
                    THEN [by |-> p, head |-> gwCommits] ELSE gwResult
  /\ GwTo(p, "ended")
  /\ UNCHANGED <<gwTree, gwRest, gwSnapshot, gwLog, gwEvidence>>

---------------------------------------------------------------------------
GwDisturb == gwDisturbed < GwDisturbances /\ gwDisturbed' = gwDisturbed + 1

\* Somebody writes another text to the file, an earlier one perhaps, or
\* replaces a trusted file.
WorkspaceEdited(text) ==
  /\ gwEdited < GwEdits /\ gwEdited' = gwEdited + 1
  /\ text # gwFile /\ gwFile' = text
  /\ UNCHANGED <<gwRole, gwCommits, gwStaged, gwAuthority, gwSnapshot, gwLog, gwEvidence,
                 gwRunner, gwResult, gwNow, gwDisturbed>>

AuthorityReplaced ==
  /\ GwDisturb /\ gwAuthority' = FALSE
  /\ UNCHANGED <<gwRole, gwTree, gwSnapshot, gwLog, gwEvidence, gwRunner, gwResult, gwNow, gwEdited>>

RunnerKilled(p) ==
  /\ GwDisturb /\ gwRunner[p].pc \notin {"idle", "ended"} /\ GwBlocked(p)
  /\ UNCHANGED <<gwRole, gwTree, gwAuthority, gwSnapshot, gwLog, gwEvidence, gwResult, gwNow, gwEdited>>

GwTick ==
  /\ gwNow < GwMaxClock /\ gwNow' = gwNow + 1
  /\ UNCHANGED <<gwRole, gwTree, gwAuthority, gwSnapshot, gwLog, gwEvidence, gwRunner,
                 gwResult, gwDisturbed, gwEdited>>

GwNext ==
  \/ \E p \in GwRunners :
       \/ Launch(p) \/ Inspect(p) \/ AttestBoundary(p) \/ RegisterAttested(p)
       \/ WriteEvidence(p) \/ InvokeCheck(p) \/ Execute(p) \/ Readback(p)
       \/ AdapterReturns(p) \/ ExecutorAccepts(p) \/ RunnerKilled(p)
  \/ \E text \in {"original", "repaired", "alien"} : WorkspaceEdited(text)
  \/ AuthorityReplaced \/ GwTick

GwSpec == GwInit /\ [][GwNext]_gwVars

---------------------------------------------------------------------------
\* What the executor accepts is the work of one process through the Gateway: the
\* log holds the role's commands once each, in order, all of that process, each
\* from the state the one before left, although a second process may race for
\* the session and the file may be edited and restored between any two steps.
\* The head it names holds the repaired source unless the file was edited three
\* times: one wrong text to be staged, the right one for the adapter's look, and
\* the wrong one again for the executor's clean tree.
ResultIsGoverned ==
  gwResult # Nothing =>
    LET order == RoleCommands(gwRole)
        ran == CommandsIn(gwLog)
    IN /\ \A k \in DOMAIN order : \E i \in ran : gwLog[i].action = order[k]
       /\ \A i \in ran :
            gwLog[i].by = gwResult.by /\ \E k \in DOMAIN order : gwLog[i].action = order[k]
       /\ \A i, j \in ran : i < j =>
            /\ \E k, l \in DOMAIN order :
                 k < l /\ gwLog[i].action = order[k] /\ gwLog[j].action = order[l]
            /\ (\A m \in ran : m <= i \/ m >= j) => gwLog[j].before = gwLog[i].after
       /\ gwEdited <= 2 =>
            (IF gwResult.head = << >> THEN GwBaseContent(gwRole) ELSE Last(gwResult.head)) = "repaired"
=============================================================================
