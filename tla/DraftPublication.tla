------------------------- MODULE DraftPublication -------------------------
(***************************************************************************)
(* Turning a completed, validated issue task into one draft pull request:  *)
(* publish_completed_fenced_issue (app/issue_publish_coordinator.py),      *)
(* publish_draft (app/issue_draft_pr.py) and the GitHub port it drives     *)
(* (app/github_draft_port.py).  Several publishers may run at once or one  *)
(* after the other; every request to GitHub is a step, a write may go      *)
(* unanswered, and people may push, close the pull request or take it out  *)
(* of draft at any time.                                                   *)
(***************************************************************************)
EXTENDS Naturals, Sequences, FiniteSets

CONSTANTS
  Publishers,        \* runs of the coordinator that may overlap
  DraftRuns,         \* bound: times each publisher starts
  DraftDisturbances, \* bound: things people do to the branch, issue or request
  NoRef              \* the agent's branch does not exist

VARIABLES
  draftTask,         \* the pool's record of the task is completed
  draftOwner,        \* main is at the base, issue open, owner comment in place
  draftBranch,       \* NoRef, or the commits of the agent's branch above the base
  draftPulls,        \* pull requests ever opened from the branch
  draftLate,         \* writes received but not served
  publisher,         \* what each publisher is doing
  draftReports,      \* heads reported as DRAFT_PR_VERIFIED
  draftDisturbed     \* disturbances so far

draftVars == <<draftTask, draftOwner, draftBranch, draftPulls, draftLate, publisher,
               draftReports, draftDisturbed>>

\* A commit: what it leaves in the reviewed file, and whether it touches others.
Product == [source |-> "after", others |-> FALSE]
DraftCommits == [source : {"before", "after", "other"}, others : BOOLEAN]

ASSUME DraftAssumption ==
  DraftRuns \in Nat /\ DraftDisturbances \in Nat /\ NoRef \notin Seq(DraftCommits)

\* A commit is named by its place: nobody rewrites the branch.
DraftHead == Len(draftBranch)
SourceAt(branch, n) == IF n = 0 THEN "before" ELSE branch[n].source

DraftInit ==
  /\ draftTask = FALSE /\ draftOwner = TRUE
  /\ draftBranch = NoRef /\ draftPulls = {} /\ draftLate = {}
  /\ publisher = [p \in Publishers |-> [pc |-> "idle", head |-> 0, left |-> DraftRuns]]
  /\ draftReports = {} /\ draftDisturbed = 0

PubAt(p, pc) == publisher[p].pc = pc
PubGoto(p, pc) == publisher' = [publisher EXCEPT ![p].pc = pc]
PubSee(p, pc, head) == publisher' = [publisher EXCEPT ![p].pc = pc, ![p].head = head]
PubStop(p) == PubSee(p, "idle", 0)
GitHubUnchanged == UNCHANGED <<draftOwner, draftBranch, draftPulls, draftLate, draftDisturbed>>

---------------------------------------------------------------------------
\* The coordinator's own evidence.

\* _completed: the pool itself says completed, by two workers, over two leases.
PoolCompleted == draftTask

\* Task, validator checkpoint, stored bytes and Git commit agree; all of them
\* are immutable once the task is completed.
StartPublication(p) ==
  /\ PubAt(p, "idle") /\ publisher[p].left > 0
  /\ PoolCompleted
  /\ publisher' = [publisher EXCEPT ![p].pc = "admit", ![p].left = @ - 1]
  /\ GitHubUnchanged /\ UNCHANGED <<draftTask, draftReports>>

\* publish_draft admits the issue again, reads the base source and repeats the
\* acceptance cases and the regressions on the product before any write.
AdmitAgain(p) ==
  /\ PubAt(p, "admit")
  /\ IF draftOwner THEN PubGoto(p, "branch") ELSE PubStop(p)
  /\ GitHubUnchanged /\ UNCHANGED <<draftTask, draftReports>>

---------------------------------------------------------------------------
\* The branch.

\* Before and after an attempt to create it.
GetBranch(p) ==
  /\ \E pc \in {"branch", "created"} :
       /\ PubAt(p, pc)
       /\ IF draftBranch # NoRef THEN PubSee(p, "source", DraftHead)
          ELSE IF pc = "branch" THEN PubGoto(p, "create") ELSE PubStop(p)
  /\ GitHubUnchanged /\ UNCHANGED <<draftTask, draftReports>>

\* A reference is created once.
CreateBranch(p) ==
  /\ PubAt(p, "create")
  /\ IF draftBranch = NoRef
       THEN draftBranch' = << >> /\ PubGoto(p, "created")
       ELSE UNCHANGED draftBranch /\ PubStop(p)
  /\ UNCHANGED <<draftTask, draftOwner, draftPulls, draftLate, draftReports, draftDisturbed>>

\* The source is read by branch name, so possibly at a later head than the one
\* just read: untouched means write, otherwise it must be the product already.
GetSource(p) ==
  LET remote == SourceAt(draftBranch, DraftHead) IN
  /\ PubAt(p, "source")
  /\ IF publisher[p].head = 0 /\ remote = "before" THEN PubGoto(p, "replace")
     ELSE IF publisher[p].head # 0 /\ remote = "after" THEN PubGoto(p, "final")
     ELSE PubStop(p)
  /\ GitHubUnchanged /\ UNCHANGED <<draftTask, draftReports>>

\* Fault: the write does not name the blob it replaces.
ReplaceUnconditionally(branch) == TRUE

\* GitHub replaces the file only if it still has the blob the caller names:
\* the one at the base.
ReplaceAllowed(branch) == SourceAt(branch, Len(branch)) = "before"

ReplaceSource(p) ==
  /\ PubAt(p, "replace")
  /\ IF ReplaceAllowed(draftBranch)
       THEN draftBranch' = Append(draftBranch, Product) /\ PubGoto(p, "final")
       ELSE UNCHANGED draftBranch /\ PubStop(p)
  /\ UNCHANGED <<draftTask, draftOwner, draftPulls, draftLate, draftReports, draftDisturbed>>

FinalBranch(p) ==
  /\ PubAt(p, "final") /\ PubSee(p, "compare", DraftHead)
  /\ GitHubUnchanged /\ UNCHANGED <<draftTask, draftReports>>

\* Fault: the head is not compared with the base.
ChangedPathsUnread(head) == TRUE

\* changed_paths: the head is one commit above the base and modifies the file
\* and nothing else.
ChangedPathsOk(head) ==
  /\ head = 1
  /\ ~draftBranch[1].others /\ draftBranch[1].source # "before"

CompareHead(p) ==
  /\ PubAt(p, "compare")
  /\ IF /\ publisher[p].head # 0
        /\ SourceAt(draftBranch, DraftHead) = "after"
        /\ ChangedPathsOk(publisher[p].head)
       THEN PubGoto(p, "find") ELSE PubStop(p)
  /\ GitHubUnchanged /\ UNCHANGED <<draftTask, draftReports>>

---------------------------------------------------------------------------
\* The pull request.

\* An open request follows the branch; a closed one keeps its last head.
PullHead(r) == IF r.open THEN DraftHead ELSE r.head

\* find_pr: every request ever opened from the branch, at most one of them.
FoundPull == IF Cardinality(draftPulls) = 1 THEN draftPulls ELSE {}

\* Open, still a draft, and at the head whose content was compared.
PullVerified(r, head) == r.open /\ r.draft /\ PullHead(r) = head

FindPull(p) ==
  /\ \E pc \in {"find", "verify"} :
       /\ PubAt(p, pc)
       /\ IF pc = "find" /\ draftPulls = {}
            THEN PubGoto(p, "pull") /\ UNCHANGED draftReports
            ELSE /\ PubStop(p)
                 /\ draftReports' = draftReports \cup
                      {publisher[p].head : r \in {q \in FoundPull : PullVerified(q, publisher[p].head)}}
  /\ GitHubUnchanged /\ UNCHANGED draftTask

\* GitHub opens a request for a branch with commits and no open request.
OpenPull(pulls, branch) ==
  IF branch \notin {NoRef, << >>} /\ \A r \in pulls : ~r.open
    THEN pulls \cup {[id |-> Cardinality(pulls), open |-> TRUE, draft |-> TRUE, head |-> 0]}
    ELSE pulls

CreatePull(p) ==
  /\ PubAt(p, "pull")
  /\ draftPulls' = OpenPull(draftPulls, draftBranch)
  /\ IF draftPulls' # draftPulls THEN PubGoto(p, "verify") ELSE PubStop(p)
  /\ UNCHANGED <<draftTask, draftOwner, draftBranch, draftLate, draftReports, draftDisturbed>>

\* No answer to a write: the publisher stops, and only a new run, which reads
\* everything again, may go on.
PublisherUnanswered(p) ==
  /\ publisher[p].pc \in {"create", "replace", "pull"}
  /\ draftLate' = draftLate \cup {publisher[p].pc}
  /\ PubStop(p)
  /\ UNCHANGED <<draftTask, draftOwner, draftBranch, draftPulls, draftReports, draftDisturbed>>

PublisherStep(p) ==
  \/ StartPublication(p) \/ AdmitAgain(p) \/ GetBranch(p) \/ CreateBranch(p)
  \/ GetSource(p) \/ ReplaceSource(p) \/ FinalBranch(p) \/ CompareHead(p)
  \/ FindPull(p) \/ CreatePull(p) \/ PublisherUnanswered(p)

---------------------------------------------------------------------------
\* The environment.

\* A write nobody waits for any more is served.
DraftServeLate ==
  /\ \E r \in draftLate :
       /\ draftLate' = draftLate \ {r}
       /\ draftBranch' =
            IF r = "create" /\ draftBranch = NoRef THEN << >>
            ELSE IF r = "replace" /\ ReplaceAllowed(draftBranch) THEN Append(draftBranch, Product)
            ELSE draftBranch
       /\ draftPulls' = IF r = "pull" THEN OpenPull(draftPulls, draftBranch) ELSE draftPulls
  /\ UNCHANGED <<draftTask, draftOwner, publisher, draftReports, draftDisturbed>>

\* The pool completes the task.
TaskCompletes ==
  /\ ~draftTask /\ draftTask' = TRUE
  /\ GitHubUnchanged /\ UNCHANGED <<publisher, draftReports>>

\* Main moves, somebody pushes, or closes or readies the request.
DraftDisturb ==
  /\ draftDisturbed < DraftDisturbances /\ draftDisturbed' = draftDisturbed + 1
  /\ \/ draftOwner /\ draftOwner' = FALSE /\ UNCHANGED <<draftBranch, draftPulls>>
     \/ /\ draftBranch # NoRef
        /\ \E c \in DraftCommits : draftBranch' = Append(draftBranch, c)
        /\ UNCHANGED <<draftOwner, draftPulls>>
     \/ \E r \in draftPulls :
          /\ r.open
          /\ \E changed \in {[r EXCEPT !.open = FALSE, !.head = DraftHead], [r EXCEPT !.draft = FALSE]} :
               draftPulls' = (draftPulls \ {r}) \cup {changed}
          /\ UNCHANGED <<draftOwner, draftBranch>>
  /\ UNCHANGED <<draftTask, draftLate, publisher, draftReports>>

DraftNext ==
  (\E p \in Publishers : PublisherStep(p)) \/ DraftServeLate \/ TaskCompletes \/ DraftDisturb

DraftSpec == DraftInit /\ [][DraftNext]_draftVars

---------------------------------------------------------------------------
\* A head that publish_draft reported as DRAFT_PR_VERIFIED is one commit above
\* the admitted base that changes the reviewed file to the validated product
\* and nothing else, although branch, source, comparison and pull request are
\* read in separate requests and people push in between.
VerifiedHeadIsProduct ==
  \A head \in draftReports : head = 1 /\ draftBranch[1] = Product

\* Left to themselves, publishers never wedge the issue: whatever answers were
\* lost, late or duplicated by an overlapping run, the branch is absent, at the
\* base, or one product commit above it, with at most one request on it, open
\* and in draft, so that a later run can still finish.
PublicationRecoverable ==
  draftDisturbed = 0 =>
    /\ draftBranch \in {NoRef, << >>, <<Product>>}
    /\ draftPulls # {} => draftBranch = <<Product>>
    /\ Cardinality(draftPulls) <= 1 /\ \A r \in draftPulls : r.open /\ r.draft
=============================================================================
