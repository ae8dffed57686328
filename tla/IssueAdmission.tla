-------------------------- MODULE IssueAdmission --------------------------
(***************************************************************************)
(* How an issue becomes a task of the pool: the owner-approved route       *)
(* (app/issue_pool_admission.py through app/native_pool_http.py) and the   *)
(* portfolio route (app/portfolio_bridge.py, app/portfolio_todo.py).  Both *)
(* read their sources, check the lane, read the sources again and post one *)
(* task; the pool keeps the first task of a request identity.              *)
(***************************************************************************)
EXTENDS Naturals, FiniteSets

CONSTANTS
  IssueDispatchers,  \* runs of admit_to_existing_pool
  BridgeDispatchers, \* runs of the portfolio bridge
  AdmHeads,          \* bound: commits main goes through
  AdmRepaired,       \* heads at which the acceptance cases already pass
  AdmRuns            \* bound: times each dispatcher starts

ASSUME AdmAssumption ==
  /\ AdmHeads \in Nat \ {0} /\ AdmRepaired \subseteq 1..AdmHeads /\ AdmRuns \in Nat
  /\ IssueDispatchers \cap BridgeDispatchers = {}

VARIABLES
  admMain,           \* head of the default branch
  admOpen,           \* the issue is open
  admApproved,       \* heads an owner comment on the issue authorises
  admTodo,           \* the portfolio page is active and pending
  admLane,           \* the lane is enabled with max_in_flight 1
  admTasks,          \* tasks of the pool for this issue
  admLate,           \* posts received but not served
  dispatcher,        \* what each dispatcher is doing
  admReports         \* results returned to callers

admVars == <<admMain, admOpen, admApproved, admTodo, admLane, admTasks, admLate,
             dispatcher, admReports>>

Dispatchers == IssueDispatchers \cup BridgeDispatchers
Heads == 1..AdmHeads

AdmInit ==
  /\ admMain = 1 /\ admOpen = TRUE /\ admApproved = {} /\ admTodo = TRUE /\ admLane = FALSE
  /\ admTasks = {} /\ admLate = {} /\ admReports = {}
  /\ dispatcher = [d \in Dispatchers |->
                     [pc |-> "idle", base |-> 0, created |-> FALSE, left |-> AdmRuns]]

DispAt(d, pc) == dispatcher[d].pc = pc
DispGoto(d, pc) == dispatcher' = [dispatcher EXCEPT ![d].pc = pc]
DispStop(d) == dispatcher' = [dispatcher EXCEPT ![d] =
                 [pc |-> "idle", base |-> 0, created |-> FALSE, left |-> @.left]]
SourcesUnchanged == UNCHANGED <<admMain, admOpen, admApproved, admTodo, admLane>>

---------------------------------------------------------------------------
\* Fault: any open issue may be admitted.
OpenIssueBinding == admOpen

\* admit: main is at the base, the issue is open, and the owner's comment
\* authorises exactly that base.
OwnerBinding == admOpen /\ admMain \in admApproved

\* The page is pending and the issue behind it open, at the current head.
PortfolioSnapshot == admTodo /\ admOpen

\* prepare_portfolio_task: one identity per page, whatever the head.
PortfolioRequest == <<"todo", 0>>

\* One identity per issue and base.
IssueRequest(base) == <<"issue", base>>

AdmRequest(d) ==
  IF d \in IssueDispatchers THEN IssueRequest(dispatcher[d].base) ELSE PortfolioRequest

Admissible(d) == IF d \in IssueDispatchers THEN OwnerBinding ELSE PortfolioSnapshot

\* First reading; the owner's route also needs a baseline that really fails.
ReadSources(d) ==
  /\ DispAt(d, "idle") /\ dispatcher[d].left > 0
  /\ LET started == [dispatcher[d] EXCEPT !.left = @ - 1] IN
     dispatcher' = [dispatcher EXCEPT ![d] =
       IF Admissible(d) /\ (d \in IssueDispatchers => admMain \notin AdmRepaired)
         THEN [started EXCEPT !.pc = "lane", !.base = admMain] ELSE started]
  /\ SourcesUnchanged /\ UNCHANGED <<admTasks, admLate, admReports>>

\* list_repositories: exactly one task in flight, lane enabled.
CheckLane(d) ==
  /\ DispAt(d, "lane")
  /\ IF admLane THEN DispGoto(d, "reread") ELSE DispStop(d)
  /\ SourcesUnchanged /\ UNCHANGED <<admTasks, admLate, admReports>>

ReadSourcesAgain(d) ==
  /\ DispAt(d, "reread")
  /\ IF Admissible(d) /\ admMain = dispatcher[d].base THEN DispGoto(d, "post") ELSE DispStop(d)
  /\ SourcesUnchanged /\ UNCHANGED <<admTasks, admLate, admReports>>

\* The pool stores the first task of a request and returns it to every replay.
PoolPost(tasks, post) ==
  IF \E t \in tasks : t.request = post.request THEN tasks ELSE tasks \cup {post}

AdmPosting(d) == [request |-> AdmRequest(d), base |-> dispatcher[d].base]

PostTask(d) ==
  /\ DispAt(d, "post")
  /\ admTasks' = PoolPost(admTasks, AdmPosting(d))
  /\ dispatcher' = [dispatcher EXCEPT ![d].pc = "readback", ![d].created = admTasks' # admTasks]
  /\ SourcesUnchanged /\ UNCHANGED <<admLate, admReports>>

\* No answer: the run ends, the post may still arrive.
PostUnanswered(d) ==
  /\ DispAt(d, "post")
  /\ admLate' = admLate \cup {AdmPosting(d)}
  /\ DispStop(d)
  /\ SourcesUnchanged /\ UNCHANGED <<admTasks, admReports>>

\* Fault: only the identity of the task is compared.
BridgeReadbackIdentity(d, task) == task.request = AdmRequest(d)

\* The task read back has the identity and the base that were posted.
IssueReadbackOk(d, task) == task = AdmPosting(d)
BridgeReadbackOk(d, task) == task = AdmPosting(d)

ReadTaskBack(d) ==
  LET task == CHOOSE t \in admTasks : t.request = AdmRequest(d)
      ok == IF d \in IssueDispatchers THEN IssueReadbackOk(d, task) ELSE BridgeReadbackOk(d, task)
  IN
  /\ DispAt(d, "readback")
  /\ admReports' = IF ok THEN admReports \cup
       {[request |-> task.request, base |-> dispatcher[d].base,
         created |-> dispatcher[d].created, by |-> d]} ELSE admReports
  /\ DispStop(d)
  /\ SourcesUnchanged /\ UNCHANGED <<admTasks, admLate>>

---------------------------------------------------------------------------
\* The environment: late posts, main, the owner, the issue, the page, the lane.
AdmServeLate ==
  /\ \E post \in admLate : admLate' = admLate \ {post} /\ admTasks' = PoolPost(admTasks, post)
  /\ SourcesUnchanged /\ UNCHANGED <<dispatcher, admReports>>

SourcesChange ==
  /\ \/ admMain < AdmHeads /\ admMain' = admMain + 1 /\ UNCHANGED <<admOpen, admApproved, admTodo, admLane>>
     \/ /\ admMain \notin admApproved /\ admApproved' = admApproved \cup {admMain}
        /\ UNCHANGED <<admMain, admOpen, admTodo, admLane>>
     \/ admOpen /\ admOpen' = FALSE /\ UNCHANGED <<admMain, admApproved, admTodo, admLane>>
     \/ admTodo /\ admTodo' = FALSE /\ UNCHANGED <<admMain, admOpen, admApproved, admLane>>
     \/ ~admLane /\ admLane' = TRUE /\ UNCHANGED <<admMain, admOpen, admApproved, admTodo>>
  /\ UNCHANGED <<admTasks, admLate, dispatcher, admReports>>

AdmNext ==
  \/ \E d \in Dispatchers :
       \/ ReadSources(d) \/ CheckLane(d) \/ ReadSourcesAgain(d)
       \/ PostTask(d) \/ PostUnanswered(d) \/ ReadTaskBack(d)
  \/ AdmServeLate \/ SourcesChange

AdmSpec == AdmInit /\ [][AdmNext]_admVars

---------------------------------------------------------------------------
\* A dispatcher that reports an admission tells the truth about the pool: the
\* one task of that request has the base it names, and of all the runs that
\* report the request at most one created it.  The portfolio identity does not
\* contain the base, so after main has moved a repeated run meets its own older
\* task, and an unanswered post may turn up at any time.
ReportMatchesTask ==
  \A r \in admReports :
    /\ [request |-> r.request, base |-> r.base] \in admTasks
    /\ r.created => \A s \in admReports : s.request = r.request /\ s.created => s = r

\* Every task of the owner's route is for a head the owner authorised and at
\* which the acceptance cases fail, however long ago its post was sent.
AdmittedIsApproved ==
  \A t \in admTasks : t.request[1] = "issue" =>
    t.base \in admApproved \ AdmRepaired /\ t.request = IssueRequest(t.base)
=============================================================================
