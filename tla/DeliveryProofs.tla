-------------------------- MODULE DeliveryProofs ----------------------------
(***************************************************************************)
(* Proofs about the components that bring an issue to main: the admission  *)
(* of a task, the research for it, the draft pull request of its product   *)
(* and the governed merge.  Each of them reads GitHub or the pool several  *)
(* times and acts on what it read; the invariants say what a process may   *)
(* still rely on at each point of its run, and why nothing that happens in *)
(* between takes it away.  They hold for any number of processes, runs,    *)
(* heads and disturbances.                                                 *)
(***************************************************************************)
EXTENDS IssueAdmission, IssueResearch, DraftPublication, GovernedMerge,
        FiniteSetTheorems, TLAPS

-----------------------------------------------------------------------------
(***************************************************************************)
(* Admission.  A task, once in the pool, stays; so a creator is known to be*)
(* the only one from its post to its report.                               *)
(***************************************************************************)

AdmPoints == {"idle", "lane", "reread", "post", "readback"}
DispatcherRow == [pc : AdmPoints, base : Nat, created : BOOLEAN, left : Nat]
AdmPost == [request : {"issue", "todo"} \X Nat, base : Nat]

\* The identity a dispatcher in this row posts under.
RowRequest(d, row) == IF d \in IssueDispatchers THEN IssueRequest(row.base) ELSE PortfolioRequest

\* A dispatcher of the owner's route under way has an approved base.
RowApproved(d, row, approved) ==
  d \in IssueDispatchers /\ row.pc # "idle" => row.base \in approved \ AdmRepaired

PostApproved(post, approved) ==
  post.request[1] = "issue" =>
    post.base \in approved \ AdmRepaired /\ post.request = IssueRequest(post.base)

\* A dispatcher that has posted and is to answer whether it created the task.
Awaits(row) == row.pc = "readback"
Creator(row) == Awaits(row) /\ row.created

AdmTypes ==
  /\ admMain \in Nat /\ admApproved \subseteq Nat
  /\ admTasks \subseteq AdmPost /\ admLate \subseteq AdmPost
  /\ dispatcher \in [Dispatchers -> DispatcherRow]

\* Somebody who waits for the readback has a task to read.
Posted(row, d, tasks) == Awaits(row) => \E t \in tasks : t.request = RowRequest(d, row)

\* No second creator of a request, among the dispatchers still to report and
\* the reports already made.
OneCreator(rows, reports) ==
  /\ \A d, e \in Dispatchers :
       Creator(rows[d]) /\ Creator(rows[e]) /\ RowRequest(d, rows[d]) = RowRequest(e, rows[e])
         => d = e
  /\ \A d \in Dispatchers, r \in reports :
       Creator(rows[d]) /\ r.request = RowRequest(d, rows[d]) => ~r.created

AdmInv ==
  /\ AdmTypes
  /\ \A d \in Dispatchers : RowApproved(d, dispatcher[d], admApproved)
  /\ \A t \in admTasks \cup admLate : PostApproved(t, admApproved)
  /\ \A d \in Dispatchers : Posted(dispatcher[d], d, admTasks)
  /\ OneCreator(dispatcher, admReports)
  /\ ReportMatchesTask

LEMMA AdmInvSuffices == AdmInv => ReportMatchesTask /\ AdmittedIsApproved
BY DEF AdmInv, AdmittedIsApproved, PostApproved

LEMMA AdmInitInv == AdmInit => AdmInv
BY AdmAssumption DEF AdmInit, AdmInv, AdmTypes, RowApproved, PostApproved, Posted, OneCreator,
     Creator, Awaits, ReportMatchesTask, DispatcherRow, AdmPoints

\* What a post leaves in the pool.
LEMMA PoolPostTasks ==
  ASSUME NEW tasks, NEW post
  PROVE  /\ tasks \subseteq PoolPost(tasks, post)
         /\ PoolPost(tasks, post) \subseteq tasks \cup {post}
         /\ \E t \in PoolPost(tasks, post) : t.request = post.request
         /\ PoolPost(tasks, post) # tasks => \A t \in tasks : t.request # post.request
BY DEF PoolPost

\* What a dispatcher posts, in terms of its row.
LEMMA PostingOfRow ==
  ASSUME AdmInv, NEW d \in Dispatchers, dispatcher[d].pc # "idle"
  PROVE  /\ AdmPosting(d) \in AdmPost /\ PostApproved(AdmPosting(d), admApproved)
         /\ AdmPosting(d).request = RowRequest(d, dispatcher[d])
         /\ AdmPosting(d).base = dispatcher[d].base
<1>1. dispatcher[d] \in DispatcherRow
  BY DEF AdmInv, AdmTypes
<1>2. dispatcher[d].base \in Nat
  BY <1>1 DEF DispatcherRow
<1>3. RowApproved(d, dispatcher[d], admApproved)
  BY DEF AdmInv
<1>4. AdmPosting(d).base = dispatcher[d].base
  BY DEF AdmPosting
<1>5. AdmPosting(d).request = RowRequest(d, dispatcher[d])
  BY DEF AdmPosting, AdmRequest, RowRequest
<1>6. RowRequest(d, dispatcher[d]) \in {"issue", "todo"} \X Nat
  BY <1>2 DEF RowRequest, IssueRequest, PortfolioRequest
<1>7. AdmPosting(d) \in AdmPost
  BY <1>2, <1>5, <1>6 DEF AdmPosting, AdmPost
<1>8. PostApproved(AdmPosting(d), admApproved)
  <2>1. CASE d \in IssueDispatchers
    BY <1>3, <1>4, <1>5, <2>1 DEF PostApproved, RowApproved, RowRequest
  <2>2. CASE d \notin IssueDispatchers
    <3>1. AdmPosting(d).request[1] = "todo"
      BY <1>5, <2>2 DEF RowRequest, PortfolioRequest
    <3> QED BY <3>1 DEF PostApproved
  <2> QED BY <2>1, <2>2
<1> QED BY <1>4, <1>5, <1>7, <1>8

\* A dispatcher that moves on without having posted.
LEMMA DispatcherMoves ==
  ASSUME AdmInv, NEW d \in Dispatchers, NEW row \in DispatcherRow,
         dispatcher' = [dispatcher EXCEPT ![d] = row],
         ~Awaits(row), RowApproved(d, row, admApproved),
         UNCHANGED <<admMain, admApproved, admTasks, admReports>>,
         admLate' \subseteq AdmPost,
         \A post \in admLate' : PostApproved(post, admApproved)
  PROVE  AdmInv'
<1>1. AdmTypes'
  BY DEF AdmInv, AdmTypes
<1>2. /\ \A e \in Dispatchers : RowApproved(e, dispatcher'[e], admApproved')
      /\ \A e \in Dispatchers : Posted(dispatcher'[e], e, admTasks')
  BY DEF AdmInv, AdmTypes, Posted
<1>3. OneCreator(dispatcher', admReports')
  BY DEF AdmInv, AdmTypes, OneCreator, Creator
<1>4. \A t \in admTasks' \cup admLate' : PostApproved(t, admApproved')
  BY DEF AdmInv
<1>5. ReportMatchesTask'
  BY DEF AdmInv, ReportMatchesTask
<1> QED BY <1>1, <1>2, <1>3, <1>4, <1>5 DEF AdmInv

\* A dispatcher that stops.
LEMMA DispatcherStops ==
  ASSUME AdmInv, NEW d \in Dispatchers, DispStop(d),
         UNCHANGED <<admMain, admApproved, admTasks, admReports>>,
         admLate' \subseteq AdmPost,
         \A post \in admLate' : PostApproved(post, admApproved)
  PROVE  AdmInv'
<1> DEFINE row == [pc |-> "idle", base |-> 0, created |-> FALSE, left |-> dispatcher[d].left]
<1>1. dispatcher[d] \in DispatcherRow
  BY DEF AdmInv, AdmTypes
<1>2. row \in DispatcherRow /\ row.pc = "idle"
  BY <1>1 DEF DispatcherRow, AdmPoints
<1>3. dispatcher' = [dispatcher EXCEPT ![d] = row]
  BY DEF DispStop
<1> HIDE DEF row
<1>4. ~Awaits(row) /\ RowApproved(d, row, admApproved)
  BY <1>2 DEF Awaits, RowApproved
<1> QED BY <1>2, <1>3, <1>4, DispatcherMoves

\* A dispatcher that goes on with the base it has read.
LEMMA DispatcherGoes ==
  ASSUME AdmInv, NEW d \in Dispatchers, NEW pc \in AdmPoints \ {"readback"},
         dispatcher[d].pc # "idle", DispGoto(d, pc),
         UNCHANGED <<admMain, admApproved, admTasks, admLate, admReports>>
  PROVE  AdmInv'
<1> DEFINE row == [dispatcher[d] EXCEPT !.pc = pc]
<1>1. dispatcher[d] \in DispatcherRow
  BY DEF AdmInv, AdmTypes
<1>2. row \in DispatcherRow /\ row.pc = pc /\ row.base = dispatcher[d].base
  BY <1>1 DEF DispatcherRow
<1>3. dispatcher' = [dispatcher EXCEPT ![d] = row]
  BY DEF DispGoto, AdmInv, AdmTypes
<1>4. RowApproved(d, dispatcher[d], admApproved)
  BY DEF AdmInv
<1>5. ~Awaits(row) /\ RowApproved(d, row, admApproved)
  BY <1>2, <1>4 DEF Awaits, RowApproved
<1>6. admLate' \subseteq AdmPost /\ \A post \in admLate' : PostApproved(post, admApproved)
  BY DEF AdmInv, AdmTypes
<1> HIDE DEF row
<1> QED BY <1>2, <1>3, <1>5, <1>6, DispatcherMoves

\* The pool serves a post: nothing it had is lost.
LEMMA PoolGrows ==
  ASSUME AdmInv, NEW post \in AdmPost, PostApproved(post, admApproved),
         admTasks' = PoolPost(admTasks, post), admLate' \subseteq admLate,
         UNCHANGED <<admMain, admApproved, admReports>>
  PROVE  /\ admTasks \subseteq admTasks' /\ admTasks' \subseteq AdmPost
         /\ \A t \in admTasks' \cup admLate' : PostApproved(t, admApproved')
         /\ ReportMatchesTask'
         /\ \A d \in Dispatchers : \A row : Posted(row, d, admTasks) => Posted(row, d, admTasks')
<1>1. admTasks \subseteq admTasks' /\ admTasks' \subseteq admTasks \cup {post}
  BY PoolPostTasks
<1>2. admTasks' \subseteq AdmPost
  BY <1>1 DEF AdmInv, AdmTypes
<1>3. \A t \in admTasks' \cup admLate' : PostApproved(t, admApproved')
  BY <1>1 DEF AdmInv
<1>4. ReportMatchesTask'
  BY <1>1 DEF AdmInv, ReportMatchesTask
<1>5. \A d \in Dispatchers : \A row : Posted(row, d, admTasks) => Posted(row, d, admTasks')
  BY <1>1 DEF Posted
<1> QED BY <1>1, <1>2, <1>3, <1>4, <1>5

LEMMA PostTaskKeeps ==
  ASSUME AdmInv, NEW d \in Dispatchers, PostTask(d)
  PROVE  AdmInv'
<1> DEFINE post == AdmPosting(d)
           created == PoolPost(admTasks, post) # admTasks
           row == [dispatcher[d] EXCEPT !.pc = "readback", !.created = created]
<1>1. dispatcher[d] \in DispatcherRow /\ dispatcher[d].pc = "post"
  BY DEF AdmInv, AdmTypes, PostTask, DispAt
<1>2. /\ post \in AdmPost /\ PostApproved(post, admApproved)
      /\ post.request = RowRequest(d, dispatcher[d])
  BY <1>1, PostingOfRow
<1>3. admTasks' = PoolPost(admTasks, post)
      /\ UNCHANGED <<admMain, admApproved, admLate, admReports>>
  BY DEF PostTask, SourcesUnchanged
<1>4. created \in BOOLEAN
  OBVIOUS
<1>5. dispatcher' = [dispatcher EXCEPT ![d].pc = "readback", ![d].created = created]
  BY <1>3 DEF PostTask
<1>6. created => \A t \in admTasks : t.request # post.request
  BY PoolPostTasks
<1>7. \E t \in admTasks' : t.request = post.request
  BY <1>3, PoolPostTasks
<1> HIDE DEF created, post
<1>8. row \in DispatcherRow /\ row.pc = "readback" /\ row.base = dispatcher[d].base
      /\ row.created = created
  BY <1>1, <1>4 DEF DispatcherRow, AdmPoints
<1>9. dispatcher' = [dispatcher EXCEPT ![d] = row]
  BY <1>5 DEF AdmInv, AdmTypes
<1>10. RowRequest(d, row) = post.request /\ RowApproved(d, row, admApproved)
  <2>1. RowApproved(d, dispatcher[d], admApproved)
    BY DEF AdmInv
  <2> QED BY <1>1, <1>2, <1>8, <2>1 DEF RowRequest, RowApproved
<1> HIDE DEF row
<1>11. /\ admTasks \subseteq admTasks' /\ admTasks' \subseteq AdmPost
       /\ \A t \in admTasks' \cup admLate' : PostApproved(t, admApproved')
       /\ ReportMatchesTask'
       /\ \A e \in Dispatchers : \A x : Posted(x, e, admTasks) => Posted(x, e, admTasks')
  BY <1>2, <1>3, PoolGrows
<1>12. AdmTypes'
  BY <1>3, <1>8, <1>9, <1>11 DEF AdmInv, AdmTypes
<1>13. \A e \in Dispatchers : RowApproved(e, dispatcher'[e], admApproved')
  BY <1>3, <1>9, <1>10 DEF AdmInv, AdmTypes
<1>14. Posted(row, d, admTasks')
  BY <1>7, <1>10 DEF Posted
<1>15. \A e \in Dispatchers : Posted(dispatcher'[e], e, admTasks')
  BY <1>9, <1>11, <1>14 DEF AdmInv, AdmTypes
<1>16. OneCreator(dispatcher', admReports')
  <2>1. dispatcher'[d] = row /\ \A e \in Dispatchers : e # d => dispatcher'[e] = dispatcher[e]
    BY <1>9 DEF AdmInv, AdmTypes
  <2>2. ASSUME NEW e \in Dispatchers, e # d, Creator(dispatcher[e]), Creator(row)
        PROVE  RowRequest(e, dispatcher[e]) # RowRequest(d, row)
    <3>1. \E t \in admTasks : t.request = RowRequest(e, dispatcher[e])
      BY <2>2 DEF AdmInv, Posted, Creator
    <3> QED BY <1>6, <1>8, <1>10, <2>2, <3>1 DEF Creator
  <2>3. ASSUME NEW r \in admReports, Creator(row)
        PROVE  r.request # RowRequest(d, row)
    <3>1. [request |-> r.request, base |-> r.base] \in admTasks
      BY DEF AdmInv, ReportMatchesTask
    <3>2. \E t \in admTasks : t.request = r.request
      BY <3>1
    <3> QED BY <1>6, <1>8, <1>10, <2>3, <3>2 DEF Creator
  <2>4. OneCreator(dispatcher, admReports) /\ admReports' = admReports
    BY <1>3 DEF AdmInv
  <2> QED BY <2>1, <2>2, <2>3, <2>4 DEF OneCreator
<1> QED BY <1>11, <1>12, <1>13, <1>15, <1>16 DEF AdmInv

LEMMA ReadTaskBackKeeps ==
  ASSUME AdmInv, NEW d \in Dispatchers, ReadTaskBack(d)
  PROVE  AdmInv'
<1> DEFINE task == CHOOSE t \in admTasks : t.request = AdmRequest(d)
           row == [pc |-> "idle", base |-> 0, created |-> FALSE, left |-> dispatcher[d].left]
           report == [request |-> task.request, base |-> dispatcher[d].base,
                      created |-> dispatcher[d].created, by |-> d]
<1>1. dispatcher[d] \in DispatcherRow /\ Awaits(dispatcher[d]) /\ dispatcher[d].pc # "idle"
  BY DEF AdmInv, AdmTypes, ReadTaskBack, DispAt, Awaits
<1>2. UNCHANGED <<admMain, admApproved, admTasks, admLate>> /\ DispStop(d)
  BY DEF ReadTaskBack, SourcesUnchanged
<1>3. AdmRequest(d) = RowRequest(d, dispatcher[d])
  BY DEF AdmRequest, RowRequest
<1>4. task \in admTasks /\ task.request = AdmRequest(d)
  <2>1. \E t \in admTasks : t.request = AdmRequest(d)
    BY <1>1, <1>3 DEF AdmInv, Posted
  <2> QED BY <2>1
<1>5. \/ admReports' = admReports
      \/ admReports' = admReports \cup {report} /\ task = AdmPosting(d)
  BY DEF ReadTaskBack, IssueReadbackOk, BridgeReadbackOk
<1>6. admLate' \subseteq AdmPost /\ \A post \in admLate' : PostApproved(post, admApproved)
  BY <1>2 DEF AdmInv, AdmTypes
<1> HIDE DEF task
<1>7. CASE admReports' = admReports
  BY <1>2, <1>6, <1>7, DispatcherStops
<1>8. CASE admReports' = admReports \cup {report} /\ task = AdmPosting(d)
  <2>1. /\ report.request = RowRequest(d, dispatcher[d]) /\ report.base = dispatcher[d].base
        /\ report.created = dispatcher[d].created
    BY <1>3, <1>4
  <2>2. [request |-> report.request, base |-> report.base] = task
    BY <1>8, <1>3, <2>1 DEF AdmPosting
  <2>3. row \in DispatcherRow /\ row.pc = "idle"
    BY <1>1 DEF DispatcherRow, AdmPoints
  <2>4. dispatcher' = [dispatcher EXCEPT ![d] = row]
    BY <1>2 DEF DispStop
  <2> HIDE DEF row, report
  <2>5. ~Awaits(row) /\ RowApproved(d, row, admApproved)
    BY <2>3 DEF Awaits, RowApproved
  <2>6. dispatcher'[d] = row /\ \A e \in Dispatchers : e # d => dispatcher'[e] = dispatcher[e]
    BY <2>4 DEF AdmInv, AdmTypes
  <2>7. AdmTypes'
    BY <1>2, <2>3, <2>4 DEF AdmInv, AdmTypes
  <2>8. /\ \A e \in Dispatchers : RowApproved(e, dispatcher'[e], admApproved')
        /\ \A e \in Dispatchers : Posted(dispatcher'[e], e, admTasks')
        /\ \A t \in admTasks' \cup admLate' : PostApproved(t, admApproved')
    BY <1>2, <2>5, <2>6 DEF AdmInv, Posted
  <2>9. OneCreator(dispatcher, admReports)
    BY DEF AdmInv
  <2>10. OneCreator(dispatcher', admReports')
    <3>1. ASSUME NEW e \in Dispatchers, Creator(dispatcher'[e]),
                 report.request = RowRequest(e, dispatcher'[e])
          PROVE  ~report.created
      <4>1. e # d /\ dispatcher'[e] = dispatcher[e]
        BY <2>5, <2>6, <3>1 DEF Creator
      <4> QED BY <1>1, <2>1, <2>9, <3>1, <4>1 DEF OneCreator, Creator
    <3>2. \A e \in Dispatchers : Creator(dispatcher'[e]) => dispatcher'[e] = dispatcher[e]
      BY <2>5, <2>6 DEF Creator
    <3> QED BY <1>8, <2>9, <3>1, <3>2 DEF OneCreator
  <2>11. ReportMatchesTask'
    <3>1. \A r \in admReports' : [request |-> r.request, base |-> r.base] \in admTasks'
      BY <1>2, <1>4, <1>8, <2>2 DEF AdmInv, ReportMatchesTask
    <3>2. ASSUME NEW r \in admReports', NEW s \in admReports', r.created, s.created,
                 s.request = r.request
          PROVE  s = r
      <4>1. ASSUME NEW q \in admReports, q.created, q.request = report.request, report.created
            PROVE  FALSE
        BY <1>1, <2>1, <2>9, <4>1 DEF OneCreator, Creator
      <4>2. r \in admReports /\ s \in admReports => s = r
        BY <3>2 DEF AdmInv, ReportMatchesTask
      <4> QED BY <1>8, <3>2, <4>1, <4>2
    <3> QED BY <3>1, <3>2 DEF ReportMatchesTask
  <2> QED BY <2>7, <2>8, <2>10, <2>11 DEF AdmInv
<1> QED BY <1>5, <1>7, <1>8

LEMMA ReadSourcesKeeps ==
  ASSUME AdmInv, NEW d \in Dispatchers, ReadSources(d)
  PROVE  AdmInv'
<1> DEFINE left == dispatcher[d].left - 1
           started == [dispatcher[d] EXCEPT !.left = left]
           reading == [started EXCEPT !.pc = "lane", !.base = admMain]
           ok == Admissible(d) /\ (d \in IssueDispatchers => admMain \notin AdmRepaired)
           row == IF ok THEN reading ELSE started
<1>1. dispatcher[d] \in DispatcherRow /\ dispatcher[d].pc = "idle" /\ admMain \in Nat
  BY DEF AdmInv, AdmTypes, ReadSources, DispAt
<1>2. left \in Nat
  BY <1>1 DEF ReadSources, DispatcherRow
<1>3. dispatcher' = [dispatcher EXCEPT ![d] = row]
  BY DEF ReadSources
<1>4. UNCHANGED <<admMain, admApproved, admTasks, admReports>> /\ admLate' = admLate
  BY DEF ReadSources, SourcesUnchanged
<1>5. ok /\ d \in IssueDispatchers => admMain \in admApproved \ AdmRepaired
  BY DEF Admissible, OwnerBinding
<1> HIDE DEF left
<1>6. started \in DispatcherRow /\ started.pc = "idle"
  BY <1>1, <1>2 DEF DispatcherRow
<1> HIDE DEF started
<1>7. reading \in DispatcherRow /\ reading.pc = "lane" /\ reading.base = admMain
  BY <1>1, <1>6 DEF DispatcherRow, AdmPoints
<1> HIDE DEF reading, ok
<1>8. row \in DispatcherRow /\ ~Awaits(row) /\ RowApproved(d, row, admApproved)
  BY <1>5, <1>6, <1>7 DEF Awaits, RowApproved
<1>9. admLate' \subseteq AdmPost /\ \A post \in admLate' : PostApproved(post, admApproved)
  BY <1>4 DEF AdmInv, AdmTypes
<1> HIDE DEF row
<1> QED BY <1>3, <1>4, <1>8, <1>9, DispatcherMoves

LEMMA DispatcherStepKeeps ==
  ASSUME AdmInv, NEW d \in Dispatchers,
         \/ ReadSources(d) \/ CheckLane(d) \/ ReadSourcesAgain(d)
         \/ PostTask(d) \/ PostUnanswered(d) \/ ReadTaskBack(d)
  PROVE  AdmInv'
<1>0. admLate \subseteq AdmPost /\ \A post \in admLate : PostApproved(post, admApproved)
  BY DEF AdmInv, AdmTypes
<1>1. CASE CheckLane(d)
  <2>1. UNCHANGED <<admMain, admApproved, admTasks, admLate, admReports>> /\ dispatcher[d].pc = "lane"
    BY <1>1 DEF CheckLane, SourcesUnchanged, DispAt
  <2>2. DispGoto(d, "reread") \/ DispStop(d)
    BY <1>1 DEF CheckLane
  <2> QED BY <1>0, <2>1, <2>2, DispatcherStops, DispatcherGoes DEF AdmPoints
<1>2. CASE ReadSourcesAgain(d)
  <2>1. UNCHANGED <<admMain, admApproved, admTasks, admLate, admReports>> /\ dispatcher[d].pc = "reread"
    BY <1>2 DEF ReadSourcesAgain, SourcesUnchanged, DispAt
  <2>2. DispGoto(d, "post") \/ DispStop(d)
    BY <1>2 DEF ReadSourcesAgain
  <2> QED BY <1>0, <2>1, <2>2, DispatcherStops, DispatcherGoes DEF AdmPoints
<1>3. CASE PostUnanswered(d)
  <2>1. UNCHANGED <<admMain, admApproved, admTasks, admReports>> /\ DispStop(d)
        /\ dispatcher[d].pc = "post" /\ admLate' = admLate \cup {AdmPosting(d)}
    BY <1>3 DEF PostUnanswered, SourcesUnchanged, DispAt
  <2>2. AdmPosting(d) \in AdmPost /\ PostApproved(AdmPosting(d), admApproved)
    BY <2>1, PostingOfRow
  <2>3. admLate' \subseteq AdmPost /\ \A post \in admLate' : PostApproved(post, admApproved)
    BY <1>0, <2>1, <2>2
  <2> QED BY <2>1, <2>3, DispatcherStops
<1> QED BY <1>1, <1>2, <1>3, ReadSourcesKeeps, PostTaskKeeps, ReadTaskBackKeeps

LEMMA ServeLateKeeps ==
  ASSUME AdmInv, AdmServeLate
  PROVE  AdmInv'
<1>1. PICK post \in admLate : admLate' = admLate \ {post} /\ admTasks' = PoolPost(admTasks, post)
  BY DEF AdmServeLate
<1>2. UNCHANGED <<admMain, admApproved, dispatcher, admReports>>
  BY DEF AdmServeLate, SourcesUnchanged
<1>3. post \in AdmPost /\ PostApproved(post, admApproved) /\ admLate' \subseteq admLate
  BY <1>1 DEF AdmInv, AdmTypes
<1>4. /\ admTasks \subseteq admTasks' /\ admTasks' \subseteq AdmPost
      /\ \A t \in admTasks' \cup admLate' : PostApproved(t, admApproved')
      /\ ReportMatchesTask'
      /\ \A e \in Dispatchers : \A x : Posted(x, e, admTasks) => Posted(x, e, admTasks')
  BY <1>1, <1>2, <1>3, PoolGrows
<1>5. AdmTypes'
  BY <1>2, <1>3, <1>4 DEF AdmInv, AdmTypes
<1> QED BY <1>2, <1>4, <1>5 DEF AdmInv

LEMMA AdmStepKeeps ==
  ASSUME AdmInv, [AdmNext]_admVars
  PROVE  AdmInv'
<1>1. CASE SourcesChange
  <2>a. admMain \in Nat /\ admApproved \subseteq Nat
    BY DEF AdmInv, AdmTypes
  <2>b. \/ admMain' = admMain + 1 /\ admApproved' = admApproved
        \/ admMain' = admMain /\ admApproved' = admApproved \cup {admMain}
        \/ admMain' = admMain /\ admApproved' = admApproved
    BY <1>1, Zenon DEF SourcesChange
  <2>c. UNCHANGED <<admTasks, admLate, dispatcher, admReports>>
    BY <1>1 DEF SourcesChange
  <2>d. admApproved \subseteq admApproved' /\ admMain' \in Nat /\ admApproved' \subseteq Nat
    <3>1. admMain' = admMain + 1 \/ admMain' = admMain
      BY <2>b
    <3>2. admMain' \in Nat
      BY <2>a, <3>1
    <3>3. admApproved' = admApproved \/ admApproved' = admApproved \cup {admMain}
      BY <2>b
    <3>4. admApproved \subseteq admApproved' /\ admApproved' \subseteq Nat
      BY <2>a, <3>3, Zenon
    <3> QED BY <3>2, <3>4
  <2>1. UNCHANGED <<admTasks, admLate, dispatcher, admReports>> /\ admApproved \subseteq admApproved'
        /\ admMain' \in Nat /\ admApproved' \subseteq Nat
    BY <2>c, <2>d
  <2>2. AdmTypes' /\ ReportMatchesTask'
    BY <2>1 DEF AdmInv, AdmTypes, ReportMatchesTask
  <2>3. \A d \in Dispatchers : RowApproved(d, dispatcher'[d], admApproved')
    BY <2>1 DEF AdmInv, RowApproved
  <2>4. \A t \in admTasks' \cup admLate' : PostApproved(t, admApproved')
    BY <2>1 DEF AdmInv, PostApproved
  <2> QED BY <2>1, <2>2, <2>3, <2>4 DEF AdmInv
<1>2. CASE UNCHANGED admVars
  BY <1>2 DEF admVars, AdmInv, AdmTypes, ReportMatchesTask
<1> QED BY <1>1, <1>2, DispatcherStepKeeps, ServeLateKeeps DEF AdmNext

\* A dispatcher that reports an admission tells the truth about the pool, and
\* of all that report a request at most one created its task, for any number of
\* dispatchers of both routes, runs, heads and late posts.
THEOREM ReportsAreTrue == AdmSpec => []ReportMatchesTask
BY AdmInvSuffices, AdmInitInv, AdmStepKeeps, PTL DEF AdmSpec

\* Every task of the owner's route is for an authorised head at which the
\* acceptance cases fail, however late its post was served.
THEOREM TasksAreApproved == AdmSpec => []AdmittedIsApproved
BY AdmInvSuffices, AdmInitInv, AdmStepKeeps, PTL DEF AdmSpec

-----------------------------------------------------------------------------
(***************************************************************************)
(* Research.  resStanding implies resStood, and nothing after the reading of*)
(* the head calls a model again.                                           *)
(***************************************************************************)

ResearchPoints == {"idle", "plan", "retrieve", "select", "final", "bind", "confirm"}

ResearchRow ==
  [pc : ResearchPoints, calls : Nat, start : Nat, read : SUBSET ResSources,
   cited : BOOLEAN, left : Nat]

\* Once the head has been read after the last inference, no inference follows.
ResearchRead(row, stood) == row.pc \in {"bind", "confirm"} => stood

ResearchInv ==
  /\ resStanding \in BOOLEAN /\ resStood \in [Researchers -> BOOLEAN]
  /\ researcher \in [Researchers -> ResearchRow]
  /\ resStanding => \A r \in Researchers : resStood[r]
  /\ \A r \in Researchers : ResearchRead(researcher[r], resStood[r])
  /\ ReceiptStoodAfterModel

\* The places a step may leave a researcher in.
LEMMA ResearchIdleRow ==
  ASSUME NEW row \in ResearchRow
  PROVE  /\ ResearchIdle(row.calls, row.left) \in ResearchRow
         /\ ResearchIdle(row.calls, row.left).pc = "idle"
BY DEF ResearchIdle, ResearchRow, ResearchPoints

\* One researcher moves on, and nothing it returns is new.
LEMMA ResearcherMoves ==
  ASSUME ResearchInv, NEW r \in Researchers, NEW row \in ResearchRow,
         researcher' = [researcher EXCEPT ![r] = row],
         ResearchRead(row, resStood'[r]),
         \/ resStood' = resStood
         \/ resStood' = [resStood EXCEPT ![r] = resStanding],
         UNCHANGED <<resStanding, resReceipts, resBound>>
  PROVE  ResearchInv'
BY DEF ResearchInv, ResearchRead, ReceiptStoodAfterModel

\* The planner and the selecting model: the standing is unknown again.
LEMMA ModelCallKeeps ==
  ASSUME ResearchInv, NEW r \in Researchers, NEW row \in ResearchRow,
         row.pc \notin {"bind", "confirm"},
         ModelCall(r, [researcher EXCEPT ![r] = row]),
         UNCHANGED <<resStanding, resReceipts, resBound>>
  PROVE  ResearchInv'
<1> DEFINE next == [row EXCEPT !.calls = researcher[r].calls + 1]
<1>1. researcher[r] \in ResearchRow
  BY DEF ResearchInv
<1>2. next \in ResearchRow /\ next.pc = row.pc
  BY <1>1 DEF ResearchRow
<1>3. researcher' = [researcher EXCEPT ![r] = next]
  BY DEF ModelCall, ResearchInv
<1>4. resStood' = [resStood EXCEPT ![r] = resStanding]
  BY DEF ModelCall
<1>5. ResearchRead(next, resStood'[r])
  BY <1>2 DEF ResearchRead
<1> HIDE DEF next
<1> QED BY <1>2, <1>3, <1>4, <1>5, ResearcherMoves

\* A research that answers does so with a standing it has just read.
LEMMA AnswerKeeps ==
  ASSUME ResearchInv, NEW r \in Researchers, resStood[r], Answer(r),
         UNCHANGED <<resStanding, resStood, resBound>>
  PROVE  ResearchInv'
<1> DEFINE row == ResearchIdle(researcher[r].calls, researcher[r].left)
<1>1. researcher[r] \in ResearchRow
  BY DEF ResearchInv
<1>2. row \in ResearchRow /\ row.pc = "idle"
  BY <1>1, ResearchIdleRow
<1>3. researcher' = [researcher EXCEPT ![r] = row]
  BY DEF Answer, ResearchEnded
<1>4. Receipt(r).stood
  BY DEF Receipt
<1>5. resReceipts' = resReceipts \cup {Receipt(r)}
  BY DEF Answer
<1> HIDE DEF row
<1> QED BY <1>2, <1>3, <1>4, <1>5 DEF ResearchInv, ResearchRead, ReceiptStoodAfterModel

\* A research that gives up returns nothing.
LEMMA ResearchEndKeeps ==
  ASSUME ResearchInv, NEW r \in Researchers, researcher' = ResearchEnded(r),
         UNCHANGED <<resStanding, resStood, resReceipts, resBound>>
  PROVE  ResearchInv'
<1> DEFINE row == ResearchIdle(researcher[r].calls, researcher[r].left)
<1>1. researcher[r] \in ResearchRow
  BY DEF ResearchInv
<1>2. row \in ResearchRow /\ row.pc = "idle"
  BY <1>1, ResearchIdleRow
<1>3. researcher' = [researcher EXCEPT ![r] = row]
  BY DEF ResearchEnded
<1>4. ResearchRead(row, resStood'[r])
  BY <1>2 DEF ResearchRead
<1> HIDE DEF row
<1> QED BY <1>2, <1>3, <1>4, ResearcherMoves

\* A research goes to another place.
LEMMA ResearchGotoKeeps ==
  ASSUME ResearchInv, NEW r \in Researchers, NEW pc \in ResearchPoints,
         researcher' = [researcher EXCEPT ![r].pc = pc],
         pc \in {"bind", "confirm"} => resStood[r],
         UNCHANGED <<resStanding, resStood, resReceipts, resBound>>
  PROVE  ResearchInv'
<1> DEFINE row == [researcher[r] EXCEPT !.pc = pc]
<1>1. researcher[r] \in ResearchRow
  BY DEF ResearchInv
<1>2. row \in ResearchRow /\ row.pc = pc
  BY <1>1 DEF ResearchRow
<1>3. researcher' = [researcher EXCEPT ![r] = row]
  BY DEF ResearchInv
<1>4. ResearchRead(row, resStood'[r])
  BY <1>2 DEF ResearchRead
<1> HIDE DEF row
<1> QED BY <1>2, <1>3, <1>4, ResearcherMoves

LEMMA AfterRoundIsAPoint ==
  ASSUME NEW r
  PROVE  AfterRound(r) \in {"plan", "final"}
BY DEF AfterRound

LEMMA ResearcherStepKeeps ==
  ASSUME ResearchInv, NEW r \in Researchers,
         \/ ResearchStart(r) \/ ResearchPlan(r) \/ ResearchRetrieve(r) \/ ResearchSelect(r)
         \/ ResearchFinal(r) \/ ResearchBind(r) \/ ResearchConfirm(r)
  PROVE  ResearchInv'
<1>0. researcher[r] \in ResearchRow /\ researcher[r].read \subseteq ResSources
  BY DEF ResearchInv, ResearchRow
<1>a. AfterRound(r) \in {"plan", "final"}
  BY AfterRoundIsAPoint
<1>i. ASSUME ModelCall(r, ResearchEnded(r)), UNCHANGED <<resStanding, resReceipts, resBound>>
      PROVE  ResearchInv'
  <2> DEFINE row == ResearchIdle(researcher[r].calls, researcher[r].left)
  <2>1. row \in ResearchRow /\ row.pc = "idle"
    BY <1>0, ResearchIdleRow
  <2>2. ModelCall(r, [researcher EXCEPT ![r] = row])
    BY <1>i DEF ResearchEnded
  <2> HIDE DEF row
  <2> QED BY <1>i, <2>1, <2>2, ModelCallKeeps
<1>1. CASE ResearchStart(r)
  <2> DEFINE pc == IF resStanding THEN "plan" ELSE "idle"
             left == researcher[r].left - 1
             calls == researcher[r].calls
             row == [researcher[r] EXCEPT !.left = left, !.start = calls, !.pc = pc]
  <2>1. pc \in {"plan", "idle"} /\ left \in Nat /\ calls \in Nat
    BY <1>0, <1>1 DEF ResearchStart, ResearchRow
  <2>2. UNCHANGED <<resStanding, resStood, resReceipts, resBound>>
    BY <1>1 DEF ResearchStart
  <2>3. researcher' = [researcher EXCEPT ![r].left = left, ![r].start = calls, ![r].pc = pc]
    BY <1>1 DEF ResearchStart
  <2> HIDE DEF pc, left, calls
  <2>4. row \in ResearchRow /\ row.pc = pc
    BY <1>0, <2>1, <2>2 DEF ResearchRow, ResearchPoints
  <2>5. researcher' = [researcher EXCEPT ![r] = row]
    BY <2>3 DEF ResearchInv
  <2>6. ResearchRead(row, resStood'[r])
    BY <2>1, <2>4 DEF ResearchRead
  <2> HIDE DEF row
  <2> QED BY <2>2, <2>4, <2>5, <2>6, ResearcherMoves
<1>2. CASE ResearchPlan(r)
  <2>1. CASE ModelCall(r, ResearchEnded(r))
    BY <1>2, <1>i, <2>1 DEF ResearchPlan
  <2>2. ASSUME NEW s \in ResSources \ researcher[r].read,
               ModelCall(r, [researcher EXCEPT ![r].pc = "retrieve", ![r].read = @ \cup {s}])
        PROVE  ResearchInv'
    <3> DEFINE row == [researcher[r] EXCEPT !.pc = "retrieve", !.read = @ \cup {s}]
    <3>1. row \in ResearchRow /\ row.pc = "retrieve"
      BY <1>0 DEF ResearchRow, ResearchPoints
    <3>2. [researcher EXCEPT ![r].pc = "retrieve", ![r].read = @ \cup {s}]
            = [researcher EXCEPT ![r] = row]
      BY DEF ResearchInv
    <3>3. ModelCall(r, [researcher EXCEPT ![r] = row])
      BY <2>2, <3>2
    <3> HIDE DEF row
    <3> QED BY <1>2, <3>1, <3>3, ModelCallKeeps DEF ResearchPlan
  <2> QED BY <1>2, <2>1, <2>2 DEF ResearchPlan
<1>3. CASE ResearchRetrieve(r)
  <2>1. UNCHANGED <<resStanding, resStood, resReceipts, resBound>>
    BY <1>3 DEF ResearchRetrieve
  <2>2. CASE researcher' = ResearchEnded(r)
    BY <2>1, <2>2, ResearchEndKeeps
  <2>3. ASSUME NEW next \in {"select", AfterRound(r)},
               researcher' = [researcher EXCEPT ![r].pc = next]
        PROVE  ResearchInv'
    <3>1. next \in ResearchPoints /\ next \notin {"bind", "confirm"}
      BY <1>a DEF ResearchPoints
    <3> QED BY <2>1, <2>3, <3>1, ResearchGotoKeeps
  <2> QED BY <1>3, <2>2, <2>3 DEF ResearchRetrieve
<1>4. CASE ResearchSelect(r)
  <2>1. UNCHANGED <<resStanding, resReceipts, resBound>>
    BY <1>4 DEF ResearchSelect
  <2>2. CASE ModelCall(r, ResearchEnded(r))
    BY <1>i, <2>1, <2>2
  <2>3. CASE ModelCall(r, [researcher EXCEPT ![r].pc = "final", ![r].cited = TRUE])
    <3> DEFINE row == [researcher[r] EXCEPT !.pc = "final", !.cited = TRUE]
    <3>1. row \in ResearchRow /\ row.pc = "final"
      BY <1>0 DEF ResearchRow, ResearchPoints
    <3>2. [researcher EXCEPT ![r].pc = "final", ![r].cited = TRUE] = [researcher EXCEPT ![r] = row]
      BY DEF ResearchInv
    <3>3. ModelCall(r, [researcher EXCEPT ![r] = row])
      BY <2>3, <3>2
    <3> HIDE DEF row
    <3> QED BY <2>1, <3>1, <3>3, ModelCallKeeps
  <2>4. CASE ModelCall(r, [researcher EXCEPT ![r].pc = AfterRound(r)])
    <3> DEFINE row == [researcher[r] EXCEPT !.pc = AfterRound(r)]
    <3>1. row \in ResearchRow /\ row.pc \notin {"bind", "confirm"}
      BY <1>0, <1>a DEF ResearchRow, ResearchPoints
    <3>2. [researcher EXCEPT ![r].pc = AfterRound(r)] = [researcher EXCEPT ![r] = row]
      BY DEF ResearchInv
    <3>3. ModelCall(r, [researcher EXCEPT ![r] = row])
      BY <2>4, <3>2
    <3> HIDE DEF row
    <3> QED BY <2>1, <3>1, <3>3, ModelCallKeeps
  <2> QED BY <1>4, <2>2, <2>3, <2>4 DEF ResearchSelect
<1>5. CASE ResearchFinal(r)
  <2>1. UNCHANGED <<resStanding, resStood, resBound>>
    BY <1>5 DEF ResearchFinal
  <2>2. CASE ~resStanding \/ ~CallBudget(Receipt(r).calls)
    BY <1>5, <2>1, <2>2, ResearchEndKeeps DEF ResearchFinal
  <2>3. CASE resStanding /\ CallBudget(Receipt(r).calls)
    <3>1. resStood[r]
      BY <2>3 DEF ResearchInv
    <3>2. CASE Answer(r)
      BY <2>1, <3>1, <3>2, AnswerKeeps
    <3>3. CASE researcher' = [researcher EXCEPT ![r].pc = "bind"] /\ UNCHANGED resReceipts
      BY <2>1, <3>1, <3>3, ResearchGotoKeeps DEF ResearchPoints
    <3> QED BY <1>5, <2>3, <3>2, <3>3 DEF ResearchFinal
  <2> QED BY <2>2, <2>3
<1>6. CASE ResearchBind(r)
  <2>1. UNCHANGED <<resStanding, resStood, resReceipts, resBound>>
    BY <1>6 DEF ResearchBind
  <2>2. resStood[r]
    BY <1>6 DEF ResearchBind, ResearchAt, ResearchInv, ResearchRead
  <2>3. CASE researcher' = ResearchEnded(r)
    BY <2>1, <2>3, ResearchEndKeeps
  <2>4. CASE researcher' = [researcher EXCEPT ![r].pc = "confirm"]
    BY <2>1, <2>2, <2>4, ResearchGotoKeeps DEF ResearchPoints
  <2> QED BY <1>6, <2>3, <2>4 DEF ResearchBind
<1>7. CASE ResearchConfirm(r)
  <2>1. UNCHANGED <<resStanding, resStood, resBound>>
    BY <1>7 DEF ResearchConfirm
  <2>2. CASE resStanding
    <3>1. resStood[r]
      BY <2>2 DEF ResearchInv
    <3> QED BY <1>7, <2>1, <2>2, <3>1, AnswerKeeps DEF ResearchConfirm
  <2>3. CASE ~resStanding
    BY <1>7, <2>1, <2>3, ResearchEndKeeps DEF ResearchConfirm
  <2> QED BY <2>2, <2>3
<1> QED BY <1>1, <1>2, <1>3, <1>4, <1>5, <1>6, <1>7

LEMMA ResearchStepKeeps ==
  ASSUME ResearchInv, [ResearchNext]_resVars
  PROVE  ResearchInv'
<1>1. ASSUME NEW receipt \in resReceipts, BindContext(receipt)
      PROVE  ResearchInv'
  BY <1>1 DEF BindContext, ResearchInv, ResearchRead, ReceiptStoodAfterModel
<1>2. CASE ResearchChange
  BY <1>2 DEF ResearchChange, ResearchInv, ResearchRead, ReceiptStoodAfterModel
<1>3. CASE UNCHANGED resVars
  BY <1>3 DEF resVars, ResearchInv, ResearchRead, ReceiptStoodAfterModel
<1> QED BY <1>1, <1>2, <1>3, ResearcherStepKeeps DEF ResearchNext

LEMMA ResearchInitInv == ResearchInit => ResearchInv
BY ResearchAssumption DEF ResearchInit, ResearchInv, ResearchRead, ResearchIdle, ResearchRow,
     ResearchPoints, ReceiptStoodAfterModel

\* No receipt is returned, or bound by a builder or validator, whose commit was
\* not the authorised head at a moment after the last inference it rests on,
\* however often head and approval change while the models think.
THEOREM ReceiptsStood == ResearchSpec => []ReceiptStoodAfterModel
<1>1. ResearchInv => ReceiptStoodAfterModel
  BY DEF ResearchInv
<1> QED BY <1>1, ResearchInitInv, ResearchStepKeeps, PTL DEF ResearchSpec

-----------------------------------------------------------------------------
(***************************************************************************)
(* Draft pull request.  The branch only grows, so what was compared at its *)
(* first commit stays compared.                                            *)
(***************************************************************************)

PubPoints == {"idle", "admit", "branch", "create", "created", "source", "replace", "final",
              "compare", "find", "pull", "verify"}
PublisherRow == [pc : PubPoints, head : Nat, left : Nat]

\* What the comparison of the head leaves known about the branch: its first
\* commit touches one file, and as long as it is the last one it is the product.
Compared(b) == Len(b) >= 1 /\ ~b[1].others /\ (Len(b) = 1 => b[1] = Product)

\* What a publisher may rely on, by where it is.
PubPlace(row, b) ==
  /\ row.pc \in {"source", "replace", "final", "compare", "find", "pull", "verify"} => b # NoRef
  /\ row.pc = "compare" => row.head <= Len(b)
  /\ row.pc \in {"find", "pull", "verify"} => row.head = 1 /\ Compared(b)

ReportedHead(head, b) == b # NoRef /\ Len(b) >= 1 /\ head = 1 /\ b[1] = Product

\* What PublicationRecoverable says of an undisturbed branch and its requests.
Quiet(b, pulls) ==
  /\ b \in {NoRef, << >>, <<Product>>}
  /\ pulls # {} => b = <<Product>>
  /\ Cardinality(pulls) <= 1 /\ \A r \in pulls : r.open /\ r.draft

DraftTypes ==
  /\ draftBranch \in Seq(DraftCommits) \cup {NoRef} /\ draftDisturbed \in Nat
  /\ publisher \in [Publishers -> PublisherRow]

DraftInv ==
  /\ DraftTypes
  /\ \A p \in Publishers : PubPlace(publisher[p], draftBranch)
  /\ "replace" \in draftLate => draftBranch # NoRef
  /\ \A head \in draftReports : ReportedHead(head, draftBranch)
  /\ draftDisturbed = 0 => Quiet(draftBranch, draftPulls)

LEMMA DraftInvSuffices == DraftInv => VerifiedHeadIsProduct /\ PublicationRecoverable
BY DEF DraftInv, VerifiedHeadIsProduct, PublicationRecoverable, ReportedHead, Quiet

LEMMA DraftInitInv == DraftInit => DraftInv
<1> SUFFICES ASSUME DraftInit PROVE DraftInv
  OBVIOUS
<1>1. DraftTypes
  BY DraftAssumption DEF DraftInit, DraftTypes, PublisherRow, PubPoints
<1>2. \A p \in Publishers : PubPlace(publisher[p], draftBranch)
  BY DEF DraftInit, PubPlace
<1>3. Quiet(draftBranch, draftPulls)
  BY FS_EmptySet DEF DraftInit, Quiet
<1> QED BY <1>1, <1>2, <1>3 DEF DraftInit, DraftInv

-----------------------------------------------------------------------------
\* How a step may change the branch.
DraftGrows(b, d) ==
  \/ d = b
  \/ b = NoRef /\ d = << >>
  \/ b # NoRef /\ \E c \in DraftCommits : d = Append(b, c)

LEMMA ProductIsACommit == Product \in DraftCommits
BY DEF Product, DraftCommits

LEMMA NoRefIsNoBranch == NoRef # <<Product>> /\ NoRef # << >>
<1>1. <<Product>> \in Seq(DraftCommits) /\ << >> \in Seq(DraftCommits)
  BY ProductIsACommit
<1> QED BY <1>1, DraftAssumption

\* Nothing known about the branch is undone by what is added to it.
LEMMA GrowthKeepsPlaces ==
  ASSUME NEW b \in Seq(DraftCommits) \cup {NoRef}, NEW d, DraftGrows(b, d)
  PROVE  /\ d \in Seq(DraftCommits) \cup {NoRef} /\ (b # NoRef => d # NoRef)
         /\ \A row \in PublisherRow : PubPlace(row, b) => PubPlace(row, d)
         /\ \A head : ReportedHead(head, b) => ReportedHead(head, d)
<1>1. CASE d = b
  BY <1>1
<1>2. CASE b = NoRef /\ d = << >>
  <2>1. d \in Seq(DraftCommits)
    BY <1>2
  <2>2. \A row \in PublisherRow : PubPlace(row, b) => PubPlace(row, d)
    BY <1>2 DEF PubPlace
  <2> QED BY <1>2, <2>1, <2>2 DEF ReportedHead
<1>3. ASSUME b # NoRef, NEW c \in DraftCommits, d = Append(b, c)
      PROVE  /\ d \in Seq(DraftCommits) \cup {NoRef} /\ (b # NoRef => d # NoRef)
             /\ \A row \in PublisherRow : PubPlace(row, b) => PubPlace(row, d)
             /\ \A head : ReportedHead(head, b) => ReportedHead(head, d)
  <2>1. b \in Seq(DraftCommits)
    BY <1>3
  <2>2. d \in Seq(DraftCommits) /\ Len(d) = Len(b) + 1 /\ Len(b) \in Nat
    BY <1>3, <2>1
  <2>3. d # NoRef
    BY <2>2, DraftAssumption
  <2>4. Len(b) >= 1 => d[1] = b[1]
    BY <1>3, <2>1
  <2>5. Compared(b) => Compared(d)
    BY <2>2, <2>4 DEF Compared
  <2>6. \A row \in PublisherRow : row.head \in Nat
    BY DEF PublisherRow
  <2>7. \A row \in PublisherRow : PubPlace(row, b) => PubPlace(row, d)
    BY <2>2, <2>3, <2>5, <2>6 DEF PubPlace
  <2>8. \A head : ReportedHead(head, b) => ReportedHead(head, d)
    BY <2>2, <2>3, <2>4 DEF ReportedHead
  <2> QED BY <2>2, <2>3, <2>7, <2>8
<1> QED BY <1>1, <1>2, <1>3 DEF DraftGrows

\* The two writes of a publisher leave a quiet branch quiet.
LEMMA ReplaceQuiet ==
  ASSUME NEW b, NEW pulls, Quiet(b, pulls), b # NoRef, ReplaceAllowed(b)
  PROVE  Quiet(Append(b, Product), pulls)
<1>1. b = << >>
  <2>1. ASSUME b = <<Product>> PROVE FALSE
    <3>1. Len(b) = 1 /\ b[1] = Product
      BY <2>1
    <3>2. SourceAt(b, Len(b)) = "after"
      BY <3>1 DEF SourceAt, Product
    <3> QED BY <3>2 DEF ReplaceAllowed
  <2> QED BY <2>1 DEF Quiet
<1>2. Append(b, Product) = <<Product>>
  BY <1>1
<1>3. pulls = {}
  <2>1. <<Product>> # << >>
    OBVIOUS
  <2> QED BY <1>1, <2>1 DEF Quiet
<1> QED BY <1>2, <1>3 DEF Quiet

LEMMA OpenPullQuiet ==
  ASSUME NEW b, NEW pulls, Quiet(b, pulls)
  PROVE  Quiet(b, OpenPull(pulls, b))
<1>1. CASE b \notin {NoRef, << >>} /\ \A r \in pulls : ~r.open
  <2> DEFINE new == [id |-> Cardinality(pulls), open |-> TRUE, draft |-> TRUE, head |-> 0]
  <2>1. pulls = {} /\ b = <<Product>>
    BY <1>1 DEF Quiet
  <2>2. OpenPull(pulls, b) = {new}
    BY <1>1, <2>1 DEF OpenPull
  <2>3. new.open /\ new.draft
    OBVIOUS
  <2> HIDE DEF new
  <2>4. Cardinality({new}) = 1
    BY FS_Singleton
  <2> QED BY <2>1, <2>2, <2>3, <2>4 DEF Quiet
<1>2. CASE ~(b \notin {NoRef, << >>} /\ \A r \in pulls : ~r.open)
  BY <1>2 DEF OpenPull
<1> QED BY <1>1, <1>2

-----------------------------------------------------------------------------
\* One publisher moves to a place it may rely on, the branch grows.
LEMMA PublisherMoves ==
  ASSUME DraftInv, NEW p \in Publishers, NEW row \in PublisherRow,
         publisher' = [publisher EXCEPT ![p] = row],
         PubPlace(row, draftBranch'), DraftGrows(draftBranch, draftBranch'),
         \A head \in draftReports' : head \in draftReports \/ ReportedHead(head, draftBranch'),
         "replace" \in draftLate' => draftBranch # NoRef,
         draftDisturbed = 0 => Quiet(draftBranch', draftPulls'),
         draftDisturbed' = draftDisturbed
  PROVE  DraftInv'
<1>1. draftBranch \in Seq(DraftCommits) \cup {NoRef} /\ publisher \in [Publishers -> PublisherRow]
  BY DEF DraftInv, DraftTypes
<1>2. /\ draftBranch' \in Seq(DraftCommits) \cup {NoRef}
      /\ draftBranch # NoRef => draftBranch' # NoRef
      /\ \A x \in PublisherRow : PubPlace(x, draftBranch) => PubPlace(x, draftBranch')
      /\ \A head : ReportedHead(head, draftBranch) => ReportedHead(head, draftBranch')
  BY <1>1, GrowthKeepsPlaces
<1>3. DraftTypes'
  BY <1>1, <1>2 DEF DraftInv, DraftTypes
<1>4. \A q \in Publishers : PubPlace(publisher'[q], draftBranch')
  BY <1>1, <1>2 DEF DraftInv
<1>5. \A head \in draftReports' : ReportedHead(head, draftBranch')
  BY <1>2 DEF DraftInv
<1> QED BY <1>2, <1>3, <1>4, <1>5 DEF DraftInv

\* A publisher learns a head and goes on; nothing is written.
LEMMA PublisherSees ==
  ASSUME DraftInv, NEW p \in Publishers, NEW pc \in PubPoints, NEW head \in Nat,
         PubSee(p, pc, head), PubPlace([publisher[p] EXCEPT !.pc = pc, !.head = head], draftBranch'),
         DraftGrows(draftBranch, draftBranch'),
         \A h \in draftReports' : h \in draftReports \/ ReportedHead(h, draftBranch'),
         "replace" \in draftLate' => draftBranch # NoRef,
         draftDisturbed = 0 => Quiet(draftBranch', draftPulls'),
         draftDisturbed' = draftDisturbed
  PROVE  DraftInv'
<1> DEFINE row == [publisher[p] EXCEPT !.pc = pc, !.head = head]
<1>1. publisher[p] \in PublisherRow
  BY DEF DraftInv, DraftTypes
<1>2. row \in PublisherRow
  BY <1>1 DEF PublisherRow
<1>3. publisher' = [publisher EXCEPT ![p] = row]
  BY DEF PubSee, DraftInv, DraftTypes
<1>4. PubPlace(row, draftBranch')
  OBVIOUS
<1> HIDE DEF row
<1> QED BY <1>2, <1>3, <1>4, PublisherMoves

\* A publisher gives up.
LEMMA PublisherStops ==
  ASSUME DraftInv, NEW p \in Publishers, PubStop(p), draftBranch' = draftBranch,
         \A h \in draftReports' : h \in draftReports \/ ReportedHead(h, draftBranch'),
         "replace" \in draftLate' => draftBranch # NoRef,
         draftDisturbed = 0 => Quiet(draftBranch', draftPulls'),
         draftDisturbed' = draftDisturbed
  PROVE  DraftInv'
<1>1. publisher[p] \in PublisherRow
  BY DEF DraftInv, DraftTypes
<1>2. PubPlace([publisher[p] EXCEPT !.pc = "idle", !.head = 0], draftBranch')
  BY <1>1 DEF PubPlace, PublisherRow
<1>3. PubSee(p, "idle", 0)
  BY DEF PubStop
<1>4. "idle" \in PubPoints /\ 0 \in Nat
  BY DEF PubPoints
<1> QED BY <1>2, <1>3, <1>4, PublisherSees DEF DraftGrows

\* A publisher goes on with the head it has.
LEMMA PublisherGoes ==
  ASSUME DraftInv, NEW p \in Publishers, NEW pc \in PubPoints, PubGoto(p, pc),
         PubPlace([publisher[p] EXCEPT !.pc = pc], draftBranch'),
         DraftGrows(draftBranch, draftBranch'), draftReports' = draftReports,
         draftLate' = draftLate,
         draftDisturbed = 0 => Quiet(draftBranch', draftPulls'),
         draftDisturbed' = draftDisturbed
  PROVE  DraftInv'
<1> DEFINE row == [publisher[p] EXCEPT !.pc = pc]
<1>1. publisher[p] \in PublisherRow
  BY DEF DraftInv, DraftTypes
<1>2. row \in PublisherRow
  BY <1>1 DEF PublisherRow
<1>3. publisher' = [publisher EXCEPT ![p] = row]
  BY DEF PubGoto, DraftInv, DraftTypes
<1>4. PubPlace(row, draftBranch')
  OBVIOUS
<1>5. "replace" \in draftLate' => draftBranch # NoRef
  BY DEF DraftInv
<1> HIDE DEF row
<1> QED BY <1>2, <1>3, <1>4, <1>5, PublisherMoves

\* Steps of a publisher that only read.
LEMMA ReadingStepKeeps ==
  ASSUME DraftInv, NEW p \in Publishers,
         \/ StartPublication(p) \/ AdmitAgain(p) \/ GetBranch(p) \/ GetSource(p)
         \/ FinalBranch(p) \/ CompareHead(p)
  PROVE  DraftInv'
<1>0. /\ publisher[p] \in PublisherRow /\ publisher \in [Publishers -> PublisherRow]
      /\ draftBranch \in Seq(DraftCommits) \cup {NoRef}
      /\ PubPlace(publisher[p], draftBranch) /\ ("replace" \in draftLate => draftBranch # NoRef)
      /\ draftDisturbed = 0 => Quiet(draftBranch, draftPulls)
  BY DEF DraftInv, DraftTypes
<1>1. UNCHANGED <<draftBranch, draftPulls, draftLate, draftDisturbed, draftReports>>
  BY DEF StartPublication, AdmitAgain, GetBranch, GetSource, FinalBranch, CompareHead, GitHubUnchanged
<1>2. /\ DraftGrows(draftBranch, draftBranch')
      /\ \A h \in draftReports' : h \in draftReports \/ ReportedHead(h, draftBranch')
      /\ "replace" \in draftLate' => draftBranch # NoRef
      /\ draftDisturbed = 0 => Quiet(draftBranch', draftPulls')
      /\ draftDisturbed' = draftDisturbed
  BY <1>0, <1>1 DEF DraftGrows
<1>3. \A pc \in PubPoints :
        /\ [publisher[p] EXCEPT !.pc = pc].pc = pc
        /\ [publisher[p] EXCEPT !.pc = pc].head = publisher[p].head
  BY <1>0 DEF PublisherRow
<1>4. CASE PubStop(p)
  BY <1>1, <1>2, <1>4, PublisherStops
<1>5. CASE StartPublication(p)
  <2> DEFINE left == publisher[p].left - 1
             row == [publisher[p] EXCEPT !.pc = "admit", !.left = left]
  <2>1. left \in Nat
    BY <1>0, <1>5 DEF StartPublication, PublisherRow
  <2>2. publisher' = [publisher EXCEPT ![p].pc = "admit", ![p].left = left]
    BY <1>5 DEF StartPublication
  <2> HIDE DEF left
  <2>3. row \in PublisherRow /\ row.pc = "admit"
    BY <1>0, <2>1 DEF PublisherRow, PubPoints
  <2>4. publisher' = [publisher EXCEPT ![p] = row]
    BY <1>0, <2>2
  <2> HIDE DEF row
  <2>5. PubPlace(row, draftBranch')
    BY <2>3 DEF PubPlace
  <2> QED BY <1>2, <2>3, <2>4, <2>5, PublisherMoves
<1>6. CASE AdmitAgain(p)
  <2>1. PubPlace([publisher[p] EXCEPT !.pc = "branch"], draftBranch') /\ "branch" \in PubPoints
    BY <1>3 DEF PubPlace, PubPoints
  <2> QED BY <1>1, <1>2, <1>4, <1>6, <2>1, PublisherGoes DEF AdmitAgain
<1>7. CASE GetBranch(p)
  <2>1. CASE draftBranch # NoRef /\ PubSee(p, "source", DraftHead)
    <3>1. DraftHead \in Nat /\ "source" \in PubPoints
      BY <1>0, <2>1 DEF DraftHead, PubPoints
    <3>2. PubPlace([publisher[p] EXCEPT !.pc = "source", !.head = DraftHead], draftBranch')
      BY <1>0, <1>1, <2>1 DEF PubPlace, PublisherRow
    <3> QED BY <1>2, <2>1, <3>1, <3>2, PublisherSees
  <2>2. CASE PubGoto(p, "create")
    <3>1. PubPlace([publisher[p] EXCEPT !.pc = "create"], draftBranch') /\ "create" \in PubPoints
      BY <1>3 DEF PubPlace, PubPoints
    <3> QED BY <1>1, <1>2, <2>2, <3>1, PublisherGoes
  <2> QED BY <1>4, <1>7, <2>1, <2>2 DEF GetBranch
<1>8. CASE GetSource(p)
  <2>1. draftBranch # NoRef
    BY <1>0, <1>8 DEF GetSource, PubAt, PubPlace
  <2>2. \A pc \in {"replace", "final"} : PubPlace([publisher[p] EXCEPT !.pc = pc], draftBranch')
    BY <1>1, <1>3, <2>1 DEF PubPlace, PubPoints
  <2>3. \/ PubStop(p) \/ PubGoto(p, "replace") \/ PubGoto(p, "final")
    BY <1>8 DEF GetSource
  <2> QED BY <1>1, <1>2, <1>4, <2>2, <2>3, PublisherGoes DEF PubPoints
<1>9. CASE FinalBranch(p)
  <2>1. draftBranch # NoRef /\ PubSee(p, "compare", DraftHead)
    BY <1>0, <1>9 DEF FinalBranch, PubAt, PubPlace
  <2>2. DraftHead \in Nat /\ "compare" \in PubPoints /\ DraftHead <= Len(draftBranch)
    BY <1>0, <2>1 DEF DraftHead, PubPoints
  <2>3. PubPlace([publisher[p] EXCEPT !.pc = "compare", !.head = DraftHead], draftBranch')
    BY <1>0, <1>1, <2>1, <2>2 DEF PubPlace, PublisherRow
  <2> QED BY <1>2, <2>1, <2>2, <2>3, PublisherSees
<1>10. CASE CompareHead(p)
  <2>1. CASE /\ PubGoto(p, "find") /\ SourceAt(draftBranch, DraftHead) = "after"
             /\ ChangedPathsOk(publisher[p].head)
    <3>1. draftBranch # NoRef /\ publisher[p].head <= Len(draftBranch) /\ publisher[p].head = 1
      BY <1>0, <1>10, <2>1 DEF CompareHead, PubAt, PubPlace, ChangedPathsOk
    <3>2. draftBranch \in Seq(DraftCommits) /\ Len(draftBranch) >= 1 /\ Len(draftBranch) \in Nat
      BY <1>0, <3>1
    <3>3. draftBranch[1] \in DraftCommits
      BY <3>2
    <3>4. ~draftBranch[1].others
      BY <2>1 DEF ChangedPathsOk
    <3>5. Len(draftBranch) = 1 => draftBranch[1] = Product
      <4>1. ASSUME Len(draftBranch) = 1 PROVE draftBranch[1].source = "after"
        BY <2>1, <4>1 DEF SourceAt, DraftHead
      <4> QED BY <3>3, <3>4, <4>1 DEF DraftCommits, Product
    <3>6. PubPlace([publisher[p] EXCEPT !.pc = "find"], draftBranch')
      BY <1>1, <1>3, <3>1, <3>2, <3>4, <3>5 DEF PubPlace, Compared, PubPoints
    <3> QED BY <1>1, <1>2, <2>1, <3>6, PublisherGoes DEF PubPoints
  <2> QED BY <1>4, <1>10, <2>1 DEF CompareHead
<1> QED BY <1>5, <1>6, <1>7, <1>8, <1>9, <1>10

\* Steps of a publisher that write, or report.
LEMMA WritingStepKeeps ==
  ASSUME DraftInv, NEW p \in Publishers,
         \/ CreateBranch(p) \/ ReplaceSource(p) \/ FindPull(p) \/ CreatePull(p)
         \/ PublisherUnanswered(p)
  PROVE  DraftInv'
<1>0. /\ publisher[p] \in PublisherRow /\ draftBranch \in Seq(DraftCommits) \cup {NoRef}
      /\ PubPlace(publisher[p], draftBranch) /\ ("replace" \in draftLate => draftBranch # NoRef)
      /\ draftDisturbed = 0 => Quiet(draftBranch, draftPulls)
  BY DEF DraftInv, DraftTypes
<1>1. draftDisturbed' = draftDisturbed
  BY DEF CreateBranch, ReplaceSource, FindPull, CreatePull, PublisherUnanswered, GitHubUnchanged
<1>3. \A pc \in PubPoints :
        /\ [publisher[p] EXCEPT !.pc = pc].pc = pc
        /\ [publisher[p] EXCEPT !.pc = pc].head = publisher[p].head
  BY <1>0 DEF PublisherRow
<1>4. CASE CreateBranch(p)
  <2>1. UNCHANGED <<draftPulls, draftLate, draftReports>>
    BY <1>4 DEF CreateBranch
  <2>2. CASE draftBranch = NoRef /\ draftBranch' = << >> /\ PubGoto(p, "created")
    <3>1. PubPlace([publisher[p] EXCEPT !.pc = "created"], draftBranch') /\ "created" \in PubPoints
      BY <1>3 DEF PubPlace, PubPoints
    <3>2. NoRef # <<Product>>
      BY NoRefIsNoBranch
    <3>3. draftDisturbed = 0 => Quiet(draftBranch', draftPulls')
      BY <1>0, <2>1, <2>2, <3>2 DEF Quiet
    <3> QED BY <1>1, <2>1, <2>2, <3>1, <3>3, PublisherGoes DEF DraftGrows
  <2>3. CASE UNCHANGED draftBranch /\ PubStop(p)
    BY <1>0, <1>1, <2>1, <2>3, PublisherStops
  <2> QED BY <1>4, <2>2, <2>3 DEF CreateBranch
<1>5. CASE ReplaceSource(p)
  <2>1. UNCHANGED <<draftPulls, draftLate, draftReports>>
    BY <1>5 DEF ReplaceSource
  <2>2. CASE ReplaceAllowed(draftBranch) /\ draftBranch' = Append(draftBranch, Product)
             /\ PubGoto(p, "final")
    <3>1. draftBranch # NoRef
      BY <1>0, <1>5 DEF ReplaceSource, PubAt, PubPlace
    <3>2. DraftGrows(draftBranch, draftBranch')
      BY <2>2, <3>1, ProductIsACommit DEF DraftGrows
    <3>3. draftBranch' # NoRef
      BY <1>0, <3>1, <3>2, GrowthKeepsPlaces
    <3>4. PubPlace([publisher[p] EXCEPT !.pc = "final"], draftBranch') /\ "final" \in PubPoints
      BY <1>3, <3>3 DEF PubPlace, PubPoints
    <3>5. draftDisturbed = 0 => Quiet(draftBranch', draftPulls')
      BY <1>0, <2>1, <2>2, <3>1, ReplaceQuiet
    <3> QED BY <1>1, <2>1, <2>2, <3>2, <3>4, <3>5, PublisherGoes
  <2>3. CASE UNCHANGED draftBranch /\ PubStop(p)
    BY <1>0, <1>1, <2>1, <2>3, PublisherStops
  <2> QED BY <1>5, <2>2, <2>3 DEF ReplaceSource
<1>6. CASE FindPull(p)
  <2>1. UNCHANGED <<draftBranch, draftPulls, draftLate>>
    BY <1>6 DEF FindPull, GitHubUnchanged
  <2>2. publisher[p].pc \in {"find", "verify"}
    BY <1>6 DEF FindPull, PubAt
  <2>3. draftBranch # NoRef /\ publisher[p].head = 1 /\ Compared(draftBranch)
    BY <1>0, <2>2 DEF PubPlace
  <2>4. CASE PubGoto(p, "pull") /\ UNCHANGED draftReports
    <3>1. PubPlace([publisher[p] EXCEPT !.pc = "pull"], draftBranch') /\ "pull" \in PubPoints
      BY <1>3, <2>1, <2>3 DEF PubPlace, PubPoints
    <3> QED BY <1>0, <1>1, <2>1, <2>4, <3>1, PublisherGoes DEF DraftGrows
  <2>5. CASE /\ PubStop(p)
             /\ draftReports' = draftReports \cup
                  {publisher[p].head : r \in {q \in FoundPull : PullVerified(q, publisher[p].head)}}
    <3>1. ASSUME NEW q \in FoundPull, PullVerified(q, publisher[p].head)
          PROVE  ReportedHead(publisher[p].head, draftBranch')
      <4>1. Len(draftBranch) = 1
        BY <2>3, <3>1 DEF PullVerified, PullHead, DraftHead
      <4> QED BY <2>1, <2>3, <4>1 DEF ReportedHead, Compared
    <3>2. \A h \in draftReports' : h \in draftReports \/ ReportedHead(h, draftBranch')
      BY <2>5, <3>1
    <3> QED BY <1>0, <1>1, <2>1, <2>5, <3>2, PublisherStops
  <2> QED BY <1>6, <2>4, <2>5 DEF FindPull
<1>7. CASE CreatePull(p)
  <2>1. UNCHANGED <<draftBranch, draftLate, draftReports>>
        /\ draftPulls' = OpenPull(draftPulls, draftBranch)
    BY <1>7 DEF CreatePull
  <2>2. draftBranch # NoRef /\ publisher[p].head = 1 /\ Compared(draftBranch)
    BY <1>0, <1>7 DEF CreatePull, PubAt, PubPlace
  <2>3. draftDisturbed = 0 => Quiet(draftBranch', draftPulls')
    BY <1>0, <2>1, OpenPullQuiet
  <2>4. CASE PubGoto(p, "verify")
    <3>1. PubPlace([publisher[p] EXCEPT !.pc = "verify"], draftBranch') /\ "verify" \in PubPoints
      BY <1>3, <2>1, <2>2 DEF PubPlace, PubPoints
    <3> QED BY <1>1, <2>1, <2>3, <2>4, <3>1, PublisherGoes DEF DraftGrows
  <2>5. CASE PubStop(p)
    BY <1>0, <1>1, <2>1, <2>3, <2>5, PublisherStops
  <2> QED BY <1>7, <2>4, <2>5 DEF CreatePull
<1>8. CASE PublisherUnanswered(p)
  <2>1. UNCHANGED <<draftBranch, draftPulls, draftReports>> /\ PubStop(p)
        /\ draftLate' = draftLate \cup {publisher[p].pc}
    BY <1>8 DEF PublisherUnanswered
  <2>2. "replace" \in draftLate' => draftBranch # NoRef
    BY <1>0, <2>1 DEF PubPlace
  <2> QED BY <1>0, <1>1, <2>1, <2>2, PublisherStops
<1> QED BY <1>4, <1>5, <1>6, <1>7, <1>8

LEMMA DraftServeLateKeeps ==
  ASSUME DraftInv, DraftServeLate
  PROVE  DraftInv'
<1>1. PICK r \in draftLate :
        /\ draftLate' = draftLate \ {r}
        /\ draftBranch' =
             IF r = "create" /\ draftBranch = NoRef THEN << >>
             ELSE IF r = "replace" /\ ReplaceAllowed(draftBranch) THEN Append(draftBranch, Product)
             ELSE draftBranch
        /\ draftPulls' = IF r = "pull" THEN OpenPull(draftPulls, draftBranch) ELSE draftPulls
  BY DEF DraftServeLate
<1>2. UNCHANGED <<publisher, draftReports, draftDisturbed>>
  BY DEF DraftServeLate
<1>3. /\ draftBranch \in Seq(DraftCommits) \cup {NoRef} /\ publisher \in [Publishers -> PublisherRow]
      /\ "replace" \in draftLate => draftBranch # NoRef
      /\ draftDisturbed = 0 => Quiet(draftBranch, draftPulls)
  BY DEF DraftInv, DraftTypes
<1>4. DraftGrows(draftBranch, draftBranch')
  BY <1>1, <1>3, ProductIsACommit DEF DraftGrows
<1>5. /\ draftBranch' \in Seq(DraftCommits) \cup {NoRef}
      /\ draftBranch # NoRef => draftBranch' # NoRef
      /\ \A x \in PublisherRow : PubPlace(x, draftBranch) => PubPlace(x, draftBranch')
      /\ \A head : ReportedHead(head, draftBranch) => ReportedHead(head, draftBranch')
  BY <1>3, <1>4, GrowthKeepsPlaces
<1>6. ASSUME draftDisturbed = 0 PROVE Quiet(draftBranch', draftPulls')
  <2>0. Quiet(draftBranch, draftPulls)
    BY <1>3, <1>6
  <2>1. CASE r = "create" /\ draftBranch = NoRef
    <3>1. NoRef # <<Product>>
      BY NoRefIsNoBranch
    <3>2. draftBranch' = << >> /\ draftPulls' = draftPulls
      BY <1>1, <2>1
    <3> QED BY <2>0, <2>1, <3>1, <3>2 DEF Quiet
  <2>2. CASE r = "replace" /\ ReplaceAllowed(draftBranch)
    <3>1. draftBranch # NoRef
      BY <1>3, <2>2
    <3>2. draftBranch' = Append(draftBranch, Product) /\ draftPulls' = draftPulls
      BY <1>1, <2>2
    <3> QED BY <2>0, <2>2, <3>1, <3>2, ReplaceQuiet
  <2>3. CASE r = "pull"
    <3>1. draftBranch' = draftBranch /\ draftPulls' = OpenPull(draftPulls, draftBranch)
      BY <1>1, <2>3
    <3> QED BY <2>0, <3>1, OpenPullQuiet
  <2>4. CASE ~(r = "create" /\ draftBranch = NoRef) /\ ~(r = "replace" /\ ReplaceAllowed(draftBranch))
             /\ r # "pull"
    BY <1>1, <2>0, <2>4
  <2> QED BY <2>1, <2>2, <2>3, <2>4
<1>7. DraftTypes'
  BY <1>2, <1>5 DEF DraftInv, DraftTypes
<1>8. \A q \in Publishers : PubPlace(publisher'[q], draftBranch')
  BY <1>2, <1>3, <1>5 DEF DraftInv
<1>9. "replace" \in draftLate' => draftBranch' # NoRef
  BY <1>1, <1>3, <1>5
<1>10. \A head \in draftReports' : ReportedHead(head, draftBranch')
  BY <1>2, <1>5 DEF DraftInv
<1>11. draftDisturbed' = 0 => Quiet(draftBranch', draftPulls')
  BY <1>2, <1>6
<1> QED BY <1>7, <1>8, <1>9, <1>10, <1>11 DEF DraftInv

LEMMA DraftDisturbKeeps ==
  ASSUME DraftInv, DraftDisturb
  PROVE  DraftInv'
<1>1. UNCHANGED <<draftLate, publisher, draftReports>> /\ draftDisturbed' = draftDisturbed + 1
  BY DEF DraftDisturb
<1>2. DraftGrows(draftBranch, draftBranch')
  BY DEF DraftDisturb, DraftGrows
<1>3. draftBranch \in Seq(DraftCommits) \cup {NoRef} /\ publisher \in [Publishers -> PublisherRow]
      /\ draftDisturbed \in Nat
  BY DEF DraftInv, DraftTypes
<1>4. draftDisturbed' \in Nat /\ draftDisturbed' # 0
  BY <1>1, <1>3
<1>5. /\ draftBranch' \in Seq(DraftCommits) \cup {NoRef}
      /\ draftBranch # NoRef => draftBranch' # NoRef
      /\ \A x \in PublisherRow : PubPlace(x, draftBranch) => PubPlace(x, draftBranch')
      /\ \A head : ReportedHead(head, draftBranch) => ReportedHead(head, draftBranch')
  BY <1>2, <1>3, GrowthKeepsPlaces
<1>6. DraftTypes'
  BY <1>1, <1>3, <1>4, <1>5 DEF DraftTypes
<1>7. \A q \in Publishers : PubPlace(publisher'[q], draftBranch')
  BY <1>1, <1>3, <1>5 DEF DraftInv
<1>8. \A head \in draftReports' : ReportedHead(head, draftBranch')
  BY <1>1, <1>5 DEF DraftInv
<1>9. "replace" \in draftLate' => draftBranch' # NoRef
  BY <1>1, <1>5 DEF DraftInv
<1> QED BY <1>4, <1>6, <1>7, <1>8, <1>9 DEF DraftInv

LEMMA DraftStepKeeps ==
  ASSUME DraftInv, [DraftNext]_draftVars
  PROVE  DraftInv'
<1>1. CASE TaskCompletes
  BY <1>1 DEF TaskCompletes, GitHubUnchanged, DraftInv, DraftTypes
<1>2. CASE UNCHANGED draftVars
  BY <1>2 DEF draftVars, DraftInv, DraftTypes
<1>3. ASSUME NEW p \in Publishers, PublisherStep(p) PROVE DraftInv'
  BY <1>3, ReadingStepKeeps, WritingStepKeeps DEF PublisherStep
<1> QED BY <1>1, <1>2, <1>3, DraftServeLateKeeps, DraftDisturbKeeps DEF DraftNext

\* A head reported as DRAFT_PR_VERIFIED is the product, one commit above the
\* base, for any number of publishers, runs, late writes and pushes.
THEOREM VerifiedHeads == DraftSpec => []VerifiedHeadIsProduct
BY DraftInvSuffices, DraftInitInv, DraftStepKeeps, PTL DEF DraftSpec

\* Publishers left to themselves, any number of them, overlapping and with any
\* answers lost, leave a branch and a pull request a later run can finish.
THEOREM PublicationsRecover == DraftSpec => []PublicationRecoverable
BY DraftInvSuffices, DraftInitInv, DraftStepKeeps, PTL DEF DraftSpec

-----------------------------------------------------------------------------
(***************************************************************************)
(* Governed merge.  The pull request leaves a commit only for a later one, *)
(* so what is known of the commit the run is for is known of what it merges.*)
(***************************************************************************)

CheckStates == {"active", "green", "red", "none"}
CheckRow == [MergeWorkflows -> CheckStates]
GovPoints == {"idle", "read", "again", "main", "merge", "readback", "dispatch"}
GovRow == [pc : GovPoints, head : Nat, due : SUBSET MergeReads, base : Nat, main : Nat,
           scope : Scopes, canary : BOOLEAN, merge : Nat]
PullRow == [open : BOOLEAN, draft : BOOLEAN, rejected : BOOLEAN, head : Nat, base : Nat,
            scope : [MergeCommits -> Scopes]]
MainCommit == [head : Nat]

MergeTypes ==
  /\ pull \in PullRow /\ contains \in Seq(Nat) /\ checks \in Seq(CheckRow)
  /\ Len(checks) = Len(contains) /\ Len(contains) <= MergeHeads
  /\ pull.head \in 1..Len(contains)
  /\ mainline \in Seq(MainCommit) /\ governor \in GovRow

\* A check that is green has passed.
GreenPassed(rows, ok) ==
  \A h \in DOMAIN rows, w \in MergeWorkflows : rows[h][w] = "green" => <<h, w>> \in ok

\* What the run has established about the commit it was started for, or else
\* the pull request has left that commit for a later one.
GovKnows(g, p, ok) ==
  g.pc \in {"read", "again", "main", "merge"} =>
    /\ g.head <= p.head /\ g.head \in MergeCommits
    /\ "files" \notin g.due =>
         p.head > g.head \/ (g.scope = p.scope[g.head] /\ g.scope # "manual")
    /\ ("checks" \notin g.due \/ "runs" \notin g.due) /\ g.canary => <<g.head, "canary">> \in ok
    /\ g.pc # "read" => g.due = {} /\ (g.scope = "canary" => g.canary)

\* What MergedWasVerified says of one commit.
VerifiedCommit(h, scope, ok) ==
  /\ <<h, "ci">> \in ok /\ scope[h] # "manual"
  /\ scope[h] = "canary" => <<h, "canary">> \in ok

LineVerified(line, scope, ok) ==
  \A i \in DOMAIN line : line[i].head # 0 => VerifiedCommit(line[i].head, scope, ok)

\* The place n of main holds a governed merge.
IsMerge(n, line) == n \in DOMAIN line /\ line[n].head # 0

GovMerged(g, line) == g.pc \in {"readback", "dispatch"} => IsMerge(g.merge, line)

CountedMerges ==
  /\ GovMerged(governor, mainline)
  /\ \A r \in postmerge : IsMerge(r.expected, mainline)
  /\ \A n \in counted : IsMerge(n, mainline)

MergeInv ==
  /\ MergeTypes /\ GreenPassed(checks, passed) /\ CountedMerges
  /\ ~MergeRewinds => /\ GovKnows(governor, pull, passed)
                      /\ LineVerified(mainline, pull.scope, passed)

LEMMA MergeInvSuffices ==
  ASSUME MergeInv
  PROVE  CountedCiIsOfAMerge /\ (~MergeRewinds => MergedWasVerified)
<1>1. CountedCiIsOfAMerge
  BY DEF MergeInv, CountedMerges, IsMerge, CountedCiIsOfAMerge
<1>2. ASSUME ~MergeRewinds PROVE MergedWasVerified
  <2>1. LineVerified(mainline, pull.scope, passed)
    BY <1>2 DEF MergeInv
  <2> QED BY <2>1 DEF LineVerified, VerifiedCommit, MergedWasVerified, MergedCommits
<1> QED BY <1>1, <1>2

LEMMA AsleepRow == Asleep \in GovRow /\ Asleep.pc = "idle"
BY DEF Asleep, GovRow, GovPoints, Scopes

\* A run that is not under way knows nothing and has merged nothing.
LEMMA IdleKnows ==
  ASSUME NEW p, NEW ok, NEW line
  PROVE  GovKnows(Asleep, p, ok) /\ GovMerged(Asleep, line)
BY AsleepRow DEF GovKnows, GovMerged

LEMMA FreshRow ==
  ASSUME NEW scope
  PROVE  /\ FreshChecks(scope) \in CheckRow
         /\ \A w \in MergeWorkflows : FreshChecks(scope)[w] # "green"
BY DEF FreshChecks, CheckRow, MergeWorkflows, CheckStates

LEMMA MergeInitInv == MergeInit => MergeInv
<1> SUFFICES ASSUME MergeInit PROVE MergeInv
  OBVIOUS
<1>1. PICK s \in [MergeCommits -> Scopes] :
        pull = [open |-> TRUE, draft |-> FALSE, rejected |-> FALSE, head |-> 1, base |-> 1, scope |-> s]
  BY DEF MergeInit
<1>2. pull \in PullRow /\ pull.head = 1
  BY <1>1 DEF PullRow
<1>3. contains = <<1>> /\ checks = <<FreshChecks(pull.scope[1])>> /\ mainline = <<[head |-> 0]>>
  BY DEF MergeInit
<1>4. FreshChecks(pull.scope[1]) \in CheckRow
      /\ \A w \in MergeWorkflows : FreshChecks(pull.scope[1])[w] # "green"
  BY FreshRow
<1>5. contains \in Seq(Nat) /\ Len(contains) = 1 /\ checks \in Seq(CheckRow) /\ Len(checks) = 1
      /\ checks[1] = FreshChecks(pull.scope[1])
  BY <1>3, <1>4
<1>6. mainline \in Seq(MainCommit) /\ Len(mainline) = 1 /\ mainline[1].head = 0
  BY <1>3 DEF MainCommit
<1>7. governor = Asleep /\ postmerge = {} /\ counted = {}
  BY DEF MergeInit
<1>8. MergeTypes
  BY <1>2, <1>5, <1>6, <1>7, AsleepRow, MergeAssumption DEF MergeTypes
<1>9. DOMAIN checks = {1} /\ DOMAIN mainline = {1}
  BY <1>5, <1>6
<1>10. GreenPassed(checks, passed)
  BY <1>4, <1>5, <1>9 DEF GreenPassed
<1>11. CountedMerges /\ GovKnows(governor, pull, passed)
  BY <1>7, IdleKnows DEF CountedMerges
<1>12. LineVerified(mainline, pull.scope, passed)
  BY <1>6, <1>9 DEF LineVerified
<1> QED BY <1>8, <1>10, <1>11, <1>12 DEF MergeInv

-----------------------------------------------------------------------------
\* main only grows, so a governed merge stays where it is.
LEMMA LineGrows ==
  ASSUME NEW line \in Seq(MainCommit), NEW c \in MainCommit
  PROVE  /\ Append(line, c) \in Seq(MainCommit) /\ Len(Append(line, c)) = Len(line) + 1
         /\ \A n : IsMerge(n, line) => IsMerge(n, Append(line, c))
         /\ c.head # 0 => IsMerge(Len(line) + 1, Append(line, c))
         /\ \A i \in DOMAIN Append(line, c) :
              Append(line, c)[i] = c \/ (i \in DOMAIN line /\ Append(line, c)[i] = line[i])
BY DEF IsMerge

\* Steps of the run itself: they read, and change nothing but the run's notes.
LEMMA GovernorMoves ==
  ASSUME MergeInv, NEW g \in GovRow, governor' = g,
         GovMerged(g, mainline), ~MergeRewinds => GovKnows(g, pull, passed),
         UNCHANGED <<pull, contains, mainline, checks, passed>>,
         \A r \in postmerge' : r \in postmerge \/ IsMerge(r.expected, mainline),
         \A n \in counted' : n \in counted \/ IsMerge(n, mainline)
  PROVE  MergeInv'
<1>1. MergeTypes'
  BY DEF MergeInv, MergeTypes
<1>2. CountedMerges'
  BY DEF MergeInv, CountedMerges
<1> QED BY <1>1, <1>2 DEF MergeInv

LEMMA GovernorStops ==
  ASSUME MergeInv, GovStop, UNCHANGED <<pull, contains, mainline, checks, passed>>,
         \A r \in postmerge' : r \in postmerge \/ IsMerge(r.expected, mainline),
         counted' = counted
  PROVE  MergeInv'
BY AsleepRow, IdleKnows, GovernorMoves DEF GovStop

LEMMA GovernorStartKeeps ==
  ASSUME MergeInv, GovernorStart
  PROVE  MergeInv'
<1>1. PICK e \in events :
        IF pull.open /\ pull.head = e[1]
          THEN governor' = [Asleep EXCEPT !.pc = "read", !.head = e[1], !.due = MergeReads]
          ELSE UNCHANGED governor
  BY DEF GovernorStart
<1>2. UNCHANGED <<pull, contains, mainline, checks, passed, postmerge, counted>>
  BY DEF GovernorStart, PeopleIdle
<1>3. CASE governor' = governor
  BY <1>2, <1>3, GovernorMoves DEF MergeInv, MergeTypes, CountedMerges
<1>4. CASE pull.head = e[1]
           /\ governor' = [Asleep EXCEPT !.pc = "read", !.head = e[1], !.due = MergeReads]
  <2> DEFINE h == e[1]
             g == [Asleep EXCEPT !.pc = "read", !.head = h, !.due = MergeReads]
  <2>1. h = pull.head /\ h \in Nat /\ h \in MergeCommits
    BY <1>4, MergeAssumption DEF MergeInv, MergeTypes, MergeCommits
  <2> HIDE DEF h
  <2>2. g \in GovRow /\ g.pc = "read" /\ g.head = h /\ g.due = MergeReads
    BY <2>1, AsleepRow DEF GovRow, GovPoints
  <2>3. governor' = g
    BY <1>4 DEF h
  <2> HIDE DEF g
  <2>4. GovMerged(g, mainline)
    BY <2>2 DEF GovMerged
  <2>5. GovKnows(g, pull, passed)
    BY <2>1, <2>2 DEF GovKnows, MergeReads
  <2> QED BY <1>2, <2>2, <2>3, <2>4, <2>5, GovernorMoves
<1> QED BY <1>1, <1>3, <1>4

\* One answer of the first look.
LEMMA GovernorReadKeeps ==
  ASSUME MergeInv, GovernorRead
  PROVE  MergeInv'
<1>0. governor \in GovRow /\ governor.pc = "read" /\ pull \in PullRow /\ mainline \in Seq(MainCommit)
      /\ pull.head \in 1..Len(contains) /\ Len(contains) \in Nat /\ Len(contains) <= MergeHeads
  BY DEF MergeInv, MergeTypes, GovernorRead, GovAt
<1>1. UNCHANGED <<pull, contains, mainline, checks, passed, postmerge, counted>>
  BY DEF GovernorRead, PeopleIdle
<1>2. PICK read \in governor.due :
        IF Acceptable(read)
          THEN governor' = [Noted(read) EXCEPT !.due = governor.due \ {read}]
          ELSE GovStop
  BY DEF GovernorRead
<1>3. CASE GovStop
  BY <1>1, <1>3, GovernorStops
<1>4. CASE Acceptable(read) /\ governor' = [Noted(read) EXCEPT !.due = governor.due \ {read}]
  <2> DEFINE noted == Noted(read)
             due == governor.due \ {read}
             g == [noted EXCEPT !.due = due]
  <2>1. read \in MergeReads /\ due \subseteq MergeReads /\ due \subseteq governor.due
    BY <1>0 DEF GovRow
  <2>2. pull.head \in MergeCommits /\ pull.scope[pull.head] \in Scopes
    BY <1>0, MergeAssumption DEF MergeCommits, PullRow
  <2>3. /\ noted \in GovRow /\ noted.pc = "read" /\ noted.head = governor.head
        /\ IF read = "files"
             THEN noted.scope = pull.scope[pull.head] /\ noted.scope # "manual"
             ELSE noted.scope = governor.scope
        /\ IF read \in {"checks", "runs"}
             THEN noted.canary = (governor.canary /\ CurrentGreen(governor.head, "canary"))
             ELSE noted.canary = governor.canary
    <3>1. CASE read = "pr"
      BY <1>0, <3>1 DEF Noted, GovRow, PullRow
    <3>2. CASE read = "files"
      BY <1>0, <1>4, <2>2, <3>2 DEF Noted, GovRow, Acceptable
    <3>3. CASE read = "branch"
      BY <1>0, <3>3 DEF Noted, GovRow
    <3>4. CASE read \in {"checks", "runs"}
      <4> DEFINE c == governor.canary /\ CurrentGreen(governor.head, "canary")
      <4>1. c \in BOOLEAN
        OBVIOUS
      <4>2. noted = [governor EXCEPT !.canary = c]
        BY <3>4 DEF Noted
      <4> HIDE DEF c
      <4>3. noted \in GovRow /\ noted.pc = "read" /\ noted.head = governor.head
            /\ noted.scope = governor.scope /\ noted.canary = c
        BY <1>0, <4>1, <4>2 DEF GovRow
      <4> QED BY <3>4, <4>3 DEF c
    <3>5. CASE read \in {"reviews", "compare"}
      BY <1>0, <3>5 DEF Noted
    <3> QED BY <2>1, <3>1, <3>2, <3>3, <3>4, <3>5 DEF MergeReads
  <2>4. governor' = g
    BY <1>4
  <2> HIDE DEF noted
  <2>5. /\ g \in GovRow /\ g.pc = "read" /\ g.head = noted.head /\ g.scope = noted.scope
        /\ g.canary = noted.canary /\ g.due = due
    BY <2>1, <2>3 DEF GovRow
  <2> HIDE DEF g
  <2>6. ASSUME ~MergeRewinds PROVE GovKnows(g, pull, passed)
    <3>1. GovKnows(governor, pull, passed)
      BY <2>6 DEF MergeInv
    <3>2. governor.head <= pull.head /\ governor.head \in MergeCommits /\ governor.head \in Nat
          /\ pull.head \in Nat
      BY <1>0, <3>1 DEF GovKnows, GovRow, PullRow
    <3>3. "files" \notin g.due =>
            pull.head > g.head \/ (g.scope = pull.scope[g.head] /\ g.scope # "manual")
      <4>1. CASE read = "files"
        BY <2>3, <2>5, <3>2, <4>1
      <4>2. CASE read # "files"
        BY <1>0, <2>3, <2>5, <3>1, <4>2 DEF GovKnows
      <4> QED BY <4>1, <4>2
    <3>4. ASSUME "checks" \notin g.due \/ "runs" \notin g.due, g.canary
          PROVE  <<g.head, "canary">> \in passed
      <4>1. CASE read \in {"checks", "runs"}
        <5>1. CurrentGreen(governor.head, "canary")
          BY <2>3, <2>5, <3>4, <4>1
        <5>2. governor.head \in DOMAIN checks
          BY <1>0, <3>2 DEF MergeInv, MergeTypes, MergeCommits
        <5>3. checks[governor.head]["canary"] = "green"
          BY <5>1 DEF CurrentGreen
        <5> QED BY <2>3, <2>5, <5>2, <5>3 DEF MergeInv, GreenPassed, MergeWorkflows
      <4>2. CASE read \notin {"checks", "runs"}
        BY <1>0, <2>3, <2>5, <3>1, <3>4, <4>2 DEF GovKnows
      <4> QED BY <4>1, <4>2
    <3> QED BY <2>3, <2>5, <3>2, <3>3, <3>4 DEF GovKnows
  <2>7. GovMerged(g, mainline)
    BY <2>5 DEF GovMerged
  <2> QED BY <1>1, <2>4, <2>5, <2>6, <2>7, GovernorMoves
<1> QED BY <1>2, <1>3, <1>4

\* The run goes on.
LEMMA GovernorGoes ==
  ASSUME MergeInv, NEW pc \in {"again", "main", "merge", "dispatch"}, GovGoto(pc),
         \/ governor.pc \in {"again", "main", "merge"} /\ pc # "dispatch"
         \/ governor.pc = "readback" /\ pc = "dispatch"
         \/ governor.pc = "read" /\ governor.due = {} /\ Decided /\ pc # "dispatch",
         UNCHANGED <<pull, contains, mainline, checks, passed, postmerge, counted>>
  PROVE  MergeInv'
<1> DEFINE g == [governor EXCEPT !.pc = pc]
<1>0. governor \in GovRow
  BY DEF MergeInv, MergeTypes
<1>1. /\ g \in GovRow /\ g.pc = pc /\ g.head = governor.head /\ g.due = governor.due
      /\ g.scope = governor.scope /\ g.canary = governor.canary /\ g.merge = governor.merge
  BY <1>0 DEF GovRow, GovPoints
<1>2. governor' = g
  BY DEF GovGoto
<1> HIDE DEF g
<1>3. GovMerged(g, mainline)
  BY <1>1 DEF MergeInv, CountedMerges, GovMerged
<1>4. ASSUME ~MergeRewinds PROVE GovKnows(g, pull, passed)
  <2>1. GovKnows(governor, pull, passed)
    BY <1>4 DEF MergeInv
  <2> QED BY <1>1, <2>1 DEF GovKnows, Decided
<1> QED BY <1>1, <1>2, <1>3, <1>4, GovernorMoves

\* The merge itself: what the run knows of its commit is true of what is merged.
LEMMA RequestMergeKeeps ==
  ASSUME MergeInv, RequestMerge
  PROVE  MergeInv'
<1>0. /\ governor \in GovRow /\ governor.pc = "merge" /\ pull \in PullRow
      /\ mainline \in Seq(MainCommit) /\ pull.head \in 1..Len(contains) /\ Len(contains) \in Nat
      /\ Len(checks) = Len(contains) /\ checks \in Seq(CheckRow) /\ Len(contains) <= MergeHeads
  BY DEF MergeInv, MergeTypes, RequestMerge, GovAt
<1>1. UNCHANGED <<contains, checks, passed, postmerge, counted>>
  BY DEF RequestMerge, PeopleIdle
<1>2. CASE GovStop /\ UNCHANGED <<pull, mainline>>
  BY <1>1, <1>2, GovernorStops
<1>3. CASE /\ Merges(governor.head) /\ MergePull
           /\ \/ governor' = [governor EXCEPT !.pc = "readback", !.merge = Len(mainline')]
              \/ GovStop
  <2> DEFINE h == pull.head
             c == [head |-> h]
  <2>1. h = governor.head /\ CurrentGreen(h, "ci")
    BY <1>3 DEF Merges
  <2>2. mainline' = Append(mainline, c) /\ pull' = [pull EXCEPT !.open = FALSE]
    BY <1>3 DEF MergePull
  <2>3. c \in MainCommit /\ c.head = h /\ h # 0 /\ h \in Nat
    BY <1>0 DEF MainCommit, PullRow
  <2>4. pull' \in PullRow /\ pull'.head = h /\ pull'.scope = pull.scope
    BY <1>0, <2>2 DEF PullRow
  <2> HIDE DEF c
  <2>5. /\ mainline' \in Seq(MainCommit) /\ Len(mainline') = Len(mainline) + 1
        /\ \A n : IsMerge(n, mainline) => IsMerge(n, mainline')
        /\ IsMerge(Len(mainline) + 1, mainline')
        /\ \A i \in DOMAIN mainline' :
             mainline'[i] = c \/ (i \in DOMAIN mainline /\ mainline'[i] = mainline[i])
    BY <1>0, <2>2, <2>3, LineGrows
  <2>6. governor' \in GovRow /\ governor'.pc \in {"idle", "readback"} /\ GovMerged(governor', mainline')
    <3>1. CASE GovStop
      BY <3>1, AsleepRow DEF GovStop, GovMerged
    <3>2. CASE governor' = [governor EXCEPT !.pc = "readback", !.merge = Len(mainline')]
      <4>1. Len(mainline') \in Nat
        BY <2>5
      <4>2. governor' \in GovRow /\ governor'.pc = "readback" /\ governor'.merge = Len(mainline')
        BY <1>0, <3>2, <4>1 DEF GovRow, GovPoints
      <4> QED BY <2>5, <4>2 DEF GovMerged
    <3> QED BY <1>3, <3>1, <3>2
  <2>7. MergeTypes'
    BY <1>0, <1>1, <2>4, <2>5, <2>6 DEF MergeInv, MergeTypes
  <2>8. CountedMerges'
    BY <1>1, <2>5, <2>6 DEF MergeInv, CountedMerges
  <2>9. ASSUME ~MergeRewinds
        PROVE  GovKnows(governor', pull', passed') /\ LineVerified(mainline', pull'.scope, passed')
    <3>1. GovKnows(governor, pull, passed) /\ LineVerified(mainline, pull.scope, passed)
      BY <2>9 DEF MergeInv
    <3>2. <<h, "ci">> \in passed
      <4>1. checks[h]["ci"] = "green" /\ h \in DOMAIN checks
        BY <1>0, <2>1 DEF CurrentGreen
      <4> QED BY <4>1 DEF MergeInv, GreenPassed, MergeWorkflows
    <3>3. pull.scope[h] # "manual" /\ (pull.scope[h] = "canary" => <<h, "canary">> \in passed)
      BY <1>0, <2>1, <3>1 DEF GovKnows, GovRow
    <3>4. VerifiedCommit(h, pull.scope, passed)
      BY <3>2, <3>3 DEF VerifiedCommit
    <3>5. LineVerified(mainline', pull'.scope, passed')
      BY <1>1, <2>3, <2>4, <2>5, <3>1, <3>4 DEF LineVerified
    <3> QED BY <2>6, <3>5 DEF GovKnows
  <2>10. GreenPassed(checks', passed')
    BY <1>1 DEF MergeInv
  <2> QED BY <2>7, <2>8, <2>9, <2>10 DEF MergeInv
<1> QED BY <1>2, <1>3 DEF RequestMerge

LEMMA GovernorStepKeeps ==
  ASSUME MergeInv, GovernorStep
  PROVE  MergeInv'
<1>1. CASE Decide
  BY <1>1, GovernorStops, GovernorGoes DEF Decide, PeopleIdle, GovAt
<1>2. CASE SecondLookAtPull
  BY <1>2, GovernorStops, GovernorGoes DEF SecondLookAtPull, PeopleIdle, GovAt
<1>3. CASE SecondLookAtMain
  BY <1>3, GovernorStops, GovernorGoes DEF SecondLookAtMain, PeopleIdle, GovAt
<1>4. CASE MainReadback
  BY <1>4, GovernorStops, GovernorGoes DEF MainReadback, PeopleIdle, GovAt
<1>5. CASE DispatchPostMergeCI
  <2>1. IsMerge(governor.merge, mainline)
    BY <1>5 DEF DispatchPostMergeCI, GovAt, MergeInv, CountedMerges, GovMerged
  <2>2. \A r \in postmerge' : r \in postmerge \/ IsMerge(r.expected, mainline)
    BY <1>5, <2>1 DEF DispatchPostMergeCI
  <2> QED BY <1>5, <2>2, GovernorStops DEF DispatchPostMergeCI, PeopleIdle
<1> QED BY <1>1, <1>2, <1>3, <1>4, <1>5, GovernorStartKeeps, GovernorReadKeeps, RequestMergeKeeps
        DEF GovernorStep

LEMMA VerifyPostMergeKeeps ==
  ASSUME MergeInv, VerifyPostMerge
  PROVE  MergeInv'
<1>1. PICK r \in postmerge :
        /\ postmerge' = postmerge \ {r}
        /\ counted' = IF PostMergeContext(r) THEN counted \cup {r.at} ELSE counted
  BY DEF VerifyPostMerge
<1>2. UNCHANGED <<pull, contains, mainline, checks, passed, governor>>
  BY DEF VerifyPostMerge, PeopleIdle
<1>3. PostMergeContext(r) => IsMerge(r.at, mainline)
  BY DEF PostMergeContext, MergeInv, CountedMerges
<1>4. \A n \in counted' : n \in counted \/ IsMerge(n, mainline)
  BY <1>1, <1>3
<1> QED BY <1>1, <1>2, <1>4, GovernorMoves DEF MergeInv, MergeTypes, CountedMerges

LEMMA FinishCheckKeeps ==
  ASSUME MergeInv, FinishCheck
  PROVE  MergeInv'
<1>1. PICK h \in DOMAIN checks, w \in MergeWorkflows, s \in {"green", "red"} :
        /\ checks' = [checks EXCEPT ![h][w] = s]
        /\ passed' = IF s = "green" THEN passed \cup {<<h, w>>} ELSE passed
  BY DEF FinishCheck
<1>2. UNCHANGED <<pull, contains, mainline, governor, postmerge, counted>>
  BY DEF FinishCheck
<1>3. checks \in Seq(CheckRow)
  BY DEF MergeInv, MergeTypes
<1>4. checks' \in Seq(CheckRow) /\ Len(checks') = Len(checks) /\ DOMAIN checks' = DOMAIN checks
  BY <1>1, <1>3 DEF CheckRow, CheckStates
<1>5. \A i \in DOMAIN checks, v \in MergeWorkflows :
        checks'[i][v] = IF i = h /\ v = w THEN s ELSE checks[i][v]
  BY <1>1, <1>3 DEF CheckRow
<1>6. passed \subseteq passed' /\ (s = "green" => <<h, w>> \in passed')
  BY <1>1
<1>7. GreenPassed(checks', passed')
  BY <1>4, <1>5, <1>6 DEF MergeInv, GreenPassed
<1>8. MergeTypes' /\ CountedMerges'
  BY <1>2, <1>4 DEF MergeInv, MergeTypes, CountedMerges
<1>9. GovKnows(governor, pull, passed) => GovKnows(governor', pull', passed')
  BY <1>2, <1>6 DEF GovKnows
<1>10. LineVerified(mainline, pull.scope, passed) => LineVerified(mainline', pull'.scope, passed')
  BY <1>2, <1>6 DEF LineVerified, VerifiedCommit
<1> QED BY <1>7, <1>8, <1>9, <1>10 DEF MergeInv

LEMMA PushHeadKeeps ==
  ASSUME MergeInv, PushHead, UNCHANGED <<passed, governor, postmerge, counted>>
  PROVE  MergeInv'
<1>a. mainline' = mainline
  BY DEF PushHead
<1>0. /\ pull \in PullRow /\ contains \in Seq(Nat) /\ checks \in Seq(CheckRow)
      /\ Len(checks) = Len(contains) /\ Len(contains) <= MergeHeads /\ pull.head \in 1..Len(contains)
      /\ mainline \in Seq(MainCommit) /\ governor \in GovRow /\ mainline' = mainline
      /\ Len(mainline) \in Nat /\ Len(contains) \in Nat /\ GreenPassed(checks, passed)
  BY <1>a DEF MergeInv, MergeTypes
<1>1. CASE /\ Len(contains) < MergeHeads
           /\ \E n \in {contains[pull.head], Len(mainline)} : contains' = Append(contains, n)
           /\ pull' = [pull EXCEPT !.head = Len(contains'), !.base = Len(mainline)]
           /\ checks' = Append(checks, FreshChecks(pull.scope[Len(contains')]))
  <2> DEFINE fresh == FreshChecks(pull.scope[Len(contains')])
  <2>1. contains[pull.head] \in Nat
    BY <1>0
  <2>2. contains' \in Seq(Nat) /\ Len(contains') = Len(contains) + 1
    BY <1>0, <1>1, <2>1
  <2>3. fresh \in CheckRow /\ \A w \in MergeWorkflows : fresh[w] # "green"
    BY FreshRow
  <2>4. checks' = Append(checks, fresh)
    BY <1>1
  <2> HIDE DEF fresh
  <2>5. checks' \in Seq(CheckRow) /\ Len(checks') = Len(checks) + 1
    BY <1>0, <2>3, <2>4
  <2>6. pull' \in PullRow /\ pull'.head = Len(contains) + 1 /\ pull'.scope = pull.scope
    <3> DEFINE n == Len(contains')
               m == Len(mainline)
    <3>1. pull' = [pull EXCEPT !.head = n, !.base = m] /\ n \in Nat /\ m \in Nat
      BY <1>0, <1>1, <2>2
    <3>2. n = Len(contains) + 1
      BY <2>2
    <3> HIDE DEF n, m
    <3>3. pull' \in PullRow /\ pull'.head = n /\ pull'.scope = pull.scope
      BY <1>0, <3>1 DEF PullRow
    <3> QED BY <3>2, <3>3
  <2>7. MergeTypes'
    BY <1>0, <1>1, <2>2, <2>5, <2>6, MergeAssumption DEF MergeTypes
  <2>8. GreenPassed(checks', passed')
    <3>1. \A i \in DOMAIN checks' : checks'[i] = fresh \/ (i \in DOMAIN checks /\ checks'[i] = checks[i])
      BY <1>0, <2>3, <2>4
    <3> QED BY <1>0, <2>3, <3>1 DEF GreenPassed
  <2>9. CountedMerges'
    BY <1>0 DEF MergeInv, CountedMerges
  <2>10. ASSUME ~MergeRewinds
         PROVE  GovKnows(governor', pull', passed') /\ LineVerified(mainline', pull'.scope, passed')
    <3>1. GovKnows(governor, pull, passed) /\ LineVerified(mainline, pull.scope, passed)
      BY <2>10 DEF MergeInv
    <3>2. governor.head \in Nat /\ pull.head \in Nat /\ pull.head < pull'.head
      BY <1>0, <2>6 DEF GovRow
    <3>3. GovKnows(governor', pull', passed')
      BY <2>6, <3>1, <3>2 DEF GovKnows
    <3> QED BY <1>0, <2>6, <3>1, <3>3
  <2> QED BY <2>7, <2>8, <2>9, <2>10 DEF MergeInv
<1>2. CASE /\ MergeRewinds
           /\ \E h \in DOMAIN contains \ {pull.head} :
                pull' = [pull EXCEPT !.head = h, !.base = Len(mainline)]
           /\ UNCHANGED <<contains, checks>>
  <2>1. PICK h \in DOMAIN contains : pull' = [pull EXCEPT !.head = h, !.base = Len(mainline)]
    BY <1>2
  <2>2. h \in 1..Len(contains) /\ h \in Nat
    BY <1>0
  <2>3. pull' \in PullRow /\ pull'.head = h
    BY <1>0, <2>1, <2>2 DEF PullRow
  <2>4. MergeTypes'
    BY <1>0, <1>2, <2>2, <2>3 DEF MergeTypes
  <2>5. CountedMerges' /\ GreenPassed(checks', passed')
    BY <1>0, <1>2 DEF MergeInv, CountedMerges
  <2> QED BY <1>2, <2>4, <2>5 DEF MergeInv
<1> QED BY <1>1, <1>2 DEF PushHead

LEMMA MeddleKeeps ==
  ASSUME MergeInv, Meddle
  PROVE  MergeInv'
<1>0. UNCHANGED <<passed, governor, postmerge, counted>>
  BY DEF Meddle
<1>1. CASE PushHead
  BY <1>0, <1>1, PushHeadKeeps
<1>2. CASE PushMain
  <2> DEFINE c == [head |-> 0]
  <2>1. mainline' = Append(mainline, c) /\ UNCHANGED <<pull, contains, checks>>
    BY <1>2 DEF PushMain
  <2>2. c \in MainCommit /\ c.head = 0 /\ mainline \in Seq(MainCommit)
    BY DEF MainCommit, MergeInv, MergeTypes
  <2> HIDE DEF c
  <2>3. /\ mainline' \in Seq(MainCommit)
        /\ \A n : IsMerge(n, mainline) => IsMerge(n, mainline')
        /\ \A i \in DOMAIN mainline' :
             mainline'[i] = c \/ (i \in DOMAIN mainline /\ mainline'[i] = mainline[i])
    BY <2>1, <2>2, LineGrows
  <2>4. MergeTypes'
    BY <1>0, <2>1, <2>3 DEF MergeInv, MergeTypes
  <2>5. CountedMerges'
    BY <1>0, <2>3 DEF MergeInv, CountedMerges, GovMerged
  <2>6. LineVerified(mainline, pull.scope, passed) => LineVerified(mainline', pull'.scope, passed')
    BY <1>0, <2>1, <2>2, <2>3 DEF LineVerified
  <2> QED BY <1>0, <2>1, <2>4, <2>5, <2>6 DEF MergeInv
<1>3. CASE ChangePull
  <2>1. UNCHANGED <<contains, checks, mainline>> /\ pull \in PullRow
    BY <1>3 DEF ChangePull, MergeInv, MergeTypes
  <2>2. pull' \in PullRow /\ pull'.head = pull.head /\ pull'.scope = pull.scope
    BY <1>3, <2>1 DEF ChangePull, PullRow
  <2>3. MergeTypes' /\ CountedMerges' /\ GreenPassed(checks', passed')
    BY <1>0, <2>1, <2>2 DEF MergeInv, MergeTypes, CountedMerges
  <2>4. GovKnows(governor, pull, passed) => GovKnows(governor', pull', passed')
    BY <1>0, <2>2 DEF GovKnows
  <2> QED BY <1>0, <2>1, <2>2, <2>3, <2>4 DEF MergeInv
<1>4. CASE RerunCheck
  <2>1. UNCHANGED <<pull, contains, mainline>> /\ checks \in Seq(CheckRow)
    BY <1>4 DEF RerunCheck, MergeInv, MergeTypes
  <2>2. PICK h \in DOMAIN checks, w \in MergeWorkflows : checks' = [checks EXCEPT ![h][w] = "active"]
    BY <1>4 DEF RerunCheck
  <2>3. checks' \in Seq(CheckRow) /\ Len(checks') = Len(checks) /\ DOMAIN checks' = DOMAIN checks
    BY <2>1, <2>2 DEF CheckRow, CheckStates
  <2>4. \A i \in DOMAIN checks, v \in MergeWorkflows :
          checks'[i][v] = IF i = h /\ v = w THEN "active" ELSE checks[i][v]
    BY <2>1, <2>2 DEF CheckRow
  <2>5. GreenPassed(checks', passed')
    BY <1>0, <2>3, <2>4 DEF MergeInv, GreenPassed
  <2>6. MergeTypes' /\ CountedMerges'
    BY <1>0, <2>1, <2>3 DEF MergeInv, MergeTypes, CountedMerges
  <2> QED BY <1>0, <2>1, <2>5, <2>6 DEF MergeInv
<1> QED BY <1>1, <1>2, <1>3, <1>4 DEF Meddle

LEMMA MergeStepKeeps ==
  ASSUME MergeInv, [MergeNext]_mergeVars
  PROVE  MergeInv'
<1>1. CASE UNCHANGED mergeVars
  BY <1>1 DEF mergeVars, MergeInv, MergeTypes, CountedMerges
<1> QED BY <1>1, GovernorStepKeeps, VerifyPostMergeKeeps, FinishCheckKeeps, MeddleKeeps DEF MergeNext

\* As long as nobody returns the branch to an earlier commit, every commit the
\* workflow merged passed CI, passed the canary if its files ask for it, and
\* asks for no person, whatever is pushed, reviewed or run again between the
\* answers of the decision, the second look and the merge.
THEOREM MergesWereVerified == MergeSpec => [](~MergeRewinds => MergedWasVerified)
BY MergeInvSuffices, MergeInitInv, MergeStepKeeps, PTL DEF MergeSpec

\* A post-merge CI run that counts ran on a governed merge, rewinds or not.
THEOREM CountedRunsAreMerges == MergeSpec => []CountedCiIsOfAMerge
BY MergeInvSuffices, MergeInitInv, MergeStepKeeps, PTL DEF MergeSpec
=============================================================================
