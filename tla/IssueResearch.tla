---------------------------- MODULE IssueResearch ----------------------------
(***************************************************************************)
(* Read-only research for a pull request (app/agent_rag_consumer.py) and   *)
(* for an admitted issue (app/issue_rag_research.py), and the binding of   *)
(* its receipt by builder and validator (app/issue_rag_handoff.py).  The   *)
(* sources are read at a fixed commit; what may change while the model     *)
(* thinks is whether that commit is still the head and still authorised.   *)
(***************************************************************************)
EXTENDS Naturals, FiniteSets, FiniteSetsExt

CONSTANTS
  IssueResearchers, \* runs of the issue research
  PullResearchers,  \* runs of the pull-request research
  ResSources,       \* the approved source paths
  ResRounds,        \* rounds of a research: 2 in the code
  ResRuns,          \* bound: researches of one planner
  ResChanges        \* bound: changes of the head or the approval

Researchers == IssueResearchers \cup PullResearchers

ASSUME ResearchAssumption ==
  /\ IssueResearchers \cap PullResearchers = {} /\ IsFiniteSet(ResSources)
  /\ ResRounds \in Nat \ {0} /\ ResRuns \in Nat /\ ResChanges \in Nat

VARIABLES
  resStanding,  \* the commit is the head, the issue open, the approval there
  resChanged,   \* changes so far
  resStood,     \* it was standing at some moment since the last model call
  researcher,   \* what each research is doing
  resReceipts,  \* the receipts returned
  resBound      \* receipts a builder or validator bound

resVars == <<resStanding, resChanged, resStood, researcher, resReceipts, resBound>>

ResearchIdle(calls, left) ==
  [pc |-> "idle", calls |-> calls, start |-> calls, read |-> {}, cited |-> FALSE, left |-> left]

ResearchInit ==
  /\ resStanding = TRUE /\ resChanged = 0
  /\ resStood = [r \in Researchers |-> TRUE]
  /\ researcher = [r \in Researchers |-> ResearchIdle(0, ResRuns)]
  /\ resReceipts = {} /\ resBound = {}

ResearchAt(r, pc) == researcher[r].pc = pc
ResearchEnded(r) == [researcher EXCEPT ![r] = ResearchIdle(@.calls, @.left)]

\* _ask: one inference of the local model, counted by the planner for good.
\* Whatever it proves, the head may have moved meanwhile.
ModelCall(r, next) ==
  /\ researcher' = [next EXCEPT ![r].calls = researcher[r].calls + 1]
  /\ resStood' = [resStood EXCEPT ![r] = resStanding]

\* The first reads come before any inference.
ResearchStart(r) ==
  /\ ResearchAt(r, "idle") /\ researcher[r].left > 0
  /\ researcher' = [researcher EXCEPT ![r].left = @ - 1, ![r].start = researcher[r].calls,
                      ![r].pc = IF resStanding THEN "plan" ELSE "idle"]
  /\ UNCHANGED <<resStanding, resChanged, resStood, resReceipts, resBound>>

\* The planner names one of the remaining sources, or its plan is refused.
ResearchPlan(r) ==
  /\ ResearchAt(r, "plan")
  /\ \/ \E s \in ResSources \ researcher[r].read :
          ModelCall(r, [researcher EXCEPT ![r].pc = "retrieve", ![r].read = @ \cup {s}])
     \/ ModelCall(r, ResearchEnded(r))
  /\ UNCHANGED <<resStanding, resChanged, resReceipts, resBound>>

AfterRound(r) ==
  IF Cardinality(researcher[r].read) < Min({ResRounds, Cardinality(ResSources)})
    THEN "plan" ELSE "final"

\* The Agent Core reads the pull request again around its retrieval; the issue
\* research reads only the file.
ResearchRetrieve(r) ==
  /\ ResearchAt(r, "retrieve")
  /\ \/ /\ r \in PullResearchers => resStanding
        /\ \E next \in {"select", AfterRound(r)} : researcher' = [researcher EXCEPT ![r].pc = next]
     \/ researcher' = ResearchEnded(r)
  /\ UNCHANGED <<resStanding, resChanged, resStood, resReceipts, resBound>>

\* The model picks a snippet, declines, or answers something unusable.
ResearchSelect(r) ==
  /\ ResearchAt(r, "select")
  /\ \/ ModelCall(r, [researcher EXCEPT ![r].pc = "final", ![r].cited = TRUE])
     \/ ModelCall(r, [researcher EXCEPT ![r].pc = AfterRound(r)])
     \/ ModelCall(r, ResearchEnded(r))
  /\ UNCHANGED <<resStanding, resChanged, resReceipts, resBound>>

CallBudget(calls) == calls \in 1..(2 * ResRounds)

Receipt(r) ==
  [by |-> r, cited |-> researcher[r].cited, stood |-> resStood[r],
   calls |-> researcher[r].calls - researcher[r].start, sources |-> researcher[r].read]

Answer(r) == resReceipts' = resReceipts \cup {Receipt(r)} /\ researcher' = ResearchEnded(r)

\* Fault: the head is not read again.
ResearchFinalUnread(r) ==
  /\ ResearchAt(r, "final")
  /\ IF CallBudget(Receipt(r).calls) THEN Answer(r)
     ELSE researcher' = ResearchEnded(r) /\ UNCHANGED resReceipts
  /\ UNCHANGED <<resStanding, resChanged, resStood, resBound>>

\* After the last model call the head is read again; a citation of the issue
\* research is then bound to freshly read bytes before it is returned.
ResearchFinal(r) ==
  /\ ResearchAt(r, "final")
  /\ IF ~resStanding \/ ~CallBudget(Receipt(r).calls)
       THEN researcher' = ResearchEnded(r) /\ UNCHANGED resReceipts
     ELSE IF r \in IssueResearchers /\ researcher[r].cited
       THEN researcher' = [researcher EXCEPT ![r].pc = "bind"] /\ UNCHANGED resReceipts
     ELSE Answer(r)
  /\ UNCHANGED <<resStanding, resChanged, resStood, resBound>>

\* bind_issue_rag accepts a supported receipt of the issue research whose cited
\* line is still read back.
ContextBinds(receipt) ==
  /\ receipt.by \in IssueResearchers /\ receipt.cited
  /\ receipt.calls \in 2..(2 * ResRounds)
  /\ Cardinality(receipt.sources) \in 1..ResRounds

ResearchBind(r) ==
  /\ ResearchAt(r, "bind")
  /\ \/ ContextBinds(Receipt(r)) /\ researcher' = [researcher EXCEPT ![r].pc = "confirm"]
     \/ researcher' = ResearchEnded(r)
  /\ UNCHANGED <<resStanding, resChanged, resStood, resReceipts, resBound>>

ResearchConfirm(r) ==
  /\ ResearchAt(r, "confirm")
  /\ IF resStanding THEN Answer(r) ELSE researcher' = ResearchEnded(r) /\ UNCHANGED resReceipts
  /\ UNCHANGED <<resStanding, resChanged, resStood, resBound>>

\* Builder and validator bind the receipt once more, each with its own reader.
BindContext(receipt) ==
  /\ receipt \notin resBound /\ ContextBinds(receipt)
  /\ resBound' = resBound \cup {receipt}
  /\ UNCHANGED <<resStanding, resChanged, resStood, researcher, resReceipts>>

\* The head moves, the approval is withdrawn, or either is put back.
ResearchChange ==
  /\ resChanged < ResChanges /\ resChanged' = resChanged + 1
  /\ resStanding' = ~resStanding
  /\ resStood' = [r \in Researchers |-> resStood[r] \/ resStanding']
  /\ UNCHANGED <<researcher, resReceipts, resBound>>

ResearchNext ==
  \/ \E r \in Researchers :
       \/ ResearchStart(r) \/ ResearchPlan(r) \/ ResearchRetrieve(r) \/ ResearchSelect(r)
       \/ ResearchFinal(r) \/ ResearchBind(r) \/ ResearchConfirm(r)
  \/ \E receipt \in resReceipts : BindContext(receipt)
  \/ ResearchChange

ResearchSpec == ResearchInit /\ [][ResearchNext]_resVars

---------------------------------------------------------------------------
\* A receipt is only returned when its commit was still the authorised head at
\* some moment after the last model call it rests on: a head that moved, or an
\* approval withdrawn, while the model was thinking is never reported as stable,
\* and what a builder binds is such a receipt.
ReceiptStoodAfterModel ==
  \A receipt \in resReceipts \cup resBound : receipt.stood
=============================================================================
