---------------------------- MODULE MCDelivery ----------------------------
(***************************************************************************)
(* Instances for TLC of the components around the pool.  They share no     *)
(* state, so a run explores them side by side: a behaviour is one of the   *)
(* components in Parts, and the others rest in an initial state.           *)
(***************************************************************************)
EXTENDS IssueResearch, GitHubCas, IssueAdmission, DraftPublication, GovernedMerge,
        CodeRepair, EditAssembly, PostgresAuthority, GatewaySession, SharedContinuity,
        MCWorkOrchestrator

CONSTANT Parts  \* the components this run explores

VARIABLE part   \* the one this behaviour is about

\* Two clients of the evidence store: a bundle and a context each, or one of
\* them only a bundle.
CasRunsFew == [a1 |-> 2, a2 |-> 1]
CasRunsMany == [a1 |-> 3, a2 |-> 2]

\* Two threads and an operator belong to authority A, the others to B.
AuthIdentities == [t1 |-> "A", t2 |-> "A", o1 |-> "A", u1 |-> "B", o2 |-> "B"]

\* Whichever job is the producer, another runner has a job that can take over.
ContRunners == [j1 |-> "r1", j2 |-> "r2", j3 |-> "r2"]

\* A stranger puts the original back, writes something else, or the repaired
\* function: alone, with a remark around it, or with code around it.
RepTexts ==
  {Original, Rendering(<<"alien", "any">>)}
    \cup [fn : {<<"right", "t">>}, rest : {"base", "remark", "code"}]

\* The pull request turns from a plain change into one that needs more, or back.
ScopePairs == {<<a, b>> \in Scopes \X Scopes : (a = "plain") # (b = "plain")}

DeliveryInit ==
  /\ part \in Parts
  /\ ResearchInit /\ CasInit /\ AdmInit /\ DraftInit /\ RepairInit /\ AuthInit /\ ContInit /\ WorkInit
  /\ MergeInit /\ (IF part = "merge" THEN pull.scope \in ScopePairs ELSE pull.scope = <<"plain", "plain">>)
  /\ GwInit /\ (part = "gateway" \/ gwRole = "builder")
  /\ AssemblyInit /\ (part = "edits" \/ (asmForm = "text" /\ asmSource = <<"sig", "a">>))

deliveryVars == <<part, resVars, casVars, admVars, draftVars, mergeVars, repVars, asmVars,
                  authVars, gwVars, contVars, workVars>>

DeliveryNext ==
  /\ UNCHANGED part
  /\ \/ /\ part = "research" /\ ResearchNext
        /\ UNCHANGED <<casVars, admVars, draftVars, mergeVars, repVars, asmVars, authVars, gwVars, contVars, workVars>>
     \/ /\ part = "cas" /\ CasNext
        /\ UNCHANGED <<resVars, admVars, draftVars, mergeVars, repVars, asmVars, authVars, gwVars, contVars, workVars>>
     \/ /\ part = "admission" /\ AdmNext
        /\ UNCHANGED <<resVars, casVars, draftVars, mergeVars, repVars, asmVars, authVars, gwVars, contVars, workVars>>
     \/ /\ part = "draft" /\ DraftNext
        /\ UNCHANGED <<resVars, casVars, admVars, mergeVars, repVars, asmVars, authVars, gwVars, contVars, workVars>>
     \/ /\ part = "merge" /\ MergeNext
        /\ UNCHANGED <<resVars, casVars, admVars, draftVars, repVars, asmVars, authVars, gwVars, contVars, workVars>>
     \/ /\ part = "repair" /\ RepairNext
        /\ UNCHANGED <<resVars, casVars, admVars, draftVars, mergeVars, asmVars, authVars, gwVars, contVars, workVars>>
     \/ /\ part = "edits" /\ AssemblyNext
        /\ UNCHANGED <<resVars, casVars, admVars, draftVars, mergeVars, repVars, authVars, gwVars, contVars, workVars>>
     \/ /\ part = "authority" /\ AuthNext
        /\ UNCHANGED <<resVars, casVars, admVars, draftVars, mergeVars, repVars, asmVars, gwVars, contVars, workVars>>
     \/ /\ part = "gateway" /\ GwNext
        /\ UNCHANGED <<resVars, casVars, admVars, draftVars, mergeVars, repVars, asmVars, authVars, contVars, workVars>>
     \/ /\ part = "continuity" /\ ContNext
        /\ UNCHANGED <<resVars, casVars, admVars, draftVars, mergeVars, repVars, asmVars, authVars, gwVars, workVars>>
     \/ /\ part = "work" /\ WorkNext
        /\ UNCHANGED <<resVars, casVars, admVars, draftVars, mergeVars, repVars, asmVars, authVars, gwVars, contVars>>

DeliverySpec == DeliveryInit /\ [][DeliveryNext]_deliveryVars
=============================================================================
