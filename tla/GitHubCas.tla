----------------------------- MODULE GitHubCas -----------------------------
(***************************************************************************)
(* The issue-bound evidence store: immutable objects appended as commits   *)
(* to one GitHub branch (app/github_cas_transport.py), the Git-bundle      *)
(* transport and the research-receipt store that write through it          *)
(* (app/s3_git_bundle_artifact.py, app/issue_rag_receipt_cas.py), and the  *)
(* adapter that reads a receipt back (app/issue_rag_durable_adapter.py).   *)
(* Every request to GitHub is a step of its own; a write may go            *)
(* unanswered and be served later, or never.                               *)
(***************************************************************************)
EXTENDS Naturals, Sequences

CONSTANTS
  CasAttempts,     \* fenced attempts, each with a client process of its own
  CasCapacity,     \* objects a branch may hold: 3 in the code
  CasRuns,         \* bound: operations each client starts
  CasDisturbances, \* bound: pushes by somebody else and revocations
  NoBranch         \* the branch does not exist

VARIABLES
  casBranch,       \* NoBranch, or the commits above the base
  casOwner,        \* main, issue and owner comment still authorise the base
  casLate,         \* writes GitHub received but has not served
  casClient,       \* what each client is doing
  casReceipts,     \* objects whose descriptor was returned, and how their write ended
  casUsed,         \* objects a later host rebuilt its context or checkout from
  casDisturbed     \* pushes by others and revocations so far

casVars == <<casBranch, casOwner, casLate, casClient, casReceipts, casUsed, casDisturbed>>

\* The key of an object is the digest of its bytes, and the bytes of a bundle
\* or a context hold the fence of the attempt that wrote it.  Every client
\* writes the same probe.
CasProbe == <<"probe", "shared">>
CasObjects == {CasProbe} \cup ({"bundle", "context"} \X CasAttempts)
CasKind(o) == o[1]

\* A commit adds an object, puts other bytes under its name, or does something else.
CasCommit == [op : {"add", "alter", "foreign"}, obj : CasObjects]

ASSUME CasAssumption ==
  /\ CasCapacity \in Nat \ {0} /\ CasRuns \in [CasAttempts -> Nat] /\ CasDisturbances \in Nat
  /\ NoBranch \notin Seq(CasCommit)

CasAdded(b) == IF b = NoBranch THEN {} ELSE {b[i].obj : i \in {j \in DOMAIN b : b[j].op = "add"}}
CasIntact(b, o) ==
  /\ o \in CasAdded(b)
  /\ \A i \in DOMAIN b : b[i].obj = o => b[i].op = "add"

CasReceipted == {r.obj : r \in casReceipts}

\* A client at some point of an operation; it keeps its budget and whether its
\* own preflight succeeded.
CasAtPoint(client, pc, obj, cause) ==
  [pc |-> pc, obj |-> obj, at |-> 0, cause |-> cause,
   left |-> client.left, probed |-> client.probed]
CasIdle(client) == CasAtPoint(client, "idle", CasProbe, "written")

CasInit ==
  /\ casBranch = NoBranch /\ casOwner = TRUE /\ casLate = {}
  /\ casClient = [c \in CasAttempts |-> CasIdle([left |-> CasRuns[c], probed |-> FALSE])]
  /\ casReceipts = {} /\ casUsed = {} /\ casDisturbed = 0

CasGoto(c, pc) == casClient' = [casClient EXCEPT ![c].pc = pc]
CasAt(c, pc) == casClient[c].pc = pc

---------------------------------------------------------------------------
\* How each caller of put_object treats the way it ended.

\* The probe: only the answer 412 leads on to the readback.
CasPreflightReadsBack(cause) == cause \in {"written", "exists"}

\* A bundle: whatever happened, the readback decides.
CasPutReadsBack(cause) == TRUE

\* A research context: a refusal or an unanswered request is raised, an
\* existing object or an unusable answer is read back.
CasContextReadsBack(cause) == cause \in {"written", "exists", "ambiguous"}

CasReadsBack(kind, cause) ==
  \/ kind = "probe" /\ CasPreflightReadsBack(cause)
  \/ kind = "bundle" /\ CasPutReadsBack(cause)
  \/ kind = "context" /\ CasContextReadsBack(cause)

CasEnd(c, cause) ==
  casClient' = [casClient EXCEPT ![c] =
    IF CasReadsBack(CasKind(@.obj), cause)
      THEN CasAtPoint(@, "read", @.obj, cause)
      ELSE CasIdle(@)]

---------------------------------------------------------------------------
\* put_object, request by request.

\* preflight and publish start a write; a context needs this client's own
\* successful preflight.
CasPut(c, kind) ==
  /\ CasAt(c, "idle") /\ casClient[c].left > 0
  /\ kind = "context" => casClient[c].probed
  /\ casClient' = [casClient EXCEPT ![c].pc = "auth", ![c].left = @ - 1,
                     ![c].obj = IF kind = "probe" THEN CasProbe ELSE <<kind, c>>]
  /\ UNCHANGED <<casBranch, casOwner, casLate, casReceipts, casUsed, casDisturbed>>

CasAuthorized(c) ==
  /\ CasAt(c, "auth")
  /\ IF casOwner THEN CasGoto(c, "ensure") ELSE CasEnd(c, "blocked")
  /\ UNCHANGED <<casBranch, casOwner, casLate, casReceipts, casUsed, casDisturbed>>

\* A file of the comparison with the base is an object added under its key.
CasValidObject(commit) == commit.op = "add" /\ commit.obj \in CasObjects

\* The comparison with the base: only objects, one per commit, at most three.
CasInScope(b) ==
  /\ Len(b) <= CasCapacity
  /\ \A i \in DOMAIN b : CasValidObject(b[i])

\* The first look at the branch, and the look after it was created.
CasEnsureBranch(c) ==
  /\ \E pc \in {"ensure", "recheck"} :
       /\ CasAt(c, pc)
       /\ IF casBranch = NoBranch
            THEN IF pc = "ensure" THEN CasGoto(c, "create") ELSE CasEnd(c, "blocked")
            ELSE IF CasInScope(casBranch)
              THEN casClient' = [casClient EXCEPT ![c].pc = "get", ![c].at = Len(casBranch)]
              ELSE CasEnd(c, "blocked")
  /\ UNCHANGED <<casBranch, casOwner, casLate, casReceipts, casUsed, casDisturbed>>

\* GitHub creates a reference once.
CasCreate(c) ==
  /\ CasAt(c, "create")
  /\ IF casBranch = NoBranch
       THEN casBranch' = << >> /\ CasGoto(c, "recheck")
       ELSE UNCHANGED casBranch /\ CasEnd(c, "blocked")
  /\ UNCHANGED <<casOwner, casLate, casReceipts, casUsed, casDisturbed>>

CasGet(c) ==
  /\ CasAt(c, "get")
  /\ IF casClient[c].obj \in CasAdded(casBranch) THEN CasEnd(c, "exists")
     ELSE IF casClient[c].at < CasCapacity THEN CasGoto(c, "put")
     ELSE CasEnd(c, "blocked")
  /\ UNCHANGED <<casBranch, casOwner, casLate, casReceipts, casUsed, casDisturbed>>

\* GitHub adds a file only where there is none.  The answer may be usable or
\* not; the client remembers the commit the answer names.
CasWrite(c) ==
  LET o == casClient[c].obj IN
  /\ CasAt(c, "put")
  /\ IF o \in CasAdded(casBranch)
       THEN UNCHANGED casBranch /\ CasEnd(c, "blocked")
       ELSE /\ casBranch' = Append(casBranch, [op |-> "add", obj |-> o])
            /\ \/ casClient' = [casClient EXCEPT ![c].pc = "reread", ![c].at = Len(casBranch')]
               \/ CasEnd(c, "ambiguous")
  /\ UNCHANGED <<casOwner, casLate, casReceipts, casUsed, casDisturbed>>

\* No answer to the creation or to the write: it is never sent again.
CasUnanswered(c) ==
  /\ CasAt(c, "create") \/ CasAt(c, "put")
  /\ casLate' = casLate \cup {[pc |-> casClient[c].pc, obj |-> casClient[c].obj]}
  /\ CasEnd(c, "blocked")
  /\ UNCHANGED <<casBranch, casOwner, casReceipts, casUsed, casDisturbed>>

\* The head must still be this client's own commit.
CasReread(c) ==
  /\ CasAt(c, "reread")
  /\ IF Len(casBranch) = casClient[c].at THEN CasGoto(c, "final") ELSE CasEnd(c, "blocked")
  /\ UNCHANGED <<casBranch, casOwner, casLate, casReceipts, casUsed, casDisturbed>>

\* Fault: capacity and scope are not compared again.
CasFinalUnchecked(c) ==
  /\ CasAt(c, "final") /\ CasEnd(c, "written")
  /\ UNCHANGED <<casBranch, casOwner, casLate, casReceipts, casUsed, casDisturbed>>

\* Capacity and scope once more, now with the new commit.
CasFinal(c) ==
  /\ CasAt(c, "final")
  /\ CasEnd(c, IF CasInScope(casBranch) THEN "written" ELSE "blocked")
  /\ UNCHANGED <<casBranch, casOwner, casLate, casReceipts, casUsed, casDisturbed>>

---------------------------------------------------------------------------
\* Reading.

\* get_object: the branch exists and the bytes at its head have the digest.
CasReadable(o) == casBranch # NoBranch /\ CasIntact(casBranch, o)

\* Fault: a write that was attempted counts as stored.
CasDownloadAssumed(o) == TRUE

\* The bundle transport downloads without asking for authority again.
CasDownload(o) == CasReadable(o)

\* The receipt store reads through a second client, authorised afresh.
CasIndependentRead(o) == casOwner /\ CasReadable(o)

CasReadback(c) ==
  LET client == casClient[c]
      o == client.obj
      ok == IF CasKind(o) = "bundle" THEN CasDownload(o) ELSE CasIndependentRead(o)
  IN
  /\ CasAt(c, "read")
  /\ casReceipts' = IF ok THEN casReceipts \cup {[obj |-> o, cause |-> client.cause]} ELSE casReceipts
  /\ casClient' = [casClient EXCEPT ![c] =
       CasIdle([client EXCEPT !.probed = client.probed \/ (ok /\ o = CasProbe)])]
  /\ UNCHANGED <<casBranch, casOwner, casLate, casUsed, casDisturbed>>

\* The envelope names the task, generation, attempt and effect it was written for.
CasSameFence(c, o) == o[2] = c

\* IssueRAGReceiptCAS.materialize: a fresh authority, intact bytes, own fence.
CasMaterializeContext(c, o) ==
  /\ CasKind(o) = "context" /\ CasSameFence(c, o)
  /\ CasIndependentRead(o)

\* The Builder or Validator host rebuilds its adapter from the receipt.
CasAdapterFromReceipt(c, o) ==
  /\ CasAt(c, "idle") /\ o \in CasReceipted \ casUsed
  /\ CasMaterializeContext(c, o)
  /\ casUsed' = casUsed \cup {o}
  /\ UNCHANGED <<casBranch, casOwner, casLate, casClient, casReceipts, casDisturbed>>

\* materialize of the bundle transport: bytes, header and Git ancestry are
\* checked before the checkout; any attempt of the task may do it.
CasMaterializeBundle(c, o) ==
  /\ CasAt(c, "idle") /\ o \in CasReceipted \ casUsed
  /\ CasKind(o) = "bundle" /\ CasDownload(o)
  /\ casUsed' = casUsed \cup {o}
  /\ UNCHANGED <<casBranch, casOwner, casLate, casClient, casReceipts, casDisturbed>>

---------------------------------------------------------------------------
\* The environment.

\* A request nobody waits for any more is served.
CasServeLate ==
  /\ \E r \in casLate :
       /\ casLate' = casLate \ {r}
       /\ casBranch' =
            IF r.pc = "create" THEN (IF casBranch = NoBranch THEN << >> ELSE casBranch)
            ELSE IF casBranch = NoBranch \/ r.obj \in CasAdded(casBranch) THEN casBranch
            ELSE Append(casBranch, [op |-> "add", obj |-> r.obj])
  /\ UNCHANGED <<casOwner, casClient, casReceipts, casUsed, casDisturbed>>

\* Main moves, the issue closes or the owner's comment goes.
CasRevoke ==
  /\ casOwner /\ casDisturbed < CasDisturbances
  /\ casOwner' = FALSE /\ casDisturbed' = casDisturbed + 1
  /\ UNCHANGED <<casBranch, casLate, casClient, casReceipts, casUsed>>

\* Somebody else pushes: another file, or other bytes for an object.
CasIntrude ==
  /\ casBranch # NoBranch /\ casDisturbed < CasDisturbances
  /\ casDisturbed' = casDisturbed + 1
  /\ \E commit \in {[op |-> "foreign", obj |-> CasProbe]}
                   \cup [op : {"alter"}, obj : CasAdded(casBranch)] :
       casBranch' = Append(casBranch, commit)
  /\ UNCHANGED <<casOwner, casLate, casClient, casReceipts, casUsed>>

CasStep(c) ==
  \/ \E kind \in {"probe", "bundle", "context"} : CasPut(c, kind)
  \/ CasAuthorized(c) \/ CasEnsureBranch(c) \/ CasCreate(c) \/ CasGet(c) \/ CasWrite(c)
  \/ CasUnanswered(c) \/ CasReread(c) \/ CasFinal(c) \/ CasReadback(c)
  \/ \E o \in CasObjects : CasAdapterFromReceipt(c, o) \/ CasMaterializeBundle(c, o)

CasNext == (\E c \in CasAttempts : CasStep(c)) \/ CasServeLate \/ CasRevoke \/ CasIntrude

CasSpec == CasInit /\ [][CasNext]_casVars

---------------------------------------------------------------------------
\* The place of an object in the branch.
CasPosition(o) == CHOOSE i \in DOMAIN casBranch : casBranch[i] = [op |-> "add", obj |-> o]

\* The commit of an object and everything below it are objects, at most three.
CasWithinScope(o) == CasInScope(SubSeq(casBranch, 1, CasPosition(o)))

\* An object whose write was answered gets a receipt only within the reviewed
\* part of the branch: its commit is one of the first three and nothing but
\* objects lies below it.  Two writers that both counted two objects, a late
\* write and a stranger's push between the check and the write are all caught,
\* because put_object reads the head and the scope again after the answer.
AnsweredWriteInScope ==
  \A r \in casReceipts : r.cause = "written" => CasWithinScope(r.obj)

\* docs/ISSUE_RAG_RECEIPT_CAS.md: "Quarta adicao bloqueia", and when another
\* operation moves the head or exceeds the limit, "o fluxo bloqueia em vez de
\* transformar a simples existencia do objeto em sucesso".  Every receipt, not
\* only one for an answered write, is for an object within the scope.
ReceiptInScope == \A r \in casReceipts : CasWithinScope(r.obj)

\* The clients together are a write-once store: an object is added once, a
\* descriptor is returned only for an object that is on the branch, and only
\* such an object is materialised, whatever answers are lost.
Store == INSTANCE ArtifactStore WITH
  Objects <- CasObjects, stored <- CasAdded(casBranch),
  receipts <- CasReceipted, used <- casUsed

CasImplementsStore == Store!StoreSpec
=============================================================================
