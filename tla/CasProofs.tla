----------------------------- MODULE CasProofs -----------------------------
(***************************************************************************)
(* Proofs about the evidence store on a GitHub branch: the clients         *)
(* together are a write-once store (ArtifactStore), and an answered write  *)
(* is certified only within the reviewed part of the branch, for any       *)
(* number of clients, any capacity, and any number of lost answers, late   *)
(* writes and pushes by others.                                            *)
(*                                                                         *)
(* The branch only grows, so what lies at or below a commit never changes: *)
(* what a client learns about its own commit before the readback is still  *)
(* true when it returns the descriptor.                                    *)
(***************************************************************************)
EXTENDS GitHubCas, TLAPS

CasPoints ==
  {"idle", "auth", "ensure", "create", "recheck", "get", "put", "reread", "final", "read"}
CasCauses == {"written", "exists", "ambiguous", "blocked"}

ClientRow ==
  [pc : CasPoints, obj : CasObjects, at : Nat, cause : CasCauses, left : Nat, probed : BOOLEAN]

CasTypes ==
  /\ casBranch \in Seq(CasCommit) \cup {NoBranch}
  /\ casLate \subseteq [pc : {"create", "put"}, obj : CasObjects]
  /\ casClient \in [CasAttempts -> ClientRow]
  /\ casReceipts \subseteq [obj : CasObjects, cause : CasCauses]

\* An object is added to the branch at most once.
AddedOnce(b) ==
  b # NoBranch =>
    \A i, j \in 1..Len(b) :
      b[i].op = "add" /\ b[j].op = "add" /\ b[i].obj = b[j].obj => i = j

\* The commit of o is one of the first CasCapacity, and only objects lie below it.
Scoped(o, b) ==
  /\ b # NoBranch
  /\ \E i \in 1..Len(b) : /\ b[i].op = "add" /\ b[i].obj = o /\ i <= CasCapacity
                          /\ \A j \in 1..i : CasValidObject(b[j])

\* What a client may rely on, by where it is.
Place(row, b) ==
  /\ row.pc \in {"recheck", "get", "put"} => b # NoBranch
  /\ row.pc \in {"reread", "final"} => row.obj \in CasAdded(b)
  /\ row.pc = "read" /\ row.cause = "written" => Scoped(row.obj, b)

CasInv ==
  /\ CasTypes
  /\ AddedOnce(casBranch)
  /\ \A c \in CasAttempts : Place(casClient[c], casBranch)
  /\ \A r \in casReceipts : r.cause = "written" => Scoped(r.obj, casBranch)

\* How a step may change the branch.
Grows(b, d) ==
  \/ d = b
  \/ b = NoBranch /\ d = << >>
  \/ /\ b # NoBranch
     /\ \E e \in CasCommit : d = Append(b, e) /\ (e.op = "add" => e.obj \notin CasAdded(b))

-----------------------------------------------------------------------------
(* The branch *)

LEMMA BranchFacts ==
  ASSUME NEW b \in Seq(CasCommit)
  PROVE  b # NoBranch /\ Len(b) \in Nat /\ \A i \in 1..Len(b) : b[i] \in CasCommit
  BY CasAssumption

LEMMA AddedIff ==
  ASSUME NEW b \in Seq(CasCommit), NEW o
  PROVE  o \in CasAdded(b) <=> \E i \in 1..Len(b) : b[i].op = "add" /\ b[i].obj = o
<1>1. DOMAIN b = 1..Len(b) OBVIOUS
<1>2. CasAdded(b) = {b[i].obj : i \in {j \in DOMAIN b : b[j].op = "add"}}
  BY BranchFacts DEF CasAdded
<1> QED BY <1>1, <1>2

LEMMA AppendFacts ==
  ASSUME NEW b \in Seq(CasCommit), NEW e \in CasCommit
  PROVE  /\ Append(b, e) \in Seq(CasCommit) /\ Len(Append(b, e)) = Len(b) + 1
         /\ \A i \in 1..Len(b) : Append(b, e)[i] = b[i]
         /\ Append(b, e)[Len(b) + 1] = e
         /\ \A i \in 1..(Len(b) + 1) : i \in 1..Len(b) \/ i = Len(b) + 1
         /\ 1..Len(b) \subseteq 1..(Len(b) + 1) /\ Len(b) + 1 \in 1..(Len(b) + 1)
  OBVIOUS

LEMMA AddedAppend ==
  ASSUME NEW b \in Seq(CasCommit), NEW e \in CasCommit
  PROVE  CasAdded(Append(b, e)) = IF e.op = "add" THEN CasAdded(b) \cup {e.obj} ELSE CasAdded(b)
<1> DEFINE d == Append(b, e)
           n == Len(b)
<1>1. /\ d \in Seq(CasCommit) /\ Len(d) = n + 1 /\ d[n + 1] = e
      /\ \A i \in 1..n : d[i] = b[i]
      /\ \A i \in 1..(n + 1) : i \in 1..n \/ i = n + 1
      /\ 1..n \subseteq 1..(n + 1) /\ n + 1 \in 1..(n + 1)
  BY AppendFacts
<1>2. \A o : o \in CasAdded(b) <=> \E i \in 1..n : b[i].op = "add" /\ b[i].obj = o
  BY AddedIff
<1> HIDE DEF d, n
<1>3. \A o : o \in CasAdded(d) <=> \E i \in 1..(n + 1) : d[i].op = "add" /\ d[i].obj = o
  BY <1>1, AddedIff
<1>4. \A o : o \in CasAdded(d) <=> o \in CasAdded(b) \/ (e.op = "add" /\ o = e.obj)
  BY <1>1, <1>2, <1>3
<1>5. CasAdded(d) = IF e.op = "add" THEN CasAdded(b) \cup {e.obj} ELSE CasAdded(b)
  BY <1>4
<1> QED BY <1>5 DEF d

LEMMA EmptyBranch ==
  /\ << >> \in Seq(CasCommit) /\ << >> # NoBranch /\ CasAdded(<< >>) = {} /\ CasAdded(NoBranch) = {}
  /\ AddedOnce(<< >>)
<1> DEFINE b == << >>
<1>1. b \in Seq(CasCommit) /\ 1..Len(b) = {} OBVIOUS
<1>2. CasAdded(NoBranch) = {} BY DEF CasAdded
<1> HIDE DEF b
<1>3. CasAdded(b) = {} BY <1>1, AddedIff
<1>4. b # NoBranch /\ AddedOnce(b) BY <1>1, BranchFacts DEF AddedOnce
<1> QED BY <1>1, <1>2, <1>3, <1>4 DEF b

\* What a growing branch keeps.
LEMMA GrowthKeeps ==
  ASSUME NEW b \in Seq(CasCommit) \cup {NoBranch}, NEW d, Grows(b, d), AddedOnce(b)
  PROVE  /\ d \in Seq(CasCommit) \cup {NoBranch} /\ AddedOnce(d)
         /\ CasAdded(b) \subseteq CasAdded(d)
         /\ b # NoBranch => d # NoBranch
         /\ \A o : Scoped(o, b) => Scoped(o, d)
         /\ \A row : Place(row, b) => Place(row, d)
<1>1. /\ d \in Seq(CasCommit) \cup {NoBranch} /\ AddedOnce(d)
      /\ CasAdded(b) \subseteq CasAdded(d)
      /\ b # NoBranch => d # NoBranch
      /\ \A o : Scoped(o, b) => Scoped(o, d)
  <2>1. CASE d = b
    BY <2>1
  <2>2. CASE b = NoBranch /\ d = << >>
    BY <2>2, EmptyBranch DEF Scoped
  <2>3. ASSUME b # NoBranch, NEW e \in CasCommit, d = Append(b, e),
               e.op = "add" => e.obj \notin CasAdded(b)
        PROVE  /\ d \in Seq(CasCommit) \cup {NoBranch} /\ AddedOnce(d)
               /\ CasAdded(b) \subseteq CasAdded(d)
               /\ b # NoBranch => d # NoBranch
               /\ \A o : Scoped(o, b) => Scoped(o, d)
    <3> DEFINE n == Len(b)
    <3>0. b \in Seq(CasCommit) /\ n \in Nat BY <2>3, BranchFacts
    <3>1. /\ d \in Seq(CasCommit) /\ Len(d) = n + 1 /\ d[n + 1] = e
          /\ \A i \in 1..n : d[i] = b[i]
          /\ \A i \in 1..(n + 1) : i \in 1..n \/ i = n + 1
          /\ 1..n \subseteq 1..(n + 1)
      BY <2>3, <3>0, AppendFacts
    <3>2. \A o : o \in CasAdded(b) <=> \E i \in 1..n : b[i].op = "add" /\ b[i].obj = o
      BY <3>0, AddedIff
    <3>3. CasAdded(b) \subseteq CasAdded(d) BY <2>3, <3>0, AddedAppend
    <3> HIDE DEF n
    <3>4. AddedOnce(d)
      <4>1. ASSUME NEW i \in 1..(n + 1), NEW j \in 1..(n + 1),
                   d[i].op = "add", d[j].op = "add", d[i].obj = d[j].obj
            PROVE  i = j
        <5>1. CASE i \in 1..n /\ j \in 1..n
          BY <2>3, <3>1, <4>1, <5>1 DEF AddedOnce, n
        <5>2. CASE i = n + 1 /\ j \in 1..n
          BY <2>3, <3>1, <3>2, <4>1, <5>2
        <5>3. CASE i \in 1..n /\ j = n + 1
          BY <2>3, <3>1, <3>2, <4>1, <5>3
        <5> QED BY <3>1, <5>1, <5>2, <5>3
      <4> QED BY <3>1, <4>1 DEF AddedOnce
    <3>5. ASSUME NEW o, Scoped(o, b) PROVE Scoped(o, d)
      <4>1. PICK i \in 1..n : /\ b[i].op = "add" /\ b[i].obj = o /\ i <= CasCapacity
                              /\ \A j \in 1..i : CasValidObject(b[j])
        BY <3>5 DEF Scoped, n
      <4>2. \A j \in 1..i : j \in 1..n BY <3>0
      <4>3. d[i] = b[i] /\ \A j \in 1..i : d[j] = b[j] BY <3>1, <4>2
      <4>4. i \in 1..(n + 1) BY <3>1
      <4>5. d # NoBranch BY <3>1, BranchFacts
      <4> QED BY <3>1, <4>1, <4>3, <4>4, <4>5 DEF Scoped
    <3>6. d # NoBranch BY <3>1, BranchFacts
    <3> QED BY <3>1, <3>3, <3>4, <3>5, <3>6
  <2> QED BY <2>1, <2>2, <2>3 DEF Grows
<1> QED BY <1>1 DEF Place

\* A branch in scope that holds o shows that o is in scope.
LEMMA InScope ==
  ASSUME NEW b \in Seq(CasCommit), CasInScope(b), NEW o \in CasAdded(b)
  PROVE  Scoped(o, b)
<1>1. PICK i \in 1..Len(b) : b[i].op = "add" /\ b[i].obj = o BY AddedIff
<1>2. Len(b) \in Nat /\ b # NoBranch /\ DOMAIN b = 1..Len(b) BY BranchFacts
<1>3. i <= CasCapacity BY <1>2, CasAssumption DEF CasInScope
<1>4. \A j \in 1..i : CasValidObject(b[j]) BY <1>2 DEF CasInScope
<1> QED BY <1>1, <1>2, <1>3, <1>4 DEF Scoped

\* Scoped is what AnsweredWriteInScope says of an object.
LEMMA WithinScope ==
  ASSUME CasTypes, AddedOnce(casBranch), NEW o \in CasObjects, Scoped(o, casBranch)
  PROVE  CasWithinScope(o)
<1> DEFINE b == casBranch
           p == CasPosition(o)
<1>0. b \in Seq(CasCommit) BY DEF CasTypes, Scoped
<1>1. PICK i \in 1..Len(b) : /\ b[i].op = "add" /\ b[i].obj = o /\ i <= CasCapacity
                             /\ \A j \in 1..i : CasValidObject(b[j])
  BY DEF Scoped
<1>2. /\ DOMAIN b = 1..Len(b) /\ Len(b) \in Nat /\ b # NoBranch
      /\ \A j \in 1..Len(b) : b[j] \in CasCommit
  BY <1>0, BranchFacts
<1>3. b[i] = [op |-> "add", obj |-> o]
  <2>1. b[i] \in CasCommit BY <1>2
  <2> QED BY <1>1, <2>1 DEF CasCommit
<1>4. p \in DOMAIN b /\ b[p] = [op |-> "add", obj |-> o]
  BY <1>2, <1>3 DEF CasPosition
<1> HIDE DEF p
<1>5. b[p].op = "add" /\ b[p].obj = o BY <1>4
<1>6. p = i BY <1>1, <1>2, <1>4, <1>5 DEF AddedOnce
<1>7. /\ Len(SubSeq(b, 1, i)) = i /\ DOMAIN SubSeq(b, 1, i) = 1..i
      /\ \A j \in 1..i : SubSeq(b, 1, i)[j] = b[j]
  BY <1>0, <1>2
<1>8. CasInScope(SubSeq(b, 1, i)) BY <1>1, <1>7 DEF CasInScope
<1> QED BY <1>6, <1>8 DEF CasWithinScope, p

-----------------------------------------------------------------------------
(* The clients *)

LEMMA PointRow ==
  ASSUME NEW row, row.left \in Nat, row.probed \in BOOLEAN, NEW pc \in CasPoints,
         NEW o \in CasObjects, NEW cause \in CasCauses
  PROVE  LET r == CasAtPoint(row, pc, o, cause) IN
         r \in ClientRow /\ r.pc = pc /\ r.obj = o /\ r.cause = cause
  BY DEF CasAtPoint, ClientRow

LEMMA IdleRow ==
  ASSUME NEW row, row.left \in Nat, row.probed \in BOOLEAN
  PROVE  CasIdle(row) \in ClientRow /\ CasIdle(row).pc = "idle"
<1>1. CasProbe \in CasObjects /\ "idle" \in CasPoints /\ "written" \in CasCauses
  BY DEF CasObjects, CasPoints, CasCauses
<1> QED BY <1>1, PointRow DEF CasIdle

\* put_object ended, and the caller reads the object back or gives up.
LEMMA EndRow ==
  ASSUME CasTypes, NEW c \in CasAttempts, NEW cause \in CasCauses, CasEnd(c, cause)
  PROVE  \E r \in ClientRow :
           /\ casClient' = [casClient EXCEPT ![c] = r]
           /\ r.pc = "idle" \/ (r.pc = "read" /\ r.obj = casClient[c].obj /\ r.cause = cause)
<1> DEFINE k == casClient[c]
           r == IF CasReadsBack(CasKind(k.obj), cause)
                THEN CasAtPoint(k, "read", k.obj, cause) ELSE CasIdle(k)
<1>1. k \in ClientRow BY DEF CasTypes
<1>2. k.left \in Nat /\ k.probed \in BOOLEAN /\ k.obj \in CasObjects BY <1>1 DEF ClientRow
<1>3. casClient' = [casClient EXCEPT ![c] = r] BY DEF CasEnd, CasTypes
<1>4. /\ r \in ClientRow
      /\ r.pc = "idle" \/ (r.pc = "read" /\ r.obj = k.obj /\ r.cause = cause)
  <2> HIDE DEF k
  <2>1. "read" \in CasPoints BY DEF CasPoints
  <2>2. CASE CasReadsBack(CasKind(k.obj), cause)
    BY <1>2, <2>1, <2>2, PointRow
  <2>3. CASE ~CasReadsBack(CasKind(k.obj), cause)
    BY <1>2, <2>3, IdleRow
  <2> QED BY <2>2, <2>3
<1> HIDE DEF r
<1> QED BY <1>3, <1>4

LEMMA GotoRow ==
  ASSUME CasTypes, NEW c \in CasAttempts, NEW pc \in CasPoints, CasGoto(c, pc)
  PROVE  \E r \in ClientRow :
           /\ casClient' = [casClient EXCEPT ![c] = r]
           /\ r.pc = pc /\ r.obj = casClient[c].obj
<1> DEFINE r == [casClient[c] EXCEPT !.pc = pc]
<1>1. casClient[c] \in ClientRow BY DEF CasTypes
<1>2. casClient' = [casClient EXCEPT ![c] = r] BY DEF CasGoto, CasTypes
<1>3. r \in ClientRow /\ r.pc = pc /\ r.obj = casClient[c].obj BY <1>1 DEF ClientRow
<1> HIDE DEF r
<1> QED BY <1>2, <1>3

\* One client moves, and the branch grows or stays.
LEMMA ClientStep ==
  ASSUME CasInv, NEW c \in CasAttempts, NEW r \in ClientRow,
         casClient' = [casClient EXCEPT ![c] = r], Place(r, casBranch'),
         Grows(casBranch, casBranch'), casReceipts' = casReceipts,
         casLate' \subseteq [pc : {"create", "put"}, obj : CasObjects]
  PROVE  CasInv'
<1>1. /\ casBranch' \in Seq(CasCommit) \cup {NoBranch} /\ AddedOnce(casBranch')
      /\ \A o : Scoped(o, casBranch) => Scoped(o, casBranch')
      /\ \A row : Place(row, casBranch) => Place(row, casBranch')
  BY GrowthKeeps DEF CasInv, CasTypes
<1>2. CasTypes' BY <1>1 DEF CasInv, CasTypes
<1>3. ASSUME NEW d \in CasAttempts PROVE Place(casClient'[d], casBranch')
  <2>1. casClient'[d] = IF d = c THEN r ELSE casClient[d] BY DEF CasInv, CasTypes
  <2>2. Place(casClient[d], casBranch) BY DEF CasInv
  <2> QED BY <1>1, <2>1, <2>2
<1> QED BY <1>1, <1>2, <1>3 DEF CasInv

\* No client moves.
LEMMA WorldStep ==
  ASSUME CasInv, casClient' = casClient, Grows(casBranch, casBranch'),
         casReceipts' = casReceipts, casLate' \subseteq casLate
  PROVE  CasInv'
<1>1. /\ casBranch' \in Seq(CasCommit) \cup {NoBranch} /\ AddedOnce(casBranch')
      /\ \A o : Scoped(o, casBranch) => Scoped(o, casBranch')
      /\ \A row : Place(row, casBranch) => Place(row, casBranch')
  BY GrowthKeeps DEF CasInv, CasTypes
<1>2. CasTypes' BY <1>1 DEF CasInv, CasTypes
<1> QED BY <1>1, <1>2 DEF CasInv

-----------------------------------------------------------------------------
(* The abstract store *)

\* The store as ArtifactStore sees it, and its next-state relation on it.
AbsStep == [Store!StoreNext]_(Store!svars)

LEMMA SameStore ==
  ASSUME CasAdded(casBranch') = CasAdded(casBranch), casReceipts' = casReceipts,
         casUsed' = casUsed
  PROVE  AbsStep
  BY DEF AbsStep, Store!svars, CasReceipted, CasAdded

LEMMA WriteStore ==
  ASSUME NEW o \in CasObjects, o \notin CasAdded(casBranch),
         CasAdded(casBranch') = CasAdded(casBranch) \cup {o}, casReceipts' = casReceipts,
         casUsed' = casUsed
  PROVE  AbsStep
<1>1. CasAdded(casBranch)' = CasAdded(casBranch) \cup {o} BY DEF CasAdded
<1>2. CasReceipted' = CasReceipted BY DEF CasReceipted
<1>3. Store!Write(o) BY <1>1, <1>2 DEF Store!Write
<1> QED BY <1>3 DEF AbsStep, Store!StoreNext

LEMMA CertifyStore ==
  ASSUME NEW o \in CasObjects, o \in CasAdded(casBranch), NEW r, r.obj = o,
         casBranch' = casBranch, casReceipts' = casReceipts \cup {r}, casUsed' = casUsed
  PROVE  AbsStep
<1>1. CasAdded(casBranch)' = CasAdded(casBranch) BY DEF CasAdded
<1>2. CasReceipted' = CasReceipted \cup {o} BY DEF CasReceipted
<1>3. Store!Certify(o) BY <1>1, <1>2 DEF Store!Certify
<1> QED BY <1>3 DEF AbsStep, Store!StoreNext

LEMMA UseStore ==
  ASSUME NEW o \in CasObjects, o \in CasAdded(casBranch), o \in CasReceipted,
         casBranch' = casBranch, casReceipts' = casReceipts, casUsed' = casUsed \cup {o}
  PROVE  AbsStep
<1>1. CasAdded(casBranch)' = CasAdded(casBranch) BY DEF CasAdded
<1>2. CasReceipted' = CasReceipted BY DEF CasReceipted
<1>3. Store!Use(o) BY <1>1, <1>2 DEF Store!Use
<1> QED BY <1>3 DEF AbsStep, Store!StoreNext

LEMMA ReadableAdded == ASSUME NEW o, CasReadable(o) PROVE o \in CasAdded(casBranch)
  BY DEF CasReadable, CasIntact

-----------------------------------------------------------------------------
(* Every step *)

LEMMA CasInitOK == CasInit => CasInv /\ Store!StoreInit
<1> SUFFICES ASSUME CasInit PROVE CasInv /\ Store!StoreInit
  OBVIOUS
<1>1. ASSUME NEW c \in CasAttempts
      PROVE  casClient[c] \in ClientRow /\ Place(casClient[c], casBranch)
  <2> DEFINE k == [left |-> CasRuns[c], probed |-> FALSE]
  <2>1. casClient[c] = CasIdle(k) BY DEF CasInit
  <2>2. k.left \in Nat /\ k.probed \in BOOLEAN BY CasAssumption
  <2> HIDE DEF k
  <2> QED BY <2>1, <2>2, IdleRow DEF Place
<1>2. CasTypes BY <1>1 DEF CasInit, CasTypes
<1>3. CasInv BY <1>1, <1>2 DEF CasInit, CasInv, AddedOnce
<1>4. Store!StoreInit BY EmptyBranch DEF CasInit, Store!StoreInit, CasReceipted
<1> QED BY <1>3, <1>4

LEMMA CasStepOK ==
  ASSUME CasInv, [CasNext]_casVars
  PROVE  CasInv' /\ AbsStep
<1> DEFINE Goal == CasInv' /\ AbsStep
<1>0. /\ CasTypes /\ casClient \in [CasAttempts -> ClientRow]
      /\ casLate \subseteq [pc : {"create", "put"}, obj : CasObjects]
      /\ \A c \in CasAttempts : /\ casClient[c] \in ClientRow /\ casClient[c].obj \in CasObjects
                                /\ Place(casClient[c], casBranch)
  BY DEF CasInv, CasTypes, ClientRow
<1>g. Grows(casBranch, casBranch) BY DEF Grows
<1>q. /\ {"exists", "blocked", "ambiguous", "written"} \subseteq CasCauses
      /\ {"idle", "auth", "ensure", "create", "recheck", "put", "final", "read"} \subseteq CasPoints
  BY DEF CasPoints, CasCauses
\* A client moves and the tables stay.
<1>s. ASSUME NEW c \in CasAttempts, NEW r \in ClientRow,
             casClient' = [casClient EXCEPT ![c] = r], Place(r, casBranch),
             UNCHANGED <<casBranch, casLate, casReceipts, casUsed>>
      PROVE  Goal
  <2>1. CasInv' BY <1>0, <1>g, <1>s, ClientStep
  <2>2. AbsStep BY <1>s, SameStore
  <2> QED BY <2>1, <2>2
\* put_object ends without success and the tables stay.
<1>e. ASSUME NEW c \in CasAttempts, NEW cause \in CasCauses, cause # "written", CasEnd(c, cause),
             UNCHANGED <<casBranch, casLate, casReceipts, casUsed>>
      PROVE  Goal
  <2>1. PICK r \in ClientRow :
          /\ casClient' = [casClient EXCEPT ![c] = r]
          /\ r.pc = "idle" \/ (r.pc = "read" /\ r.obj = casClient[c].obj /\ r.cause = cause)
    BY <1>0, <1>e, EndRow
  <2>2. Place(r, casBranch) BY <1>e, <2>1 DEF Place
  <2> QED BY <1>e, <1>s, <2>1, <2>2
<1> HIDE DEF Goal
<1>1. CASE UNCHANGED casVars
  <2>1. /\ casClient' = casClient /\ casBranch' = casBranch /\ casReceipts' = casReceipts
        /\ casLate' = casLate /\ casUsed' = casUsed
    BY <1>1 DEF casVars
  <2> QED BY <1>g, <2>1, WorldStep, SameStore DEF Goal
<1>2. ASSUME NEW c \in CasAttempts, NEW kind \in {"probe", "bundle", "context"}, CasPut(c, kind)
      PROVE  Goal
  <2> DEFINE o == IF kind = "probe" THEN CasProbe ELSE <<kind, c>>
             r == [casClient[c] EXCEPT !.pc = "auth", !.left = casClient[c].left - 1, !.obj = o]
  <2>1. o \in CasObjects BY <1>2 DEF CasObjects
  <2>2. casClient' = [casClient EXCEPT ![c] = r] BY <1>0, <1>2 DEF CasPut
  <2> HIDE DEF o
  <2>3. casClient[c].left \in Nat /\ casClient[c].left - 1 \in Nat
    BY <1>0, <1>2 DEF CasPut, ClientRow
  <2>4. r \in ClientRow /\ r.pc = "auth" BY <1>0, <2>1, <2>3 DEF ClientRow, CasPoints
  <2> HIDE DEF r
  <2>5. Place(r, casBranch) BY <2>4 DEF Place
  <2> QED BY <1>2, <1>s, <2>2, <2>4, <2>5 DEF CasPut
<1>3. ASSUME NEW c \in CasAttempts, CasAuthorized(c) PROVE Goal
  <2>1. UNCHANGED <<casBranch, casLate, casReceipts, casUsed>> BY <1>3 DEF CasAuthorized
  <2>2. CASE casOwner
    <3>1. PICK r \in ClientRow : casClient' = [casClient EXCEPT ![c] = r] /\ r.pc = "ensure"
      BY <1>0, <1>3, <1>q, <2>2, GotoRow DEF CasAuthorized
    <3>2. Place(r, casBranch) BY <3>1 DEF Place
    <3> QED BY <1>s, <2>1, <3>1, <3>2
  <2>3. CASE ~casOwner
    BY <1>3, <1>e, <1>q, <2>1, <2>3 DEF CasAuthorized
  <2> QED BY <2>2, <2>3
<1>4. ASSUME NEW c \in CasAttempts, CasEnsureBranch(c) PROVE Goal
  <2>1. UNCHANGED <<casBranch, casLate, casReceipts, casUsed>> BY <1>4 DEF CasEnsureBranch
  <2>2. CASE CasEnd(c, "blocked")
    BY <1>e, <1>q, <2>1, <2>2
  <2>3. CASE CasGoto(c, "create")
    <3>1. PICK r \in ClientRow : casClient' = [casClient EXCEPT ![c] = r] /\ r.pc = "create"
      BY <1>0, <1>q, <2>3, GotoRow
    <3>2. Place(r, casBranch) BY <3>1 DEF Place
    <3> QED BY <1>s, <2>1, <3>1, <3>2
  <2>4. CASE casBranch # NoBranch /\
             casClient' = [casClient EXCEPT ![c].pc = "get", ![c].at = Len(casBranch)]
    <3> DEFINE r == [casClient[c] EXCEPT !.pc = "get", !.at = Len(casBranch)]
    <3>1. Len(casBranch) \in Nat BY <1>0, <2>4, BranchFacts DEF CasTypes
    <3>2. casClient' = [casClient EXCEPT ![c] = r] BY <1>0, <2>4
    <3>3. r \in ClientRow /\ r.pc = "get" BY <1>0, <3>1 DEF ClientRow, CasPoints
    <3> HIDE DEF r
    <3>4. Place(r, casBranch) BY <2>4, <3>3 DEF Place
    <3> QED BY <1>s, <2>1, <3>2, <3>3, <3>4
  <2> QED BY <1>4, <2>2, <2>3, <2>4 DEF CasEnsureBranch
<1>5. ASSUME NEW c \in CasAttempts, CasCreate(c) PROVE Goal
  <2>1. UNCHANGED <<casLate, casReceipts, casUsed>> BY <1>5 DEF CasCreate
  <2>2. CASE casBranch = NoBranch
    <3>1. casBranch' = << >> BY <1>5, <2>2 DEF CasCreate
    <3>2. PICK r \in ClientRow : casClient' = [casClient EXCEPT ![c] = r] /\ r.pc = "recheck"
      BY <1>0, <1>5, <1>q, <2>2, GotoRow DEF CasCreate
    <3>3. Place(r, casBranch') BY <3>1, <3>2, EmptyBranch DEF Place
    <3>4. Grows(casBranch, casBranch') BY <2>2, <3>1 DEF Grows
    <3>5. CasInv' BY <1>0, <2>1, <3>2, <3>3, <3>4, ClientStep
    <3>6. AbsStep BY <2>1, <2>2, <3>1, EmptyBranch, SameStore
    <3> QED BY <3>5, <3>6 DEF Goal
  <2>3. CASE casBranch # NoBranch
    BY <1>5, <1>e, <1>q, <2>1, <2>3 DEF CasCreate
  <2> QED BY <2>2, <2>3
<1>6. ASSUME NEW c \in CasAttempts, CasGet(c) PROVE Goal
  <2>1. UNCHANGED <<casBranch, casLate, casReceipts, casUsed>> BY <1>6 DEF CasGet
  <2>2. CASE CasEnd(c, "blocked") \/ CasEnd(c, "exists")
    BY <1>e, <1>q, <2>1, <2>2
  <2>3. CASE CasGoto(c, "put")
    <3>1. PICK r \in ClientRow : casClient' = [casClient EXCEPT ![c] = r] /\ r.pc = "put"
      BY <1>0, <1>q, <2>3, GotoRow
    <3>2. casBranch # NoBranch BY <1>0, <1>6 DEF CasGet, CasAt, Place
    <3>3. Place(r, casBranch) BY <3>1, <3>2 DEF Place
    <3> QED BY <1>s, <2>1, <3>1, <3>3
  <2> QED BY <1>6, <2>2, <2>3 DEF CasGet
<1>7. ASSUME NEW c \in CasAttempts, CasWrite(c) PROVE Goal
  <2> DEFINE o == casClient[c].obj
             e == [op |-> "add", obj |-> o]
  <2>0. /\ o \in CasObjects /\ UNCHANGED <<casLate, casReceipts, casUsed>>
        /\ casBranch # NoBranch /\ casBranch \in Seq(CasCommit)
    BY <1>0, <1>7 DEF CasWrite, CasAt, Place, CasTypes
  <2>1. CASE o \in CasAdded(casBranch)
    BY <1>7, <1>e, <1>q, <2>0, <2>1 DEF CasWrite
  <2>2. CASE o \notin CasAdded(casBranch)
    <3>1. casBranch' = Append(casBranch, e) BY <1>7, <2>2 DEF CasWrite
    <3>2. e \in CasCommit /\ e.op = "add" /\ e.obj = o BY <2>0 DEF CasCommit
    <3>w. \/ casClient' = [casClient EXCEPT ![c].pc = "reread", ![c].at = Len(casBranch')]
          \/ CasEnd(c, "ambiguous")
      BY <1>7, <2>2 DEF CasWrite
    <3> HIDE DEF e
    <3>3. CasAdded(casBranch') = CasAdded(casBranch) \cup {o}
      BY <2>0, <3>1, <3>2, AddedAppend
    <3>4. Grows(casBranch, casBranch') BY <2>0, <2>2, <3>1, <3>2 DEF Grows
    <3>5. AbsStep BY <2>0, <2>2, <3>3, WriteStore
    <3>6. CasInv'
      <4>1. CASE CasEnd(c, "ambiguous")
        <5>1. PICK r \in ClientRow :
                /\ casClient' = [casClient EXCEPT ![c] = r]
                /\ r.pc = "idle" \/ (r.pc = "read" /\ r.cause = "ambiguous")
          BY <1>0, <1>q, <4>1, EndRow
        <5>2. Place(r, casBranch') BY <5>1 DEF Place
        <5> QED BY <1>0, <2>0, <3>4, <5>1, <5>2, ClientStep
      <4>2. CASE casClient' = [casClient EXCEPT ![c].pc = "reread", ![c].at = Len(casBranch')]
        <5> DEFINE r == [casClient[c] EXCEPT !.pc = "reread", !.at = Len(casBranch')]
        <5>1. Len(casBranch') \in Nat BY <2>0, <3>1, <3>2, AppendFacts, BranchFacts
        <5>2. casClient' = [casClient EXCEPT ![c] = r] BY <1>0, <4>2
        <5>3. r \in ClientRow /\ r.pc = "reread" /\ r.obj = o
          BY <1>0, <5>1 DEF ClientRow, CasPoints
        <5> HIDE DEF r
        <5>4. Place(r, casBranch') BY <3>3, <5>3 DEF Place
        <5> QED BY <1>0, <2>0, <3>4, <5>2, <5>3, <5>4, ClientStep
      <4> QED BY <3>w, <4>1, <4>2
    <3> QED BY <3>5, <3>6 DEF Goal
  <2> QED BY <2>1, <2>2
<1>8. ASSUME NEW c \in CasAttempts, CasUnanswered(c) PROVE Goal
  <2>1. PICK r \in ClientRow :
          /\ casClient' = [casClient EXCEPT ![c] = r]
          /\ r.pc = "idle" \/ (r.pc = "read" /\ r.cause = "blocked")
    BY <1>0, <1>8, <1>q, EndRow DEF CasUnanswered
  <2>2. Place(r, casBranch) BY <2>1 DEF Place
  <2>3. [pc |-> casClient[c].pc, obj |-> casClient[c].obj] \in
          [pc : {"create", "put"}, obj : CasObjects]
    BY <1>0, <1>8 DEF CasUnanswered, CasAt
  <2>4. casLate' \subseteq [pc : {"create", "put"}, obj : CasObjects]
    BY <1>0, <1>8, <2>3 DEF CasUnanswered
  <2>5. casBranch' = casBranch /\ casReceipts' = casReceipts /\ casUsed' = casUsed
    BY <1>8 DEF CasUnanswered
  <2>6. CasInv' BY <1>g, <2>1, <2>2, <2>4, <2>5, ClientStep
  <2> QED BY <2>5, <2>6, SameStore DEF Goal
<1>9. ASSUME NEW c \in CasAttempts, CasReread(c) PROVE Goal
  <2>1. UNCHANGED <<casBranch, casLate, casReceipts, casUsed>> BY <1>9 DEF CasReread
  <2>2. CASE CasEnd(c, "blocked")
    BY <1>e, <1>q, <2>1, <2>2
  <2>3. CASE CasGoto(c, "final")
    <3>1. PICK r \in ClientRow : /\ casClient' = [casClient EXCEPT ![c] = r]
                                 /\ r.pc = "final" /\ r.obj = casClient[c].obj
      BY <1>0, <1>q, <2>3, GotoRow
    <3>2. casClient[c].obj \in CasAdded(casBranch) BY <1>0, <1>9 DEF CasReread, CasAt, Place
    <3>3. Place(r, casBranch) BY <3>1, <3>2 DEF Place
    <3> QED BY <1>s, <2>1, <3>1, <3>3
  <2> QED BY <1>9, <2>2, <2>3 DEF CasReread
<1>10. ASSUME NEW c \in CasAttempts, CasFinal(c) PROVE Goal
  <2>1. UNCHANGED <<casBranch, casLate, casReceipts, casUsed>> BY <1>10 DEF CasFinal
  <2>2. CASE CasInScope(casBranch)
    <3>1. CasEnd(c, "written") BY <1>10, <2>2 DEF CasFinal
    <3>2. PICK r \in ClientRow :
            /\ casClient' = [casClient EXCEPT ![c] = r]
            /\ r.pc = "idle" \/ (r.pc = "read" /\ r.obj = casClient[c].obj /\ r.cause = "written")
      BY <1>0, <1>q, <3>1, EndRow
    <3>3. casClient[c].obj \in CasAdded(casBranch) BY <1>0, <1>10 DEF CasFinal, CasAt, Place
    <3>4. casBranch \in Seq(CasCommit) BY <1>0, <3>3, EmptyBranch DEF CasTypes
    <3>5. Scoped(casClient[c].obj, casBranch) BY <2>2, <3>3, <3>4, InScope
    <3>6. Place(r, casBranch) BY <3>2, <3>5 DEF Place
    <3> QED BY <1>s, <2>1, <3>2, <3>6
  <2>3. CASE ~CasInScope(casBranch)
    BY <1>10, <1>e, <1>q, <2>1, <2>3 DEF CasFinal
  <2> QED BY <2>2, <2>3
<1>11. ASSUME NEW c \in CasAttempts, CasReadback(c) PROVE Goal
  <2> DEFINE k == casClient[c]
             o == k.obj
             ok == IF CasKind(o) = "bundle" THEN CasDownload(o) ELSE CasIndependentRead(o)
             x == [obj |-> o, cause |-> k.cause]
             r == CasIdle([k EXCEPT !.probed = k.probed \/ (ok /\ o = CasProbe)])
  <2>0. /\ k \in ClientRow /\ o \in CasObjects /\ k.cause \in CasCauses /\ k.pc = "read"
        /\ casBranch' = casBranch /\ casLate' = casLate /\ casUsed' = casUsed
    BY <1>0, <1>11 DEF CasReadback, CasAt, ClientRow
  <2>1. casReceipts' = IF ok THEN casReceipts \cup {x} ELSE casReceipts
    BY <1>11 DEF CasReadback
  <2>2. casClient' = [casClient EXCEPT ![c] = r] BY <1>0, <1>11 DEF CasReadback
  <2>3. ok => o \in CasAdded(casBranch)
    BY ReadableAdded DEF CasDownload, CasIndependentRead
  <2> HIDE DEF ok
  <2>4. r \in ClientRow /\ r.pc = "idle"
    <3> DEFINE q == [k EXCEPT !.probed = k.probed \/ (ok /\ o = CasProbe)]
    <3>1. q.left \in Nat /\ q.probed \in BOOLEAN BY <2>0 DEF ClientRow
    <3> HIDE DEF q
    <3>2. CasIdle(q) \in ClientRow /\ CasIdle(q).pc = "idle" BY <3>1, IdleRow
    <3> QED BY <3>2 DEF q
  <2> HIDE DEF r
  <2>5. x \in [obj : CasObjects, cause : CasCauses] /\ x.obj = o /\ x.cause = k.cause BY <2>0
  <2>6. k.cause = "written" => Scoped(o, casBranch) BY <1>0, <2>0 DEF Place
  <2> HIDE DEF x, o, k
  <2>7. CasTypes' BY <1>0, <2>0, <2>1, <2>2, <2>4, <2>5 DEF CasTypes
  <2>8. \A d \in CasAttempts : Place(casClient'[d], casBranch')
    BY <1>0, <2>0, <2>2, <2>4 DEF Place
  <2>9. \A y \in casReceipts' : y.cause = "written" => Scoped(y.obj, casBranch')
    BY <2>0, <2>1, <2>5, <2>6 DEF CasInv
  <2>10. CasInv' BY <2>0, <2>7, <2>8, <2>9 DEF CasInv, AddedOnce
  <2>11. AbsStep
    <3>1. CASE ok
      BY <2>0, <2>1, <2>3, <2>5, <3>1, CertifyStore
    <3>2. CASE ~ok
      BY <2>0, <2>1, <3>2, SameStore
    <3> QED BY <3>1, <3>2
  <2> QED BY <2>10, <2>11 DEF Goal
<1>12. ASSUME NEW c \in CasAttempts, NEW o \in CasObjects,
              CasAdapterFromReceipt(c, o) \/ CasMaterializeBundle(c, o)
       PROVE  Goal
  <2>1. /\ o \in CasReceipted /\ CasReadable(o) /\ casUsed' = casUsed \cup {o}
        /\ UNCHANGED <<casBranch, casLate, casClient, casReceipts>>
    BY <1>12 DEF CasAdapterFromReceipt, CasMaterializeBundle, CasMaterializeContext,
                 CasIndependentRead, CasDownload
  <2>2. CasInv' BY <1>g, <2>1, WorldStep
  <2>3. AbsStep BY <2>1, ReadableAdded, UseStore
  <2> QED BY <2>2, <2>3 DEF Goal
<1>13. CASE CasServeLate
  <2>1. PICK r \in casLate :
          /\ casLate' = casLate \ {r}
          /\ casBranch' =
               IF r.pc = "create" THEN (IF casBranch = NoBranch THEN << >> ELSE casBranch)
               ELSE IF casBranch = NoBranch \/ r.obj \in CasAdded(casBranch) THEN casBranch
               ELSE Append(casBranch, [op |-> "add", obj |-> r.obj])
    BY <1>13 DEF CasServeLate
  <2>2. /\ r.obj \in CasObjects /\ casLate' \subseteq casLate
        /\ UNCHANGED <<casClient, casReceipts, casUsed>>
    BY <1>0, <1>13, <2>1 DEF CasServeLate
  <2>3. CASE casBranch' = casBranch
    BY <1>g, <2>2, <2>3, WorldStep, SameStore DEF Goal
  <2>4. CASE casBranch = NoBranch /\ casBranch' = << >>
    <3>1. Grows(casBranch, casBranch') BY <2>4 DEF Grows
    <3> QED BY <2>2, <2>4, <3>1, EmptyBranch, WorldStep, SameStore DEF Goal
  <2>5. CASE /\ casBranch # NoBranch /\ r.obj \notin CasAdded(casBranch)
             /\ casBranch' = Append(casBranch, [op |-> "add", obj |-> r.obj])
    <3> DEFINE e == [op |-> "add", obj |-> r.obj]
    <3>1. /\ casBranch \in Seq(CasCommit) /\ casBranch' = Append(casBranch, e)
          /\ e \in CasCommit /\ e.op = "add" /\ e.obj = r.obj
      BY <1>0, <2>2, <2>5 DEF CasTypes, CasCommit
    <3> HIDE DEF e
    <3>2. Grows(casBranch, casBranch') BY <2>5, <3>1 DEF Grows
    <3>3. CasAdded(casBranch') = CasAdded(casBranch) \cup {r.obj} BY <3>1, AddedAppend
    <3>4. CasInv' BY <2>2, <3>2, WorldStep
    <3>5. AbsStep BY <2>2, <2>5, <3>3, WriteStore
    <3> QED BY <3>4, <3>5 DEF Goal
  <2> QED BY <2>1, <2>3, <2>4, <2>5
<1>14. CASE CasRevoke
  <2>1. UNCHANGED <<casBranch, casLate, casClient, casReceipts, casUsed>> BY <1>14 DEF CasRevoke
  <2> QED BY <1>g, <2>1, WorldStep, SameStore DEF Goal
<1>15. CASE CasIntrude
  <2>1. PICK e \in {[op |-> "foreign", obj |-> CasProbe]} \cup [op : {"alter"}, obj : CasAdded(casBranch)] :
          casBranch' = Append(casBranch, e)
    BY <1>15 DEF CasIntrude
  <2>2. /\ casBranch \in Seq(CasCommit) /\ UNCHANGED <<casLate, casClient, casReceipts, casUsed>>
        /\ casBranch # NoBranch
    BY <1>0, <1>15 DEF CasIntrude, CasTypes
  <2>3. CasAdded(casBranch) \subseteq CasObjects
    <3> SUFFICES ASSUME NEW o \in CasAdded(casBranch) PROVE o \in CasObjects
      OBVIOUS
    <3>1. PICK i \in 1..Len(casBranch) : casBranch[i].obj = o BY <2>2, AddedIff
    <3>2. casBranch[i] \in CasCommit BY <2>2, BranchFacts
    <3> QED BY <3>1, <3>2 DEF CasCommit
  <2>4. e \in CasCommit /\ e.op # "add" BY <2>1, <2>3 DEF CasCommit, CasObjects
  <2>5. Grows(casBranch, casBranch') BY <2>1, <2>2, <2>4 DEF Grows
  <2>6. CasAdded(casBranch') = CasAdded(casBranch) BY <2>1, <2>2, <2>4, AddedAppend
  <2> QED BY <2>2, <2>5, <2>6, WorldStep, SameStore DEF Goal
<1>16. ASSUME NEW c \in CasAttempts, CasStep(c) PROVE Goal
  BY <1>2, <1>3, <1>4, <1>5, <1>6, <1>7, <1>8, <1>9, <1>10, <1>11, <1>12, <1>16 DEF CasStep
<1> QED BY <1>1, <1>13, <1>14, <1>15, <1>16 DEF CasNext, Goal

LEMMA CasInvariance == CasSpec => []CasInv
<1>1. CasInit => CasInv BY CasInitOK
<1>2. CasInv /\ [CasNext]_casVars => CasInv' BY CasStepOK
<1> QED BY <1>1, <1>2, PTL DEF CasSpec

-----------------------------------------------------------------------------
(* The theorems *)

\* An object whose write was answered gets a receipt only when its commit is one of
\* the first CasCapacity and nothing but objects lies below it (put_object of
\* app/github_cas_transport.py reads the head and the scope again after the answer).
THEOREM AnsweredWritesInScope == CasSpec => []AnsweredWriteInScope
<1>1. CasInv => AnsweredWriteInScope
  <2> SUFFICES ASSUME CasInv, NEW r \in casReceipts, r.cause = "written"
               PROVE  CasWithinScope(r.obj)
    BY DEF AnsweredWriteInScope
  <2>1. r.obj \in CasObjects BY DEF CasInv, CasTypes
  <2> QED BY <2>1, WithinScope DEF CasInv
<1> QED BY <1>1, CasInvariance, PTL

\* The clients, their lost answers, late writes and strangers' pushes together are a
\* write-once store: an object is added once, a descriptor is returned only for an
\* object on the branch, and only such an object is materialised.
THEOREM BranchIsAStore == CasSpec => CasImplementsStore
<1>1. CasInit => Store!StoreInit BY CasInitOK
<1>2. CasInv /\ [CasNext]_casVars => [Store!StoreNext]_(Store!svars)
  BY CasStepOK DEF AbsStep
<1> QED BY <1>1, <1>2, CasInvariance, PTL DEF CasSpec, CasImplementsStore, Store!StoreSpec
=============================================================================
