-------------------------- MODULE AuthorityProofs --------------------------
(***************************************************************************)
(* Proofs about the PostgreSQL authority: transactions are serial and a    *)
(* schema belongs to one authority, for any number of threads, operators   *)
(* and commits.  The argument is about who may be where: the actor that    *)
(* holds the advisory lock is the only one past it, it holds a snapshot    *)
(* only after the lock, and the identity it checked cannot change before   *)
(* it commits, because only the holder of the same lock writes it.         *)
(***************************************************************************)
EXTENDS PostgresAuthority, TLAPS

Identities == {AuthIdentity[a] : a \in AuthActors}

AuthRow ==
  [pc : {"idle", "stamped", "locking", "open", "read", "create"}, kind : AuthKinds,
   seen : Nat, at : Nat, retired : BOOLEAN]

CommitRow == [by : Identities, kind : AuthKinds, seen : Nat, at : Nat]

\* Past the advisory lock.
Inside(row) == row.pc \in {"open", "read", "create"}

AuthTypes ==
  /\ authMeta \in Identities \cup {NoAuthority}
  /\ authHistory \in Seq(CommitRow) /\ Len(authHistory) <= AuthCommits
  /\ authLock \in AuthActors \cup {NoAuthority}
  /\ authNow \in Nat
  /\ authCall \in [AuthActors -> AuthRow]

\* What an actor knows, by where it is: no snapshot before the lock, the whole
\* history and the current identity once it has read, and no time from the future.
Position(a) ==
  LET r == authCall[a] IN
  /\ Inside(r) <=> authLock = a
  /\ r.pc \in {"locking", "open"} => r.seen = NoSnapshot
  /\ r.pc \in {"open", "read"} => authMeta = AuthIdentity[a]
  /\ r.pc = "read" => r.seen = Len(authHistory)
  /\ r.pc = "read" /\ r.kind = "inside" =>
       \A i \in DOMAIN authHistory : authHistory[i].kind = "inside" => authHistory[i].at <= r.at
  /\ r.at <= authNow

AuthInv ==
  /\ AuthTypes
  /\ \A a \in AuthActors : Position(a)
  /\ \A i \in DOMAIN authHistory : authHistory[i].at <= authNow
  /\ SerialCommits
  /\ OneAuthority

-----------------------------------------------------------------------------
LEMMA AuthFacts ==
  /\ NoAuthority \notin AuthActors /\ NoAuthority \notin Identities
  /\ \A a \in AuthActors : AuthIdentity[a] \in Identities
  /\ NoSnapshot \in Nat /\ AuthCommits \in Nat /\ NoSnapshot > AuthCommits
  BY AuthAssumption DEF AuthActors, Identities, NoSnapshot

LEMMA IdleRow ==
  /\ AuthIdle \in AuthRow /\ ~Inside(AuthIdle) /\ AuthIdle.pc = "idle" /\ AuthIdle.at = 0
  /\ LET r == [AuthIdle EXCEPT !.retired = TRUE] IN
     r \in AuthRow /\ ~Inside(r) /\ r.pc = "idle" /\ r.at = 0
  BY DEF AuthIdle, AuthRow, AuthKinds, Inside

\* An actor changes its own row and the lock moves between it and nobody.
LEMMA OneActor ==
  ASSUME AuthInv, NEW a \in AuthActors, NEW r \in AuthRow,
         authCall' = [authCall EXCEPT ![a] = r],
         authLock' \in {authLock, a, NoAuthority},
         Inside(r) <=> authLock' = a,
         authLock' # authLock => authLock \in {a, NoAuthority},
         UNCHANGED <<authMeta, authHistory, authNow>>,
         r.pc \in {"locking", "open"} => r.seen = NoSnapshot,
         r.pc \in {"open", "read"} => authMeta = AuthIdentity[a],
         r.pc = "read" => r.seen = Len(authHistory),
         r.pc = "read" /\ r.kind = "inside" =>
           \A i \in DOMAIN authHistory :
             authHistory[i].kind = "inside" => authHistory[i].at <= r.at,
         r.at <= authNow
  PROVE  AuthInv'
<1>1. AuthTypes' BY AuthFacts DEF AuthInv, AuthTypes
<1>2. ASSUME NEW b \in AuthActors PROVE Position(b)'
  <2>1. CASE b = a
    <3>1. authCall'[b] = r BY <2>1 DEF AuthInv, AuthTypes
    <3> QED BY <2>1, <3>1 DEF Position
  <2>2. CASE b # a
    <3>1. authCall'[b] = authCall[b] BY <2>2 DEF AuthInv, AuthTypes
    <3>2. authLock' = b <=> authLock = b BY <2>2, AuthFacts
    <3>3. Position(b) BY DEF AuthInv
    <3> QED BY <3>1, <3>2, <3>3 DEF Position
  <2> QED BY <2>1, <2>2
<1>3. (\A i \in DOMAIN authHistory : authHistory[i].at <= authNow)' BY DEF AuthInv
<1>4. SerialCommits' /\ OneAuthority' BY DEF AuthInv, SerialCommits, OneAuthority
<1> QED BY <1>1, <1>2, <1>3, <1>4 DEF AuthInv

LEMMA AuthInitOK == AuthInit => AuthInv
<1> SUFFICES ASSUME AuthInit PROVE AuthInv
  OBVIOUS
<1>1. AuthTypes BY IdleRow, AuthFacts DEF AuthInit, AuthTypes
<1>2. \A a \in AuthActors : authCall[a] = AuthIdle BY DEF AuthInit
<1>3. \A a \in AuthActors : Position(a)
  BY <1>2, IdleRow, AuthFacts DEF AuthInit, Position
<1>4. DOMAIN authHistory = {} BY DEF AuthInit
<1> QED BY <1>1, <1>3, <1>4 DEF AuthInv, SerialCommits, OneAuthority

LEMMA AuthNextOK == AuthInv /\ [AuthNext]_authVars => AuthInv'
<1> SUFFICES ASSUME AuthInv, [AuthNext]_authVars PROVE AuthInv'
  OBVIOUS
<1>0. /\ authCall \in [AuthActors -> AuthRow] /\ authNow \in Nat
      /\ authHistory \in Seq(CommitRow) /\ Len(authHistory) \in Nat
      /\ Len(authHistory) <= AuthCommits
      /\ \A a \in AuthActors : authCall[a] \in AuthRow /\ Position(a)
  BY DEF AuthInv, AuthTypes
<1>c. \A i \in DOMAIN authHistory : authHistory[i] \in CommitRow BY <1>0
<1>1. CASE UNCHANGED authVars
  BY <1>1 DEF AuthInv, AuthTypes, Position, SerialCommits, OneAuthority, authVars
<1>2. CASE AuthTick
  <2>1. /\ authNow' \in Nat /\ authNow <= authNow'
        /\ UNCHANGED <<authMeta, authHistory, authLock, authCall>>
    BY <1>0, <1>2 DEF AuthTick
  <2>2. AuthTypes' BY <2>1 DEF AuthInv, AuthTypes
  <2>3. ASSUME NEW a \in AuthActors PROVE Position(a)'
    <3>1. authCall[a].at \in Nat BY <1>0 DEF AuthRow
    <3> QED BY <1>0, <2>1, <3>1 DEF Position
  <2>4. (\A i \in DOMAIN authHistory : authHistory[i].at <= authNow)'
    <3>1. \A i \in DOMAIN authHistory : authHistory[i].at \in Nat BY <1>c DEF CommitRow
    <3> QED BY <1>0, <2>1, <3>1 DEF AuthInv
  <2>5. SerialCommits' /\ OneAuthority' BY <2>1 DEF AuthInv, SerialCommits, OneAuthority
  <2> QED BY <2>2, <2>3, <2>4, <2>5 DEF AuthInv
<1>3. ASSUME NEW a \in AuthActors, AuthStampBefore(a) PROVE AuthInv'
  <2> DEFINE r == [authCall[a] EXCEPT !.pc = "stamped", !.kind = "before", !.at = authNow]
  <2>1. /\ authCall' = [authCall EXCEPT ![a] = r] /\ r \in AuthRow /\ r.pc = "stamped"
        /\ r.at = authNow /\ ~Inside(r) /\ ~Inside(authCall[a])
        /\ UNCHANGED <<authMeta, authHistory, authLock, authNow>>
    BY <1>0, <1>3 DEF AuthStampBefore, AuthAt, AuthRow, AuthKinds, Inside
  <2>2. authLock # a BY <1>0, <2>1 DEF Position
  <2> HIDE DEF r
  <2>3. r.at <= authNow BY <1>0, <2>1
  <2> QED BY <2>1, <2>2, <2>3, OneActor
<1>4. ASSUME NEW a \in AuthActors, AuthBegin(a) PROVE AuthInv'
  <2> DEFINE r == [authCall[a] EXCEPT !.pc = "locking", !.seen = NoSnapshot]
  <2>1. /\ authCall' = [authCall EXCEPT ![a] = r] /\ r \in AuthRow /\ r.pc = "locking"
        /\ r.seen = NoSnapshot /\ r.at = authCall[a].at /\ ~Inside(r) /\ ~Inside(authCall[a])
        /\ UNCHANGED <<authMeta, authHistory, authLock, authNow>>
    BY <1>0, <1>4, AuthFacts DEF AuthBegin, AuthRow, Inside
  <2>2. authLock # a /\ authCall[a].at <= authNow BY <1>0, <2>1 DEF Position
  <2> HIDE DEF r
  <2> QED BY <1>0, <2>1, <2>2, OneActor
<1>5. ASSUME NEW a \in AuthActors, AuthAcquire(a) PROVE AuthInv'
  <2>0. /\ authCall[a].pc = "locking" /\ authLock = NoAuthority /\ ~Inside(authCall[a])
        /\ UNCHANGED <<authMeta, authHistory, authNow>>
    BY <1>5 DEF AuthAcquire, AuthAt, Inside
  <2>1. authCall[a].seen = NoSnapshot /\ authCall[a].at <= authNow BY <1>0, <2>0 DEF Position
  <2>2. CASE VerifyIdentity(a)
    <3> DEFINE r == [authCall[a] EXCEPT !.pc = "open"]
    <3>1. /\ authCall' = [authCall EXCEPT ![a] = r] /\ r \in AuthRow /\ r.pc = "open"
          /\ r.seen = NoSnapshot /\ r.at = authCall[a].at /\ Inside(r)
          /\ authLock' = a /\ authMeta = AuthIdentity[a]
      BY <1>0, <1>5, <2>1, <2>2 DEF AuthAcquire, AuthRow, Inside, VerifyIdentity
    <3> HIDE DEF r
    <3> QED BY <2>0, <2>1, <3>1, OneActor
  <2>3. CASE ~VerifyIdentity(a)
    <3>1. authCall' = [authCall EXCEPT ![a] = AuthIdle] /\ UNCHANGED authLock
      BY <1>5, <2>3 DEF AuthAcquire
    <3>2. AuthIdle.at <= authNow BY <1>0, IdleRow
    <3>3. authLock # a /\ ~Inside(AuthIdle) /\ AuthIdle \in AuthRow /\ AuthIdle.pc = "idle"
      BY <2>0, IdleRow, AuthFacts
    <3> QED BY <2>0, <3>1, <3>2, <3>3, OneActor
  <2> QED BY <2>2, <2>3
<1>6. ASSUME NEW a \in AuthActors, AuthRead(a) PROVE AuthInv'
  <2> DEFINE r == [authCall[a] EXCEPT
                     !.pc = "read",
                     !.seen = IF authCall[a].seen = NoSnapshot THEN Len(authHistory)
                              ELSE authCall[a].seen,
                     !.at = IF authCall[a].kind = "inside" THEN authNow ELSE authCall[a].at]
  <2>0. authCall[a].pc = "open" /\ Inside(authCall[a]) BY <1>6 DEF AuthRead, AuthAt, Inside
  <2>1. /\ authCall[a].seen = NoSnapshot /\ authLock = a /\ authMeta = AuthIdentity[a]
        /\ authCall[a].at <= authNow
    BY <1>0, <2>0 DEF Position
  <2>2. /\ authCall' = [authCall EXCEPT ![a] = r] /\ r \in AuthRow /\ r.pc = "read"
        /\ r.seen = Len(authHistory) /\ r.kind = authCall[a].kind /\ Inside(r)
        /\ r.at = IF r.kind = "inside" THEN authNow ELSE authCall[a].at
        /\ UNCHANGED <<authMeta, authHistory, authLock, authNow>>
    BY <1>0, <1>6, <2>1 DEF AuthRead, AuthRow, Inside
  <2> HIDE DEF r
  <2>3. r.at <= authNow BY <1>0, <2>1, <2>2
  <2>4. r.kind = "inside" => \A i \in DOMAIN authHistory : authHistory[i].at <= r.at
    BY <2>2 DEF AuthInv
  <2> QED BY <2>1, <2>2, <2>3, <2>4, OneActor
<1>7. ASSUME NEW a \in AuthActors, AuthAbort(a) PROVE AuthInv'
  <2>1. PICK r \in AuthRow : /\ authCall' = [authCall EXCEPT ![a] = r]
                             /\ ~Inside(r) /\ r.pc = "idle" /\ r.at = 0
    BY <1>7, IdleRow DEF AuthAbort
  <2>2. /\ authLock' = IF authLock = a THEN NoAuthority ELSE authLock
        /\ UNCHANGED <<authMeta, authHistory, authNow>>
    BY <1>7 DEF AuthAbort
  <2>3. r.at <= authNow /\ authLock' # a BY <1>0, <2>1, <2>2, AuthFacts
  <2>4. authLock' \in {authLock, a, NoAuthority} /\ (authLock' # authLock => authLock = a)
    BY <2>2
  <2> QED BY <2>1, <2>2, <2>3, <2>4, OneActor
<1>8. ASSUME NEW a \in AuthActors, AuthCommit(a) PROVE AuthInv'
  <2> DEFINE e == [by |-> AuthIdentity[a], kind |-> authCall[a].kind,
                   seen |-> authCall[a].seen, at |-> authCall[a].at]
             n == Len(authHistory)
  <2>0. /\ authCall[a].pc = "read" /\ Inside(authCall[a]) /\ n < AuthCommits
        /\ authHistory' = Append(authHistory, e) /\ authLock' = NoAuthority
        /\ authCall' = [authCall EXCEPT ![a] = AuthIdle] /\ UNCHANGED <<authMeta, authNow>>
    BY <1>8 DEF AuthCommit, AuthAt, Inside
  <2>1. /\ authLock = a /\ authMeta = AuthIdentity[a] /\ authCall[a].seen = n
        /\ authCall[a].at <= authNow
        /\ authCall[a].kind = "inside" => \A i \in DOMAIN authHistory :
             authHistory[i].kind = "inside" => authHistory[i].at <= authCall[a].at
    BY <1>0, <2>0 DEF Position
  <2>2. /\ e \in CommitRow /\ e.by = authMeta /\ e.seen = n /\ e.at <= authNow
        /\ e.kind = authCall[a].kind /\ e.at = authCall[a].at
    BY <1>0, <2>1, AuthFacts DEF CommitRow, AuthRow
  <2> HIDE DEF e
  <2>3. /\ authHistory' \in Seq(CommitRow) /\ Len(authHistory') = n + 1
        /\ DOMAIN authHistory = 1..n /\ DOMAIN authHistory' = 1..(n + 1)
        /\ \A i \in 1..n : authHistory'[i] = authHistory[i]
        /\ authHistory'[n + 1] = e
    BY <1>0, <2>0, <2>2
  <2>4. \A i \in 1..(n + 1) : i \in 1..n \/ i = n + 1 BY <1>0
  <2>5. AuthTypes' BY <1>0, <2>0, <2>3, AuthFacts, IdleRow DEF AuthInv, AuthTypes
  <2>6. ASSUME NEW b \in AuthActors PROVE Position(b)'
    <3>1. CASE b = a
      <4>1. authCall'[b] = AuthIdle BY <1>0, <2>0, <3>1
      <4> QED BY <1>0, <2>0, <3>1, <4>1, IdleRow, AuthFacts DEF Position
    <3>2. CASE b # a
      <4>1. authCall'[b] = authCall[b] BY <1>0, <2>0, <3>2
      <4>2. Position(b) /\ ~Inside(authCall[b]) BY <1>0, <2>1, <3>2 DEF Position
      <4>3. authCall[b].pc \notin {"open", "read"} BY <4>2 DEF Inside
      <4> QED BY <2>0, <4>1, <4>2, <4>3, AuthFacts DEF Position
    <3> QED BY <3>1, <3>2
  <2>7. (\A i \in DOMAIN authHistory : authHistory[i].at <= authNow)'
    BY <2>0, <2>2, <2>3, <2>4 DEF AuthInv
  <2>8. OneAuthority' BY <2>0, <2>2, <2>3, <2>4 DEF AuthInv, OneAuthority
  <2>9. SerialCommits'
    <3> SUFFICES ASSUME NEW i \in 1..(n + 1)
                 PROVE  /\ authHistory'[i].seen = i - 1
                        /\ \A j \in 1..i :
                             authHistory'[i].kind = "inside" /\ authHistory'[j].kind = "inside"
                               => authHistory'[j].at <= authHistory'[i].at
      BY <2>3 DEF SerialCommits
    <3>1. CASE i \in 1..n
      <4>1. \A j \in 1..i : j \in 1..n BY <1>0, <3>1
      <4>2. authHistory'[i] = authHistory[i] /\ \A j \in 1..i : authHistory'[j] = authHistory[j]
        BY <2>3, <3>1, <4>1
      <4> QED BY <2>3, <3>1, <4>2 DEF AuthInv, SerialCommits
    <3>2. CASE i = n + 1
      <4>1. authHistory'[i] = e BY <2>3, <3>2
      <4>2. e.at \in Nat BY <2>2 DEF CommitRow
      <4>3. \A j \in 1..n : e.kind = "inside" /\ authHistory'[j].kind = "inside"
                               => authHistory'[j].at <= e.at
        BY <2>1, <2>2, <2>3
      <4> QED BY <1>0, <2>2, <2>4, <3>2, <4>1, <4>2, <4>3
    <3> QED BY <2>4, <3>1, <3>2
  <2> QED BY <2>5, <2>6, <2>7, <2>8, <2>9 DEF AuthInv
<1>9. ASSUME NEW a \in AuthActors, InitializeBegin(a) PROVE AuthInv'
  <2> DEFINE r == [authCall[a] EXCEPT !.pc = "create"]
  <2>1. /\ authCall' = [authCall EXCEPT ![a] = r] /\ r \in AuthRow /\ r.pc = "create"
        /\ r.at = authCall[a].at /\ Inside(r) /\ authLock = NoAuthority /\ authLock' = a
        /\ UNCHANGED <<authMeta, authHistory, authNow>>
    BY <1>0, <1>9 DEF InitializeBegin, AuthAt, AuthRow, Inside
  <2>2. authCall[a].at <= authNow BY <1>0 DEF Position
  <2> HIDE DEF r
  <2> QED BY <2>1, <2>2, OneActor
<1>10. ASSUME NEW a \in AuthActors, Initialize(a) PROVE AuthInv'
  <2> DEFINE r == [AuthIdle EXCEPT !.retired = TRUE]
  <2>0. /\ Inside(authCall[a])
        /\ authMeta' = IF authMeta = NoAuthority THEN AuthIdentity[a] ELSE authMeta
        /\ authLock' = NoAuthority /\ authCall' = [authCall EXCEPT ![a] = r]
        /\ UNCHANGED <<authHistory, authNow>>
    BY <1>10 DEF Initialize, AuthAt, Inside
  <2>1. authLock = a BY <1>0, <2>0 DEF Position
  <2>2. r \in AuthRow /\ ~Inside(r) /\ r.pc = "idle" /\ r.at = 0 BY IdleRow
  <2> HIDE DEF r
  <2>3. AuthTypes' BY <2>0, <2>2, AuthFacts DEF AuthInv, AuthTypes
  <2>4. ASSUME NEW b \in AuthActors PROVE Position(b)'
    <3>1. CASE b = a
      <4>1. authCall'[b] = r BY <1>0, <2>0, <3>1
      <4> QED BY <1>0, <2>0, <2>2, <3>1, <4>1, AuthFacts DEF Position
    <3>2. CASE b # a
      <4>1. authCall'[b] = authCall[b] BY <1>0, <2>0, <3>2
      <4>2. Position(b) /\ ~Inside(authCall[b]) BY <1>0, <2>1, <3>2 DEF Position
      <4>3. authCall[b].pc \notin {"open", "read"} BY <4>2 DEF Inside
      <4> QED BY <2>0, <4>1, <4>2, <4>3, AuthFacts DEF Position
    <3> QED BY <3>1, <3>2
  <2>5. OneAuthority'
    <3>1. \A i \in DOMAIN authHistory : authHistory[i].by \in Identities
      BY <1>c DEF CommitRow
    <3> QED BY <2>0, <3>1, AuthFacts DEF AuthInv, OneAuthority
  <2>6. SerialCommits' /\ (\A i \in DOMAIN authHistory : authHistory[i].at <= authNow)'
    BY <2>0 DEF AuthInv, SerialCommits
  <2> QED BY <2>3, <2>4, <2>5, <2>6 DEF AuthInv
<1> QED BY <1>1, <1>2, <1>3, <1>4, <1>5, <1>6, <1>7, <1>8, <1>9, <1>10 DEF AuthNext

LEMMA AuthInvariance == AuthSpec => []AuthInv
  BY AuthInitOK, AuthNextOK, PTL DEF AuthSpec

-----------------------------------------------------------------------------
\* Transactions of any number of service processes are serial: each read exactly
\* what the one before it committed, and the times that decide about leases never
\* run backwards along the history (begin_immediate of app/postgres_authority.py).
THEOREM CommitsAreSerial == AuthSpec => []SerialCommits
<1>1. AuthInv => SerialCommits BY DEF AuthInv
<1> QED BY <1>1, AuthInvariance, PTL

\* Every commit was made under the identity the schema has now, although operators
\* with other identities may initialise it at any time (_verify_identity, initialize).
THEOREM SchemaHasOneAuthority == AuthSpec => []OneAuthority
<1>1. AuthInv => OneAuthority BY DEF AuthInv
<1> QED BY <1>1, AuthInvariance, PTL
=============================================================================
