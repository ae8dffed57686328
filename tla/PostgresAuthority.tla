------------------------- MODULE PostgresAuthority -------------------------
(***************************************************************************)
(* The PostgreSQL authority of app/postgres_authority.py: several service  *)
(* processes run the pool's store against one schema.  A writer takes one  *)
(* transaction-scoped advisory lock, checks the schema's identity and only *)
(* then reads, so that a transaction behaves as SQLite's BEGIN IMMEDIATE.  *)
(* The rows of the store are abstracted to the history of commits: a       *)
(* transaction reads how many there are and appends itself.                *)
(***************************************************************************)
EXTENDS Naturals, Sequences

CONSTANTS
  AuthThreads,    \* threads of the service processes, one call at a time each
  AuthOperators,  \* runs of the explicit initialize command
  AuthIdentity,   \* the authority_id each of them is configured with
  AuthCommits,    \* bound: commits
  AuthMaxClock,   \* bound: the server's clock
  NoAuthority     \* the schema is empty, the lock is free

ASSUME AuthAssumption ==
  /\ AuthThreads \cap AuthOperators = {}
  /\ NoAuthority \notin AuthThreads \cup AuthOperators
  /\ DOMAIN AuthIdentity = AuthThreads \cup AuthOperators
  /\ \A a \in DOMAIN AuthIdentity : AuthIdentity[a] # NoAuthority
  /\ AuthCommits \in Nat /\ AuthMaxClock \in Nat

VARIABLES
  authMeta,     \* the identity in authority_meta
  authHistory,  \* the committed transactions, oldest first
  authLock,     \* who holds the advisory lock
  authNow,      \* the server's clock
  authCall      \* what each thread or operator is doing

authVars == <<authMeta, authHistory, authLock, authNow, authCall>>

AuthActors == AuthThreads \cup AuthOperators

\* Most operations of the store take the time inside their transaction;
\* register_worker, configure_repository, enable_fenced_cutover, enqueue_task
\* and fail_task stamp before it.
AuthKinds == {"inside", "before"}
NoSnapshot == AuthCommits + 1
AuthIdle == [pc |-> "idle", kind |-> "inside", seen |-> 0, at |-> 0, retired |-> FALSE]

AuthInit ==
  /\ authMeta = NoAuthority /\ authHistory = << >> /\ authLock = NoAuthority
  /\ authNow = 0 /\ authCall = [a \in AuthActors |-> AuthIdle]

AuthAt(a, pc) == authCall[a].pc = pc

\* _verify_identity: the row exists and names this process's authority.
VerifyIdentity(a) == authMeta = AuthIdentity[a]

\* A call that stamps before its transaction reads the clock through a read
\* transaction of its own, which checks the identity too.
AuthStampBefore(a) ==
  /\ AuthAt(a, "idle") /\ a \in AuthThreads /\ VerifyIdentity(a)
  /\ authCall' = [authCall EXCEPT ![a].pc = "stamped", ![a].kind = "before", ![a].at = authNow]
  /\ UNCHANGED <<authMeta, authHistory, authLock, authNow>>

\* Fault: BEGIN takes its snapshot before it waits for the lock.
AuthBeginWithSnapshot(a) ==
  /\ a \in AuthThreads /\ authCall[a].pc \in {"idle", "stamped"}
  /\ authCall' = [authCall EXCEPT ![a].pc = "locking", ![a].seen = Len(authHistory)]
  /\ UNCHANGED <<authMeta, authHistory, authLock, authNow>>

\* BEGIN at READ COMMITTED takes no snapshot before the lock is held.  A thread
\* that already has a writer is refused.
AuthBegin(a) ==
  /\ a \in AuthThreads /\ authCall[a].pc \in {"idle", "stamped"}
  /\ authCall' = [authCall EXCEPT ![a].pc = "locking", ![a].seen = NoSnapshot]
  /\ UNCHANGED <<authMeta, authHistory, authLock, authNow>>

\* The advisory lock, then the identity; a mismatch rolls back, which frees
\* the lock.
AuthAcquire(a) ==
  /\ AuthAt(a, "locking") /\ authLock = NoAuthority
  /\ IF VerifyIdentity(a)
       THEN /\ authLock' = a
            /\ authCall' = [authCall EXCEPT ![a].pc = "open"]
       ELSE /\ UNCHANGED authLock
            /\ authCall' = [authCall EXCEPT ![a] = AuthIdle]
  /\ UNCHANGED <<authMeta, authHistory, authNow>>

\* The statements of the transaction see what is committed when they run, and
\* clock() asks the server on the writer's own connection.
AuthRead(a) ==
  LET r == authCall[a] IN
  /\ AuthAt(a, "open")
  /\ authCall' = [authCall EXCEPT
       ![a].pc = "read",
       ![a].seen = IF r.seen = NoSnapshot THEN Len(authHistory) ELSE r.seen,
       ![a].at = IF r.kind = "inside" THEN authNow ELSE r.at]
  /\ UNCHANGED <<authMeta, authHistory, authLock, authNow>>

\* A rollback, a lock timeout, a killed process: the server drops the
\* transaction and its lock.
AuthAbort(a) ==
  /\ authCall[a].pc \in {"stamped", "locking", "open", "read", "create"}
  /\ authCall' = [authCall EXCEPT ![a] = IF a \in AuthOperators THEN [AuthIdle EXCEPT !.retired = TRUE]
                                         ELSE AuthIdle]
  /\ authLock' = IF authLock = a THEN NoAuthority ELSE authLock
  /\ UNCHANGED <<authMeta, authHistory, authNow>>

\* The server commits and frees the lock.  Whether the answer arrives decides
\* only what the caller is told: nothing is sent a second time.
AuthCommit(a) ==
  /\ AuthAt(a, "read") /\ Len(authHistory) < AuthCommits
  /\ authHistory' = Append(authHistory,
       [by |-> AuthIdentity[a], kind |-> authCall[a].kind,
        seen |-> authCall[a].seen, at |-> authCall[a].at])
  /\ authLock' = NoAuthority
  /\ authCall' = [authCall EXCEPT ![a] = AuthIdle]
  /\ UNCHANGED <<authMeta, authNow>>

\* initialize: the same lock, then the tables.  An existing schema must already
\* carry this identity.
InitializeBegin(o) ==
  /\ AuthAt(o, "idle") /\ o \in AuthOperators /\ ~authCall[o].retired
  /\ authLock = NoAuthority
  /\ authLock' = o
  /\ authCall' = [authCall EXCEPT ![o].pc = "create"]
  /\ UNCHANGED <<authMeta, authHistory, authNow>>

\* Fault: initialising a schema takes it over.
InitializeOver(o) ==
  /\ AuthAt(o, "create")
  /\ authMeta' = AuthIdentity[o]
  /\ authLock' = NoAuthority
  /\ authCall' = [authCall EXCEPT ![o] = [AuthIdle EXCEPT !.retired = TRUE]]
  /\ UNCHANGED <<authHistory, authNow>>

Initialize(o) ==
  /\ AuthAt(o, "create")
  /\ authMeta' = IF authMeta = NoAuthority THEN AuthIdentity[o] ELSE authMeta
  /\ authLock' = NoAuthority
  /\ authCall' = [authCall EXCEPT ![o] = [AuthIdle EXCEPT !.retired = TRUE]]
  /\ UNCHANGED <<authHistory, authNow>>

AuthTick ==
  /\ authNow < AuthMaxClock /\ authNow' = authNow + 1
  /\ UNCHANGED <<authMeta, authHistory, authLock, authCall>>

AuthNext ==
  \/ AuthTick
  \/ \E a \in AuthActors :
       \/ AuthStampBefore(a) \/ AuthBegin(a) \/ AuthAcquire(a) \/ AuthRead(a)
       \/ AuthAbort(a) \/ AuthCommit(a)
       \/ InitializeBegin(a) \/ Initialize(a)

AuthSpec == AuthInit /\ [][AuthNext]_authVars

---------------------------------------------------------------------------
\* Transactions are serial, as under BEGIN IMMEDIATE: each one read exactly what
\* the one before it committed, and the times taken inside them never
\* run backwards along the history, however calls wait, abort and interleave.
SerialCommits ==
  \A i \in DOMAIN authHistory :
    /\ authHistory[i].seen = i - 1
    /\ \A j \in 1..i :
         authHistory[i].kind = "inside" /\ authHistory[j].kind = "inside"
           => authHistory[j].at <= authHistory[i].at

\* A schema belongs to one authority: every commit was made by a process
\* configured with the identity the schema has now, although operators with
\* different identities may initialise it at the same time.
OneAuthority == \A i \in DOMAIN authHistory : authHistory[i].by = authMeta
=============================================================================
