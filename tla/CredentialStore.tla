--------------------------- MODULE CredentialStore ---------------------------
(***************************************************************************)
(* The shared credential blob in PostgreSQL: withLock of                   *)
(* createPostgresCredentialStore (packages/credential-store-postgres/src/  *)
(* index.ts) under the per-provider read, modify and delete that the run   *)
(* gives to Pi (createSharedCredentialStore, packages/agent/src/runtime.ts).*)
(*                                                                         *)
(* A credential is the generation of a provider's refresh token, 0 if there *)
(* is none.  The provider is external: a refresh token can be used once.   *)
(* The database is known by its row lock and its COMMIT; a connection may  *)
(* break between any two statements, an answer may be lost.                *)
(***************************************************************************)
EXTENDS Integers

CONSTANTS
  Call,       \* callers; each makes one withLock call after the other
  Proc,       \* processes of the deployment
  ProcOf,     \* the process of each caller
  OpsOf,      \* what each caller asks for
  Provider,   \* provider ids in the blob
  Keyed,      \* processes with an encryptionKey
  CacheFallback,
  MaxGen,     \* bound: refresh tokens per provider
  MaxFaults,  \* bound: failures of the database or the network
  None        \* nobody, nothing

Op == [kind : {"read", "refresh", "delete"}, provider : Provider]

ASSUME StoreAssumption ==
  /\ ProcOf \in [Call -> Proc]
  /\ OpsOf \in [Call -> SUBSET Op]
  /\ Keyed \subseteq Proc
  /\ CacheFallback \in BOOLEAN
  /\ MaxGen \in Nat \ {0} /\ MaxFaults \in Nat
  /\ None \notin Call \cup Op /\ None \notin [Provider -> 0..MaxGen]

VARIABLES
  pc,       \* how far each call is
  op,       \* what it does: read, refresh or delete the entry of a provider
  seen,     \* the blob its function was given
  next,     \* the blob its function returned, or None
  ensured,  \* the memoised CREATE TABLE of each process
  cache,    \* the last blob of each process, or None
  blob,     \* the committed row
  sealed,   \* the row is encrypted
  holders,  \* the calls whose transactions hold the row lock
  issued,   \* the provider's side: its newest refresh token
  stale,    \* providers whose newest access token has expired
  strayed,  \* ghost: tokens that were issued and not committed
  faults    \* failures that may still happen

callVars == <<pc, op, seen, next>>
rowVars == <<blob, sealed, holders>>
providerVars == <<issued, stale, strayed>>
vars == <<callVars, ensured, cache, rowVars, providerVars, faults>>

Blob == [Provider -> 0..MaxGen]

Init ==
  /\ pc = [c \in Call |-> "idle"]
  /\ op = [c \in Call |-> None]
  /\ seen = [c \in Call |-> None] /\ next = [c \in Call |-> None]
  /\ ensured = [p \in Proc |-> "none"]
  /\ cache = [p \in Proc |-> None]
  /\ blob = [p \in Provider |-> 1]
  /\ sealed = FALSE
  /\ holders = {}
  /\ issued = [p \in Provider |-> 1]
  /\ stale = {} /\ strayed = {}
  /\ faults = MaxFaults

-----------------------------------------------------------------------------
Fault == faults > 0 /\ faults' = faults - 1

\* ROLLBACK and release that leave the row locked.
Rollback_Forgotten(c) == UNCHANGED holders

\* The end of the transaction of c, if the server has not ended it already.
Rollback(c) == holders' = holders \ {c}

\* The refresh token that the function of c presents: the entry it sees is not
\* the newest, or has expired.
Refreshes(c) ==
  LET p == op[c].provider IN
  op[c].kind = "refresh" /\ seen[c][p] > 0 /\ (seen[c][p] < issued[p] \/ p \in stale)

Rotated(c) ==
  /\ pc[c] = "write" /\ next[c] # None /\ op[c].kind = "refresh"
  /\ seen[c][op[c].provider] # next[c][op[c].provider]

\* What the calls C rotated and do not commit is lost to the others.
Stray(C) ==
  strayed' = strayed \cup
    {<<op[c].provider, next[c][op[c].provider]>> : c \in {d \in C : Rotated(d)}}

\* The calls in C resolve or reject, and are forgotten.
Settle(C) ==
  /\ pc' = [c \in Call |-> IF c \in C THEN "idle" ELSE pc[c]]
  /\ op' = [c \in Call |-> IF c \in C THEN None ELSE op[c]]
  /\ seen' = [c \in Call |-> IF c \in C THEN None ELSE seen[c]]
  /\ next' = [c \in Call |-> IF c \in C THEN None ELSE next[c]]

\* The catch of withLock for calls C of one process: go on with the cached
\* blob if the database is unavailable and there is one, else reject.
Unavailable(p, C) ==
  IF CacheFallback /\ cache[p] # None
    THEN /\ pc' = [c \in Call |-> IF c \in C THEN "fallback" ELSE pc[c]]
         /\ seen' = [c \in Call |-> IF c \in C THEN cache[p] ELSE seen[c]]
         /\ next' = [c \in Call |-> IF c \in C THEN None ELSE next[c]]
         /\ UNCHANGED op
    ELSE Settle(C)

-----------------------------------------------------------------------------
\* withLock is called; ensure starts the CREATE TABLE or joins the one that is
\* under way.
Begin(c, o) ==
  /\ pc[c] = "idle"
  /\ op' = [op EXCEPT ![c] = o]
  /\ IF ensured[ProcOf[c]] = "done"
       THEN pc' = [pc EXCEPT ![c] = "connect"] /\ UNCHANGED ensured
       ELSE /\ pc' = [pc EXCEPT ![c] = "ensure"]
            /\ ensured' = [ensured EXCEPT ![ProcOf[c]] = "running"]
  /\ UNCHANGED <<seen, next, cache, rowVars, providerVars, faults>>

Ensuring(p) == {c \in Call : ProcOf[c] = p /\ pc[c] = "ensure"}

EnsureSucceeds(p) ==
  /\ ensured[p] = "running"
  /\ ensured' = [ensured EXCEPT ![p] = "done"]
  /\ pc' = [c \in Call |-> IF c \in Ensuring(p) THEN "connect" ELSE pc[c]]
  /\ UNCHANGED <<op, seen, next, cache, rowVars, providerVars, faults>>

\* A failure is not memoised; it rejects the calls that joined.
EnsureFails(p) ==
  /\ ensured[p] = "running" /\ Fault
  /\ ensured' = [ensured EXCEPT ![p] = "none"]
  /\ Unavailable(p, Ensuring(p))
  /\ UNCHANGED <<cache, rowVars, providerVars>>

\* A select without FOR UPDATE.
TakeLock_NoForUpdate(c) ==
  /\ pc[c] = "connect"
  /\ holders' = holders \cup {c}
  /\ pc' = [pc EXCEPT ![c] = "locked"]
  /\ seen' = [seen EXCEPT ![c] = blob]
  /\ UNCHANGED <<op, next, ensured, cache, blob, sealed, providerVars, faults>>

\* BEGIN, the upsert and SELECT ... FOR UPDATE, up to the call of fn.  A
\* sealed row cannot be read without the key.
TakeLock(c) ==
  /\ pc[c] = "connect" /\ holders = {}
  /\ IF sealed /\ ProcOf[c] \notin Keyed
       THEN Settle({c}) /\ UNCHANGED holders
       ELSE /\ holders' = {c}
            /\ pc' = [pc EXCEPT ![c] = "locked"]
            /\ seen' = [seen EXCEPT ![c] = blob]
            /\ UNCHANGED <<op, next>>
  /\ UNCHANGED <<ensured, cache, blob, sealed, providerVars, faults>>

\* The connection cannot be opened, or breaks before the lock is granted, or
\* the lock_timeout, which is no unavailability, ends the wait.
ConnectFails(c) ==
  /\ pc[c] = "connect" /\ Fault
  /\ Unavailable(ProcOf[c], {c}) \/ (holders # {} /\ Settle({c}))
  /\ UNCHANGED <<ensured, cache, rowVars, providerVars>>

\* The server ends the transaction under a call that has not noticed yet.
ConnectionLost(c) ==
  /\ c \in holders /\ Fault
  /\ Rollback(c)
  /\ UNCHANGED <<callVars, ensured, cache, blob, sealed, providerVars>>

-----------------------------------------------------------------------------
\* A delete that returns an empty blob.
Deleted_OthersToo(c) == [p \in Provider |-> 0]

\* delete: the rest of the blob.
Deleted(c) == [seen[c] EXCEPT ![op[c].provider] = 0]

\* The provider of c takes its newest refresh token and issues another.
Issue(c) ==
  LET p == op[c].provider IN
  /\ seen[c][p] = issued[p] /\ issued[p] < MaxGen
  /\ issued' = [issued EXCEPT ![p] = @ + 1]
  /\ stale' = stale \ {p}

Issues(c) == Refreshes(c) /\ seen[c][op[c].provider] = issued[op[c].provider]
New(c) == <<op[c].provider, issued[op[c].provider] + 1>>

\* The blob fn returns: None for a read and for an entry that is fresh or not
\* there, else the blob without the entry, or with the token just issued.
Result(c) ==
  LET p == op[c].provider IN
  IF Issues(c) THEN [seen[c] EXCEPT ![p] = @ + 1]
  ELSE IF op[c].kind = "delete" /\ seen[c][p] > 0 THEN Deleted(c)
  ELSE None

\* fn returns: the provider does not refuse its token.
FnEnds(c) ==
  IF Refreshes(c) THEN Issue(c) ELSE UNCHANGED <<issued, stale>>

\* fn has returned under the lock: UPDATE and COMMIT are next.
FnReturns(c) ==
  /\ pc[c] = "locked" /\ FnEnds(c)
  /\ next' = [next EXCEPT ![c] = Result(c)]
  /\ pc' = [pc EXCEPT ![c] = "write"]
  /\ UNCHANGED <<op, seen, ensured, cache, rowVars, strayed, faults>>

\* fn throws: the provider refuses a token that was used before.
FnRefused(c) ==
  /\ pc[c] \in {"locked", "fallback"}
  /\ Refreshes(c) /\ seen[c][op[c].provider] < issued[op[c].provider]
  /\ Rollback(c) /\ Settle({c})
  /\ UNCHANGED <<ensured, cache, blob, sealed, providerVars, faults>>

\* fn throws: the provider is out of reach, or its answer is lost and the new
\* token with it.  The error has a code that looks like the database's.
FnUnavailable(c) ==
  /\ pc[c] \in {"locked", "fallback"} /\ Refreshes(c) /\ Fault
  /\ \/ UNCHANGED providerVars
     \/ Issue(c) /\ strayed' = strayed \cup {New(c)}
  /\ Rollback(c)
  /\ IF pc[c] = "locked" THEN Unavailable(ProcOf[c], {c}) ELSE Settle({c})
  /\ UNCHANGED <<ensured, cache, blob, sealed>>

\* COMMIT: the row has the new blob, encrypted if this process has a key.
Commit(c) ==
  /\ pc[c] = "write" /\ c \in holders
  /\ holders' = holders \ {c}
  /\ pc' = [pc EXCEPT ![c] = "answer"]
  /\ IF next[c] = None THEN UNCHANGED <<blob, sealed>>
     ELSE blob' = next[c] /\ sealed' = (ProcOf[c] \in Keyed)
  /\ UNCHANGED <<op, seen, next, ensured, cache, providerVars, faults>>

\* UPDATE or COMMIT fails: at once if the connection is gone.
CommitFails(c) ==
  /\ pc[c] = "write"
  /\ IF c \in holders THEN Fault ELSE UNCHANGED faults
  /\ Rollback(c) /\ Stray({c}) /\ Unavailable(ProcOf[c], {c})
  /\ UNCHANGED <<ensured, cache, blob, sealed, issued, stale>>

\* The answer to COMMIT arrives; the blob goes to the cache.
Answer(c) ==
  /\ pc[c] = "answer"
  /\ Settle({c})
  /\ cache' = [cache EXCEPT ![ProcOf[c]] = IF next[c] # None THEN next[c] ELSE seen[c]]
  /\ UNCHANGED <<ensured, rowVars, providerVars, faults>>

\* ... or is lost: the row has changed and withLock believes it has not.
AnswerLost(c) ==
  /\ pc[c] = "answer" /\ Fault
  /\ Unavailable(ProcOf[c], {c})
  /\ UNCHANGED <<ensured, cache, rowVars, providerVars>>

\* fn has run again on the cached blob, without the lock: what it returns
\* stays in this process.
FallbackReturns(c) ==
  /\ pc[c] = "fallback" /\ FnEnds(c)
  /\ cache' = IF Result(c) = None THEN cache ELSE [cache EXCEPT ![ProcOf[c]] = Result(c)]
  /\ strayed' = IF Issues(c) THEN strayed \cup {New(c)} ELSE strayed
  /\ Settle({c})
  /\ UNCHANGED <<ensured, rowVars, faults>>

\* A process dies with its calls and its memory, and is started again.
Crash(p) ==
  LET C == {c \in Call : ProcOf[c] = p} IN
  /\ Settle(C) /\ Stray(C)
  /\ holders' = holders \ C
  /\ ensured' = [ensured EXCEPT ![p] = "none"]
  /\ cache' = [cache EXCEPT ![p] = None]
  /\ UNCHANGED <<blob, sealed, issued, stale, faults>>

\* An access token expires.
Expires(p) ==
  /\ p \notin stale /\ issued[p] < MaxGen
  /\ stale' = stale \cup {p}
  /\ UNCHANGED <<callVars, ensured, cache, rowVars, issued, strayed, faults>>

Next ==
  \/ \E c \in Call :
       \/ \E o \in OpsOf[c] : Begin(c, o)
       \/ TakeLock(c) \/ ConnectFails(c) \/ ConnectionLost(c)
       \/ FnReturns(c) \/ FnRefused(c) \/ FnUnavailable(c)
       \/ Commit(c) \/ CommitFails(c) \/ Answer(c) \/ AnswerLost(c)
       \/ FallbackReturns(c)
  \/ \E p \in Proc : EnsureSucceeds(p) \/ EnsureFails(p) \/ Crash(p)
  \/ \E p \in Provider : Expires(p)

Spec == Init /\ [][Next]_vars

\* The database answers or the connection breaks, the provider answers, and
\* PostgreSQL queues the transactions that wait for a row.
FairSpec ==
  /\ Spec
  /\ \A p \in Proc : WF_vars(EnsureSucceeds(p))
  /\ \A c \in Call :
       /\ SF_vars(TakeLock(c))
       /\ WF_vars(FnReturns(c) \/ FnRefused(c) \/ FallbackReturns(c))
       /\ WF_vars(Commit(c) \/ CommitFails(c))
       /\ WF_vars(Answer(c))

-----------------------------------------------------------------------------
\* Every variable has its type, and the lock is held only by a call at work.
TypeOK ==
  /\ pc \in [Call -> {"idle", "ensure", "connect", "locked", "write", "answer", "fallback"}]
  /\ op \in [Call -> Op \cup {None}]
  /\ seen \in [Call -> Blob \cup {None}]
  /\ next \in [Call -> Blob \cup {None}]
  /\ ensured \in [Proc -> {"none", "running", "done"}]
  /\ cache \in [Proc -> Blob \cup {None}]
  /\ blob \in Blob /\ sealed \in BOOLEAN
  /\ holders \in SUBSET Call
  /\ \A c \in holders : pc[c] \in {"locked", "write"}
  /\ issued \in [Provider -> 1..MaxGen]
  /\ stale \in SUBSET Provider
  /\ strayed \in SUBSET (Provider \X (1..MaxGen))
  /\ faults \in 0..MaxFaults

\* The newest token of p that was not issued in vain.
Newest(p) ==
  CHOOSE g \in 1..issued[p] :
    /\ <<p, g>> \notin strayed
    /\ \A h \in g + 1..issued[p] : <<p, h>> \in strayed

\* "A token refresh in one deployment can never clobber a rotation committed
\* by another", and state produced without the lock is never persisted: the
\* row has the newest token of each provider that was obtained under the lock
\* and committed, unless a call is about to write it or the entry was deleted.
\* A token issued on the cached blob, or whose write failed, never gets in,
\* also not through a later call of the process that has it cached.
RotationKept ==
  \A p \in Provider :
    \/ \E c \in Call : Rotated(c) /\ op[c].provider = p
    \/ blob[p] \in {0, Newest(p)}

\* A committed write changes the entry of its own provider and no other, never
\* brings a deleted entry back, and leaves no sealed row in plaintext.
WritesOnlyItsOwn ==
  [][/\ \A p \in Provider :
          blob'[p] # blob[p] =>
            /\ blob[p] # 0
            /\ \E c \in Call : pc[c] = "write" /\ pc'[c] = "answer" /\ op[c].provider = p
     /\ sealed => sealed']_vars

\* Every call is answered or rejected, however many connections break.
EveryCallSettles == \A c \in Call : (pc[c] # "idle") ~> (pc[c] = "idle")
=============================================================================
