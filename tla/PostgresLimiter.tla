--------------------------- MODULE PostgresLimiter ---------------------------
(***************************************************************************)
(* createPostgresConcurrencyLimiter (packages/concurrency-postgres/src/    *)
(* index.ts): a limiter whose slots and queue are rows that many workers   *)
(* share.  All workers have the same limits.                               *)
(*                                                                         *)
(* Each acquire call is a process that opens short transactions.  A        *)
(* transaction that allocates takes the limiter's row lock (TakeLock),     *)
(* purges rows and counts the granted ones (a ...Section action), chooses  *)
(* its grants from that count in memory, one per iteration (GrantOne), and *)
(* writes them and commits (a ...Commit action).  `running` has the        *)
(* transactions in between.  The transactions that take no lock, renew and *)
(* a poll that skips, are one statement about one row, so they come before *)
(* or after such a section and never inside; a section that fails rolls    *)
(* back, as if it had failed before it began.                              *)
(*                                                                         *)
(* now() is the time the transaction began, age[r] units ago.  Time is     *)
(* relative: left, heart and wait are lease_expires_at,                    *)
(* heartbeat_expires_at and wait_deadline minus the present, so "x <=      *)
(* now()" is x + age <= 0.  They are counted down to -MaxAge, the longest  *)
(* a transaction stays open, where every such test is decided.             *)
(***************************************************************************)
EXTENDS ConcurrencyPolicy

CONSTANTS
  LeaseTtl,   \* leaseTtlMs
  QueueTtl,   \* queueEntryTtlMs
  MaxQueued,  \* limits.maxQueued, or Undefined
  TimeoutMs,  \* request.timeoutMs of each call, or Off
  MaxWaitMs,  \* workloads[w].maxWaitMs, or Off
  MaxAge,     \* bound: the longest a transaction stays open
  Idle,       \* no transaction holds the lock
  MayAbort,   \* the requests whose signal may abort
  MayCrash,   \* the requests whose worker may die
  MayFail,    \* the requests whose connection may fail
  MayRenew    \* the requests whose client renews

Off == -1     \* no limit to the wait

ASSUME PostgresAssumption ==
  /\ LeaseTtl \in Nat \ {0} /\ QueueTtl \in Nat \ {0}
  /\ MaxQueued \in Nat \cup {Undefined}
  /\ TimeoutMs \in [Request -> Nat \cup {Off}]
  /\ MaxWaitMs \in [Workload -> (Nat \ {0}) \cup {Off}]
  /\ MaxAge \in Nat
  /\ Idle \notin Request

VARIABLES
  entry,       \* state of each request's row; "none" when there is no row
  seq, seqOf,  \* the identity column
  left,        \* lease_expires_at of each row, relative
  heart,       \* heartbeat_expires_at, relative
  wait,        \* wait_deadline, relative; used for requests with a limit
  lock,        \* the transaction that holds the limiter's row lock
  running,     \* the transactions that are inside allocate
  counted,     \* the granted rows such a transaction counted
  picked,      \* the grants it has chosen so far
  pc,          \* where each acquire call, then its client, is
  age,         \* time since the call's latest transaction was sent
  answer, ttl, \* what that transaction returned
  aborted,     \* requests whose signal has aborted
  localLeft,   \* the client's own measure of its lease
  clamped,     \* clients whose ttlMs was raised to 1
  renew,       \* the renew call of each client
  renewAge,    \* time since it was sent
  granted      \* history: the rows that were ever granted

rowVars == <<entry, seq, seqOf, left, heart, wait, granted>>
lockVars == <<lock, running, counted, picked>>
callVars == <<pc, age, answer, ttl>>
clientVars == <<aborted, localLeft, clamped>>
renewVars == <<renew, renewAge>>
vars == <<rowVars, lockVars, callVars, clientVars, renewVars>>

Entry == {"none", "waiting", "expired", "granted"}
Pc == {"new", "first", "firstDone", "sleeping", "poll", "pollDone", "cancel",
       "holding", "release", "over", "crashed"}
Answer == {"nothing", "granted", "waiting", "expired", "full"}
AgeCap == LeaseTtl + MaxAge

Init ==
  /\ entry = [r \in Request |-> "none"]
  /\ seq = 0 /\ seqOf = [r \in Request |-> 0]
  /\ left = [r \in Request |-> 0]
  /\ heart = [r \in Request |-> 0]
  /\ wait = [r \in Request |-> 0]
  /\ lock = Idle /\ running = {}
  /\ counted = [r \in Request |-> {}]
  /\ picked = [r \in Request |-> {}]
  /\ pc = [r \in Request |-> "new"]
  /\ age = [r \in Request |-> 0]
  /\ answer = [r \in Request |-> "nothing"]
  /\ ttl = [r \in Request |-> 0]
  /\ aborted = {} /\ clamped = {} /\ granted = {}
  /\ localLeft = [r \in Request |-> 0]
  /\ renew = [r \in Request |-> "none"]
  /\ renewAge = [r \in Request |-> 0]

-----------------------------------------------------------------------------
In(state) == {r \in Request : entry[r] = state}

\* minDefined(request.timeoutMs, maxWaitMs).
WaitLimit(r) ==
  LET a == TimeoutMs[r]
      b == MaxWaitMs[WorkloadOf(r)]
  IN  IF a = Off THEN b ELSE IF b = Off THEN a ELSE IF a <= b THEN a ELSE b

\* A count that leaves the own row out.
QueueTooLong_Others(W) == MaxQueued # Undefined /\ Cardinality(W) > MaxQueued + 1

QueueTooLong(W) == MaxQueued # Undefined /\ Cardinality(W) > MaxQueued

\* A transaction of r is open.
Open(r) == pc[r] \in {"first", "poll", "cancel", "release"}

\* A purge that forgets the leases.
Purged_LeasesStay(E, H, W, a) ==
  [q \in Request |->
     IF E[q] \in {"waiting", "expired"} /\ H[q] + a <= 0 THEN "none"
     ELSE IF E[q] = "waiting" /\ WaitLimit(q) # Off /\ W[q] + a <= 0
     THEN "expired" ELSE E[q]]

\* A purge by heartbeat that does not look at the state.
Purged_AnyHeartbeat(E, H, W, a) ==
  [q \in Request |->
     IF \/ E[q] = "granted" /\ left[q] + a <= 0
        \/ E[q] # "none" /\ H[q] + a <= 0
     THEN "none"
     ELSE IF E[q] = "waiting" /\ WaitLimit(q) # Off /\ W[q] + a <= 0
     THEN "expired" ELSE E[q]]

\* The first statements of allocate in a transaction that began a ago, on the
\* rows E with heartbeats H and wait deadlines W: expired leases and entries
\* without a heartbeat are deleted, overdue waiters are marked.
Purged(E, H, W, a) ==
  [q \in Request |->
     IF \/ E[q] = "granted" /\ left[q] + a <= 0
        \/ E[q] \in {"waiting", "expired"} /\ H[q] + a <= 0
     THEN "none"
     ELSE IF E[q] = "waiting" /\ WaitLimit(q) # Off /\ W[q] + a <= 0
     THEN "expired" ELSE E[q]]

\* The call of r sends its next transaction.
Send(r, step) ==
  /\ pc' = [pc EXCEPT ![r] = step]
  /\ age' = [age EXCEPT ![r] = 0]
  /\ answer' = [answer EXCEPT ![r] = "nothing"]
  /\ ttl' = [ttl EXCEPT ![r] = 0]

\* The call of r is over.
End(r) == Send(r, "over")

\* Transactions that end free the lock if they hold it.
Unlock(r) == lock' = IF lock = r THEN Idle ELSE lock

\* A lease that ignores the round trip.
GetLease_FullTtl(r) ==
  /\ Send(r, "holding")
  /\ localLeft' = [localLeft EXCEPT ![r] = IF ttl[r] >= 1 THEN ttl[r] ELSE 1]
  /\ clamped' = IF ttl[r] >= 1 THEN clamped ELSE clamped \cup {r}

\* The client of r gets its lease(): the round trip of the transaction that
\* read it subtracted, but never less than 1.
GetLease(r) ==
  LET remaining == ttl[r] - age[r]
  IN  /\ Send(r, "holding")
      /\ localLeft' = [localLeft EXCEPT ![r] = IF remaining >= 1 THEN remaining ELSE 1]
      /\ clamped' = IF remaining >= 1 THEN clamped ELSE clamped \cup {r}

-----------------------------------------------------------------------------
\* acquire starts: refused before it touches the database, or sent.
AcquireBegin(r) ==
  /\ running = {} /\ pc[r] = "new"
  /\ IF r \in Resolvable /\ r \notin aborted THEN Send(r, "first") ELSE End(r)
  /\ UNCHANGED <<rowVars, lockVars, clientVars, renewVars>>

\* SELECT ... FOR UPDATE returns.
TakeLock(r) ==
  /\ running = {} /\ lock = Idle /\ Open(r)
  /\ lock' = r
  /\ UNCHANGED <<rowVars, running, counted, picked, callVars, clientVars, renewVars>>

\* The transaction of r leaves the rows E to be counted.
Count(r, E) ==
  /\ entry' = E
  /\ running' = running \cup {r}
  /\ counted' = [counted EXCEPT ![r] = {q \in Request : E[q] = "granted"}]
  /\ UNCHANGED <<lock, picked, callVars>>

\* A first transaction that does not wait for the lock.
FirstSection_NoLock(r) ==
  LET H == [heart EXCEPT ![r] = QueueTtl - age[r]]
      W == [wait EXCEPT ![r] = WaitLimit(r) - age[r]]
  IN  /\ r \notin running /\ pc[r] = "first"
      /\ seq' = seq + 1 /\ seqOf' = [seqOf EXCEPT ![r] = seq + 1]
      /\ heart' = H /\ wait' = W
      /\ Count(r, Purged([entry EXCEPT ![r] = "waiting"], H, W, age[r]))
      /\ UNCHANGED <<left, granted, clientVars, renewVars>>

\* The first transaction inserts its row and allocates.
FirstSection(r) ==
  LET H == [heart EXCEPT ![r] = QueueTtl - age[r]]
      W == [wait EXCEPT ![r] = WaitLimit(r) - age[r]]
  IN  /\ lock = r /\ r \notin running /\ pc[r] = "first"
      /\ seq' = seq + 1 /\ seqOf' = [seqOf EXCEPT ![r] = seq + 1]
      /\ heart' = H /\ wait' = W
      /\ Count(r, Purged([entry EXCEPT ![r] = "waiting"], H, W, age[r]))
      /\ UNCHANGED <<left, granted, clientVars, renewVars>>

\* A poll that got the lock allocates.
PollSection(r) ==
  /\ lock = r /\ r \notin running /\ pc[r] = "poll"
  /\ Count(r, Purged(entry, heart, wait, age[r]))
  /\ UNCHANGED <<seq, seqOf, left, heart, wait, granted, clientVars, renewVars>>

\* release deletes the row of a granted request and allocates.
ReleaseSection(r) ==
  /\ lock = r /\ r \notin running /\ pc[r] = "release"
  /\ Count(r, Purged([entry EXCEPT ![r] = IF @ = "granted" THEN "none" ELSE @],
                     heart, wait, age[r]))
  /\ UNCHANGED <<seq, seqOf, left, heart, wait, granted, clientVars, renewVars>>

\* A cancellation that only takes a waiting row back.
CancelSection_WaitingOnly(r) ==
  /\ lock = r /\ r \notin running /\ pc[r] = "cancel"
  /\ entry' = [entry EXCEPT ![r] = IF @ = "granted" THEN @ ELSE "none"]
  /\ End(r) /\ lock' = Idle
  /\ UNCHANGED <<running, counted, picked, seq, seqOf, left, heart, wait, granted,
                 clientVars, renewVars>>

\* cancelEntry deletes the row whatever its state, and allocates if it was
\* granted.
CancelSection(r) ==
  /\ lock = r /\ r \notin running /\ pc[r] = "cancel"
  /\ \/ /\ entry[r] = "granted"
        /\ Count(r, Purged([entry EXCEPT ![r] = "none"], heart, wait, age[r]))
     \/ /\ entry[r] # "granted"
        /\ entry' = [entry EXCEPT ![r] = "none"]
        /\ End(r) /\ lock' = Idle
        /\ UNCHANGED <<running, counted, picked>>
  /\ UNCHANGED <<seq, seqOf, left, heart, wait, granted, clientVars, renewVars>>

\* q is the next grant of selectConcurrencyGrants in the transaction of t.
Picks(t, q) ==
  IsBest(q, counted[t] \cup picked[t], In("waiting") \ picked[t], seqOf)

\* One iteration of its loop.
GrantOne(t, q) ==
  /\ t \in running /\ Picks(t, q)
  /\ picked' = [picked EXCEPT ![t] = @ \cup {q}]
  /\ UNCHANGED <<rowVars, lock, running, counted, callVars, clientVars, renewVars>>

\* The state of the rows after the UPDATE of allocate.
Allocated(t) ==
  [q \in Request |->
     IF q \in picked[t] /\ entry[q] = "waiting" THEN "granted" ELSE entry[q]]

\* allocate ends: no more grants, and the UPDATE makes those it chose.  The
\* transaction is about to commit, which frees the lock.
Allocate(t) ==
  LET new == {q \in picked[t] : entry[q] = "waiting"}
  IN  /\ t \in running
      /\ \A q \in Request : ~ Picks(t, q)
      /\ left' = [q \in Request |-> IF q \in new THEN LeaseTtl - age[t] ELSE left[q]]
      /\ granted' = granted \cup new
      /\ running' = running \ {t}
      /\ counted' = [counted EXCEPT ![t] = {}]
      /\ picked' = [picked EXCEPT ![t] = {}]
      /\ Unlock(t)

\* The first transaction commits: granted, waiting, or out of the full queue.
FirstCommit(r) ==
  LET E == Allocated(r)
      full == E[r] # "granted" /\ QueueTooLong({q \in Request : E[q] = "waiting"})
  IN  /\ pc[r] = "first" /\ Allocate(r)
      /\ pc' = [pc EXCEPT ![r] = "firstDone"]
      /\ ttl' = [ttl EXCEPT ![r] = LeaseTtl]
      /\ entry' = IF full THEN [E EXCEPT ![r] = "none"] ELSE E
      /\ answer' = [answer EXCEPT ![r] =
           IF E[r] = "granted" THEN "granted" ELSE IF full THEN "full" ELSE "waiting"]
      /\ UNCHANGED <<seq, seqOf, heart, wait, age, clientVars, renewVars>>

\* The last statements of a poll, on the rows E with lease expiries L, and its
\* commit: it reads the state of its row, renews its heartbeat, and deletes
\* the row if it is overdue.
PollReads(r, E, L) ==
  /\ pc' = [pc EXCEPT ![r] = "pollDone"]
  /\ answer' = [answer EXCEPT ![r] = IF E[r] = "none" THEN "nothing" ELSE E[r]]
  /\ ttl' = [ttl EXCEPT ![r] = L[r] + age[r]]
  /\ entry' = IF E[r] = "expired" THEN [E EXCEPT ![r] = "none"] ELSE E
  /\ heart' = [heart EXCEPT ![r] = QueueTtl - age[r]]
  /\ UNCHANGED <<seq, seqOf, wait, age, clientVars, renewVars>>

PollCommit(r) == pc[r] = "poll" /\ Allocate(r) /\ PollReads(r, Allocated(r), left')

\* A poll that finds the lock taken (SKIP LOCKED) only looks at its row.
PollSkips(r) ==
  /\ running = {} /\ pc[r] = "poll" /\ lock \notin {Idle, r}
  /\ PollReads(r, entry, left)
  /\ UNCHANGED <<left, granted, lockVars>>

\* release or cancelEntry commits.
LastCommit(r) ==
  /\ pc[r] \in {"release", "cancel"} /\ Allocate(r)
  /\ entry' = Allocated(r)
  /\ End(r)
  /\ UNCHANGED <<seq, seqOf, heart, wait, clientVars, renewVars>>

-----------------------------------------------------------------------------
\* The call of r goes on without a lease.
Turn(r, step) == Send(r, step) /\ UNCHANGED <<localLeft, clamped>>

\* The answer of the first transaction arrives.
FirstReturns(r) ==
  /\ running = {} /\ pc[r] = "firstDone"
  /\ \/ answer[r] = "granted" /\ r \in aborted /\ Turn(r, "cancel")
     \/ answer[r] = "granted" /\ r \notin aborted /\ GetLease(r)
     \/ answer[r] = "full" /\ Turn(r, "over")
     \/ answer[r] = "waiting" /\ Turn(r, "sleeping")
  /\ UNCHANGED <<rowVars, lockVars, aborted, renewVars>>

\* The next poll, after a sleep; an abort ends the sleep and cancels.
PollBegin(r) ==
  /\ running = {} /\ pc[r] = "sleeping"
  /\ Send(r, IF r \in aborted THEN "cancel" ELSE "poll")
  /\ UNCHANGED <<rowVars, lockVars, clientVars, renewVars>>

\* The answer of a poll arrives.  A row that is gone is an error.
PollReturns(r) ==
  /\ running = {} /\ pc[r] = "pollDone"
  /\ \/ answer[r] = "waiting" /\ Turn(r, "sleeping")
     \/ answer[r] = "nothing" /\ Turn(r, "cancel")
     \/ answer[r] \in {"granted", "expired"} /\ r \in aborted /\ Turn(r, "cancel")
     \/ answer[r] = "granted" /\ r \notin aborted /\ GetLease(r)
     \/ answer[r] = "expired" /\ r \notin aborted /\ Turn(r, "over")
  /\ UNCHANGED <<rowVars, lockVars, aborted, renewVars>>

\* The database fails an open transaction, which rolls back, or the answer to
\* a commit is lost.  A poll then cancels its entry; the first transaction and
\* the last ones leave things as they are.
DatabaseFails(r) ==
  /\ running = {} /\ r \in MayFail
  /\ \/ Open(r) \/ pc[r] \in {"firstDone", "pollDone"}
  /\ IF pc[r] \in {"poll", "pollDone"} THEN Send(r, "cancel") ELSE End(r)
  /\ Unlock(r)
  /\ UNCHANGED <<rowVars, running, counted, picked, clientVars, renewVars>>

\* The worker dies; its open transactions roll back.
Crash(r) ==
  /\ running = {} /\ r \in MayCrash /\ pc[r] \notin {"new", "over", "crashed"}
  /\ Send(r, "crashed")
  /\ Unlock(r)
  /\ localLeft' = [localLeft EXCEPT ![r] = 0]
  /\ UNCHANGED <<rowVars, running, counted, picked, aborted, clamped, renewVars>>

\* The signal of an acquire call aborts.
Abort(r) ==
  /\ running = {} /\ r \in MayAbort \ aborted
  /\ pc[r] \in {"new", "first", "firstDone", "sleeping", "poll", "pollDone"}
  /\ aborted' = aborted \cup {r}
  /\ UNCHANGED <<rowVars, lockVars, callVars, localLeft, clamped, renewVars>>

\* The client releases its lease: its request is over, or the lease is lost.
ReleaseBegin(r) ==
  /\ running = {} /\ pc[r] = "holding"
  /\ Send(r, "release")
  /\ localLeft' = [localLeft EXCEPT ![r] = 0]
  /\ UNCHANGED <<rowVars, lockVars, aborted, clamped, renewVars>>

-----------------------------------------------------------------------------
\* The client sends a renewal while it believes in its lease.
RenewBegin(r) ==
  /\ running = {} /\ r \in MayRenew
  /\ pc[r] = "holding" /\ localLeft[r] > 0 /\ renew[r] = "none"
  /\ renew' = [renew EXCEPT ![r] = "sent"]
  /\ renewAge' = [renewAge EXCEPT ![r] = 0]
  /\ UNCHANGED <<rowVars, lockVars, callVars, clientVars>>

\* A renewal that puts a lease that is gone back.
RenewCommit_Upsert(r) ==
  /\ running = {} /\ renew[r] = "sent"
  /\ entry' = [entry EXCEPT ![r] = "granted"]
  /\ left' = [left EXCEPT ![r] = LeaseTtl - renewAge[r]]
  /\ renew' = [renew EXCEPT ![r] = "extended"]
  /\ UNCHANGED <<seq, seqOf, heart, wait, granted, lockVars, callVars, clientVars,
                 renewAge>>

\* The UPDATE of renew, and its commit.
RenewCommit(r) ==
  /\ running = {} /\ renew[r] = "sent"
  /\ \/ /\ entry[r] = "granted" /\ left[r] + renewAge[r] > 0
        /\ left' = [left EXCEPT ![r] = LeaseTtl - renewAge[r]]
        /\ renew' = [renew EXCEPT ![r] = "extended"]
     \/ /\ ~ (entry[r] = "granted" /\ left[r] + renewAge[r] > 0)
        /\ renew' = [renew EXCEPT ![r] = "refused"]
        /\ UNCHANGED left
  /\ UNCHANGED <<entry, seq, seqOf, heart, wait, granted, lockVars, callVars, clientVars,
                 renewAge>>

\* The answer of renew arrives, at a client that still holds its lease or not;
\* or the call fails.  The client counts ttlMs from when it sent the call
\* (createPermit), so that the round trip is subtracted twice.
RenewReturns(r) ==
  LET fresh == LeaseTtl - 2 * renewAge[r]
  IN  /\ running = {}
      /\ \/ /\ pc[r] = "holding" /\ renew[r] = "extended"
            /\ localLeft' = [localLeft EXCEPT ![r] = IF fresh > 0 THEN fresh ELSE 0]
            /\ clamped' = clamped \ {r}
         \/ /\ pc[r] = "holding" /\ renew[r] = "refused"
            /\ localLeft' = [localLeft EXCEPT ![r] = 0]
            /\ UNCHANGED clamped
         \/ /\ renew[r] # "none" /\ (pc[r] # "holding" \/ r \in MayFail)
            /\ UNCHANGED <<localLeft, clamped>>
      /\ renew' = [renew EXCEPT ![r] = "none"]
      /\ renewAge' = [renewAge EXCEPT ![r] = 0]
      /\ UNCHANGED <<rowVars, lockVars, callVars, aborted>>

-----------------------------------------------------------------------------
CountDown(t, floor) == IF t > floor THEN t - 1 ELSE t
CountUp(t, cap) == IF t < cap THEN t + 1 ELSE t

\* One unit of time passes, while no transaction is open longer than MaxAge.
Tick ==
  /\ running = {}
  /\ \A r \in Request :
       /\ Open(r) => age[r] < MaxAge
       /\ renew[r] = "sent" => renewAge[r] < MaxAge
  /\ left' = [r \in Request |-> CountDown(left[r], -MaxAge)]
  /\ heart' = [r \in Request |-> CountDown(heart[r], -MaxAge)]
  /\ wait' = [r \in Request |-> CountDown(wait[r], -MaxAge)]
  /\ age' = [r \in Request |->
       IF Open(r) \/ pc[r] \in {"firstDone", "pollDone"} THEN CountUp(age[r], AgeCap)
       ELSE age[r]]
  /\ localLeft' = [r \in Request |-> CountDown(localLeft[r], 0)]
  /\ renewAge' = [r \in Request |->
       IF renew[r] # "none" THEN CountUp(renewAge[r], AgeCap) ELSE renewAge[r]]
  /\ UNCHANGED <<entry, seq, seqOf, granted, lockVars, pc, answer, ttl, aborted, clamped,
                 renew>>

Next ==
  \/ \E r \in Request :
       \/ AcquireBegin(r) \/ TakeLock(r)
       \/ FirstSection(r) \/ PollSection(r) \/ ReleaseSection(r) \/ CancelSection(r)
       \/ (\E q \in Request : GrantOne(r, q)) \/ FirstCommit(r) \/ PollCommit(r) \/ PollSkips(r) \/ LastCommit(r)
       \/ FirstReturns(r) \/ PollBegin(r) \/ PollReturns(r)
       \/ DatabaseFails(r) \/ Crash(r) \/ Abort(r) \/ ReleaseBegin(r)
       \/ RenewBegin(r) \/ RenewCommit(r) \/ RenewReturns(r)
  \/ Tick

Spec == Init /\ [][Next]_vars

\* The next step of r's acquire, release or cancellation.
CallStep(r) ==
  \/ FirstSection(r) \/ PollSection(r) \/ ReleaseSection(r) \/ CancelSection(r)
  \/ FirstCommit(r) \/ PollCommit(r) \/ PollSkips(r) \/ LastCommit(r)
  \/ FirstReturns(r) \/ PollBegin(r) \/ PollReturns(r)

\* A worker that lives goes on with its calls, PostgreSQL serves the waiters
\* for a row lock in turn, a client does not use its slot for ever, and time
\* passes.  Strong fairness, because the sections of other calls come in
\* between.  No failure, abort or renewal is assumed to happen.
FairSpec ==
  /\ Spec
  /\ WF_vars(\E r, q \in Request : GrantOne(r, q))
  /\ \A r \in Request :
       /\ SF_vars(TakeLock(r)) /\ SF_vars(CallStep(r))
       /\ SF_vars(ReleaseBegin(r)) /\ SF_vars(RenewCommit(r))
  /\ SF_vars(Tick)

-----------------------------------------------------------------------------
\* Every variable has its type, and only resolved requests have rows.
TypeOK ==
  /\ entry \in [Request -> Entry]
  /\ seq \in Nat /\ seqOf \in [Request -> Nat]
  /\ left \in [Request -> Int]
  /\ heart \in [Request -> Int] /\ wait \in [Request -> Int]
  /\ lock \in Request \cup {Idle}
  /\ running \subseteq Request
  /\ counted \in [Request -> SUBSET Request] /\ picked \in [Request -> SUBSET Request]
  /\ pc \in [Request -> Pc]
  /\ age \in [Request -> 0..AgeCap]
  /\ answer \in [Request -> Answer] /\ ttl \in [Request -> Int]
  /\ aborted \subseteq Request /\ clamped \subseteq Request
  /\ localLeft \in [Request -> Nat]
  /\ renew \in [Request -> {"none", "sent", "extended", "refused"}]
  /\ renewAge \in [Request -> 0..AgeCap]
  /\ granted \subseteq Resolvable
  /\ In("granted") \subseteq granted
  /\ \A r \in Request : pc[r] # "new" /\ pc[r] # "over" => r \in Resolvable
  /\ \A r \in Request : entry[r] # "none" => r \in Resolvable

\* The granted rows never exceed maxConcurrent nor the ceiling of their
\* workload, and leave every unused reserved slot free, whichever workers
\* allocate and whatever renewals, crashes and expiries come in between.
SlotsFit == Fits(In("granted"))

\* A client that counts its lease from the answer stops before the database
\* gives its slot away: while it believes in its lease its row is granted and
\* expires no earlier.  Excepted is a lease that the
\* client has raised to 1 ms: that one it may outlive.
LocalExpiryFirst ==
  \A r \in Request :
    (pc[r] = "holding" /\ localLeft[r] > 0 /\ r \notin clamped)
    => entry[r] = "granted" /\ localLeft[r] <= left[r]

\* Between transactions at most maxQueued rows wait.
QueueBounded ==
  running = {} /\ MaxQueued # Undefined => Cardinality(In("waiting")) <= MaxQueued

\* Arrival order across workers: no younger request of a workload is granted
\* a slot while an older one waits.
ArrivalOrder ==
  \A r \in In("waiting"), q \in granted :
    WorkloadOf(q) = WorkloadOf(r) => seqOf[q] < seqOf[r]

\* An acquire that was refused, timed out or aborted, and a released lease,
\* leave no row behind: not even a grant another worker made for it in the
\* meantime.  A database failure may leave one, until it expires.
NothingLeftBehind ==
  \A r \in Request \ MayFail : pc[r] = "over" => entry[r] = "none"

\* A row whose lease has not expired is taken away only by the release, or
\* the cancellation, of its own request.
LiveLeaseKept ==
  [][\A r \in Request :
       entry[r] = "granted" /\ left[r] > 0 /\ entry'[r] # "granted"
       => running' = {r} /\ pc[r] \in {"release", "cancel"}]_vars

\* Every acquire of a servable workload is settled, although workers crash
\* with slots in hand or with requests in the queue.
EveryAcquireSettles ==
  \A r \in Request :
    (pc[r] = "first" /\ Servable(WorkloadOf(r)))
    ~> (pc[r] \in {"holding", "over", "crashed"})

-----------------------------------------------------------------------------
\* The rows implement the abstract slot pool.
Pool == INSTANCE SlotPool WITH
  Lease <- Resolvable,
  Fits <- Fits,
  held <- In("granted"),
  ended <- granted \ In("granted")

\* Every transaction, renewal and timeout is a step of the slot pool: a row
\* that was granted and is gone is never granted again.
ImplementsSlotPool == Pool!PoolSpec
=============================================================================
