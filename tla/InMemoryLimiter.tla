--------------------------- MODULE InMemoryLimiter ---------------------------
(***************************************************************************)
(* createConcurrencyLimiter (packages/agent/src/concurrency-limiter.ts):   *)
(* the limiter that keeps its slots and its queue in one process.          *)
(*                                                                         *)
(* Every method runs to completion on the event loop.  A method that calls *)
(* schedule() is several steps here, one per iteration of its grant loop;  *)
(* `running` says which call is inside schedule(), and no other action is  *)
(* enabled until the loop ends, so no other callback comes in between.     *)
(*                                                                         *)
(* Time is relative: left[r] is expiresAt - now of r's slot and a timer    *)
(* holds the time until it is due, both counted down to 0 by Tick.  A due  *)
(* timer fires at some later moment, never early.                          *)
(*                                                                         *)
(* An element of Request is one acquire call, and also names the lease the *)
(* call may get (the code draws a fresh UUID for it).                      *)
(***************************************************************************)
EXTENDS ConcurrencyPolicy

CONSTANTS
  LeaseTtl,   \* leaseTtlMs
  MaxQueued,  \* limits.maxQueued, or Undefined
  TimeoutMs,  \* request.timeoutMs of each call, or Off
  MaxWaitMs,  \* workloads[w].maxWaitMs, or Off
  Idle, Sched,\* values of `running` that are not a request
  MaxStats    \* bound: how often stats() is called

Off == -1     \* a timer that is not armed, a wait that has no limit

ASSUME LimiterAssumption ==
  /\ LeaseTtl \in Nat \ {0}
  /\ MaxQueued \in Nat \cup {Undefined}
  /\ TimeoutMs \in [Request -> Nat \cup {Off}]
  /\ MaxWaitMs \in [Workload -> Nat \cup {Off}]
  /\ Idle \notin Request /\ Sched \notin Request /\ Idle # Sched
  /\ MaxStats \in Nat

VARIABLES
  slots,       \* the requests that hold a slot
  left,        \* expiresAt - now of each slot, not below 0
  waiters,     \* the requests in the queue
  seq, seqOf,  \* the enqueue counter and each waiter's number
  waitTimer,   \* per waiter: time until its wait limit, or Off
  expiryTimer, \* time until the expiry timer is due, or Off
  status,      \* how far each acquire call and its client are
  running,     \* Idle, Sched, or the acquire call inside schedule()
  statsCalls   \* calls of stats() so far (bounded by MaxStats)

vars == <<slots, left, waiters, seq, seqOf, waitTimer, expiryTimer, status,
          running, statsCalls>>

Status == {"new", "waiting", "using", "released", "abandoned",
           "aborted", "timeout", "full", "config"}

Init ==
  /\ slots = {} /\ waiters = {}
  /\ left = [r \in Request |-> 0]
  /\ seq = 0 /\ seqOf = [r \in Request |-> 0]
  /\ waitTimer = [r \in Request |-> Off]
  /\ expiryTimer = Off
  /\ status = [r \in Request |-> "new"]
  /\ running = Idle
  /\ statsCalls = 0

-----------------------------------------------------------------------------
\* purgeExpired that drops a lease one unit before its expiry.
Live_Early(S) == {r \in S : left[r] > 1}

\* The slots purgeExpired keeps: expiresAt > now.
Live(S) == {r \in S : left[r] > 0}

\* armExpiryTimer that waits for the latest expiry.
Armed_Latest(S, W, remaining) ==
  IF S = {} \/ W = {} THEN Off
  ELSE CHOOSE t \in {remaining[r] : r \in S} : \A r \in S : remaining[r] <= t

\* armExpiryTimer: due at the earliest expiry, armed only while requests
\* wait for slots that are out.
Armed(S, W, remaining) ==
  IF S = {} \/ W = {} THEN Off
  ELSE CHOOSE t \in {remaining[r] : r \in S} : \A r \in S : t <= remaining[r]

\* minDefined(request.timeoutMs, maxWaitMs).
WaitLimit(r) ==
  LET a == TimeoutMs[r]
      b == MaxWaitMs[WorkloadOf(r)]
  IN  IF a = Off THEN b ELSE IF b = Off THEN a ELSE IF a <= b THEN a ELSE b

QueueTooLong(W) == MaxQueued # Undefined /\ Cardinality(W) > MaxQueued

\* Enter schedule() with the slots S: purge, then loop.
EnterSchedule(S, caller) ==
  /\ slots' = Live(S)
  /\ running' = caller

\* Take r out of the queue without a grant, and arm the expiry timer again.
Dequeue(r, why) ==
  /\ waiters' = waiters \ {r}
  /\ status' = [status EXCEPT ![r] = why]
  /\ waitTimer' = [waitTimer EXCEPT ![r] = Off]
  /\ expiryTimer' = Armed(slots, waiters', left)

-----------------------------------------------------------------------------
\* acquire(request), up to the loop of schedule().
Acquire(r) ==
  /\ running = Idle /\ status[r] = "new" /\ r \in Resolvable
  /\ waiters' = waiters \cup {r}
  /\ seq' = seq + 1
  /\ seqOf' = [seqOf EXCEPT ![r] = seq + 1]
  /\ status' = [status EXCEPT ![r] = "waiting"]
  /\ EnterSchedule(slots, r)
  /\ UNCHANGED <<left, waitTimer, expiryTimer, statsCalls>>

\* acquire with a workload resolveWorkload throws for, or with a signal that
\* is aborted already: rejected before it queues.
AcquireRefused(r) ==
  /\ running = Idle /\ status[r] = "new"
  /\ \/ r \notin Resolvable /\ status' = [status EXCEPT ![r] = "config"]
     \/ r \in Resolvable /\ status' = [status EXCEPT ![r] = "aborted"]
  /\ UNCHANGED <<slots, left, waiters, seq, seqOf, waitTimer, expiryTimer,
                 running, statsCalls>>

\* One iteration of the grant loop inside schedule().
GrantOne(r) ==
  /\ running # Idle
  /\ IsBest(r, slots, waiters, seqOf)
  /\ waiters' = waiters \ {r}
  /\ slots' = slots \cup {r}
  /\ left' = [left EXCEPT ![r] = LeaseTtl]
  /\ waitTimer' = [waitTimer EXCEPT ![r] = Off]
  /\ status' = [status EXCEPT ![r] = "using"]
  /\ UNCHANGED <<seq, seqOf, expiryTimer, running, statsCalls>>

LoopEnds == \A r \in waiters : ~ IsBest(r, slots, waiters, seqOf)

\* schedule() returns, and the call it ran in is not a waiting acquire.
ScheduleEnds ==
  /\ running # Idle /\ running \notin waiters /\ LoopEnds
  /\ expiryTimer' = Armed(slots, waiters, left)
  /\ running' = Idle
  /\ UNCHANGED <<slots, left, waiters, seq, seqOf, waitTimer, status,
                 statsCalls>>

\* A full queue that takes one more.
KeepWaiting_OneTooMany(r) ==
  /\ running = r /\ r \in waiters /\ LoopEnds
  /\ ~ QueueTooLong(waiters \ {r})
  /\ waitTimer' = [waitTimer EXCEPT ![r] = WaitLimit(r)]
  /\ expiryTimer' = Armed(slots, waiters, left)
  /\ running' = Idle
  /\ UNCHANGED <<slots, left, waiters, seq, seqOf, status, statsCalls>>

\* schedule() did not grant the acquire it ran in: it waits, with its limit.
KeepWaiting(r) ==
  /\ running = r /\ r \in waiters /\ LoopEnds
  /\ ~ QueueTooLong(waiters)
  /\ waitTimer' = [waitTimer EXCEPT ![r] = WaitLimit(r)]
  /\ expiryTimer' = Armed(slots, waiters, left)
  /\ running' = Idle
  /\ UNCHANGED <<slots, left, waiters, seq, seqOf, status, statsCalls>>

\* ... or the queue is full and it is rejected (ConcurrencyQueueFullError).
QueueFull(r) ==
  /\ running = r /\ r \in waiters /\ LoopEnds
  /\ QueueTooLong(waiters)
  /\ Dequeue(r, "full")
  /\ running' = Idle
  /\ UNCHANGED <<slots, left, seq, seqOf, statsCalls>>

\* The signal of a waiting request aborts (onAbort).
Abort(r) ==
  /\ running = Idle /\ r \in waiters
  /\ Dequeue(r, "aborted")
  /\ UNCHANGED <<slots, left, seq, seqOf, running, statsCalls>>

\* The wait timer of a request fires (ConcurrencyTimeoutError).
WaitTimeout(r) ==
  /\ running = Idle /\ r \in waiters /\ waitTimer[r] = 0
  /\ Dequeue(r, "timeout")
  /\ UNCHANGED <<slots, left, seq, seqOf, running, statsCalls>>

\* renew(lease).  A lease that is gone or past its expiry is not extended;
\* its expiry may have freed a slot, so waiters are scheduled.
Renew(r) ==
  /\ running = Idle /\ status[r] \in {"using", "released"}
  /\ \/ /\ r \in Live(slots)
        /\ left' = [left EXCEPT ![r] = LeaseTtl]
        /\ expiryTimer' = Armed(slots, waiters, left')
        /\ UNCHANGED <<slots, running>>
     \/ /\ r \notin Live(slots)
        /\ EnterSchedule(slots, Sched)
        /\ UNCHANGED <<left, expiryTimer>>
  /\ UNCHANGED <<waiters, seq, seqOf, waitTimer, status, statsCalls>>

\* release(lease), by the client that got it; a second release changes nothing
\* but schedules again.
Release(r) ==
  /\ running = Idle /\ status[r] \in {"using", "released"}
  /\ status' = [status EXCEPT ![r] = "released"]
  /\ EnterSchedule(slots \ {r}, Sched)
  /\ left' = [left EXCEPT ![r] = 0]
  /\ UNCHANGED <<waiters, seq, seqOf, waitTimer, expiryTimer, statsCalls>>

\* A client stops without releasing: its release failed, or its run died.
Abandon(r) ==
  /\ running = Idle /\ status[r] = "using"
  /\ status' = [status EXCEPT ![r] = "abandoned"]
  /\ UNCHANGED <<slots, left, waiters, seq, seqOf, waitTimer, expiryTimer,
                 running, statsCalls>>

\* An expiry callback that only purges.
ExpiryTimerFires_NoSchedule ==
  /\ running = Idle /\ expiryTimer = 0
  /\ expiryTimer' = Off
  /\ slots' = Live(slots)
  /\ UNCHANGED <<left, waiters, seq, seqOf, waitTimer, status, running, statsCalls>>

\* The callback of the expiry timer.
ExpiryTimerFires ==
  /\ running = Idle /\ expiryTimer = 0
  /\ expiryTimer' = Off
  /\ EnterSchedule(slots, Sched)
  /\ UNCHANGED <<left, waiters, seq, seqOf, waitTimer, status, statsCalls>>

\* stats(): purges expired slots, and schedules nobody.
Stats ==
  /\ running = Idle /\ statsCalls < MaxStats
  /\ slots' = Live(slots)
  /\ statsCalls' = statsCalls + 1
  /\ UNCHANGED <<left, waiters, seq, seqOf, waitTimer, expiryTimer, status,
                 running>>

CountDown(t) == IF t > 0 THEN t - 1 ELSE t

\* One unit of time passes.
Tick ==
  /\ running = Idle
  /\ left' = [r \in Request |-> CountDown(left[r])]
  /\ waitTimer' = [r \in Request |-> CountDown(waitTimer[r])]
  /\ expiryTimer' = CountDown(expiryTimer)
  /\ UNCHANGED <<slots, waiters, seq, seqOf, status, running, statsCalls>>

Next ==
  \/ \E r \in Request :
       \/ Acquire(r) \/ AcquireRefused(r) \/ GrantOne(r) \/ KeepWaiting(r)
       \/ QueueFull(r) \/ Abort(r) \/ WaitTimeout(r) \/ Renew(r)
       \/ Release(r) \/ Abandon(r)
  \/ ScheduleEnds \/ ExpiryTimerFires \/ Stats \/ Tick

Spec == Init /\ [][Next]_vars

\* A client does not use its slot for ever: it releases it or goes away.
ClientFinishes(r) == status[r] = "using" /\ (Release(r) \/ Abandon(r))

\* What the event loop guarantees: a synchronous call returns, time passes,
\* and a callback that is due runs although others are due as well.  Strong
\* fairness, because a callback is not enabled while another call runs.
FairSpec ==
  /\ Spec
  /\ WF_vars(\E r \in Request : GrantOne(r) \/ KeepWaiting(r) \/ QueueFull(r))
  /\ WF_vars(ScheduleEnds)
  /\ SF_vars(Tick)
  /\ SF_vars(ExpiryTimerFires)
  /\ \A r \in Request : SF_vars(WaitTimeout(r)) /\ SF_vars(ClientFinishes(r))

-----------------------------------------------------------------------------
\* Every variable has its type; only acquire calls in the queue are waiting,
\* and only leases that were granted hold a slot.
TypeOK ==
  /\ slots \in SUBSET Resolvable
  /\ waiters \in SUBSET Resolvable
  /\ left \in [Request -> Nat]
  /\ seq \in Nat /\ seqOf \in [Request -> Nat]
  /\ waitTimer \in [Request -> Nat \cup {Off}]
  /\ expiryTimer \in Nat \cup {Off}
  /\ status \in [Request -> Status]
  /\ running \in Request \cup {Idle, Sched}
  /\ statsCalls \in 0..MaxStats
  /\ \A r \in Request : r \in waiters <=> status[r] = "waiting"
  /\ \A r \in slots : status[r] \in {"using", "released", "abandoned"}

\* The slots that are out never exceed maxConcurrent, no workload exceeds its
\* own ceiling, and every reserved slot that is not in use stays free for its
\* workload, after every grant, renewal, release, expiry and purge.
SlotsFit == Fits(slots)

\* "Two interactive requests can always start immediately": outside a call,
\* nobody waits whose workload uses fewer slots than it has reserved.
ReservedStartAtOnce ==
  running = Idle =>
    \A r \in waiters : Active(slots, WorkloadOf(r)) >= Reserved[WorkloadOf(r)]

\* A waiter that the unexpired slots leave room for is about to be scheduled:
\* the expiry timer is armed and due.  No wakeup is lost between releases,
\* renewals, aborts, timeouts and expiries.
NoLostWakeup ==
  (/\ running = Idle
   /\ \E r \in waiters : HasRoom(Live(slots), WorkloadOf(r)))
  => expiryTimer = 0

\* At most maxQueued requests wait when no call is running.
QueueBounded == running = Idle => ~ QueueTooLong(waiters)

\* Arrival order within a workload: while a request waits, no younger request
\* of its workload has been granted a slot.
ArrivalOrder ==
  \A r \in waiters, q \in Request :
    (/\ q \in Resolvable /\ WorkloadOf(q) = WorkloadOf(r)
     /\ status[q] \in {"using", "released", "abandoned"})
    => seqOf[q] < seqOf[r]

\* The limiter takes a slot away before its lease expires only when the
\* holder releases it.
LiveLeaseKept ==
  [][\A r \in slots :
       left[r] > 0 => r \in slots' \/ status'[r] = "released"]_vars

\* Every waiting request of a servable workload is settled in the end: it is
\* granted, or its wait limit or its caller ends it.  Slots whose holder went
\* away come back when their lease expires.
EveryWaiterSettles ==
  \A r \in Resolvable :
    (r \in waiters /\ Servable(WorkloadOf(r))) ~> (r \notin waiters)

-----------------------------------------------------------------------------
\* The limiter implements the abstract slot pool.
Pool == INSTANCE SlotPool WITH
  Lease <- Resolvable,
  Fits <- Fits,
  held <- slots,
  ended <- {r \in Request : status[r] \in {"using", "released", "abandoned"}}
             \ slots

\* Lease ids are never used again and the leases that are out always fit:
\* every step of the limiter is a step of the slot pool.
ImplementsSlotPool == Pool!PoolSpec
=============================================================================
