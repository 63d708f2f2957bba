------------------------ MODULE InMemoryLimiterProofs ------------------------
(***************************************************************************)
(* Safety of the in-process limiter for all limits, requests, lease times  *)
(* and wait limits: types, slots within the limits, the refinement of the  *)
(* slot pool, the queue, and who waits: a reserved slot is never waited    *)
(* for, a waiter there is room for has its wakeup, and no live lease is    *)
(* taken away.                                                             *)
(*                                                                         *)
(* The wakeups hold as long as nobody calls stats(), which purges without  *)
(* scheduling; that is the assumption MaxStats = 0 of their theorems.      *)
(***************************************************************************)
EXTENDS InMemoryLimiter, ConcurrencyPolicyProofs

\* A non-empty set of naturals has a least element.
LEMMA LeastNatural ==
  ASSUME NEW T \in SUBSET Nat, T # {}
  PROVE  \E x \in T : \A y \in T : x <= y
PROOF
<1>1. PICK x \in T : \A y \in T : ~ (<<y, x>> \in OpToRel(<, Nat))
  BY WFMin, NatLessThanWellFounded
<1>2. \A y \in T : ~ (y < x)
  BY <1>1 DEF OpToRel
<1>. QED  BY <1>2

\* The delay armExpiryTimer computes is a time, or the timer stays off.
LEMMA ArmedType ==
  ASSUME NEW S \in SUBSET Request, NEW W, NEW remaining \in [Request -> Nat]
  PROVE  Armed(S, W, remaining) \in Nat \cup {Off}
PROOF
<1>1. CASE S = {} \/ W = {}
  BY <1>1 DEF Armed
<1>2. CASE ~ (S = {} \/ W = {})
  <2> DEFINE T == {remaining[r] : r \in S}
  <2>1. T \in SUBSET Nat /\ T # {}
    BY <1>2
  <2>2. \E t \in T : \A y \in T : t <= y
    <3> HIDE DEF T
    <3>. QED  BY <2>1, LeastNatural
  <2>3. \E t \in T : \A r \in S : t <= remaining[r]
    BY <2>2
  <2>4. (CHOOSE t \in T : \A r \in S : t <= remaining[r]) \in T
    BY <2>3
  <2>. QED  BY <1>2, <2>1, <2>4 DEF Armed
<1>. QED  BY <1>1, <1>2

\* A request in the queue has no slot.
LEMMA WaiterHasNoSlot ==
  ASSUME TypeOK, NEW r \in waiters
  PROVE  r \in Resolvable /\ r \in Request /\ r \notin slots /\ status[r] = "waiting"
BY DEF TypeOK, Resolvable

\* Taking a waiter out of the queue keeps the types.
LEMMA DequeueType ==
  ASSUME TypeOK, NEW r \in waiters, NEW why \in Status \ {"waiting"},
         Dequeue(r, why), slots' = slots
  PROVE  /\ waiters' \in SUBSET Resolvable
         /\ waitTimer' \in [Request -> Nat \cup {Off}]
         /\ expiryTimer' \in Nat \cup {Off}
         /\ status' \in [Request -> Status]
         /\ \A q \in Request : q \in waiters' <=> status'[q] = "waiting"
         /\ \A q \in slots' : status'[q] \in {"using", "released", "abandoned"}
PROOF
<1>1. r \in Request /\ r \notin slots
  BY WaiterHasNoSlot
<1>2. expiryTimer' \in Nat \cup {Off}
  <2>1. slots \in SUBSET Request /\ left \in [Request -> Nat]
    BY DEF TypeOK, Resolvable
  <2>. QED  BY <2>1, ArmedType DEF Dequeue
<1>3. waitTimer' \in [Request -> Nat \cup {Off}]
  BY <1>1 DEF Dequeue, TypeOK
<1>4. status' \in [Request -> Status]
  BY <1>1 DEF Dequeue, TypeOK
<1>. QED  BY <1>1, <1>2, <1>3, <1>4 DEF Dequeue, TypeOK, Resolvable

\* Types are preserved by every action.
LEMMA TypeStep ==
  ASSUME TypeOK, [Next]_vars
  PROVE  TypeOK'
PROOF
<1> USE LimiterAssumption
<1>0. /\ slots \in SUBSET Request /\ waiters \in SUBSET Request
      /\ left \in [Request -> Nat]
  BY DEF TypeOK, Resolvable
<1>1. ASSUME NEW r \in Request, Acquire(r) PROVE TypeOK'
  BY <1>1 DEF TypeOK, Acquire, EnterSchedule, Live, Status, Resolvable
<1>2. ASSUME NEW r \in Request, AcquireRefused(r) PROVE TypeOK'
  <2>1. \/ status' = [status EXCEPT ![r] = "config"]
        \/ status' = [status EXCEPT ![r] = "aborted"]
    BY <1>2 DEF AcquireRefused
  <2>2. /\ status' \in [Request -> Status]
        /\ \A q \in Request \ {r} : status'[q] = status[q]
        /\ status'[r] # "waiting" /\ status[r] = "new"
    BY <1>2, <2>1 DEF AcquireRefused, TypeOK, Status
  <2>3. r \notin slots /\ r \notin waiters
    BY <2>2 DEF TypeOK
  <2>. QED  BY <1>0, <1>2, <2>2, <2>3 DEF TypeOK, AcquireRefused
<1>3. ASSUME NEW r \in Request, GrantOne(r) PROVE TypeOK'
  <2>1. r \in waiters
    BY <1>3 DEF GrantOne, IsBest, IsCandidate
  <2>2. r \in Resolvable /\ r \notin slots
    BY <2>1, WaiterHasNoSlot
  <2>. QED  BY <1>3, <2>1, <2>2 DEF TypeOK, GrantOne, Status
<1>4. ASSUME NEW r \in Request, KeepWaiting(r) PROVE TypeOK'
  <2>1. WaitLimit(r) \in Nat \cup {Off}
    <3>1. WorkloadOf(r) \in Workload
      BY <1>4, ResolvableWorkload DEF KeepWaiting, TypeOK
    <3>2. TimeoutMs[r] \in Nat \cup {Off} /\ MaxWaitMs[WorkloadOf(r)] \in Nat \cup {Off}
      BY <3>1
    <3>. QED  BY <3>2 DEF WaitLimit
  <2>2. expiryTimer' \in Nat \cup {Off}
    BY <1>0, <1>4, ArmedType DEF KeepWaiting
  <2>. QED  BY <1>4, <2>1, <2>2 DEF TypeOK, KeepWaiting
<1>5. ASSUME NEW r \in Request, QueueFull(r) PROVE TypeOK'
  <2>1. r \in waiters /\ slots' = slots /\ Dequeue(r, "full")
    BY <1>5 DEF QueueFull
  <2>2. "full" \in Status \ {"waiting"}
    BY DEF Status
  <2>. QED  BY <1>5, <2>1, <2>2, DequeueType DEF TypeOK, QueueFull
<1>6. ASSUME NEW r \in Request, Abort(r) PROVE TypeOK'
  <2>1. r \in waiters /\ slots' = slots /\ Dequeue(r, "aborted")
    BY <1>6 DEF Abort
  <2>2. "aborted" \in Status \ {"waiting"}
    BY DEF Status
  <2>. QED  BY <1>6, <2>1, <2>2, DequeueType DEF TypeOK, Abort
<1>7. ASSUME NEW r \in Request, WaitTimeout(r) PROVE TypeOK'
  <2>1. r \in waiters /\ slots' = slots /\ Dequeue(r, "timeout")
    BY <1>7 DEF WaitTimeout
  <2>2. "timeout" \in Status \ {"waiting"}
    BY DEF Status
  <2>. QED  BY <1>7, <2>1, <2>2, DequeueType DEF TypeOK, WaitTimeout
<1>8. ASSUME NEW r \in Request, Renew(r) PROVE TypeOK'
  <2>1. CASE r \in Live(slots)
    <3>1. left' \in [Request -> Nat] /\ slots' = slots /\ running' = running
      BY <1>8, <2>1 DEF Renew, TypeOK
    <3>2. expiryTimer' \in Nat \cup {Off}
      BY <1>0, <1>8, <2>1, <3>1, ArmedType DEF Renew
    <3>. QED  BY <1>8, <3>1, <3>2 DEF TypeOK, Renew
  <2>2. CASE r \notin Live(slots)
    BY <1>8, <2>2 DEF TypeOK, Renew, EnterSchedule, Live
  <2>. QED  BY <2>1, <2>2
<1>9. ASSUME NEW r \in Request, Release(r) PROVE TypeOK'
  BY <1>9 DEF TypeOK, Release, EnterSchedule, Live, Status
<1>10. ASSUME NEW r \in Request, Abandon(r) PROVE TypeOK'
  BY <1>10 DEF TypeOK, Abandon, Status
<1>11. ASSUME ScheduleEnds PROVE TypeOK'
  <2>1. expiryTimer' \in Nat \cup {Off}
    BY <1>0, <1>11, ArmedType DEF ScheduleEnds
  <2>. QED  BY <1>11, <2>1 DEF TypeOK, ScheduleEnds
<1>12. ASSUME ExpiryTimerFires PROVE TypeOK'
  BY <1>12 DEF TypeOK, ExpiryTimerFires, EnterSchedule, Live
<1>13. ASSUME Stats PROVE TypeOK'
  BY <1>13 DEF TypeOK, Stats, Live
<1>14. ASSUME Tick PROVE TypeOK'
  <2>1. \A t \in Nat : CountDown(t) \in Nat
    BY DEF CountDown
  <2>2. \A t \in Nat \cup {Off} : CountDown(t) \in Nat \cup {Off}
    BY DEF CountDown, Off
  <2>. QED  BY <1>14, <2>1, <2>2 DEF TypeOK, Tick
<1>15. CASE UNCHANGED vars
  BY <1>15 DEF TypeOK, vars
<1>. QED
  BY <1>1, <1>2, <1>3, <1>4, <1>5, <1>6, <1>7, <1>8, <1>9, <1>10, <1>11,
     <1>12, <1>13, <1>14, <1>15 DEF Next

\* Type correctness of the limiter's maps, timers and counters.
THEOREM TypeCorrect == Spec => []TypeOK
PROOF
<1>1. Init => TypeOK
  BY LimiterAssumption DEF Init, TypeOK, Status
<1>2. TypeOK /\ [Next]_vars => TypeOK'
  BY TypeStep
<1>. QED  BY <1>1, <1>2, PTL DEF Spec
-----------------------------------------------------------------------------
\* What a step does to the slots: it takes some away, or grants one request
\* of the queue for which there is room.
LEMMA SlotStep ==
  ASSUME TypeOK, [Next]_vars
  PROVE  \/ slots' \in SUBSET slots
         \/ \E r \in waiters : /\ HasRoom(slots, WorkloadOf(r))
                               /\ slots' = slots \cup {r}
PROOF
<1>1. ASSUME NEW r \in Request, GrantOne(r)
      PROVE  \E q \in waiters : /\ HasRoom(slots, WorkloadOf(q))
                                /\ slots' = slots \cup {q}
  BY <1>1 DEF GrantOne, IsBest, IsCandidate
<1>2. ASSUME NEW r \in Request,
             \/ Acquire(r) \/ AcquireRefused(r) \/ KeepWaiting(r)
             \/ QueueFull(r) \/ Abort(r) \/ WaitTimeout(r) \/ Renew(r)
             \/ Release(r) \/ Abandon(r)
      PROVE  slots' \in SUBSET slots
  BY <1>2 DEF Acquire, AcquireRefused, KeepWaiting, QueueFull, Abort,
     WaitTimeout, Renew, Release, Abandon, EnterSchedule, Live
<1>3. ASSUME ScheduleEnds \/ ExpiryTimerFires \/ Stats \/ Tick \/ UNCHANGED vars
      PROVE  slots' \in SUBSET slots
  BY <1>3 DEF ScheduleEnds, ExpiryTimerFires, Stats, Tick, vars,
     EnterSchedule, Live
<1>. QED  BY <1>1, <1>2, <1>3 DEF Next

\* Every step keeps the slots within the limits.
LEMMA SlotsFitStep ==
  ASSUME TypeOK, SlotsFit, [Next]_vars
  PROVE  SlotsFit'
PROOF
<1>1. slots \in SUBSET Resolvable
  BY DEF TypeOK
<1>2. CASE slots' \in SUBSET slots
  BY <1>1, <1>2, FewerSlotsFit DEF SlotsFit
<1>3. ASSUME NEW r \in waiters, HasRoom(slots, WorkloadOf(r)), slots' = slots \cup {r}
      PROVE  SlotsFit'
  <2>1. r \in Resolvable /\ r \notin slots
    BY WaiterHasNoSlot
  <2>2. Fits(slots \cup {r})
    BY <1>1, <1>3, <2>1, GrantFits DEF SlotsFit
  <2>. QED  BY <1>3, <2>2 DEF SlotsFit
<1>. QED  BY <1>2, <1>3, SlotStep

\* Total, ceilings and reservations are respected after every step of every
\* behaviour, for all limits that validation accepts.
THEOREM SlotsAlwaysFit == Spec => []SlotsFit
PROOF
<1>1. Init => SlotsFit
  BY NoSlotsFit DEF Init, SlotsFit
<1>2. TypeOK /\ SlotsFit /\ [Next]_vars => SlotsFit'
  BY SlotsFitStep
<1>. QED  BY <1>1, <1>2, TypeCorrect, PTL DEF Spec

-----------------------------------------------------------------------------
\* Requests that were granted a slot at some time.
Granted == {r \in Request : status[r] \in {"using", "released", "abandoned"}}

\* A grant is for ever: no step makes a granted request un-granted, and only
\* a request that was in the queue becomes granted, by getting a slot.
LEMMA GrantedStep ==
  ASSUME TypeOK, [Next]_vars
  PROVE  /\ Granted \subseteq Granted'
         /\ Granted' \ Granted \subseteq slots' \cap waiters
PROOF
<1> USE DEF Granted
<1>1. ASSUME NEW r \in Request, NEW v \in Status, status' = [status EXCEPT ![r] = v],
             r \in Granted \/ v \notin {"using", "released", "abandoned"},
             r \in Granted => v \in {"using", "released", "abandoned"}
      PROVE  Granted' = Granted
  BY <1>1 DEF TypeOK
<1>2. ASSUME NEW r \in Request, GrantOne(r)
      PROVE  Granted' = Granted \cup {r} /\ r \in slots' /\ r \in waiters
  BY <1>2 DEF GrantOne, IsBest, IsCandidate, TypeOK
<1>3. ASSUME NEW r \in Request,
             \/ Acquire(r) \/ AcquireRefused(r) \/ QueueFull(r) \/ Abort(r)
             \/ WaitTimeout(r) \/ Release(r) \/ Abandon(r)
      PROVE  Granted' = Granted
  <2>1. \E v \in Status : /\ status' = [status EXCEPT ![r] = v]
                          /\ r \in Granted \/ v \notin {"using", "released", "abandoned"}
                          /\ r \in Granted => v \in {"using", "released", "abandoned"}
    BY <1>3 DEF Acquire, AcquireRefused, QueueFull, Abort, WaitTimeout,
       Release, Abandon, Dequeue, TypeOK, Status
  <2>. QED  BY <1>1, <2>1
<1>4. ASSUME \/ \E r \in Request : KeepWaiting(r) \/ Renew(r)
             \/ ScheduleEnds \/ ExpiryTimerFires \/ Stats \/ Tick
             \/ UNCHANGED vars
      PROVE  Granted' = Granted
  BY <1>4 DEF KeepWaiting, Renew, ScheduleEnds, ExpiryTimerFires, Stats, Tick, vars
<1>. QED  BY <1>2, <1>3, <1>4 DEF Next

\* The limiter implements the slot pool: its slots are the leases held, and
\* the requests that were granted and hold no slot are the leases that ended.
THEOREM RefinesSlotPool == Spec => ImplementsSlotPool
PROOF
<1> DEFINE over == slots \ slots'
           new == slots' \ slots
           Ended == {r \in Request : status[r] \in {"using", "released", "abandoned"}}
                      \ slots
<1>1. Init => Pool!PoolInit
  BY DEF Init, Pool!PoolInit
<1>2. ASSUME TypeOK, TypeOK', SlotsFit', [Next]_vars
      PROVE  [Pool!PoolStep]_(Pool!poolVars)
  <2>1. slots \in SUBSET Granted /\ slots \in SUBSET Resolvable
    BY <1>2 DEF TypeOK, Granted, Resolvable
  <2>2. slots' = (slots \ over) \cup new /\ over \in SUBSET slots
    OBVIOUS
  <2>3. new \in SUBSET (Resolvable \ (slots \cup Ended))
    <3>1. \/ new = {}
          \/ \E r \in waiters : new = {r}
      BY <1>2, SlotStep
    <3>2. ASSUME NEW r \in waiters
          PROVE  r \in Resolvable \ (slots \cup Ended)
      BY <1>2, <3>2, WaiterHasNoSlot
    <3>. QED  BY <3>1, <3>2
  <2>4. Ended' = Ended \cup over
    <3>1. Ended = Granted \ slots /\ Ended' = Granted' \ slots'
      BY DEF Granted
    <3>2. Granted \subseteq Granted' /\ Granted' \ Granted \subseteq slots'
      BY <1>2, GrantedStep
    <3>3. (slots' \ slots) \cap Ended = {}
      BY <2>3
    <3>. QED  BY <2>1, <3>1, <3>2, <3>3
  <2>5. Fits(slots')
    BY <1>2 DEF SlotsFit
  <2>6. Pool!PoolStep
    BY <2>2, <2>3, <2>4, <2>5 DEF Pool!PoolStep
  <2>. QED  BY <2>6
<1>. QED
  BY <1>1, <1>2, TypeCorrect, SlotsAlwaysFit, PTL
     DEF Spec, ImplementsSlotPool, Pool!PoolSpec
-----------------------------------------------------------------------------
\* The queue bound, strengthened to hold inside a call: the acquire call that
\* runs is the only one that may be over the bound.
QueueInv == ~ QueueTooLong(waiters \ {running})

\* A queue that lost requests is not too long if it was not before.
LEMMA ShorterQueue ==
  ASSUME NEW V \in SUBSET Request, NEW W \in SUBSET V, ~ QueueTooLong(V)
  PROVE  ~ QueueTooLong(W)
PROOF
<1>1. IsFiniteSet(V)
  BY RequestAssumption, FS_Subset
<1>2. /\ Cardinality(W) \in Nat /\ Cardinality(V) \in Nat
      /\ Cardinality(W) <= Cardinality(V)
  BY <1>1, FS_Subset, FS_CardinalityType
<1>. QED  BY <1>2, LimiterAssumption DEF QueueTooLong

\* Every step preserves the strengthened bound.
LEMMA QueueInvStep ==
  ASSUME TypeOK, QueueInv, [Next]_vars
  PROVE  QueueInv'
PROOF
<1>0. waiters \in SUBSET Request
  BY DEF TypeOK, Resolvable
<1>1. SUFFICES \/ waiters' \ {running'} \subseteq waiters \ {running}
               \/ ~ QueueTooLong(waiters' \ {running'})
  <2>1. CASE waiters' \ {running'} \subseteq waiters \ {running}
    BY <1>0, <2>1, ShorterQueue DEF QueueInv, QueueTooLong
  <2>2. CASE ~ QueueTooLong(waiters' \ {running'})
    BY <2>2 DEF QueueInv, QueueTooLong
  <2>. QED  BY <1>1, <2>1, <2>2
<1>2. ASSUME NEW r \in Request, Acquire(r)
      PROVE  waiters' \ {running'} \subseteq waiters \ {running}
  <2>1. running = Idle /\ Idle \notin waiters
    BY <1>0, <1>2, LimiterAssumption DEF Acquire
  <2>. QED  BY <1>2, <2>1 DEF Acquire, EnterSchedule
<1>3. ASSUME NEW r \in Request, KeepWaiting(r)
      PROVE  ~ QueueTooLong(waiters' \ {running'})
  <2>1. waiters' = waiters /\ ~ QueueTooLong(waiters)
    BY <1>3 DEF KeepWaiting
  <2>. QED  BY <1>0, <2>1, ShorterQueue
<1>4. ASSUME NEW r \in Request, Abort(r) \/ WaitTimeout(r)
      PROVE  waiters' \ {running'} \subseteq waiters \ {running}
  BY <1>4 DEF Abort, WaitTimeout, Dequeue
<1>5. ASSUME NEW r \in Request, QueueFull(r)
      PROVE  waiters' \ {running'} \subseteq waiters \ {running}
  BY <1>5 DEF QueueFull, Dequeue
<1>6. ASSUME NEW r \in Request, GrantOne(r) \/ AcquireRefused(r) \/ Abandon(r)
      PROVE  waiters' \ {running'} \subseteq waiters \ {running}
  BY <1>6 DEF GrantOne, AcquireRefused, Abandon
<1>7. ASSUME NEW r \in Request, Renew(r) \/ Release(r)
      PROVE  waiters' \ {running'} \subseteq waiters \ {running}
  <2>1. running = Idle /\ Idle \notin waiters /\ waiters' = waiters
    BY <1>0, <1>7, LimiterAssumption DEF Renew, Release
  <2>. QED  BY <2>1
<1>8. ASSUME ScheduleEnds
      PROVE  waiters' \ {running'} \subseteq waiters \ {running}
  BY <1>8 DEF ScheduleEnds
<1>9. ASSUME ExpiryTimerFires
      PROVE  waiters' \ {running'} \subseteq waiters \ {running}
  <2>1. running = Idle /\ Idle \notin waiters /\ waiters' = waiters
    BY <1>0, <1>9, LimiterAssumption DEF ExpiryTimerFires
  <2>. QED  BY <2>1
<1>10. ASSUME Stats \/ Tick \/ UNCHANGED vars
       PROVE  waiters' \ {running'} \subseteq waiters \ {running}
  BY <1>10 DEF Stats, Tick, vars
<1>. QED
  BY <1>2, <1>3, <1>4, <1>5, <1>6, <1>7, <1>8, <1>9, <1>10 DEF Next

\* The queue never holds more than maxQueued requests between calls.
THEOREM QueueAlwaysBounded == Spec => []QueueBounded
PROOF
<1>1. Init => QueueInv
  <2>1. Cardinality({}) = 0
    BY FS_EmptySet
  <2>. QED  BY <2>1, LimiterAssumption DEF Init, QueueInv, QueueTooLong
<1>2. TypeOK /\ QueueInv /\ [Next]_vars => QueueInv'
  BY QueueInvStep
<1>3. TypeOK /\ QueueInv => QueueBounded
  <2> SUFFICES ASSUME TypeOK, QueueInv, running = Idle
               PROVE  ~ QueueTooLong(waiters)
    BY DEF QueueBounded
  <2>1. waiters \ {running} = waiters
    BY LimiterAssumption DEF TypeOK, Resolvable
  <2>. QED  BY <2>1 DEF QueueInv
<1>. QED  BY <1>1, <1>2, <1>3, TypeCorrect, PTL DEF Spec

-----------------------------------------------------------------------------
\* What arrival order needs besides itself: numbers are handed out in
\* increasing order, and no two requests have the number of a waiter.
OrderInv ==
  /\ \A r \in Request : seqOf[r] <= seq
  /\ \A r \in waiters : seqOf[r] > 0
  /\ \A r \in waiters, q \in Request : seqOf[q] = seqOf[r] => q = r
  /\ \A r \in Request : status[r] = "new" => seqOf[r] = 0
  /\ ArrivalOrder

\* Steps that enqueue and grant nobody keep the order.
LEMMA OrderKept ==
  ASSUME TypeOK, OrderInv, seq' = seq, seqOf' = seqOf,
         waiters' \subseteq waiters, Granted' = Granted,
         \A r \in Request : status'[r] = "new" => status[r] = "new"
  PROVE  OrderInv'
BY DEF OrderInv, ArrivalOrder, Granted, TypeOK

\* Every step preserves the order.
LEMMA OrderInvStep ==
  ASSUME TypeOK, OrderInv, [Next]_vars
  PROVE  OrderInv'
PROOF
<1>0. waiters \in SUBSET Request /\ seq \in Nat /\ seqOf \in [Request -> Nat]
  BY DEF TypeOK, Resolvable
<1>1. ASSUME NEW r \in Request, Acquire(r) PROVE OrderInv'
  <2>1. /\ seq' = seq + 1 /\ seqOf' = [seqOf EXCEPT ![r] = seq + 1]
        /\ waiters' = waiters \cup {r} /\ status[r] = "new"
        /\ status' = [status EXCEPT ![r] = "waiting"]
    BY <1>1 DEF Acquire
  <2>2. seqOf'[r] = seq + 1 /\ \A q \in Request : q # r => seqOf'[q] = seqOf[q]
    BY <1>0, <2>1
  <2>3. status'[r] = "waiting" /\ \A q \in Request : q # r => status'[q] = status[q]
    BY <2>1 DEF TypeOK
  <2>4. \A q \in Request : seqOf[q] < seq + 1
    BY <1>0 DEF OrderInv
  <2>5. \A q \in Request : seqOf'[q] <= seq'
    BY <1>0, <2>1, <2>2, <2>4
  <2>6. \A q \in waiters' : seqOf'[q] > 0
    BY <1>0, <2>1, <2>2 DEF OrderInv
  <2>7. \A q \in waiters', p \in Request : seqOf'[p] = seqOf'[q] => p = q
    <3> SUFFICES ASSUME NEW q \in waiters', NEW p \in Request, seqOf'[p] = seqOf'[q]
                 PROVE  p = q
      OBVIOUS
    <3>1. CASE p = r \/ q = r
      BY <1>0, <2>1, <2>2, <2>4, <3>1
    <3>2. CASE p # r /\ q # r
      BY <1>0, <2>1, <2>2, <3>2 DEF OrderInv
    <3>. QED  BY <3>1, <3>2
  <2>8. \A q \in Request : status'[q] = "new" => seqOf'[q] = 0
    BY <2>2, <2>3 DEF OrderInv
  <2>9. ArrivalOrder'
    <3> SUFFICES ASSUME NEW p \in waiters', NEW q \in Request,
                        q \in Resolvable, WorkloadOf(q) = WorkloadOf(p),
                        status'[q] \in {"using", "released", "abandoned"}
                 PROVE  seqOf'[q] < seqOf'[p]
      BY DEF ArrivalOrder
    <3>1. q # r /\ status[q] \in {"using", "released", "abandoned"}
      BY <2>3
    <3>2. CASE p = r
      BY <2>2, <2>4, <3>1, <3>2
    <3>3. CASE p # r
      BY <1>0, <2>1, <2>2, <3>1, <3>3 DEF OrderInv, ArrivalOrder
    <3>. QED  BY <3>2, <3>3
  <2>. QED  BY <2>5, <2>6, <2>7, <2>8, <2>9 DEF OrderInv
<1>2. ASSUME NEW r \in Request, GrantOne(r) PROVE OrderInv'
  <2>1. /\ r \in waiters /\ IsHead(r, waiters, seqOf) /\ waiters' = waiters \ {r}
        /\ status' = [status EXCEPT ![r] = "using"]
        /\ seq' = seq /\ seqOf' = seqOf
    BY <1>2 DEF GrantOne, IsBest, IsCandidate
  <2>2. status'[r] = "using" /\ \A q \in Request : q # r => status'[q] = status[q]
    BY <2>1 DEF TypeOK
  <2>3. ArrivalOrder'
    <3> SUFFICES ASSUME NEW p \in waiters', NEW q \in Request,
                        q \in Resolvable, WorkloadOf(q) = WorkloadOf(p),
                        status'[q] \in {"using", "released", "abandoned"}
                 PROVE  seqOf[q] < seqOf[p]
      BY <2>1 DEF ArrivalOrder
    <3>1. p \in waiters /\ p # r
      BY <2>1
    <3>2. CASE q = r
      <4>1. seqOf[r] <= seqOf[p]
        BY <2>1, <3>1, <3>2 DEF IsHead
      <4>2. seqOf[r] # seqOf[p]
        BY <3>1 DEF OrderInv
      <4>. QED  BY <1>0, <3>1, <3>2, <4>1, <4>2
    <3>3. CASE q # r
      BY <2>2, <3>1, <3>3 DEF OrderInv, ArrivalOrder
    <3>. QED  BY <3>2, <3>3
  <2>. QED  BY <2>1, <2>2, <2>3 DEF OrderInv
<1>3. ASSUME \/ \E r \in Request : \/ AcquireRefused(r) \/ KeepWaiting(r)
                                   \/ QueueFull(r) \/ Abort(r) \/ WaitTimeout(r)
                                   \/ Renew(r) \/ Release(r) \/ Abandon(r)
             \/ ScheduleEnds \/ ExpiryTimerFires \/ Stats \/ Tick
             \/ UNCHANGED vars
      PROVE  OrderInv'
  <2>1. /\ seq' = seq /\ seqOf' = seqOf /\ waiters' \subseteq waiters
    BY <1>3 DEF AcquireRefused, KeepWaiting, QueueFull, Abort, WaitTimeout,
       Renew, Release, Abandon, ScheduleEnds, ExpiryTimerFires, Stats, Tick,
       vars, Dequeue
  <2>2. Granted' = Granted
    <3>1. \/ status' = status
          \/ \E r \in Request, v \in Status :
               /\ status' = [status EXCEPT ![r] = v]
               /\ status[r] \in {"using", "released", "abandoned"}
                    <=> v \in {"using", "released", "abandoned"}
      BY <1>3 DEF AcquireRefused, KeepWaiting, QueueFull, Abort, WaitTimeout,
         Renew, Release, Abandon, ScheduleEnds, ExpiryTimerFires, Stats, Tick,
         vars, Dequeue, TypeOK, Status
    <3>. QED  BY <3>1 DEF Granted, TypeOK
  <2>3. \A r \in Request : status'[r] = "new" => status[r] = "new"
    <3>1. \/ status' = status
          \/ \E r \in Request, v \in Status \ {"new"} :
               status' = [status EXCEPT ![r] = v]
      BY <1>3 DEF AcquireRefused, KeepWaiting, QueueFull, Abort, WaitTimeout,
         Renew, Release, Abandon, ScheduleEnds, ExpiryTimerFires, Stats, Tick,
         vars, Dequeue, Status
    <3>. QED  BY <3>1 DEF TypeOK
  <2>. QED  BY <2>1, <2>2, <2>3, OrderKept
<1>. QED  BY <1>1, <1>2, <1>3 DEF Next

\* Within a workload, requests are granted in arrival order, whatever
\* releases, expiries, aborts and timeouts come in between.
THEOREM GrantedInArrivalOrder == Spec => []ArrivalOrder
PROOF
<1>1. Init => OrderInv
  BY DEF Init, OrderInv, ArrivalOrder
<1>2. TypeOK /\ OrderInv /\ [Next]_vars => OrderInv'
  BY OrderInvStep
<1>3. OrderInv => ArrivalOrder
  BY DEF OrderInv
<1>. QED  BY <1>1, <1>2, <1>3, TypeCorrect, PTL DEF Spec

-----------------------------------------------------------------------------
(* Who waits: the policy. *)

\* A finite set of requests has one of highest priority.
LEMMA HighestPriority ==
  ASSUME NEW C \in SUBSET Resolvable, C # {}
  PROVE  \E c \in C : \A q \in C : Priority[WorkloadOf(q)] <= Priority[WorkloadOf(c)]
PROOF
<1> DEFINE P(c) == Priority[WorkloadOf(c)]
           Up(c) == {q \in C : P(c) <= P(q)}
           T == {Up(c) : c \in C}
<1>1. \A c \in C : P(c) \in Int
  BY ResolvableWorkload, LimitsAssumption DEF ValidLimits
<1>2. IsFiniteSet(C)
  BY SlotsFinite
<1>3. T \subseteq FiniteSubsetsOf(C) /\ T # {}
  <2>1. ASSUME NEW c \in C PROVE Up(c) \in FiniteSubsetsOf(C)
    <3>1. Up(c) \in SUBSET C
      OBVIOUS
    <3> HIDE DEF Up
    <3>. QED  BY <1>2, <3>1, FS_Subset DEF FiniteSubsetsOf
  <2>. QED  BY <2>1
<1>4. PICK X \in T : \A Y \in T : ~ (<<Y, X>> \in StrictSubsetOrdering(C))
  <2> HIDE DEF T
  <2>. QED  BY <1>3, WFMin, FS_StrictSubsetOrderingWellFounded
<1>5. PICK c \in C : X = Up(c)
  BY <1>4
<1>6. ASSUME NEW q \in C, ~ (P(q) <= P(c)) PROVE FALSE
  <2> HIDE DEF P
  <2>1. Up(q) \subseteq Up(c) /\ c \in Up(c) /\ c \notin Up(q)
    BY <1>1, <1>6
  <2>2. <<Up(q), Up(c)>> \in StrictSubsetOrdering(C)
    BY <2>1 DEF StrictSubsetOrdering
  <2>. QED  BY <1>4, <1>5, <2>2
<1>. QED  BY <1>6

\* If some waiter has room, the grant loop does not end.
LEMMA BestExists ==
  ASSUME NEW S \in SUBSET Resolvable, NEW W \in SUBSET Resolvable,
         NEW number \in [Request -> Nat],
         NEW w \in W, HasRoom(S, WorkloadOf(w))
  PROVE  \E r \in W : IsBest(r, S, W, number)
PROOF
<1> DEFINE C == {r \in W : IsCandidate(r, S, W, number)}
<1>0. W \subseteq Request
  BY DEF Resolvable
<1>1. C # {}
  <2> DEFINE Q == {q \in W : WorkloadOf(q) = WorkloadOf(w)}
             N == {number[q] : q \in Q}
  <2>1. N \in SUBSET Nat /\ N # {}
    BY <1>0
  <2>2. PICK n \in N : \A m \in N : n <= m
    <3> HIDE DEF N
    <3>. QED  BY <2>1, LeastNatural
  <2>3. PICK r \in Q : n = number[r]
    BY <2>2
  <2>4. IsCandidate(r, S, W, number)
    BY <2>2, <2>3 DEF IsCandidate, IsHead
  <2>. QED  BY <2>3, <2>4
<1>2. PICK c \in C : \A q \in C : Priority[WorkloadOf(q)] <= Priority[WorkloadOf(c)]
  <2>1. C \in SUBSET Resolvable
    OBVIOUS
  <2> HIDE DEF C
  <2>. QED  BY <1>1, <2>1, HighestPriority
<1> DEFINE D == {q \in C : Priority[WorkloadOf(q)] = Priority[WorkloadOf(c)]}
           M == {number[q] : q \in D}
<1>3. M \in SUBSET Nat /\ M # {}
  BY <1>0, <1>2
<1>4. PICK n \in M : \A m \in M : n <= m
  <2> HIDE DEF M
  <2>. QED  BY <1>3, LeastNatural
<1>5. PICK r \in D : n = number[r]
  BY <1>4
<1>6. \A q \in C : Priority[WorkloadOf(q)] \in Int
  BY ResolvableWorkload, LimitsAssumption DEF ValidLimits
<1>7. ASSUME NEW q \in C PROVE Outranks(r, q, number)
  <2>1. CASE q \in D
    BY <1>4, <1>5, <2>1 DEF Outranks
  <2>2. CASE q \notin D
    <3>1. /\ Priority[WorkloadOf(r)] = Priority[WorkloadOf(c)]
          /\ Priority[WorkloadOf(q)] # Priority[WorkloadOf(c)]
          /\ Priority[WorkloadOf(q)] <= Priority[WorkloadOf(c)]
      BY <1>2, <1>5, <2>2
    <3>2. Priority[WorkloadOf(q)] \in Int /\ Priority[WorkloadOf(c)] \in Int
      BY <1>2, <1>6
    <3>3. Priority[WorkloadOf(r)] > Priority[WorkloadOf(q)]
      BY <3>1, <3>2
    <3>. QED  BY <3>3 DEF Outranks
  <2>. QED  BY <2>1, <2>2
<1>. QED  BY <1>5, <1>7 DEF IsBest

\* A workload that uses fewer slots than it has reserved has room: this is
\* what leaving the reservations free is for.
LEMMA ReservedHasRoom ==
  ASSUME NEW S \in SUBSET Resolvable, Fits(S), NEW w \in Workload, Active(S, w) < Reserved[w]
  PROVE  HasRoom(S, w)
PROOF
<1> DEFINE a == Active(S, w)
           U == UnmetSeats(S)
           e == <<w, a + 1>>
           V == {s \in U : s[1] # w}
<1>1. /\ Reserved[w] \in Nat /\ WorkloadMax[w] \in 1..MaxConcurrent
      /\ Reserved[w] <= WorkloadMax[w] /\ MaxConcurrent \in Nat
  BY LimitsAssumption DEF ValidLimits
<1>2. a \in Nat /\ Cardinality(S) \in Nat
  BY SlotsFinite
<1>3. a + 1 \in 1..MaxConcurrent /\ a + 1 <= Reserved[w] /\ a < a + 1
  BY <1>1, <1>2
<1>4. e \in U
  BY <1>3 DEF UnmetSeats, ReservedSeats, Seat
<1>5. IsFiniteSet(U) /\ Cardinality(U) \in Nat
  BY SeatsFinite DEF UnmetSeats, ReservedSeats
<1>6. V \subseteq U \ {e}
  OBVIOUS
<1>7. Cardinality(V) \in Nat /\ Cardinality(V) <= Cardinality(U) - 1
  <2> HIDE DEF U, e, V
  <2>1. Cardinality(U \ {e}) = Cardinality(U) - 1 /\ IsFiniteSet(U \ {e})
    BY <1>4, <1>5, FS_RemoveElement
  <2>. QED  BY <1>6, <2>1, FS_Subset, FS_CardinalityType
<1>8. Cardinality(S) + Cardinality(U) <= MaxConcurrent
  BY DEF Fits, ReservationsFree
<1>9. Cardinality(S) + 1 + Cardinality(V) <= MaxConcurrent /\ Cardinality(S) < MaxConcurrent
  <2> HIDE DEF U, V
  <2>. QED  BY <1>1, <1>2, <1>5, <1>7, <1>8
<1>10. a < WorkloadMax[w]
  <2> HIDE DEF a
  <2>. QED  BY <1>1, <1>2, <1>3
<1>. QED  BY <1>9, <1>10 DEF HasRoom, UnmetReservations

-----------------------------------------------------------------------------
(* The wakeup. *)

\* Between calls no waiter has room next to the slots that are out, expired or
\* not, and the expiry timer is due before any of them expires.
WakeInv ==
  running = Idle =>
    /\ \A r \in waiters : ~ HasRoom(slots, WorkloadOf(r))
    /\ waiters # {} => \A s \in slots : expiryTimer \in Nat /\ expiryTimer <= left[s]

\* armExpiryTimer sets the timer to the earliest expiry.
LEMMA ArmedEarliest ==
  ASSUME NEW S \in SUBSET Request, NEW W, W # {}, NEW remaining \in [Request -> Nat], NEW s \in S
  PROVE  Armed(S, W, remaining) \in Nat /\ Armed(S, W, remaining) <= remaining[s]
PROOF
<1> DEFINE T == {remaining[r] : r \in S}
<1>1. T \in SUBSET Nat /\ T # {}
  OBVIOUS
<1>2. \E t \in T : \A y \in T : t <= y
  <2> HIDE DEF T
  <2>. QED  BY <1>1, LeastNatural
<1>3. \E t \in T : \A r \in S : t <= remaining[r]
  BY <1>2
<1>4. /\ (CHOOSE t \in T : \A r \in S : t <= remaining[r]) \in T
      /\ \A r \in S : (CHOOSE t \in T : \A x \in S : t <= remaining[x]) <= remaining[r]
  BY <1>3
<1>. QED  BY <1>1, <1>4 DEF Armed

\* The invariant holds when schedule() returns.
LEMMA LoopOver ==
  ASSUME TypeOK, LoopEnds
  PROVE  \A r \in waiters : ~ HasRoom(slots, WorkloadOf(r))
PROOF
<1>1. slots \in SUBSET Resolvable /\ waiters \in SUBSET Resolvable /\ seqOf \in [Request -> Nat]
  BY DEF TypeOK
<1>. QED  BY <1>1, BestExists DEF LoopEnds

\* ... and is kept by every step.
LEMMA WakeStep ==
  ASSUME MaxStats = 0, TypeOK, WakeInv, [Next]_vars
  PROVE  WakeInv'
PROOF
<1> USE LimiterAssumption
<1>0. /\ slots \in SUBSET Request /\ left \in [Request -> Nat]
      /\ expiryTimer \in Nat \cup {Off} /\ statsCalls = 0 /\ Idle \notin Request
  BY DEF TypeOK, Resolvable
<1>1. ASSUME NEW r \in Request, Acquire(r) \/ GrantOne(r) PROVE WakeInv'
  BY <1>0, <1>1 DEF Acquire, GrantOne, EnterSchedule, WakeInv
<1>2. ASSUME NEW r \in Request, AcquireRefused(r) \/ Abandon(r) PROVE WakeInv'
  BY <1>2 DEF AcquireRefused, Abandon, WakeInv
<1>3. ASSUME slots' = slots, left' = left, waiters' \subseteq waiters,
             expiryTimer' = Armed(slots, waiters', left),
             \A r \in waiters : ~ HasRoom(slots, WorkloadOf(r))
      PROVE  WakeInv'
  <2>1. ASSUME waiters' # {}, NEW s \in slots
        PROVE  expiryTimer' \in Nat /\ expiryTimer' <= left[s]
    BY <1>0, <1>3, <2>1, ArmedEarliest
  <2>. QED  BY <1>3, <2>1 DEF WakeInv
<1>4. ASSUME NEW r \in Request, KeepWaiting(r) PROVE WakeInv'
  BY <1>3, <1>4, LoopOver DEF KeepWaiting
<1>5. ASSUME NEW r \in Request, QueueFull(r) PROVE WakeInv'
  BY <1>3, <1>5, LoopOver DEF QueueFull, Dequeue
<1>6. ASSUME NEW r \in Request, Abort(r) \/ WaitTimeout(r) PROVE WakeInv'
  BY <1>3, <1>6 DEF Abort, WaitTimeout, Dequeue, WakeInv
<1>7. ASSUME NEW r \in Request, Renew(r) PROVE WakeInv'
  <2>1. CASE r \in Live(slots)
    <3>1. /\ slots' = slots /\ waiters' = waiters /\ running = Idle
          /\ left' = [left EXCEPT ![r] = LeaseTtl]
          /\ expiryTimer' = Armed(slots, waiters, left')
      BY <1>7, <2>1 DEF Renew
    <3>2. left' \in [Request -> Nat]
      BY <1>0, <3>1
    <3>3. ASSUME waiters # {}, NEW s \in slots
          PROVE  expiryTimer' \in Nat /\ expiryTimer' <= left'[s]
      BY <1>0, <3>1, <3>2, <3>3, ArmedEarliest
    <3>. QED  BY <3>1, <3>3 DEF WakeInv
  <2>2. CASE r \notin Live(slots)
    BY <1>7, <2>2 DEF Renew, EnterSchedule, WakeInv
  <2>. QED  BY <2>1, <2>2
<1>8. ASSUME NEW r \in Request, Release(r) PROVE WakeInv'
  BY <1>8 DEF Release, EnterSchedule, WakeInv
<1>9. ASSUME ScheduleEnds PROVE WakeInv'
  BY <1>3, <1>9, LoopOver DEF ScheduleEnds
<1>10. ASSUME ExpiryTimerFires PROVE WakeInv'
  BY <1>10 DEF ExpiryTimerFires, EnterSchedule, WakeInv
<1>11. ASSUME Stats PROVE WakeInv'
  BY <1>0, <1>11 DEF Stats
<1>12. ASSUME Tick PROVE WakeInv'
  <2>1. /\ running = Idle /\ UNCHANGED <<slots, waiters>>
        /\ expiryTimer' = CountDown(expiryTimer)
        /\ \A s \in slots : left'[s] = CountDown(left[s])
    BY <1>0, <1>12 DEF Tick
  <2>2. ASSUME NEW x \in Nat, NEW y \in Nat, x <= y
        PROVE  CountDown(x) \in Nat /\ CountDown(x) <= CountDown(y)
    BY <2>2 DEF CountDown
  <2>3. \A s \in slots : left[s] \in Nat
    BY <1>0
  <2>. QED  BY <2>1, <2>2, <2>3 DEF WakeInv
<1>13. CASE UNCHANGED vars
  BY <1>13 DEF vars, WakeInv
<1>. QED
  BY <1>1, <1>2, <1>4, <1>5, <1>6, <1>7, <1>8, <1>9, <1>10, <1>11, <1>12, <1>13 DEF Next

\* The invariant of every reachable state.
LEMMA WakeAlways == ASSUME MaxStats = 0 PROVE Spec => [](TypeOK /\ WakeInv)
PROOF
<1>1. Init => TypeOK /\ WakeInv
  BY LimiterAssumption DEF Init, TypeOK, Status, WakeInv
<1>2. TypeOK /\ WakeInv /\ [Next]_vars => (TypeOK /\ WakeInv)'
  BY TypeStep, WakeStep
<1>. QED  BY <1>1, <1>2, PTL DEF Spec

-----------------------------------------------------------------------------
(* The theorems. *)

\* No lost wakeup: whatever releases, renewals, aborts, timeouts and expiries
\* came before, a waiter for whom the unexpired slots leave room finds the
\* expiry timer due.
THEOREM WakeupNeverLost == ASSUME MaxStats = 0 PROVE Spec => []NoLostWakeup
PROOF
<1>1. TypeOK /\ WakeInv => NoLostWakeup
  <2> SUFFICES ASSUME TypeOK, WakeInv, running = Idle,
                      NEW r \in waiters, HasRoom(Live(slots), WorkloadOf(r))
               PROVE  expiryTimer = 0
    BY DEF NoLostWakeup
  <2>1. Live(slots) # slots
    BY DEF WakeInv
  <2>2. PICK s \in slots : ~ (left[s] > 0)
    BY <2>1 DEF Live
  <2>3. left[s] \in Nat
    BY DEF TypeOK, Resolvable
  <2>4. expiryTimer \in Nat /\ expiryTimer <= left[s]
    BY DEF WakeInv
  <2>. QED  BY <2>2, <2>3, <2>4
<1>. QED  BY <1>1, WakeAlways, PTL

\* "Two interactive requests can always start immediately": between calls
\* nobody waits for a slot that is reserved for it.
THEOREM ReservedNeverWaits == ASSUME MaxStats = 0 PROVE Spec => []ReservedStartAtOnce
PROOF
<1>1. TypeOK /\ WakeInv /\ SlotsFit => ReservedStartAtOnce
  <2> SUFFICES ASSUME TypeOK, WakeInv, Fits(slots), running = Idle, NEW r \in waiters
               PROVE  Active(slots, WorkloadOf(r)) >= Reserved[WorkloadOf(r)]
    BY DEF ReservedStartAtOnce, SlotsFit
  <2>1. slots \in SUBSET Resolvable /\ WorkloadOf(r) \in Workload
    BY ResolvableWorkload DEF TypeOK
  <2>2. ~ (Active(slots, WorkloadOf(r)) < Reserved[WorkloadOf(r)])
    BY <2>1, ReservedHasRoom DEF WakeInv
  <2>3. Active(slots, WorkloadOf(r)) \in Nat /\ Reserved[WorkloadOf(r)] \in Nat
    BY <2>1, SlotsFinite, LimitsAssumption DEF ValidLimits
  <2>. QED  BY <2>2, <2>3
<1>. QED  BY <1>1, WakeAlways, SlotsAlwaysFit, PTL

\* No purge, timer, renewal or grant takes a slot away while its lease lives.
THEOREM LiveLeasesStay == Spec => LiveLeaseKept
PROOF
<1> DEFINE Kept == \A r \in slots : left[r] > 0 => r \in slots' \/ status'[r] = "released"
<1>1. TypeOK /\ [Next]_vars => Kept
  <2> SUFFICES ASSUME TypeOK, [Next]_vars, NEW r \in slots, left[r] > 0
               PROVE  r \in slots' \/ status'[r] = "released"
    OBVIOUS
  <2>0. r \in Live(slots) /\ r \in Request
    BY DEF Live, TypeOK, Resolvable
  <2>1. ASSUME NEW q \in Request, Release(q) PROVE r \in slots' \/ status'[r] = "released"
    BY <2>0, <2>1 DEF Release, EnterSchedule, Live, TypeOK
  <2>2. ASSUME slots' \in {slots, Live(slots)} PROVE r \in slots'
    BY <2>0, <2>2
  <2>3. \/ slots' \in {slots, Live(slots)} \/ \E q \in Request : Release(q) \/ GrantOne(q)
    BY DEF Next, vars, Acquire, AcquireRefused, KeepWaiting, QueueFull, Abort, WaitTimeout, Renew,
           Abandon, ScheduleEnds, ExpiryTimerFires, Stats, Tick, EnterSchedule
  <2>4. ASSUME NEW q \in Request, GrantOne(q) PROVE r \in slots'
    BY <2>4 DEF GrantOne
  <2>. QED  BY <2>1, <2>2, <2>3, <2>4
<1>. QED  BY <1>1, TypeCorrect, PTL DEF Spec, LiveLeaseKept
=============================================================================
