------------------------ MODULE PostgresLimiterProofs ------------------------
(***************************************************************************)
(* Proofs about PostgresLimiter, for all limits, requests, lifetimes and   *)
(* transaction lengths: the granted rows fit the limits, a lease is not    *)
(* given away while its client believes in it, arrival order, the bound of *)
(* the queue, cancellation that leaves nothing behind, and the slot pool.  *)
(***************************************************************************)
EXTENDS PostgresLimiter, ConcurrencyPolicyProofs

-----------------------------------------------------------------------------
\* The parts of the inductive invariant.

\* Only the holder of the row lock is inside allocate, and what it counted
\* there is still true.
LockInv ==
  \A t \in Request :
    /\ t \in running =>
         /\ lock = t /\ Open(t)
         /\ counted[t] = In("granted")
         /\ picked[t] \subseteq In("waiting")
         /\ Fits(counted[t] \cup picked[t])
    /\ t \notin running => picked[t] = {}

\* The life of the row of r: it is inserted once, and once granted it never
\* waits again.
RowInv(r) ==
  /\ (pc[r] = "new" \/ (pc[r] = "first" /\ r \notin running)) =>
       entry[r] = "none" /\ r \notin granted
  /\ entry[r] \in {"waiting", "expired"} => r \notin granted
  /\ (pc[r] \in {"firstDone", "pollDone"} /\ answer[r] = "granted") => r \in granted
  /\ pc[r] \in {"holding", "release"} => r \in granted
  /\ renew[r] # "none" =>
       r \in granted /\ pc[r] \in {"holding", "release", "over", "crashed"}

\* A call that ends has no row.
EndInv(r) ==
  /\ (pc[r] \in {"firstDone", "pollDone"} /\ answer[r] \in {"full", "expired"}) =>
       entry[r] = "none"
  /\ (pc[r] = "firstDone" => answer[r] \in {"granted", "full", "waiting"})
  /\ (pc[r] \in {"release", "cancel"} /\ r \in running) => entry[r] = "none"
  /\ (pc[r] = "over" /\ r \notin MayFail) => entry[r] = "none"

\* The client's measure of its lease stays behind the database's, from the
\* grant over the answer to the renewals.
LeaseInv(r) ==
  /\ -MaxAge <= left[r] /\ left[r] <= LeaseTtl
  /\ (pc[r] = "first" /\ r \in running) => entry[r] # "granted"
  /\ (pc[r] \in {"firstDone", "pollDone"} /\ answer[r] = "granted" /\ age[r] < ttl[r]) =>
       entry[r] = "granted" /\ ttl[r] <= left[r] + age[r]
  /\ (pc[r] = "holding" /\ r \notin clamped /\ localLeft[r] > 0) =>
       entry[r] = "granted" /\ localLeft[r] <= left[r]
  /\ (renew[r] = "sent" /\ entry[r] = "granted") => left[r] + renewAge[r] <= LeaseTtl
  /\ (renew[r] = "extended" /\ pc[r] = "holding" /\ renewAge[r] < LeaseTtl) =>
       entry[r] = "granted" /\ LeaseTtl <= left[r] + renewAge[r]
  /\ Open(r) => age[r] <= MaxAge
  /\ ttl[r] <= AgeCap
  /\ renew[r] = "sent" => renewAge[r] <= MaxAge

RequestInv(r) == RowInv(r) /\ EndInv(r) /\ LeaseInv(r)

PostgresInv == TypeOK /\ LockInv /\ SlotsFit /\ \A r \in Request : RequestInv(r)

-----------------------------------------------------------------------------
\* What arrival order needs besides itself.
OrderInv ==
  /\ \A r \in Request : seqOf[r] <= seq
  /\ \A r \in In("waiting"), q \in Request : seqOf[q] = seqOf[r] => q = r
  /\ \A t \in running : \A q \in picked[t], r \in In("waiting") \ picked[t] :
       WorkloadOf(q) = WorkloadOf(r) => seqOf[q] < seqOf[r]
  /\ ArrivalOrder

\* The first transactions inside allocate may be over the bound, by their row.
QueueInv ==
  MaxQueued # Undefined =>
    Cardinality(In("waiting") \ {t \in running : pc[t] = "first"}) <= MaxQueued

-----------------------------------------------------------------------------
USE PostgresAssumption, LimitsAssumption
    DEF rowVars, lockVars, callVars, clientVars, renewVars

\* What the purge leaves: it takes only expired leases, and never makes a row
\* waiting or granted.
LEMMA PurgedRows ==
  ASSUME NEW E \in [Request -> Entry], NEW H, NEW W, NEW a,
         left \in [Request -> Int], a \in Nat
  PROVE  /\ Purged(E, H, W, a) \in [Request -> Entry]
         /\ \A q \in Request :
              /\ Purged(E, H, W, a)[q] = "granted" <=> E[q] = "granted" /\ left[q] + a > 0
              /\ Purged(E, H, W, a)[q] = "waiting" => E[q] = "waiting"
              /\ Purged(E, H, W, a)[q] = "expired" => E[q] \in {"waiting", "expired"}
              /\ Purged(E, H, W, a)[q] # "none" => E[q] # "none"
BY DEF Purged, Entry

\* What the UPDATE of allocate does to the rows.
LEMMA AllocatedRows ==
  ASSUME TypeOK, NEW t \in Request
  PROVE  /\ Allocated(t) \in [Request -> Entry]
         /\ \A q \in Request :
              /\ Allocated(t)[q] = "granted" <=>
                   entry[q] = "granted" \/ (q \in picked[t] /\ entry[q] = "waiting")
              /\ Allocated(t)[q] = "waiting" <=> entry[q] = "waiting" /\ q \notin picked[t]
              /\ Allocated(t)[q] \in {entry[q], "granted"}
              /\ Allocated(t)[q] = "none" <=> entry[q] = "none"
BY DEF Allocated, TypeOK, Entry

\* A transaction that counts has purged: nobody's lease but its own or an
\* expired one is gone, and no row but that of a first transaction is new.
LEMMA FirstSectionRows ==
  ASSUME TypeOK, NEW r \in Request, FirstSection(r)
  PROVE  /\ entry' \in [Request -> Entry] /\ counted' \in [Request -> SUBSET Request]
         /\ running' \subseteq Request /\ In("granted")' \subseteq granted'
         /\ counted'[r] = In("granted")'
         /\ \A q \in Request : entry'[q] # "none" => q \in Resolvable
         /\ \A q \in Request :
              /\ entry'[q] = "granted" <=> q # r /\ entry[q] = "granted" /\ left[q] + age[r] > 0
              /\ entry'[q] = "waiting" => entry[q] = "waiting" \/ q = r
              /\ entry'[q] = "expired" => entry[q] \in {"waiting", "expired"} \/ q = r
              /\ entry'[q] # "none" => entry[q] # "none" \/ q = r
<1> DEFINE H == [heart EXCEPT ![r] = QueueTtl - age[r]]
           W == [wait EXCEPT ![r] = WaitLimit(r) - age[r]]
           E == [entry EXCEPT ![r] = "waiting"]
           P == Purged(E, H, W, age[r])
<1>1. r \in Resolvable /\ age[r] \in Nat /\ left \in [Request -> Int]
  BY DEF FirstSection, TypeOK, AgeCap
<1>2. /\ E \in [Request -> Entry] /\ E[r] = "waiting"
      /\ \A q \in Request : q # r => E[q] = entry[q]
  BY DEF TypeOK, Entry
<1>3. /\ P \in [Request -> Entry]
      /\ \A q \in Request :
           /\ P[q] = "granted" <=> E[q] = "granted" /\ left[q] + age[r] > 0
           /\ P[q] = "waiting" => E[q] = "waiting"
           /\ P[q] = "expired" => E[q] \in {"waiting", "expired"}
           /\ P[q] # "none" => E[q] # "none"
  <2> HIDE DEF E, H, W
  <2> QED
    BY <1>1, <1>2, PurgedRows
<1>4. /\ entry' = P /\ running' = running \cup {r} /\ granted' = granted
      /\ counted' = [counted EXCEPT ![r] = In("granted")']
  BY DEF FirstSection, Count, In
<1> HIDE DEF P, E
<1>5. counted' \in [Request -> SUBSET Request] /\ counted'[r] = In("granted")'
  <2>1. In("granted")' \in SUBSET Request
    BY DEF In
  <2> QED
    BY <1>4, <2>1 DEF TypeOK
<1> QED
  BY <1>1, <1>2, <1>3, <1>4, <1>5 DEF TypeOK, In

LEMMA OtherSectionRows ==
  ASSUME TypeOK, NEW r \in Request,
         \/ PollSection(r) \/ ReleaseSection(r)
         \/ CancelSection(r) /\ entry[r] = "granted"
  PROVE  /\ entry' \in [Request -> Entry] /\ counted' \in [Request -> SUBSET Request]
         /\ running' \subseteq Request /\ In("granted")' \subseteq granted'
         /\ counted'[r] = In("granted")'
         /\ running' = running \cup {r} /\ granted' = granted
         /\ counted' = [counted EXCEPT ![r] = In("granted")']
         /\ \A q \in Request : entry'[q] # "none" => q \in Resolvable
         /\ \A q \in Request :
              /\ entry'[q] = "granted" =>
                   entry[q] = "granted" /\ left[q] + age[r] > 0 /\ (q = r => pc[r] = "poll")
              /\ (q # r \/ pc[r] = "poll") /\ entry[q] = "granted" /\ left[q] + age[r] > 0 =>
                   entry'[q] = "granted"
              /\ entry'[q] = "waiting" => entry[q] = "waiting"
              /\ entry'[q] = "expired" => entry[q] \in {"waiting", "expired"}
              /\ entry'[q] # "none" => entry[q] # "none"
<1> DEFINE E == IF pc[r] = "poll" THEN entry
                ELSE [entry EXCEPT ![r] = IF @ = "granted" THEN "none" ELSE @]
           P == Purged(E, heart, wait, age[r])
<1>1. age[r] \in Nat /\ left \in [Request -> Int] /\ pc[r] \in {"poll", "release", "cancel"}
  BY DEF PollSection, ReleaseSection, CancelSection, TypeOK, AgeCap
<1>2. /\ E \in [Request -> Entry]
      /\ \A q \in Request :
           /\ E[q] # entry[q] => q = r /\ entry[q] = "granted" /\ E[q] = "none"
           /\ (pc[r] = "poll" \/ q # r) => E[q] = entry[q]
           /\ pc[r] # "poll" => E[r] # "granted"
  BY <1>1 DEF TypeOK, Entry
<1>3. /\ P \in [Request -> Entry]
      /\ \A q \in Request :
           /\ P[q] = "granted" <=> E[q] = "granted" /\ left[q] + age[r] > 0
           /\ P[q] = "waiting" => E[q] = "waiting"
           /\ P[q] = "expired" => E[q] \in {"waiting", "expired"}
           /\ P[q] # "none" => E[q] # "none"
  <2> HIDE DEF E
  <2> QED
    BY <1>1, <1>2, PurgedRows
<1>4. Count(r, P) /\ granted' = granted
  <2>1. CASE PollSection(r)
    BY <2>1 DEF PollSection
  <2>2. CASE ReleaseSection(r)
    BY <2>2 DEF ReleaseSection
  <2>3. CASE CancelSection(r) /\ entry[r] = "granted"
    <3>1. E = [entry EXCEPT ![r] = "none"]
      BY <2>3 DEF CancelSection
    <3>2. Count(r, Purged([entry EXCEPT ![r] = "none"], heart, wait, age[r])) /\ granted' = granted
      BY <2>3 DEF CancelSection
    <3> HIDE DEF E
    <3> QED
      BY <3>1, <3>2
  <2> QED
    BY <2>1, <2>2, <2>3
<1> HIDE DEF P, E
<1>5. /\ entry' = P /\ running' = running \cup {r}
      /\ counted' = [counted EXCEPT ![r] = In("granted")']
  BY <1>4 DEF Count, In
<1>6. counted' \in [Request -> SUBSET Request] /\ counted'[r] = In("granted")'
  <2>1. In("granted")' \in SUBSET Request
    BY DEF In
  <2> QED
    BY <1>5, <2>1 DEF TypeOK
<1> QED
  BY <1>1, <1>2, <1>3, <1>4, <1>5, <1>6 DEF TypeOK, In

\* Every step keeps every variable in its type.
LEMMA TypeStep ==
  ASSUME TypeOK, [Next]_vars
  PROVE  TypeOK'
<1> USE DEF TypeOK, Entry, Pc, Answer, Send, End, Unlock, Open, AgeCap, In
<1>w. \A r \in Resolvable : WaitLimit(r) \in Int
  <2> SUFFICES ASSUME NEW r \in Resolvable PROVE WaitLimit(r) \in Int
    OBVIOUS
  <2>1. WorkloadOf(r) \in Workload /\ r \in Request
    BY ResolvableWorkload
  <2>2. TimeoutMs[r] \in Int /\ MaxWaitMs[WorkloadOf(r)] \in Int
    BY <2>1 DEF Off
  <2> QED
    BY <2>2 DEF WaitLimit
<1>1. ASSUME NEW r \in Request, AcquireBegin(r) PROVE TypeOK'
  BY <1>1 DEF AcquireBegin
<1>2. ASSUME NEW r \in Request, TakeLock(r) PROVE TypeOK'
  BY <1>2 DEF TakeLock
<1>3. ASSUME NEW r \in Request, FirstSection(r) PROVE TypeOK'
  <2>1. /\ entry' \in [Request -> Entry] /\ counted' \in [Request -> SUBSET Request]
        /\ running' \subseteq Request /\ In("granted")' \subseteq granted'
        /\ \A q \in Request : entry'[q] # "none" => q \in Resolvable
    BY <1>3, FirstSectionRows DEF Open
  <2>2. heart' \in [Request -> Int] /\ wait' \in [Request -> Int]
    BY <1>3, <1>w DEF FirstSection
  <2>3. seq' \in Nat /\ seqOf' \in [Request -> Nat]
    BY <1>3 DEF FirstSection
  <2>4. UNCHANGED <<left, granted, clientVars, renewVars, lock, picked, callVars>>
    BY <1>3 DEF FirstSection, Count
  <2> QED
    BY <2>1, <2>2, <2>3, <2>4
<1>4. ASSUME NEW r \in Request, PollSection(r) PROVE TypeOK'
  <2>1. /\ entry' \in [Request -> Entry] /\ counted' \in [Request -> SUBSET Request]
        /\ running' \subseteq Request /\ In("granted")' \subseteq granted'
        /\ \A q \in Request : entry'[q] # "none" => q \in Resolvable
    BY <1>4, OtherSectionRows
  <2> QED
    BY <1>4, <2>1 DEF PollSection, Count
<1>5. ASSUME NEW r \in Request, ReleaseSection(r) \/ CancelSection(r) PROVE TypeOK'
  <2>1. CASE CancelSection(r) /\ entry[r] # "granted"
    BY <2>1 DEF CancelSection
  <2>2. CASE ReleaseSection(r) \/ (CancelSection(r) /\ entry[r] = "granted")
    <3>1. /\ entry' \in [Request -> Entry] /\ counted' \in [Request -> SUBSET Request]
          /\ running' \subseteq Request /\ In("granted")' \subseteq granted'
          /\ \A q \in Request : entry'[q] # "none" => q \in Resolvable
      BY <2>2, OtherSectionRows
    <3> QED
      BY <2>2, <3>1 DEF ReleaseSection, CancelSection, Count
  <2> QED
    BY <1>5, <2>1, <2>2
<1>6. ASSUME NEW t \in Request, NEW q \in Request, GrantOne(t, q) PROVE TypeOK'
  BY <1>6 DEF GrantOne
<1>7. ASSUME NEW r \in Request, FirstCommit(r) PROVE TypeOK'
  BY <1>7, AllocatedRows DEF FirstCommit, Allocate, Entry
<1>8. ASSUME NEW r \in Request, PollCommit(r) PROVE TypeOK'
  <2>1. /\ Allocated(r) \in [Request -> Entry]
        /\ \A q \in Request : Allocated(r)[q] # "none" => entry[q] # "none"
        /\ {q \in Request : Allocated(r)[q] = "granted"} \subseteq granted'
    BY <1>8, AllocatedRows DEF PollCommit, Allocate
  <2>2. left' \in [Request -> Int] /\ granted' \subseteq Resolvable
    BY <1>8 DEF PollCommit, Allocate
  <2>3. /\ lock' \in Request \cup {Idle} /\ running' \subseteq Request
        /\ counted' \in [Request -> SUBSET Request] /\ picked' \in [Request -> SUBSET Request]
    BY <1>8 DEF PollCommit, Allocate
  <2>4. pc[r] = "poll" /\ PollReads(r, Allocated(r), left')
    BY <1>8 DEF PollCommit
  <2>5. entry' \in [Request -> Entry] /\ In("granted")' \subseteq granted'
        /\ \A q \in Request : entry'[q] # "none" => q \in Resolvable
    BY <2>1, <2>4 DEF PollReads
  <2>6. pc' \in [Request -> Pc] /\ answer' \in [Request -> Answer]
        /\ ttl' \in [Request -> Int] /\ heart' \in [Request -> Int]
    BY <2>1, <2>2, <2>4 DEF PollReads
  <2> QED
    BY <2>2, <2>3, <2>4, <2>5, <2>6 DEF PollReads
<1>9. ASSUME NEW r \in Request, PollSkips(r) PROVE TypeOK'
  BY <1>9 DEF PollSkips, PollReads, Entry
<1>10. ASSUME NEW r \in Request, LastCommit(r) PROVE TypeOK'
  BY <1>10, AllocatedRows DEF LastCommit, Allocate, Entry
<1>11. ASSUME NEW r \in Request, FirstReturns(r) PROVE TypeOK'
  <2>1. CASE GetLease(r)
    BY <1>11, <2>1 DEF FirstReturns, GetLease
  <2>2. CASE \E step \in Pc \ {"first"} : Turn(r, step)
    BY <1>11, <2>2 DEF FirstReturns, Turn
  <2> QED
    BY <1>11, <2>1, <2>2 DEF FirstReturns
<1>12. ASSUME NEW r \in Request, PollBegin(r) PROVE TypeOK'
  BY <1>12 DEF PollBegin
<1>13. ASSUME NEW r \in Request, PollReturns(r) PROVE TypeOK'
  <2>1. CASE GetLease(r)
    BY <1>13, <2>1 DEF PollReturns, GetLease
  <2>2. CASE \E step \in Pc \ {"first"} : Turn(r, step)
    BY <1>13, <2>2 DEF PollReturns, Turn
  <2> QED
    BY <1>13, <2>1, <2>2 DEF PollReturns
<1>14. ASSUME NEW r \in Request, DatabaseFails(r) PROVE TypeOK'
  <2>1. PICK step \in {"cancel", "over"} : Send(r, step)
    BY <1>14 DEF DatabaseFails
  <2>2. r \in Resolvable
    BY <1>14 DEF DatabaseFails
  <2>3. lock' \in Request \cup {Idle}
    BY <1>14 DEF DatabaseFails
  <2> QED
    BY <1>14, <2>1, <2>2, <2>3 DEF DatabaseFails
<1>15. ASSUME NEW r \in Request, Crash(r) PROVE TypeOK'
  BY <1>15 DEF Crash
<1>16. ASSUME NEW r \in Request, Abort(r) PROVE TypeOK'
  BY <1>16 DEF Abort
<1>17. ASSUME NEW r \in Request, ReleaseBegin(r) PROVE TypeOK'
  BY <1>17 DEF ReleaseBegin
<1>18. ASSUME NEW r \in Request, RenewBegin(r) PROVE TypeOK'
  BY <1>18 DEF RenewBegin
<1>19. ASSUME NEW r \in Request, RenewCommit(r) PROVE TypeOK'
  BY <1>19 DEF RenewCommit
<1>20. ASSUME NEW r \in Request, RenewReturns(r) PROVE TypeOK'
  BY <1>20 DEF RenewReturns
<1>21. CASE Tick
  <2>1. \A x, y \in Int : CountDown(x, y) \in Int
    BY DEF CountDown
  <2>2. \A x \in Nat : CountDown(x, 0) \in Nat
    BY DEF CountDown
  <2>3. \A x \in 0..AgeCap : CountUp(x, AgeCap) \in 0..AgeCap
    BY DEF CountUp
  <2>4. /\ left' \in [Request -> Int] /\ heart' \in [Request -> Int]
        /\ wait' \in [Request -> Int] /\ localLeft' \in [Request -> Nat]
    <3>1. \A r \in Request :
            /\ CountDown(left[r], -MaxAge) \in Int /\ CountDown(heart[r], -MaxAge) \in Int
            /\ CountDown(wait[r], -MaxAge) \in Int /\ CountDown(localLeft[r], 0) \in Nat
      <4>1. /\ left \in [Request -> Int] /\ heart \in [Request -> Int]
            /\ wait \in [Request -> Int] /\ localLeft \in [Request -> Nat] /\ -MaxAge \in Int
        OBVIOUS
      <4> HIDE DEF TypeOK
      <4> QED
        BY <2>1, <2>2, <4>1
    <3>2. /\ left' = [r \in Request |-> CountDown(left[r], -MaxAge)]
          /\ heart' = [r \in Request |-> CountDown(heart[r], -MaxAge)]
          /\ wait' = [r \in Request |-> CountDown(wait[r], -MaxAge)]
          /\ localLeft' = [r \in Request |-> CountDown(localLeft[r], 0)]
      BY <1>21 DEF Tick
    <3> QED
      BY <3>1, <3>2
  <2>5. age' \in [Request -> 0..AgeCap]
    <3> HIDE DEF AgeCap
    <3> QED
      BY <1>21, <2>3 DEF Tick
  <2>6. renewAge' \in [Request -> 0..AgeCap]
    <3> HIDE DEF AgeCap
    <3> QED
      BY <1>21, <2>3 DEF Tick
  <2>7. UNCHANGED <<entry, seq, seqOf, granted, lockVars, pc, answer, ttl, aborted, clamped,
                    renew>>
    BY <1>21 DEF Tick
  <2> HIDE DEF AgeCap
  <2> QED
    BY <2>4, <2>5, <2>6, <2>7
<1>22. CASE UNCHANGED vars
  BY <1>22 DEF vars
<1> QED
  BY <1>1, <1>2, <1>3, <1>4, <1>5, <1>6, <1>7, <1>8, <1>9, <1>10, <1>11, <1>12,
     <1>13, <1>14, <1>15, <1>16, <1>17, <1>18, <1>19, <1>20, <1>21, <1>22 DEF Next

-----------------------------------------------------------------------------
\* The row lock: a transaction inside allocate is alone there.
LEMMA Alone ==
  ASSUME TypeOK, LockInv, NEW t \in Request
  PROVE  /\ t \in running => running = {t}
         /\ (lock = t /\ t \notin running) => running = {}
<1>1. \A u \in running : lock = u
  BY DEF TypeOK, LockInv
<1> QED
  BY <1>1

\* What a transaction inside allocate has counted and picked.
LEMMA Inside ==
  ASSUME TypeOK, LockInv, NEW t \in running
  PROVE  /\ t \in Request /\ lock = t /\ Open(t)
         /\ counted[t] = In("granted") /\ picked[t] \subseteq In("waiting")
         /\ Fits(counted[t] \cup picked[t])
         /\ counted[t] \cup picked[t] \in SUBSET Resolvable
<1>1. t \in Request
  BY DEF TypeOK
<1>2. /\ lock = t /\ Open(t)
      /\ counted[t] = In("granted") /\ picked[t] \subseteq In("waiting")
      /\ Fits(counted[t] \cup picked[t])
  BY <1>1 DEF LockInv
<1>3. In("granted") \cup In("waiting") \subseteq Resolvable
  BY DEF TypeOK, In
<1> QED
  BY <1>1, <1>2, <1>3

\* Granted rows are requests of a known workload.
LEMMA GrantedResolvable == TypeOK => In("granted") \in SUBSET Resolvable
BY DEF TypeOK, In

\* The steps of Next in four groups: those outside allocate, the beginning of
\* a section, its grants, and its end.
Quiet ==
  \/ \E r \in Request :
       \/ AcquireBegin(r) \/ TakeLock(r) \/ PollSkips(r) \/ FirstReturns(r) \/ PollBegin(r)
       \/ PollReturns(r) \/ DatabaseFails(r) \/ Crash(r) \/ Abort(r) \/ ReleaseBegin(r)
       \/ RenewBegin(r) \/ RenewCommit(r) \/ RenewReturns(r)
       \/ CancelSection(r) /\ entry[r] # "granted"
  \/ Tick

OtherSection(r) ==
  \/ PollSection(r) \/ ReleaseSection(r)
  \/ CancelSection(r) /\ entry[r] = "granted"

Commit(r) == FirstCommit(r) \/ PollCommit(r) \/ LastCommit(r)

LEMMA NextParts ==
  ASSUME [Next]_vars
  PROVE  \/ Quiet
         \/ \E r \in Request : FirstSection(r) \/ OtherSection(r) \/ Commit(r)
         \/ \E t, q \in Request : GrantOne(t, q)
         \/ UNCHANGED vars
BY DEF Next, Quiet, OtherSection, Commit

\* Outside allocate rows are only taken away, and no granted one.
LEMMA QuietRows ==
  ASSUME TypeOK, LockInv, Quiet
  PROVE  /\ running = {} /\ running' = {} /\ picked' = picked
         /\ In("granted")' = In("granted") /\ In("waiting")' \subseteq In("waiting")
         /\ UNCHANGED <<granted, seq, seqOf>>
<1>1. ASSUME NEW r \in Request, CancelSection(r), entry[r] # "granted"
      PROVE  /\ running = {} /\ running' = {} /\ picked' = picked
             /\ \A q \in Request : /\ entry'[q] = "granted" <=> entry[q] = "granted"
                                   /\ entry'[q] = "waiting" => entry[q] = "waiting"
             /\ UNCHANGED <<granted, seq, seqOf>>
  BY <1>1, Alone DEF CancelSection, TypeOK
<1>2. ASSUME NEW r \in Request, PollSkips(r)
      PROVE  /\ running = {} /\ running' = {} /\ picked' = picked
             /\ \A q \in Request : /\ entry'[q] = "granted" <=> entry[q] = "granted"
                                   /\ entry'[q] = "waiting" => entry[q] = "waiting"
             /\ UNCHANGED <<granted, seq, seqOf>>
  BY <1>2 DEF PollSkips, PollReads, TypeOK
<1>3. ASSUME \/ \E r \in Request :
                  \/ AcquireBegin(r) \/ TakeLock(r) \/ FirstReturns(r) \/ PollBegin(r)
                  \/ PollReturns(r) \/ DatabaseFails(r) \/ Crash(r) \/ Abort(r)
                  \/ ReleaseBegin(r) \/ RenewBegin(r) \/ RenewCommit(r) \/ RenewReturns(r)
             \/ Tick
      PROVE  /\ running = {} /\ running' = {} /\ picked' = picked /\ entry' = entry
             /\ UNCHANGED <<granted, seq, seqOf>>
  BY <1>3 DEF AcquireBegin, TakeLock, FirstReturns, PollBegin, PollReturns,
     DatabaseFails, Crash, Abort, ReleaseBegin, RenewBegin, RenewCommit, RenewReturns,
     Tick
<1> QED
  BY <1>1, <1>2, <1>3 DEF Quiet, In

\* A section grants what it has picked when it ends, and nothing else.
LEMMA CommitRows ==
  ASSUME TypeOK, LockInv, NEW r \in Request, Commit(r)
  PROVE  /\ running = {r} /\ running' = {}
         /\ \A t \in Request : picked'[t] = {}
         /\ In("granted")' = In("granted") \cup picked[r]
         /\ In("waiting")' \subseteq In("waiting") \ picked[r]
         /\ granted' = granted \cup picked[r]
         /\ UNCHANGED <<seq, seqOf>>
<1>1. Allocate(r) /\ UNCHANGED <<seq, seqOf>>
  BY DEF Commit, FirstCommit, PollCommit, PollReads, LastCommit
<1>2. \A q \in Request : /\ entry'[q] = "granted" <=> Allocated(r)[q] = "granted"
                         /\ entry'[q] = "waiting" => Allocated(r)[q] = "waiting"
  <2>1. CASE FirstCommit(r)
    BY <2>1, AllocatedRows DEF FirstCommit
  <2>2. CASE PollCommit(r)
    BY <2>2, AllocatedRows DEF PollCommit, PollReads
  <2>3. CASE LastCommit(r)
    BY <2>3 DEF LastCommit
  <2> QED
    BY <2>1, <2>2, <2>3 DEF Commit
<1>3. r \in running /\ running = {r} /\ running' = {}
  BY <1>1, Alone DEF Allocate
<1>4. picked[r] \subseteq In("waiting")
  BY <1>3, Inside
<1>5. \A t \in Request : picked'[t] = {}
  <2>1. picked' = [picked EXCEPT ![r] = {}] /\ picked \in [Request -> SUBSET Request]
    BY <1>1 DEF Allocate, TypeOK
  <2>2. \A t \in Request \ {r} : picked[t] = {}
    BY <1>3 DEF LockInv
  <2> QED
    BY <2>1, <2>2
<1>6. granted' = granted \cup picked[r]
  <2>1. granted' = granted \cup {q \in picked[r] : entry[q] = "waiting"}
    BY <1>1 DEF Allocate
  <2> QED
    BY <1>4, <2>1 DEF In
<1>7. In("granted")' = In("granted") \cup picked[r]
  BY <1>2, <1>4, AllocatedRows DEF In
<1>8. In("waiting")' \subseteq In("waiting") \ picked[r]
  BY <1>2, AllocatedRows DEF In
<1> QED
  BY <1>1, <1>3, <1>5, <1>6, <1>7, <1>8

\* A section that begins finds no other and leaves fewer granted rows.
LEMMA SectionStep ==
  ASSUME TypeOK, TypeOK', LockInv, SlotsFit, NEW r \in Request,
         lock = r, lock' = lock, r \notin running, running' = running \cup {r},
         Open(r), pc' = pc, picked' = picked, counted'[r] = In("granted")',
         In("granted")' \subseteq In("granted")
  PROVE  LockInv' /\ SlotsFit'
<1>1. running = {} /\ \A t \in Request : picked'[t] = {}
  BY Alone DEF LockInv
<1>2. SlotsFit'
  BY GrantedResolvable, FewerSlotsFit DEF SlotsFit
<1>3. counted'[r] \cup picked'[r] = In("granted")'
  BY <1>1
<1>4. Fits(counted'[r] \cup picked'[r])
  BY <1>2, <1>3 DEF SlotsFit
<1>5. Open(r)'
  BY DEF Open
<1> QED
  BY <1>1, <1>2, <1>3, <1>4, <1>5 DEF LockInv

\* Every step keeps the lock exclusive and the granted rows within the limits.
LEMMA LockStep ==
  ASSUME TypeOK, TypeOK', LockInv, SlotsFit, [Next]_vars
  PROVE  LockInv' /\ SlotsFit'
<1>1. ASSUME NEW r \in Request, FirstSection(r) PROVE LockInv' /\ SlotsFit'
  <2>1. /\ lock = r /\ lock' = lock /\ r \notin running /\ running' = running \cup {r}
        /\ Open(r) /\ pc' = pc /\ picked' = picked
    BY <1>1 DEF FirstSection, Count, Open, callVars
  <2>2. counted'[r] = In("granted")' /\ In("granted")' \subseteq In("granted")
    BY <1>1, FirstSectionRows DEF In
  <2> QED
    BY <2>1, <2>2, SectionStep
<1>2. ASSUME NEW r \in Request, OtherSection(r) PROVE LockInv' /\ SlotsFit'
  <2>1. /\ lock = r /\ lock' = lock /\ r \notin running /\ running' = running \cup {r}
        /\ Open(r) /\ pc' = pc /\ picked' = picked
    BY <1>2 DEF OtherSection, PollSection, ReleaseSection, CancelSection, Count, Open,
       callVars
  <2>2. counted'[r] = In("granted")' /\ In("granted")' \subseteq In("granted")
    BY <1>2, OtherSectionRows DEF OtherSection, In
  <2> QED
    BY <2>1, <2>2, SectionStep
<1>3. ASSUME NEW t \in Request, NEW q \in Request, GrantOne(t, q)
      PROVE  LockInv' /\ SlotsFit'
  <2> DEFINE S == counted[t] \cup picked[t]
  <2>1. /\ t \in running /\ running' = running /\ counted' = counted
        /\ picked' = [picked EXCEPT ![t] = picked[t] \cup {q}]
        /\ entry' = entry /\ lock' = lock /\ pc' = pc
    BY <1>3 DEF GrantOne
  <2>2. q \in In("waiting") /\ q \notin picked[t] /\ HasRoom(S, WorkloadOf(q))
    BY <1>3 DEF GrantOne, Picks, IsBest, IsCandidate
  <2>3. S \in SUBSET Resolvable /\ q \in Resolvable /\ q \notin S /\ Fits(S)
    <3>1. /\ counted[t] = In("granted") /\ picked[t] \subseteq In("waiting")
          /\ Fits(S) /\ S \in SUBSET Resolvable
      BY <2>1, Inside
    <3>2. q \notin In("granted") /\ q \in Resolvable
      BY <2>2 DEF In, TypeOK
    <3> QED
      BY <2>2, <3>1, <3>2
  <2>4. Fits(S \cup {q})
    BY <2>2, <2>3, GrantFits
  <2>5. counted'[t] \cup picked'[t] = S \cup {q} /\ picked'[t] \subseteq In("waiting")
    <3>1. picked'[t] = picked[t] \cup {q}
      BY <2>1 DEF TypeOK
    <3>2. picked[t] \subseteq In("waiting")
      BY <2>1, Inside
    <3> QED
      BY <2>1, <2>2, <3>1, <3>2
  <2>6. Fits(counted'[t] \cup picked'[t])
    BY <2>4, <2>5
  <2>7. \A u \in Request \ {t} : picked'[u] = picked[u] /\ u \notin running
    BY <2>1, Alone DEF TypeOK
  <2>8. In("waiting")' = In("waiting") /\ In("granted")' = In("granted")
    BY <2>1 DEF In
  <2>9. LockInv'
    BY <2>1, <2>5, <2>6, <2>7, <2>8 DEF LockInv, Open
  <2> QED
    BY <2>8, <2>9 DEF SlotsFit
<1>4. ASSUME NEW r \in Request, Commit(r) PROVE LockInv' /\ SlotsFit'
  <2>1. /\ running = {r} /\ running' = {} /\ \A t \in Request : picked'[t] = {}
        /\ In("granted")' = In("granted") \cup picked[r]
    BY <1>4, CommitRows
  <2>2. counted[r] = In("granted") /\ Fits(counted[r] \cup picked[r])
    BY <2>1, Inside
  <2> QED
    BY <2>1, <2>2 DEF LockInv, SlotsFit
<1>5. CASE Quiet
  BY <1>5, QuietRows DEF LockInv, SlotsFit
<1>6. CASE UNCHANGED vars
  BY <1>6 DEF vars, LockInv, SlotsFit, In, Open
<1> QED
  BY <1>1, <1>2, <1>3, <1>4, <1>5, <1>6, NextParts

-----------------------------------------------------------------------------
\* Every step keeps the invariant of every request.
LEMMA RequestStep ==
  ASSUME TypeOK, TypeOK', LockInv, \A r \in Request : RequestInv(r), [Next]_vars,
         NEW q \in Request
  PROVE  RequestInv(q)'
<1> USE DEF RequestInv, RowInv, EndInv, LeaseInv, TypeOK, Send, End, Open, AgeCap, In
<1>1. ASSUME NEW r \in Request, AcquireBegin(r) PROVE RequestInv(q)'
  BY <1>1 DEF AcquireBegin
<1>2. ASSUME NEW r \in Request, TakeLock(r) PROVE RequestInv(q)'
  BY <1>2 DEF TakeLock
<1>3. ASSUME NEW r \in Request, FirstReturns(r) PROVE RequestInv(q)'
  BY <1>3 DEF FirstReturns, Turn, GetLease
<1>4. ASSUME NEW r \in Request, PollBegin(r) PROVE RequestInv(q)'
  BY <1>4 DEF PollBegin
<1>5. ASSUME NEW r \in Request, PollReturns(r) PROVE RequestInv(q)'
  BY <1>5 DEF PollReturns, Turn, GetLease
<1>6. ASSUME NEW r \in Request, DatabaseFails(r) PROVE RequestInv(q)'
  BY <1>6 DEF DatabaseFails
<1>7. ASSUME NEW r \in Request, Crash(r) PROVE RequestInv(q)'
  BY <1>7 DEF Crash
<1>8. ASSUME NEW r \in Request, Abort(r) PROVE RequestInv(q)'
  BY <1>8 DEF Abort
<1>9. ASSUME NEW r \in Request, ReleaseBegin(r) PROVE RequestInv(q)'
  BY <1>9 DEF ReleaseBegin
<1>10. ASSUME NEW r \in Request, RenewBegin(r) PROVE RequestInv(q)'
  BY <1>10 DEF RenewBegin
<1>11. ASSUME NEW r \in Request, RenewCommit(r) PROVE RequestInv(q)'
  BY <1>11 DEF RenewCommit
<1>12. ASSUME NEW r \in Request, RenewReturns(r) PROVE RequestInv(q)'
  BY <1>12 DEF RenewReturns
<1>13. ASSUME NEW t \in Request, NEW p \in Request, GrantOne(t, p) PROVE RequestInv(q)'
  BY <1>13 DEF GrantOne
<1>14. CASE Tick
  BY <1>14 DEF Tick, CountDown, CountUp
<1>15. CASE UNCHANGED vars
  BY <1>15 DEF vars
<1>16. ASSUME NEW r \in Request, FirstSection(r) PROVE RequestInv(q)'
  <2>1. /\ entry'[q] = "granted" <=> q # r /\ entry[q] = "granted" /\ left[q] + age[r] > 0
        /\ entry'[q] = "waiting" => entry[q] = "waiting" \/ q = r
        /\ entry'[q] = "expired" => entry[q] \in {"waiting", "expired"} \/ q = r
        /\ entry'[q] # "none" => entry[q] # "none" \/ q = r
    BY <1>16, FirstSectionRows
  <2>2. /\ pc[r] = "first" /\ r \notin running /\ running' = running \cup {r}
        /\ UNCHANGED <<left, granted, clientVars, renewVars, callVars>>
    BY <1>16 DEF FirstSection, Count
  <2> QED
    BY <2>1, <2>2
<1>17. ASSUME NEW r \in Request,
              \/ PollSection(r) \/ ReleaseSection(r)
              \/ CancelSection(r) /\ entry[r] = "granted"
       PROVE  RequestInv(q)'
  <2>1. /\ entry'[q] = "granted" =>
             entry[q] = "granted" /\ left[q] + age[r] > 0 /\ (q = r => pc[r] = "poll")
        /\ (q # r \/ pc[r] = "poll") /\ entry[q] = "granted" /\ left[q] + age[r] > 0 =>
             entry'[q] = "granted"
        /\ entry'[q] = "waiting" => entry[q] = "waiting"
        /\ entry'[q] = "expired" => entry[q] \in {"waiting", "expired"}
        /\ entry'[q] # "none" => entry[q] # "none"
    BY <1>17, OtherSectionRows
  <2>2. running' = running \cup {r} /\ granted' = granted
    BY <1>17, OtherSectionRows
  <2>3. /\ pc[r] \in {"poll", "release", "cancel"} /\ r \notin running
        /\ UNCHANGED <<left, clientVars, renewVars, callVars>>
    BY <1>17 DEF PollSection, ReleaseSection, CancelSection, Count
  <2>4. pc[r] \in {"release", "cancel"} /\ q = r => entry'[q] = "none"
    <3>1. pc[r] \in {"release", "cancel"} => r \in granted
      BY <1>17 DEF PollSection, ReleaseSection, CancelSection
    <3> QED
      BY <2>1, <3>1 DEF Entry
  <2> QED
    BY <2>1, <2>2, <2>3, <2>4
<1>18. ASSUME NEW r \in Request, PollSkips(r) PROVE RequestInv(q)'
  <2>1. /\ pc[r] = "poll" /\ pc' = [pc EXCEPT ![r] = "pollDone"]
        /\ answer' = [answer EXCEPT ![r] = IF entry[r] = "none" THEN "nothing" ELSE entry[r]]
        /\ ttl' = [ttl EXCEPT ![r] = left[r] + age[r]]
        /\ UNCHANGED <<age, left, granted, running, clientVars, renewVars>>
    BY <1>18 DEF PollSkips, PollReads
  <2>2. /\ entry'[q] = "granted" <=> entry[q] = "granted"
        /\ entry'[q] # entry[q] => q = r /\ entry'[q] = "none"
        /\ q = r /\ entry[q] = "expired" => entry'[q] = "none"
    BY <1>18 DEF PollSkips, PollReads
  <2>3. q # r => RequestInv(q)'
    BY <2>1, <2>2
  <2>4. q = r => RowInv(q)' /\ EndInv(q)'
    BY <2>1, <2>2 DEF Entry
  <2>5. q = r => LeaseInv(q)'
    BY <2>1, <2>2
  <2> QED
    BY <2>3, <2>4, <2>5
<1>19. ASSUME NEW r \in Request, PollCommit(r) PROVE RequestInv(q)'
  <2> DEFINE E == Allocated(r)
  <2>1. /\ E \in [Request -> Entry]
        /\ E[q] = "granted" <=> entry[q] = "granted" \/ (q \in picked[r] /\ entry[q] = "waiting")
        /\ E[q] = "waiting" <=> entry[q] = "waiting" /\ q \notin picked[r]
        /\ E[q] \in {entry[q], "granted"}
        /\ E[q] = "none" <=> entry[q] = "none"
    BY <1>19, AllocatedRows
  <2>2. /\ pc[r] = "poll" /\ pc' = [pc EXCEPT ![r] = "pollDone"]
        /\ answer' = [answer EXCEPT ![r] = IF E[r] = "none" THEN "nothing" ELSE E[r]]
        /\ ttl' = [ttl EXCEPT ![r] = left'[r] + age[r]]
        /\ UNCHANGED <<age, clientVars, renewVars>>
        /\ entry' = IF E[r] = "expired" THEN [E EXCEPT ![r] = "none"] ELSE E
    BY <1>19 DEF PollCommit, PollReads
  <2>3. /\ r \in running /\ running' = running \ {r}
        /\ left'[q] = IF q \in picked[r] /\ entry[q] = "waiting"
                      THEN LeaseTtl - age[r] ELSE left[q]
        /\ q \in granted' <=> q \in granted \/ (q \in picked[r] /\ entry[q] = "waiting")
        /\ left' \in [Request -> Int]
    BY <1>19 DEF PollCommit, Allocate
  <2> HIDE DEF E
  <2>4. /\ entry'[q] = "granted" <=> E[q] = "granted"
        /\ entry'[q] # E[q] => q = r /\ entry'[q] = "none"
        /\ q = r /\ E[q] = "expired" => entry'[q] = "none"
    BY <2>1, <2>2
  <2>5. q # r => RequestInv(q)'
    <3> SUFFICES ASSUME q # r PROVE RequestInv(q)'
      OBVIOUS
    <3>1. /\ pc'[q] = pc[q] /\ answer'[q] = answer[q] /\ ttl'[q] = ttl[q]
          /\ entry'[q] = E[q] /\ UNCHANGED <<age, clientVars, renewVars>>
      BY <2>1, <2>2
    <3>2. q \notin running /\ q \notin running'
      BY <2>3, Alone
    <3>3. age[r] \in 0..MaxAge
      BY <2>2
    <3>4. RowInv(q)' /\ EndInv(q)'
      BY <2>1, <2>3, <3>1, <3>2
    <3>5. LeaseInv(q)'
      BY <2>1, <2>3, <3>1, <3>2, <3>3
    <3> QED
      BY <3>4, <3>5
  <2>6. q = r => RowInv(q)' /\ EndInv(q)'
    <3> SUFFICES ASSUME q = r PROVE RowInv(q)' /\ EndInv(q)'
      OBVIOUS
    <3>1. /\ pc'[q] = "pollDone" /\ renew'[q] = renew[q]
          /\ answer'[q] = IF E[q] = "none" THEN "nothing" ELSE E[q]
      BY <2>2
    <3>2. entry[q] \in {"waiting", "expired"} => q \notin granted
      OBVIOUS
    <3>3. renew[q] = "none"
      BY <2>2
    <3>4. In("granted") \subseteq granted
      OBVIOUS
    <3>5. RowInv(q)'
      BY <2>1, <2>3, <2>4, <3>1, <3>2, <3>3, <3>4 DEF Entry
    <3>6. EndInv(q)'
      BY <2>1, <2>3, <2>4, <3>1 DEF Entry
    <3> QED
      BY <3>5, <3>6
  <2>7. q = r => LeaseInv(q)'
    BY <2>1, <2>2, <2>3, <2>4
  <2> QED
    BY <2>5, <2>6, <2>7
<1>20. ASSUME NEW r \in Request, CancelSection(r), entry[r] # "granted" PROVE RequestInv(q)'
  BY <1>20, Alone DEF CancelSection
<1>21. ASSUME NEW r \in Request, FirstCommit(r) PROVE RequestInv(q)'
  BY <1>21, AllocatedRows, Alone DEF FirstCommit, Allocate
<1>22. ASSUME NEW r \in Request, LastCommit(r) PROVE RequestInv(q)'
  BY <1>22, AllocatedRows, Alone DEF LastCommit, Allocate
<1> QED
  BY <1>1, <1>2, <1>3, <1>4, <1>5, <1>6, <1>7, <1>8, <1>9, <1>10, <1>11, <1>12,
     <1>13, <1>14, <1>15, <1>16, <1>17, <1>18, <1>19, <1>20, <1>21, <1>22 DEF Next

-----------------------------------------------------------------------------
\* The invariant holds in every reachable state.
THEOREM PostgresInvariant == Spec => []PostgresInv
<1>1. Init => PostgresInv
  <2> SUFFICES ASSUME Init PROVE PostgresInv
    OBVIOUS
  <2> USE DEF Init
  <2>1. TypeOK
    BY DEF TypeOK, Entry, Pc, Answer, AgeCap, In
  <2>2. In("granted") = {}
    BY DEF In
  <2>3. SlotsFit
    BY <2>2, NoSlotsFit DEF SlotsFit
  <2>4. LockInv
    BY DEF LockInv
  <2>5. ASSUME NEW r \in Request PROVE RequestInv(r)
    BY DEF RequestInv, RowInv, EndInv, LeaseInv, Open, AgeCap
  <2> QED
    BY <2>1, <2>3, <2>4, <2>5 DEF PostgresInv
<1>2. PostgresInv /\ [Next]_vars => PostgresInv'
  BY TypeStep, LockStep, RequestStep DEF PostgresInv
<1> QED
  BY <1>1, <1>2, PTL DEF Spec

\* Every row, timestamp and call keeps its type.
THEOREM PostgresTypeCorrect == Spec => []TypeOK
<1>1. PostgresInv => TypeOK
  BY DEF PostgresInv
<1> QED
  BY <1>1, PostgresInvariant, PTL

\* Whichever workers allocate, expire, renew or crash, the granted rows are
\* within the total, the ceilings and the reservations.
THEOREM GrantedRowsFit == Spec => []SlotsFit
<1>1. PostgresInv => SlotsFit
  BY DEF PostgresInv
<1> QED
  BY <1>1, PostgresInvariant, PTL

\* For every lease lifetime and every length of a transaction, the database
\* keeps a slot at least as long as its client believes in it, unless the
\* client's lease was raised to the minimum.
THEOREM ClientExpiresFirst == Spec => []LocalExpiryFirst
<1>1. PostgresInv => LocalExpiryFirst
  BY DEF PostgresInv, RequestInv, LeaseInv, LocalExpiryFirst
<1> QED
  BY <1>1, PostgresInvariant, PTL

\* A call that is over has no row, waiting or granted, unless its connection
\* failed.
THEOREM CallsLeaveNothing == Spec => []NothingLeftBehind
<1>1. PostgresInv => NothingLeftBehind
  BY DEF PostgresInv, RequestInv, EndInv, NothingLeftBehind
<1> QED
  BY <1>1, PostgresInvariant, PTL

\* Only its own request takes an unexpired lease away.
THEOREM LiveLeasesAreKept == Spec => LiveLeaseKept
<1>1. ASSUME PostgresInv, [Next]_vars, NEW q \in Request,
             entry[q] = "granted", left[q] > 0, entry'[q] # "granted"
      PROVE  running' = {q} /\ pc[q] \in {"release", "cancel"}
  <2>1. TypeOK /\ LockInv /\ RowInv(q) /\ \A r \in Request : age[r] \in Nat
        /\ left[q] \in Int
    BY <1>1 DEF PostgresInv, RequestInv, TypeOK, AgeCap
  <2>2. ASSUME NEW r \in Request, FirstSection(r) PROVE FALSE
    <3>1. q # r
      BY <1>1, <2>1, <2>2 DEF FirstSection, RowInv
    <3> QED
      BY <1>1, <2>1, <2>2, <3>1, FirstSectionRows
  <2>3. ASSUME NEW r \in Request, OtherSection(r)
        PROVE  running' = {q} /\ pc[q] \in {"release", "cancel"}
    <3>1. lock = r /\ r \notin running /\ pc[r] \in {"poll", "release", "cancel"}
      BY <2>3 DEF OtherSection, PollSection, ReleaseSection, CancelSection
    <3>2. running' = {r}
      BY <2>1, <2>3, <3>1, Alone, OtherSectionRows DEF OtherSection
    <3>3. q = r /\ pc[r] # "poll"
      BY <1>1, <2>1, <2>3, OtherSectionRows DEF OtherSection
    <3> QED
      BY <3>1, <3>2, <3>3
  <2>4. ASSUME NEW r \in Request, Commit(r) PROVE FALSE
    BY <1>1, <2>1, <2>4, CommitRows DEF In
  <2>5. ASSUME NEW t \in Request, NEW r \in Request, GrantOne(t, r) PROVE FALSE
    BY <1>1, <2>5 DEF GrantOne
  <2>6. ASSUME Quiet PROVE FALSE
    BY <1>1, <2>1, <2>6, QuietRows DEF In
  <2>7. ASSUME UNCHANGED vars PROVE FALSE
    BY <1>1, <2>7 DEF vars
  <2> QED
    BY <1>1, <2>2, <2>3, <2>4, <2>5, <2>6, <2>7, NextParts
<1>2. PostgresInv /\ [Next]_vars =>
        [\A r \in Request :
           entry[r] = "granted" /\ left[r] > 0 /\ entry'[r] # "granted"
           => running' = {r} /\ pc[r] \in {"release", "cancel"}]_vars
  BY <1>1
<1> QED
  BY <1>2, PostgresInvariant, PTL DEF Spec, LiveLeaseKept

-----------------------------------------------------------------------------
\* The rows implement the slot pool: the granted rows are the leases held, and
\* the rows that were granted and are gone are the leases that ended.
THEOREM RowsRefineSlotPool == Spec => ImplementsSlotPool
<1> DEFINE Held == In("granted")
           over == Held \ Held'
           new == Held' \ Held
<1>1. Init => Pool!PoolInit
  BY DEF Init, Pool!PoolInit, In
<1>2. ASSUME PostgresInv, PostgresInv', [Next]_vars
      PROVE  [Pool!PoolStep]_(Pool!poolVars)
  <2>1. /\ TypeOK /\ TypeOK' /\ LockInv /\ Held \subseteq granted /\ Held' \subseteq granted'
        /\ granted' \subseteq Resolvable /\ Fits(Held')
    BY <1>2 DEF PostgresInv, TypeOK, SlotsFit
  <2>2. \A q \in In("waiting") : q \notin granted
    BY <1>2 DEF PostgresInv, RequestInv, RowInv, In
  <2>3. granted' = granted \cup new /\ new \cap granted = {}
    <3>1. ASSUME NEW r \in Request, FirstSection(r) PROVE new = {} /\ granted' = granted
      BY <2>1, <3>1, FirstSectionRows DEF FirstSection, In
    <3>2. ASSUME NEW r \in Request, OtherSection(r) PROVE new = {} /\ granted' = granted
      BY <2>1, <3>2, OtherSectionRows DEF OtherSection, In
    <3>3. ASSUME NEW r \in Request, Commit(r)
          PROVE  granted' = granted \cup new /\ new \cap granted = {}
      <4>1. /\ running = {r} /\ Held' = Held \cup picked[r]
            /\ granted' = granted \cup picked[r]
        BY <2>1, <3>3, CommitRows
      <4>2. picked[r] \subseteq In("waiting")
        BY <2>1, <4>1, Inside
      <4>3. picked[r] \cap granted = {}
        BY <2>2, <4>2
      <4> HIDE DEF Held
      <4> QED
        BY <2>1, <4>1, <4>3
    <3>4. ASSUME NEW t \in Request, NEW q \in Request, GrantOne(t, q)
          PROVE  new = {} /\ granted' = granted
      BY <3>4 DEF GrantOne, In
    <3>5. CASE Quiet
      BY <2>1, <3>5, QuietRows
    <3>6. CASE UNCHANGED vars
      BY <3>6 DEF vars, In
    <3> QED
      BY <1>2, <3>1, <3>2, <3>3, <3>4, <3>5, <3>6, NextParts
  <2> HIDE DEF Held
  <2>4. /\ over \in SUBSET Held /\ Held' = (Held \ over) \cup new
        /\ new \in SUBSET (Resolvable \ (Held \cup (granted \ Held)))
    BY <2>1, <2>3
  <2>5. granted' \ Held' = (granted \ Held) \cup over
    BY <2>1, <2>3
  <2>6. Pool!PoolStep
    BY <2>1, <2>4, <2>5 DEF Pool!PoolStep, Held
  <2> QED
    BY <2>6
<1> QED
  BY <1>1, <1>2, PostgresInvariant, PTL DEF Spec, ImplementsSlotPool, Pool!PoolSpec

-----------------------------------------------------------------------------
\* Every step keeps arrival order: a new row gets the largest number, and a
\* grant takes the oldest row of its workload.
LEMMA OrderStep ==
  ASSUME TypeOK, LockInv, \A r \in Request : RowInv(r), OrderInv, [Next]_vars
  PROVE  OrderInv'
<1> USE DEF OrderInv, ArrivalOrder
<1>1. ASSUME NEW r \in Request, FirstSection(r) PROVE OrderInv'
  <2>1. r \notin granted /\ running = {} /\ running' = {r}
    BY <1>1, Alone DEF FirstSection, Count, RowInv
  <2>2. \A t \in Request : picked'[t] = {}
    BY <1>1, <2>1 DEF FirstSection, Count, LockInv
  <2>3. /\ In("waiting")' \subseteq In("waiting") \cup {r} /\ granted' = granted
        /\ seq' = seq + 1 /\ seqOf'[r] = seq + 1 /\ seq \in Nat
        /\ \A q \in Request : q # r => seqOf'[q] = seqOf[q]
        /\ seqOf \in [Request -> Nat] /\ granted \subseteq Request
    <3>1. In("waiting")' \subseteq In("waiting") \cup {r}
      BY <1>1, FirstSectionRows DEF In
    <3>2. seq \in Nat /\ seqOf \in [Request -> Nat] /\ granted \subseteq Request
      BY DEF TypeOK, Resolvable
    <3>3. /\ seq' = seq + 1 /\ seqOf' = [seqOf EXCEPT ![r] = seq + 1]
          /\ granted' = granted
      BY <1>1 DEF FirstSection
    <3> QED
      BY <3>1, <3>2, <3>3
  <2>4. \A q \in Request : seqOf'[q] <= seq' /\ (q # r => seqOf'[q] < seqOf'[r])
    BY <2>3
  <2>5. \A x \in In("waiting")', q \in Request : seqOf'[q] = seqOf'[x] => q = x
    <3> SUFFICES ASSUME NEW x \in In("waiting")', NEW q \in Request, seqOf'[q] = seqOf'[x]
                 PROVE  q = x
      OBVIOUS
    <3>1. x \in Request /\ (x # r => x \in In("waiting"))
      BY <2>3 DEF In
    <3>2. seqOf'[r] \in Nat /\ seqOf'[q] \in Nat /\ seqOf'[x] \in Nat
      BY <2>3, <3>1
    <3> QED
      BY <2>3, <2>4, <3>1, <3>2
  <2>6. ArrivalOrder'
    <3> SUFFICES ASSUME NEW x \in In("waiting")', NEW q \in granted',
                        WorkloadOf(q) = WorkloadOf(x)
                 PROVE  seqOf'[q] < seqOf'[x]
      OBVIOUS
    <3>1. q \in granted /\ q # r /\ q \in Request /\ (x # r => x \in In("waiting"))
      BY <2>1, <2>3
    <3>2. x \in Request
      BY DEF In
    <3> QED
      BY <2>3, <2>4, <3>1, <3>2
  <2> QED
    BY <2>1, <2>2, <2>4, <2>5, <2>6
<1>2. ASSUME NEW r \in Request, OtherSection(r) PROVE OrderInv'
  <2>1. lock = r /\ r \notin running /\ UNCHANGED <<picked, seq, seqOf>>
    BY <1>2 DEF OtherSection, PollSection, ReleaseSection, CancelSection, Count
  <2>2. running = {} /\ running' = {r} /\ granted' = granted
    BY <1>2, <2>1, Alone, OtherSectionRows DEF OtherSection
  <2>3. \A t \in Request : picked'[t] = {}
    BY <2>1, <2>2 DEF LockInv
  <2>4. In("waiting")' \subseteq In("waiting")
    BY <1>2, OtherSectionRows DEF OtherSection, In
  <2> QED
    BY <2>1, <2>2, <2>3, <2>4
<1>3. ASSUME NEW t \in Request, NEW q \in Request, GrantOne(t, q) PROVE OrderInv'
  <2>1. /\ t \in running /\ UNCHANGED <<running, seq, seqOf, granted, entry>>
        /\ picked' = [picked EXCEPT ![t] = picked[t] \cup {q}]
    BY <1>3 DEF GrantOne
  <2>2. /\ running = {t} /\ In("waiting")' = In("waiting")
        /\ picked'[t] = picked[t] \cup {q}
    BY <2>1, Alone DEF In, TypeOK
  <2>3. /\ q \in In("waiting") \ picked[t]
        /\ \A x \in In("waiting") \ picked[t] :
             WorkloadOf(x) = WorkloadOf(q) => seqOf[q] <= seqOf[x]
    BY <1>3 DEF GrantOne, Picks, IsBest, IsCandidate, IsHead
  <2>4. ASSUME NEW x \in In("waiting") \ picked[t], x # q, WorkloadOf(q) = WorkloadOf(x)
        PROVE  seqOf[q] < seqOf[x]
    <3>1. seqOf[q] \in Nat /\ seqOf[x] \in Nat /\ seqOf[q] # seqOf[x]
      BY <2>4 DEF TypeOK, In
    <3> QED
      BY <2>3, <2>4, <3>1
  <2>5. \A p \in picked'[t], x \in In("waiting")' \ picked'[t] :
          WorkloadOf(p) = WorkloadOf(x) => seqOf'[p] < seqOf'[x]
    BY <2>1, <2>2, <2>4
  <2> QED
    BY <2>1, <2>2, <2>5
<1>4. ASSUME NEW r \in Request, Commit(r) PROVE OrderInv'
  <2>1. /\ r \in running /\ running' = {} /\ UNCHANGED <<seq, seqOf>>
        /\ In("waiting")' \subseteq In("waiting") \ picked[r]
        /\ granted' = granted \cup picked[r]
    BY <1>4, CommitRows
  <2> QED
    BY <2>1
<1>5. CASE Quiet
  BY <1>5, QuietRows
<1>6. CASE UNCHANGED vars
  BY <1>6 DEF vars, In
<1> QED
  BY <1>1, <1>2, <1>3, <1>4, <1>5, <1>6, NextParts

\* Across workers, requests of a workload are granted in the order of their
\* rows' numbers.
THEOREM RowsGrantedInOrder == Spec => []ArrivalOrder
<1>1. Init => OrderInv
  BY DEF Init, OrderInv, ArrivalOrder, In
<1>2. PostgresInv /\ OrderInv /\ [Next]_vars => OrderInv'
  BY OrderStep DEF PostgresInv, RequestInv
<1>3. OrderInv => ArrivalOrder
  BY DEF OrderInv
<1> QED
  BY <1>1, <1>2, <1>3, PostgresInvariant, PTL DEF Spec

-----------------------------------------------------------------------------
\* The part of the queue QueueInv counts.
Counted == In("waiting") \ {t \in running : pc[t] = "first"}

LEMMA SmallerQueue ==
  ASSUME NEW S \in SUBSET Request, NEW T \in SUBSET S, MaxQueued # Undefined,
         Cardinality(S) <= MaxQueued
  PROVE  Cardinality(T) <= MaxQueued
BY RequestAssumption, FS_Subset, FS_CardinalityType

\* Every step keeps the bound: only a first transaction adds a row, and it
\* takes it out again if the queue is too long.
LEMMA QueueStep ==
  ASSUME TypeOK, LockInv, QueueInv, [Next]_vars
  PROVE  QueueInv'
<1> SUFFICES ASSUME MaxQueued # Undefined PROVE Cardinality(Counted') <= MaxQueued
  BY DEF QueueInv, Counted
<1> DEFINE Old == Counted
           New == Counted'
<1>1. Cardinality(Old) <= MaxQueued /\ Old \in SUBSET Request
  BY DEF QueueInv, Counted, In
<1>2. New \subseteq Old => Cardinality(New) <= MaxQueued
  <2> HIDE DEF Old, New
  <2> QED
    BY <1>1, SmallerQueue
<1>3. ASSUME NEW r \in Request, FirstSection(r) PROVE New \subseteq Old
  <2>1. running = {} /\ running' = {r} /\ pc'[r] = "first"
    BY <1>3, Alone DEF FirstSection, Count
  <2>2. In("waiting")' \subseteq In("waiting") \cup {r}
    BY <1>3, FirstSectionRows DEF In
  <2> QED
    BY <2>1, <2>2 DEF Counted
<1>4. ASSUME NEW r \in Request, OtherSection(r) PROVE New \subseteq Old
  <2>1. running = {}
    BY <1>4, Alone DEF OtherSection, PollSection, ReleaseSection, CancelSection
  <2>2. In("waiting")' \subseteq In("waiting")
    BY <1>4, OtherSectionRows DEF OtherSection, In
  <2> QED
    BY <2>1, <2>2 DEF Counted
<1>5. ASSUME NEW t \in Request, NEW q \in Request, GrantOne(t, q) PROVE New \subseteq Old
  BY <1>5 DEF GrantOne, Counted, In
<1>6. ASSUME NEW r \in Request, Commit(r) PROVE Cardinality(New) <= MaxQueued
  <2>1. /\ running = {r} /\ running' = {}
        /\ In("waiting")' \subseteq In("waiting")
    BY <1>6, CommitRows
  <2>2. CASE pc[r] # "first"
    BY <1>2, <2>1, <2>2 DEF Counted
  <2>3. CASE r \notin In("waiting")'
    BY <1>2, <2>1, <2>3 DEF Counted
  <2>4. CASE pc[r] = "first" /\ r \in In("waiting")'
    <3> DEFINE W == {q \in Request : Allocated(r)[q] = "waiting"}
    <3>1. FirstCommit(r)
      BY <1>6, <2>4 DEF Commit, PollCommit, LastCommit
    <3>2. ~ QueueTooLong(W) /\ entry' = Allocated(r)
      BY <2>4, <3>1, AllocatedRows DEF FirstCommit, In
    <3>3. New = W
      BY <2>1, <3>2 DEF Counted, In
    <3>4. Cardinality(W) \in Nat /\ MaxQueued \in Nat
      BY RequestAssumption, FS_Subset, FS_CardinalityType
    <3> HIDE DEF New, W
    <3> QED
      BY <3>2, <3>3, <3>4 DEF QueueTooLong
  <2> QED
    BY <2>2, <2>3, <2>4
<1>7. CASE Quiet
  BY <1>2, <1>7, QuietRows DEF Counted
<1>8. CASE UNCHANGED vars
  BY <1>2, <1>8 DEF vars, Counted, In
<1> QED
  BY <1>2, <1>3, <1>4, <1>5, <1>6, <1>7, <1>8, NextParts

\* For every bound, the queue in the database never keeps more rows waiting.
THEOREM QueueStaysBounded == Spec => []QueueBounded
<1>1. Init => QueueInv
  BY FS_EmptySet DEF Init, QueueInv, In
<1>2. PostgresInv /\ QueueInv /\ [Next]_vars => QueueInv'
  BY QueueStep DEF PostgresInv
<1>3. QueueInv => QueueBounded
  BY DEF QueueInv, QueueBounded
<1> QED
  BY <1>1, <1>2, <1>3, PostgresInvariant, PTL DEF Spec
=============================================================================
