-------------------------- MODULE ConcurrencyPolicy --------------------------
(***************************************************************************)
(* The allocation policy every built-in limiter shares                     *)
(* (packages/agent/src/concurrency-policy.ts): the validated limits of a   *)
(* limiter, the workload a request resolves to, and one iteration of the   *)
(* loop of selectConcurrencyGrants.                                        *)
(*                                                                         *)
(* The loop grants one request per iteration until no head of a queue has  *)
(* room.  An iteration is an operator here, so that each limiter can take  *)
(* it as a step of its own atomic section.                                 *)
(*                                                                         *)
(* Sums over workloads are cardinalities of sets of seats: workload w's    *)
(* i-th seat is the pair <<w, i>>.  The sum over w of                      *)
(* max(0, reserved - active) is the number of seats <<w, i>> with          *)
(* active < i <= reserved.                                                 *)
(***************************************************************************)
EXTENDS Integers, FiniteSets

CONSTANTS
  Workload,       \* the names configured under "workloads"
  MaxConcurrent,  \* limits.maxConcurrent
  WorkloadMax,    \* workloads[w].maxConcurrent
  Reserved,       \* workloads[w].reserved
  Priority,       \* workloads[w].priority
  GivenDefault,   \* limits.defaultWorkload, or Undefined
  DefaultName,    \* the name DEFAULT_WORKLOAD ("default")
  Request,        \* the acquire calls the model distinguishes
  Asked,          \* request.workload of each call, or Undefined
  Undefined       \* JavaScript's undefined

Seat == Workload \X (1..MaxConcurrent)

\* The seats the reservations add up to (totalReserved).
ReservedSeats == {s \in Seat : s[2] <= Reserved[s[1]]}

\* What resolveConcurrencyLimits lets through; everything else throws
\* ConcurrencyConfigError before a limiter exists.
ValidLimits ==
  /\ MaxConcurrent \in Nat \ {0}
  /\ IsFiniteSet(Workload) /\ Workload # {}
  /\ WorkloadMax \in [Workload -> 1..MaxConcurrent]
  /\ Reserved \in [Workload -> Nat]
  /\ \A w \in Workload : Reserved[w] <= WorkloadMax[w]
  /\ Cardinality(ReservedSeats) <= MaxConcurrent
  /\ Priority \in [Workload -> Int]
  /\ GivenDefault \in Workload \cup {Undefined}

ASSUME LimitsAssumption == ValidLimits

ASSUME RequestAssumption ==
  /\ IsFiniteSet(Request)
  /\ Undefined \notin Workload

-----------------------------------------------------------------------------
\* The default workload: the configured one, else the one named "default",
\* else the only one, else none.
DefaultWorkload ==
  IF GivenDefault # Undefined THEN GivenDefault
  ELSE IF DefaultName \in Workload THEN DefaultName
  ELSE IF Cardinality(Workload) = 1 THEN CHOOSE w \in Workload : TRUE
  ELSE Undefined

\* resolveWorkload; Undefined stands for the ConcurrencyConfigError it throws.
WorkloadOf(r) ==
  LET name == IF Asked[r] = Undefined THEN DefaultWorkload ELSE Asked[r]
  IN  IF name \in Workload THEN name ELSE Undefined

\* The requests resolveWorkload accepts.
Resolvable == {r \in Request : WorkloadOf(r) # Undefined}

-----------------------------------------------------------------------------
\* Slots of workload w among the slots S (active.get(w) ?? 0).
Active(S, w) == Cardinality({r \in S : WorkloadOf(r) = w})

\* Reserved seats that no slot of S uses.
UnmetSeats(S) == {s \in ReservedSeats : Active(S, s[1]) < s[2]}

\* unmetReservations that forgets to leave the granted workload out.
UnmetReservations_OwnToo(S, except) == Cardinality(UnmetSeats(S))

\* unmetReservations(except).
UnmetReservations(S, except) ==
  Cardinality({s \in UnmetSeats(S) : s[1] # except})

\* A grant that lends reserved slots.
HasRoom_Lends(S, w) ==
  /\ Cardinality(S) < MaxConcurrent
  /\ Active(S, w) < WorkloadMax[w]

\* A grant that compares the ceiling with <=.
HasRoom_CeilingOffByOne(S, w) ==
  /\ Cardinality(S) < MaxConcurrent
  /\ Active(S, w) <= WorkloadMax[w]
  /\ Cardinality(S) + 1 + UnmetReservations(S, w) <= MaxConcurrent

\* One more slot of w fits next to S: the loop's condition and the two
\* "continue" tests of its body.
HasRoom(S, w) ==
  /\ Cardinality(S) < MaxConcurrent
  /\ Active(S, w) < WorkloadMax[w]
  /\ Cardinality(S) + 1 + UnmetReservations(S, w) <= MaxConcurrent

\* The queue of a workload read from its newest entry.
IsHead_Newest(r, W, seqOf) ==
  \A q \in W : WorkloadOf(q) = WorkloadOf(r) => seqOf[q] <= seqOf[r]

\* r is the oldest waiter of its workload among the waiters W.
IsHead(r, W, seqOf) ==
  \A q \in W : WorkloadOf(q) = WorkloadOf(r) => seqOf[r] <= seqOf[q]

\* r is a queue head the loop may grant.
IsCandidate(r, S, W, seqOf) ==
  /\ r \in W
  /\ IsHead(r, W, seqOf)
  /\ HasRoom(S, WorkloadOf(r))

\* The loop keeps a over b: higher priority, or the same and older.
Outranks(a, b, seqOf) ==
  LET pa == Priority[WorkloadOf(a)]
      pb == Priority[WorkloadOf(b)]
  IN  pa > pb \/ (pa = pb /\ seqOf[a] <= seqOf[b])

\* r is the grant one iteration of selectConcurrencyGrants makes (best).
IsBest(r, S, W, seqOf) ==
  /\ IsCandidate(r, S, W, seqOf)
  /\ \A q \in W : IsCandidate(q, S, W, seqOf) => Outranks(r, q, seqOf)

-----------------------------------------------------------------------------
\* The promise of the policy about the slots S that are out: within the
\* total, within each ceiling, and with every unused reserved seat still free.
WithinTotal(S) == Cardinality(S) <= MaxConcurrent

WithinCeilings(S) == \A w \in Workload : Active(S, w) <= WorkloadMax[w]

ReservationsFree(S) == Cardinality(S) + Cardinality(UnmetSeats(S)) <= MaxConcurrent

Fits(S) == WithinTotal(S) /\ WithinCeilings(S) /\ ReservationsFree(S)

\* A workload some idle limiter serves: it has a reservation, or the other
\* reservations leave a slot.  Validation also accepts limits under which a
\* workload is never served.
Servable(w) ==
  Reserved[w] > 0
  \/ Cardinality({s \in ReservedSeats : s[1] # w}) < MaxConcurrent
=============================================================================
