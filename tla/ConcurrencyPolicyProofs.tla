----------------------- MODULE ConcurrencyPolicyProofs -----------------------
(***************************************************************************)
(* What the allocation policy guarantees, for all limits                   *)
(* resolveConcurrencyLimits accepts and any number of workloads and        *)
(* requests: one grant to a workload with room keeps the slots within the  *)
(* limits, and so does taking slots away.                                  *)
(***************************************************************************)
EXTENDS ConcurrencyPolicy, FiniteSetTheorems, TLAPS

\* The seats the slots S use, the first Active(S, w) of each workload.
UsedSeats(S) == {s \in Seat : s[2] <= Active(S, s[1])}

\* The seats that are used or reserved.
TakenSeats(S) == {s \in Seat : s[2] <= Active(S, s[1]) \/ s[2] <= Reserved[s[1]]}

-----------------------------------------------------------------------------
\* The sets of seats are finite.
LEMMA SeatsFinite ==
  ASSUME NEW T \in SUBSET Seat
  PROVE  IsFiniteSet(T) /\ Cardinality(T) \in Nat
PROOF
<1>1. IsFiniteSet(Workload) /\ IsFiniteSet(1..MaxConcurrent)
  BY LimitsAssumption, FS_Interval DEF ValidLimits
<1>2. IsFiniteSet(Seat)
  BY <1>1, FS_Product DEF Seat
<1>. QED  BY <1>2, FS_Subset, FS_CardinalityType

\* Slots are finite in number, in total and for each workload, and a
\* workload has at most as many as there are.
LEMMA SlotsFinite ==
  ASSUME NEW S \in SUBSET Resolvable
  PROVE  /\ IsFiniteSet(S) /\ Cardinality(S) \in Nat
         /\ \A w : /\ IsFiniteSet({r \in S : WorkloadOf(r) = w})
                   /\ Active(S, w) \in Nat
                   /\ Active(S, w) <= Cardinality(S)
PROOF
<1>1. IsFiniteSet(S)
  BY RequestAssumption, FS_Subset DEF Resolvable
<1>2. ASSUME NEW w
      PROVE  /\ IsFiniteSet({r \in S : WorkloadOf(r) = w})
             /\ Active(S, w) \in Nat
             /\ Active(S, w) <= Cardinality(S)
  BY <1>1, FS_Subset, FS_CardinalityType DEF Active
<1>. QED  BY <1>1, <1>2, FS_CardinalityType

\* A request resolveWorkload accepts has a configured workload.
LEMMA ResolvableWorkload ==
  ASSUME NEW r \in Resolvable
  PROVE  r \in Request /\ WorkloadOf(r) \in Workload
BY RequestAssumption DEF Resolvable, WorkloadOf

\* The seats in use are as many as the slots.
LEMMA UsedSeatsCount ==
  ASSUME NEW S \in SUBSET Resolvable, WithinTotal(S)
  PROVE  Cardinality(UsedSeats(S)) = Cardinality(S)
PROOF
<1> DEFINE Of(w) == {r \in S : WorkloadOf(r) = w}
           g == [w \in Workload |-> CHOOSE f : f \in Bijection(1..Active(S, w), Of(w))]
           h == [s \in UsedSeats(S) |-> g[s[1]][s[2]]]
<1>1. ASSUME NEW w \in Workload
      PROVE  g[w] \in Bijection(1..Active(S, w), Of(w))
  <2>1. ExistsBijection(1..Active(S, w), Of(w))
    BY SlotsFinite, FS_CardinalityType DEF Active
  <2>. QED  BY <2>1 DEF ExistsBijection
<1>2. ASSUME NEW w \in Workload
      PROVE  /\ g[w] \in [1..Active(S, w) -> Of(w)]
             /\ \A i, j \in 1..Active(S, w) : g[w][i] = g[w][j] => i = j
             /\ \A r \in Of(w) : \E i \in 1..Active(S, w) : g[w][i] = r
  <2> HIDE DEF g
  <2>. QED  BY <1>1 DEF Bijection, Injection, Surjection, IsInjective
<1>3. \A s \in UsedSeats(S) :
         /\ s = <<s[1], s[2]>>
         /\ s[1] \in Workload /\ s[2] \in 1..Active(S, s[1])
  <2> SUFFICES ASSUME NEW s \in UsedSeats(S)
               PROVE  /\ s = <<s[1], s[2]>>
                      /\ s[1] \in Workload /\ s[2] \in 1..Active(S, s[1])
    OBVIOUS
  <2>1. Active(S, s[1]) \in Nat
    BY SlotsFinite
  <2>. QED  BY <2>1, LimitsAssumption DEF UsedSeats, Seat, ValidLimits
<1>4. \A w \in Workload : \A i \in 1..Active(S, w) : <<w, i>> \in UsedSeats(S)
  <2> SUFFICES ASSUME NEW w \in Workload, NEW i \in 1..Active(S, w)
               PROVE  <<w, i>> \in UsedSeats(S)
    OBVIOUS
  <2>0. /\ Active(S, w) \in Nat /\ Cardinality(S) \in Nat
        /\ Active(S, w) <= Cardinality(S)
    BY SlotsFinite
  <2>1. Active(S, w) \in Nat /\ Active(S, w) <= MaxConcurrent
    BY <2>0, LimitsAssumption DEF WithinTotal, ValidLimits
  <2>. QED  BY <2>1, LimitsAssumption DEF UsedSeats, Seat, ValidLimits
<1> HIDE DEF g
<1>5. /\ h \in [UsedSeats(S) -> S]
      /\ \A s \in UsedSeats(S) : WorkloadOf(h[s]) = s[1]
  <2>1. ASSUME NEW s \in UsedSeats(S)
        PROVE  h[s] \in Of(s[1])
    <3>1. s[1] \in Workload /\ s[2] \in 1..Active(S, s[1])
      BY <1>3
    <3>2. g[s[1]] \in [1..Active(S, s[1]) -> Of(s[1])]
      BY <1>2, <3>1
    <3>3. g[s[1]][s[2]] \in Of(s[1])
      BY <3>1, <3>2
    <3>. QED  BY <3>3
  <2>. QED  BY <2>1
<1>6. \A s, t \in UsedSeats(S) : h[s] = h[t] => s = t
  <2> SUFFICES ASSUME NEW s \in UsedSeats(S), NEW t \in UsedSeats(S), h[s] = h[t]
               PROVE  s = t
    OBVIOUS
  <2>1. WorkloadOf(h[s]) = s[1] /\ WorkloadOf(h[t]) = t[1]
    BY <1>5
  <2>2. s[1] = t[1] /\ g[s[1]][s[2]] = g[s[1]][t[2]]
    BY <2>1
  <2>3. s[2] = t[2]
    BY <1>2, <1>3, <2>2
  <2>. QED  BY <1>3, <2>2, <2>3
<1>7. \A r \in S : \E s \in UsedSeats(S) : h[s] = r
  <2> SUFFICES ASSUME NEW r \in S
               PROVE  \E s \in UsedSeats(S) : h[s] = r
    OBVIOUS
  <2>1. PICK i \in 1..Active(S, WorkloadOf(r)) : g[WorkloadOf(r)][i] = r
    BY <1>2, ResolvableWorkload
  <2>2. <<WorkloadOf(r), i>> \in UsedSeats(S)
    BY <1>4, ResolvableWorkload
  <2>3. h[<<WorkloadOf(r), i>>] = r
    BY <2>1, <2>2
  <2>. QED  BY <2>2, <2>3
<1>8. ExistsBijection(UsedSeats(S), S)
  <2> HIDE DEF h
  <2>1. h \in Bijection(UsedSeats(S), S)
    BY <1>5, <1>6, <1>7 DEF Bijection, Injection, Surjection, IsInjective
  <2>. QED  BY <2>1 DEF ExistsBijection
<1>9. IsFiniteSet(UsedSeats(S))
  BY SeatsFinite DEF UsedSeats
<1>. QED  BY <1>8, <1>9, FS_Bijection

\* The slots and the unmet reservations together are the seats taken.
LEMMA TakenSeatsCount ==
  ASSUME NEW S \in SUBSET Resolvable, WithinTotal(S)
  PROVE  Cardinality(S) + Cardinality(UnmetSeats(S)) = Cardinality(TakenSeats(S))
PROOF
<1>1. /\ IsFiniteSet(UsedSeats(S)) /\ IsFiniteSet(UnmetSeats(S))
      /\ Cardinality(UsedSeats(S)) \in Nat /\ Cardinality(UnmetSeats(S)) \in Nat
  BY SeatsFinite DEF UsedSeats, UnmetSeats, ReservedSeats
<1>2. \A s \in Seat : Active(S, s[1]) \in Nat /\ Reserved[s[1]] \in Nat /\ s[2] \in Nat
  <2>1. \A w : Active(S, w) \in Nat
    BY SlotsFinite
  <2>2. \A s \in Seat : Reserved[s[1]] \in Nat /\ s[2] \in Nat
    BY LimitsAssumption DEF Seat, ValidLimits
  <2>. QED  BY <2>1, <2>2
<1>3. UsedSeats(S) \cap UnmetSeats(S) = {}
  BY <1>2 DEF UsedSeats, UnmetSeats, ReservedSeats
<1>4. UsedSeats(S) \cup UnmetSeats(S) = TakenSeats(S)
  BY <1>2 DEF UsedSeats, UnmetSeats, ReservedSeats, TakenSeats
<1>5. Cardinality(TakenSeats(S)) =
        Cardinality(UsedSeats(S)) + Cardinality(UnmetSeats(S))
  <2>1. Cardinality(UsedSeats(S) \cup UnmetSeats(S)) =
          Cardinality(UsedSeats(S)) + Cardinality(UnmetSeats(S))
            - Cardinality(UsedSeats(S) \cap UnmetSeats(S))
    BY <1>1, FS_Union
  <2>2. Cardinality(UsedSeats(S) \cap UnmetSeats(S)) = 0
    BY <1>3, FS_EmptySet
  <2>. QED  BY <1>1, <1>4, <2>1, <2>2
<1>. QED  BY <1>1, <1>5, UsedSeatsCount

-----------------------------------------------------------------------------
\* A new limiter, with no slot out, is within its limits: this is what the
\* checks of resolveConcurrencyLimits on the reservations are for.
THEOREM NoSlotsFit == Fits({})
PROOF
<1>1. Cardinality({}) = 0 /\ IsFiniteSet({})
  BY FS_EmptySet
<1>2. \A w : Active({}, w) = 0
  BY <1>1 DEF Active
<1>3. UnmetSeats({}) = ReservedSeats
  <2>1. \A s \in Seat : s[2] \in Nat /\ 0 < s[2]
    BY LimitsAssumption DEF Seat, ValidLimits
  <2>. QED  BY <1>2, <2>1 DEF UnmetSeats, ReservedSeats
<1>4. Cardinality(ReservedSeats) \in Nat
  BY SeatsFinite DEF ReservedSeats
<1>. QED
  BY <1>1, <1>2, <1>3, <1>4, LimitsAssumption
     DEF Fits, WithinTotal, WithinCeilings, ReservationsFree, ValidLimits

\* Taking slots away (release, expiry, purge) keeps the rest within the
\* limits: a slot given back frees at least as much as it un-meets of a
\* reservation.
THEOREM FewerSlotsFit ==
  ASSUME NEW T \in SUBSET Resolvable, NEW S \in SUBSET T, Fits(T)
  PROVE  Fits(S)
PROOF
<1>1. S \in SUBSET Resolvable
  OBVIOUS
<1>2. /\ IsFiniteSet(T) /\ Cardinality(T) \in Nat /\ Cardinality(S) \in Nat
      /\ Cardinality(S) <= Cardinality(T)
  BY <1>1, SlotsFinite, FS_Subset
<1>3. \A w : /\ Active(S, w) \in Nat /\ Active(T, w) \in Nat
             /\ Active(S, w) <= Active(T, w)
  <2> SUFFICES ASSUME NEW w
               PROVE  /\ Active(S, w) \in Nat /\ Active(T, w) \in Nat
                      /\ Active(S, w) <= Active(T, w)
    OBVIOUS
  <2>1. IsFiniteSet({r \in T : WorkloadOf(r) = w})
    BY SlotsFinite
  <2>2. {r \in S : WorkloadOf(r) = w} \in SUBSET {r \in T : WorkloadOf(r) = w}
    OBVIOUS
  <2>3. Active(S, w) <= Active(T, w)
    BY <2>1, <2>2, FS_Subset DEF Active
  <2>. QED  BY <1>1, <2>3, SlotsFinite
<1>4. WithinTotal(S) /\ WithinTotal(T)
  BY <1>2, LimitsAssumption DEF Fits, WithinTotal, ValidLimits
<1>5. WithinCeilings(S)
  <2> SUFFICES ASSUME NEW w \in Workload PROVE Active(S, w) <= WorkloadMax[w]
    BY DEF WithinCeilings
  <2>1. WorkloadMax[w] \in Int /\ Active(T, w) <= WorkloadMax[w]
    BY LimitsAssumption DEF Fits, WithinCeilings, ValidLimits
  <2>. QED  BY <1>3, <2>1
<1>6. TakenSeats(S) \subseteq TakenSeats(T)
  <2>1. \A s \in Seat : s[2] \in Nat
    BY LimitsAssumption DEF Seat, ValidLimits
  <2>. QED  BY <1>3, <2>1 DEF TakenSeats
<1>7. /\ IsFiniteSet(TakenSeats(T)) /\ Cardinality(TakenSeats(T)) \in Nat
      /\ Cardinality(TakenSeats(S)) \in Nat
  BY SeatsFinite DEF TakenSeats
<1>8. Cardinality(TakenSeats(S)) <= Cardinality(TakenSeats(T))
  BY <1>6, <1>7, FS_Subset
<1>9. Cardinality(TakenSeats(T)) <= MaxConcurrent
  BY <1>4, TakenSeatsCount DEF Fits, ReservationsFree
<1>10. ReservationsFree(S)
  <2>1. Cardinality(S) + Cardinality(UnmetSeats(S)) = Cardinality(TakenSeats(S))
    BY <1>1, <1>4, TakenSeatsCount
  <2>. QED
    BY <1>7, <1>8, <1>9, <2>1, LimitsAssumption DEF ReservationsFree, ValidLimits
<1>. QED  BY <1>4, <1>5, <1>10 DEF Fits

\* One grant of the loop of selectConcurrencyGrants keeps the slots within
\* the limits: the test of the loop is strong enough for the total, for the
\* ceiling and for the reservations of all the other workloads.
THEOREM GrantFits ==
  ASSUME NEW S \in SUBSET Resolvable, NEW r \in Resolvable, r \notin S,
         Fits(S), HasRoom(S, WorkloadOf(r))
  PROVE  Fits(S \cup {r})
PROOF
<1> DEFINE w == WorkloadOf(r)
           T == S \cup {r}
           a == Active(S, w)
<1>1. w \in Workload
  BY ResolvableWorkload
<1>2. /\ IsFiniteSet(S) /\ Cardinality(S) \in Nat
      /\ Cardinality(T) = Cardinality(S) + 1
  BY SlotsFinite, FS_AddElement
<1>3. a \in Nat /\ Active(T, w) = a + 1
  <2>1. {q \in T : WorkloadOf(q) = w} = {q \in S : WorkloadOf(q) = w} \cup {r}
    OBVIOUS
  <2>2. IsFiniteSet({q \in S : WorkloadOf(q) = w})
    BY SlotsFinite
  <2>. QED  BY <2>1, <2>2, SlotsFinite, FS_AddElement DEF Active
<1>4. \A v : v # w => Active(T, v) = Active(S, v)
  <2> SUFFICES ASSUME NEW v, v # w PROVE Active(T, v) = Active(S, v)
    OBVIOUS
  <2>1. {q \in T : WorkloadOf(q) = v} = {q \in S : WorkloadOf(q) = v}
    OBVIOUS
  <2>. QED  BY <2>1 DEF Active
<1>5. WithinTotal(T)
  BY <1>2, LimitsAssumption DEF HasRoom, WithinTotal, ValidLimits
<1>6. WithinCeilings(T)
  <2> SUFFICES ASSUME NEW v \in Workload PROVE Active(T, v) <= WorkloadMax[v]
    BY DEF WithinCeilings
  <2>1. WorkloadMax[v] \in Int
    BY LimitsAssumption DEF ValidLimits
  <2>2. CASE v = w
    BY <1>3, <2>1, <2>2 DEF HasRoom
  <2>3. CASE v # w
    BY <1>4, <2>3 DEF Fits, WithinCeilings
  <2>. QED  BY <2>2, <2>3
<1>7. /\ IsFiniteSet(UnmetSeats(S)) /\ Cardinality(UnmetSeats(S)) \in Nat
  BY SeatsFinite DEF UnmetSeats, ReservedSeats
<1>8. UnmetSeats(T) = UnmetSeats(S) \ {<<w, a + 1>>}
  <2>1. \A s \in Seat : s = <<s[1], s[2]>> /\ s[2] \in Nat
    BY LimitsAssumption DEF Seat, ValidLimits
  <2>2. ASSUME NEW s \in ReservedSeats
        PROVE  Active(T, s[1]) < s[2] <=> Active(S, s[1]) < s[2] /\ s # <<w, a + 1>>
    <3>1. s \in Seat
      BY DEF ReservedSeats
    <3>2. CASE s[1] = w
      BY <1>3, <2>1, <3>1, <3>2
    <3>3. CASE s[1] # w
      BY <1>4, <3>3
    <3>. QED  BY <3>2, <3>3
  <2>. QED  BY <2>2 DEF UnmetSeats
<1>9. Reserved[w] \in Nat /\ Reserved[w] <= MaxConcurrent /\ MaxConcurrent \in Nat
  BY <1>1, LimitsAssumption DEF ValidLimits
<1>10. CASE a < Reserved[w]
  <2>0. a + 1 \in 1..MaxConcurrent /\ a + 1 <= Reserved[w] /\ a < a + 1
    BY <1>3, <1>9, <1>10
  <2>1. <<w, a + 1>> \in UnmetSeats(S)
    BY <1>1, <2>0 DEF UnmetSeats, ReservedSeats, Seat
  <2>2. Cardinality(UnmetSeats(T)) = Cardinality(UnmetSeats(S)) - 1
    <3> DEFINE U == UnmetSeats(S)
               e == <<w, a + 1>>
    <3>1. Cardinality(U \ {e}) = IF e \in U THEN Cardinality(U) - 1 ELSE Cardinality(U)
      <4> HIDE DEF U, e
      <4>. QED  BY <1>7, FS_RemoveElement DEF U
    <3>. QED  BY <1>8, <2>1, <3>1
  <2>3. ReservationsFree(T)
    BY <1>2, <1>7, <1>9, <2>2 DEF Fits, ReservationsFree
  <2>. QED  BY <1>5, <1>6, <2>3 DEF Fits
<1>11. CASE ~ (a < Reserved[w])
  <2>1. \A s \in UnmetSeats(S) : s[1] # w
    <3> SUFFICES ASSUME NEW s \in UnmetSeats(S), s[1] = w PROVE FALSE
      OBVIOUS
    <3>1. s[2] \in Nat /\ s[2] <= Reserved[w] /\ a < s[2]
      BY <1>9 DEF UnmetSeats, ReservedSeats, Seat
    <3> HIDE DEF a
    <3>. QED  BY <1>3, <1>9, <1>11, <3>1
  <2>2. {s \in UnmetSeats(S) : s[1] # w} = UnmetSeats(S)
    BY <2>1
  <2>3. UnmetSeats(T) = UnmetSeats(S)
    <3>1. <<w, a + 1>>[1] = w
      OBVIOUS
    <3>2. <<w, a + 1>> \notin UnmetSeats(S)
      BY <2>1, <3>1
    <3>. QED  BY <1>8, <3>2
  <2>4. ReservationsFree(T)
    BY <1>2, <1>7, <1>9, <2>2, <2>3 DEF HasRoom, UnmetReservations, ReservationsFree
  <2>. QED  BY <1>5, <1>6, <2>4 DEF Fits
<1>. QED  BY <1>10, <1>11
=============================================================================
