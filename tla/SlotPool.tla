------------------------------ MODULE SlotPool ------------------------------
(***************************************************************************)
(* What a concurrency limiter promises, whatever keeps its state (the      *)
(* ConcurrencyLimiter contract, packages/agent/src/concurrency.ts, and the *)
(* rules at the head of selectConcurrencyGrants): the leases that are out  *)
(* always fit the limits, a lease id is granted at most once, and a lease  *)
(* that ended never comes back.                                            *)
(***************************************************************************)
CONSTANTS
  Lease,    \* the leases a limiter may ever grant
  Fits(_)   \* the sets of leases the limits allow at the same time

VARIABLES
  held,     \* the leases the limiter holds a slot for
  ended     \* the leases it held once and holds no more

poolVars == <<held, ended>>

PoolInit == held = {} /\ ended = {}

\* Some leases end (released or expired) and some waiting requests get one.
\* One database transaction of a limiter may do both.
PoolStep ==
  \E over \in SUBSET held, new \in SUBSET (Lease \ (held \cup ended)) :
     /\ held' = (held \ over) \cup new
     /\ ended' = ended \cup over
     /\ Fits(held')

PoolSpec == PoolInit /\ [][PoolStep]_poolVars
=============================================================================
