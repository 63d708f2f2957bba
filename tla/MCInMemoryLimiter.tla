-------------------------- MODULE MCInMemoryLimiter --------------------------
(***************************************************************************)
(* Instances of InMemoryLimiter for TLC: an interactive workload with a    *)
(* reservation and a higher priority, a background workload that is the    *)
(* default, and one request for a workload nobody configured.              *)
(***************************************************************************)
EXTENDS InMemoryLimiter, TLC

CONSTANTS i1, i2, b1, b2, b3, x, interactive, background, unknown

MCWorkload == {interactive, background}

MCReserved == (interactive :> 1) @@ (background :> 0)
MCPriority == (interactive :> 1) @@ (background :> 0)

\* Three slots; interactive may use one, so its ceiling binds before the total.
CeilingMax == (interactive :> 1) @@ (background :> MaxConcurrent)

\* Two slots; only the reservation limits background.
NoCeiling == [w \in MCWorkload |-> MaxConcurrent]

MCAsked ==
  [r \in Request |->
     CASE r \in {i1, i2} -> interactive
       [] r = x -> unknown
       [] r = b1 -> Undefined
       [] OTHER -> background]

\* b1 has a run budget of two units, interactive a wait limit of one.
MCTimeoutMs == [r \in Request |-> IF r = b1 THEN 2 ELSE Off]
MCMaxWaitMs == (interactive :> 1) @@ (background :> Off)

\* Nobody has a wait limit.
NoTimeout == [r \in Request |-> Off]
NoMaxWait == [w \in MCWorkload |-> Off]

Symmetry == Permutations({i1, i2} \cap Request)
            \cup Permutations({b2, b3} \cap Request)
=============================================================================
