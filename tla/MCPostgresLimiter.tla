-------------------------- MODULE MCPostgresLimiter --------------------------
(***************************************************************************)
(* Instances of PostgresLimiter for TLC: two or three requests of two      *)
(* workloads, where interactive has a reservation, and constants that say  *)
(* which requests meet which trouble.                                      *)
(***************************************************************************)
EXTENDS PostgresLimiter, TLC

CONSTANTS i1, b1, b2, b3, interactive, background

MCWorkload == {interactive, background}

MCReserved == (interactive :> 1) @@ (background :> 0)
NoReserved == [w \in MCWorkload |-> 0]
MCPriority == (interactive :> 1) @@ (background :> 0)
NoCeiling == [w \in MCWorkload |-> MaxConcurrent]

MCAsked == [r \in Request |-> IF r = i1 THEN interactive ELSE Undefined]

\* b1 has a run budget of one unit; nobody else has a wait limit.
MCTimeoutMs == [r \in Request |-> IF r = b1 THEN 1 ELSE Off]
NoTimeout == [r \in Request |-> Off]
NoMaxWait == [w \in MCWorkload |-> Off]

Symmetry == Permutations({b2, b3} \cap Request)
=============================================================================
