---------------------------- MODULE MCPiSession ------------------------------
(***************************************************************************)
(* Instances of PiSession for TLC: three runs on one session id, with and   *)
(* without a gate, the last with other tools.                              *)
(***************************************************************************)
EXTENDS PiSession, TLC

CONSTANTS r1, r2, r3

TwoToolSets == (r1 :> "a") @@ (r2 :> "a") @@ (r3 :> "b")
MCKinds == (r1 :> {"result"}) @@ (r2 :> {"result"}) @@ (r3 :> {"approval"})
LastOne == (r1 :> {}) @@ (r2 :> {}) @@ (r3 :> {r1, r2})
=============================================================================
