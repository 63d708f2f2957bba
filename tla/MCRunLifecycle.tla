--------------------------- MODULE MCRunLifecycle ----------------------------
(***************************************************************************)
(* Instances of RunLifecycle for TLC.  Three runs: r1 and r2 on one thread, *)
(* r2 after r1; r3 without a thread, next to them in the sandbox of r1 or   *)
(* on a clone of their thread.                                             *)
(***************************************************************************)
EXTENDS RunLifecycle, TLC

CONSTANTS r1, r2, r3, t1, t2, h, h2

OneThread == (r1 :> t1) @@ (r2 :> t1) @@ (r3 :> None)
SharedHandle == (r1 :> h) @@ (r2 :> None) @@ (r3 :> h)
OneByOne == (r1 :> {}) @@ (r2 :> {r1, r3}) @@ (r3 :> {})
MCRaises ==
  (r1 :> {"other", "copy", "teardown"}) @@ (r3 :> {})
  @@ (r2 :> {"credential", "aborted", "timeout"})
NoClones == [r \in Run |-> None]

\* The branch of r3 next to r2.
Forked == (r1 :> t1) @@ (r2 :> t1) @@ (r3 :> t2)
OwnSandboxes == [r \in Run |-> None]
BothAfterFirst == (r1 :> {}) @@ (r2 :> {r1}) @@ (r3 :> {r1})
CloneOfFirst == (r1 :> None) @@ (r2 :> None) @@ (r3 :> t1)

\* One after the other on one thread, the second in another sandbox.
AllOnOne == [r \in Run |-> t1]
InTurn == (r1 :> {}) @@ (r2 :> {r1}) @@ (r3 :> {r2})
ThereAndBack == (r1 :> h) @@ (r2 :> h2) @@ (r3 :> h)
FirstBreaks == (r1 :> {"other"}) @@ (r2 :> {}) @@ (r3 :> {})
=============================================================================
