-------------------------- MODULE MCRunConcurrency --------------------------
(* Model-checking instance of RunConcurrency: one request is followed, any    *)
(* other request of the run may fail at any moment.                           *)
EXTENDS RunConcurrency

CONSTANTS r1

OneRequest == {r1}
=============================================================================
