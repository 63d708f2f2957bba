------------------------- MODULE MCCredentialStore -------------------------
(* Model-checking instance of CredentialStore: two callers in a process with  *)
(* an encryption key, one of which refreshes; one in a process without.       *)
EXTENDS CredentialStore

CONSTANTS c1, c2, c3, p1, p2, openai, anthropic

Does(k, p) == [kind |-> k, provider |-> p]
Callers == {c1, c2, c3}
ProcOfCaller == [c \in Callers |-> IF c = c3 THEN p2 ELSE p1]
OpsOfCaller == [c \in Callers |->
  CASE c = c1 -> {Does("refresh", openai)}
    [] c = c2 -> {Does("delete", anthropic), Does("read", openai)}
    [] c = c3 -> {Does("refresh", openai)}]
=============================================================================
