--------------------------- MODULE MCAgentStream ---------------------------
(* Model-checking instance of AgentStream: a tool that is sent and one that   *)
(* is not, one repair turn.                                                   *)
EXTENDS AgentStream

CONSTANTS bash, submitResult
=============================================================================
