---------------------------- MODULE MCAgentService ----------------------------
(* Small instances of AgentService: ids, keys and material are numbers, so *)
(* a .cfg with their bounds is all an instance needs.                      *)
EXTENDS AgentService

===============================================================================
