---------------------------- MODULE MCAgentLoop ----------------------------
(* A small instance of AgentLoop: a tool that is always offered, the capped   *)
(* search, a third registered tool and one the registry does not have.        *)
EXTENDS AgentLoop

MCBatches == {<<"read">>, <<"search">>, <<"search", "edit">>, <<"fake">>}
=============================================================================
