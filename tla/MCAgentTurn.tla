---------------------------- MODULE MCAgentTurn ----------------------------
(* Small instances of AgentTurn: every turn is on the one conversation. *)
EXTENDS AgentTurn, TLC

CONSTANT c1

MCConvOf == [t \in Turn |-> c1]

Symmetry == Permutations(Turn)
=============================================================================
