----------------------------- MODULE MCAgentTurn -----------------------------
(* Instances of AgentTurn for TLC: ls is on the allow list, rm needs an    *)
(* approval and a second confirmation, deploy is the script of a skill.    *)
EXTENDS AgentTurnInv

CONSTANTS ls, rm, deploy

OneCommand == {rm}
TwoCommands == {ls, rm}
ThreeCommands == {ls, rm, deploy}
ReadOnly == {ls}
Secret == {rm}
Scripts == {deploy}
=============================================================================
