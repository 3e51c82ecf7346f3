------------------------- MODULE MCBehaviorExecution -------------------------
(* Instances of BehaviorExecution for TLC. *)
EXTENDS BehaviorExecution, TLC

OneEach == [a \in Agents |-> 1]

AgentSymmetry == Permutations(Agents)

(* The history variables, which no action and no property of the run with  *)
(* this view reads, are left out of the states.                            *)
WithoutHistory == <<agentAt, round, patience, executorVars, serverVars>>
=============================================================================
