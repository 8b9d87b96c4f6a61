---------------------------- MODULE MCRunExecution ----------------------------
(* Instances of RunExecution for TLC: small definition graphs.              *)
EXTENDS RunExecution, TLC

\* A condition that picks one of two steps.
BranchEdges == [s \in {"cond", "left", "right"} |->
  IF s = "cond" THEN {"left", "right"} ELSE {"none"}]

\* An approval, then a step.
GateEdges == [s \in {"gate", "last"} |-> IF s = "gate" THEN {"last"} ELSE {"none"}]

\* A step, then an approval that ends the workflow.
TerminalGateEdges == [s \in {"first", "gate"} |-> IF s = "first" THEN {"gate"} ELSE {"none"}]

\* What the bounds on attempts are proved for.
ASSUME InstancesAreAcyclic == IsAcyclic

WorkerSymmetry == Permutations(Workers)
===============================================================================
