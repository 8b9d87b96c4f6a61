------------------------------ MODULE MCDispatch ------------------------------
(* Worker processes p and q: each runs dispatch passes and has worker slots *)
(* under one id, as startWorkflowWorker arranges it.                        *)
EXTENDS Dispatch, TLC

CONSTANTS pass1, pass2, slot1, slot2, p, q

ProcessOf == [x \in Dispatchers \cup Workers |-> IF x \in {pass1, slot1} THEN p ELSE q]

(* The two processes are interchangeable, each with its pass and its slot.  *)
SwapProcesses ==
  {f \in Permutations({pass1, pass2, slot1, slot2, p, q}) :
     /\ {f[pass1], f[pass2]} = {pass1, pass2} /\ {f[slot1], f[slot2]} = {slot1, slot2}
     /\ \A x \in {pass1, pass2, slot1, slot2} : f[ProcessOf[x]] = ProcessOf[f[x]]}
===============================================================================
