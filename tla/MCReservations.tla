---------------------------- MODULE MCReservations ----------------------------
(* A worker process with two slots and one other process compete for one    *)
(* operation class of a workspace.                                          *)
EXTENDS Reservations, TLC

CONSTANTS slotA, slotB, other, worker, process

TwoProcesses == [c \in Clients |-> IF c = other THEN process ELSE worker]

(* Slots of one process, reservation ids and sources are interchangeable.   *)
Symmetry == Permutations({slotA, slotB}) \cup Permutations(Rows) \cup Permutations(Sources)
===============================================================================
