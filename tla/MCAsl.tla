------------------------------- MODULE MCAsl -------------------------------
(* The instance of Asl for TLC: as many descriptors as processes, and one  *)
(* semaphore more than descriptors.                                        *)
EXTENDS Asl, TLC

CONSTANTS p1, p2, p3, k1, k2, k3, k4

(* Processes and keys are only compared.                                   *)
Symmetry == Permutations(Procs) \union Permutations(Keys)
=============================================================================
