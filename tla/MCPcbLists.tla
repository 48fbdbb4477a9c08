----------------------------- MODULE MCPcbLists ----------------------------
(* Instances of PcbLists for TLC.                                          *)
EXTENDS PcbLists, TLC

CONSTANTS p1, p2, p3, p4, s1, s2

(* Pcbs are only compared, and the table may be in any order.              *)
Symmetry == Permutations(Procs)
=============================================================================
