----------------------------- MODULE MCNucleus -----------------------------
(* Instances of Nucleus for TLC.                                           *)
EXTENDS NucleusLife, TLC

CONSTANTS p1, p2, p3, p4, s1, s2, d1, d2, clk

(* Processes are interchangeable: pids are only compared.                  *)
Symmetry == Permutations(Procs)

(* High priority processes without and low priority ones with a support     *)
(* structure: the two attributes are read by different handlers.           *)
TwoKinds == {<<"high", FALSE>>, <<"low", TRUE>>}
AllKinds == Prios \X BOOLEAN

(* Keep, defined by ranks, is the subsequence of the elements in S.        *)
ASSUME KeepIsSelectSeq ==
  \A S \in SUBSET (1..3), q \in UNION {[1..n -> 1..3] : n \in 0..4} :
    Keep(q, S) = SelectSeq(q, LAMBDA x : x \in S)
=============================================================================
