--------------------------- MODULE MCSupportTurns ---------------------------
(* Instances of SupportTurns for TLC.                                      *)
EXTENDS SupportTurns, TLC

(* A string that ends before the length, one that goes on behind it, and   *)
(* one that ends at once.                                                  *)
ThreeStrings == {<<"x", EOS>>, <<"x", "y">>, <<EOS, "x">>}
(* Lengths from one that is negative to one that is too long.              *)
AllLens == -1..3
=============================================================================
