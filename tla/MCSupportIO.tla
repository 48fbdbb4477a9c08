---------------------------- MODULE MCSupportIO ----------------------------
(* Instances of SupportIO for TLC.                                         *)
EXTENDS SupportIO, TLC

(* A string that ends before the length, one that goes on behind it, and   *)
(* one that ends at once.                                                  *)
ThreeStrings == {<<"x", EOS, "y">>, <<"x", "y", "x">>, <<EOS, "x", "x">>}
(* Lengths from one that is negative to one that is too long.              *)
AllLens == -1..4
=============================================================================
