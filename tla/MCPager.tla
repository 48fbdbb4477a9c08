------------------------------ MODULE MCPager ------------------------------
(* Instances of Pager for TLC.                                             *)
EXTENDS Pager, TLC

CONSTANTS a1, a2, n1, n2

(* Every page, or all but one.                                             *)
AllTouched == Asids \X PageNos
OneLess == AllTouched \ {<<a2, n2>>}
=============================================================================
