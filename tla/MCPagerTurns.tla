---------------------------- MODULE MCPagerTurns ----------------------------
(* Instances of PagerTurns for TLC.                                        *)
EXTENDS PagerTurns, TLC

CONSTANTS a1, a2, a3, n1

AllTouched == Asids \X PageNos

(* What decides who makes which step: everything but what the pages hold.  *)
Control == <<sp_tbl, sp_sem, sp_queue, sp_asids, frame_top, pte, tlb, flash_sem,
             pc, job, tmp, turn>>
=============================================================================
