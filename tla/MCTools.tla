------------------------------ MODULE MCTools ------------------------------
(***************************************************************************)
(* ToolsSpec for TLC.  Bounds are small, but let a chain cross pages, a    *)
(* chunk of pages be split, a level of the cache search be refined twice,  *)
(* a copy end in a part of a block, every function of the calibration be   *)
(* the first one called, two processes with a child each have a processor  *)
(* of their own or too few of them, and a tree of files have three levels. *)
(* The bounds of what is proved for any size are constants, with values in *)
(* MCTools.cfg.                                                            *)
(***************************************************************************)
EXTENDS ToolsProofs

(* 6 is a common multiple of the counts of Results, so u * 6 / n orders    *)
(* the values as u / (double) n does.                                      *)
MCRate(u, n) == (6 * u) \div n
MCRequests == {-1, 0, 1, 3}
MCCustom == <<2, 0, 1>>
=============================================================================
