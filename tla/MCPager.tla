------------------------------ MODULE MCPager ------------------------------
(***************************************************************************)
(* An instance of Pager for TLC: one bitmap chunk, two data pages.         *)
(***************************************************************************)
EXTENDS Pager

CONSTANT v1

\* The first session ends in a loss of power, the second in any way.
PowerFirst == <<{"power"}, {"power", "process", "close"}>>
=============================================================================
