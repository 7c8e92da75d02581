----------------------------- MODULE MCProbeTui -----------------------------
(* TLC instances of ProbeTui. *)
EXTENDS ProbeTui
\* Nothing is quiet, one stage below the top, everything.
AllLimits == {-1, 2 * Top, 3 * Top}
=============================================================================
