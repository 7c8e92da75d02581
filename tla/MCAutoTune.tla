----------------------------- MODULE MCAutoTune -----------------------------
(* TLC instances of AutoTune: all constants are given in the cfg files. *)
EXTENDS AutoTune
=============================================================================
