----------------------------- MODULE MCProbeRun -----------------------------
(* TLC instance of ProbeRun. *)
EXTENDS ProbeRun

ThreePorts == 1..3

Default ==
  [seconds |-> 0, version |-> FALSE, captureBytes |-> 3, probeBytes |-> 3, noProbe |-> FALSE, capture |-> FALSE,
   device |-> 0, autoGain |-> FALSE]

\* A probe, captures of a fraction of a chunk and of a whole number of them, with
\* and without a probe, counts that are refused, and seconds whose bytes are
\* negative, positive and exact in four bits' integers.
Lines ==
  {Default,
   [Default EXCEPT !.capture = TRUE, !.device = 1],
   [Default EXCEPT !.capture = TRUE, !.noProbe = TRUE, !.captureBytes = 4, !.autoGain = TRUE],
   [Default EXCEPT !.capture = TRUE, !.probeBytes = 0, !.seconds = 1, !.device = 2],
   [Default EXCEPT !.capture = TRUE, !.seconds = 4],
   [Default EXCEPT !.capture = TRUE, !.seconds = 2],
   [Default EXCEPT !.seconds = -1],
   [Default EXCEPT !.version = TRUE],
   [Default EXCEPT !.captureBytes = 0],
   [Default EXCEPT !.probeBytes = -1],
   [Default EXCEPT !.device = -1]}
=============================================================================
