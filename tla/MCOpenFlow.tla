----------------------------- MODULE MCOpenFlow -----------------------------
(* TLC instance of OpenedRadio. *)
EXTENDS OpenedRadio

AutoStage == [auto |-> TRUE, step |-> 0]

\* Aircraft transponders, the driver's purpose: the LO needs divider 2, the rate
\* the filter's default branch.
Adsb ==
  [rate |-> 2400, rf |-> 1090000, lna |-> ManualGainStep(15), mixer |-> AutoStage,
   vga |-> ManualGainStep(8), ifBandwidth |-> <<>>, ifHighPass |-> <<>>,
   filterExt |-> <<>>, biasTee |-> <<>>]

\* A low rate, divider 32, and every override.
Broadcast ==
  [rate |-> 250, rf |-> 98500, lna |-> AutoStage, mixer |-> ManualGainStep(3),
   vga |-> AutoStage, ifBandwidth |-> <<[coarse |-> 2, fine |-> 5]>>, ifHighPass |-> <<7>>,
   filterExt |-> <<FALSE>>, biasTee |-> <<[gpio |-> 4, enable |-> TRUE]>>]

\* The highest rate, with the other shape of the filter.
Wide ==
  [Adsb EXCEPT !.rate = 3200, !.rf = 433920, !.biasTee = <<[gpio |-> 4, enable |-> FALSE]>>]

\* An LO (885000 kHz) that puts the VCO on the lowest frequency of its octave: what
\* the demodulator removes is 1 kHz less than the IF, so the carrier it hears is not.
Octave == [Adsb EXCEPT !.rf = 883185]

\* A rate in the resampler's gap.
Gap == [Adsb EXCEPT !.rate = 600]

AllConfigs == {Adsb, Broadcast, Wide, Octave, Gap}
AllCalibrations == 0..3
WordBits == 0..15

\* @@ makes TLC tabulate the function instead of computing a script at each use.
AllScripts ==
  [k \in AllConfigs \X AllCalibrations |-> ConfigureChipAndTuner(k[1], k[2])] @@ <<>>

\* The tuner's registers and the baseband's are unknown after power-on, except
\* that the repeater is closed.
PoweredChip == [r \in BasebandRegs |-> IF r = "SoftReset" THEN {4} ELSE {0, 7}]
PoweredTuner == [r \in R860Regs |-> {0, 7}]
=============================================================================
