------------------------------ MODULE TunerOps ------------------------------
(***************************************************************************)
(* The bodies of the R820T/R860's operations as TunerBus programs: which   *)
(* bits of which registers each transaction assigns, in order.             *)
(***************************************************************************)
EXTENDS Integers, Sequences

R860Regs == 0..31
R860Bits == 0..7

BitsOf(n) == {b \in 0..15 : (n \div 2^b) % 2 = 1}

\* writeRegisterMasked and writeRegister, as transactions of one register.
Masked(reg, val, mask) == [r \in {reg} |-> [val |-> BitsOf(val), mask |-> BitsOf(mask)]]
Whole(reg, val) == Masked(reg, val, 255)

Body(writes) == [writes |-> writes, ok |-> TRUE]
Stops(writes) == [writes |-> writes, ok |-> FALSE]
Rejected == Stops(<<>>)

StepCount == 16  \* r860GainStepCount, r860FilterStepCount
----------------------------------------------------------------------------
(* Gain stages.  A stage is [auto, step]; the LNA's mode bit is 1 for manual *)
(* and the mixer's is 0.                                                     *)

ManualGainStep(step) == [auto |-> FALSE, step |-> IF step > 15 THEN 15 ELSE step]

SetLNAGain(stage) ==
  CASE stage.auto -> Body(<<Masked(5, 0, 16)>>)
    [] ~stage.auto /\ stage.step < StepCount -> Body(<<Masked(5, 16 + stage.step, 31)>>)
    [] OTHER -> Rejected

SetMixerGain(stage) ==
  CASE stage.auto -> Body(<<Masked(7, 16, 16)>>)
    [] ~stage.auto /\ stage.step < StepCount -> Body(<<Masked(7, stage.step, 31)>>)
    [] OTHER -> Rejected

\* Auto pins VGA_CODE to 0x0b and leaves VGA_MODE at 0.
SetVGAGain(stage) ==
  CASE stage.auto -> Body(<<Masked(12, 11, 159)>>)
    [] ~stage.auto /\ stage.step < StepCount -> Body(<<Masked(12, stage.step, 31)>>)
    [] OTHER -> Rejected
----------------------------------------------------------------------------
(* The IF filter.                                                          *)

\* Seeded bug: the coarse bandwidth lands one bit too high.
SetIFBandwidthShifted(coarse, fine) ==
  Body(<<Masked(11, coarse * 64, 96), Masked(10, fine, 15)>>)

\* Coarse then fine: two registers, two transactions.
SetIFBandwidth(coarse, fine) ==
  IF coarse < 4 /\ fine < StepCount
  THEN Body(<<Masked(11, coarse * 32, 96), Masked(10, fine, 15)>>)
  ELSE Rejected

SetIFHighPass(code) ==
  IF code < StepCount THEN Body(<<Masked(11, code, 15)>>) ELSE Rejected

SetFilterExt(enable) == Body(<<Masked(30, IF enable THEN 64 ELSE 0, 64)>>)
=============================================================================
