----------------------------- MODULE OpenedRadio -----------------------------
(***************************************************************************)
(* OpenFlow with the scripts of BringUp, and what the registers of an      *)
(* opened Receiver say.  The decoding follows the registers' meaning, not  *)
(* the code that wrote them.                                               *)
(***************************************************************************)
EXTENDS OpenFlow, BringUp

\* What OpenFlow leaves open.
ASSUME RadioAssumption ==
  /\ ChipRegs = BasebandRegs /\ TunerRegs = R860Regs /\ Bits = 0..15
  /\ SoftReset = "SoftReset"
  /\ \A k \in DOMAIN Script : Script[k] = ConfigureChipAndTuner(k[1], k[2])

\* What options.go hands over, in kHz: not yet checked, whatever its range.
Stages == [auto : BOOLEAN, step : Nat]
ASSUME ConfigAssumption ==
  \A c \in Configs :
    /\ c.rate \in Nat /\ c.rf \in Nat
    /\ c.lna \in Stages /\ c.mixer \in Stages /\ c.vga \in Stages
    /\ c.ifBandwidth \in Seq([coarse : Nat, fine : Nat]) /\ Len(c.ifBandwidth) <= 1
    /\ c.ifHighPass \in Seq(Nat) /\ Len(c.ifHighPass) <= 1
    /\ c.filterExt \in Seq(BOOLEAN) /\ Len(c.filterExt) <= 1
    /\ c.biasTee \in Seq([gpio : Nat, enable : BOOLEAN]) /\ Len(c.biasTee) <= 1

\* A register's value, bit by bit, and a field of it.
Number(bits) ==
  LET w(b) == IF b \in bits THEN 2^b ELSE 0
  IN w(0) + w(1) + w(2) + w(3) + w(4) + w(5) + w(6) + w(7)
     + w(8) + w(9) + w(10) + w(11) + w(12) + w(13) + w(14) + w(15)
Field(reg, mask) == Number(tuner[reg] \cap BitsOf(mask))

\* The IF the demodulator mixes down, from a 22 bit two's complement.
DDCFreq ==
  LET e == Number(chip["IFFreqHi"]) * 65536 + Number(chip["IFFreqMid"]) * 256
             + Number(chip["IFFreqLo"])
      m == 2^22 - e
  IN ((m \div 2048) * Xtal + ((m % 2048) * Xtal) \div 2048) \div 2048

\* The VCO the PLL locks to.
VCOFreq ==
  2 * Xtal * (4 * Field(20, \h0f) + Field(20, \hc0) \div 64 + 13)
  + ((Field(22, \hff) * 256 + Field(21, \hff)) * 225) \div 256

\* The centre of the band-pass filter, from its corners.
FilterCentre ==
  CASE Field(10, \h10) # 0 /\ Field(11, \hef) = \h6b -> 3570
    [] Field(10, \h10) # 0 /\ Field(11, \hef) # \h6b -> 4570
    [] OTHER ->
         LET hp == (IF Field(11, \h20) = 0 THEN 380 ELSE 0)
                   + (IF Field(11, \h40) = 0 THEN 350 ELSE 0)
             lp == IFLowPassBw[16 - Field(11, \h0f)]
         IN 2300 + hp - (hp + lp) \div 2

Near(x, y, d) == x <= y + d /\ y <= x + d

\* The tuner's oscillator, its IF filter and the demodulator's DDC agree: the
\* VCO is in its octave, the LO divided from it is off the requested frequency by
\* the IF that the DDC removes, up to the resolutions of both, and, unless the
\* caller overrides the filter, that is the middle of its pass band
\* (usbfs_linux.go:320).
OneIF ==
  pc = "opened" =>
    /\ VCOFreq + 2 >= VCOMin /\ VCOFreq <= 2 * VCOMin + 1
    /\ \E m \in 1..6 : Near(VCOFreq, (cfg.rf + DDCFreq) * 2^m, 2^m + 2)
    /\ cfg.ifBandwidth = <<>> /\ cfg.ifHighPass = <<>> => Near(DDCFreq, FilterCentre, 1)

\* The endpoint runs and the demodulator is set up for a real IF on one ADC;
\* the tuner's loop-through is off (demod_for_r820t.go:14,
\* tuner_r860_postinit.go:16: otherwise one channel is noise).
Streaming ==
  pc = "opened" =>
    /\ chip["EPA_CTL"] = {} /\ chip["SoftReset"] = BitsOf(\h10)
    /\ 0 \notin chip["ZeroIF"] /\ 7 \notin chip["ADCInput"] /\ chip["SpectrumInv"] = {0}
    /\ chip["AGCLoop"] = {} /\ 0 \notin chip["AGCEnable"]
    /\ 7 \notin tuner[5]

\* The rate of the resampler, as the chip expands the register: bit 27 is
\* repeated as bit 28, which the register does not have (sample_rate.go:147).
RateAsAsked ==
  LET ratio == Number(chip["RSampRatioHi"]) * 65536 + Number(chip["RSampRatioLo"])
      expanded == ratio + (IF 11 \in chip["RSampRatioHi"] THEN 2^28 ELSE 0)
  IN Near((expanded \div 4096) * cfg.rate, Xtal * 1024, cfg.rate)

StageIs(stage, manual, value, auto) ==
  IF stage.auto THEN auto ELSE manual /\ value = stage.step

\* The rate and every option asked for are in their fields, whatever the later
\* writes to the same registers were.
AsAsked ==
  pc = "opened" =>
    /\ RateAsAsked
    /\ StageIs(cfg.lna, 4 \in tuner[5], Field(5, \h0f), 4 \notin tuner[5])
    /\ StageIs(cfg.mixer, 4 \notin tuner[7], Field(7, \h0f), 4 \in tuner[7])
    /\ StageIs(cfg.vga, 4 \notin tuner[12], Field(12, \h0f), Field(12, \h0f) = 11)
    /\ \A b \in ToSet(cfg.ifBandwidth) :
         Field(11, \h60) = b.coarse * 32 /\ Field(10, \h0f) = b.fine
    /\ \A code \in ToSet(cfg.ifHighPass) : Field(11, \h0f) = code
    /\ \A on \in ToSet(cfg.filterExt) : (6 \in tuner[30]) = on
    /\ \A b \in ToSet(cfg.biasTee) :
         b.gpio \notin chip["GPD"] /\ b.gpio \in chip["GPOE"]
         /\ (b.gpio \in chip["GPO"]) = b.enable
=============================================================================
