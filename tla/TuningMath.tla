----------------------------- MODULE TuningMath -----------------------------
(***************************************************************************)
(* The arithmetic of Open in Hz and at its real precision: the corrected   *)
(* crystal, the resampler's ratio (sample_rate.go), the filter of a sample *)
(* rate (tuner_r860_bandwidth.go), the PLL (tuner_r860_pll.go) and the     *)
(* gain ladder (gain_librtlsdr.go).                                        *)
(*                                                                         *)
(* The code computes in 64 bits.  Its products are all n * 2^k \div d,     *)
(* which Shifted computes without ever exceeding 2 * d.                    *)
(***************************************************************************)
EXTENDS Integers, Sequences, FiniteSets

\* Quotient and remainder of n * 2^k by d.
Shifted(n, k, d) ==
  LET doubled[i \in 0..k] ==
        IF i = 0 THEN [quot |-> n \div d, rest |-> n % d]
        ELSE LET half == doubled[i - 1]
                 carry == IF 2 * half.rest >= d THEN 1 ELSE 0
             IN [quot |-> 2 * half.quot + carry, rest |-> 2 * half.rest - carry * d]
  IN doubled[k]
----------------------------------------------------------------------------
(* The crystal and the resampler.                                          *)

ReferenceClock == 28800000
PPMMax == 1000  \* FrequencyCorrectionPPMMax

\* 28.8 Hz per ppm, truncated towards zero as Go's division is.
EffectiveXtal(ppm) ==
  LET moved == (288 * (IF ppm < 0 THEN -ppm ELSE ppm)) \div 10
  IN IF ppm < 0 THEN ReferenceClock - moved ELSE ReferenceClock + moved

SampleRateMin == 225000  \* exclusive, as is the end of the gap
SampleRateGapStart == 300000
SampleRateGapEnd == 900000
SampleRateMax == 3200000

\* Seeded bug: the gap's end is accepted.
ValidRateClosedGap(rate) ==
  /\ rate > SampleRateMin /\ rate <= SampleRateMax
  /\ ~(rate > SampleRateGapStart /\ rate < SampleRateGapEnd)

ValidRate(rate) ==
  /\ rate > SampleRateMin /\ rate <= SampleRateMax
  /\ ~(rate > SampleRateGapStart /\ rate <= SampleRateGapEnd)

\* rsampRatioMask keeps 28 bits and clears the lowest two.
ResamplerRatio(rate, xtal) ==
  LET ratio == Shifted(xtal, 22, rate).quot % 2^28
  IN ratio - (ratio % 4)

\* The ratio the chip works with repeats bit 27 as bit 28.
Expanded(ratio) == ratio + IF ratio >= 2^27 THEN 2^28 ELSE 0

ActualRate(ratio, xtal) ==
  IF ratio = 0 THEN 0 ELSE Shifted(xtal, 22, Expanded(ratio)).quot
----------------------------------------------------------------------------
(* SetBandwidthForSampleRate: the high-pass corners used, the low-pass      *)
(* corner, and the IF.                                                     *)

HighPass1 == 350000
HighPass2 == 380000
LowPassCorners ==
  <<1700000, 1600000, 1550000, 1450000, 1200000, 900000, 700000, 550000, 450000, 350000>>

\* Seeded bug: one more step back, as if the index were not off by one.
LowPassIndexNext(left) == 1 + Cardinality({i \in 1..9 : left <= LowPassCorners[i]})

\* The first corner below what is left, then one back.
LowPassIndex(left) == Cardinality({i \in DOMAIN LowPassCorners : left <= LowPassCorners[i]})

\* The shapes for wider signals have a fixed IF; width 0 stands for theirs.
IFFilter(bw) ==
  CASE bw > 6000000 -> [width |-> 0, low |-> 0, if |-> 4570000]
    [] bw > 2430000 /\ bw <= 6000000 -> [width |-> 0, low |-> 0, if |-> 3570000]
    [] OTHER ->
         LET hp2 == IF bw > 2050000 THEN HighPass2 ELSE 0
             hp1 == IF bw - hp2 > 1700000 THEN HighPass1 ELSE 0
             low == LowPassCorners[LowPassIndex(bw - hp2 - hp1)]
         IN [width |-> hp2 + hp1 + low, low |-> low, if |-> 2300000 + hp2 + hp1 - (hp2 + hp1 + low) \div 2]
----------------------------------------------------------------------------
(* The PLL.  All of it is computed from the LO's frequency, in Hz.          *)

VCOMin == 1770000000
VCOPowerRef == 2
NintMin == 13
NintMax == 76

\* pickMixDiv: the exponents of the dividers that put the VCO in its octave,
\* VCOMin <= lo * 2^k < 2 * VCOMin.
MixDivs(lo) == {k \in 1..6 : lo > (VCOMin - 1) \div 2^k /\ lo <= (VCOMin - 1) \div 2^(k - 1)}

\* Seeded bug: the residual is compared with half of the step it is reduced by.
SDMHalfStep(frac, twoXtal) ==
  LET acc[k \in 0..15] ==
        IF k = 0 THEN [rest |-> frac, sdm |-> 0]
        ELSE LET prev == acc[k - 1]
                 step == twoXtal \div 2^k
             IN IF prev.rest > 1 /\ prev.rest > step \div 2
                THEN [rest |-> prev.rest - step, sdm |-> prev.sdm + 2^(16 - k)] ELSE prev
  IN acc[15].sdm

\* computeSDM, in kHz: halves of twoXtal are taken off frac while they fit.  At
\* 2^15 the step is 1 kHz and a residual above 1 always exceeds it.
SDM(frac, twoXtal) ==
  LET acc[k \in 0..15] ==
        IF k = 0 THEN [rest |-> frac, sdm |-> 0]
        ELSE LET prev == acc[k - 1]
                 step == twoXtal \div 2^k
             IN IF prev.rest > 1 /\ prev.rest > step
                THEN [rest |-> prev.rest - step, sdm |-> prev.sdm + 2^(16 - k)] ELSE prev
  IN acc[15].sdm

\* The dividers computePLLSettings succeeds with: none, or one.
PLLDivs(lo, xtal, fineTune) ==
  {k \in MixDivs(lo) :
     /\ ~(fineTune > VCOPowerRef /\ k = 1)
     /\ Shifted(lo, k, 2 * xtal).quot \in NintMin..NintMax}

PLLSettings(lo, xtal, fineTune, k) ==
  LET vco == Shifted(lo, k, 2 * xtal)
  IN [divNum |-> k - 1 + (IF fineTune < VCOPowerRef THEN 1 ELSE 0)
                       - (IF fineTune > VCOPowerRef THEN 1 ELSE 0),
      ni |-> (vco.quot - NintMin) \div 4, si |-> (vco.quot - NintMin) % 4,
      sdm |-> SDM(vco.rest \div 1000, (2 * xtal) \div 1000)]
----------------------------------------------------------------------------
(* librtlsdr's gain ladder: LNA and mixer go up in turns.                   *)

LNAGainSteps == <<9, 13, 40, 38, 13, 31, 22, 26, 31, 26, 14, 19, 5, 35, 13>>
MixerGainSteps == <<5, 10, 10, 19, 9, 10, 25, 17, 10, 8, 16, 13, 6, 3, -8>>
Rungs == 0..30

LNAOf(rung) == (rung + 1) \div 2
MixerOf(rung) == rung \div 2

\* The gain of a rung, in tenths of a dB.
RungGain ==
  LET total[rung \in Rungs] ==
        IF rung = 0 THEN 0
        ELSE total[rung - 1] + IF rung % 2 = 1 THEN LNAGainSteps[LNAOf(rung)]
                               ELSE MixerGainSteps[MixerOf(rung)]
  IN total

\* Seeded bug: one rung too low.
GainRungBelow(tenthsDB) ==
  LET climb[rung \in Rungs] ==
        IF rung = 30 \/ RungGain[rung] >= tenthsDB THEN rung ELSE climb[rung + 1]
  IN IF climb[0] = 0 THEN 0 ELSE climb[0] - 1

\* librtlsdrGainSteps climbs until the target is reached.
GainRung(tenthsDB) ==
  LET climb[rung \in Rungs] ==
        IF rung = 30 \/ RungGain[rung] >= tenthsDB THEN rung ELSE climb[rung + 1]
  IN climb[0]
=============================================================================
