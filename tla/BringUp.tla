------------------------------- MODULE BringUp -------------------------------
(***************************************************************************)
(* The scripts of OpenFlow: what Init, configureForR820T, NewR860 and the  *)
(* rest of configureChipAndTuner write, in order.  Frequencies and rates   *)
(* are in kHz, the crystal is uncorrected.                                 *)
(***************************************************************************)
EXTENDS TunerOps, SequencesExt

Xtal == 28800  \* referenceClockHz

BasebandRegs ==
  {"SYSCTL", "EPA_MAXPKT", "EPA_CTL", "DEMOD_CTL1", "DEMOD_CTL", "GPO", "GPOE", "GPD",
   "SoftReset", "AGCLoop", "ADCDatapath", "ADCInput", "ClockOutput", "AGCEnable",
   "SpectrumInv", "ACRHi", "ACRLo", "DDC", "IFFreqHi", "IFFreqMid", "IFFreqLo", "FIR",
   "SDRMode", "PIDFilter", "FSM1", "FSM2", "ZeroIF", "RSampRatioHi", "RSampRatioLo"}
----------------------------------------------------------------------------
(* Operations.                                                             *)

\* Rows <<register, value, mask>> of different registers, sent in order.
Batch(unit, rows) ==
  [unit |-> unit, ok |-> TRUE, repeater |-> unit = "tuner",
   set |-> [r \in {rows[i][1] : i \in DOMAIN rows} |->
              LET i == CHOOSE i \in DOMAIN rows : rows[i][1] = r
              IN [val |-> BitsOf(rows[i][2]), mask |-> BitsOf(rows[i][3])]],
   parts |-> {{rows[i][1] : i \in 1..n} : n \in {0} \cup DOMAIN rows}]

\* writeByte, writeWord, demodWriteByte, demodWriteWord: <<register, value>>.
Writes(rows) == Batch("chip", [i \in DOMAIN rows |-> <<rows[i][1], rows[i][2], 65535>>])

Fails(unit) == [Batch(unit, <<>>) EXCEPT !.ok = FALSE]

\* A register read of the tuner: it changes nothing, and may fail.
TunerReads == Batch("tuner", <<>>)

WithRepeater(body) ==
  <<Writes(<<<<"SoftReset", \h18>>>>)>> \o body \o <<Writes(<<<<"SoftReset", \h10>>>>)>>

\* The body of a TunerBus program.
BodyOf(p) ==
  [i \in DOMAIN p.writes |->
     [unit |-> "tuner", ok |-> TRUE, repeater |-> TRUE,
      set |-> p.writes[i], parts |-> {{}, DOMAIN p.writes[i]}]]
  \o IF p.ok THEN <<>> ELSE <<Fails("tuner")>>

TunerOp(p) == WithRepeater(BodyOf(p))
----------------------------------------------------------------------------
(* init_chip.go.                                                           *)

ResetDemod == <<Writes(<<<<"SoftReset", \h14>>>>), Writes(<<<<"SoftReset", \h10>>>>)>>

\* The FIR's twenty bytes are one register with one value.
InitChip ==
  <<Writes(<<<<"SYSCTL", \h09>>, <<"EPA_MAXPKT", 2>>, <<"EPA_CTL", \h1002>>>>),
    Writes(<<<<"DEMOD_CTL1", \h22>>, <<"DEMOD_CTL", \he8>>>>)>>
  \o ResetDemod \o
  <<Writes(<<<<"SpectrumInv", 0>>, <<"ACRHi", 0>>, <<"ACRLo", 0>>>>),
    Writes([i \in 1..6 |-> <<<<"ACRHi", "ACRLo", "DDC", "IFFreqHi", "IFFreqMid", "IFFreqLo">>[i], 0>>]),
    Writes(<<<<"FIR", 1>>, <<"SDRMode", 5>>, <<"FSM1", \hf0>>, <<"FSM2", \h0f>>,
             <<"AGCEnable", 0>>, <<"AGCLoop", 0>>, <<"PIDFilter", \h60>>,
             <<"ADCDatapath", \h80>>, <<"ZeroIF", \h1b>>, <<"ClockOutput", \h83>>>>)>>

ResetSampleBuffer ==
  <<Writes(<<<<"EPA_CTL", \h1002>>>>), Writes(<<<<"EPA_CTL", 0>>>>)>> \o ResetDemod
----------------------------------------------------------------------------
(* demod_for_r820t.go and sample_rate.go.                                  *)

\* n * 2^22 \div d, for n below 2^20 and d below 2^20.
Scaled22(n, d) == ((n * 2048) \div d) * 2048 + (((n * 2048) % d) * 2048) \div d

\* -freq in 22 bits' two's complement.
EncodedIF(freq) == (2^22 - Scaled22(freq, Xtal)) % 2^22

WriteDemodIFFreq(freq) ==
  LET e == EncodedIF(freq)
  IN <<Writes(<<<<"IFFreqHi", e \div 65536>>, <<"IFFreqMid", (e \div 256) % 256>>,
               <<"IFFreqLo", e % 256>>>>)>>

\* Seeded bug: the tuner's IF is sampled as a baseband signal.
ConfigureForZeroIF ==
  <<Writes(<<<<"ADCInput", \h4d>>>>)>> \o WriteDemodIFFreq(3570)
  \o <<Writes(<<<<"SpectrumInv", 1>>>>)>>

ConfigureForR820T ==
  <<Writes(<<<<"ZeroIF", \h1a>>, <<"ADCInput", \h4d>>>>)>>
  \o WriteDemodIFFreq(3570)
  \o <<Writes(<<<<"SpectrumInv", 1>>>>)>>

\* With rsampRatioMask: 28 bits, the lowest two clear.
RSampRatio(rate) == LET r == Scaled22(Xtal, rate) % 2^28 IN r - (r % 4)

ValidSampleRate(rate) == rate > 225 /\ rate <= 3200 /\ ~(rate > 300 /\ rate <= 900)

SetSampleRate(rate) ==
  IF ~ValidSampleRate(rate) THEN <<Fails("chip")>>
  ELSE LET ratio == RSampRatio(rate)
       IN <<Writes(<<<<"RSampRatioHi", ratio \div 65536>>,
                     <<"RSampRatioLo", ratio % 65536>>>>)>> \o ResetDemod
----------------------------------------------------------------------------
(* NewR860: tuner_r860.go and tuner_r860_postinit.go.                      *)

InitValues ==  \* registers 5 to 31
  <<\h83, \h32, \h75, \hc0, \h40, \hd6, \h6c, \hf5, \h63, \h75, \h68, \h6c, \h83, \h80,
    \h00, \h0f, \h00, \hc0, \h30, \h48, \hcc, \h60, \h00, \h54, \hae, \h4a, \hc0>>

SetTVStandard ==
  <<<<12, 0, \h0f>>, <<10, \h10, \h1f>>, <<11, \h6b, \hef>>, <<7, 0, \h80>>, <<6, \h10, \h30>>,
    <<30, \h60, \h60>>, <<5, 0, \h80>>, <<31, 0, \h80>>, <<15, 0, \h80>>, <<25, \h60, \h60>>>>

SysFreqSel ==
  <<<<29, \he5, \hc7>>, <<28, \h24, \hf8>>, <<13, \h53, \hff>>, <<14, \h75, \hff>>,
    <<5, 0, \h60>>, <<6, 0, \h08>>, <<17, \h38, \h38>>, <<23, \h30, \h30>>, <<10, \h40, \h60>>>>

\* Cut where a register occurs a second time.
DigitalTV1 == <<<<29, 0, \h38>>, <<28, 0, \h04>>, <<6, 0, \h40>>, <<26, \h30, \h30>>>>
DigitalTV2 == <<<<29, \h18, \h38>>, <<28, \h24, \h04>>, <<30, 14, \h1f>>, <<26, \h20, \h30>>>>

NewR860 ==
  WithRepeater(<<TunerReads>>)
  \o WithRepeater(
       <<Batch("tuner", [i \in 1..Len(InitValues) |-> <<i + 4, InitValues[i], 255>>]),
         Batch("tuner", SetTVStandard), Batch("tuner", SysFreqSel),
         Batch("tuner", DigitalTV1), Batch("tuner", DigitalTV2)>>)
----------------------------------------------------------------------------
(* SetBandwidthForSampleRate: R10, R11 and the IF the filter is centred on. *)

IFLowPassBw == <<1700, 1600, 1550, 1450, 1200, 900, 700, 550, 450, 350>>

Bandwidth(bw) ==
  CASE bw > 7000 -> [r10 |-> \h10, r11 |-> \h0b, if |-> 4570]
    [] bw > 6000 /\ bw <= 7000 -> [r10 |-> \h10, r11 |-> \h2a, if |-> 4570]
    [] bw > 2430 /\ bw <= 6000 -> [r10 |-> \h10, r11 |-> \h6b, if |-> 3570]
    [] OTHER ->
         LET hp2 == IF bw > 2050 THEN 380 ELSE 0
             hp1 == IF bw - hp2 > 1700 THEN 350 ELSE 0
             rest == bw - hp2 - hp1
             \* the narrowest corner that is not below the rest
             idx == Cardinality({i \in DOMAIN IFLowPassBw : rest <= IFLowPassBw[i]})
         IN [r10 |-> 0,
             r11 |-> \h80 + (IF hp2 = 0 THEN \h20 ELSE 0) + (IF hp1 = 0 THEN \h40 ELSE 0)
                     + (15 - (idx - 1)),
             if |-> 2300 + hp2 + hp1 - (hp2 + hp1 + IFLowPassBw[idx]) \div 2]

InitializeForSampleRate(rate) ==
  LET b == Bandwidth(rate)
  IN WithRepeater(<<Batch("tuner", <<<<10, b.r10, \h10>>, <<11, b.r11, \hef>>>>)>>)
----------------------------------------------------------------------------
(* SetFreq: tuner_r860_mux.go and tuner_r860_pll.go.                       *)

\* <<minMHz, open drain, RF mux, tracking filter>>
FreqRanges ==
  <<<<0, 8, 2, \hdf>>, <<50, 8, 2, \hbe>>, <<55, 8, 2, \h8b>>, <<60, 8, 2, \h7b>>,
    <<65, 8, 2, \h69>>, <<70, 8, 2, \h58>>, <<75, 0, 2, \h44>>, <<80, 0, 2, \h44>>,
    <<90, 0, 2, \h34>>, <<100, 0, 2, \h34>>, <<110, 0, 2, \h24>>, <<120, 0, 2, \h24>>,
    <<140, 0, 2, \h14>>, <<180, 0, 2, \h13>>, <<220, 0, 2, \h13>>, <<250, 0, 8, \h11>>,
    <<280, 0, 2, 0>>, <<310, 0, \h41, 0>>, <<588, 0, \h40, 0>>>>

BandRange(lo) ==
  FreqRanges[Cardinality({i \in DOMAIN FreqRanges : FreqRanges[i][1] <= lo \div 1000})]

SetMux(lo) ==
  LET band == BandRange(lo)
  IN Batch("tuner", <<<<23, band[2], 8>>, <<26, band[3], \hc3>>, <<27, band[4], 255>>,
                      <<16, 0, 3>>, <<8, 0, \h3f>>, <<9, 0, \h3f>>>>)

VCOMin == 1770000
VCOPowerRef == 2

\* The exponents of the dividers 2..64 that put the VCO in range: at most one.
MixDivs(lo) == {k \in 1..6 : lo * 2^k >= VCOMin /\ lo * 2^k < 2 * VCOMin}

\* The fraction of the PLL, whose arithmetic is in kHz here as in the code.
Arithmetic == INSTANCE TuningMath
SDM(frac) == Arithmetic!SDM(frac, 2 * Xtal)

\* Those computePLLSettings accepts; none when it fails.
PLLDivs(lo, fineTune) ==
  {k \in MixDivs(lo) : ~(fineTune > VCOPowerRef /\ k = 1) /\ (lo * 2^k) \div (2 * Xtal) \in 13..76}

PLLSettings(lo, fineTune, k) ==
  LET nint == (lo * 2^k) \div (2 * Xtal)
  IN [divNum |-> k - 1 + (IF fineTune < VCOPowerRef THEN 1 ELSE 0) - (IF fineTune > VCOPowerRef THEN 1 ELSE 0),
      ni |-> (nint - 13) \div 4, si |-> (nint - 13) % 4, sdm |-> SDM((lo * 2^k) % (2 * Xtal))]

ProgramPLL(s) ==
  <<Batch("tuner", <<<<16, s.divNum * 32, \he0>>, <<20, s.ni + s.si * 64, 255>>,
                    <<18, IF s.sdm = 0 THEN 8 ELSE 0, 8>>,
                    <<22, s.sdm \div 256, 255>>, <<21, s.sdm % 256, 255>>, <<26, 8, 8>>>>)>>

LockPLL(lo, fineTune) ==
  <<Batch("tuner", <<<<26, 0, \h0c>>, <<18, \h80, \he0>>>>), TunerReads>>
  \o IF PLLDivs(lo, fineTune) = {} THEN <<Fails("tuner")>>
     ELSE ProgramPLL(PLLSettings(lo, fineTune, CHOOSE k \in PLLDivs(lo, fineTune) : TRUE))

SetFreq(lo, fineTune) == WithRepeater(<<SetMux(lo)>> \o LockPLL(lo, fineTune))

\* Seeded bug: SetFreq still offsets by NewR860's default IF.
SetCenterFreqDefaultIF(c, fineTune) == SetFreq(c.rf + 3570, fineTune)
----------------------------------------------------------------------------
(* The options, and configureChipAndTuner.                                 *)

SetCenterFreq(c, fineTune) == SetFreq(c.rf + Bandwidth(c.rate).if, fineTune)

\* An option is <<its value>>, or <<>> when it was not given: nothing is written.
IfGiven(option, script) == IF option = <<>> THEN <<>> ELSE script

ApplyTunerGain(c) ==
  TunerOp(SetLNAGain(c.lna)) \o TunerOp(SetMixerGain(c.mixer)) \o TunerOp(SetVGAGain(c.vga))

ApplyTunerFilter(c) ==
  IfGiven(c.ifBandwidth,
          TunerOp(SetIFBandwidth(c.ifBandwidth[1].coarse, c.ifBandwidth[1].fine)))
  \o IfGiven(c.ifHighPass, TunerOp(SetIFHighPass(c.ifHighPass[1])))
  \o IfGiven(c.filterExt, TunerOp(SetFilterExt(c.filterExt[1])))

\* setBiasTee: three read-modify-writes of one pin.
SetBiasTee(gpio, enable) ==
  IF gpio > 7 THEN <<Fails("chip")>>
  ELSE <<Batch("chip", <<<<"GPD", 0, 2^gpio>>, <<"GPOE", 2^gpio, 2^gpio>>,
                         <<"GPO", IF enable THEN 2^gpio ELSE 0, 2^gpio>>>>)>>

ApplyBiasTee(c) ==
  IfGiven(c.biasTee, SetBiasTee(c.biasTee[1].gpio, c.biasTee[1].enable))

\* Seeded bug: the sample buffer is reset before the tuner is tuned.
ConfigureResetEarly(c, fineTune) ==
  InitChip \o ConfigureForR820T \o NewR860
  \o InitializeForSampleRate(c.rate) \o WriteDemodIFFreq(Bandwidth(c.rate).if)
  \o SetSampleRate(c.rate) \o ResetSampleBuffer \o SetCenterFreq(c, fineTune)
  \o ApplyTunerGain(c) \o ApplyTunerFilter(c) \o ApplyBiasTee(c)

\* Up to the first step that fails by itself nothing after it matters.
ConfigureChipAndTuner(c, fineTune) ==
  InitChip \o ConfigureForR820T \o NewR860
  \o InitializeForSampleRate(c.rate) \o WriteDemodIFFreq(Bandwidth(c.rate).if)
  \o SetSampleRate(c.rate) \o SetCenterFreq(c, fineTune)
  \o ApplyTunerGain(c) \o ApplyTunerFilter(c) \o ApplyBiasTee(c) \o ResetSampleBuffer
=============================================================================
