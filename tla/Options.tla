------------------------------- MODULE Options -------------------------------
(***************************************************************************)
(* The options of sdr.go, rtl-probe's gain flags (main.go), and what Open  *)
(* makes of them: the words that configureChipAndTuner computes, in Hz.    *)
(* The order of its register writes is OpenFlow's subject.                 *)
(***************************************************************************)
EXTENDS TuningMath, TunerOps, SequencesExt

CONSTANTS
  OptionSet,     \* the options a caller may give
  CommandLines,  \* the flags rtl-probe may be started with
  MaxOptions     \* bound: how many options one call of Open gets

OptionKinds ==
  {"CenterFreq", "SampleRate", "FrequencyCorrection", "Gain", "Stage", "ManualStage", "AutoGain", "Override"}
StageFields == {"lnaGain", "mixerGain", "vgaGain"}
OverrideFields == {"ifBandwidth", "ifHighPass", "biasTee"}

Stages == [auto : BOOLEAN, step : 0..255]

\* Go's types: frequencies and rates are unsigned, steps are bytes.
ASSUME OptionsAssumption ==
  /\ \A o \in OptionSet :
       /\ o.opt \in OptionKinds
       /\ o.opt \in {"CenterFreq", "SampleRate"} => o.hz \in Nat
       /\ o.opt = "FrequencyCorrection" => o.ppm \in Int
       /\ o.opt = "Gain" => o.tenthsDB \in Int
       /\ o.opt = "Stage" => o.field \in StageFields /\ o.stage \in Stages
       /\ o.opt = "ManualStage" => o.field \in StageFields /\ o.step \in 0..255
       /\ o.opt = "Override" => o.field \in OverrideFields
  /\ \A f \in CommandLines :
       /\ f.autoGain \in BOOLEAN /\ f.center \in Nat /\ f.rate \in Nat
       /\ {f.ppm, f.gain, f.lna, f.mixer, f.vga} \subseteq Int
  /\ MaxOptions \in Nat

VARIABLES
  flags,  \* rtl-probe's flags, or {} for another caller
  todo,   \* the options rtl-probe still has to apply
  given,  \* the options applied, in order
  cfg,    \* config
  phase,  \* "configuring", "opened", "refused"
  radio   \* what Open programmed

vars == <<flags, todo, given, cfg, phase, radio>>

NoRadio == [stages |-> <<>>]

AutoGain == [auto |-> TRUE, step |-> 0]
GainAGC == -1
ManualVGAStep == 8  \* librtlsdrManualVGAStep
Unset == <<>>

DefaultConfig ==
  [centerFreqHz |-> 1090000000, sampleRateHz |-> 2400000, freqCorrectionPPM |-> 0,
   lnaGain |-> AutoGain, mixerGain |-> AutoGain, vgaGain |-> AutoGain, autoGain |-> FALSE,
   ifBandwidth |-> Unset, ifHighPass |-> Unset, biasTee |-> Unset]
----------------------------------------------------------------------------
(* The options.  WithLNAGain, WithMixerGain and WithVGAGain are "Stage",    *)
(* their user-input variants "ManualStage".                                *)

\* Seeded bug: only the upper clamp.
ClampPPMUpper(ppm) == IF ppm > PPMMax THEN PPMMax ELSE ppm

ClampPPM(ppm) == IF ppm > PPMMax THEN PPMMax ELSE IF ppm < -PPMMax THEN -PPMMax ELSE ppm

AllAuto == [f \in StageFields |-> AutoGain]
Only(field, value) == [f \in {field} |-> value]

GainAssigns(tenthsDB) ==
  IF tenthsDB = GainAGC THEN AllAuto
  ELSE LET rung == GainRung(tenthsDB)
       IN [lnaGain |-> ManualGainStep(LNAOf(rung)), mixerGain |-> ManualGainStep(MixerOf(rung)),
           vgaGain |-> ManualGainStep(ManualVGAStep)]

\* Seeded bug: handing the stages back to the AGC forgets the VGA.
AssignsForgetsVGA(o) ==
  CASE o.opt = "CenterFreq" -> [centerFreqHz |-> o.hz]
    [] o.opt = "SampleRate" -> [sampleRateHz |-> o.hz]
    [] o.opt = "FrequencyCorrection" -> [freqCorrectionPPM |-> ClampPPM(o.ppm)]
    [] o.opt = "Gain" /\ o.tenthsDB = GainAGC -> [lnaGain |-> AutoGain, mixerGain |-> AutoGain]
    [] o.opt = "Gain" /\ o.tenthsDB # GainAGC -> GainAssigns(o.tenthsDB)
    [] o.opt = "Stage" -> Only(o.field, o.stage)
    [] o.opt = "ManualStage" -> Only(o.field, ManualGainStep(o.step))
    [] o.opt = "AutoGain" ->
         [autoGain |-> TRUE, lnaGain |-> AutoGain, mixerGain |-> AutoGain, vgaGain |-> AutoGain]
    [] OTHER -> Only(o.field, <<o.value>>)

\* The fields an option assigns, and their values.  "Override" is any of the
\* options whose zero value means that the chip's own setting stays.
Assigns(o) ==
  CASE o.opt = "CenterFreq" -> [centerFreqHz |-> o.hz]
    [] o.opt = "SampleRate" -> [sampleRateHz |-> o.hz]
    [] o.opt = "FrequencyCorrection" -> [freqCorrectionPPM |-> ClampPPM(o.ppm)]
    [] o.opt = "Gain" -> GainAssigns(o.tenthsDB)
    [] o.opt = "Stage" -> Only(o.field, o.stage)
    [] o.opt = "ManualStage" -> Only(o.field, ManualGainStep(o.step))
    [] o.opt = "AutoGain" ->
         [autoGain |-> TRUE, lnaGain |-> AutoGain, mixerGain |-> AutoGain, vgaGain |-> AutoGain]
    [] o.opt = "Override" -> Only(o.field, <<o.value>>)

Apply(c, o) ==
  LET new == Assigns(o)
  IN [f \in DOMAIN c |-> IF f \in DOMAIN new THEN new[f] ELSE c[f]]
----------------------------------------------------------------------------
(* rtl-probe's flags: buildOptions and gainOptions.  WithDevice, which is      *)
(* between rate and ppm, is ProbeRun's subject.                              *)

NoFlag == -1  \* gainStageFlagAGC
GainOption(tenthsDB) == [opt |-> "Gain", tenthsDB |-> tenthsDB]

\* uint8(step), then the clamp of ManualGainStep.
StageOption(field, step) ==
  IF step = NoFlag THEN <<>>
  ELSE <<[opt |-> "Stage", field |-> field, stage |-> ManualGainStep(step % 256)]>>

StageOptions(f) ==
  StageOption("lnaGain", f.lna) \o StageOption("mixerGain", f.mixer)
  \o StageOption("vgaGain", f.vga)

\* Seeded bug: the base gain comes after the overrides.
GainOptionsBaseLast(f) ==
  IF f.autoGain THEN <<[opt |-> "AutoGain"]>>
  ELSE StageOptions(f) \o <<GainOption(f.gain)>>

GainOptions(f) ==
  IF f.autoGain THEN <<[opt |-> "AutoGain"]>>
  ELSE <<GainOption(f.gain)>> \o StageOptions(f)

BuildOptions(f) ==
  <<[opt |-> "CenterFreq", hz |-> f.center], [opt |-> "SampleRate", hz |-> f.rate],
    [opt |-> "FrequencyCorrection", ppm |-> f.ppm]>>
  \o GainOptions(f)
  \o IF f.biasTee = NoFlag THEN <<>>
     ELSE <<[opt |-> "Override", field |-> "biasTee", value |-> [gpio |-> 0, enable |-> f.biasTee # 0]]>>
----------------------------------------------------------------------------
(* configureChipAndTuner.                                                  *)

\* 22 bits' two's complement of -freq, in units of xtal / 2^22.
DDCWord(freq, xtal) == (2^22 - Shifted(freq, 22, xtal).quot) % 2^22

\* The setters and setBiasTee reject what their fields cannot hold.
InField(c) ==
  /\ \A f \in StageFields : c[f].auto \/ c[f].step < StepCount
  /\ \A b \in ToSet(c.ifBandwidth) : b.coarse < 4 /\ b.fine < StepCount
  /\ \A code \in ToSet(c.ifHighPass) : code < StepCount
  /\ \A b \in ToSet(c.biasTee) : b.gpio < 8

\* SetFreq's LO.
LocalOscillator(c) == c.centerFreqHz + IFFilter(c.sampleRateHz).if

Programmed(c, fineTune, k) ==
  LET xtal == EffectiveXtal(c.freqCorrectionPPM)
      filter == IFFilter(c.sampleRateHz)
  IN [pll |-> PLLSettings(LocalOscillator(c), xtal, fineTune, k), fineTune |-> fineTune,
      ddc |-> DDCWord(filter.if, xtal), width |-> filter.width, low |-> filter.low,
      ratio |-> ResamplerRatio(c.sampleRateHz, xtal),
      stages |-> [f \in StageFields |-> c[f]]]

\* The auto-tune at open pins two stages and ends on some step of the third.
Tuned(r, c, lna) ==
  IF c.autoGain
  THEN [r EXCEPT !.stages = [f \in StageFields |-> ManualGainStep(IF f = "lnaGain" THEN lna ELSE 15)]]
  ELSE r
----------------------------------------------------------------------------
Init ==
  /\ flags = {} /\ todo = <<>> /\ given = <<>> /\ cfg = DefaultConfig
  /\ phase = "configuring" /\ radio = NoRadio

Applies(o) == given' = Append(given, o) /\ cfg' = Apply(cfg, o)

\* Another program's Open.
Give(o) ==
  /\ phase = "configuring" /\ flags = {} /\ Len(given) < MaxOptions
  /\ Applies(o)
  /\ UNCHANGED <<flags, todo, phase, radio>>

\* rtl-probe's defaultOpener, and the options it has built.
FromFlags(f) ==
  /\ phase = "configuring" /\ flags = {} /\ given = <<>>
  /\ flags' = {f} /\ todo' = BuildOptions(f)
  /\ UNCHANGED <<given, cfg, phase, radio>>

GiveNext ==
  /\ phase = "configuring" /\ todo # <<>>
  /\ Applies(Head(todo)) /\ todo' = Tail(todo)
  /\ UNCHANGED <<flags, phase, radio>>

LosFor(fineTune) ==
  PLLDivs(LocalOscillator(cfg), EffectiveXtal(cfg.freqCorrectionPPM), fineTune)

Opens(fineTune, lna) ==
  /\ phase = "configuring" /\ todo = <<>> /\ ValidRate(cfg.sampleRateHz) /\ InField(cfg)
  /\ \E k \in LosFor(fineTune) : radio' = Tuned(Programmed(cfg, fineTune, k), cfg, lna)
  /\ phase' = "opened"
  /\ UNCHANGED <<flags, todo, given, cfg>>

Refuses(fineTune) ==
  /\ phase = "configuring" /\ todo = <<>>
  /\ ~ValidRate(cfg.sampleRateHz) \/ ~InField(cfg) \/ LosFor(fineTune) = {}
  /\ phase' = "refused"
  /\ UNCHANGED <<flags, todo, given, cfg, radio>>

\* The next Open starts from defaultConfig.
OpensAgain ==
  /\ phase # "configuring" /\ phase' = "configuring"
  /\ flags' = {} /\ todo' = <<>> /\ given' = <<>> /\ cfg' = DefaultConfig /\ radio' = NoRadio

Next ==
  \/ \E o \in OptionSet : Give(o)
  \/ \E f \in CommandLines : FromFlags(f)
  \/ GiveNext
  \/ \E fineTune \in 0..3 :
       Refuses(fineTune) \/ \E lna \in IF cfg.autoGain THEN 0..15 ELSE {0} : Opens(fineTune, lna)
  \/ OpensAgain

Spec == Init /\ [][Next]_vars
----------------------------------------------------------------------------
(* Properties.                                                             *)

Opened == phase = "opened"

TypeOK ==
  /\ flags \subseteq CommandLines /\ Cardinality(flags) <= 1
  /\ Len(given) + Len(todo) <= MaxOptions + 9
  /\ cfg.freqCorrectionPPM \in -PPMMax..PPMMax
  /\ \A f \in StageFields : cfg[f] \in Stages
  /\ Opened => radio.pll.divNum \in 0..6 /\ radio.pll.ni \in 0..15 /\ radio.pll.si \in 0..3
               /\ radio.pll.sdm \in Nat /\ radio.pll.sdm < 2^16 /\ radio.ratio < 2^28 /\ radio.ddc < 2^22

\* What an option says of a stage: nothing, or its value.
Says(o, f) ==
  CASE o.opt = "Gain" -> {GainAssigns(o.tenthsDB)[f]}
    [] o.opt = "Stage" /\ o.field = f -> {o.stage}
    [] o.opt = "ManualStage" /\ o.field = f -> {ManualGainStep(o.step)}
    [] OTHER -> {}

\* The caller's last word on a stage, however many options spoke of it before
\* (sdr.go:198: "a later option wins"), is what is programmed, unless the gain is
\* searched for at open.
LastOptionWins ==
  Opened =>
    \A f \in StageFields :
      \/ cfg.autoGain
      \/ /\ \A i \in DOMAIN given : Says(given[i], f) = {}
         /\ radio.stages[f] = AutoGain
      \/ \E i \in DOMAIN given :
           /\ Says(given[i], f) = {radio.stages[f]}
           /\ \A j \in i + 1..Len(given) : Says(given[j], f) = {}

\* On rtl-probe's command line a stage's own flag, 0 to 15, beats --gain, and
\* --auto-gain beats both (main.go:236).
FlagsReachTheChip ==
  Opened =>
    \A f \in flags :
      /\ f.autoGain => radio.stages.mixerGain.step = 15 /\ radio.stages.vgaGain.step = 15
      /\ ~f.autoGain =>
           /\ f.lna \in 0..15 => radio.stages.lnaGain = ManualGainStep(f.lna)
           /\ f.mixer \in 0..15 => radio.stages.mixerGain = ManualGainStep(f.mixer)
           /\ f.vga \in 0..15 => radio.stages.vgaGain = ManualGainStep(f.vga)

\* WithGain's two stages reach what was asked for, and the pair before them in
\* the ladder, one step of one stage less, does not; or the ladder is at its top
\* (gain_librtlsdr.go:70).
Sums(steps) ==
  LET sum[i \in 0..Len(steps)] == IF i = 0 THEN 0 ELSE sum[i - 1] + steps[i]
  IN sum
TotalGain(lna, mixer) == Sums(LNAGainSteps)[lna] + Sums(MixerGainSteps)[mixer]

GainReachesTarget ==
  Opened /\ given # <<>> /\ given[Len(given)].opt = "Gain" /\ ~cfg.autoGain =>
    LET target == given[Len(given)].tenthsDB
        lna == radio.stages.lnaGain.step
        mixer == radio.stages.mixerGain.step
    IN target # GainAGC =>
         /\ lna - mixer \in {0, 1}
         /\ TotalGain(lna, mixer) >= target \/ (lna = 15 /\ mixer = 15)
         /\ lna # 0 => TotalGain(IF lna = mixer THEN lna ELSE lna - 1,
                                 IF lna = mixer THEN mixer - 1 ELSE mixer) < target

\* The words read back in kHz, as the chip takes them.
XtalOf == EffectiveXtal(cfg.freqCorrectionPPM)

VCOOf(pll) ==
  LET step == 2 * XtalOf
      n == 4 * pll.ni + pll.si + NintMin
  IN n * (step \div 1000) + (n * (step % 1000)) \div 1000
     + ((pll.sdm \div 256) * (step \div 1000) + ((pll.sdm % 256) * (step \div 1000)) \div 256) \div 256

DDCOf(word) ==
  LET m == 2^22 - word
      x == XtalOf \div 1000
  IN ((m \div 2048) * x + ((m % 2048) * x) \div 2048) \div 2048

Near(x, y, d) == x <= y + d /\ y <= x + d

\* The frequency received is the one asked for, with the corrected crystal: the
\* VCO is in its range, the divider in the register is the one that takes it to
\* the LO (up to the calibration's trim), and LO less DDC is the centre, to the
\* PLL's resolution (tuner_r860_pll.go:82, sample_rate.go:175).
TunedAsAsked ==
  Opened =>
    LET vco == VCOOf(radio.pll)
        trim == IF radio.fineTune < VCOPowerRef THEN 1 ELSE IF radio.fineTune > VCOPowerRef THEN -1 ELSE 0
        k == radio.pll.divNum - trim + 1
    IN /\ k \in 1..6 /\ vco >= 1770000 - 9 /\ vco < 3540000 + 9
       /\ Near(vco, (cfg.centerFreqHz \div 1000 + DDCOf(radio.ddc)) * 2^k, 9 + 2 * 2^k)

\* The rate the chip then runs at, by its own reading of the ratio
\* (sample_rate.go:144), is the one asked for.  A ratio below 2^25 is a rate beyond
\* 3.6 MS/s.
RateReproduced ==
  radio.ratio >= 2^25 /\ Near(ActualRate(radio.ratio, XtalOf), cfg.sampleRateHz, 2)

\* sample_rate.go:61: "The rate the chip actually produces may differ slightly
\* from hz because the 22-bit fractional ratio rounds", for every rate accepted.
SampledAsAsked == Opened => RateReproduced

\* It is, whenever the correction is too small to carry the rate over an edge of
\* a range, which SetSampleRate looks for before it corrects (sample_rate.go:76).
Edges == {SampleRateMin, SampleRateGapStart, SampleRateGapEnd}
OffTheEdges ==
  \A e \in Edges : LET away == cfg.sampleRateHz - e
                   IN \/ away > e \div 1000 \/ -away > e \div 1000
                      \/ cfg.freqCorrectionPPM = 0

SampledAsAskedOffEdges == (Opened /\ OffTheEdges) => RateReproduced

\* The tuner's filter passes the band that is sampled, and the next narrower
\* corner would not (tuner_r860_bandwidth.go:115).
PassBandCoversRate ==
  Opened /\ radio.width # 0 =>
    /\ radio.width >= cfg.sampleRateHz
    /\ \A i \in 1..Len(LowPassCorners) - 1 :
         LowPassCorners[i] = radio.low => radio.width - radio.low + LowPassCorners[i + 1] < cfg.sampleRateHz
=============================================================================
