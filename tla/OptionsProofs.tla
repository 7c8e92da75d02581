---------------------------- MODULE OptionsProofs ----------------------------
(***************************************************************************)
(* For any options in any number and order, any command line of rtl-probe,  *)
(* and so for every centre frequency, sample rate, correction and gain that *)
(* is accepted: the caller's last word on a gain stage is what Open         *)
(* programs; the gain reaches its target; the filter passes the band; every *)
(* word fits its field; and the frequency and the rate that the words say   *)
(* are the ones asked for.                                                  *)
(*                                                                         *)
(* What the arithmetic returns is in TuningMathProofs.                      *)
(***************************************************************************)
EXTENDS Options, TuningMathProofs, SequenceTheorems

WellFormed(o) ==
  /\ o.opt \in OptionKinds
  /\ o.opt \in {"Stage", "ManualStage"} => o.field \in StageFields
  /\ o.opt = "Override" => o.field \in OverrideFields

\* What buildOptions puts into its list, but for WithAutoGain, and its parts.
FlagStages(f) ==
  {[opt |-> "Stage", field |-> "lnaGain", stage |-> ManualGainStep(f.lna % 256)],
   [opt |-> "Stage", field |-> "mixerGain", stage |-> ManualGainStep(f.mixer % 256)],
   [opt |-> "Stage", field |-> "vgaGain", stage |-> ManualGainStep(f.vga % 256)]}

BiasTeeFlag(f) == [opt |-> "Override", field |-> "biasTee", value |-> [gpio |-> 0, enable |-> f.biasTee # 0]]

PlainOptions(f) ==
  {[opt |-> "CenterFreq", hz |-> f.center], [opt |-> "SampleRate", hz |-> f.rate],
   [opt |-> "FrequencyCorrection", ppm |-> f.ppm], GainOption(f.gain), BiasTeeFlag(f)}
  \cup FlagStages(f)

BaseOptions(f) ==
  <<[opt |-> "CenterFreq", hz |-> f.center], [opt |-> "SampleRate", hz |-> f.rate],
    [opt |-> "FrequencyCorrection", ppm |-> f.ppm]>>
BiasTeeOptions(f) == IF f.biasTee = NoFlag THEN <<>> ELSE <<BiasTeeFlag(f)>>

FlagOptions(f) == {[opt |-> "AutoGain"]} \cup PlainOptions(f)

AnyOption == OptionSet \cup UNION {FlagOptions(f) : f \in CommandLines}

\* The last word of opts on a stage is value; a is what holds without a word.
LastWord(opts, f, value) ==
  \/ (\A i \in DOMAIN opts : Says(opts[i], f) = {}) /\ value = AutoGain
  \/ \E i \in DOMAIN opts :
       /\ Says(opts[i], f) = {value}
       /\ \A j \in i + 1..Len(opts) : Says(opts[j], f) = {}

ShapeInv ==
  /\ given \in Seq(AnyOption) /\ todo \in Seq(AnyOption)
  /\ DOMAIN cfg = DOMAIN DefaultConfig

WordInv == ~cfg.autoGain => \A f \in StageFields : LastWord(given, f, cfg[f])

StagesInv ==
  Opened /\ ~cfg.autoGain => \A f \in StageFields : radio.stages[f] = cfg[f]

\* The gain is searched for if and only if an option has asked for it.
AsksForSearch(opts) == \E i \in DOMAIN opts : opts[i].opt = "AutoGain"
AutoInv == cfg.autoGain = AsksForSearch(given)

\* A command line's options are applied in their order and all of them.
FlagsInv ==
  /\ \A f \in flags : f \in CommandLines /\ given \o todo = BuildOptions(f)
  /\ Opened => todo = <<>>

TunedInv ==
  Opened /\ cfg.autoGain => radio.stages.mixerGain.step = 15 /\ radio.stages.vgaGain.step = 15

OptionsInv == ShapeInv /\ WordInv /\ StagesInv /\ AutoInv /\ FlagsInv /\ TunedInv
----------------------------------------------------------------------------
LEMMA OptionsWellFormed == ASSUME NEW o \in AnyOption PROVE WellFormed(o)
<1>1. CASE o \in OptionSet
  BY <1>1, OptionsAssumption DEF WellFormed
<1>2. ASSUME NEW f \in CommandLines, o \in FlagOptions(f) PROVE WellFormed(o)
  BY <1>2 DEF FlagOptions, PlainOptions, FlagStages, GainOption, BiasTeeFlag, WellFormed, OptionKinds,
             StageFields, OverrideFields
<1> QED
  BY <1>1, <1>2 DEF AnyOption

LEMMA PartsAreOptions ==
  ASSUME NEW f
  PROVE  /\ BaseOptions(f) \in Seq(PlainOptions(f)) /\ BiasTeeOptions(f) \in Seq(PlainOptions(f))
         /\ <<GainOption(f.gain)>> \in Seq(PlainOptions(f))
         /\ StageOption("lnaGain", f.lna) \in Seq(PlainOptions(f))
         /\ StageOption("mixerGain", f.mixer) \in Seq(PlainOptions(f))
         /\ StageOption("vgaGain", f.vga) \in Seq(PlainOptions(f))
<1> DEFINE S == PlainOptions(f)
<1>1. BaseOptions(f) \in Seq(S)
  BY DEF PlainOptions, BaseOptions
<1>2. BiasTeeOptions(f) \in Seq(S)
  <2>1. BiasTeeFlag(f) \in S
    BY DEF PlainOptions
  <2> HIDE DEF S
  <2> QED  BY <2>1 DEF BiasTeeOptions
<1>3. <<GainOption(f.gain)>> \in Seq(S)
  BY DEF PlainOptions
<1>4. ASSUME NEW field, NEW step,
             [opt |-> "Stage", field |-> field, stage |-> ManualGainStep(step % 256)] \in S
      PROVE  StageOption(field, step) \in Seq(S)
  <2> DEFINE o == [opt |-> "Stage", field |-> field, stage |-> ManualGainStep(step % 256)]
  <2>1. StageOption(field, step) = IF step = NoFlag THEN <<>> ELSE <<o>>
    BY DEF StageOption
  <2>2. o \in S
    BY <1>4
  <2> HIDE DEF o, S
  <2> QED  BY <2>1, <2>2
<1>5. /\ [opt |-> "Stage", field |-> "lnaGain", stage |-> ManualGainStep(f.lna % 256)] \in S
      /\ [opt |-> "Stage", field |-> "mixerGain", stage |-> ManualGainStep(f.mixer % 256)] \in S
      /\ [opt |-> "Stage", field |-> "vgaGain", stage |-> ManualGainStep(f.vga % 256)] \in S
  <2>1. FlagStages(f) \subseteq S
    BY DEF PlainOptions
  <2> QED  BY <2>1 DEF FlagStages
<1> QED
  BY <1>1, <1>2, <1>3, <1>4, <1>5

LEMMA BuildsFromParts ==
  ASSUME NEW f
  PROVE  BuildOptions(f) = (BaseOptions(f) \o GainOptions(f)) \o BiasTeeOptions(f)
BY DEF BuildOptions, BaseOptions, BiasTeeOptions, BiasTeeFlag

LEMMA BuildsPlain ==
  ASSUME NEW f, ~f.autoGain
  PROVE  BuildOptions(f) \in Seq(PlainOptions(f))
<1>1. StageOptions(f) \in Seq(PlainOptions(f))
  BY PartsAreOptions, ConcatProperties DEF StageOptions
<1>2. GainOptions(f) = <<GainOption(f.gain)>> \o StageOptions(f)
  BY DEF GainOptions
<1>3. GainOptions(f) \in Seq(PlainOptions(f))
  BY <1>1, <1>2, PartsAreOptions, ConcatProperties
<1> QED
  BY <1>3, PartsAreOptions, BuildsFromParts, ConcatProperties

LEMMA BuildsSearch ==
  ASSUME NEW f, f.autoGain
  PROVE  BuildOptions(f) = (BaseOptions(f) \o <<[opt |-> "AutoGain"]>>) \o BiasTeeOptions(f)
BY BuildsFromParts DEF GainOptions

LEMMA PlainAreFlagOptions ==
  ASSUME NEW f, NEW s \in Seq(PlainOptions(f))
  PROVE  s \in Seq(FlagOptions(f))
<1>1. \A S, T : S \subseteq T => Seq(S) \subseteq Seq(T)
  OBVIOUS
<1>2. PlainOptions(f) \subseteq FlagOptions(f)
  BY DEF FlagOptions
<1> QED
  BY <1>1, <1>2

LEMMA FlagOptionsAreOptions ==
  ASSUME NEW f \in CommandLines, NEW s \in Seq(FlagOptions(f))
  PROVE  s \in Seq(AnyOption)
<1>1. \A S, T : S \subseteq T => Seq(S) \subseteq Seq(T)
  OBVIOUS
<1>2. FlagOptions(f) \subseteq AnyOption
  BY DEF AnyOption
<1> QED
  BY <1>1, <1>2

LEMMA Concatenated ==
  ASSUME NEW S, NEW s \in Seq(S), NEW t \in Seq(S)
  PROVE  /\ s \o t \in Seq(S) /\ Len(s) \in Nat /\ Len(t) \in Nat
         /\ Len(s \o t) = Len(s) + Len(t) /\ DOMAIN (s \o t) = 1..Len(s) + Len(t)
         /\ DOMAIN s = 1..Len(s) /\ DOMAIN t = 1..Len(t)
         /\ \A i \in 1..Len(s) : (s \o t)[i] = s[i]
         /\ \A i \in 1..Len(t) : (s \o t)[Len(s) + i] = t[i]
OBVIOUS

LEMMA BuildsOptions ==
  ASSUME NEW f \in CommandLines
  PROVE  BuildOptions(f) \in Seq(AnyOption)
<1>1. CASE ~f.autoGain
  BY <1>1, BuildsPlain, PlainAreFlagOptions, FlagOptionsAreOptions
<1>2. CASE f.autoGain
  <2>1. <<[opt |-> "AutoGain"]>> \in Seq(FlagOptions(f))
    BY DEF FlagOptions
  <2>2. BaseOptions(f) \in Seq(FlagOptions(f)) /\ BiasTeeOptions(f) \in Seq(FlagOptions(f))
    BY PartsAreOptions, PlainAreFlagOptions
  <2>3. BuildOptions(f) = (BaseOptions(f) \o <<[opt |-> "AutoGain"]>>) \o BiasTeeOptions(f)
    BY <1>2, BuildsSearch
  <2>4. ASSUME NEW S, NEW a \in Seq(S), NEW b \in Seq(S), NEW c \in Seq(S) PROVE (a \o b) \o c \in Seq(S)
    BY <2>4, Concatenated
  <2>5. BuildOptions(f) \in Seq(FlagOptions(f))
    <3> DEFINE a == BaseOptions(f)
               b == <<[opt |-> "AutoGain"]>>
               c == BiasTeeOptions(f)
    <3>1. a \in Seq(FlagOptions(f)) /\ b \in Seq(FlagOptions(f)) /\ c \in Seq(FlagOptions(f))
      BY <2>1, <2>2
    <3>2. BuildOptions(f) = (a \o b) \o c
      BY <2>3
    <3> HIDE DEF a, b, c
    <3> QED  BY <3>1, <3>2, <2>4
  <2> QED  BY <2>5, FlagOptionsAreOptions
<1> QED
  BY <1>1, <1>2
----------------------------------------------------------------------------
\* An option that is not WithAutoGain leaves a stage alone or says its value.
LEMMA SaysWhatItAssigns ==
  ASSUME NEW c, NEW o, WellFormed(o), DOMAIN c = DOMAIN DefaultConfig, NEW f \in StageFields
  PROVE  LET d == Apply(c, o)
         IN /\ DOMAIN d = DOMAIN DefaultConfig
            /\ ~d.autoGain => /\ ~c.autoGain
                              /\ \/ Says(o, f) = {} /\ d[f] = c[f]
                                 \/ Says(o, f) = {d[f]}
<1> DEFINE d == Apply(c, o)
<1>1. /\ DOMAIN d = DOMAIN DefaultConfig
      /\ \A x \in DOMAIN d : d[x] = IF x \in DOMAIN Assigns(o) THEN Assigns(o)[x] ELSE c[x]
  BY DEF Apply
<1>2. f \in DOMAIN d /\ "autoGain" \in DOMAIN d
  BY <1>1 DEF DefaultConfig, StageFields
<1>3. CASE o.opt = "CenterFreq"
  <2>1. Assigns(o) = [centerFreqHz |-> o.hz] /\ Says(o, f) = {}
    BY <1>3 DEF Assigns, Says
  <2> QED  BY <1>1, <1>2, <2>1 DEF StageFields
<1>4. CASE o.opt = "SampleRate"
  <2>1. Assigns(o) = [sampleRateHz |-> o.hz] /\ Says(o, f) = {}
    BY <1>4 DEF Assigns, Says
  <2> QED  BY <1>1, <1>2, <2>1 DEF StageFields
<1>5. CASE o.opt = "FrequencyCorrection"
  <2>1. Assigns(o) = [freqCorrectionPPM |-> ClampPPM(o.ppm)] /\ Says(o, f) = {}
    BY <1>5 DEF Assigns, Says
  <2> QED  BY <1>1, <1>2, <2>1 DEF StageFields
<1>6. CASE o.opt = "Gain"
  <2>1. Assigns(o) = GainAssigns(o.tenthsDB) /\ Says(o, f) = {GainAssigns(o.tenthsDB)[f]}
    BY <1>6 DEF Assigns, Says
  <2>2. DOMAIN GainAssigns(o.tenthsDB) = StageFields
    BY DEF GainAssigns, AllAuto, StageFields
  <2> QED  BY <1>1, <1>2, <2>1, <2>2 DEF StageFields
<1>7. CASE o.opt = "Stage"
  <2>1. /\ Assigns(o) = Only(o.field, o.stage)
        /\ Says(o, f) = IF o.field = f THEN {o.stage} ELSE {}
    BY <1>7 DEF Assigns, Says
  <2>2. o.field # "autoGain"
    BY <1>7 DEF WellFormed, StageFields
  <2> QED  BY <1>1, <1>2, <2>1, <2>2 DEF Only
<1>8. CASE o.opt = "ManualStage"
  <2>1. /\ Assigns(o) = Only(o.field, ManualGainStep(o.step))
        /\ Says(o, f) = IF o.field = f THEN {ManualGainStep(o.step)} ELSE {}
    BY <1>8 DEF Assigns, Says
  <2>2. o.field # "autoGain"
    BY <1>8 DEF WellFormed, StageFields
  <2> QED  BY <1>1, <1>2, <2>1, <2>2 DEF Only
<1>9. CASE o.opt = "AutoGain"
  <2>1. /\ "autoGain" \in DOMAIN Assigns(o)
        /\ Assigns(o).autoGain = TRUE
    BY <1>9 DEF Assigns
  <2> QED  BY <1>1, <1>2, <2>1
<1>10. CASE o.opt = "Override"
  <2>1. Assigns(o) = Only(o.field, <<o.value>>) /\ Says(o, f) = {}
    BY <1>10 DEF Assigns, Says
  <2>2. o.field # "autoGain" /\ o.field # f
    BY <1>10 DEF WellFormed, StageFields, OverrideFields
  <2> QED  BY <1>1, <1>2, <2>1, <2>2 DEF Only
<1> QED
  BY <1>3, <1>4, <1>5, <1>6, <1>7, <1>8, <1>9, <1>10 DEF WellFormed, OptionKinds
----------------------------------------------------------------------------
LEMMA SearchesIfAsked ==
  ASSUME NEW c, NEW o, WellFormed(o), DOMAIN c = DOMAIN DefaultConfig
  PROVE  Apply(c, o).autoGain = IF o.opt = "AutoGain" THEN TRUE ELSE c.autoGain
<1>1. "autoGain" \in DOMAIN c
  BY DEF DefaultConfig
<1>2. Apply(c, o).autoGain = IF "autoGain" \in DOMAIN Assigns(o) THEN Assigns(o).autoGain ELSE c.autoGain
  BY <1>1 DEF Apply
<1>3. CASE o.opt = "AutoGain"
  BY <1>2, <1>3 DEF Assigns
<1>4. CASE o.opt # "AutoGain"
  <2>1. "autoGain" \notin DOMAIN GainAssigns(o.tenthsDB)
    BY DEF GainAssigns, AllAuto, StageFields
  <2>2. ASSUME NEW v, o.field # "autoGain" PROVE "autoGain" \notin DOMAIN Only(o.field, v)
    BY <2>2 DEF Only
  <2>3. o.opt \in {"Stage", "ManualStage", "Override"} => o.field # "autoGain"
    BY DEF WellFormed, StageFields, OverrideFields
  <2>4. "autoGain" \notin DOMAIN Assigns(o)
    BY <1>4, <2>1, <2>2, <2>3 DEF Assigns, WellFormed, OptionKinds
  <2> QED  BY <1>2, <1>4, <2>4
<1> QED
  BY <1>3, <1>4

LEMMA SearchStep ==
  ASSUME NEW opts \in Seq(AnyOption), NEW o
  PROVE  AsksForSearch(Append(opts, o)) = (AsksForSearch(opts) \/ o.opt = "AutoGain")
<1>1. /\ Len(opts) \in Nat /\ DOMAIN opts = 1..Len(opts)
      /\ DOMAIN Append(opts, o) = 1..Len(opts) + 1
      /\ \A i \in 1..Len(opts) : Append(opts, o)[i] = opts[i]
      /\ Append(opts, o)[Len(opts) + 1] = o
  OBVIOUS
<1>2. AsksForSearch(Append(opts, o)) <=> (AsksForSearch(opts) \/ o.opt = "AutoGain")
  <2>1. ASSUME AsksForSearch(Append(opts, o)), ~(o.opt = "AutoGain") PROVE AsksForSearch(opts)
    <3>1. PICK i \in 1..Len(opts) + 1 : Append(opts, o)[i].opt = "AutoGain"
      BY <1>1, <2>1 DEF AsksForSearch
    <3>2. i \in 1..Len(opts)
      BY <1>1, <2>1, <3>1
    <3> QED  BY <1>1, <3>1, <3>2 DEF AsksForSearch
  <2>2. ASSUME AsksForSearch(opts) PROVE AsksForSearch(Append(opts, o))
    <3>1. PICK i \in 1..Len(opts) : opts[i].opt = "AutoGain"
      BY <1>1, <2>2 DEF AsksForSearch
    <3> QED  BY <1>1, <3>1 DEF AsksForSearch
  <2>3. ASSUME o.opt = "AutoGain" PROVE AsksForSearch(Append(opts, o))
    BY <1>1, <2>3 DEF AsksForSearch
  <2> QED  BY <2>1, <2>2, <2>3
<1> QED
  BY <1>2 DEF AsksForSearch

\* An option more: the words before it stand unless it speaks itself.
LEMMA LastWordStep ==
  ASSUME NEW opts \in Seq(AnyOption), NEW o \in AnyOption, NEW f, NEW old, NEW new,
         LastWord(opts, f, old), (Says(o, f) = {} /\ new = old) \/ Says(o, f) = {new}
  PROVE  LastWord(Append(opts, o), f, new)
<1> DEFINE longer == Append(opts, o)
<1>1. /\ Len(opts) \in Nat /\ Len(longer) = Len(opts) + 1
      /\ DOMAIN opts = 1..Len(opts) /\ DOMAIN longer = 1..Len(opts) + 1
      /\ \A i \in 1..Len(opts) : longer[i] = opts[i]
      /\ longer[Len(opts) + 1] = o
  OBVIOUS
<1> HIDE DEF longer
<1>2. CASE Says(o, f) = {new}
  <2>1. Len(opts) + 1 \in DOMAIN longer /\ Says(longer[Len(opts) + 1], f) = {new}
    BY <1>1, <1>2
  <2>2. \A j \in (Len(opts) + 1) + 1..Len(longer) : Says(longer[j], f) = {}
    BY <1>1
  <2> QED  BY <2>1, <2>2 DEF LastWord, longer
<1>3. CASE Says(o, f) = {} /\ new = old
  <2>1. CASE (\A i \in DOMAIN opts : Says(opts[i], f) = {}) /\ old = AutoGain
    <3>1. \A i \in DOMAIN longer : Says(longer[i], f) = {}
      BY <1>1, <1>3, <2>1
    <3> QED  BY <1>3, <2>1, <3>1 DEF LastWord, longer
  <2>2. ASSUME NEW i \in DOMAIN opts, Says(opts[i], f) = {old},
               \A j \in i + 1..Len(opts) : Says(opts[j], f) = {}
        PROVE  LastWord(Append(opts, o), f, new)
    <3>1. i \in DOMAIN longer /\ Says(longer[i], f) = {new}
      BY <1>1, <1>3, <2>2
    <3>2. ASSUME NEW j \in i + 1..Len(longer) PROVE Says(longer[j], f) = {}
      <4>1. j \in i + 1..Len(opts) \/ j = Len(opts) + 1
        BY <1>1
      <4> QED  BY <1>1, <1>3, <2>2, <4>1
    <3> QED  BY <3>1, <3>2 DEF LastWord, longer
  <2> QED  BY <2>1, <2>2 DEF LastWord
<1> QED
  BY <1>2, <1>3

LEMMA InitOptions == Init => OptionsInv
<1> SUFFICES ASSUME Init PROVE OptionsInv
  OBVIOUS
<1>1. ShapeInv
  BY DEF Init, ShapeInv
<1>2. \A f \in StageFields : DefaultConfig[f] = AutoGain
  BY DEF DefaultConfig, StageFields
<1>3. WordInv
  BY <1>2 DEF Init, WordInv, LastWord
<1>4. StagesInv /\ TunedInv /\ FlagsInv
  BY DEF Init, StagesInv, TunedInv, FlagsInv, Opened
<1>5. AutoInv
  BY DEF Init, AutoInv, AsksForSearch, DefaultConfig
<1> QED
  BY <1>1, <1>3, <1>4, <1>5 DEF OptionsInv

LEMMA AppliesOptions ==
  ASSUME ShapeInv, WordInv, AutoInv, NEW o \in AnyOption, Applies(o)
  PROVE  /\ given' = Append(given, o) /\ given' \in Seq(AnyOption) /\ DOMAIN cfg' = DOMAIN DefaultConfig
         /\ WordInv' /\ AutoInv'
<1>1. WellFormed(o)
  BY OptionsWellFormed
<1>2. given' = Append(given, o) /\ cfg' = Apply(cfg, o) /\ given \in Seq(AnyOption)
      /\ DOMAIN cfg = DOMAIN DefaultConfig
  BY DEF Applies, ShapeInv
<1>3. DOMAIN cfg' = DOMAIN DefaultConfig
  BY <1>2 DEF Apply
<1>4. ASSUME ~cfg'.autoGain, NEW f \in StageFields
      PROVE  LastWord(given', f, cfg'[f])
  <2>1. /\ ~cfg.autoGain
        /\ (Says(o, f) = {} /\ cfg'[f] = cfg[f]) \/ Says(o, f) = {cfg'[f]}
    BY <1>1, <1>2, <1>4, SaysWhatItAssigns
  <2>2. LastWord(given, f, cfg[f])
    BY <2>1 DEF WordInv
  <2> QED  BY <1>2, <2>1, <2>2, LastWordStep
<1>5. AutoInv'
  <2>1. cfg'.autoGain = IF o.opt = "AutoGain" THEN TRUE ELSE cfg.autoGain
    BY <1>1, <1>2, SearchesIfAsked
  <2>2. AsksForSearch(given') = (AsksForSearch(given) \/ o.opt = "AutoGain")
    BY <1>2, SearchStep
  <2>3. cfg.autoGain = AsksForSearch(given)
    BY DEF AutoInv
  <2>4. AsksForSearch(given) \in BOOLEAN
    BY DEF AsksForSearch
  <2>5. CASE o.opt = "AutoGain"
    <3>1. cfg'.autoGain = TRUE /\ AsksForSearch(given') = TRUE
      BY <2>1, <2>2, <2>4, <2>5
    <3> QED  BY <3>1 DEF AutoInv
  <2>6. CASE o.opt # "AutoGain"
    <3>1. cfg'.autoGain = AsksForSearch(given) /\ AsksForSearch(given') = AsksForSearch(given)
      BY <2>1, <2>2, <2>3, <2>4, <2>6
    <3> QED  BY <3>1 DEF AutoInv
  <2> QED  BY <2>5, <2>6
<1> QED
  BY <1>2, <1>3, <1>4, <1>5 DEF WordInv

LEMMA NextOptions == OptionsInv /\ [Next]_vars => OptionsInv'
<1> SUFFICES ASSUME OptionsInv, [Next]_vars PROVE OptionsInv'
  OBVIOUS
<1> USE DEF OptionsInv
<1>1. ASSUME NEW o \in OptionSet, Give(o) PROVE OptionsInv'
  <2>1. o \in AnyOption /\ Applies(o)
    BY <1>1 DEF AnyOption, Give
  <2>2. StagesInv' /\ TunedInv' /\ FlagsInv'
    BY <1>1 DEF Give, StagesInv, TunedInv, FlagsInv, Opened
  <2> QED  BY <1>1, <2>1, <2>2, AppliesOptions DEF Give, ShapeInv
<1>2. ASSUME NEW f \in CommandLines, FromFlags(f) PROVE OptionsInv'
  <2>1. todo' \in Seq(AnyOption) /\ todo' = BuildOptions(f) /\ given' = <<>>
    BY <1>2, BuildsOptions DEF FromFlags
  <2>2. given' \o todo' = BuildOptions(f)
    BY <2>1
  <2>3. FlagsInv'
    BY <1>2, <2>2 DEF FromFlags, FlagsInv, Opened
  <2> QED  BY <1>2, <2>1, <2>3 DEF FromFlags, ShapeInv, WordInv, LastWord, StagesInv, TunedInv, AutoInv, AsksForSearch, Opened
<1>3. CASE GiveNext
  <2>1. Head(todo) \in AnyOption /\ Tail(todo) \in Seq(AnyOption) /\ Applies(Head(todo))
    BY <1>3 DEF GiveNext, ShapeInv
  <2>2. StagesInv' /\ TunedInv'
    BY <1>3 DEF GiveNext, StagesInv, TunedInv, Opened
  <2>3. given' \o todo' = given \o todo
    <3>1. given' = Append(given, Head(todo)) /\ todo' = Tail(todo) /\ todo # <<>>
      BY <1>3, <2>1, AppliesOptions DEF GiveNext
    <3>2. ASSUME NEW s \in Seq(AnyOption), NEW t \in Seq(AnyOption), t # <<>>
          PROVE  Append(s, Head(t)) \o Tail(t) = s \o t
      BY <3>2
    <3> QED  BY <3>1, <3>2 DEF ShapeInv
  <2>4. FlagsInv'
    BY <1>3, <2>3 DEF GiveNext, FlagsInv, Opened
  <2> QED  BY <1>3, <2>1, <2>2, <2>4, AppliesOptions DEF GiveNext, ShapeInv
<1>4. ASSUME NEW fineTune, Refuses(fineTune) PROVE OptionsInv'
  BY <1>4 DEF Refuses, ShapeInv, WordInv, LastWord, StagesInv, TunedInv, AutoInv, AsksForSearch, FlagsInv, Opened
<1>5. ASSUME NEW fineTune, NEW lna, Opens(fineTune, lna) PROVE OptionsInv'
  <2>1. PICK k \in LosFor(fineTune) : radio' = Tuned(Programmed(cfg, fineTune, k), cfg, lna)
    BY <1>5 DEF Opens
  <2>2. ASSUME ~cfg.autoGain PROVE \A f \in StageFields : radio'.stages[f] = cfg[f]
    <3>1. radio'.stages = [f \in StageFields |-> cfg[f]]
      BY <2>1, <2>2 DEF Tuned, Programmed
    <3> QED  BY <3>1
  <2>3. ASSUME cfg.autoGain PROVE radio'.stages.mixerGain.step = 15 /\ radio'.stages.vgaGain.step = 15
    <3>1. radio'.stages = [f \in StageFields |-> ManualGainStep(IF f = "lnaGain" THEN lna ELSE 15)]
      BY <2>1, <2>3 DEF Tuned, Programmed
    <3>2. ManualGainStep(15).step = 15
      BY DEF ManualGainStep
    <3> QED  BY <3>1, <3>2 DEF StageFields
  <2>4. StagesInv' /\ TunedInv' /\ FlagsInv'
    BY <1>5, <2>2, <2>3 DEF Opens, StagesInv, TunedInv, FlagsInv
  <2> QED  BY <1>5, <2>4 DEF Opens, ShapeInv, WordInv, LastWord, AutoInv, AsksForSearch
<1>6. CASE OpensAgain
  <2>1. \A f \in StageFields : DefaultConfig[f] = AutoGain
    BY DEF DefaultConfig, StageFields
  <2>2. DefaultConfig.autoGain = FALSE
    BY DEF DefaultConfig
  <2>3. ShapeInv' /\ WordInv'
    BY <1>6, <2>1 DEF OpensAgain, ShapeInv, WordInv, LastWord
  <2>4. AutoInv'
    <3>1. cfg' = DefaultConfig /\ given' = <<>>
      BY <1>6 DEF OpensAgain
    <3>2. AsksForSearch(<<>>) = FALSE
      BY DEF AsksForSearch
    <3>3. AutoInv' <=> (cfg'.autoGain = AsksForSearch(given'))
      BY DEF AutoInv, AsksForSearch
    <3> QED  BY <2>2, <3>1, <3>2, <3>3
  <2>5. StagesInv' /\ TunedInv' /\ FlagsInv'
    BY <1>6 DEF OpensAgain, StagesInv, TunedInv, FlagsInv, Opened
  <2> QED  BY <2>3, <2>4, <2>5
<1>7. CASE UNCHANGED vars
  BY <1>7 DEF vars, ShapeInv, WordInv, LastWord, StagesInv, TunedInv, AutoInv, AsksForSearch, FlagsInv, Opened
<1> QED
  BY <1>1, <1>2, <1>3, <1>4, <1>5, <1>6, <1>7 DEF Next

LEMMA OptionsInvImplies == OptionsInv => LastOptionWins
BY DEF OptionsInv, WordInv, StagesInv, LastWord, LastOptionWins

\* Whatever options a caller or a command line gives, in any number and order, the
\* stages of an opened radio are what the last option that speaks of each says, or
\* automatic if none does; WithAutoGain's search excepted (sdr.go:198, main.go:236).
THEOREM LastWordIsProgrammed == Spec => []LastOptionWins
<1>1. Init => OptionsInv
  BY InitOptions
<1>2. OptionsInv /\ [Next]_vars => OptionsInv'
  BY NextOptions
<1>3. OptionsInv => LastOptionWins
  BY OptionsInvImplies
<1> QED
  BY <1>1, <1>2, <1>3, PTL DEF Spec
----------------------------------------------------------------------------
(* rtl-probe's flags.                                                      *)

\* What a part of the list says of a stage: nothing, or in the end value.
Silent(opts, f) == \A i \in DOMAIN opts : Says(opts[i], f) = {}
Speaks(opts, f, value) ==
  \E i \in DOMAIN opts : Says(opts[i], f) = {value} /\ \A j \in i + 1..Len(opts) : Says(opts[j], f) = {}

LEMMA SilentParts ==
  ASSUME NEW S, NEW s \in Seq(S), NEW t \in Seq(S), NEW f, Silent(s, f), Silent(t, f)
  PROVE  Silent(s \o t, f)
<1> SUFFICES ASSUME NEW i \in DOMAIN (s \o t) PROVE Says((s \o t)[i], f) = {}
  BY DEF Silent
<1>1. CASE i \in 1..Len(s)
  BY <1>1, Concatenated DEF Silent
<1>2. CASE i \notin 1..Len(s)
  <2>1. i - Len(s) \in 1..Len(t) /\ i = Len(s) + (i - Len(s))
    BY <1>2, Concatenated
  <2>2. (s \o t)[i] = t[i - Len(s)]
    BY <2>1, Concatenated
  <2> QED  BY <2>1, <2>2, Concatenated DEF Silent
<1> QED  BY <1>1, <1>2

LEMMA FirstPartSpeaks ==
  ASSUME NEW S, NEW s \in Seq(S), NEW t \in Seq(S), NEW f, NEW v, Speaks(s, f, v), Silent(t, f)
  PROVE  Speaks(s \o t, f, v)
<1>1. PICK i \in DOMAIN s : Says(s[i], f) = {v} /\ \A j \in i + 1..Len(s) : Says(s[j], f) = {}
  BY DEF Speaks
<1>2. i \in DOMAIN (s \o t) /\ Says((s \o t)[i], f) = {v}
  BY <1>1, Concatenated
<1>3. ASSUME NEW j \in i + 1..Len(s \o t) PROVE Says((s \o t)[j], f) = {}
  <2>1. CASE j \in 1..Len(s)
    <3>1. j \in i + 1..Len(s) /\ (s \o t)[j] = s[j]
      BY <1>1, <2>1, Concatenated
    <3> QED  BY <1>1, <3>1
  <2>2. CASE j \notin 1..Len(s)
    <3>1. j - Len(s) \in 1..Len(t) /\ j = Len(s) + (j - Len(s))
      BY <1>1, <2>2, Concatenated
    <3>2. (s \o t)[j] = t[j - Len(s)]
      BY <3>1, Concatenated
    <3> QED  BY <3>1, <3>2, Concatenated DEF Silent
  <2> QED  BY <2>1, <2>2
<1> QED  BY <1>2, <1>3 DEF Speaks

LEMMA LastPartSpeaks ==
  ASSUME NEW S, NEW s \in Seq(S), NEW t \in Seq(S), NEW f, NEW v, Speaks(t, f, v)
  PROVE  Speaks(s \o t, f, v)
<1>1. PICK i \in DOMAIN t : Says(t[i], f) = {v} /\ \A j \in i + 1..Len(t) : Says(t[j], f) = {}
  BY DEF Speaks
<1>2. Len(s) + i \in DOMAIN (s \o t) /\ Says((s \o t)[Len(s) + i], f) = {v}
  BY <1>1, Concatenated
<1>3. ASSUME NEW j \in (Len(s) + i) + 1..Len(s \o t) PROVE Says((s \o t)[j], f) = {}
  <2>1. j - Len(s) \in i + 1..Len(t) /\ j - Len(s) \in 1..Len(t) /\ j = Len(s) + (j - Len(s))
    BY <1>1, Concatenated
  <2>2. (s \o t)[j] = t[j - Len(s)]
    BY <2>1, Concatenated
  <2> QED  BY <1>1, <2>1, <2>2
<1> QED  BY <1>2, <1>3 DEF Speaks

\* Only one value can be the last.
LEMMA LastWordIsUnique ==
  ASSUME NEW opts \in Seq(AnyOption), NEW f, NEW v, NEW w, Speaks(opts, f, v), LastWord(opts, f, w)
  PROVE  v = w
<1>1. PICK i \in DOMAIN opts : Says(opts[i], f) = {v} /\ \A j \in i + 1..Len(opts) : Says(opts[j], f) = {}
  BY DEF Speaks
<1>2. PICK k \in DOMAIN opts : Says(opts[k], f) = {w} /\ \A j \in k + 1..Len(opts) : Says(opts[j], f) = {}
  BY <1>1 DEF LastWord
<1>3. DOMAIN opts = 1..Len(opts) /\ Len(opts) \in Nat
  OBVIOUS
<1>4. i = k
  <2>1. i < k => FALSE
    <3> SUFFICES ASSUME i < k PROVE FALSE
      OBVIOUS
    <3>1. k \in i + 1..Len(opts)
      BY <1>3
    <3>2. Says(opts[k], f) = {} /\ Says(opts[k], f) = {w}
      BY <1>1, <1>2, <3>1
    <3> QED  BY <3>2
  <2>2. k < i => FALSE
    <3> SUFFICES ASSUME k < i PROVE FALSE
      OBVIOUS
    <3>1. i \in k + 1..Len(opts)
      BY <1>3
    <3>2. Says(opts[i], f) = {} /\ Says(opts[i], f) = {v}
      BY <1>1, <1>2, <3>1
    <3> QED  BY <3>2
  <2> QED  BY <1>3, <2>1, <2>2
<1> QED  BY <1>1, <1>2, <1>4

LEMMA StageFlagSpeaks ==
  ASSUME NEW field \in StageFields, NEW step
  PROVE  /\ step \in 0..15 => Speaks(StageOption(field, step), field, ManualGainStep(step))
         /\ \A f \in StageFields \ {field} : Silent(StageOption(field, step), f)
<1> DEFINE o == [opt |-> "Stage", field |-> field, stage |-> ManualGainStep(step % 256)]
<1>1. StageOption(field, step) = IF step = NoFlag THEN <<>> ELSE <<o>>
  BY DEF StageOption
<1>2. ASSUME step \in 0..15 PROVE Speaks(StageOption(field, step), field, ManualGainStep(step))
  <2>1. step # NoFlag /\ step % 256 = step
    BY <1>2 DEF NoFlag
  <2>2. Says(o, field) = {ManualGainStep(step)}
    BY <2>1 DEF Says
  <2>3. StageOption(field, step) = <<o>>
    BY <1>1, <2>1
  <2> HIDE DEF o
  <2> QED  BY <2>2, <2>3 DEF Speaks
<1>3. ASSUME NEW f \in StageFields \ {field} PROVE Silent(StageOption(field, step), f)
  <2>1. Says(o, f) = {}
    BY <1>3 DEF Says
  <2> HIDE DEF o
  <2> QED  BY <1>1, <2>1 DEF Silent
<1> QED
  BY <1>2, <1>3

\* The flag that asks for a step of a stage.
StepFlag(f, field) == CASE field = "lnaGain" -> f.lna [] field = "mixerGain" -> f.mixer [] field = "vgaGain" -> f.vga

LEMMA FlagsSpeak ==
  ASSUME NEW f \in CommandLines, ~f.autoGain, NEW field \in StageFields, StepFlag(f, field) \in 0..15
  PROVE  Speaks(BuildOptions(f), field, ManualGainStep(StepFlag(f, field)))
<1> DEFINE
      S == PlainOptions(f)
      v == ManualGainStep(StepFlag(f, field))
      l == StageOption("lnaGain", f.lna)
      m == StageOption("mixerGain", f.mixer)
      g == StageOption("vgaGain", f.vga)
      gain == <<GainOption(f.gain)>>
<1>1. /\ BaseOptions(f) \in Seq(S) /\ BiasTeeOptions(f) \in Seq(S) /\ gain \in Seq(S)
      /\ l \in Seq(S) /\ m \in Seq(S) /\ g \in Seq(S)
  BY PartsAreOptions
<1>2. Silent(BiasTeeOptions(f), field)
  <2>1. Says(BiasTeeFlag(f), field) = {}
    BY DEF BiasTeeFlag, Says
  <2> QED  BY <2>1 DEF BiasTeeOptions, Silent
<1>3. BuildOptions(f) = (BaseOptions(f) \o (gain \o ((l \o m) \o g))) \o BiasTeeOptions(f)
  BY BuildsFromParts DEF GainOptions, StageOptions
<1>4. ASSUME field = "lnaGain" PROVE Speaks((l \o m) \o g, field, v)
  <2>1. StepFlag(f, field) = f.lna
    BY <1>4 DEF StepFlag
  <2>2. Speaks(l, field, v)
    BY <1>4, <2>1, StageFlagSpeaks
  <2>3. Silent(m, field) /\ Silent(g, field)
    BY <1>4, StageFlagSpeaks DEF StageFields
  <2> HIDE DEF S, v, l, m, g
  <2>4. l \o m \in Seq(S) /\ Speaks(l \o m, field, v)
    BY <1>1, <2>2, <2>3, FirstPartSpeaks, Concatenated
  <2>5. Speaks((l \o m) \o g, field, v)
    BY <1>1, <2>3, <2>4, FirstPartSpeaks
  <2> QED  BY <2>5
<1>5. ASSUME field = "mixerGain" PROVE Speaks((l \o m) \o g, field, v)
  <2>1. StepFlag(f, field) = f.mixer
    BY <1>5 DEF StepFlag
  <2>2. Speaks(m, field, v)
    BY <1>5, <2>1, StageFlagSpeaks
  <2>3. Silent(g, field)
    BY <1>5, StageFlagSpeaks DEF StageFields
  <2> HIDE DEF S, v, l, m, g
  <2>4. l \o m \in Seq(S) /\ Speaks(l \o m, field, v)
    BY <1>1, <2>2, LastPartSpeaks, Concatenated
  <2>5. Speaks((l \o m) \o g, field, v)
    BY <1>1, <2>3, <2>4, FirstPartSpeaks
  <2> QED  BY <2>5
<1>6. ASSUME field = "vgaGain" PROVE Speaks((l \o m) \o g, field, v)
  <2>1. StepFlag(f, field) = f.vga
    BY <1>6 DEF StepFlag
  <2>2. Speaks(g, field, v)
    BY <1>6, <2>1, StageFlagSpeaks
  <2> HIDE DEF S, v, l, m, g
  <2>3. l \o m \in Seq(S)
    BY <1>1, Concatenated
  <2>4. Speaks((l \o m) \o g, field, v)
    BY <1>1, <2>2, <2>3, LastPartSpeaks
  <2> QED  BY <2>4
<1>7. Speaks((l \o m) \o g, field, v)
  BY <1>4, <1>5, <1>6 DEF StageFields
<1> HIDE DEF S, v, l, m, g, gain
<1>8. (l \o m) \o g \in Seq(S)
  BY <1>1, Concatenated
<1>10. Speaks(gain \o ((l \o m) \o g), field, v) /\ gain \o ((l \o m) \o g) \in Seq(S)
  BY <1>1, <1>7, <1>8, LastPartSpeaks, Concatenated
<1>11. /\ Speaks(BaseOptions(f) \o (gain \o ((l \o m) \o g)), field, v)
       /\ BaseOptions(f) \o (gain \o ((l \o m) \o g)) \in Seq(S)
  BY <1>1, <1>10, LastPartSpeaks, Concatenated
<1>9. Speaks(BuildOptions(f), field, v)
  BY <1>1, <1>2, <1>3, <1>11, FirstPartSpeaks
<1> QED
  BY <1>9 DEF v

LEMMA SearchIsAskedFor ==
  ASSUME NEW f \in CommandLines
  PROVE  AsksForSearch(BuildOptions(f)) = f.autoGain
<1>1. f.autoGain \in BOOLEAN
  BY OptionsAssumption
<1>2. CASE f.autoGain
  <2> DEFINE o == [opt |-> "AutoGain"]
             S == FlagOptions(f)
             a == BaseOptions(f)
             b == BiasTeeOptions(f)
  <2>1. /\ a \in Seq(S) /\ b \in Seq(S) /\ o \in S /\ o.opt = "AutoGain"
        /\ BuildOptions(f) = (a \o <<o>>) \o b
    <3>1. a \in Seq(S) /\ b \in Seq(S)
      BY PartsAreOptions, PlainAreFlagOptions
    <3>2. o \in S /\ o.opt = "AutoGain"
      BY DEF FlagOptions
    <3>3. BuildOptions(f) = (a \o <<o>>) \o b
      BY <1>2, BuildsSearch
    <3> QED  BY <3>1, <3>2, <3>3
  <2> HIDE DEF o, S, a, b
  <2>2. /\ <<o>> \in Seq(S) /\ Len(<<o>>) = 1 /\ <<o>>[1] = o
        /\ a \o <<o>> \in Seq(S) /\ Len(a) \in Nat /\ Len(a \o <<o>>) = Len(a) + 1
        /\ (a \o <<o>>)[Len(a) + 1] = o
    BY <2>1
  <2>3. /\ Len(a) + 1 \in DOMAIN BuildOptions(f)
        /\ BuildOptions(f)[Len(a) + 1].opt = "AutoGain"
    <3>1. /\ DOMAIN ((a \o <<o>>) \o b) = 1..(Len(a) + 1) + Len(b) /\ Len(b) \in Nat
          /\ \A i \in 1..Len(a) + 1 : ((a \o <<o>>) \o b)[i] = (a \o <<o>>)[i]
      BY <2>1, <2>2, Concatenated
    <3> QED  BY <2>1, <2>2, <3>1
  <2>4. AsksForSearch(BuildOptions(f)) = TRUE
    BY <2>3 DEF AsksForSearch
  <2>5. f.autoGain = TRUE
    BY <1>1, <1>2
  <2> QED  BY <2>4, <2>5
<1>3. CASE ~f.autoGain
  <2>1. BuildOptions(f) \in Seq(PlainOptions(f))
    BY <1>3, BuildsPlain
  <2>2. ASSUME NEW o \in PlainOptions(f) PROVE o.opt # "AutoGain"
    BY <2>2 DEF PlainOptions, FlagStages, GainOption, BiasTeeFlag
  <2>3. AsksForSearch(BuildOptions(f)) = FALSE
    BY <2>1, <2>2 DEF AsksForSearch
  <2>4. f.autoGain = FALSE
    BY <1>1, <1>3
  <2> QED  BY <2>3, <2>4
<1> QED
  BY <1>2, <1>3

LEMMA OptionsInvReachesTheChip == OptionsInv => FlagsReachTheChip
<1> SUFFICES ASSUME OptionsInv, Opened, NEW f \in flags
             PROVE  /\ f.autoGain => radio.stages.mixerGain.step = 15 /\ radio.stages.vgaGain.step = 15
                    /\ ~f.autoGain =>
                         /\ f.lna \in 0..15 => radio.stages.lnaGain = ManualGainStep(f.lna)
                         /\ f.mixer \in 0..15 => radio.stages.mixerGain = ManualGainStep(f.mixer)
                         /\ f.vga \in 0..15 => radio.stages.vgaGain = ManualGainStep(f.vga)
  BY DEF FlagsReachTheChip
<1>1. f \in CommandLines /\ given = BuildOptions(f) /\ given \in Seq(AnyOption)
  BY DEF OptionsInv, FlagsInv, ShapeInv
<1>2. cfg.autoGain = f.autoGain
  BY <1>1, SearchIsAskedFor DEF OptionsInv, AutoInv
<1>3. ASSUME f.autoGain PROVE radio.stages.mixerGain.step = 15 /\ radio.stages.vgaGain.step = 15
  BY <1>2, <1>3 DEF OptionsInv, TunedInv
<1>4. ASSUME ~f.autoGain, NEW field \in StageFields, StepFlag(f, field) \in 0..15
      PROVE  radio.stages[field] = ManualGainStep(StepFlag(f, field))
  <2>1. LastWord(given, field, cfg[field]) /\ radio.stages[field] = cfg[field]
    BY <1>2, <1>4 DEF OptionsInv, WordInv, StagesInv
  <2>2. Speaks(given, field, ManualGainStep(StepFlag(f, field)))
    BY <1>1, <1>4, FlagsSpeak
  <2> QED  BY <1>1, <2>1, <2>2, LastWordIsUnique
<1> QED
  BY <1>3, <1>4 DEF StageFields, StepFlag

\* On any command line a stage's own flag beats --gain, and --auto-gain beats
\* both, whatever the other flags are (main.go:236).
THEOREM FlagsAreProgrammed == Spec => []FlagsReachTheChip
<1>1. Init => OptionsInv
  BY InitOptions
<1>2. OptionsInv /\ [Next]_vars => OptionsInv'
  BY NextOptions
<1>3. OptionsInv => FlagsReachTheChip
  BY OptionsInvReachesTheChip
<1> QED
  BY <1>1, <1>2, <1>3, PTL DEF Spec
----------------------------------------------------------------------------
(* Types.                                                                  *)

Typed(o) ==
  /\ o.opt \in {"CenterFreq", "SampleRate"} => o.hz \in Nat
  /\ o.opt = "FrequencyCorrection" => o.ppm \in Int
  /\ o.opt = "Gain" => o.tenthsDB \in Int
  /\ o.opt = "Stage" => o.stage \in Stages
  /\ o.opt = "ManualStage" => o.step \in 0..255

LEMMA ManualIsStage ==
  ASSUME NEW step \in 0..255
  PROVE  ManualGainStep(step) \in Stages
BY DEF ManualGainStep, Stages

LEMMA OptionsTyped == ASSUME NEW o \in AnyOption PROVE Typed(o)
<1>1. CASE o \in OptionSet
  BY <1>1, OptionsAssumption DEF Typed
<1>2. ASSUME NEW f \in CommandLines, o \in FlagOptions(f) PROVE Typed(o)
  <2>1. f.center \in Nat /\ f.rate \in Nat /\ f.ppm \in Int /\ f.gain \in Int
        /\ f.lna \in Int /\ f.mixer \in Int /\ f.vga \in Int
    BY OptionsAssumption
  <2>2. f.lna % 256 \in 0..255 /\ f.mixer % 256 \in 0..255 /\ f.vga % 256 \in 0..255
    BY <2>1
  <2>3. CASE o \in FlagStages(f)
    <3>1. o.opt = "Stage" /\ o.stage \in Stages
      BY <2>2, <2>3, ManualIsStage DEF FlagStages
    <3> QED  BY <3>1 DEF Typed
  <2>4. CASE o \notin FlagStages(f)
    BY <1>2, <2>1, <2>4 DEF FlagOptions, PlainOptions, GainOption, BiasTeeFlag, Typed
  <2> QED  BY <2>3, <2>4
<1> QED
  BY <1>1, <1>2 DEF AnyOption

\* What config's fields hold.
ConfigTyped(c) ==
  /\ DOMAIN c = DOMAIN DefaultConfig
  /\ c.centerFreqHz \in Nat /\ c.sampleRateHz \in Nat /\ c.freqCorrectionPPM \in -PPMMax..PPMMax
  /\ \A f \in StageFields : c[f] \in Stages
  /\ c.autoGain \in BOOLEAN

LEMMA DefaultTyped == ConfigTyped(DefaultConfig)
BY DEF ConfigTyped, DefaultConfig, StageFields, AutoGain, Stages, PPMMax

LEMMA ClampsPPM ==
  ASSUME NEW ppm \in Int
  PROVE  ClampPPM(ppm) \in -PPMMax..PPMMax
BY DEF ClampPPM, PPMMax

----------------------------------------------------------------------------
(* The gain ladder.                                                         *)

LEMMA SumsSay ==
  ASSUME NEW steps \in Seq(Int)
  PROVE  /\ Sums(steps)[0] = 0
         /\ \A i \in 1..Len(steps) : Sums(steps)[i] = Sums(steps)[i - 1] + steps[i]
         /\ \A i \in 0..Len(steps) : Sums(steps)[i] \in Int
<1> DEFINE n == Len(steps)
           F(g) == [i \in 0..n |-> IF i = 0 THEN 0 ELSE g[i - 1] + steps[i]]
           f == Sums(steps)
<1>1. f = CHOOSE g : g = F(g)
  BY DEF Sums
<1>2. \E g : g = F(g)
  BY SumExists
<1>3. f = F(f)
  <2> HIDE DEF F, f
  <2> QED  BY <1>1, <1>2
<1> HIDE DEF f
<1>4. n \in Nat
  OBVIOUS
<1>5. f[0] = 0 /\ \A i \in 1..n : f[i] = f[i - 1] + steps[i]
  BY <1>3, <1>4
<1>6. \A i \in 0..n : f[i] \in Int
  <2> DEFINE S == {i \in 0..n : f[i] \in Int}
  <2>1. 0 \in S
    BY <1>4, <1>5
  <2>2. ASSUME NEW i \in 0..n, i \in S, i # n
        PROVE  i + 1 \in S
    <3>1. i + 1 \in 1..n /\ steps[i + 1] \in Int /\ f[i + 1] = f[i] + steps[i + 1]
      BY <1>4, <1>5, <2>2
    <3> QED  BY <2>2, <3>1
  <2> HIDE DEF S
  <2>3. 0..n \subseteq S
    BY <1>4, <2>1, <2>2, InductionUpTo
  <2> QED  BY <2>3 DEF S
<1> QED
  BY <1>5, <1>6 DEF f

RungStep(rung) == IF rung % 2 = 1 THEN LNAGainSteps[LNAOf(rung)] ELSE MixerGainSteps[MixerOf(rung)]

LEMMA StepsAre ==
  /\ LNAGainSteps \in Seq(Int) /\ Len(LNAGainSteps) = 15
  /\ MixerGainSteps \in Seq(Int) /\ Len(MixerGainSteps) = 15
  /\ \A i \in 1..15 : LNAGainSteps[i] \in Int /\ MixerGainSteps[i] \in Int
<1>1. /\ LNAGainSteps \in Seq(Int) /\ Len(LNAGainSteps) = 15
      /\ MixerGainSteps \in Seq(Int) /\ Len(MixerGainSteps) = 15
  BY DEF LNAGainSteps, MixerGainSteps
<1>2. \A i \in 1..15 : LNAGainSteps[i] \in Int /\ MixerGainSteps[i] \in Int
  BY <1>1, ElementOfSeq
<1> QED
  BY <1>1, <1>2

LEMMA RungGainSays ==
  /\ RungGain[0] = 0
  /\ \A rung \in 1..30 : RungGain[rung] = RungGain[rung - 1] + RungStep(rung)
<1> DEFINE F(g) == [rung \in 0..30 |-> IF rung = 0 THEN 0 ELSE g[rung - 1] + RungStep(rung)]
           step == [rung \in 1..30 |-> RungStep(rung)]
<1>1. RungGain = CHOOSE g : g = F(g)
  BY DEF RungGain, RungStep, Rungs
<1>2. ASSUME NEW rung \in 1..30 PROVE RungStep(rung) \in Int
  <2>1. rung % 2 = 1 => LNAOf(rung) \in 1..15
    BY DEF LNAOf
  <2>2. rung % 2 # 1 => MixerOf(rung) \in 1..15
    BY DEF MixerOf
  <2> QED  BY <2>1, <2>2, StepsAre DEF RungStep
<1> HIDE DEF RungStep
<1>3. \E g : g = F(g)
  <2>1. 30 \in Nat /\ \A rung \in 1..30 : step[rung] \in Int /\ step[rung] = RungStep(rung)
    BY <1>2
  <2> HIDE DEF step
  <2>2. PICK g \in [0..30 -> Int] : g = [i \in 0..30 |-> IF i = 0 THEN 0 ELSE g[i - 1] + step[i]]
    BY <2>1, SumExists
  <2>3. g = F(g)
    BY <2>1, <2>2
  <2> QED  BY <2>3
<1>4. RungGain = F(RungGain)
  <2> HIDE DEF F
  <2> QED  BY <1>1, <1>3
<1> QED
  BY <1>4

LEMMA LadderTotals ==
  ASSUME NEW rung \in 0..30
  PROVE  /\ LNAOf(rung) \in 0..15 /\ MixerOf(rung) \in 0..15
         /\ TotalGain(LNAOf(rung), MixerOf(rung)) = RungGain[rung] /\ RungGain[rung] \in Int
<1> DEFINE L(i) == Sums(LNAGainSteps)[i]
           M(i) == Sums(MixerGainSteps)[i]
           S == {r \in 0..30 : L(LNAOf(r)) + M(MixerOf(r)) = RungGain[r]}
<1>1. /\ L(0) = 0 /\ \A i \in 1..15 : L(i) = L(i - 1) + LNAGainSteps[i] /\ LNAGainSteps[i] \in Int
      /\ M(0) = 0 /\ \A i \in 1..15 : M(i) = M(i - 1) + MixerGainSteps[i] /\ MixerGainSteps[i] \in Int
      /\ \A i \in 0..15 : L(i) \in Int /\ M(i) \in Int
  <2>1. ASSUME NEW steps \in Seq(Int), Len(steps) = 15
        PROVE  /\ Sums(steps)[0] = 0
               /\ \A i \in 1..15 : Sums(steps)[i] = Sums(steps)[i - 1] + steps[i]
               /\ \A i \in 0..15 : Sums(steps)[i] \in Int
    BY <2>1, SumsSay
  <2> QED  BY <2>1, StepsAre
<1>2. \A r \in 0..30 : LNAOf(r) \in 0..15 /\ MixerOf(r) \in 0..15
  BY DEF LNAOf, MixerOf
<1> HIDE DEF L, M
<1>3. 0 \in S
  <2>1. LNAOf(0) = 0 /\ MixerOf(0) = 0
    BY DEF LNAOf, MixerOf
  <2> QED  BY <1>1, <2>1, RungGainSays
<1>4. ASSUME NEW r \in 0..30, r \in S, r # 30
      PROVE  r + 1 \in S
  <2> DEFINE l == LNAOf(r)
             m == MixerOf(r)
  <2>1. r + 1 \in 1..30 /\ RungGain[r + 1] = RungGain[r] + RungStep(r + 1)
    <3>1. r + 1 \in 1..30 /\ (r + 1) - 1 = r
      BY <1>4
    <3> QED  BY <3>1, RungGainSays
  <2>2. RungGain[r] = L(l) + M(m) /\ L(l) \in Int /\ M(m) \in Int
    BY <1>1, <1>2, <1>4
  <2>3. CASE (r + 1) % 2 = 1
    <3>1. LNAOf(r + 1) = l + 1 /\ MixerOf(r + 1) = m /\ l + 1 \in 1..15
      BY <2>1, <2>3 DEF LNAOf, MixerOf
    <3>2. L(l + 1) = L(l) + LNAGainSteps[l + 1] /\ LNAGainSteps[l + 1] \in Int
      <4>1. (l + 1) - 1 = l /\ (m + 1) - 1 = m /\ l \in Int /\ m \in Int
        BY <1>2, <1>4
      <4> QED  BY <1>1, <3>1, <4>1
    <3>3. RungStep(r + 1) = LNAGainSteps[l + 1]
      BY <2>3, <3>1 DEF RungStep
    <3> HIDE DEF l, m
    <3> QED  BY <2>1, <2>2, <3>1, <3>2, <3>3
  <2>4. CASE (r + 1) % 2 # 1
    <3>1. MixerOf(r + 1) = m + 1 /\ LNAOf(r + 1) = l /\ m + 1 \in 1..15
      BY <2>1, <2>4 DEF LNAOf, MixerOf
    <3>2. M(m + 1) = M(m) + MixerGainSteps[m + 1] /\ MixerGainSteps[m + 1] \in Int
      <4>1. (l + 1) - 1 = l /\ (m + 1) - 1 = m /\ l \in Int /\ m \in Int
        BY <1>2, <1>4
      <4> QED  BY <1>1, <3>1, <4>1
    <3>3. RungStep(r + 1) = MixerGainSteps[m + 1]
      BY <2>4, <3>1 DEF RungStep
    <3> HIDE DEF l, m
    <3> QED  BY <2>1, <2>2, <3>1, <3>2, <3>3
  <2> QED  BY <2>3, <2>4
<1>5. rung \in S
  <2> HIDE DEF S
  <2>1. 0..30 \subseteq S
    BY <1>3, <1>4, InductionUpTo
  <2> QED  BY <2>1
<1>6. TotalGain(LNAOf(rung), MixerOf(rung)) = L(LNAOf(rung)) + M(MixerOf(rung))
  BY DEF TotalGain, L, M
<1> QED
  BY <1>1, <1>2, <1>5, <1>6

\* librtlsdrGainSteps stops at the first rung that reaches the target, or at the top.
StopsAt(t, r) == r = 30 \/ RungGain[r] >= t
FirstStop(t, from, r) == r \in from..30 /\ StopsAt(t, r) /\ \A q \in from..(r - 1) : ~StopsAt(t, q)

LEMMA StopExists ==
  ASSUME NEW t, NEW from \in 0..30
  PROVE  \E r : FirstStop(t, from, r)
<1> DEFINE T == {r \in from..30 : StopsAt(t, r)}
<1>1. T \subseteq Nat /\ 30 \in T
  BY DEF StopsAt
<1>2. PICK r \in T : \A q \in T : r <= q
  <2> HIDE DEF T
  <2> QED  BY <1>1, SmallestOf
<1>3. \A q \in from..(r - 1) : ~StopsAt(t, q)
  BY <1>2
<1> QED
  BY <1>2, <1>3 DEF FirstStop

LEMMA StopIsOne ==
  ASSUME NEW t, NEW from \in 0..30, NEW r, NEW s, FirstStop(t, from, r), FirstStop(t, from, s)
  PROVE  r = s
BY DEF FirstStop

LEMMA StopClimbs ==
  ASSUME NEW t, NEW from \in 0..30, NEW r
  PROVE  /\ StopsAt(t, from) => FirstStop(t, from, from)
         /\ ~StopsAt(t, from) => (FirstStop(t, from, r) <=> FirstStop(t, from + 1, r))
<1>1. StopsAt(t, from) => FirstStop(t, from, from)
  BY DEF FirstStop
<1>2. ASSUME ~StopsAt(t, from), FirstStop(t, from, r) PROVE FirstStop(t, from + 1, r)
  BY <1>2 DEF FirstStop
<1>3. ASSUME ~StopsAt(t, from), FirstStop(t, from + 1, r) PROVE FirstStop(t, from, r)
  BY <1>3 DEF FirstStop
<1> QED
  BY <1>1, <1>2, <1>3

LEMMA GainRungIsFirstStop ==
  ASSUME NEW t
  PROVE  FirstStop(t, 0, GainRung(t))
<1> DEFINE F(c) == [rung \in 0..30 |-> IF StopsAt(t, rung) THEN rung ELSE c[rung + 1]]
           climb == CHOOSE c : c = F(c)
           w == [rung \in 0..30 |-> CHOOSE r : FirstStop(t, rung, r)]
<1>1. GainRung(t) = climb[0]
  BY DEF GainRung, StopsAt, Rungs
<1>2. w = F(w)
  <2>1. ASSUME NEW rung \in 0..30
        PROVE  w[rung] = IF StopsAt(t, rung) THEN rung ELSE w[rung + 1]
    <3>1. FirstStop(t, rung, w[rung])
      <4>1. w[rung] = CHOOSE r : FirstStop(t, rung, r)
        OBVIOUS
      <4> HIDE DEF w
      <4> QED  BY <4>1, StopExists
    <3>2. CASE StopsAt(t, rung)
      <4> HIDE DEF w
      <4> QED  BY <3>1, <3>2, StopClimbs, StopIsOne
    <3>3. CASE ~StopsAt(t, rung)
      <4>1. rung + 1 \in 0..30
        BY <3>3 DEF StopsAt
      <4>2. w[rung + 1] = CHOOSE r : FirstStop(t, rung + 1, r)
        BY <4>1
      <4> HIDE DEF w
      <4>3. FirstStop(t, rung + 1, w[rung + 1])
        BY <4>1, <4>2, StopExists
      <4>4. FirstStop(t, rung + 1, w[rung])
        BY <3>1, <3>3, StopClimbs
      <4> QED  BY <3>3, <4>1, <4>3, <4>4, StopIsOne
    <3> QED  BY <3>2, <3>3
  <2> QED  BY <2>1
<1>3. climb = F(climb)
  <2> HIDE DEF F, w
  <2> QED  BY <1>2
<1> HIDE DEF climb
<1> DEFINE S == {i \in 0..30 : FirstStop(t, 30 - i, climb[30 - i])}
<1>4. 0 \in S
  <2>1. climb[30] = 30 /\ StopsAt(t, 30)
    BY <1>3 DEF StopsAt
  <2> QED  BY <2>1, StopClimbs
<1>5. ASSUME NEW i \in 0..30, i \in S, i # 30
      PROVE  i + 1 \in S
  <2> DEFINE r == 30 - (i + 1)
  <2>1. r \in 0..30 /\ r + 1 = 30 - i
    BY <1>5
  <2>2. climb[r] = IF StopsAt(t, r) THEN r ELSE climb[r + 1]
    BY <1>3, <2>1
  <2>3. FirstStop(t, r + 1, climb[r + 1])
    BY <1>5, <2>1
  <2> HIDE DEF r
  <2>4. FirstStop(t, r, climb[r])
    BY <2>1, <2>2, <2>3, StopClimbs
  <2> QED  BY <1>5, <2>4 DEF r
<1>6. 30 \in S
  <2> HIDE DEF S
  <2>1. 0..30 \subseteq S
    BY <1>4, <1>5, InductionUpTo
  <2> QED  BY <2>1
<1> QED
  BY <1>1, <1>6

LEMMA LadderReaches ==
  ASSUME NEW t \in Int
  PROVE  LET r == GainRung(t)
             lna == LNAOf(r)
             mixer == MixerOf(r)
         IN /\ r \in 0..30 /\ lna \in 0..15 /\ mixer \in 0..15 /\ lna - mixer \in {0, 1}
            /\ TotalGain(lna, mixer) >= t \/ (lna = 15 /\ mixer = 15)
            /\ lna # 0 => TotalGain(IF lna = mixer THEN lna ELSE lna - 1,
                                    IF lna = mixer THEN mixer - 1 ELSE mixer) < t
<1> DEFINE r == GainRung(t)
<1>1. FirstStop(t, 0, r)
  BY GainRungIsFirstStop
<1> HIDE DEF r
<1>2. r \in 0..30 /\ StopsAt(t, r)
  BY <1>1 DEF FirstStop
<1>3. LNAOf(r) \in 0..15 /\ MixerOf(r) \in 0..15 /\ LNAOf(r) - MixerOf(r) \in {0, 1}
  BY <1>2 DEF LNAOf, MixerOf
<1>4. TotalGain(LNAOf(r), MixerOf(r)) >= t \/ (LNAOf(r) = 15 /\ MixerOf(r) = 15)
  <2>1. r = 30 => LNAOf(r) = 15 /\ MixerOf(r) = 15
    BY DEF LNAOf, MixerOf
  <2> QED  BY <1>2, <2>1, LadderTotals DEF StopsAt
<1>5. ASSUME LNAOf(r) # 0
      PROVE  TotalGain(IF LNAOf(r) = MixerOf(r) THEN LNAOf(r) ELSE LNAOf(r) - 1,
                       IF LNAOf(r) = MixerOf(r) THEN MixerOf(r) - 1 ELSE MixerOf(r)) < t
  <2>1. r - 1 \in 0..30 /\ r - 1 # 30
    BY <1>2, <1>5 DEF LNAOf
  <2>2. /\ LNAOf(r - 1) = IF LNAOf(r) = MixerOf(r) THEN LNAOf(r) ELSE LNAOf(r) - 1
        /\ MixerOf(r - 1) = IF LNAOf(r) = MixerOf(r) THEN MixerOf(r) - 1 ELSE MixerOf(r)
    BY <1>2, <2>1 DEF LNAOf, MixerOf
  <2>3. ~StopsAt(t, r - 1)
    BY <1>1, <1>2, <2>1 DEF FirstStop
  <2>4. TotalGain(LNAOf(r - 1), MixerOf(r - 1)) = RungGain[r - 1] /\ RungGain[r - 1] \in Int
    BY <2>1, LadderTotals
  <2>5. RungGain[r - 1] < t
    BY <2>3, <2>4 DEF StopsAt
  <2> QED  BY <2>2, <2>4, <2>5
<1> QED
  BY <1>2, <1>3, <1>4, <1>5 DEF r

----------------------------------------------------------------------------
(* What config and the radio hold.                                          *)

LEMMA GainAssignsStages ==
  ASSUME NEW t \in Int
  PROVE  /\ DOMAIN GainAssigns(t) = StageFields
         /\ \A f \in StageFields : GainAssigns(t)[f] \in Stages
<1>1. CASE t = GainAGC
  BY <1>1 DEF GainAssigns, AllAuto, AutoGain, Stages
<1>2. CASE t # GainAGC
  <2>1. LNAOf(GainRung(t)) \in 0..15 /\ MixerOf(GainRung(t)) \in 0..15
    BY LadderReaches
  <2>2. /\ ManualGainStep(LNAOf(GainRung(t))) \in Stages /\ ManualGainStep(MixerOf(GainRung(t))) \in Stages
        /\ ManualGainStep(ManualVGAStep) \in Stages
    BY <2>1, ManualIsStage DEF ManualVGAStep
  <2>3. GainAssigns(t) = [lnaGain |-> ManualGainStep(LNAOf(GainRung(t))),
                          mixerGain |-> ManualGainStep(MixerOf(GainRung(t))),
                          vgaGain |-> ManualGainStep(ManualVGAStep)]
    BY <1>2 DEF GainAssigns
  <2> QED  BY <2>2, <2>3 DEF StageFields
<1> QED
  BY <1>1, <1>2

\* A field of the config after an option: what the option assigns, or what it was.
FieldTyped(x, v) ==
  /\ x \in {"centerFreqHz", "sampleRateHz"} => v \in Nat
  /\ x = "freqCorrectionPPM" => v \in -PPMMax..PPMMax
  /\ x \in StageFields => v \in Stages
  /\ x = "autoGain" => v \in BOOLEAN

LEMMA AssignsTyped ==
  ASSUME NEW o, WellFormed(o), Typed(o), NEW x \in DOMAIN Assigns(o)
  PROVE  FieldTyped(x, Assigns(o)[x])
<1>1. CASE o.opt = "CenterFreq"
  <2>1. Assigns(o) = [centerFreqHz |-> o.hz] /\ o.hz \in Nat
    BY <1>1 DEF Assigns, Typed
  <2> QED  BY <2>1 DEF FieldTyped, StageFields
<1>2. CASE o.opt = "SampleRate"
  <2>1. Assigns(o) = [sampleRateHz |-> o.hz] /\ o.hz \in Nat
    BY <1>2 DEF Assigns, Typed
  <2> QED  BY <2>1 DEF FieldTyped, StageFields
<1>3. CASE o.opt = "FrequencyCorrection"
  <2>1. Assigns(o) = [freqCorrectionPPM |-> ClampPPM(o.ppm)] /\ ClampPPM(o.ppm) \in -PPMMax..PPMMax
    BY <1>3, ClampsPPM DEF Assigns, Typed
  <2> QED  BY <2>1 DEF FieldTyped, StageFields
<1>4. CASE o.opt = "Gain"
  <2>1. Assigns(o) = GainAssigns(o.tenthsDB) /\ o.tenthsDB \in Int
    BY <1>4 DEF Assigns, Typed
  <2>2. x \in StageFields /\ Assigns(o)[x] \in Stages
    BY <2>1, GainAssignsStages
  <2> QED  BY <2>2 DEF FieldTyped, StageFields
<1>5. CASE o.opt = "Stage"
  <2>1. Assigns(o) = [f \in {o.field} |-> o.stage] /\ o.stage \in Stages /\ o.field \in StageFields
    BY <1>5 DEF Assigns, Only, Typed, WellFormed
  <2> QED  BY <2>1 DEF FieldTyped, StageFields
<1>6. CASE o.opt = "ManualStage"
  <2>1. Assigns(o) = [f \in {o.field} |-> ManualGainStep(o.step)] /\ o.field \in StageFields
        /\ ManualGainStep(o.step) \in Stages
    BY <1>6, ManualIsStage DEF Assigns, Only, Typed, WellFormed
  <2> QED  BY <2>1 DEF FieldTyped, StageFields
<1>7. CASE o.opt = "AutoGain"
  <2>1. Assigns(o) = [autoGain |-> TRUE, lnaGain |-> AutoGain, mixerGain |-> AutoGain, vgaGain |-> AutoGain]
        /\ AutoGain \in Stages
    BY <1>7 DEF Assigns, AutoGain, Stages
  <2> HIDE DEF AutoGain
  <2>2. x = "autoGain" => Assigns(o)[x] \in BOOLEAN
    BY <2>1
  <2>3. x # "autoGain" => x \in StageFields /\ Assigns(o)[x] \in Stages
    BY <2>1 DEF StageFields
  <2> QED  BY <2>2, <2>3 DEF FieldTyped, StageFields
<1>8. CASE o.opt = "Override"
  <2>1. Assigns(o) = [f \in {o.field} |-> <<o.value>>] /\ o.field \in OverrideFields
    BY <1>8 DEF Assigns, Only, WellFormed
  <2>2. x \in OverrideFields
    BY <2>1
  <2> QED  BY <2>2 DEF FieldTyped, StageFields, OverrideFields
<1> QED
  BY <1>1, <1>2, <1>3, <1>4, <1>5, <1>6, <1>7, <1>8 DEF WellFormed, OptionKinds

TypedFields ==
  {"centerFreqHz", "sampleRateHz", "freqCorrectionPPM", "autoGain"} \cup StageFields

LEMMA FieldsOfConfig ==
  ASSUME NEW c, DOMAIN c = DOMAIN DefaultConfig
  PROVE  /\ TypedFields \subseteq DOMAIN c
         /\ ConfigTyped(c) <=> \A x \in TypedFields : FieldTyped(x, c[x])
<1>1. TypedFields \subseteq DOMAIN c
  BY DEF TypedFields, StageFields, DefaultConfig
<1>2. ASSUME ConfigTyped(c), NEW x \in TypedFields PROVE FieldTyped(x, c[x])
  <2>1. CASE x \in StageFields
    BY <1>2, <2>1 DEF ConfigTyped, FieldTyped, StageFields
  <2>2. CASE x \notin StageFields
    BY <1>2, <2>2 DEF ConfigTyped, FieldTyped, TypedFields
  <2> QED  BY <2>1, <2>2
<1>3. ASSUME \A x \in TypedFields : FieldTyped(x, c[x]) PROVE ConfigTyped(c)
  <2>1. c.autoGain \in BOOLEAN
    BY <1>3 DEF FieldTyped, TypedFields
  <2>2. c.centerFreqHz \in Nat /\ c.sampleRateHz \in Nat /\ c.freqCorrectionPPM \in -PPMMax..PPMMax
    BY <1>3 DEF FieldTyped, TypedFields
  <2>3. \A f \in StageFields : c[f] \in Stages
    BY <1>3 DEF FieldTyped, TypedFields
  <2> QED  BY <2>1, <2>2, <2>3 DEF ConfigTyped
<1> QED
  BY <1>1, <1>2, <1>3

LEMMA AppliesTyped ==
  ASSUME NEW c, ConfigTyped(c), NEW o, WellFormed(o), Typed(o)
  PROVE  ConfigTyped(Apply(c, o))
<1> DEFINE d == Apply(c, o)
<1>1. /\ DOMAIN c = DOMAIN DefaultConfig /\ DOMAIN d = DOMAIN DefaultConfig
      /\ \A x \in DOMAIN d : d[x] = IF x \in DOMAIN Assigns(o) THEN Assigns(o)[x] ELSE c[x]
  BY DEF Apply, ConfigTyped
<1> HIDE DEF d
<1>2. ASSUME NEW x \in TypedFields PROVE FieldTyped(x, d[x])
  <2>1. x \in DOMAIN d /\ FieldTyped(x, c[x])
    BY <1>1, FieldsOfConfig
  <2>2. CASE x \in DOMAIN Assigns(o)
    BY <1>1, <2>1, <2>2, AssignsTyped
  <2>3. CASE x \notin DOMAIN Assigns(o)
    BY <1>1, <2>1, <2>3
  <2> QED  BY <2>2, <2>3
<1> QED
  BY <1>1, <1>2, FieldsOfConfig DEF d

\* A command line's options are few: three, four of the gain and the bias tee.
LEMMA BuildsFew ==
  ASSUME NEW f \in CommandLines
  PROVE  BuildOptions(f) \in Seq(AnyOption) /\ Len(BuildOptions(f)) <= 9
<1>1. ASSUME NEW S, NEW s \in Seq(S), NEW t \in Seq(S), NEW m \in Nat, NEW n \in Nat,
             Len(s) <= m, Len(t) <= n
      PROVE  s \o t \in Seq(S) /\ Len(s \o t) <= m + n
  <2>1. Len(s \o t) = Len(s) + Len(t) /\ Len(s) \in Nat /\ Len(t) \in Nat /\ s \o t \in Seq(S)
    BY Concatenated
  <2> QED  BY <1>1, <2>1
<1> DEFINE S == FlagOptions(f)
<1>2. /\ BaseOptions(f) \in Seq(S) /\ BiasTeeOptions(f) \in Seq(S) /\ <<GainOption(f.gain)>> \in Seq(S)
      /\ StageOption("lnaGain", f.lna) \in Seq(S) /\ StageOption("mixerGain", f.mixer) \in Seq(S)
      /\ StageOption("vgaGain", f.vga) \in Seq(S)
  BY PartsAreOptions, PlainAreFlagOptions
<1>3. <<[opt |-> "AutoGain"]>> \in Seq(S) /\ Len(<<[opt |-> "AutoGain"]>>) <= 4
  BY DEF FlagOptions
<1>4. /\ Len(BaseOptions(f)) <= 3 /\ Len(BiasTeeOptions(f)) <= 1 /\ Len(<<GainOption(f.gain)>>) <= 1
      /\ Len(StageOption("lnaGain", f.lna)) <= 1 /\ Len(StageOption("mixerGain", f.mixer)) <= 1
      /\ Len(StageOption("vgaGain", f.vga)) <= 1
  <2>1. Len(BaseOptions(f)) <= 3
    BY DEF BaseOptions
  <2>2. Len(BiasTeeOptions(f)) <= 1
    BY DEF BiasTeeOptions
  <2>3. ASSUME NEW field, NEW step PROVE Len(StageOption(field, step)) <= 1
    BY DEF StageOption
  <2> QED  BY <2>1, <2>2, <2>3
<1> HIDE DEF S
<1>5. StageOptions(f) \in Seq(S) /\ Len(StageOptions(f)) <= 3
  <2> DEFINE a == StageOption("lnaGain", f.lna)
             b == StageOption("mixerGain", f.mixer)
             c == StageOption("vgaGain", f.vga)
  <2>1. StageOptions(f) = (a \o b) \o c
    BY DEF StageOptions
  <2>2. a \in Seq(S) /\ b \in Seq(S) /\ c \in Seq(S) /\ Len(a) <= 1 /\ Len(b) <= 1 /\ Len(c) <= 1
    BY <1>2, <1>4
  <2> HIDE DEF a, b, c
  <2>3. a \o b \in Seq(S) /\ Len(a \o b) <= 1 + 1
    BY <1>1, <2>2
  <2>4. (a \o b) \o c \in Seq(S) /\ Len((a \o b) \o c) <= (1 + 1) + 1
    BY <1>1, <2>2, <2>3
  <2> QED  BY <2>1, <2>4
<1>6. GainOptions(f) \in Seq(S) /\ Len(GainOptions(f)) <= 4
  <2> DEFINE g == <<GainOption(f.gain)>>
             auto == <<[opt |-> "AutoGain"]>>
  <2>1. GainOptions(f) = IF f.autoGain THEN auto ELSE g \o StageOptions(f)
    BY DEF GainOptions
  <2>2. g \in Seq(S) /\ Len(g) <= 1 /\ auto \in Seq(S) /\ Len(auto) <= 4
    BY <1>2, <1>3, <1>4
  <2> HIDE DEF g, auto
  <2>3. g \o StageOptions(f) \in Seq(S) /\ Len(g \o StageOptions(f)) <= 1 + 3
    BY <1>1, <1>5, <2>2
  <2> QED  BY <2>1, <2>2, <2>3
<1>7. BaseOptions(f) \o GainOptions(f) \in Seq(S) /\ Len(BaseOptions(f) \o GainOptions(f)) <= 3 + 4
  BY <1>1, <1>2, <1>4, <1>6
<1>8. Len(BuildOptions(f)) <= (3 + 4) + 1
  <2>1. Len((BaseOptions(f) \o GainOptions(f)) \o BiasTeeOptions(f)) <= (3 + 4) + 1
    BY <1>1, <1>2, <1>4, <1>7
  <2> QED  BY <2>1, BuildsFromParts
<1>9. BuildOptions(f) \in Seq(AnyOption) /\ Len(BuildOptions(f)) \in Nat
  BY BuildsOptions
<1> QED
  BY <1>8, <1>9

\* One command line at most, and nothing left of it that it has not said.
LinesInv ==
  \/ flags = {} /\ todo = <<>> /\ Len(given) <= MaxOptions
  \/ \E f \in CommandLines : flags = {f}

\* An opened radio is what one of its fine tunes and dividers makes of the config.
RadioInv ==
  Opened =>
    /\ ValidRate(cfg.sampleRateHz)
    /\ \E fineTune \in 0..3, lna \in 0..15 : \E k \in LosFor(fineTune) :
         radio = Tuned(Programmed(cfg, fineTune, k), cfg, lna)

TypedInv == OptionsInv /\ ConfigTyped(cfg) /\ LinesInv /\ RadioInv

LEMMA TypedInit == Init => TypedInv
<1> SUFFICES ASSUME Init PROVE TypedInv
  OBVIOUS
<1>1. OptionsInv
  BY InitOptions
<1>2. ConfigTyped(cfg)
  BY DefaultTyped DEF Init
<1>3. LinesInv
  BY OptionsAssumption DEF Init, LinesInv
<1>4. RadioInv
  BY DEF Init, RadioInv, Opened
<1> QED
  BY <1>1, <1>2, <1>3, <1>4 DEF TypedInv

LEMMA TypedStep == TypedInv /\ [Next]_vars => TypedInv'
<1> SUFFICES ASSUME TypedInv, [Next]_vars PROVE TypedInv'
  OBVIOUS
<1> USE DEF TypedInv
<1>1. OptionsInv'
  BY NextOptions
<1>2. ASSUME NEW o \in AnyOption, Applies(o) PROVE ConfigTyped(cfg')
  BY <1>2, OptionsWellFormed, OptionsTyped, AppliesTyped DEF Applies
<1>3. ASSUME NEW o \in OptionSet, Give(o) PROVE ConfigTyped(cfg') /\ LinesInv' /\ RadioInv'
  <2>1. ConfigTyped(cfg')
    BY <1>2, <1>3 DEF Give, AnyOption
  <2>2. given \in Seq(AnyOption) /\ given' = Append(given, o) /\ Len(given) < MaxOptions
    BY <1>3 DEF Give, Applies, OptionsInv, ShapeInv
  <2>3. Len(given') <= MaxOptions
    <3>1. Len(given') = Len(given) + 1 /\ Len(given) \in Nat
      BY <2>2
    <3> QED  BY <2>2, <3>1, OptionsAssumption
  <2>4. LinesInv'
    BY <1>3, <2>3 DEF Give, LinesInv
  <2> QED  BY <1>3, <2>1, <2>4 DEF Give, RadioInv, Opened
<1>4. ASSUME NEW f \in CommandLines, FromFlags(f) PROVE ConfigTyped(cfg') /\ LinesInv' /\ RadioInv'
  BY <1>4 DEF FromFlags, LinesInv, RadioInv, Opened
<1>5. CASE GiveNext
  <2>1. Head(todo) \in AnyOption
    BY <1>5 DEF GiveNext, OptionsInv, ShapeInv
  <2>2. ConfigTyped(cfg')
    BY <1>2, <1>5, <2>1 DEF GiveNext
  <2>3. LinesInv'
    BY <1>5 DEF GiveNext, LinesInv
  <2>4. RadioInv'
    BY <1>5 DEF GiveNext, RadioInv, Opened
  <2> QED  BY <1>1, <2>2, <2>3, <2>4
<1>6. ASSUME NEW fineTune, Refuses(fineTune) PROVE ConfigTyped(cfg') /\ LinesInv' /\ RadioInv'
  BY <1>6 DEF Refuses, LinesInv, RadioInv, Opened
<1>7. ASSUME NEW fineTune \in 0..3, NEW lna \in 0..15, Opens(fineTune, lna)
      PROVE  ConfigTyped(cfg') /\ LinesInv' /\ RadioInv'
  <2>1. PICK k \in LosFor(fineTune) : radio' = Tuned(Programmed(cfg, fineTune, k), cfg, lna)
    BY <1>7 DEF Opens
  <2>2. cfg' = cfg /\ flags' = flags /\ todo' = todo /\ given' = given /\ ValidRate(cfg.sampleRateHz)
    BY <1>7 DEF Opens
  <2>3. RadioInv'
    BY <2>1, <2>2 DEF RadioInv, LosFor
  <2> QED  BY <2>2, <2>3 DEF LinesInv
<1>8. CASE OpensAgain
  <2>1. Len(given') <= MaxOptions
    BY <1>8, OptionsAssumption DEF OpensAgain
  <2> QED  BY <1>1, <1>8, <2>1, DefaultTyped DEF OpensAgain, LinesInv, RadioInv, Opened
<1>9. CASE UNCHANGED vars
  BY <1>1, <1>9 DEF vars, LinesInv, RadioInv, Opened, LosFor
<1>10. ASSUME NEW fineTune \in 0..3, NEW lna \in IF cfg.autoGain THEN 0..15 ELSE {0}, Opens(fineTune, lna)
       PROVE  ConfigTyped(cfg') /\ LinesInv' /\ RadioInv'
  BY <1>7, <1>10
<1> QED
  BY <1>1, <1>3, <1>4, <1>5, <1>6, <1>8, <1>9, <1>10 DEF Next

LEMMA TypedInvReachesTarget == TypedInv => GainReachesTarget
<1> DEFINE n == Len(given)
           target == given[n].tenthsDB
           lna == radio.stages.lnaGain.step
           mixer == radio.stages.mixerGain.step
<1> SUFFICES ASSUME TypedInv, Opened, given # <<>>, given[n].opt = "Gain", ~cfg.autoGain, target # GainAGC
             PROVE  /\ lna - mixer \in {0, 1}
                    /\ TotalGain(lna, mixer) >= target \/ (lna = 15 /\ mixer = 15)
                    /\ lna # 0 => TotalGain(IF lna = mixer THEN lna ELSE lna - 1,
                                            IF lna = mixer THEN mixer - 1 ELSE mixer) < target
  BY DEF GainReachesTarget
<1>1. given \in Seq(AnyOption) /\ n \in Nat /\ n \in DOMAIN given /\ given[n] \in AnyOption
  BY DEF TypedInv, OptionsInv, ShapeInv
<1>2. target \in Int
  BY <1>1, OptionsTyped DEF Typed
<1>3. ASSUME NEW f \in StageFields
      PROVE  radio.stages[f] = GainAssigns(target)[f]
  <2>1. LastWord(given, f, cfg[f]) /\ radio.stages[f] = cfg[f]
    BY DEF TypedInv, OptionsInv, WordInv, StagesInv
  <2>2. Says(given[n], f) = {GainAssigns(target)[f]}
    BY DEF Says
  <2>3. Speaks(given, f, GainAssigns(target)[f])
    <3>1. \A j \in n + 1..Len(given) : Says(given[j], f) = {}
      BY <1>1
    <3> QED  BY <1>1, <2>2, <3>1 DEF Speaks
  <2> QED  BY <1>1, <2>1, <2>3, LastWordIsUnique
<1> DEFINE rung == GainRung(target)
<1>4. /\ LNAOf(rung) \in 0..15 /\ MixerOf(rung) \in 0..15 /\ LNAOf(rung) - MixerOf(rung) \in {0, 1}
      /\ TotalGain(LNAOf(rung), MixerOf(rung)) >= target \/ (LNAOf(rung) = 15 /\ MixerOf(rung) = 15)
      /\ LNAOf(rung) # 0 =>
           TotalGain(IF LNAOf(rung) = MixerOf(rung) THEN LNAOf(rung) ELSE LNAOf(rung) - 1,
                     IF LNAOf(rung) = MixerOf(rung) THEN MixerOf(rung) - 1 ELSE MixerOf(rung)) < target
  BY <1>2, LadderReaches
<1>5. /\ GainAssigns(target).lnaGain = ManualGainStep(LNAOf(rung))
      /\ GainAssigns(target).mixerGain = ManualGainStep(MixerOf(rung))
  BY DEF GainAssigns
<1>6. lna = LNAOf(rung) /\ mixer = MixerOf(rung)
  <2>1. ASSUME NEW step \in 0..15 PROVE ManualGainStep(step).step = step
    BY DEF ManualGainStep
  <2>2. "lnaGain" \in StageFields /\ "mixerGain" \in StageFields
    BY DEF StageFields
  <2>3. radio.stages.lnaGain = GainAssigns(target).lnaGain /\ radio.stages.mixerGain = GainAssigns(target).mixerGain
    BY <1>3, <2>2
  <2> HIDE DEF target, rung
  <2> QED  BY <1>4, <1>5, <2>1, <2>3
<1> HIDE DEF lna, mixer, rung, target
<1> QED
  BY <1>4, <1>6

\* WithGain given last sets the first pair of the ladder that reaches the gain asked
\* for, whatever was given before it (gain_librtlsdr.go:70).
THEOREM GainIsReached == Spec => []GainReachesTarget
<1>1. Init => TypedInv
  BY TypedInit
<1>2. TypedInv /\ [Next]_vars => TypedInv'
  BY TypedStep
<1>3. TypedInv => GainReachesTarget
  BY TypedInvReachesTarget
<1> QED
  BY <1>1, <1>2, <1>3, PTL DEF Spec

----------------------------------------------------------------------------
(* The filter.                                                              *)

\* What the auto-tune changes of an opened radio are its stages.
LEMMA TunedKeeps ==
  ASSUME NEW c, NEW fineTune, NEW k, NEW lna
  PROVE  LET r == Tuned(Programmed(c, fineTune, k), c, lna)
             p == Programmed(c, fineTune, k)
         IN /\ r.pll = p.pll /\ r.fineTune = p.fineTune /\ r.ddc = p.ddc /\ r.width = p.width
            /\ r.low = p.low /\ r.ratio = p.ratio
BY DEF Tuned, Programmed

LEMMA TypedInvPasses == TypedInv => PassBandCoversRate
<1> SUFFICES ASSUME TypedInv, Opened, radio.width # 0
             PROVE  /\ radio.width >= cfg.sampleRateHz
                    /\ \A i \in 1..Len(LowPassCorners) - 1 :
                         LowPassCorners[i] = radio.low =>
                           radio.width - radio.low + LowPassCorners[i + 1] < cfg.sampleRateHz
  BY DEF PassBandCoversRate
<1>1. ValidRate(cfg.sampleRateHz) /\ cfg.sampleRateHz \in Nat
  BY DEF TypedInv, RadioInv, ConfigTyped
<1>2. PICK fineTune \in 0..3, lna \in 0..15 : \E k \in LosFor(fineTune) :
        radio = Tuned(Programmed(cfg, fineTune, k), cfg, lna)
  BY DEF TypedInv, RadioInv
<1>3. PICK k \in LosFor(fineTune) : radio = Tuned(Programmed(cfg, fineTune, k), cfg, lna)
  BY <1>2
<1>4. radio.width = IFFilter(cfg.sampleRateHz).width /\ radio.low = IFFilter(cfg.sampleRateHz).low
  <2>1. /\ Programmed(cfg, fineTune, k).width = IFFilter(cfg.sampleRateHz).width
        /\ Programmed(cfg, fineTune, k).low = IFFilter(cfg.sampleRateHz).low
    BY DEF Programmed
  <2> QED  BY <1>3, <2>1, TunedKeeps
<1>5. Len(LowPassCorners) - 1 = 9
  BY CornersAre
<1> QED
  BY <1>1, <1>4, <1>5, FilterFits

\* Whatever rate is accepted, the tuner's filter passes the whole band that is
\* sampled and its next narrower corner would not (tuner_r860_bandwidth.go:115).
THEOREM FilterPassesTheBand == Spec => []PassBandCoversRate
<1>1. Init => TypedInv
  BY TypedInit
<1>2. TypedInv /\ [Next]_vars => TypedInv'
  BY TypedStep
<1>3. TypedInv => PassBandCoversRate
  BY TypedInvPasses
<1> QED
  BY <1>1, <1>2, <1>3, PTL DEF Spec

----------------------------------------------------------------------------
(* The words.                                                               *)

\* Every word fits its register.
LEMMA ProgrammedTyped ==
  ASSUME NEW c, ConfigTyped(c), ValidRate(c.sampleRateHz), NEW fineTune \in 0..3,
         NEW k \in PLLDivs(LocalOscillator(c), EffectiveXtal(c.freqCorrectionPPM), fineTune)
  PROVE  LET r == Programmed(c, fineTune, k)
         IN /\ r.pll.divNum \in 0..6 /\ r.pll.ni \in 0..15 /\ r.pll.si \in 0..3
            /\ r.pll.sdm \in Nat /\ r.pll.sdm < 2^16 /\ r.ratio < 2^28 /\ r.ddc < 2^22
<1> DEFINE xtal == EffectiveXtal(c.freqCorrectionPPM)
           rate == c.sampleRateHz
           if == IFFilter(rate).if
           lo == LocalOscillator(c)
<1>1. xtal \in Nat \ {0} /\ rate \in Nat \ {0} /\ if \in Int /\ c.centerFreqHz \in Int
  <2>1. xtal \in Nat \ {0} /\ rate \in Nat
    BY XtalIs DEF ConfigTyped
  <2>2. rate # 0
    BY <2>1, SMT DEF ValidRate, SampleRateMin
  <2> QED  BY <2>1, <2>2, FilterIF DEF ConfigTyped
<1>2. lo \in Int
  BY <1>1 DEF LocalOscillator
<1>3. k \in 1..6 /\ ~(fineTune > VCOPowerRef /\ k = 1) /\ Shifted(lo, k, 2 * xtal).quot \in NintMin..NintMax
  BY DEF PLLDivs, MixDivs
<1> DEFINE r == Programmed(c, fineTune, k)
           q == Shifted(lo, k, 2 * xtal).quot
           rest == Shifted(lo, k, 2 * xtal).rest
<1>4. /\ r.pll = PLLSettings(lo, xtal, fineTune, k)
      /\ r.ddc = DDCWord(if, xtal) /\ r.ratio = ResamplerRatio(rate, xtal)
  BY DEF Programmed
<1> HIDE DEF xtal, rate, if, lo, r
<1>5. PLLSettings(lo, xtal, fineTune, k) =
        [divNum |-> k - 1 + (IF fineTune < VCOPowerRef THEN 1 ELSE 0) - (IF fineTune > VCOPowerRef THEN 1 ELSE 0),
         ni |-> (q - NintMin) \div 4, si |-> (q - NintMin) % 4,
         sdm |-> SDM(rest \div 1000, (2 * xtal) \div 1000)]
  BY DEF PLLSettings
<1>6. 2 * xtal \in Nat \ {0}
  BY <1>1
<1>7. rest \div 1000 \in Nat /\ (2 * xtal) \div 1000 \in Nat
  <2>1. rest \in 0..(2 * xtal) - 1
    <3>1. ASSUME NEW d \in Nat \ {0} PROVE Shifted(lo, k, d).rest \in 0..d - 1
      <4>1. k \in Nat
        BY <1>3
      <4> QED  BY <1>2, <4>1, ShiftedTyped
    <3> DEFINE d == 2 * xtal
    <3>2. d \in Nat \ {0}
      BY <1>6
    <3> HIDE DEF d
    <3>3. Shifted(lo, k, d).rest \in 0..d - 1
      BY <3>1, <3>2
    <3> QED  BY <3>3 DEF d
  <2> HIDE DEF rest
  <2> QED  BY <1>6, <2>1, SMT
<1>8. r.pll.sdm \in Nat /\ r.pll.sdm < 2^16
  <2>1. r.pll.sdm = SDM(rest \div 1000, (2 * xtal) \div 1000)
    BY <1>4, <1>5
  <2> HIDE DEF rest
  <2> QED  BY <1>7, <2>1, SDMFits
<1>9. r.pll.ni \in 0..15 /\ r.pll.si \in 0..3
  <2>1. q \in 13..76
    BY <1>3 DEF NintMin, NintMax
  <2>2. r.pll.ni = (q - 13) \div 4 /\ r.pll.si = (q - 13) % 4
    BY <1>4, <1>5 DEF NintMin
  <2> HIDE DEF q
  <2> QED  BY <2>1, <2>2
<1>10. r.pll.divNum \in 0..6
  <2>1. r.pll.divNum = k - 1 + (IF fineTune < 2 THEN 1 ELSE 0) - (IF fineTune > 2 THEN 1 ELSE 0)
    BY <1>4, <1>5 DEF VCOPowerRef
  <2>2. ~(fineTune > 2 /\ k = 1)
    BY <1>3 DEF VCOPowerRef
  <2> QED  BY <1>3, <2>1, <2>2
<1>11. r.ddc < 2^22
  <2> DEFINE s == Shifted(if, 22, xtal).quot
  <2>1. s \in Int
    <3>1. 22 \in Nat
      OBVIOUS
    <3> QED  BY <1>1, <3>1, ShiftedTyped
  <2>2. r.ddc = (2^22 - s) % 2^22
    BY <1>4 DEF DDCWord
  <2> HIDE DEF s
  <2> QED  BY <2>1, <2>2, SMT
<1>12. r.ratio < 2^28
  <2> DEFINE s == Shifted(xtal, 22, rate).quot
  <2>1. s \in Int
    <3>1. 22 \in Nat /\ xtal \in Int
      BY <1>1
    <3> QED  BY <1>1, <3>1, ShiftedTyped
  <2>2. r.ratio = (s % 2^28) - ((s % 2^28) % 4)
    BY <1>4 DEF ResamplerRatio
  <2> HIDE DEF s
  <2> QED  BY <2>1, <2>2, SMT
<1> QED
  BY <1>8, <1>9, <1>10, <1>11, <1>12 DEF r

LEMMA TypedInvTypes == TypedInv => TypeOK
<1> SUFFICES ASSUME TypedInv PROVE TypeOK
  OBVIOUS
<1> USE DEF TypedInv
<1>1. flags \subseteq CommandLines /\ Cardinality(flags) <= 1
  <2>1. CASE flags = {}
    BY <2>1, FS_EmptySet
  <2>2. ASSUME NEW f \in CommandLines, flags = {f} PROVE flags \subseteq CommandLines /\ Cardinality(flags) <= 1
    BY <2>2, FS_Singleton
  <2> QED  BY <2>1, <2>2 DEF LinesInv
<1>2. Len(given) + Len(todo) <= MaxOptions + 9
  <2>1. given \in Seq(AnyOption) /\ todo \in Seq(AnyOption) /\ MaxOptions \in Nat
    BY OptionsAssumption DEF OptionsInv, ShapeInv
  <2>2. CASE flags = {} /\ todo = <<>> /\ Len(given) <= MaxOptions
    BY <2>1, <2>2
  <2>3. ASSUME NEW f \in CommandLines, flags = {f} PROVE Len(given) + Len(todo) <= MaxOptions + 9
    <3>1. given \o todo = BuildOptions(f)
      BY <2>3 DEF OptionsInv, FlagsInv
    <3>2. Len(given \o todo) <= 9
      BY <3>1, BuildsFew
    <3>3. Len(given \o todo) = Len(given) + Len(todo) /\ Len(given) \in Nat /\ Len(todo) \in Nat
      BY <2>1
    <3> QED  BY <2>1, <3>2, <3>3
  <2> QED  BY <2>2, <2>3 DEF LinesInv
<1>3. cfg.freqCorrectionPPM \in -PPMMax..PPMMax /\ \A f \in StageFields : cfg[f] \in Stages
  BY DEF ConfigTyped
<1>4. ASSUME Opened
      PROVE  /\ radio.pll.divNum \in 0..6 /\ radio.pll.ni \in 0..15 /\ radio.pll.si \in 0..3
             /\ radio.pll.sdm \in Nat /\ radio.pll.sdm < 2^16 /\ radio.ratio < 2^28 /\ radio.ddc < 2^22
  <2>1. PICK fineTune \in 0..3, lna \in 0..15 : \E k \in LosFor(fineTune) :
          radio = Tuned(Programmed(cfg, fineTune, k), cfg, lna)
    BY <1>4 DEF RadioInv
  <2>2. PICK k \in LosFor(fineTune) : radio = Tuned(Programmed(cfg, fineTune, k), cfg, lna)
    BY <2>1
  <2> DEFINE r == Programmed(cfg, fineTune, k)
  <2>3. radio.pll = r.pll /\ radio.ratio = r.ratio /\ radio.ddc = r.ddc
    BY <2>2, TunedKeeps
  <2>4. ValidRate(cfg.sampleRateHz)
    BY <1>4 DEF RadioInv
  <2>5. /\ r.pll.divNum \in 0..6 /\ r.pll.ni \in 0..15 /\ r.pll.si \in 0..3
        /\ r.pll.sdm \in Nat /\ r.pll.sdm < 2^16 /\ r.ratio < 2^28 /\ r.ddc < 2^22
    BY <2>2, <2>4, ProgrammedTyped DEF LosFor
  <2> HIDE DEF r
  <2> QED  BY <2>3, <2>5
<1> QED
  BY <1>1, <1>2, <1>3, <1>4 DEF TypeOK

\* config keeps its ranges, and every word that Open computes from it fits the field
\* of the register it is for: the integer and the swallow counter, the sixteen bits of
\* the fraction, the divider's code, the ratio and the converter's frequency
\* (tuner_r860_pll.go:82, sample_rate.go:76).
THEOREM WordsFit == Spec => []TypeOK
<1>1. Init => TypedInv
  BY TypedInit
<1>2. TypedInv /\ [Next]_vars => TypedInv'
  BY TypedStep
<1>3. TypedInv => TypeOK
  BY TypedInvTypes
<1> QED
  BY <1>1, <1>2, <1>3, PTL DEF Spec

----------------------------------------------------------------------------
(* The sample rate.                                                         *)

\* Off the edges, the ratio is in one of the two ranges that the chip's own reading
\* of its bits tells apart.
LEMMA RatioRanges ==
  ASSUME NEW rate \in Nat, ValidRate(rate), NEW ppm \in -PPMMax..PPMMax,
         \A e \in Edges : rate - e > e \div 1000 \/ -(rate - e) > e \div 1000 \/ ppm = 0
  PROVE  LET xtal == EffectiveXtal(ppm)
         IN /\ 225000 < rate /\ rate <= 3200000
            /\ \/ 900000 < rate /\ 8 * rate < xtal /\ xtal < 32 * rate
               \/ rate <= 300000 /\ 96 * rate <= xtal /\ xtal < 128 * rate
<1> DEFINE xtal == EffectiveXtal(ppm)
<1>1. xtal \in Int /\ 28771200 <= xtal /\ xtal <= 28828800 /\ (ppm = 0 => xtal = 28800000)
  BY XtalRange
<1>2. /\ rate - 225000 > 225 \/ -(rate - 225000) > 225 \/ ppm = 0
      /\ rate - 300000 > 300 \/ -(rate - 300000) > 300 \/ ppm = 0
      /\ rate - 900000 > 900 \/ -(rate - 900000) > 900 \/ ppm = 0
  BY SMT DEF Edges, SampleRateMin, SampleRateGapStart, SampleRateGapEnd
<1>3. rate > 225000 /\ rate <= 3200000 /\ ~(rate > 300000 /\ rate <= 900000)
  BY SMT DEF ValidRate, SampleRateMin, SampleRateMax, SampleRateGapStart, SampleRateGapEnd
<1> HIDE DEF xtal
<1>4. CASE rate > 900000
  BY <1>1, <1>2, <1>3, <1>4, SMT DEF xtal
<1>5. CASE rate <= 300000
  BY <1>1, <1>2, <1>3, <1>5, SMT DEF xtal
<1> QED
  BY <1>3, <1>4, <1>5, SMT

LEMMA TypedInvSamples == TypedInv => SampledAsAskedOffEdges
<1> SUFFICES ASSUME TypedInv, Opened, OffTheEdges PROVE RateReproduced
  BY DEF SampledAsAskedOffEdges
<1> DEFINE rate == cfg.sampleRateHz
           ppm == cfg.freqCorrectionPPM
           xtal == EffectiveXtal(ppm)
<1>1. ValidRate(rate) /\ rate \in Nat /\ ppm \in -PPMMax..PPMMax
  BY DEF TypedInv, RadioInv, ConfigTyped
<1>2. PICK fineTune \in 0..3, lna \in 0..15 : \E k \in LosFor(fineTune) :
        radio = Tuned(Programmed(cfg, fineTune, k), cfg, lna)
  BY DEF TypedInv, RadioInv
<1>3. PICK k \in LosFor(fineTune) : radio = Tuned(Programmed(cfg, fineTune, k), cfg, lna)
  BY <1>2
<1>4. radio.ratio = ResamplerRatio(rate, xtal)
  <2>1. Programmed(cfg, fineTune, k).ratio = ResamplerRatio(rate, xtal)
    BY DEF Programmed
  <2> QED  BY <1>3, <2>1, TunedKeeps
<1>5. \A e \in Edges : rate - e > e \div 1000 \/ -(rate - e) > e \div 1000 \/ ppm = 0
  BY DEF OffTheEdges
<1>6. XtalOf = xtal
  BY DEF XtalOf
<1> HIDE DEF rate, ppm
<1>7. /\ 225000 < rate /\ rate <= 3200000
      /\ \/ 900000 < rate /\ 8 * rate < xtal /\ xtal < 32 * rate
         \/ rate <= 300000 /\ 96 * rate <= xtal /\ xtal < 128 * rate
  BY <1>1, <1>5, RatioRanges
<1>8. xtal \in Int
  BY <1>1, XtalRange
<1> HIDE DEF xtal
<1>9. radio.ratio >= 2^25 /\ ActualRate(radio.ratio, xtal) = rate
  BY <1>1, <1>4, <1>7, <1>8, RateIsReproduced
<1>10. Near(rate, rate, 2)
  BY <1>1, SMT DEF Near
<1>11. Near(ActualRate(radio.ratio, XtalOf), rate, 2)
  BY <1>6, <1>9, <1>10
<1> QED
  BY <1>9, <1>11 DEF RateReproduced, rate

\* For every rate accepted and every correction, but for those within a thousandth of
\* an edge of a range, the ratio read as the chip reads it is the rate that was asked
\* for, although two of its bits are lost (sample_rate.go:61, sample_rate.go:144).
THEOREM RateIsSampled == Spec => []SampledAsAskedOffEdges
<1>1. Init => TypedInv
  BY TypedInit
<1>2. TypedInv /\ [Next]_vars => TypedInv'
  BY TypedStep
<1>3. TypedInv => SampledAsAskedOffEdges
  BY TypedInvSamples
<1> QED
  BY <1>1, <1>2, <1>3, PTL DEF Spec

----------------------------------------------------------------------------
(* The PLL's fraction.                                                      *)

\* The crystal, corrected, and the settings for q whole doubled crystals and a rest.
XtalHz(xtal) == 28771200 <= xtal /\ xtal <= 28828800
SetFor(pll, q, rest, x) ==
  4 * pll.ni + pll.si + NintMin = q /\ pll.sdm = SDM(rest \div 1000, x \div 1000)

\* What the PLL's registers say is the frequency it was set for: less than 4 kHz
\* too low and at most 8 too high.
LEMMA VCONear ==
  ASSUME NEW xtal \in Int, XtalHz(xtal), XtalOf = xtal,
         NEW q \in Int, NEW rest \in 0..2 * xtal - 1, NEW pll, SetFor(pll, q, rest, 2 * xtal)
  PROVE  /\ VCOOf(pll) \in Int
         /\ 1000 * VCOOf(pll) <= q * (2 * xtal) + rest + 8000
         /\ q * (2 * xtal) + rest < 1000 * VCOOf(pll) + 4000
<1> DEFINE x == 2 * xtal
           t == x \div 1000
           frac == rest \div 1000
           word == SDM(frac, t)
           whole == Thousandth(q, x)
           part == Fraction(word, t)
           hz == q * x
<1>1. x \in Int /\ 57542400 <= x /\ x <= 57657600 /\ rest \in Int /\ 0 <= rest /\ rest < x
  BY SMT DEF XtalHz
<1>2. VCOOf(pll) = whole + part
  BY DEF VCOOf, Thousandth, Fraction, SetFor
<1> HIDE DEF x
<1>3. /\ t \in Nat /\ TwoXtalKHz(t) /\ frac \in Nat /\ frac <= t
      /\ 1000 * frac <= rest /\ rest < 1000 * frac + 1000
  BY <1>1, SMT DEF TwoXtalKHz
<1>4. q \in Int /\ x \in Int /\ hz \in Int
  BY <1>1
<1> HIDE DEF t, frac
<1>5. whole \in Int /\ Floors(whole, hz)
  BY <1>4, ThousandthOf
<1>6. part \in Int /\ part <= frac + 8 /\ frac - 2 <= part
  <2> HIDE DEF part
  <2>1. t \in Nat /\ TwoXtalKHz(t) /\ frac \in Nat /\ frac <= t
    BY <1>3
  <2> QED  BY <2>1, PartNear DEF part
<1> HIDE DEF word, whole, part, hz
<1>7. 1000 * (whole + part) <= hz + rest + 8000 /\ hz + rest < 1000 * (whole + part) + 4000
  BY <1>1, <1>3, <1>4, <1>5, <1>6, SMT DEF Floors
<1> QED
  BY <1>2, <1>5, <1>6, <1>7 DEF hz, x

LEMMA DDCNear ==
  ASSUME NEW xtal \in Int, XtalHz(xtal), XtalOf = xtal, NEW if, NEW i \in Int, IsIF(if, i)
  PROVE  /\ DDCOf(DDCWord(if, xtal)) \in Int
         /\ i - 1 <= DDCOf(DDCWord(if, xtal)) /\ DDCOf(DDCWord(if, xtal)) <= i
<1> DEFINE m == Shifted(if, 22, xtal).quot
           r == Shifted(if, 22, xtal).rest
           x == xtal \div 1000
           z == xtal % 1000
           word == DDCWord(if, xtal)
           mx == m * x
           mz == m * z
<1>1. if \in Int /\ xtal \in Nat \ {0} /\ xtal > 0
  BY SMT DEF IsIF, XtalHz
<1>2. m \in Int /\ r \in 0..xtal - 1 /\ TwoTo22 * if = m * xtal + r
  BY <1>1, ByTwentyTwo
<1>3. word = (2^22 - m) % 2^22
  BY DEF DDCWord
<1> HIDE DEF m, r, word
<1>4. 0 < m /\ m < 700000
  <2> DEFINE p == m * xtal
  <2>1. p \in Int /\ 4194304 * if = p + r
    BY <1>1, <1>2, SMT DEF TwoTo22
  <2> HIDE DEF p
  <2>2. 0 < p /\ p < 700000 * xtal
    BY <1>1, <1>2, <2>1, SMT DEF IsIF, XtalHz
  <2>3. 0 * xtal < m * xtal /\ m * xtal < 700000 * xtal
    BY <1>1, <2>2, SMT DEF p
  <2>4. ASSUME NEW a \in Int, NEW b \in Int, a * xtal < b * xtal PROVE a < b
    BY <1>1, <2>4, FactorBelow
  <2> QED  BY <1>2, <2>3, <2>4, SMT
<1>5. 2^22 - word = m
  BY <1>2, <1>3, <1>4, SMT
<1>6. DDCOf(word) = Converter(m, x)
  BY <1>5 DEF DDCOf, Converter
<1>7. x \in Int /\ z \in Int /\ xtal = 1000 * x + z /\ 0 <= z /\ z <= 999
  BY <1>1, SMT
<1>8. Converter(m, x) \in Int /\ Converts(Converter(m, x), mx)
  <2>1. m \in Int /\ x \in Int
    BY <1>2, <1>7
  <2> HIDE DEF x
  <2> QED  BY <2>1, ConverterOf
<1> HIDE DEF x, z
<1>9. mx \in Int /\ mz \in Int /\ m * xtal = 1000 * mx + mz
  <2>1. m * (1000 * x + z) = 1000 * (m * x) + m * z
    BY <1>2, <1>7, SMT
  <2> QED  BY <1>2, <1>7, <2>1, SMT
<1>10. 0 <= mz /\ mz <= 999 * m
  BY <1>2, <1>4, <1>7, SMT
<1> DEFINE v == Converter(m, x)
           p == m * xtal
<1>11. v \in Int /\ 4194304 * v <= mx /\ mx < 4194304 * v + 4194304
  BY <1>8, SMT DEF Converts
<1>12. p = 1000 * mx + mz /\ 4194304 * if = p + r
  BY <1>2, <1>9, SMT DEF TwoTo22
<1> HIDE DEF mx, mz, v, p
<1>13. 1000 * mx <= 4194304000 * i /\ 4194304000 * (i - 1) <= 1000 * mx
  BY <1>1, <1>2, <1>4, <1>9, <1>10, <1>12, SMT DEF IsIF, XtalHz
<1>14. i - 1 <= v /\ v <= i
  BY <1>9, <1>11, <1>13, SMT
<1> QED
  BY <1>6, <1>11, <1>14 DEF v, word

----------------------------------------------------------------------------
(* The frequency received.                                                  *)

\* Two readings that truncate are near what they read.
Reads(v, h) == 1000 * v <= h + 8000 /\ h < 1000 * v + 4000
Below(x, lo) == lo - 1999 <= 1000 * x /\ 1000 * x <= lo

\* What TunedAsAsked says of the VCO v, the frequency x received and the exponent k.
Received(v, x, k) ==
  k \in 1..6 /\ v >= 1770000 - 9 /\ v < 3540000 + 9 /\ Near(v, x * 2^k, 9 + 2 * 2^k)

LEMMA NearAt ==
  ASSUME NEW k \in 1..6, NEW lo \in Int, NEW x \in Int, Below(x, lo),
         NEW v \in Int, Reads(v, lo * 2^k), InVCO(lo * 2^k)
  PROVE  Received(v, x, k)
<1> DEFINE a == 2^k
           b == 2^(k - 1)
<1>1. Divides(k, a, b)
  BY PowersAre
<1>2. Reads(v, lo * a) /\ InVCO(lo * a)
  OBVIOUS
<1> HIDE DEF a, b
<1>3. v >= 1770000 - 9 /\ v < 3540000 + 9 /\ Near(v, x * a, 9 + 2 * a)
  BY <1>1, <1>2, SMT DEF Divides, InVCO, Reads, Below, Near
<1> QED
  BY <1>3, SMT DEF a, Received

\* The settings are the divider's exponent and the VCO's frequency, lo * 2^k.
LEMMA SettingsSay ==
  ASSUME NEW lo \in Int, NEW xtal \in Int, XtalHz(xtal), NEW fineTune \in 0..3,
         NEW k \in PLLDivs(lo, xtal, fineTune)
  PROVE  LET pll == PLLSettings(lo, xtal, fineTune, k)
         IN /\ pll.divNum = k - 1 + (IF fineTune < VCOPowerRef THEN 1 ELSE 0)
                                  - (IF fineTune > VCOPowerRef THEN 1 ELSE 0)
            /\ \E q \in Int, rest \in 0..2 * xtal - 1 :
                 SetFor(pll, q, rest, 2 * xtal) /\ lo * 2^k = q * (2 * xtal) + rest
<1> DEFINE x == 2 * xtal
           q == Shifted(lo, k, x).quot
           rest == Shifted(lo, k, x).rest
           pll == PLLSettings(lo, xtal, fineTune, k)
<1>1. k \in MixDivs(lo) /\ q \in NintMin..NintMax
  BY DEF PLLDivs
<1>2. k \in 1..6
  BY <1>1 DEF MixDivs
<1>3. pll = [divNum |-> k - 1 + (IF fineTune < VCOPowerRef THEN 1 ELSE 0) - (IF fineTune > VCOPowerRef THEN 1 ELSE 0),
             ni |-> (q - NintMin) \div 4, si |-> (q - NintMin) % 4, sdm |-> SDM(rest \div 1000, x \div 1000)]
  BY DEF PLLSettings
<1>4. x \in Nat \ {0}
  BY SMT DEF XtalHz
<1> HIDE DEF x, pll
<1>5. q \in Int /\ rest \in 0..x - 1 /\ lo * 2^k = q * x + rest
  <2>1. PICK y : y[0] = lo /\ (\A i \in 1..k : y[i] = 2 * y[i - 1]) /\ y[k] = lo * 2^k
    BY <1>2, DoublesTo
  <2>2. k \in Nat
    BY <1>2
  <2>3. /\ Shifted(lo, k, x).quot \in Int /\ Shifted(lo, k, x).rest \in 0..x - 1
        /\ y[k] = Shifted(lo, k, x).quot * x + Shifted(lo, k, x).rest
    BY <1>4, <2>1, <2>2, ShiftedSays
  <2> QED  BY <2>1, <2>3
<1> HIDE DEF q, rest
<1>6. (4 * ((q - NintMin) \div 4) + ((q - NintMin) % 4)) + NintMin = q
  BY <1>5, SMT DEF NintMin
<1>7. pll.ni = (q - NintMin) \div 4 /\ pll.si = (q - NintMin) % 4 /\ pll.sdm = SDM(rest \div 1000, x \div 1000)
  BY <1>3
<1>8. SetFor(pll, q, rest, x)
  BY <1>6, <1>7 DEF SetFor
<1>9. pll.divNum = k - 1 + (IF fineTune < VCOPowerRef THEN 1 ELSE 0) - (IF fineTune > VCOPowerRef THEN 1 ELSE 0)
  BY <1>3
<1> QED
  BY <1>5, <1>8, <1>9 DEF x, pll

LEMMA TypedInvTuned == TypedInv => TunedAsAsked
<1> SUFFICES ASSUME TypedInv, Opened
             PROVE  LET trim == IF radio.fineTune < VCOPowerRef THEN 1
                                ELSE IF radio.fineTune > VCOPowerRef THEN -1 ELSE 0
                    IN Received(VCOOf(radio.pll), cfg.centerFreqHz \div 1000 + DDCOf(radio.ddc),
                                radio.pll.divNum - trim + 1)
  BY SMT DEF TunedAsAsked, Received
<1> DEFINE rate == cfg.sampleRateHz
           ppm == cfg.freqCorrectionPPM
           centre == cfg.centerFreqHz
           xtal == EffectiveXtal(ppm)
           if == IFFilter(rate).if
           lo == LocalOscillator(cfg)
           trim == IF radio.fineTune < VCOPowerRef THEN 1 ELSE IF radio.fineTune > VCOPowerRef THEN -1 ELSE 0
           vco == VCOOf(radio.pll)
           ddc == DDCOf(radio.ddc)
<1>1. rate \in Nat /\ centre \in Nat /\ ppm \in -PPMMax..PPMMax
  BY DEF TypedInv, ConfigTyped
<1>2. PICK fineTune \in 0..3, lna \in 0..15 : \E k \in LosFor(fineTune) :
        radio = Tuned(Programmed(cfg, fineTune, k), cfg, lna)
  BY DEF TypedInv, RadioInv
<1>3. PICK k \in LosFor(fineTune) : radio = Tuned(Programmed(cfg, fineTune, k), cfg, lna)
  BY <1>2
<1>4. radio.pll = PLLSettings(lo, xtal, fineTune, k) /\ radio.fineTune = fineTune /\ radio.ddc = DDCWord(if, xtal)
  <2>1. /\ Programmed(cfg, fineTune, k).pll = PLLSettings(lo, xtal, fineTune, k)
        /\ Programmed(cfg, fineTune, k).fineTune = fineTune
        /\ Programmed(cfg, fineTune, k).ddc = DDCWord(if, xtal)
    BY DEF Programmed
  <2> QED  BY <1>3, <2>1, TunedKeeps
<1>5. xtal \in Int /\ XtalHz(xtal) /\ XtalOf = xtal
  BY <1>1, XtalRange DEF XtalHz, XtalOf
<1>6. PICK i \in Int : IsIF(if, i)
  BY <1>1, FilterIFIs
<1>7. k \in PLLDivs(lo, xtal, fineTune)
  BY DEF LosFor
<1>8. lo = centre + if
  BY DEF LocalOscillator
<1> HIDE DEF rate, ppm, centre, xtal, if, lo
<1>9. lo \in Int /\ centre \in Int /\ lo = centre + 1000 * i
  BY <1>1, <1>6, <1>8, SMT DEF IsIF
<1>10. k \in MixDivs(lo)
  BY <1>7 DEF PLLDivs
<1>11. k \in 1..6
  BY <1>10 DEF MixDivs
<1>12. radio.pll.divNum = k - 1 + (IF fineTune < VCOPowerRef THEN 1 ELSE 0) - (IF fineTune > VCOPowerRef THEN 1 ELSE 0)
  BY <1>4, <1>5, <1>7, <1>9, SettingsSay
<1>13. PICK q \in Int, rest \in 0..2 * xtal - 1 :
         SetFor(radio.pll, q, rest, 2 * xtal) /\ lo * 2^k = q * (2 * xtal) + rest
  BY <1>4, <1>5, <1>7, <1>9, SettingsSay
<1>14. k = radio.pll.divNum - trim + 1
  BY <1>4, <1>11, <1>12, SMT DEF VCOPowerRef
<1>15. /\ vco \in Int
       /\ 1000 * vco <= q * (2 * xtal) + rest + 8000 /\ q * (2 * xtal) + rest < 1000 * vco + 4000
  BY <1>5, <1>13, VCONear
<1>16. Reads(vco, lo * 2^k)
  <2> HIDE DEF vco
  <2>1. /\ 1000 * vco <= lo * 2^k + 8000 /\ lo * 2^k < 1000 * vco + 4000
    BY <1>13, <1>15
  <2> QED  BY <2>1 DEF Reads
<1>17. ddc \in Int /\ i - 1 <= ddc /\ ddc <= i
  BY <1>4, <1>5, <1>6, DDCNear
<1>18. InVCO(lo * 2^k)
  BY <1>9, <1>10, InOctave
<1> HIDE DEF vco, ddc
<1> DEFINE x == centre \div 1000 + ddc
<1>19. x \in Int /\ Below(x, lo)
  BY <1>9, <1>17, SMT DEF Below
<1> HIDE DEF x
<1>20. Received(vco, x, k)
  <2>1. vco \in Int /\ lo \in Int
    BY <1>9, <1>15
  <2> QED  BY <1>11, <1>16, <1>18, <1>19, <2>1, NearAt
<1> QED
  BY <1>14, <1>20 DEF x, vco, ddc, centre, trim

\* Whatever centre frequency, rate and correction are accepted, the registers read back
\* say that the VCO is in its range, that the divider is the one that lifts the LO
\* there, and that LO less IF is the centre that was asked for, to the PLL's resolution
\* (tuner_r860_pll.go:82, sample_rate.go:175).
THEOREM FrequencyIsTuned == Spec => []TunedAsAsked
<1>1. Init => TypedInv
  BY TypedInit
<1>2. TypedInv /\ [Next]_vars => TypedInv'
  BY TypedStep
<1>3. TypedInv => TunedAsAsked
  BY TypedInvTuned
<1> QED
  BY <1>1, <1>2, <1>3, PTL DEF Spec
=============================================================================
