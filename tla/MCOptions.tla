------------------------------ MODULE MCOptions ------------------------------
(* TLC instances of Options. *)
EXTENDS Options

Option(name, field, value) == [opt |-> name] @@ (field :> value)
Stage(field, stage) == [opt |-> "Stage", field |-> field, stage |-> stage]
ManualStage(field, step) == [opt |-> "ManualStage", field |-> field, step |-> step]
Override(field, value) == [opt |-> "Override", field |-> field, value |-> value]

\* The edges of every range, of the filter's shapes and of its corners.
Rates == {225000, 225001, 225200, 250000, 299900, 300000, 300001, 900000, 900001, 900800, 901000,
          1200001, 1700000, 1700001, 2050000, 2050001, 2400000, 2430000, 2430001, 3200000, 3200001}

\* The LO at the edges of the dividers' octaves (with the default rate's IF),
\* the bands in use, and frequencies no divider reaches.
Frequencies == {20000000, 25841250, 28000000, 53497500, 98500000, 108810000, 219435000, 433920000,
                868000000, 883185000, 1090000000, 1766000000, 1768185000, 2000000000}

Corrections == {-5000, -1000, -999, -1, 1, 37, 1000, 1001}
Targets == {-2, -1, 0, 1, 9, 14, 15, 300, 487, 488, 489, 496, 497}

\* What an application that tunes gives.
Tuning == {Option("CenterFreq", "hz", f) : f \in Frequencies}
          \cup {Option("SampleRate", "hz", r) : r \in Rates}
          \cup {Option("FrequencyCorrection", "ppm", p) : p \in Corrections}

\* What one that sets gains gives.
Gaining == {Option("Gain", "tenthsDB", t) : t \in Targets} \cup {[opt |-> "AutoGain"]}
           \cup {Stage(f, AutoGain) : f \in StageFields}
           \cup {Stage("lnaGain", [auto |-> FALSE, step |-> 16])}
           \cup {ManualStage(f, s) : f \in StageFields, s \in {0, 7, 255}}
           \cup {Override("ifBandwidth", [coarse |-> c, fine |-> 5]) : c \in {2, 4}}
           \cup {Override("ifHighPass", 16)}
           \cup {Override("biasTee", [gpio |-> g, enable |-> TRUE]) : g \in {0, 8}}

AllOptions == Tuning \cup Gaining
OnlyTuning == Tuning

Flags ==
  [center : {1090000000}, rate : {2400000}, ppm : {-2000, 0}, gain : {-1, 0, 297, 496},
   lna : {-2, -1, 3, 16}, mixer : {-1, 0, 256}, vga : {-1, 15}, autoGain : BOOLEAN, biasTee : {-1, 1}]
NoCommandLines == {}
=============================================================================
