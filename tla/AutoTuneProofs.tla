--------------------------- MODULE AutoTuneProofs ---------------------------
(***************************************************************************)
(* A settle delay longer than the channel makes every sample fresh, and    *)
(* the walk ends at the highest quiet step, for any channel, window,       *)
(* threshold and antenna.                                                  *)
(***************************************************************************)
EXTENDS AutoTune, FiniteSetTheorems, TLAPS

\* The variables the argument needs, and their types.
Types ==
  /\ gain \in Gains /\ filling \in Gains
  /\ chan \in Seq(Gains) /\ Len(chan) <= Capacity
  /\ window \in Seq(Gains)
  /\ waited \in 0..Settle
  /\ pc \in {"idle", "mixer", "vga", "lna", "settle", "read", "select"}
  /\ step \in 0..Top /\ ended \in {"no", "orderly", "failed"}

\* After n captures under the present gain only the transfer that was under way
\* when it was set can be stale, and whatever was captured before it: the n - 1
\* newest chunks are fresh.
FreshFrom(n) ==
  \A i \in 1..Len(chan) : chan[i] # gain => n = 0 \/ i + n <= Len(chan) + 1

Reading == pc \in {"read", "select"}

FreshInv ==
  /\ Types
  /\ pc # "settle" => waited = 0
  /\ ~Reading => window = <<>>
  /\ ~streaming => chan = <<>>
  /\ pc = "settle" => FreshFrom(waited) /\ (waited > 0 => filling = gain)
  /\ Reading /\ ended = "no" /\ streaming => filling = gain
  /\ Reading /\ ended = "no" => \A i \in 1..Len(chan) : chan[i] = gain
  /\ pc = "select" /\ ended # "orderly" => \A i \in 1..Len(chan) : chan[i] = gain
  /\ Reading /\ ended # "orderly" => \A i \in 1..Len(window) : window[i] = gain

----------------------------------------------------------------------------
LEMMA FreshInit == Init => FreshInv
BY AutoTuneAssumption DEF Init, FreshInv, Types, Gains, Reading, FreshFrom, Stages

\* The chunk that is added is fresh once one capture has gone by, and every
\* older one moves towards the head when the oldest makes room.
LEMMA CapturesHold == ASSUME FreshInv, Captures PROVE FreshInv'
<1>0. /\ Len(chan) \in Nat /\ gain' = gain /\ filling' = gain
      /\ waited' = IF pc = "settle" /\ waited < Settle THEN waited + 1 ELSE waited
  BY DEF Captures, FreshInv, Types
<1>1. (chan' \in Seq(Gains) /\ Len(chan') <= Capacity) => Types'
  BY AutoTuneAssumption DEF Captures, FreshInv, Types, walkVars
<1>2. CASE Len(chan) < Capacity /\ chan' = Append(chan, filling)
  <2>1. /\ Len(chan') = Len(chan) + 1 /\ chan'[Len(chan) + 1] = filling
        /\ \A i \in 1..Len(chan) : chan'[i] = chan[i]
        /\ chan' \in Seq(Gains)
    BY <1>2 DEF FreshInv, Types
  <2>2. pc = "settle" => FreshFrom(waited)' /\ filling' = gain'
    <3> SUFFICES ASSUME pc = "settle" PROVE FreshFrom(waited)'
      BY DEF Captures
    <3>1. /\ waited \in Nat /\ waited' \in Nat /\ waited' <= waited + 1 /\ gain' = gain
          /\ waited > 0 => filling = gain
          /\ \A i \in 1..Len(chan) : chan[i] # gain => waited = 0 \/ i + waited <= Len(chan) + 1
      BY <1>0, AutoTuneAssumption DEF FreshInv, Types, FreshFrom
    <3>2. ASSUME NEW i \in 1..Len(chan'), chan'[i] # gain
          PROVE  waited' = 0 \/ i + waited' <= Len(chan') + 1
      <4>1. CASE i = Len(chan) + 1
        <5>1. waited = 0
          BY <2>1, <3>1, <3>2, <4>1
        <5> QED  BY <1>0, <2>1, <3>1, <4>1, <5>1
      <4>2. CASE i \in 1..Len(chan)
        <5>1. waited = 0 \/ i + waited <= Len(chan) + 1
          BY <1>0, <2>1, <3>1, <3>2, <4>2
        <5> QED  BY <1>0, <2>1, <3>1, <4>2, <5>1
      <4> QED  BY <1>0, <2>1, <4>1, <4>2
    <3> QED  BY <3>1, <3>2 DEF FreshFrom
  <2>3. QED
    BY <1>1, <2>1, <2>2, <1>2, AutoTuneAssumption DEF FreshInv, Types, Captures, walkVars, Reading
<1>3. CASE chan # <<>> /\ chan' = Append(Tail(chan), filling)
  <2>1. /\ Len(chan') = Len(chan) /\ chan'[Len(chan)] = filling
        /\ \A i \in 1..(Len(chan) - 1) : chan'[i] = chan[i + 1]
        /\ chan' \in Seq(Gains)
    BY <1>3 DEF FreshInv, Types
  <2>2. pc = "settle" => FreshFrom(waited)' /\ filling' = gain'
    <3> SUFFICES ASSUME pc = "settle" PROVE FreshFrom(waited)'
      BY DEF Captures
    <3>1. /\ waited \in Nat /\ waited' \in Nat /\ waited' <= waited + 1 /\ gain' = gain
          /\ waited > 0 => filling = gain
          /\ \A i \in 1..Len(chan) : chan[i] # gain => waited = 0 \/ i + waited <= Len(chan) + 1
      BY <1>0, AutoTuneAssumption DEF FreshInv, Types, FreshFrom
    <3>2. ASSUME NEW i \in 1..Len(chan'), chan'[i] # gain
          PROVE  waited' = 0 \/ i + waited' <= Len(chan') + 1
      <4>1. CASE i = Len(chan)
        <5>1. waited = 0
          BY <2>1, <3>1, <3>2, <4>1
        <5> QED  BY <1>0, <2>1, <3>1, <4>1, <5>1
      <4>2. CASE i \in 1..(Len(chan) - 1)
        <5>1. waited = 0 \/ i + 1 + waited <= Len(chan) + 1
          BY <1>0, <2>1, <3>1, <3>2, <4>2
        <5> QED  BY <1>0, <2>1, <3>1, <4>2, <5>1
      <4> QED  BY <1>0, <2>1, <4>1, <4>2
    <3> QED  BY <3>1, <3>2 DEF FreshFrom
  <2>3. QED
    BY <1>1, <2>1, <2>2, AutoTuneAssumption DEF FreshInv, Types, Captures, walkVars, Reading
<1>4. QED
  BY <1>2, <1>3 DEF Captures

\* The other steps of the environment do not touch what a walk relies on.
LEMMA EnvironmentHolds ==
  ASSUME FreshInv,
         \/ StreamEnds \/ Cancel \/ ApplicationReads \/ ApplicationSets
         \/ pc = "idle" /\ StartsStream
  PROVE  FreshInv'
<1>1. CASE StreamEnds
  BY <1>1 DEF StreamEnds, FreshInv, Types, Reading, FreshFrom, walkVars
<1>2. CASE Cancel
  BY <1>2 DEF Cancel, FreshInv, Types, Reading, FreshFrom, streamVars
<1>3. CASE ApplicationReads
  <2>1. chan' \in Seq(Gains) /\ Len(chan') <= Capacity
    BY <1>3, AutoTuneAssumption DEF ApplicationReads, FreshInv, Types
  <2>2. chan # <<>>
    BY <1>3 DEF ApplicationReads
  <2>3. QED
    BY <1>3, <2>1, <2>2 DEF ApplicationReads, FreshInv, Types, Reading, walkVars
<1>4. CASE ApplicationSets
  BY <1>4, AutoTuneAssumption DEF ApplicationSets, FreshInv, Types, Reading, FreshFrom, streamVars, Gains
<1>5. CASE pc = "idle" /\ StartsStream
  BY <1>5 DEF StartsStream, FreshInv, Types, Reading, FreshFrom, walkVars
<1>6. QED
  BY <1>1, <1>2, <1>3, <1>4, <1>5

\* Whoever returns leaves no reading and no settling behind.
LEMMA ReturnHolds ==
  ASSUME FreshInv, NEW r, Returns(r), gain' \in Gains, UNCHANGED streamVars
  PROVE  FreshInv'
BY AutoTuneAssumption DEF Returns, FreshInv, Types, Reading, FreshFrom, streamVars

\* Pinning the other stages and setting the LNA: nothing is being read, and the
\* count of captures starts at zero.
LEMMA SettersHold ==
  ASSUME FreshInv, Call \/ PinsMixer \/ PinsVGA \/ SetsLNA
  PROVE  FreshInv'
<1>1. CASE Call
  BY <1>1, AutoTuneAssumption DEF Call, Goto, FreshInv, Types, Reading, FreshFrom, streamVars
<1>2. ASSUME NEW stage \in Stages, NEW next \in {"vga", "lna"}, PinsStage(stage, next)
      PROVE  FreshInv'
  <2>1. [gain EXCEPT !.maxed = @ \cup {stage}] \in Gains
    BY <1>2 DEF FreshInv, Types, Gains
  <2>2. CASE Fails
    <3>1. gain' \in Gains
      BY <1>2, <2>1, <2>2 DEF PinsStage, Fails, Returns, Stages, FreshInv, Types
    <3>2. UNCHANGED streamVars
      BY <1>2 DEF PinsStage
    <3>3. QED
      BY <2>2, <3>1, <3>2, ReturnHolds DEF Fails
  <2>3. CASE ~Fails
    BY <1>2, <2>1, <2>3 DEF PinsStage, FreshInv, Types, Reading, FreshFrom, streamVars, Stages
  <2>4. QED
    BY <2>2, <2>3
<1>3. CASE SetsLNA
  <2>1. [gain EXCEPT !.lna = step] \in Gains
    BY DEF FreshInv, Types, Gains
  <2>2. CASE Fails
    <3>1. gain' \in Gains
      BY <1>3, <2>1, <2>2 DEF SetsLNA, Fails, Returns, FreshInv, Types
    <3>2. UNCHANGED streamVars
      BY <1>3 DEF SetsLNA
    <3>3. QED
      BY <2>2, <3>1, <3>2, ReturnHolds DEF Fails
  <2>3. CASE ~Fails
    <3>1. pc' = "settle" /\ gain' \in Gains /\ UNCHANGED <<streamVars, step, window, waited>>
      BY <1>3, <2>1, <2>3 DEF SetsLNA
    <3>2. waited = 0 /\ window = <<>>
      BY <1>3 DEF SetsLNA, FreshInv, Reading
    <3>3. QED
      BY <3>1, <3>2 DEF FreshInv, Types, Reading, FreshFrom, streamVars
  <2>4. QED
    BY <2>2, <2>3
<1>4. QED
  BY <1>1, <1>2, <1>3 DEF PinsMixer, PinsVGA, Stages

\* The end of the settle delay: more chunks than the channel holds have been
\* captured, so it holds no stale one.
LEMMA SettleHolds ==
  ASSUME Settle > Capacity, FreshInv, SettleEnds
  PROVE  FreshInv'
<1>1. ended = "no" => \A i \in 1..Len(chan) : chan[i] = gain
  <2>1. CASE streaming
    BY <2>1, AutoTuneAssumption DEF SettleEnds, Goto, FreshInv, Types, FreshFrom
  <2>2. CASE ~streaming
    BY <2>2 DEF FreshInv
  <2>3. QED
    BY <2>1, <2>2
<1>2. ended = "no" /\ streaming => filling = gain
  BY AutoTuneAssumption DEF SettleEnds, Goto, FreshInv, Types
<1>3. window = <<>>
  BY DEF SettleEnds, Goto, FreshInv, Reading
<1>4. QED
  BY <1>1, <1>2, <1>3, AutoTuneAssumption DEF SettleEnds, Goto, FreshInv, Types, Reading, streamVars

\* Reading.
LEMMA ReadHolds ==
  ASSUME FreshInv, ReadEnters \/ ReadStarts \/ ReadTakes \/ ReadReturnsNothing
  PROVE  FreshInv'
<1>1. CASE ReadEnters
  BY <1>1 DEF ReadEnters, Goto, FreshInv, Types, Reading, FreshFrom, streamVars
<1>2. CASE ReadStarts
  <2>1. Len(chan) = 0
    BY <1>2 DEF ReadStarts, StartsStream, FreshInv
  <2>2. QED
    BY <1>2, <2>1 DEF ReadStarts, StartsStream, FreshInv, Types, Reading, walkVars
<1>3. CASE ReadTakes
  <2>1. /\ Len(window') = Len(window) + 1 /\ window'[Len(window) + 1] = chan[1]
        /\ \A i \in 1..Len(window) : window'[i] = window[i]
    BY <1>3 DEF ReadTakes, FreshInv, Types
  <2>2. /\ Len(chan) > 0 /\ Len(chan') = Len(chan) - 1
        /\ \A i \in 1..(Len(chan) - 1) : chan'[i] = chan[i + 1]
    BY <1>3 DEF ReadTakes, FreshInv, Types
  <2>3. Types'
    <3>1. Head(chan) \in Gains /\ Tail(chan) \in Seq(Gains)
      BY <1>3 DEF ReadTakes, FreshInv, Types
    <3>2. Len(chan') <= Capacity
      BY <2>2, AutoTuneAssumption DEF FreshInv, Types
    <3>3. QED
      BY <1>3, <3>1, <3>2 DEF ReadTakes, Goto, FreshInv, Types
  <2>4. QED
    BY <1>3, <2>1, <2>2, <2>3 DEF ReadTakes, Goto, FreshInv, Types, Reading, FreshFrom
<1>4. CASE ReadReturnsNothing
  BY <1>4 DEF ReadReturnsNothing, Goto, FreshInv, Types, Reading, FreshFrom, streamVars
<1>5. QED
  BY <1>1, <1>2, <1>3, <1>4

\* Judging the window, and every way to break off.
LEMMA EndHolds ==
  ASSUME FreshInv,
         SettleCancelled \/ ReadFails \/ ReadBreaksOff \/ Converges \/ StepsDown
  PROVE  FreshInv'
<1>1. CASE SettleCancelled \/ ReadFails \/ ReadBreaksOff \/ Converges
  <2>1. /\ \E r \in {"ok", "err"} : Returns(r)
        /\ gain' = gain /\ UNCHANGED streamVars
    BY <1>1 DEF SettleCancelled, ReadFails, ReadBreaksOff, Converges, Fails
  <2>2. gain' \in Gains
    BY <2>1 DEF FreshInv, Types
  <2>3. QED
    BY <2>1, <2>2, ReturnHolds
<1>2. CASE StepsDown
  <2>1. step' \in 0..Top /\ window' = <<>> /\ waited = 0
    BY <1>2, AutoTuneAssumption DEF StepsDown, Goto, FreshInv, Types, Reading
  <2>2. QED
    BY <1>2, <2>1 DEF StepsDown, Goto, FreshInv, Types, Reading, FreshFrom, streamVars
<1>3. QED
  BY <1>1, <1>2

LEMMA FreshStep == ASSUME Settle > Capacity PROVE FreshInv /\ [Next]_vars => FreshInv'
<1> SUFFICES ASSUME FreshInv, [Next]_vars PROVE FreshInv'
  OBVIOUS
<1>1. CASE Environment
  BY <1>1, CapturesHold, EnvironmentHolds DEF Environment
<1>2. CASE Call
  BY <1>2, SettersHold
<1>3. CASE Walk
  BY <1>3, SettersHold, SettleHolds, ReadHolds, EndHolds DEF Walk
<1>4. CASE UNCHANGED vars
  BY <1>4 DEF vars, streamVars, walkVars, FreshInv, Types, Reading, FreshFrom
<1>5. QED
  BY <1>1, <1>2, <1>3, <1>4 DEF Next

\* If the settle delay outlasts the channel, every step of the walk is judged
\* by samples captured at that step, whatever was waiting in the channel when
\* it began (autotune.go:54).
THEOREM FreshSamples == ASSUME Settle > Capacity PROVE Spec => []SamplesAreFresh
<1>1. FreshInv => SamplesAreFresh
  BY DEF FreshInv, Types, Reading, SamplesAreFresh
<1>2. QED
  BY <1>1, FreshInit, FreshStep, PTL DEF Spec
----------------------------------------------------------------------------
(* Types.                                                                  *)

\* A Read is entered only while the window has room.
TypeInv == TypeOK /\ (pc = "select" => Len(window) < Target)

LEMMA InitTypes == Init => TypeInv
<1> SUFFICES ASSUME Init PROVE TypeInv
  OBVIOUS
<1>1. gain \in Gains /\ filling \in Gains
  <2>1. PICK g \in [lna : 0..Top, maxed : {{}}] : gain = g
    BY DEF Init
  <2>2. g = [lna |-> g.lna, maxed |-> {}] /\ g.lna \in 0..Top
    BY <2>1
  <2>3. {} \in SUBSET Stages
    OBVIOUS
  <2>4. g \in Gains
    BY <2>2, <2>3 DEF Gains
  <2> QED  BY <2>1, <2>4 DEF Init
<1>2. <<>> \in Seq(Gains) /\ Len(<<>>) = 0
  OBVIOUS
<1>3. 0 <= Capacity /\ 0 <= Target /\ Top \in 0..Top /\ 0 \in 0..Settle
  BY AutoTuneAssumption
<1> QED
  BY <1>1, <1>2, <1>3 DEF Init, TypeInv, TypeOK

LEMMA TypeStep == TypeInv /\ [Next]_vars => TypeInv'
<1> SUFFICES ASSUME TypeInv, [Next]_vars PROVE TypeInv'
  OBVIOUS
<1> USE AutoTuneAssumption DEF TypeInv, TypeOK
<1>1. \A n \in 0..Top, s \in SUBSET Stages : [lna |-> n, maxed |-> s] \in Gains
  BY DEF Gains
<1>2. gain.lna \in 0..Top /\ gain.maxed \in SUBSET Stages
  BY DEF Gains
<1>3. CASE Environment
  <2>1. CASE Captures
    <3>1. ASSUME NEW s \in Seq(Gains)
          PROVE  Append(s, filling) \in Seq(Gains) /\ Len(Append(s, filling)) = Len(s) + 1 /\ Len(s) \in Nat
      OBVIOUS
    <3>2. chan # <<>> => Tail(chan) \in Seq(Gains) /\ Len(Tail(chan)) = Len(chan) - 1
      OBVIOUS
    <3>3. CASE Len(chan) < Capacity /\ chan' = Append(chan, filling)
      <4>1. chan' \in Seq(Gains) /\ Len(chan') = Len(chan) + 1 /\ Len(chan) \in Nat
        BY <3>1, <3>3
      <4>2. \A n \in Nat : n < Capacity => n + 1 <= Capacity
        OBVIOUS
      <4>3. chan' \in Seq(Gains) /\ Len(chan') <= Capacity
        BY <3>3, <4>1, <4>2
      <4> QED  BY <2>1, <4>3 DEF Captures, walkVars
    <3>4. CASE chan # <<>> /\ chan' = Append(Tail(chan), filling)
      <4>1. chan' \in Seq(Gains) /\ Len(chan') = Len(chan) - 1 + 1 /\ Len(chan) \in Nat
        BY <3>1, <3>2, <3>4
      <4>2. \A n \in Nat : n - 1 + 1 = n
        OBVIOUS
      <4>3. chan' \in Seq(Gains) /\ Len(chan') <= Capacity
        BY <4>1, <4>2
      <4> QED  BY <2>1, <4>3 DEF Captures, walkVars
    <3> QED  BY <2>1, <3>3, <3>4 DEF Captures
  <2>2. CASE StreamEnds  BY <2>2 DEF StreamEnds, walkVars
  <2>3. CASE Cancel  BY <2>3 DEF Cancel, streamVars
  <2>4. CASE ApplicationReads
    <3>1. chan' \in Seq(Gains) /\ Len(chan') <= Capacity
      BY <2>4 DEF ApplicationReads
    <3> QED  BY <2>4, <3>1 DEF ApplicationReads, walkVars
  <2>5. CASE ApplicationSets
    <3>1. gain' \in Gains
      BY <2>5 DEF ApplicationSets, Gains, Stages
    <3> QED  BY <2>5, <3>1 DEF ApplicationSets, streamVars
  <2>6. CASE StartsStream  BY <2>6 DEF StartsStream, walkVars
  <2> QED  BY <1>3, <2>1, <2>2, <2>3, <2>4, <2>5, <2>6 DEF Environment
<1>4. ASSUME NEW r \in {"ok", "err"}, Returns(r), gain' \in Gains, UNCHANGED <<limit, streamVars>> PROVE TypeInv'
  <2>1. window' \in Seq(Gains) /\ Len(window') <= Target
    BY <1>4 DEF Returns
  <2>2. step' \in 0..Top /\ waited' \in 0..Settle /\ pc' = "idle" /\ cancelled' = FALSE /\ result' = r
    BY <1>4 DEF Returns
  <2> QED  BY <1>4, <2>1, <2>2 DEF streamVars
<1>5. CASE Call  BY <1>5 DEF Call, Goto, streamVars
<1>6. ASSUME NEW stage \in Stages, NEW next \in {"vga", "lna"}, PinsStage(stage, next) PROVE TypeInv'
  <2>1. [gain EXCEPT !.maxed = @ \cup {stage}] \in Gains
    BY DEF Gains
  <2>2. CASE Fails
    <3>1. gain' \in Gains
      BY <1>6, <2>1 DEF PinsStage
    <3> QED  BY <1>4, <1>6, <2>2, <3>1 DEF PinsStage, Fails
  <2>3. CASE ~Fails
    BY <1>6, <2>1, <2>3 DEF PinsStage, streamVars
  <2> QED  BY <2>2, <2>3
<1>7. CASE SetsLNA
  <2>1. [gain EXCEPT !.lna = step] \in Gains
    BY DEF Gains
  <2>2. CASE Fails
    <3>1. gain' \in Gains
      BY <1>7, <2>1 DEF SetsLNA
    <3> QED  BY <1>4, <1>7, <2>2, <3>1 DEF SetsLNA, Fails
  <2>3. CASE ~Fails
    BY <1>7, <2>1, <2>3 DEF SetsLNA, streamVars
  <2> QED  BY <2>2, <2>3
<1>8. CASE SettleEnds  BY <1>8 DEF SettleEnds, Goto, streamVars
<1>9. CASE ReadEnters  BY <1>9 DEF ReadEnters, Goto, streamVars
<1>10. CASE ReadStarts  BY <1>10 DEF ReadStarts, StartsStream, walkVars
<1>11. CASE ReadTakes
  <2>1. chan # <<>> /\ Len(window) \in Nat /\ Len(window) < Target /\ Len(chan) \in Nat
    BY <1>11 DEF ReadTakes, Goto
  <2>2. Head(chan) \in Gains /\ chan' \in Seq(Gains) /\ Len(chan') = Len(chan) - 1
    BY <1>11, <2>1 DEF ReadTakes
  <2>3. Len(chan') <= Capacity
    BY <2>1, <2>2
  <2>4. window' \in Seq(Gains) /\ Len(window') = Len(window) + 1
    BY <1>11, <2>2 DEF ReadTakes
  <2>5. Len(window') <= Target
    BY <2>1, <2>4
  <2> QED
    BY <1>11, <2>2, <2>3, <2>4, <2>5 DEF ReadTakes, Goto
<1>12. CASE ReadReturnsNothing  BY <1>12 DEF ReadReturnsNothing, Goto, streamVars
<1>13. CASE SettleCancelled \/ ReadFails \/ ReadBreaksOff \/ Converges
  BY <1>4, <1>13 DEF SettleCancelled, ReadFails, ReadBreaksOff, Converges, Fails
<1>14. CASE StepsDown  BY <1>14 DEF StepsDown, Goto, streamVars
<1>15. CASE UNCHANGED vars  BY <1>15 DEF vars, streamVars, walkVars
<1> QED
  BY <1>3, <1>5, <1>6, <1>7, <1>8, <1>9, <1>10, <1>11, <1>12, <1>13, <1>14, <1>15
     DEF Next, Walk, PinsMixer, PinsVGA, Stages

\* Every variable keeps its type: the window never holds more than Target, the step never
\* leaves the LNA's range (autoTuneGain, readSampleStats).
THEOREM TypeCorrect == Spec => []TypeOK
<1>1. TypeInv => TypeOK
  BY DEF TypeInv
<1> QED
  BY <1>1, InitTypes, TypeStep, PTL DEF Spec
----------------------------------------------------------------------------
(* The result.                                                             *)

\* The walk has not gone below the highest quiet step, and the tuner is where
\* the walk thinks.
HighInv ==
  /\ pc = "vga" => "mixer" \in gain.maxed
  /\ pc \in {"lna", "settle", "read", "select"} => gain.maxed = Stages
  /\ pc \in {"settle", "read", "select"} => gain.lna = step
  /\ pc # "idle" /\ ended # "orderly" => limit <= step
  /\ HighestQuiet

\* A window of one gain is saturated as a whole or not at all.
LEMMA OneGainVerdict ==
  ASSUME TypeInv, FreshInv, pc = "read", ended # "orderly", Len(window) >= Target
  PROVE  Quiet <=> ~Saturates(gain)
<1>1. /\ Len(window) = Target /\ DOMAIN window = 1..Target
      /\ \A i \in 1..Target : window[i] = gain
  BY AutoTuneAssumption DEF TypeInv, TypeOK, FreshInv, Reading
<1> DEFINE Saturated == {i \in DOMAIN window : Saturates(window[i])}
<1>0. Quiet <=> Cardinality(Saturated) <= Tolerance
  BY DEF Quiet
<1> HIDE DEF Saturated
<1>2. CASE Saturates(gain)
  <2>1. Saturated = 1..Target
    BY <1>1, <1>2 DEF Saturated
  <2>2. Cardinality(1..Target) = Target
    BY AutoTuneAssumption, FS_Interval
  <2>3. ~(Target <= Tolerance)
    BY AutoTuneAssumption
  <2>4. ~Quiet
    BY <1>0, <2>1, <2>2, <2>3
  <2> QED  BY <1>2, <2>4
<1>3. CASE ~Saturates(gain)
  <2>1. Saturated = {}
    BY <1>1, <1>3 DEF Saturated
  <2>2. Cardinality({}) = 0
    BY FS_EmptySet
  <2>3. 0 <= Tolerance
    BY AutoTuneAssumption
  <2>4. Quiet
    BY <1>0, <2>1, <2>2, <2>3
  <2> QED  BY <1>3, <2>4
<1> QED
  BY <1>2, <1>3

LEMMA InitHigh == Init => HighInv
BY DEF Init, HighInv, HighestQuiet

LEMMA HighStep == TypeInv /\ FreshInv /\ HighInv /\ [Next]_vars => HighInv'
<1> SUFFICES ASSUME TypeInv, FreshInv, HighInv, [Next]_vars PROVE HighInv'
  OBVIOUS
<1>1. /\ limit \in -1..Top /\ step \in 0..Top /\ Top \in Nat
      /\ gain.lna \in 0..Top /\ gain.maxed \subseteq Stages
      /\ gain = [lna |-> gain.lna, maxed |-> gain.maxed]
  BY AutoTuneAssumption DEF TypeInv, TypeOK, Gains
<1>2. CASE Environment
  <2>1. CASE ApplicationSets
    BY <2>1 DEF ApplicationSets, HighInv, HighestQuiet
  <2>2. CASE ~ApplicationSets
    <3>1. UNCHANGED <<limit, gain, pc, step, result>> /\ (ended = "orderly" => ended' = "orderly")
      BY <1>2, <2>2 DEF Environment, Captures, StreamEnds, Cancel, ApplicationReads, StartsStream,
         streamVars, walkVars
    <3> QED  BY <3>1 DEF HighInv, HighestQuiet
  <2> QED  BY <2>1, <2>2
<1>3. CASE Call
  BY <1>1, <1>3 DEF Call, Goto, HighInv, HighestQuiet
<1>4. ASSUME Fails PROVE HighInv'
  BY <1>4 DEF Fails, Returns, HighInv, HighestQuiet
<1>5. CASE PinsMixer
  <2>1. ~Fails => /\ pc' = "vga" /\ gain' = [gain EXCEPT !.maxed = @ \cup {"mixer"}]
                  /\ UNCHANGED <<limit, step, ended>> /\ pc = "mixer"
    BY <1>5 DEF PinsMixer, PinsStage, streamVars
  <2>2. ~Fails => "mixer" \in gain'.maxed
    BY <1>1, <2>1
  <2> QED  BY <1>4, <2>1, <2>2 DEF HighInv, HighestQuiet
<1>6. CASE PinsVGA
  <2>1. ~Fails => /\ pc' = "lna" /\ gain' = [gain EXCEPT !.maxed = @ \cup {"vga"}]
                  /\ UNCHANGED <<limit, step, ended>> /\ pc = "vga"
    BY <1>6 DEF PinsVGA, PinsStage, streamVars
  <2>2. ~Fails => gain'.maxed = Stages
    BY <1>1, <2>1 DEF HighInv, Stages
  <2> QED  BY <1>4, <2>1, <2>2 DEF HighInv, HighestQuiet
<1>7. CASE SetsLNA
  <2>1. ~Fails => /\ pc' = "settle" /\ gain' = [gain EXCEPT !.lna = step]
                  /\ UNCHANGED <<limit, step, ended>> /\ pc = "lna"
    BY <1>7 DEF SetsLNA, streamVars
  <2>2. ~Fails => gain'.lna = step /\ gain'.maxed = gain.maxed
    BY <1>1, <2>1
  <2> QED  BY <1>4, <2>1, <2>2 DEF HighInv, HighestQuiet
<1>8. CASE SettleEnds \/ ReadEnters \/ ReadStarts \/ ReadTakes \/ ReadReturnsNothing
  <2>1. /\ pc \in {"settle", "read", "select"} /\ pc' \in {"settle", "read", "select"}
        /\ UNCHANGED <<limit, gain, step, ended>>
    BY <1>8 DEF SettleEnds, ReadEnters, ReadStarts, StartsStream, ReadTakes, ReadReturnsNothing, Goto,
       streamVars, walkVars
  <2> QED  BY <2>1 DEF HighInv, HighestQuiet
<1>9. CASE SettleCancelled \/ ReadFails \/ ReadBreaksOff
  BY <1>4, <1>9 DEF SettleCancelled, ReadFails, ReadBreaksOff
<1>10. CASE Converges
  <2>1. /\ pc = "read" /\ Len(window) >= Target /\ (Quiet \/ step = 0)
        /\ pc' = "idle" /\ step' = step /\ UNCHANGED <<limit, gain, ended>>
    BY <1>10 DEF Converges, Returns, streamVars
  <2>2. gain = [lna |-> step, maxed |-> Stages]
    BY <1>1, <2>1 DEF HighInv
  <2>3. ASSUME ended # "orderly" PROVE step = IF limit < 0 THEN 0 ELSE limit
    <3>1. limit <= step
      BY <2>1, <2>3 DEF HighInv
    <3>2. step <= limit \/ step = 0
      BY <1>1, <2>1, <2>2, <2>3, OneGainVerdict DEF Saturates
    <3> QED  BY <1>1, <3>1, <3>2
  <2> QED  BY <2>1, <2>2, <2>3 DEF HighInv, HighestQuiet
<1>11. CASE StepsDown
  <2>1. /\ pc = "read" /\ Len(window) >= Target /\ ~Quiet /\ step > 0
        /\ pc' = "lna" /\ step' = step - 1 /\ UNCHANGED <<limit, gain, ended>>
    BY <1>11 DEF StepsDown, Goto, streamVars
  <2>2. gain.lna = step /\ gain.maxed = Stages
    BY <2>1 DEF HighInv
  <2>3. ended # "orderly" => limit <= step - 1
    BY <1>1, <2>1, <2>2, OneGainVerdict DEF Saturates
  <2> QED  BY <2>1, <2>2, <2>3 DEF HighInv, HighestQuiet
<1>12. CASE UNCHANGED vars
  BY <1>12 DEF vars, streamVars, walkVars, HighInv, HighestQuiet
<1> QED
  BY <1>2, <1>3, <1>5, <1>6, <1>7, <1>8, <1>9, <1>10, <1>11, <1>12 DEF Next, Walk

\* If the settle delay outlasts the channel, a walk that converges leaves the tuner at
\* the highest quiet LNA step, with any tolerance below the whole window
\* (autotune.go:147).
THEOREM HighestQuietFound == ASSUME Settle > Capacity PROVE Spec => []HighestQuiet
<1>1. HighInv => HighestQuiet
  BY DEF HighInv
<1>2. FreshInv /\ [Next]_vars => FreshInv'
  BY FreshStep
<1> QED
  BY <1>1, <1>2, FreshInit, InitTypes, TypeStep, InitHigh, HighStep, PTL DEF Spec
=============================================================================
