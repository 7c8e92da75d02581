------------------------------ MODULE AutoTune ------------------------------
(***************************************************************************)
(* autoTuneGain of autotune.go with readSampleStats, against the sample    *)
(* channel.  The channel is what LossyFifo promises; a chunk in it is the  *)
(* gain under which its transfer began, which is all that the walk can     *)
(* learn from it.                                                          *)
(*                                                                         *)
(* Time is counted in chunks: the settle delay lasts Settle of them, or    *)
(* more.  The stream may end, and the context be cancelled, at any time.   *)
(***************************************************************************)
EXTENDS Integers, Sequences, FiniteSets

CONSTANTS
  Top,        \* topLNA, the highest step
  Capacity,   \* of the sample channel, in chunks
  Settle,     \* opts.SettleDelay, in chunks
  Target,     \* opts.SampleTarget, in chunks
  Tolerance   \* opts.SaturationThreshold: how many of them may be saturated

ASSUME AutoTuneAssumption ==
  /\ Top \in Nat /\ Capacity \in Nat \ {0}
  /\ Settle \in Nat /\ Target \in Nat \ {0} /\ Tolerance \in 0..(Target - 1)

\* The LNA's step, and which of the other two stages are at their maximum.
Stages == {"mixer", "vga"}
Gains == [lna : 0..Top, maxed : SUBSET Stages]

VARIABLES
  limit,      \* the antenna: the highest LNA step that does not overload
  gain,       \* the tuner's stages
  streaming,  \* the URB ring has been started
  ended,      \* "no", or how the stream ended: "orderly" (Close), "failed"
  filling,    \* the gain under which the transfer in progress began
  chan,       \* the chunks waiting, oldest first
  pc,         \* where the walk is
  step,       \* lnaStep
  waited,     \* chunks captured since the settle delay began, up to Settle
  window,     \* the chunks readSampleStats has consumed
  cancelled,  \* ctx is done
  result      \* what the last call returned; its LNA is step

streamVars == <<streaming, ended, filling, chan>>
walkVars == <<pc, step, window, cancelled, result>>
vars == <<limit, gain, streamVars, walkVars, waited>>

TypeOK ==
  /\ limit \in -1..Top /\ gain \in Gains
  /\ streaming \in BOOLEAN /\ ended \in {"no", "orderly", "failed"}
  /\ filling \in Gains
  /\ chan \in Seq(Gains) /\ Len(chan) <= Capacity
  /\ pc \in {"idle", "mixer", "vga", "lna", "settle", "read", "select"}
  /\ step \in 0..Top /\ waited \in 0..Settle
  /\ window \in Seq(Gains) /\ Len(window) <= Target
  /\ cancelled \in BOOLEAN /\ result \in {"none", "ok", "err"}

Init ==
  /\ limit \in -1..Top
  /\ gain \in [lna : 0..Top, maxed : {{}}] /\ filling = gain
  /\ streaming = FALSE /\ ended = "no" /\ chan = <<>>
  /\ pc = "idle" /\ step = Top /\ waited = 0 /\ window = <<>>
  /\ cancelled = FALSE /\ result = "none"
----------------------------------------------------------------------------
(* The stream and its other users.                                         *)

\* A transfer completes and the next begins.  The oldest chunk makes room, in
\* a race with a Read also when there is some.
Captures ==
  /\ streaming /\ ended = "no"
  /\ \/ Len(chan) < Capacity /\ chan' = Append(chan, filling)
     \/ chan # <<>> /\ chan' = Append(Tail(chan), filling)
  /\ filling' = gain
  /\ waited' = IF pc = "settle" /\ waited < Settle THEN waited + 1 ELSE waited
  /\ UNCHANGED <<limit, gain, streaming, ended, walkVars>>

StreamEnds ==
  /\ streaming /\ ended = "no"
  /\ ended' \in {"orderly", "failed"}
  /\ UNCHANGED <<limit, gain, streaming, filling, chan, walkVars, waited>>

\* The first Read starts the ring.
StartsStream ==
  /\ ~streaming /\ streaming' = TRUE
  /\ filling' = gain
  /\ UNCHANGED <<limit, gain, ended, chan, walkVars, waited>>

ApplicationReads ==
  /\ pc = "idle"
  /\ chan # <<>> /\ chan' = Tail(chan)
  /\ UNCHANGED <<limit, gain, streaming, ended, filling, walkVars, waited>>

\* SetLNAGain, SetMixerGain and SetVGAGain between two walks.
ApplicationSets ==
  /\ pc = "idle"
  /\ gain' \in [lna : 0..Top, maxed : {{}}]
  /\ result' = "none" /\ step' = Top
  /\ UNCHANGED <<limit, streamVars, pc, window, cancelled, waited>>

Cancel ==
  /\ pc # "idle" /\ cancelled' = TRUE
  /\ UNCHANGED <<limit, gain, streamVars, pc, step, window, result, waited>>
----------------------------------------------------------------------------
(* The walk.                                                               *)

Goto(from, to) == pc = from /\ pc' = to

\* The call's locals end with it; a result has its LNA in step.
Returns(r) ==
  /\ pc' = "idle" /\ result' = r
  /\ window' = <<>> /\ waited' = 0 /\ cancelled' = FALSE
  /\ step' = IF r = "ok" THEN step ELSE Top
Fails == Returns("err")

Call ==
  /\ Goto("idle", "mixer")
  /\ step' = Top /\ result' = "none"
  /\ UNCHANGED <<limit, gain, streamVars, window, cancelled, waited>>

\* A setter that returns nil took effect, one that fails may have.
PinsStage(stage, next) ==
  /\ pc = stage
  /\ \/ /\ pc' = next /\ gain' = [gain EXCEPT !.maxed = @ \cup {stage}]
        /\ UNCHANGED <<step, window, cancelled, result, waited>>
     \/ Fails /\ gain' \in {gain, [gain EXCEPT !.maxed = @ \cup {stage}]}
  /\ UNCHANGED <<limit, streamVars>>

PinsMixer == PinsStage("mixer", "vga")
PinsVGA == PinsStage("vga", "lna")

SetsLNA ==
  /\ pc = "lna"
  /\ \/ /\ pc' = "settle" /\ gain' = [gain EXCEPT !.lna = step]
        /\ UNCHANGED <<step, window, cancelled, result, waited>>
     \/ Fails /\ gain' \in {gain, [gain EXCEPT !.lna = step]}
  /\ UNCHANGED <<limit, streamVars>>

\* Seeded bug: the window is read without waiting.
SettleSkipped ==
  /\ Goto("settle", "read") /\ waited' = 0
  /\ UNCHANGED <<limit, gain, streamVars, step, window, cancelled, result>>

\* waitOrCancel: the timer, which does not depend on the stream ...
SettleEnds ==
  /\ Goto("settle", "read") /\ waited' = 0
  /\ streaming /\ ended = "no" => waited = Settle
  /\ UNCHANGED <<limit, gain, streamVars, step, window, cancelled, result>>

\* ... or the context.
SettleCancelled ==
  /\ pc = "settle" /\ cancelled /\ Fails
  /\ UNCHANGED <<limit, gain, streamVars>>

\* Seeded bug: Read does not look at the context first.
ReadEntersAnyway ==
  /\ Goto("read", "select")
  /\ Len(window) < Target
  /\ streaming /\ ended # "failed"
  /\ UNCHANGED <<limit, gain, streamVars, step, window, cancelled, result, waited>>

\* readSampleStats wants more: Read checks the context and the stream, ...
ReadEnters ==
  /\ Goto("read", "select")
  /\ Len(window) < Target
  /\ ~cancelled /\ streaming /\ ended # "failed"
  /\ UNCHANGED <<limit, gain, streamVars, step, window, cancelled, result, waited>>

ReadStarts == pc = "read" /\ Len(window) < Target /\ ~cancelled /\ StartsStream

\* ... also when the ring cannot be started, ...
ReadFails ==
  /\ pc = "read" /\ Len(window) < Target /\ Fails
  /\ cancelled \/ ended = "failed" \/ ~streaming
  /\ UNCHANGED <<limit, gain, streamVars>>

\* ... and waits for a chunk, ...
ReadTakes ==
  /\ Goto("select", "read")
  /\ chan # <<>>
  /\ window' = Append(window, Head(chan)) /\ chan' = Tail(chan)
  /\ UNCHANGED <<limit, gain, streaming, ended, filling, step, cancelled, result, waited>>

\* ... for the end of the stream, which is no error if it is orderly, ...
ReadReturnsNothing ==
  /\ Goto("select", "read")
  /\ ended = "orderly"
  /\ UNCHANGED <<limit, gain, streamVars, step, window, cancelled, result, waited>>

\* ... or for the context.
ReadBreaksOff ==
  /\ pc = "select" /\ Fails
  /\ cancelled \/ ended = "failed"
  /\ UNCHANGED <<limit, gain, streamVars>>

Saturates(g) == g.maxed = Stages /\ g.lna > limit
Quiet == Cardinality({i \in DOMAIN window : Saturates(window[i])}) <= Tolerance

\* Seeded bug: the step is taken before it is compared.
StepsDownTooFar ==
  /\ Goto("read", "lna")
  /\ Len(window) >= Target /\ step > 0
  /\ step' = step - 1 /\ window' = <<>>
  /\ UNCHANGED <<limit, gain, streamVars, cancelled, result, waited>>

\* Seeded bug: the walk has no floor.
ConvergesOnlyQuiet ==
  /\ pc = "read" /\ Len(window) >= Target
  /\ Quiet
  /\ Returns("ok")
  /\ UNCHANGED <<limit, gain, streamVars>>

Converges ==
  /\ pc = "read" /\ Len(window) >= Target
  /\ Quiet \/ step = 0
  /\ Returns("ok")
  /\ UNCHANGED <<limit, gain, streamVars>>

StepsDown ==
  /\ Goto("read", "lna")
  /\ Len(window) >= Target
  /\ ~Quiet /\ step > 0
  /\ step' = step - 1 /\ window' = <<>>
  /\ UNCHANGED <<limit, gain, streamVars, cancelled, result, waited>>

Walk ==
  \/ PinsMixer \/ PinsVGA \/ SetsLNA
  \/ SettleEnds \/ SettleCancelled
  \/ ReadEnters \/ ReadStarts \/ ReadFails
  \/ ReadTakes \/ ReadReturnsNothing \/ ReadBreaksOff
  \/ Converges \/ StepsDown

Environment ==
  \/ Captures \/ StreamEnds \/ Cancel
  \/ ApplicationReads \/ ApplicationSets
  \/ pc = "idle" /\ StartsStream

Next == Environment \/ Call \/ Walk

Spec == Init /\ [][Next]_vars

\* The goroutine that called is scheduled, and the chip, while the stream
\* lasts, goes on delivering.  Nobody has to cancel.
FairSpec == Spec /\ WF_vars(Walk) /\ WF_vars(Captures)
----------------------------------------------------------------------------
(* Properties.                                                             *)

\* Every sample a step is judged by was captured at that step, with the other
\* stages pinned (autotune.go:54, SettleDelay: what was in the ring before the
\* change has been overwritten when the delay ends).
SamplesAreFresh ==
  pc \in {"read", "select"} /\ ended # "orderly" =>
    \A i \in DOMAIN window : window[i] = gain

\* A walk that converges leaves the tuner where its result says
\* (autotune.go:147): mixer and VGA at their maximum, the LNA at the highest
\* step that does not overload, or at zero.  Not so if the stream was closed
\* under it.
HighestQuiet ==
  pc = "idle" /\ result = "ok" /\ ended # "orderly" =>
    /\ gain = [lna |-> step, maxed |-> Stages]
    /\ step = IF limit < 0 THEN 0 ELSE limit

\* The walk is bounded (usbfs_linux.go:187) as long as the stream lasts; a
\* failed stream ends it.
TuneReturns == pc # "idle" ~> (pc = "idle" \/ ended = "orderly")

\* Whatever the stream does, a cancelled walk returns.
CancelReturns == cancelled /\ pc # "idle" ~> pc = "idle"
=============================================================================
