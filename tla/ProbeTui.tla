------------------------------ MODULE ProbeTui ------------------------------
(***************************************************************************)
(* rtl-probe's terminal UI (cmd/rtl-probe/tui.go): the thread of the keys, *)
(* the goroutines of auto-tune and sweep (the walkers), and the sampler,   *)
(* around one receiver.  The display is the gain the footer shows.         *)
(*                                                                         *)
(* A frame is fresh if its oldest sample was captured after the last call  *)
(* of a setter.  A fresh frame says how the chip's gain does; a stale one  *)
(* may say anything.                                                       *)
(***************************************************************************)
EXTENDS Integers, FiniteSets, Sequences

CONSTANTS
  Walkers,    \* goroutines a walk can run on, by number
  None,
  Top,        \* maxR860Step
  Stride,     \* of the sweep's grid
  Limits,     \* antennas: the highest total gain that does not overload
  Ahead,      \* frames that are under way at a time, being captured or read
  Settle      \* settleDelay, in frames

ASSUME TuiAssumption ==
  /\ Top \in Nat \ {0} /\ Stride \in Nat \ {0} /\ Limits \subseteq Int
  /\ Ahead \in Nat \ {0} /\ Settle \in Nat \ {0}
  /\ Walkers \subseteq Nat /\ None \notin Walkers

Stages == {"lna", "mixer", "vga"}
Gains == [Stages -> 0..Top]
Kinds == {"auto", "sweep"}

VARIABLES
  limit,      \* the antenna
  app,        \* "running", "interrupted" (ctx is done) or "closed"
  chip,       \* what the tuner and the GPIO are set to
  shown,      \* model.gain
  key,        \* the gain key being handled: where, which stage, and the new gain
  outcome,    \* status and err of each kind of walk
  cancelOf,   \* autoTuneCancel and sweepCancel: whose context they cancel
  ctxDone,    \* walkers whose context has been cancelled
  pc, kind,   \* of each walker
  index,      \* the cell of its walk it is at
  best,       \* the sweep's best cell so far
  published,  \* frames published since its present wait began, up to Settle
  frames,     \* the frames under way: first the stale ones, then the fresh ones
  latest,     \* model.latest, "fresh" or "stale"
  known,      \* history: stages whose last setter was acknowledged
  late        \* history: walkers for which frames were too slow

chipVars == <<chip, known, frames, latest>>
walkVars == <<kind, index, best, published, late>>
ctlVars == <<outcome, cancelOf, ctxDone>>
vars == <<limit, app, chipVars, shown, key, ctlVars, pc, walkVars>>

\* maxR860Step in every stage: the gain the footer starts from.
StartGain == [s \in Stages |-> Top]
NoKey == [at |-> "none", stage |-> "lna", next |-> StartGain]
NoBest == [cell |-> StartGain, quiet |-> FALSE, level |-> -1]

Level(c) == c["lna"] + c["mixer"] + c["vga"]
Results == [cell : Gains, quiet : BOOLEAN, level : 0..(3 * Top)]

TypeOK ==
  /\ limit \in Limits /\ app \in {"running", "interrupted", "closed"}
  /\ chip \in Gains /\ shown \in Gains
  /\ key \in [at : {"none", "set", "show"}, stage : Stages, next : Gains]
  /\ outcome \in [Kinds -> {"ok", "running", "failed"}]
  /\ cancelOf \in [Kinds -> Walkers \cup {None}] /\ ctxDone \subseteq Walkers
  /\ pc \in [Walkers -> {"none", "pinMixer", "pinVGA", "check", "lna",
                         "mixer", "vga", "show", "settle", "poll", "judge"}]
  /\ kind \in [Walkers -> Kinds] /\ index \in [Walkers -> Nat]
  /\ best \in [Walkers -> Results \cup {NoBest}]
  /\ published \in [Walkers -> 0..Settle]
  /\ frames \in [stale : 0..Ahead, fresh : 0..Ahead]
  /\ latest \in {"fresh", "stale"}
  /\ known \subseteq Stages /\ late \subseteq Walkers

\* The display starts at the top, whatever the options have set.
Init ==
  /\ limit \in Limits /\ app = "running"
  /\ chip \in Gains /\ shown = StartGain
  /\ key = NoKey
  /\ outcome = [k \in Kinds |-> "ok"] /\ cancelOf = [k \in Kinds |-> None]
  /\ ctxDone = {}
  /\ pc = [w \in Walkers |-> "none"] /\ kind = [w \in Walkers |-> "auto"]
  /\ index = [w \in Walkers |-> 0]
  /\ best = [w \in Walkers |-> NoBest] /\ published = [w \in Walkers |-> 0]
  /\ frames = [stale |-> 0, fresh |-> 0] /\ latest = "stale"
  /\ known = {k \in Stages : chip[k] = StartGain[k]} /\ late = {}
----------------------------------------------------------------------------
(* The sampler.                                                            *)

\* A frame's first samples are captured.
FrameBegins ==
  /\ app = "running" /\ frames.stale + frames.fresh < Ahead
  /\ frames' = [frames EXCEPT !.fresh = @ + 1]
  /\ UNCHANGED <<limit, app, chip, known, latest, shown, key, ctlVars, pc, walkVars>>

\* readFrame fails and what it has read is discarded.
FrameFails ==
  /\ \/ frames.stale > 0 /\ frames' = [frames EXCEPT !.stale = @ - 1]
     \/ /\ frames.stale = 0 /\ frames.fresh > 0
        /\ frames' = [frames EXCEPT !.fresh = @ - 1]
  /\ UNCHANGED <<limit, app, chip, known, latest, shown, key, ctlVars, pc, walkVars>>

\* model.update
FramePublished ==
  /\ \/ /\ frames.stale > 0 /\ latest' = "stale"
        /\ frames' = [frames EXCEPT !.stale = @ - 1]
     \/ /\ frames.stale = 0 /\ frames.fresh > 0 /\ latest' = "fresh"
        /\ frames' = [frames EXCEPT !.fresh = @ - 1]
  /\ published' = [w \in Walkers |->
       IF pc[w] \in {"settle", "poll"} /\ published[w] < Settle
         THEN published[w] + 1 ELSE published[w]]
  /\ UNCHANGED <<limit, app, chip, known, shown, key, ctlVars, pc, kind, index, best, late>>
----------------------------------------------------------------------------
(* Setters, of whoever calls them.                                         *)

Turns(k, v) ==
  /\ chip' = [chip EXCEPT ![k] = v]
  /\ frames' = [stale |-> frames.stale + frames.fresh, fresh |-> 0]
  /\ latest' = "stale"

SetterReturnsNil(k, v) == Turns(k, v) /\ known' = known \cup {k}

\* It fails before its effect, or after it.
SetterFails(k, v) ==
  \/ UNCHANGED chipVars
  \/ Turns(k, v) /\ known' = known \ {k}
----------------------------------------------------------------------------
(* The thread of the keys.                                                 *)

NobodyRuns == \A k \in Kinds : outcome[k] # "running"
TakesKeys == app # "closed" /\ key.at = "none"

\* The goroutine numbers are handed out in order.
FirstFree(w) == pc[w] = "none" /\ \A v \in Walkers : v < w => pc[v] # "none"

\* A walk of one kind is started on a goroutine of its own ...
StartKey(k, w) ==
  /\ TakesKeys /\ NobodyRuns /\ FirstFree(w)
  /\ outcome' = [outcome EXCEPT ![k] = "running"]
  /\ cancelOf' = [cancelOf EXCEPT ![k] = w]
  /\ pc' = [pc EXCEPT ![w] = IF k = "auto" THEN "pinMixer" ELSE "check"]
  /\ kind' = [kind EXCEPT ![w] = k]
  /\ UNCHANGED <<limit, app, chipVars, shown, key, ctxDone, index, best, published, late>>

\* Seeded bug: the display says idle while the walker is still winding down.
CancelKeyFrees(k) ==
  /\ TakesKeys /\ ~NobodyRuns /\ cancelOf[k] # None
  /\ ctxDone' = ctxDone \cup {cancelOf[k]}
  /\ outcome' = [outcome EXCEPT ![k] = "failed"]
  /\ UNCHANGED <<limit, app, chipVars, shown, key, cancelOf, pc, walkVars>>

\* ... or, if one of any kind is running, the same key cancels its own.
CancelKey(k) ==
  /\ TakesKeys /\ ~NobodyRuns /\ cancelOf[k] # None
  /\ ctxDone' = ctxDone \cup {cancelOf[k]}
  /\ UNCHANGED <<limit, app, chipVars, shown, key, outcome, cancelOf, pc, walkVars>>

\* clampStep
Clamp(n) == IF n < 0 THEN 0 ELSE IF n > Top THEN Top ELSE n

\* The steps the keys of a stage ask for.
Asked(s) == {Clamp(shown[s] + 1), Clamp(shown[s] - 1)}

\* Dropped while a walk is running.
GainKey(k) ==
  /\ TakesKeys /\ NobodyRuns
  /\ \E v \in Asked(k) : key' = [at |-> "set", stage |-> k, next |-> [shown EXCEPT ![k] = v]]
  /\ UNCHANGED <<limit, app, chipVars, shown, ctlVars, pc, walkVars>>

KeySets ==
  /\ key.at = "set"
  /\ \/ /\ SetterReturnsNil(key.stage, key.next[key.stage])
        /\ key' = [key EXCEPT !.at = "show"]
     \/ SetterFails(key.stage, key.next[key.stage]) /\ key' = NoKey
  /\ UNCHANGED <<limit, app, shown, ctlVars, pc, walkVars>>

KeyShows ==
  /\ key.at = "show" /\ key' = NoKey /\ shown' = key.next
  /\ UNCHANGED <<limit, app, chipVars, ctlVars, pc, walkVars>>

\* app.Run returns, and with it runTUI, which cancels the context.
QuitKey ==
  /\ TakesKeys /\ app' = "closed"
  /\ UNCHANGED <<limit, chipVars, shown, key, ctlVars, pc, walkVars>>

\* SIGTERM cancels the context; the keys go on.
Interrupt ==
  /\ app = "running" /\ app' = "interrupted"
  /\ UNCHANGED <<limit, chipVars, shown, key, ctlVars, pc, walkVars>>
----------------------------------------------------------------------------
(* The walkers.                                                            *)

CtxDone(w) == w \in ctxDone \/ app # "running"

\* sweepStepsForStride: the multiples of the stride, and Top after the last of them.
Side == (Top \div Stride) + (IF Top % Stride = 0 THEN 1 ELSE 2)
Grid == [i \in 0..(Side - 1) |-> IF i * Stride <= Top THEN i * Stride ELSE Top]

\* The i-th cell of a walk: auto-tune goes down the LNA, a sweep over the grid.
SweepCell(i) ==
  [s \in Stages |-> CASE s = "lna" -> Grid[i \div (Side * Side)]
                      [] s = "mixer" -> Grid[(i \div Side) % Side]
                      [] s = "vga" -> Grid[i % Side]]
Cell(k, i) ==
  IF k = "auto" THEN [StartGain EXCEPT !["lna"] = Top - i] ELSE SweepCell(i)
Cells == Side * Side * Side

\* After the grid a sweep applies its best cell.
Applying(w) == kind[w] = "sweep" /\ index[w] = Cells
Target(w) == IF Applying(w) THEN best[w].cell ELSE Cell(kind[w], index[w])

\* The goroutine ends; its locals with it.
Ends(w, r) ==
  /\ outcome' = [outcome EXCEPT ![kind[w]] = r]
  /\ cancelOf' = [cancelOf EXCEPT ![kind[w]] = None]
  /\ ctxDone' = ctxDone \ {w} /\ late' = late \ {w}
  /\ pc' = [pc EXCEPT ![w] = "none"] /\ kind' = [kind EXCEPT ![w] = "auto"]
  /\ index' = [index EXCEPT ![w] = 0]
  /\ best' = [best EXCEPT ![w] = NoBest] /\ published' = [published EXCEPT ![w] = 0]

To(w, next) == pc' = [pc EXCEPT ![w] = next] /\ UNCHANGED <<ctlVars, walkVars>>

Sets(w, k, v, next) ==
  /\ \/ SetterReturnsNil(k, v) /\ To(w, next)
     \/ SetterFails(k, v) /\ Ends(w, "failed")
  /\ UNCHANGED <<limit, app, shown, key>>

\* Auto-tune starts with the other two stages.
PinsMixer(w) == pc[w] = "pinMixer" /\ Sets(w, "mixer", Top, "pinVGA")
PinsVGA(w) == pc[w] = "pinVGA" /\ Sets(w, "vga", Top, "check")

Checks(w) ==
  /\ pc[w] = "check"
  /\ IF CtxDone(w) THEN Ends(w, "failed") ELSE To(w, "lna")
  /\ UNCHANGED <<limit, app, chipVars, shown, key>>

\* applyGainCell, of which auto-tune has the first part only.
SetsLNA(w) ==
  /\ pc[w] = "lna"
  /\ Sets(w, "lna", Target(w)["lna"], IF kind[w] = "auto" THEN "show" ELSE "mixer")
SetsMixer(w) == pc[w] = "mixer" /\ Sets(w, "mixer", Target(w)["mixer"], "vga")
SetsVGA(w) == pc[w] = "vga" /\ Sets(w, "vga", Target(w)["vga"], "show")

\* Seeded bug: auto-tune shows its LNA step in the gain it started from.
ShowsOneStage(w) ==
  /\ pc[w] = "show"
  /\ shown' = IF kind[w] = "auto" THEN [shown EXCEPT !["lna"] = Target(w)["lna"]]
              ELSE Target(w)
  /\ IF Applying(w) THEN Ends(w, "ok") ELSE To(w, "settle")
  /\ UNCHANGED <<limit, app, chipVars, key>>

\* setGain; a sweep that has applied its best cell is done then.
Shows(w) ==
  /\ pc[w] = "show"
  /\ shown' = Target(w)
  /\ IF Applying(w) THEN Ends(w, "ok") ELSE To(w, "settle")
  /\ UNCHANGED <<limit, app, chipVars, key>>

\* Seeded bug: a frame that is there already is taken without the delay.
SettleSkipped(w) ==
  /\ pc[w] = "settle" /\ pc' = [pc EXCEPT ![w] = "poll"]
  /\ published' = [published EXCEPT ![w] = 0]
  /\ UNCHANGED <<limit, app, chipVars, shown, key, ctlVars, kind, index, best, late>>

\* waitForFreshFrame: the settle delay, which does not depend on the frames, ...
SettleEnds(w) ==
  /\ pc[w] = "settle" /\ pc' = [pc EXCEPT ![w] = "poll"]
  /\ published' = [published EXCEPT ![w] = 0]
  /\ late' = IF published[w] < Settle THEN late \cup {w} ELSE late
  /\ UNCHANGED <<limit, app, chipVars, shown, key, ctlVars, kind, index, best>>

\* Seeded bug: the poll has no timeout.
PollWaits(w) ==
  /\ pc[w] = "poll" /\ published[w] > 0
  /\ pc' = [pc EXCEPT ![w] = "judge"]
  /\ published' = [published EXCEPT ![w] = 0]
  /\ UNCHANGED <<limit, app, chipVars, shown, key, ctlVars, kind, index, best, late>>

\* ... then the next frame or the timeout, ...
PollEnds(w) ==
  /\ pc[w] = "poll" /\ pc' = [pc EXCEPT ![w] = "judge"]
  /\ published' = [published EXCEPT ![w] = 0]
  /\ late' = IF published[w] = 0 THEN late \cup {w} ELSE late
  /\ UNCHANGED <<limit, app, chipVars, shown, key, ctlVars, kind, index, best>>

\* ... or the context.
WaitCancelled(w) ==
  /\ pc[w] \in {"settle", "poll"} /\ CtxDone(w)
  /\ Ends(w, "failed")
  /\ UNCHANGED <<limit, app, chipVars, shown, key>>

\* What the latest frame may say of the cell.
Readings == IF latest = "fresh" THEN {Level(chip)} ELSE 0..(3 * Top)
Result(w, n) == [cell |-> Target(w), quiet |-> n <= limit, level |-> n]

NextCell(w) ==
  /\ index' = [index EXCEPT ![w] = @ + 1]
  /\ UNCHANGED <<ctlVars, kind, published, late>>

AutoConverges(w) ==
  /\ pc[w] = "judge" /\ kind[w] = "auto"
  /\ (\E n \in Readings : n <= limit) \/ Target(w)["lna"] = 0
  /\ Ends(w, "ok")
  /\ UNCHANGED <<limit, app, chipVars, shown, key>>

AutoStepsDown(w) ==
  /\ pc[w] = "judge" /\ kind[w] = "auto"
  /\ (\E n \in Readings : n > limit) /\ Target(w)["lna"] > 0
  /\ pc' = [pc EXCEPT ![w] = "check"] /\ NextCell(w)
  /\ UNCHANGED <<limit, app, chipVars, shown, key, best>>

\* Seeded bug: a louder cell is better, saturated or not.
BetterIsLouder(r, b) == b = NoBest \/ r.level > b.level

\* isBetterCell
Better(r, b) ==
  \/ b = NoBest
  \/ r.quiet /\ ~b.quiet
  \/ r.quiet /\ b.quiet /\ r.level > b.level
  \/ ~r.quiet /\ ~b.quiet /\ r.level < b.level

\* The last cell of the grid leads to applyGainCell, without a look at the context.
SweepJudges(w) ==
  /\ pc[w] = "judge" /\ kind[w] = "sweep"
  /\ \E n \in Readings : best' =
       [best EXCEPT ![w] = IF Better(Result(w, n), @) THEN Result(w, n) ELSE @]
  /\ pc' = [pc EXCEPT ![w] = IF index[w] + 1 = Cells THEN "lna" ELSE "check"]
  /\ NextCell(w)
  /\ UNCHANGED <<limit, app, chipVars, shown, key>>

Walk(w) ==
  \/ PinsMixer(w) \/ PinsVGA(w) \/ Checks(w)
  \/ SetsLNA(w) \/ SetsMixer(w) \/ SetsVGA(w) \/ Shows(w)
  \/ SettleEnds(w) \/ PollEnds(w) \/ WaitCancelled(w)
  \/ AutoConverges(w) \/ AutoStepsDown(w) \/ SweepJudges(w)

KeyThread ==
  \/ \E k \in Kinds : CancelKey(k) \/ \E w \in Walkers : StartKey(k, w)
  \/ \E k \in Stages : GainKey(k)
  \/ KeySets \/ KeyShows \/ QuitKey

Next ==
  \/ FrameBegins \/ FrameFails \/ FramePublished
  \/ KeyThread \/ Interrupt
  \/ \E w \in Walkers : Walk(w)

Spec == Init /\ [][Next]_vars

\* A walker is scheduled and its timers fire.  Nothing is assumed of the sampler.
FairSpec == Spec /\ WF_vars(\E w \in Walkers : Walk(w))
----------------------------------------------------------------------------
(* Properties.                                                             *)

SetterPlaces == {"pinMixer", "pinVGA", "lna", "mixer", "vga"}
AtSetter(w) == pc[w] \in SetterPlaces

\* At most one goroutine is in a setter of the receiver (tui.go:524, 286): the
\* bridge to the tuner does not bear two.
OneSetter ==
  /\ \A v, w \in Walkers : AtSetter(v) /\ AtSetter(w) => v = w
  /\ key.at = "set" => \A w \in Walkers : ~AtSetter(w)

\* When no key and no walk is in progress and none has failed, the footer shows
\* what the chip is set to (tui.go:242), in every stage whose last setter was
\* acknowledged.
FooterMatches ==
  key.at = "none" /\ (\A k \in Kinds : outcome[k] = "ok") =>
    \A k \in known : shown[k] = chip[k]

\* What a cell is judged by was captured after it was set (tui.go:816), unless
\* the frames were too slow.
JudgesFreshFrames ==
  \A w \in Walkers : pc[w] = "judge" /\ w \notin late => latest = "fresh"

\* The best a walk can find: the most gain that does not overload, else the least.
Finds(S) ==
  LET quiet == {Level(c) : c \in S} \cap {n \in 0..(3 * Top) : n <= limit} IN
  IF quiet # {} THEN Level(chip) \in quiet /\ \A n \in quiet : n <= Level(chip)
  ELSE \A c \in S : Level(chip) <= Level(c)

\* A walk that completes, and whose frames kept up, leaves the chip at the best
\* of its cells (tui.go:752, 999).
CompletedBest ==
  [][\A w \in Walkers, k \in Kinds :
       /\ pc[w] # "none" /\ kind[w] = k /\ pc'[w] = "none" /\ w \notin late
       /\ outcome'[k] = "ok"
       => Finds({Cell(k, i) : i \in 0..(IF k = "auto" THEN Top ELSE Cells - 1)})']_vars

\* Whatever becomes of the stream, a walk ends (tui.go:819).
WalkEnds == ~NobodyRuns ~> NobodyRuns
=============================================================================
