--------------------------- MODULE ProbeTuiProofs ---------------------------
(***************************************************************************)
(* The terminal UI, for any number of goroutines, any ladder, grid and     *)
(* antenna: never two goroutines in the receiver's setters, a settle delay *)
(* that covers the frames under way makes every verdict fresh, the footer  *)
(* shows the chip, and a walk that completes leaves the best of its cells.  *)
(***************************************************************************)
EXTENDS ProbeTui, TLAPS

Places == {"none", "pinMixer", "pinVGA", "check", "lna", "mixer", "vga",
           "show", "settle", "poll", "judge"}
\* The walk that is displayed as running is the only one there is, and while a
\* gain key is being handled there is none.
OwnInv ==
  /\ pc \in [Walkers -> Places] /\ kind \in [Walkers -> Kinds]
  /\ outcome \in [Kinds -> {"ok", "running", "failed"}]
  /\ \A w \in Walkers : pc[w] # "none" => outcome[kind[w]] = "running"
  /\ \A v, w \in Walkers : pc[v] # "none" /\ pc[w] # "none" => v = w
  /\ key.at # "none" => NobodyRuns

\* The frames under way are counted right, and after Settle publications there
\* is no stale one among them.
FrameInv ==
  /\ frames \in [stale : Nat, fresh : Nat] /\ frames.stale + frames.fresh <= Ahead
  /\ published \in [Walkers -> 0..Settle] /\ late \subseteq Walkers
  /\ \A w \in Walkers :
       /\ pc[w] \notin {"settle", "poll"} => published[w] = 0
       /\ pc[w] = "settle" => frames.stale + published[w] <= Ahead \/ frames.stale = 0
       /\ pc[w] \in {"poll", "judge"} /\ w \notin late => frames.stale = 0
       /\ pc[w] = "poll" /\ w \notin late => published[w] = 0 \/ latest = "fresh"
       /\ pc[w] = "judge" /\ w \notin late => latest = "fresh"
----------------------------------------------------------------------------
(* Who owns the setters.                                                   *)

LEMMA OwnInit == Init => OwnInv
BY DEF Init, OwnInv, Places, Kinds, NoKey, NobodyRuns

\* A step of a walker moves it on or ends it.
Moves(w) ==
  /\ \E p \in Places \ {"none"} : pc' = [pc EXCEPT ![w] = p]
  /\ UNCHANGED <<outcome, kind>>
Quits(w) == \E r \in {"ok", "failed"} : Ends(w, r)

LEMMA WalkShape ==
  ASSUME NEW w \in Walkers, Walk(w)
  PROVE  pc[w] # "none" /\ key' = key /\ (Moves(w) \/ Quits(w))
<1>1. ASSUME NEW k, NEW v, NEW n \in Places \ {"none"}, Sets(w, k, v, n)
      PROVE  key' = key /\ (Moves(w) \/ Quits(w))
  BY <1>1 DEF Sets, To, Moves, Quits, ctlVars, walkVars
<1>2. CASE PinsMixer(w) \/ PinsVGA(w)
  BY <1>1, <1>2 DEF PinsMixer, PinsVGA, Places
<1>3. CASE SetsLNA(w) \/ SetsMixer(w) \/ SetsVGA(w)
  BY <1>1, <1>3 DEF SetsLNA, SetsMixer, SetsVGA, Places
<1>4. CASE Checks(w) \/ Shows(w)
  BY <1>4 DEF Checks, Shows, To, Moves, Quits, Places, ctlVars, walkVars
<1>5. CASE SettleEnds(w) \/ PollEnds(w)
  BY <1>5 DEF SettleEnds, PollEnds, Moves, Places, ctlVars
<1>6. CASE WaitCancelled(w) \/ AutoConverges(w)
  BY <1>6 DEF WaitCancelled, AutoConverges, Quits
<1>7. CASE AutoStepsDown(w) \/ SweepJudges(w)
  BY <1>7 DEF AutoStepsDown, SweepJudges, NextCell, Moves, Places, ctlVars
<1>8. QED
  BY <1>2, <1>3, <1>4, <1>5, <1>6, <1>7 DEF Walk

LEMMA OwnWalk ==
  ASSUME OwnInv, NEW w \in Walkers, Walk(w)
  PROVE  OwnInv'
<1>1. pc[w] # "none" /\ key' = key
  BY WalkShape
<1>2. CASE Moves(w)
  BY <1>1, <1>2 DEF Moves, OwnInv, NobodyRuns
<1>3. CASE Quits(w)
  <2>1. \A v \in Walkers : pc'[v] = "none"
    BY <1>1, <1>3 DEF Quits, Ends, OwnInv
  <2>2. /\ pc' \in [Walkers -> Places] /\ kind' \in [Walkers -> Kinds]
        /\ outcome' \in [Kinds -> {"ok", "running", "failed"}]
    BY <1>3 DEF Quits, Ends, OwnInv, Places, Kinds
  <2>3. key'.at = "none"
    BY <1>1 DEF OwnInv, NobodyRuns
  <2>4. QED
    BY <2>1, <2>2, <2>3 DEF OwnInv
<1>4. QED
  BY <1>2, <1>3, WalkShape

LEMMA OwnStart ==
  ASSUME OwnInv, NEW k \in Kinds, NEW w \in Walkers, StartKey(k, w)
  PROVE  OwnInv'
<1>1. \A v \in Walkers : pc[v] = "none"
  BY DEF StartKey, OwnInv, NobodyRuns
<1>2. key'.at = "none"
  BY DEF StartKey, TakesKeys
<1>3. QED
  BY <1>1, <1>2 DEF StartKey, OwnInv, Places, chipVars

\* What the others do with the display's status: nothing, or they look at it first.
LEMMA OwnOthers ==
  ASSUME OwnInv, UNCHANGED <<pc, kind, outcome>>,
         key' = key \/ NobodyRuns \/ key.at # "none"
  PROVE  OwnInv'
BY DEF OwnInv, NobodyRuns

LEMMA OwnStep == OwnInv /\ [Next]_vars => OwnInv'
<1> SUFFICES ASSUME OwnInv, [Next]_vars PROVE OwnInv'
  OBVIOUS
<1>1. CASE FrameBegins \/ FrameFails \/ FramePublished \/ Interrupt \/ QuitKey
  BY <1>1, OwnOthers DEF FrameBegins, FrameFails, FramePublished, Interrupt, QuitKey, ctlVars, walkVars
<1>2. ASSUME NEW k \in Kinds, CancelKey(k) PROVE OwnInv'
  BY <1>2, OwnOthers DEF CancelKey, walkVars
<1>3. ASSUME NEW k \in Kinds, NEW w \in Walkers, StartKey(k, w) PROVE OwnInv'
  BY <1>3, OwnStart
<1>4. ASSUME NEW s \in Stages, GainKey(s) PROVE OwnInv'
  BY <1>4, OwnOthers DEF GainKey, ctlVars, walkVars
<1>5. CASE KeySets \/ KeyShows
  BY <1>5, OwnOthers DEF KeySets, KeyShows, ctlVars, walkVars
<1>6. ASSUME NEW w \in Walkers, Walk(w) PROVE OwnInv'
  BY <1>6, OwnWalk
<1>7. CASE UNCHANGED vars
  BY <1>7, OwnOthers DEF vars, ctlVars, walkVars
<1>8. QED
  BY <1>1, <1>2, <1>3, <1>4, <1>5, <1>6, <1>7 DEF Next, KeyThread

\* However keys, walks, failures and cancellations interleave, at most one
\* goroutine is in a setter of the receiver (tui.go:524): what the tuner's
\* bridge and shadow rely on.
THEOREM SettersExclude == Spec => []OneSetter
<1>1. OwnInv => OneSetter
  BY DEF OwnInv, OneSetter, AtSetter, SetterPlaces, NobodyRuns
<1>2. QED
  BY <1>1, OwnInit, OwnStep, PTL DEF Spec
----------------------------------------------------------------------------
(* Which frames a cell is judged by.                                       *)

LEMMA FrameInit == Init => FrameInv
BY TuiAssumption DEF Init, FrameInv

\* The sampler.
LEMMA FrameSampler ==
  ASSUME FrameInv, FrameBegins \/ FrameFails \/ FramePublished
  PROVE  FrameInv'
<1>1. CASE FrameBegins
  <2>1. /\ frames' \in [stale : Nat, fresh : Nat]
        /\ frames'.stale = frames.stale /\ frames'.fresh = frames.fresh + 1
    BY <1>1 DEF FrameBegins, FrameInv
  <2>2. frames'.stale + frames'.fresh <= Ahead
    BY <1>1, <2>1, TuiAssumption DEF FrameBegins, FrameInv
  <2>3. QED
    BY <1>1, <2>1, <2>2 DEF FrameBegins, FrameInv, walkVars
<1>2. CASE FrameFails
  <2>1. /\ frames' \in [stale : Nat, fresh : Nat]
        /\ frames'.stale <= frames.stale /\ frames'.fresh <= frames.fresh
    BY <1>2 DEF FrameFails, FrameInv
  <2>2. /\ frames'.stale + frames'.fresh <= Ahead
        /\ frames.stale = 0 => frames'.stale = 0
    BY <2>1, TuiAssumption DEF FrameInv
  <2>3. \A w \in Walkers : pc[w] = "settle" =>
          frames'.stale + published[w] <= Ahead \/ frames'.stale = 0
    BY <2>1, TuiAssumption DEF FrameInv
  <2>4. QED
    BY <1>2, <2>1, <2>2, <2>3 DEF FrameFails, FrameInv, walkVars
<1>3. CASE FramePublished
  BY <1>3, TuiAssumption DEF FramePublished, FrameInv
<1>4. QED
  BY <1>1, <1>2, <1>3

\* A setter makes what is under way stale; nobody is waiting then.
LEMMA FrameSetter ==
  ASSUME FrameInv, NEW k, NEW v, SetterReturnsNil(k, v) \/ SetterFails(k, v)
  PROVE  /\ frames' \in [stale : Nat, fresh : Nat]
         /\ frames'.stale + frames'.fresh <= Ahead
BY DEF FrameInv, SetterReturnsNil, SetterFails, Turns, chipVars

LEMMA FrameKeySets == ASSUME OwnInv, FrameInv, KeySets PROVE FrameInv'
<1>1. \A w \in Walkers : pc[w] = "none"
  BY DEF KeySets, OwnInv, NobodyRuns
<1>2. /\ frames' \in [stale : Nat, fresh : Nat]
      /\ frames'.stale + frames'.fresh <= Ahead
  BY FrameSetter DEF KeySets
<1>3. QED
  BY <1>1, <1>2 DEF KeySets, FrameInv, walkVars

\* A walker that ends leaves nobody behind.
LEMMA FrameEnds ==
  ASSUME OwnInv, FrameInv, NEW w \in Walkers, NEW r, pc[w] # "none", Ends(w, r),
         frames' \in [stale : Nat, fresh : Nat],
         frames'.stale + frames'.fresh <= Ahead
  PROVE  FrameInv'
<1>1. \A v \in Walkers : pc'[v] = "none"
  BY DEF Ends, OwnInv
<1>2. \A v \in Walkers \ {w} : published'[v] = 0
  BY DEF Ends, OwnInv, FrameInv
<1>3. QED
  BY <1>1, <1>2, TuiAssumption DEF Ends, FrameInv

LEMMA FrameSets ==
  ASSUME OwnInv, FrameInv, NEW w \in Walkers, NEW k, NEW v, NEW n \in {"pinVGA", "check", "show", "mixer", "vga"},
         pc[w] \in SetterPlaces, Sets(w, k, v, n)
  PROVE  FrameInv'
<1>1. /\ frames' \in [stale : Nat, fresh : Nat]
      /\ frames'.stale + frames'.fresh <= Ahead
  BY FrameSetter DEF Sets
<1>2. CASE Ends(w, "failed")
  BY <1>1, <1>2, FrameEnds DEF SetterPlaces
<1>3. CASE To(w, n)
  <2>1. \A u \in Walkers : pc'[u] \notin {"settle", "poll", "judge"} /\ published'[u] = 0
    BY <1>3 DEF To, OwnInv, FrameInv, SetterPlaces, walkVars
  <2>2. QED
    BY <1>1, <1>3, <2>1 DEF To, FrameInv, walkVars
<1>4. QED
  BY <1>2, <1>3 DEF Sets

LEMMA FrameWalk ==
  ASSUME Settle >= Ahead, OwnInv, FrameInv, NEW w \in Walkers, Walk(w)
  PROVE  FrameInv'
<1>1. CASE PinsMixer(w) \/ PinsVGA(w) \/ SetsLNA(w) \/ SetsMixer(w) \/ SetsVGA(w)
  BY <1>1, FrameSets DEF PinsMixer, PinsVGA, SetsLNA, SetsMixer, SetsVGA, SetterPlaces
<1>2. ASSUME NEW r, Ends(w, r), UNCHANGED chipVars, pc[w] # "none" PROVE FrameInv'
  BY <1>2, FrameEnds DEF FrameInv, chipVars
<1>3. ASSUME NEW p \in {"lna", "settle"}, To(w, p), UNCHANGED chipVars, pc[w] \in {"check", "show"}
      PROVE  FrameInv'
  <2>1. published[w] = 0 /\ frames.stale + 0 <= Ahead
    BY <1>3, TuiAssumption DEF FrameInv
  <2>2. \A v \in Walkers \ {w} : pc'[v] = pc[v]
    BY <1>3 DEF To, OwnInv
  <2>3. pc'[w] = p
    BY <1>3 DEF To, OwnInv
  <2>4. QED
    BY <1>3, <2>1, <2>2, <2>3 DEF To, FrameInv, chipVars, walkVars
<1>4. CASE Checks(w) \/ Shows(w)
  BY <1>2, <1>3, <1>4 DEF Checks, Shows, chipVars
<1>5. CASE SettleEnds(w)
  BY <1>5, TuiAssumption DEF SettleEnds, FrameInv, OwnInv, chipVars
<1>6. CASE PollEnds(w)
  BY <1>6, TuiAssumption DEF PollEnds, FrameInv, OwnInv, chipVars
<1>7. CASE WaitCancelled(w) \/ AutoConverges(w)
  BY <1>2, <1>7 DEF WaitCancelled, AutoConverges
<1>8. CASE AutoStepsDown(w) \/ SweepJudges(w)
  BY <1>8 DEF AutoStepsDown, SweepJudges, NextCell, FrameInv, OwnInv, chipVars
<1>9. QED
  BY <1>1, <1>4, <1>5, <1>6, <1>7, <1>8 DEF Walk

LEMMA FrameStart ==
  ASSUME FrameInv, NEW k \in Kinds, NEW w \in Walkers, StartKey(k, w), OwnInv
  PROVE  FrameInv'
BY DEF StartKey, FirstFree, FrameInv, OwnInv, chipVars

\* Steps that touch neither frames nor walkers.
LEMMA FrameOthers ==
  ASSUME FrameInv, UNCHANGED <<chipVars, pc, walkVars>> PROVE FrameInv'
BY DEF FrameInv, chipVars, walkVars

LEMMA FrameStep ==
  ASSUME Settle >= Ahead
  PROVE  OwnInv /\ FrameInv /\ [Next]_vars => FrameInv'
<1> SUFFICES ASSUME OwnInv, FrameInv, [Next]_vars PROVE FrameInv'
  OBVIOUS
<1>1. CASE FrameBegins \/ FrameFails \/ FramePublished
  BY <1>1, FrameSampler
<1>2. CASE Interrupt \/ QuitKey \/ KeyShows
  BY <1>2, FrameOthers DEF Interrupt, QuitKey, KeyShows
<1>3. ASSUME NEW k \in Kinds, CancelKey(k) PROVE FrameInv'
  BY <1>3, FrameOthers DEF CancelKey
<1>4. ASSUME NEW k \in Kinds, NEW w \in Walkers, StartKey(k, w) PROVE FrameInv'
  BY <1>4, FrameStart
<1>5. ASSUME NEW s \in Stages, GainKey(s) PROVE FrameInv'
  BY <1>5, FrameOthers DEF GainKey
<1>6. CASE KeySets
  BY <1>6, FrameKeySets
<1>7. ASSUME NEW w \in Walkers, Walk(w) PROVE FrameInv'
  BY <1>7, FrameWalk
<1>8. CASE UNCHANGED vars
  BY <1>8, FrameOthers DEF vars
<1>9. QED
  BY <1>1, <1>2, <1>3, <1>4, <1>5, <1>6, <1>7, <1>8 DEF Next, KeyThread

\* If as many frames are published during the settle delay as can be under way
\* when it begins, a walker that did not time out judges its cell by a frame
\* captured after it was set (tui.go:816).
THEOREM FreshVerdicts == ASSUME Settle >= Ahead PROVE Spec => []JudgesFreshFrames
<1>1. FrameInv => JudgesFreshFrames
  BY DEF FrameInv, JudgesFreshFrames
<1>2. QED
  BY <1>1, OwnInit, OwnStep, FrameInit, FrameStep, PTL DEF Spec
----------------------------------------------------------------------------
(* The footer.                                                             *)

IsGain(g) == g = [s \in Stages |-> g[s]]

ShapeInv ==
  /\ IsGain(chip) /\ IsGain(shown) /\ known \subseteq Stages
  /\ key = [at |-> key.at, stage |-> key.stage, next |-> key.next]
  /\ key.at \in {"none", "set", "show"} /\ key.stage \in Stages /\ IsGain(key.next)
  /\ best = [w \in Walkers |-> best[w]] /\ \A w \in Walkers : IsGain(best[w].cell)

AllOk == \A k \in Kinds : outcome[k] = "ok"
Match(g) == \A s \in known : g[s] = chip[s]

\* What the handler of a gain key is about to show is the display with its stage
\* replaced, and after the setter it is the chip.
KeyInv ==
  /\ key.at # "show" /\ AllOk => Match(shown)
  /\ key.at = "show" /\ AllOk => Match(key.next)
  /\ key.at = "set" => \A s \in Stages \ {key.stage} : key.next[s] = shown[s]

\* The stages a walker has set so far for its present cell are on the chip: a
\* walk whose setter failed has ended.
WalkerInv(w) ==
  /\ pc[w] \in {"pinMixer", "pinVGA"} => kind[w] = "auto"
  /\ kind[w] = "auto" =>
       /\ pc[w] \notin {"mixer", "vga"}
       /\ pc[w] \notin {"none", "pinMixer"} => chip["mixer"] = Top
       /\ pc[w] \notin {"none", "pinMixer", "pinVGA"} => chip["vga"] = Top
  /\ pc[w] \in {"mixer", "vga", "show", "settle", "poll", "judge"} => chip["lna"] = Target(w)["lna"]
  /\ pc[w] \in {"vga", "show", "settle", "poll", "judge"} => chip["mixer"] = Target(w)["mixer"]
  /\ pc[w] \in {"show", "settle", "poll", "judge"} => chip["vga"] = Target(w)["vga"]
  /\ pc[w] \in {"settle", "poll", "judge"} => shown = Target(w)

FootInv == ShapeInv /\ KeyInv /\ \A w \in Walkers : WalkerInv(w)

LEMMA FootInit == Init => FootInv
<1> SUFFICES ASSUME Init PROVE FootInv
  OBVIOUS
<1>1. IsGain(StartGain) /\ IsGain(NoBest.cell) /\ IsGain(chip)
  BY DEF Init, IsGain, StartGain, NoBest, Gains
<1>2. ShapeInv
  BY <1>1 DEF Init, ShapeInv, NoKey, Stages
<1>3. KeyInv
  BY DEF Init, KeyInv, Match, NoKey
<1>4. \A w \in Walkers : WalkerInv(w)
  BY DEF Init, WalkerInv
<1> QED
  BY <1>2, <1>3, <1>4 DEF FootInv

LEMMA OneStageSet ==
  ASSUME NEW g, IsGain(g), NEW k \in Stages, NEW v
  PROVE  /\ IsGain([g EXCEPT ![k] = v]) /\ [g EXCEPT ![k] = v][k] = v
         /\ \A s \in Stages \ {k} : [g EXCEPT ![k] = v][s] = g[s]
BY DEF IsGain

LEMMA TargetIsGain ==
  ASSUME ShapeInv, NEW w \in Walkers PROVE IsGain(Target(w))
<1>1. IsGain(best[w].cell)
  BY DEF ShapeInv
<1>2. IsGain(StartGain) /\ "lna" \in Stages
  BY DEF IsGain, StartGain, Stages
<1>3. IsGain([StartGain EXCEPT !["lna"] = Top - index[w]])
  BY <1>2, OneStageSet
<1>4. IsGain(SweepCell(index[w]))
  <2> DEFINE step(s) == CASE s = "lna" -> Grid[index[w] \div (Side * Side)]
                          [] s = "mixer" -> Grid[(index[w] \div Side) % Side]
                          [] s = "vga" -> Grid[index[w] % Side]
  <2>1. SweepCell(index[w]) = [s \in Stages |-> step(s)]
    BY DEF SweepCell
  <2> HIDE DEF step
  <2> QED  BY <2>1 DEF IsGain
<1> QED
  BY <1>1, <1>3, <1>4 DEF Target, Cell

\* Auto-tune moves the LNA only.
LEMMA AutoTarget ==
  ASSUME NEW w \in Walkers, kind[w] = "auto"
  PROVE  ~Applying(w) /\ Target(w)["mixer"] = Top /\ Target(w)["vga"] = Top
BY DEF Target, Applying, Cell, StartGain, Stages

LEMMA TargetStays ==
  ASSUME UNCHANGED <<kind, index, best>>, NEW w \in Walkers PROVE Target(w)' = Target(w)
BY DEF Target, Applying

\* What a setter does to one stage.
LEMMA SetterChip ==
  ASSUME ShapeInv, NEW k \in Stages, NEW v, SetterReturnsNil(k, v) \/ SetterFails(k, v)
  PROVE  /\ IsGain(chip') /\ known' \subseteq Stages
         /\ \A s \in Stages \ {k} : chip'[s] = chip[s] /\ (s \in known' <=> s \in known)
         /\ SetterReturnsNil(k, v) => chip'[k] = v
         /\ SetterFails(k, v) => k \notin known' \/ (chip'[k] = chip[k] /\ k \in known)
<1>1. /\ IsGain([chip EXCEPT ![k] = v]) /\ [chip EXCEPT ![k] = v][k] = v
      /\ \A s \in Stages \ {k} : [chip EXCEPT ![k] = v][s] = chip[s]
  BY DEF ShapeInv, IsGain
<1>2. SetterReturnsNil(k, v) => chip' = [chip EXCEPT ![k] = v] /\ known' = known \cup {k}
  BY DEF SetterReturnsNil, Turns
<1>3. SetterFails(k, v) => \/ chip' = chip /\ known' = known
                           \/ chip' = [chip EXCEPT ![k] = v] /\ known' = known \ {k}
  BY DEF SetterFails, Turns, chipVars
<1>4. IsGain(chip) /\ known \subseteq Stages
  BY DEF ShapeInv
<1>5. CASE SetterReturnsNil(k, v) /\ ~SetterFails(k, v)
  BY <1>1, <1>2, <1>5, <1>4
<1>6. CASE SetterFails(k, v) /\ ~SetterReturnsNil(k, v)
  BY <1>1, <1>3, <1>4, <1>6
<1>7. CASE SetterFails(k, v) /\ SetterReturnsNil(k, v)
  BY <1>1, <1>2, <1>3, <1>4, <1>7
<1> QED
  BY <1>5, <1>6, <1>7

\* With no walker there is nothing to keep of the walks.
LEMMA NoWalker ==
  ASSUME NEW w \in Walkers, pc'[w] = "none" PROVE WalkerInv(w)'
BY DEF WalkerInv

\* Nothing of the footer is touched.
LEMMA FootOthers ==
  ASSUME FootInv,
         UNCHANGED <<chip, known, shown, key, outcome, pc, kind, index, best>>
  PROVE  FootInv'
<1>1. ShapeInv'
  BY DEF FootInv, ShapeInv
<1>2. KeyInv'
  BY DEF FootInv, KeyInv, AllOk, Match
<1>3. \A w \in Walkers : WalkerInv(w)'
  BY TargetStays DEF FootInv, WalkerInv
<1> QED
  BY <1>1, <1>2, <1>3 DEF FootInv

LEMMA FootStarts ==
  ASSUME OwnInv, FootInv, NEW k \in Kinds, NEW w \in Walkers, StartKey(k, w)
  PROVE  FootInv'
<1>1. \A v \in Walkers : pc[v] = "none"
  BY DEF StartKey, OwnInv, NobodyRuns
<1>2. ShapeInv'
  BY DEF StartKey, chipVars, FootInv, ShapeInv
<1>3. KeyInv'
  BY DEF StartKey, TakesKeys, OwnInv, KeyInv, AllOk
<1>4. WalkerInv(w)'
  BY DEF StartKey, OwnInv, WalkerInv, Kinds
<1>5. \A v \in Walkers \ {w} : WalkerInv(v)'
  BY <1>1, NoWalker DEF StartKey, OwnInv
<1> QED
  BY <1>2, <1>3, <1>4, <1>5 DEF FootInv

\* While a key is handled there is no walker.
LEMMA FootKeys ==
  ASSUME OwnInv, FootInv, (\E s \in Stages : GainKey(s)) \/ KeySets \/ KeyShows
  PROVE  FootInv'
<1>1. \A w \in Walkers : WalkerInv(w)'
  <2>1. NobodyRuns /\ pc' = pc
    BY DEF GainKey, KeySets, KeyShows, OwnInv
  <2> QED  BY <2>1, NoWalker DEF NobodyRuns, OwnInv
<1>2. ASSUME NEW s \in Stages, GainKey(s) PROVE ShapeInv' /\ KeyInv'
  <2>1. PICK v : key' = [at |-> "set", stage |-> s, next |-> [shown EXCEPT ![s] = v]]
    BY <1>2 DEF GainKey
  <2>2. /\ IsGain([shown EXCEPT ![s] = v])
        /\ \A t \in Stages \ {s} : [shown EXCEPT ![s] = v][t] = shown[t]
    BY DEF FootInv, ShapeInv, IsGain
  <2>3. UNCHANGED <<chip, known, shown, outcome, best>> /\ key.at = "none"
    BY <1>2 DEF GainKey, TakesKeys, chipVars, ctlVars, walkVars
  <2>4. /\ key'.at = "set" /\ key'.stage = s /\ key'.next = [shown EXCEPT ![s] = v]
    BY <2>1
  <2>5. ShapeInv'
    BY <2>1, <2>2, <2>3, <2>4 DEF FootInv, ShapeInv
  <2>6. KeyInv'
    BY <2>2, <2>3, <2>4 DEF FootInv, KeyInv, AllOk, Match
  <2> QED  BY <2>5, <2>6
<1>3. CASE KeySets
  <2> DEFINE k == key.stage
             v == key.next[key.stage]
  <2>1. k \in Stages /\ IsGain(key.next) /\ ShapeInv
    BY DEF FootInv, ShapeInv
  <2>2. UNCHANGED <<shown, outcome, best>> /\ key.at = "set"
    BY <1>3 DEF KeySets, ctlVars, walkVars
  <2>3. CASE SetterReturnsNil(k, v) /\ key' = [key EXCEPT !.at = "show"]
    <3>1. /\ IsGain(chip') /\ known' \subseteq Stages /\ chip'[k] = v
          /\ \A s \in Stages \ {k} : chip'[s] = chip[s] /\ (s \in known' <=> s \in known)
      BY <2>1, <2>3, SetterChip
    <3>2. key'.at = "show" /\ key'.stage = k /\ key'.next = key.next
          /\ key' = [at |-> key'.at, stage |-> key'.stage, next |-> key'.next]
      BY <2>3 DEF FootInv, ShapeInv
    <3>3. ShapeInv'
      BY <2>1, <2>2, <3>1, <3>2 DEF ShapeInv
    <3>4. AllOk' => Match(key.next)'
      <4> SUFFICES ASSUME AllOk', NEW s \in known' PROVE key'.next[s] = chip'[s]
        BY DEF Match
      <4>1. AllOk
        BY <2>2 DEF AllOk
      <4>2. CASE s = k
        BY <3>1, <3>2, <4>2
      <4>3. CASE s # k
        <5>1. s \in Stages \ {k} /\ s \in known
          BY <3>1, <4>3
        <5>2. key.next[s] = shown[s] /\ shown[s] = chip[s]
          BY <2>2, <4>1, <5>1 DEF FootInv, KeyInv, Match
        <5> QED  BY <3>1, <3>2, <5>1, <5>2
      <4> QED  BY <4>2, <4>3
    <3>5. KeyInv'
      BY <3>2, <3>4 DEF KeyInv
    <3> QED  BY <1>1, <3>3, <3>5 DEF FootInv
  <2>4. CASE SetterFails(k, v) /\ key' = NoKey
    <3>1. /\ IsGain(chip') /\ known' \subseteq Stages
          /\ \A s \in Stages \ {k} : chip'[s] = chip[s] /\ (s \in known' <=> s \in known)
          /\ k \notin known' \/ (chip'[k] = chip[k] /\ k \in known)
      BY <2>1, <2>4, SetterChip
    <3>2. /\ key'.at = "none" /\ key'.stage = "lna" /\ key'.next = StartGain
          /\ key' = [at |-> key'.at, stage |-> key'.stage, next |-> key'.next]
          /\ IsGain(StartGain) /\ "lna" \in Stages
      BY <2>4 DEF NoKey, IsGain, StartGain, Stages
    <3>3. ShapeInv'
      BY <2>1, <2>2, <3>1, <3>2 DEF ShapeInv
    <3>4. AllOk' => Match(shown)'
      <4> SUFFICES ASSUME AllOk', NEW s \in known' PROVE shown'[s] = chip'[s]
        BY DEF Match
      <4>1. AllOk
        BY <2>2 DEF AllOk
      <4>2. s \in known /\ chip'[s] = chip[s]
        BY <3>1
      <4> QED  BY <2>2, <4>1, <4>2 DEF FootInv, KeyInv, Match
    <3>5. KeyInv'
      BY <3>2, <3>4 DEF KeyInv
    <3> QED  BY <1>1, <3>3, <3>5 DEF FootInv
  <2> QED  BY <1>3, <2>3, <2>4 DEF KeySets
<1>4. CASE KeyShows
  <2>1. /\ key.at = "show" /\ shown' = key.next /\ key' = NoKey
        /\ UNCHANGED <<chip, known, outcome, best>>
    BY <1>4 DEF KeyShows, chipVars, ctlVars, walkVars
  <2>2. /\ key'.at = "none" /\ key'.stage = "lna" /\ key'.next = StartGain
        /\ key' = [at |-> key'.at, stage |-> key'.stage, next |-> key'.next]
        /\ IsGain(StartGain) /\ "lna" \in Stages
    BY <2>1 DEF NoKey, IsGain, StartGain, Stages
  <2>3. ShapeInv'
    BY <2>1, <2>2 DEF FootInv, ShapeInv
  <2>4. AllOk' => Match(shown)'
    BY <2>1 DEF FootInv, KeyInv, AllOk, Match
  <2>5. KeyInv'
    BY <2>2, <2>4 DEF KeyInv
  <2> QED  BY <1>1, <2>3, <2>5 DEF FootInv
<1> QED
  BY <1>1, <1>2, <1>3, <1>4 DEF FootInv

\* A walker that ends has shown what is on the chip, or its walk has failed.
LEMMA FootQuits ==
  ASSUME OwnInv, FootInv, NEW w \in Walkers, pc[w] # "none",
         NEW r \in {"ok", "failed"}, Ends(w, r), key' = key,
         IsGain(chip'), IsGain(shown'), known' \subseteq Stages,
         r = "ok" => Match(shown)'
  PROVE  FootInv'
<1>1. IsGain(NoBest.cell)
  BY DEF IsGain, NoBest, StartGain
<1>2. /\ best' = [v \in Walkers |-> best'[v]] /\ best'[w] = NoBest
      /\ \A v \in Walkers \ {w} : best'[v] = best[v]
  BY DEF Ends, FootInv, ShapeInv
<1>3. \A v \in Walkers : IsGain(best'[v].cell)
  BY <1>1, <1>2 DEF FootInv, ShapeInv
<1>4. ShapeInv'
  BY <1>2, <1>3 DEF FootInv, ShapeInv
<1>5. key.at = "none"
  BY DEF OwnInv, NobodyRuns, FootInv, ShapeInv
<1>6. outcome'[kind[w]] = r /\ kind[w] \in Kinds
  BY DEF Ends, OwnInv
<1>7. KeyInv'
  BY <1>5, <1>6 DEF KeyInv, AllOk
<1>8. \A v \in Walkers : WalkerInv(v)'
  BY NoWalker DEF Ends, OwnInv
<1> QED
  BY <1>4, <1>7, <1>8 DEF FootInv

\* A walker that goes on is displayed as running, and is the only one.
LEMMA FootMoves ==
  ASSUME OwnInv, FootInv, NEW w \in Walkers, pc[w] # "none", NEW p,
         pc' = [pc EXCEPT ![w] = p], UNCHANGED <<outcome, kind, key>>,
         ShapeInv', WalkerInv(w)'
  PROVE  FootInv'
<1>1. key.at = "none"
  BY DEF OwnInv, NobodyRuns, FootInv, ShapeInv
<1>2. outcome'[kind[w]] = "running" /\ kind[w] \in Kinds
  BY DEF OwnInv
<1>3. KeyInv'
  BY <1>1, <1>2 DEF KeyInv, AllOk
<1>4. \A v \in Walkers \ {w} : pc'[v] = "none"
  BY DEF OwnInv
<1>5. \A v \in Walkers \ {w} : WalkerInv(v)'
  BY <1>4, NoWalker
<1> QED
  BY <1>3, <1>5 DEF FootInv

\* One stage of the chip is v, and the walker goes on to n.
SetsOne(w, k, v, n) ==
  /\ chip'[k] = v /\ \A s \in Stages \ {k} : chip'[s] = chip[s]
  /\ pc'[w] = n /\ kind'[w] = kind[w] /\ Target(w)' = Target(w) /\ shown' = shown

LEMMA FootSets ==
  ASSUME OwnInv, FootInv, NEW w \in Walkers, pc[w] # "none",
         NEW k \in Stages, NEW v, NEW n, Sets(w, k, v, n),
         SetsOne(w, k, v, n) => WalkerInv(w)'
  PROVE  FootInv'
<1>1. ShapeInv /\ IsGain(shown') /\ key' = key
  BY DEF FootInv, ShapeInv, Sets
<1>2. CASE SetterReturnsNil(k, v) /\ To(w, n)
  <2>1. /\ IsGain(chip') /\ known' \subseteq Stages /\ chip'[k] = v
        /\ \A s \in Stages \ {k} : chip'[s] = chip[s]
    BY <1>1, <1>2, SetterChip
  <2>2. /\ pc' = [pc EXCEPT ![w] = n] /\ UNCHANGED <<outcome, kind, index, best, shown>>
    BY <1>2 DEF To, Sets, ctlVars, walkVars
  <2>3. ShapeInv'
    BY <1>1, <2>1, <2>2 DEF ShapeInv
  <2>4. pc'[w] = n /\ Target(w)' = Target(w)
    BY <2>2, TargetStays DEF OwnInv
  <2>5. SetsOne(w, k, v, n)
    BY <2>1, <2>2, <2>4 DEF SetsOne
  <2> QED  BY <1>1, <2>2, <2>3, <2>5, FootMoves
<1>3. CASE SetterFails(k, v) /\ Ends(w, "failed")
  <2>1. IsGain(chip') /\ known' \subseteq Stages
    BY <1>1, <1>3, SetterChip
  <2> QED  BY <1>1, <1>3, <2>1, FootQuits
<1> QED
  BY <1>2, <1>3 DEF Sets

LEMMA FootSetters ==
  ASSUME OwnInv, FootInv, NEW w \in Walkers,
         PinsMixer(w) \/ PinsVGA(w) \/ SetsLNA(w) \/ SetsMixer(w) \/ SetsVGA(w)
  PROVE  FootInv'
<1>1. WalkerInv(w) /\ kind[w] \in Kinds /\ {"lna", "mixer", "vga"} \subseteq Stages
  BY DEF FootInv, OwnInv, Stages
<1>2. kind[w] = "auto" => Target(w)["mixer"] = Top /\ Target(w)["vga"] = Top
  BY AutoTarget
<1>3. CASE PinsMixer(w)
  <2>1. pc[w] # "none" /\ Sets(w, "mixer", Top, "pinVGA") /\ kind[w] = "auto"
    BY <1>1, <1>3 DEF PinsMixer, WalkerInv
  <2>2. SetsOne(w, "mixer", Top, "pinVGA") => WalkerInv(w)'
    BY <2>1 DEF SetsOne, WalkerInv
  <2> QED  BY <1>1, <2>1, <2>2, FootSets
<1>4. CASE PinsVGA(w)
  <2>1. /\ pc[w] # "none" /\ Sets(w, "vga", Top, "check") /\ kind[w] = "auto"
        /\ chip["mixer"] = Top
    BY <1>1, <1>4 DEF PinsVGA, WalkerInv
  <2>2. SetsOne(w, "vga", Top, "check") => WalkerInv(w)'
    BY <1>1, <2>1 DEF SetsOne, WalkerInv
  <2> QED  BY <1>1, <2>1, <2>2, FootSets
<1>5. CASE SetsLNA(w)
  <2> DEFINE n == IF kind[w] = "auto" THEN "show" ELSE "mixer"
  <2>1. /\ pc[w] = "lna" /\ Sets(w, "lna", Target(w)["lna"], n)
        /\ kind[w] = "auto" => chip["mixer"] = Top /\ chip["vga"] = Top
    BY <1>1, <1>5 DEF SetsLNA, WalkerInv
  <2>2. SetsOne(w, "lna", Target(w)["lna"], n) => WalkerInv(w)'
    BY <1>1, <1>2, <2>1 DEF SetsOne, WalkerInv
  <2>3. pc[w] # "none"
    BY <2>1
  <2> QED  BY <1>1, <2>1, <2>2, <2>3, FootSets
<1>6. CASE SetsMixer(w)
  <2>1. /\ pc[w] = "mixer" /\ Sets(w, "mixer", Target(w)["mixer"], "vga") /\ kind[w] # "auto"
        /\ chip["lna"] = Target(w)["lna"]
    BY <1>1, <1>6 DEF SetsMixer, WalkerInv
  <2>2. SetsOne(w, "mixer", Target(w)["mixer"], "vga") => WalkerInv(w)'
    BY <1>1, <2>1 DEF SetsOne, WalkerInv
  <2>3. pc[w] # "none"
    BY <2>1
  <2> QED  BY <1>1, <2>1, <2>2, <2>3, FootSets
<1>7. CASE SetsVGA(w)
  <2>1. /\ pc[w] = "vga" /\ Sets(w, "vga", Target(w)["vga"], "show") /\ kind[w] # "auto"
        /\ chip["lna"] = Target(w)["lna"] /\ chip["mixer"] = Target(w)["mixer"]
    BY <1>1, <1>7 DEF SetsVGA, WalkerInv
  <2>2. SetsOne(w, "vga", Target(w)["vga"], "show") => WalkerInv(w)'
    BY <1>1, <2>1 DEF SetsOne, WalkerInv
  <2>3. pc[w] # "none"
    BY <2>1
  <2> QED  BY <1>1, <2>1, <2>2, <2>3, FootSets
<1> QED
  BY <1>3, <1>4, <1>5, <1>6, <1>7

\* The steps of a walker that touch no setter.
LEMMA FootWalk == ASSUME OwnInv, FootInv, NEW w \in Walkers, Walk(w) PROVE FootInv'
<1>1. WalkerInv(w) /\ kind[w] \in Kinds /\ ShapeInv
  BY DEF FootInv, OwnInv
<1>2. CASE PinsMixer(w) \/ PinsVGA(w) \/ SetsLNA(w) \/ SetsMixer(w) \/ SetsVGA(w)
  BY <1>2, FootSetters
<1>3. IsGain(chip) /\ IsGain(shown) /\ known \subseteq Stages
  BY <1>1 DEF ShapeInv
<1>4. IsGain(Target(w))
  BY <1>1, TargetIsGain
<1>5. CASE Checks(w)
  <2>1. pc[w] = "check" /\ UNCHANGED <<chip, known, shown, key>>
    BY <1>5 DEF Checks, chipVars
  <2>2. CASE Ends(w, "failed")
    BY <1>3, <2>1, <2>2, FootQuits
  <2>3. CASE To(w, "lna")
    <3>1. pc' = [pc EXCEPT ![w] = "lna"] /\ UNCHANGED <<outcome, kind, index, best>>
      BY <2>3 DEF To, ctlVars, walkVars
    <3>2. pc'[w] = "lna" /\ Target(w)' = Target(w)
      BY <3>1, TargetStays DEF OwnInv
    <3>3. WalkerInv(w)'
      BY <1>1, <2>1, <3>1, <3>2 DEF WalkerInv
    <3>4. ShapeInv'
      BY <1>1, <2>1, <3>1 DEF ShapeInv
    <3> QED  BY <2>1, <3>1, <3>3, <3>4, FootMoves
  <2> QED  BY <1>5, <2>2, <2>3 DEF Checks
<1>6. CASE Shows(w)
  <2>1. pc[w] = "show" /\ shown' = Target(w) /\ UNCHANGED <<chip, known, key>>
    BY <1>6 DEF Shows, chipVars
  <2>2. \A s \in Stages : chip[s] = Target(w)[s]
    BY <1>1, <2>1 DEF WalkerInv, Stages
  <2>3. CASE Ends(w, "ok")
    <3>1. Match(shown)'
      BY <1>3, <2>1, <2>2 DEF Match
    <3> QED  BY <1>3, <1>4, <2>1, <2>3, <3>1, FootQuits
  <2>4. CASE To(w, "settle")
    <3>1. pc' = [pc EXCEPT ![w] = "settle"] /\ UNCHANGED <<outcome, kind, index, best>>
      BY <2>4 DEF To, ctlVars, walkVars
    <3>2. pc'[w] = "settle" /\ Target(w)' = Target(w)
      BY <3>1, TargetStays DEF OwnInv
    <3>3. WalkerInv(w)'
      BY <1>1, <2>1, <3>1, <3>2 DEF WalkerInv
    <3>4. ShapeInv'
      BY <1>1, <1>4, <2>1, <3>1 DEF ShapeInv
    <3> QED  BY <2>1, <3>1, <3>3, <3>4, FootMoves
  <2> QED  BY <1>6, <2>3, <2>4 DEF Shows
<1>7. CASE SettleEnds(w) \/ PollEnds(w)
  <2>1. /\ pc[w] \in {"settle", "poll"}
        /\ UNCHANGED <<chip, known, shown, key, outcome, kind, index, best>>
    BY <1>7 DEF SettleEnds, PollEnds, chipVars, ctlVars
  <2>2. PICK p \in {"poll", "judge"} : pc' = [pc EXCEPT ![w] = p]
    BY <1>7 DEF SettleEnds, PollEnds
  <2>3. pc'[w] = p /\ Target(w)' = Target(w)
    BY <2>1, <2>2, TargetStays DEF OwnInv
  <2>4. WalkerInv(w)'
    BY <1>1, <2>1, <2>3 DEF WalkerInv
  <2>5. ShapeInv'
    BY <1>1, <2>1 DEF ShapeInv
  <2> QED  BY <2>1, <2>2, <2>4, <2>5, FootMoves
<1>8. CASE WaitCancelled(w)
  <2>1. pc[w] # "none" /\ Ends(w, "failed") /\ UNCHANGED <<chip, known, shown, key>>
    BY <1>8 DEF WaitCancelled, chipVars
  <2> QED  BY <1>3, <2>1, FootQuits
<1>9. CASE AutoConverges(w)
  <2>1. pc[w] = "judge" /\ Ends(w, "ok") /\ UNCHANGED <<chip, known, shown, key>>
    BY <1>9 DEF AutoConverges, chipVars
  <2>2. shown = Target(w) /\ \A s \in Stages : chip[s] = Target(w)[s]
    BY <1>1, <2>1 DEF WalkerInv, Stages
  <2>3. Match(shown)'
    BY <1>3, <2>1, <2>2 DEF Match
  <2> QED  BY <1>3, <2>1, <2>3, FootQuits
<1>10. CASE AutoStepsDown(w)
  <2>1. /\ pc[w] = "judge" /\ pc' = [pc EXCEPT ![w] = "check"]
        /\ UNCHANGED <<chip, known, shown, key, outcome, kind, best>>
    BY <1>10 DEF AutoStepsDown, NextCell, chipVars, ctlVars
  <2>2. pc'[w] = "check"
    BY <2>1 DEF OwnInv
  <2>3. WalkerInv(w)'
    BY <1>1, <2>1, <2>2 DEF WalkerInv
  <2>4. ShapeInv'
    BY <1>1, <2>1 DEF ShapeInv
  <2> QED  BY <2>1, <2>3, <2>4, FootMoves
<1>11. CASE SweepJudges(w)
  <2>1. /\ pc[w] = "judge" /\ kind[w] = "sweep"
        /\ UNCHANGED <<chip, known, shown, key, outcome, kind>>
    BY <1>11 DEF SweepJudges, NextCell, chipVars, ctlVars
  <2>2. PICK p \in {"lna", "check"} : pc' = [pc EXCEPT ![w] = p]
    BY <1>11 DEF SweepJudges
  <2>3. PICK n : best' = [best EXCEPT ![w] = IF Better(Result(w, n), @) THEN Result(w, n) ELSE @]
    BY <1>11 DEF SweepJudges
  <2>4. /\ best' = [v \in Walkers |-> best'[v]]
        /\ best'[w] \in {Result(w, n), best[w]}
        /\ \A v \in Walkers \ {w} : best'[v] = best[v]
    BY <1>1, <2>3 DEF ShapeInv
  <2>5. Result(w, n).cell = Target(w)
    BY DEF Result
  <2>6. \A v \in Walkers : IsGain(best'[v].cell)
    BY <1>1, <1>4, <2>4, <2>5 DEF ShapeInv
  <2>7. ShapeInv'
    BY <1>1, <2>1, <2>4, <2>6 DEF ShapeInv
  <2>8. pc'[w] = p
    BY <2>2 DEF OwnInv
  <2>9. WalkerInv(w)'
    BY <1>1, <2>1, <2>8 DEF WalkerInv
  <2> QED  BY <2>1, <2>2, <2>7, <2>9, FootMoves
<1> QED
  BY <1>2, <1>5, <1>6, <1>7, <1>8, <1>9, <1>10, <1>11 DEF Walk

LEMMA FootStep == OwnInv /\ FootInv /\ [Next]_vars => FootInv'
<1> SUFFICES ASSUME OwnInv, FootInv, [Next]_vars PROVE FootInv'
  OBVIOUS
<1>1. CASE FrameBegins \/ FrameFails \/ FramePublished \/ QuitKey \/ Interrupt
  BY <1>1, FootOthers DEF FrameBegins, FrameFails, FramePublished, QuitKey, Interrupt, chipVars, ctlVars, walkVars
<1>2. ASSUME NEW k \in Kinds, CancelKey(k) PROVE FootInv'
  BY <1>2, FootOthers DEF CancelKey, chipVars, walkVars
<1>3. ASSUME NEW k \in Kinds, NEW w \in Walkers, StartKey(k, w) PROVE FootInv'
  BY <1>3, FootStarts
<1>4. CASE (\E s \in Stages : GainKey(s)) \/ KeySets \/ KeyShows
  BY <1>4, FootKeys
<1>5. ASSUME NEW w \in Walkers, Walk(w) PROVE FootInv'
  BY <1>5, FootWalk
<1>6. CASE UNCHANGED vars
  BY <1>6, FootOthers DEF vars, chipVars, ctlVars, walkVars
<1> QED
  BY <1>1, <1>2, <1>3, <1>4, <1>5, <1>6 DEF Next, KeyThread

\* With nothing in progress and nothing failed the footer shows what the chip is
\* set to (tui.go:242), however keys, walks, failed setters and cancellations
\* have followed each other.
THEOREM FooterTrue == Spec => []FooterMatches
<1>1. FootInv => FooterMatches
  BY DEF FootInv, KeyInv, AllOk, Match, FooterMatches
<1> QED
  BY <1>1, OwnInit, OwnStep, FootInit, FootStep, PTL DEF Spec
----------------------------------------------------------------------------
(* What a walk finds.                                                      *)

\* The best of the first n cells of a sweep, as they are.
BestOf(b, n) ==
  /\ \E j \in 0..(n - 1) : b.cell = SweepCell(j) /\ b.level = Level(SweepCell(j))
  /\ b.quiet <=> b.level <= limit
  /\ \A i \in 0..(n - 1) :
       /\ b.quiet /\ Level(SweepCell(i)) <= limit => Level(SweepCell(i)) <= b.level
       /\ ~b.quiet => Level(SweepCell(i)) > limit /\ b.level <= Level(SweepCell(i))

\* An auto-tune has left louder cells than the antenna bears, a sweep knows the
\* best of the cells it has left; both as long as their frames have kept up.
HeardInv(w) ==
  /\ pc[w] = "none" => index[w] = 0 /\ best[w] = NoBest
  /\ pc[w] # "none" /\ kind[w] = "auto" =>
       /\ index[w] <= Top
       /\ w \notin late => \A i \in 0..(index[w] - 1) : Level(Cell("auto", i)) > limit
  /\ pc[w] # "none" /\ kind[w] = "sweep" =>
       /\ index[w] <= Cells /\ (index[w] = Cells => pc[w] \in {"lna", "mixer", "vga", "show"})
       /\ index[w] = 0 => best[w] = NoBest
       /\ w \notin late /\ index[w] > 0 => BestOf(best[w], index[w])

BestInv == limit \in Int /\ index \in [Walkers -> Nat] /\ \A w \in Walkers : HeardInv(w)

LEMMA DivisionBelow ==
  ASSUME NEW i \in Nat, NEW d \in Nat \ {0}, NEW t \in Nat, i < d * t PROVE i \div d \in 0..(t - 1)
<1> DEFINE q == i \div d
<1>1. q \in Nat /\ i % d \in Nat /\ i = d * q + (i % d)
  OBVIOUS
<1> HIDE DEF q
<1>2. ASSUME q >= t PROVE FALSE
  <2>1. PICK r \in Nat : q = t + r
    <3>1. q - t \in Nat /\ q = t + (q - t)
      BY <1>1, <1>2
    <3>2. QED
      BY <3>1
  <2>2. d * q = d * t + d * r /\ d * r \in Nat /\ d * t \in Nat
    BY <2>1
  <2>3. QED
    BY <1>1, <2>2
<1>3. QED
  BY <1>1, <1>2 DEF q

LEMMA GridNumbers ==
  /\ Side \in Nat \ {0} /\ Cells \in Nat \ {0}
  /\ \A i \in 0..(Side - 1) : Grid[i] \in 0..Top
<1>1. Top \div Stride \in Nat
  BY TuiAssumption
<1>2. Side \in Nat \ {0}
  BY <1>1 DEF Side
<1>3. Cells \in Nat \ {0}
  BY <1>2 DEF Cells
<1>4. ASSUME NEW i \in 0..(Side - 1) PROVE Grid[i] \in 0..Top
  <2>1. i * Stride \in Nat
    BY <1>2, TuiAssumption
  <2>2. QED
    BY <2>1, TuiAssumption DEF Grid
<1>5. QED
  BY <1>2, <1>3, <1>4

\* tui.go:919, sweepStepsForStride: the grid has every multiple of the stride and
\* both ends of the ladder, and nothing else, for any ladder and any stride.
THEOREM GridIsWhole == {Grid[i] : i \in 0..(Side - 1)} = {s \in 0..Top : s % Stride = 0} \cup {Top}
<1> DEFINE q == Top \div Stride
           r == Top % Stride
<1>1. q \in Nat /\ r \in 0..(Stride - 1) /\ Top = Stride * q + r
  BY TuiAssumption
<1>2. Side = IF r = 0 THEN q + 1 ELSE q + 2
  BY DEF Side
<1> HIDE DEF q, r
<1>3. Stride \in Nat \ {0} /\ Top \in Nat
  BY TuiAssumption
<1>4. ASSUME NEW i \in Nat, i <= q PROVE i * Stride \in 0..Top /\ (i * Stride) % Stride = 0
  <2>1. PICK d \in Nat : q = i + d
    <3>1. q - i \in Nat /\ q = i + (q - i)
      BY <1>1, <1>4
    <3>2. QED
      BY <3>1
  <2>2. Stride * q = i * Stride + Stride * d /\ Stride * d \in Nat /\ i * Stride \in Nat
    BY <1>3, <2>1
  <2>3. i * Stride <= Top
    BY <1>1, <1>3, <2>2
  <2>4. QED
    BY <1>3, <2>2, <2>3
<1>5. (q + 1) * Stride > Top
  BY <1>1, <1>3
<1>6. ASSUME NEW i \in 0..(Side - 1)
      PROVE  Grid[i] \in {s \in 0..Top : s % Stride = 0} \cup {Top}
  <2>1. Grid[i] = IF i * Stride <= Top THEN i * Stride ELSE Top
    BY DEF Grid
  <2>2. CASE i <= q
    BY <1>4, <2>1, <2>2
  <2>3. CASE i > q
    <3>1. i = q + 1
      BY <1>1, <1>2, <2>3
    <3>2. QED
      BY <1>3, <1>5, <2>1, <3>1
  <2>4. QED
    BY <1>1, <1>2, <2>2, <2>3
<1>7. ASSUME NEW s \in 0..Top, s % Stride = 0 PROVE \E i \in 0..(Side - 1) : Grid[i] = s
  <2> DEFINE i == s \div Stride
  <2>1. i \in Nat /\ s = Stride * i
    BY <1>3, <1>7
  <2> HIDE DEF i
  <2>2. i <= q
    <3>1. ASSUME i > q PROVE FALSE
      <4>1. PICK d \in Nat : i = q + 1 + d
        <5>1. i - q - 1 \in Nat /\ i = q + 1 + (i - q - 1)
          BY <1>1, <2>1, <3>1
        <5>2. QED
          BY <5>1
      <4>2. Stride * i = (q + 1) * Stride + Stride * d /\ Stride * d \in Nat
        BY <1>1, <1>3, <4>1
      <4>3. QED
        BY <1>1, <1>3, <1>5, <2>1, <4>2
    <3>2. QED
      BY <1>1, <2>1, <3>1
  <2>3. i \in 0..(Side - 1)
    BY <1>1, <1>2, <2>1, <2>2
  <2>4. i * Stride = s
    BY <1>3, <2>1
  <2>5. Grid[i] = s
    BY <2>3, <2>4 DEF Grid
  <2>6. QED
    BY <2>3, <2>5
<1>8. \E i \in 0..(Side - 1) : Grid[i] = Top
  <2>1. CASE r = 0
    <3>1. q \in 0..(Side - 1) /\ q * Stride = Top
      BY <1>1, <1>2, <1>3, <2>1
    <3>2. QED
      BY <3>1 DEF Grid
  <2>2. CASE r # 0
    <3>1. q + 1 \in 0..(Side - 1) /\ ~((q + 1) * Stride <= Top)
      BY <1>1, <1>2, <1>3, <1>5, <2>2
    <3>2. QED
      BY <3>1 DEF Grid
  <2>3. QED
    BY <2>1, <2>2
<1>9. QED
  BY <1>6, <1>7, <1>8

LEMMA SweepLevels ==
  ASSUME NEW i \in 0..(Cells - 1) PROVE Level(SweepCell(i)) \in 0..(3 * Top)
<1>1. Side \in Nat \ {0} /\ Cells = Side * Side * Side /\ i \in Nat /\ i < Cells
  BY GridNumbers DEF Cells
<1>2. i \div (Side * Side) \in 0..(Side - 1)
  <2>1. Side * Side \in Nat \ {0} /\ i < (Side * Side) * Side
    BY <1>1
  <2>2. QED
    BY <1>1, <2>1, DivisionBelow
<1>3. (i \div Side) \in Nat /\ (i \div Side) % Side \in 0..(Side - 1) /\ i % Side \in 0..(Side - 1)
  <2>1. i \div Side \in Nat /\ i % Side \in 0..(Side - 1)
    BY <1>1
  <2>2. QED
    BY <1>1, <2>1
<1>4. /\ SweepCell(i)["lna"] = Grid[i \div (Side * Side)]
      /\ SweepCell(i)["mixer"] = Grid[(i \div Side) % Side]
      /\ SweepCell(i)["vga"] = Grid[i % Side]
  BY DEF SweepCell, Stages
<1>5. /\ SweepCell(i)["lna"] \in 0..Top /\ SweepCell(i)["mixer"] \in 0..Top
      /\ SweepCell(i)["vga"] \in 0..Top
  BY <1>2, <1>3, <1>4, GridNumbers
<1>6. QED
  BY <1>5, TuiAssumption DEF Level

LEMMA AutoLevels ==
  ASSUME NEW i \in 0..Top
  PROVE  Cell("auto", i)["lna"] = Top - i /\ Level(Cell("auto", i)) = 3 * Top - i
<1>1. /\ Cell("auto", i)["lna"] = Top - i
      /\ Cell("auto", i)["mixer"] = Top /\ Cell("auto", i)["vga"] = Top
  BY DEF Cell, StartGain, Stages
<1>2. QED
  BY <1>1, TuiAssumption DEF Level
----------------------------------------------------------------------------
LEMMA BestInit == Init => BestInv
BY TuiAssumption DEF Init, BestInv, HeardInv

\* A walker that goes on at the same cell.
LEMMA BestMoves ==
  ASSUME OwnInv, BestInv, NEW w \in Walkers, pc[w] # "none", NEW p \in Places \ {"none"},
         pc' = [pc EXCEPT ![w] = p], UNCHANGED <<limit, kind, index, best>>, late \subseteq late',
         kind[w] = "sweep" /\ index[w] = Cells => p \in {"lna", "mixer", "vga", "show"}
  PROVE  BestInv'
<1>1. \A v \in Walkers \ {w} : pc'[v] = "none" /\ pc[v] = "none"
  BY DEF OwnInv
<1>2. pc'[w] = p
  BY DEF OwnInv
<1>3. ASSUME BestOf(best[w], index[w]) PROVE BestOf(best[w], index[w])'
  BY <1>3 DEF BestOf
<1>4. HeardInv(w)'
  BY <1>2, <1>3 DEF BestInv, HeardInv
<1>5. \A v \in Walkers \ {w} : HeardInv(v)'
  BY <1>1 DEF BestInv, HeardInv
<1>6. QED
  BY <1>4, <1>5 DEF BestInv

LEMMA BestQuits ==
  ASSUME OwnInv, ShapeInv, BestInv, NEW w \in Walkers, pc[w] # "none", NEW r, Ends(w, r), limit' = limit
  PROVE  BestInv'
<1>1. \A v \in Walkers : pc'[v] = "none"
  BY DEF Ends, OwnInv
<1>2. \A v \in Walkers \ {w} : index[v] = 0 /\ best[v] = NoBest
  BY DEF OwnInv, BestInv, HeardInv
<1>3. index' \in [Walkers -> Nat] /\ \A v \in Walkers : index'[v] = 0 /\ best'[v] = NoBest
  BY <1>2 DEF Ends, BestInv, ShapeInv
<1>4. QED
  BY <1>1, <1>3 DEF BestInv, HeardInv

LEMMA BestOthers ==
  ASSUME BestInv, UNCHANGED <<limit, pc, kind, index, best, late>> PROVE BestInv'
<1>1. ASSUME NEW w \in Walkers, BestOf(best[w], index[w]) PROVE BestOf(best[w], index[w])'
  BY <1>1 DEF BestOf
<1>2. QED
  BY <1>1 DEF BestInv, HeardInv

LEMMA BestStarts ==
  ASSUME OwnInv, BestInv, NEW k \in Kinds, NEW w \in Walkers, StartKey(k, w) PROVE BestInv'
<1>1. \A v \in Walkers : pc[v] = "none"
  BY DEF StartKey, OwnInv, NobodyRuns
<1>2. /\ UNCHANGED <<limit, index, best, late>> /\ index[w] = 0 /\ best[w] = NoBest
      /\ pc' = [pc EXCEPT ![w] = IF k = "auto" THEN "pinMixer" ELSE "check"]
  BY <1>1 DEF StartKey, BestInv, HeardInv
<1>3. HeardInv(w)'
  BY <1>2, GridNumbers, TuiAssumption DEF HeardInv, OwnInv
<1>4. \A v \in Walkers \ {w} : HeardInv(v)'
  BY <1>1, <1>2 DEF HeardInv, OwnInv, BestInv
<1>5. QED
  BY <1>2, <1>3, <1>4 DEF BestInv

\* The cell that is judged is the one on the chip.
LEMMA JudgedCell ==
  ASSUME FootInv, NEW w \in Walkers, pc[w] \in {"show", "judge"} PROVE Level(chip) = Level(Target(w))
BY DEF FootInv, WalkerInv, Level

\* One cell more of an auto-tune is too loud.
LEMMA BestAutoDown ==
  ASSUME OwnInv, FrameInv, FootInv, BestInv, NEW w \in Walkers, AutoStepsDown(w) PROVE BestInv'
<1>1. /\ pc[w] = "judge" /\ kind[w] = "auto" /\ UNCHANGED <<limit, chip, kind, late, best>>
      /\ pc' = [pc EXCEPT ![w] = "check"] /\ index' = [index EXCEPT ![w] = @ + 1]
      /\ Target(w)["lna"] > 0 /\ \E n \in Readings : n > limit
  BY DEF AutoStepsDown, NextCell, chipVars
<1>2. index[w] \in 0..Top /\ index' \in [Walkers -> Nat] /\ index'[w] = index[w] + 1
  BY <1>1, TuiAssumption DEF BestInv, HeardInv
<1>3. Target(w) = Cell("auto", index[w])
  BY <1>1 DEF Target, Applying
<1>4. index[w] < Top
  BY <1>1, <1>2, <1>3, AutoLevels, TuiAssumption
<1>5. ASSUME w \notin late PROVE \A i \in 0..(index'[w] - 1) : Level(Cell("auto", i)) > limit
  <2>1. latest = "fresh"
    BY <1>1, <1>5 DEF FrameInv
  <2>2. Level(chip) > limit
    BY <1>1, <2>1 DEF Readings
  <2>3. Level(Cell("auto", index[w])) > limit
    BY <1>1, <1>3, <2>2, JudgedCell
  <2>4. \A i \in 0..(index[w] - 1) : Level(Cell("auto", i)) > limit
    BY <1>1, <1>5 DEF BestInv, HeardInv
  <2>5. \A i \in 0..(index'[w] - 1) : i \in 0..(index[w] - 1) \/ i = index[w]
    BY <1>2
  <2>6. QED
    BY <2>3, <2>4, <2>5
<1>6. pc'[w] = "check" /\ \A v \in Walkers \ {w} : pc'[v] = "none" /\ pc[v] = "none" /\ index'[v] = index[v]
  BY <1>1 DEF OwnInv, BestInv
<1>7. index'[w] <= Top
  BY <1>2, <1>4, TuiAssumption
<1>8. HeardInv(w)'
  <2>1. ASSUME w \notin late' PROVE (\A i \in 0..(index[w] - 1) : Level(Cell("auto", i)) > limit)'
    BY <1>1, <1>5, <2>1
  <2>2. kind'[w] = "auto"
    BY <1>1
  <2>3. QED
    BY <1>6, <1>7, <2>1, <2>2 DEF HeardInv
<1>9. \A v \in Walkers \ {w} : HeardInv(v)'
  BY <1>1, <1>6 DEF BestInv, HeardInv
<1>10. QED
  BY <1>1, <1>2, <1>8, <1>9 DEF BestInv

\* isBetterCell keeps the best of the cells judged.
LEMMA BetterIsBest ==
  ASSUME limit \in Int, NEW n \in Nat, n < Cells, NEW b, n = 0 => b = NoBest, n > 0 => BestOf(b, n),
         NEW r, r = [cell |-> SweepCell(n), quiet |-> Level(SweepCell(n)) <= limit, level |-> Level(SweepCell(n))]
  PROVE  BestOf(IF Better(r, b) THEN r ELSE b, n + 1)
<1> DEFINE lev(i) == Level(SweepCell(i))
<1>1. \A i \in 0..n : lev(i) \in Int /\ lev(i) >= 0
  <2>1. 0..n \subseteq 0..(Cells - 1)
    BY GridNumbers
  <2>2. QED
    BY <2>1, SweepLevels, TuiAssumption
<1>2. r.cell = SweepCell(n) /\ r.level = lev(n) /\ (r.quiet <=> lev(n) <= limit)
  OBVIOUS
<1>3. \A i \in 0..((n + 1) - 1) : i \in 0..(n - 1) \/ i = n
  OBVIOUS
<1>4. n \in 0..((n + 1) - 1) /\ \A j \in 0..(n - 1) : j \in 0..((n + 1) - 1)
  OBVIOUS
<1>5. CASE n = 0
  <2>1. b = NoBest /\ Better(r, b)
    BY <1>5 DEF Better
  <2>2. BestOf(r, 1)
    <3>1. 0..(1 - 1) = {0}
      OBVIOUS
    <3>2. QED
      BY <1>1, <1>2, <1>5, <3>1 DEF BestOf
  <2>3. QED
    BY <1>5, <2>1, <2>2
<1>6. CASE n > 0
  <2>1. PICK j \in 0..(n - 1) : b.cell = SweepCell(j) /\ b.level = lev(j)
    BY <1>6 DEF BestOf
  <2>2. /\ b.quiet <=> b.level <= limit
        /\ \A i \in 0..(n - 1) : /\ b.quiet /\ lev(i) <= limit => lev(i) <= b.level
                                 /\ ~b.quiet => lev(i) > limit /\ b.level <= lev(i)
    BY <1>6 DEF BestOf
  <2>3. b # NoBest
    <3>1. b.level >= 0
      BY <1>1, <2>1
    <3>2. NoBest.level = -1
      BY DEF NoBest
    <3>3. QED
      BY <3>1, <3>2
  <2>4. b.level \in Int
    BY <1>1, <2>1
  <2> HIDE DEF lev
  <2>5. CASE Better(r, b)
    <3>1. ASSUME NEW i \in 0..(n - 1)
          PROVE  /\ r.quiet /\ lev(i) <= limit => lev(i) <= r.level
                 /\ ~r.quiet => lev(i) > limit /\ r.level <= lev(i)
      <4>1. lev(i) \in Int /\ lev(n) \in Int
        BY <1>1
      <4>2. \/ r.quiet /\ ~b.quiet
            \/ r.quiet /\ b.quiet /\ lev(n) > b.level
            \/ ~r.quiet /\ ~b.quiet /\ lev(n) < b.level
        BY <1>2, <2>3, <2>5 DEF Better
      <4>3. /\ b.quiet /\ lev(i) <= limit => lev(i) <= b.level
            /\ ~b.quiet => lev(i) > limit /\ b.level <= lev(i)
        BY <2>2
      <4>4. QED
        BY <4>1, <4>2, <4>3, <1>2, <2>4
    <3>2. /\ r.quiet /\ lev(n) <= limit => lev(n) <= r.level
          /\ ~r.quiet => lev(n) > limit /\ r.level <= lev(n)
      BY <1>1, <1>2
    <3>3. BestOf(r, n + 1)
      BY <1>2, <1>3, <1>4, <3>1, <3>2 DEF BestOf, lev
    <3>4. QED
      BY <2>5, <3>3
  <2>6. CASE ~Better(r, b)
    <3>1. /\ b.quiet /\ lev(n) <= limit => lev(n) <= b.level
          /\ ~b.quiet => lev(n) > limit /\ b.level <= lev(n)
      <4>1. lev(n) \in Int
        BY <1>1
      <4>2. QED
        BY <4>1, <1>2, <2>4, <2>6 DEF Better
    <3>2. BestOf(b, n + 1)
      BY <1>3, <1>4, <2>1, <2>2, <3>1 DEF BestOf, lev
    <3>3. QED
      BY <2>6, <3>2
  <2>7. QED
    BY <2>5, <2>6
<1>7. QED
  BY <1>5, <1>6

LEMMA BestSweepJudges ==
  ASSUME OwnInv, FrameInv, FootInv, BestInv, NEW w \in Walkers, SweepJudges(w) PROVE BestInv'
<1>1. /\ pc[w] = "judge" /\ kind[w] = "sweep" /\ UNCHANGED <<limit, chip, kind, late>>
      /\ pc' = [pc EXCEPT ![w] = IF index[w] + 1 = Cells THEN "lna" ELSE "check"]
      /\ index' = [index EXCEPT ![w] = @ + 1]
  BY DEF SweepJudges, NextCell, chipVars
<1>2. PICK n \in Readings : best' = [best EXCEPT ![w] = IF Better(Result(w, n), @) THEN Result(w, n) ELSE @]
  BY DEF SweepJudges
<1>3. best'[w] = IF Better(Result(w, n), best[w]) THEN Result(w, n) ELSE best[w]
  BY <1>2 DEF FootInv, ShapeInv
<1>4. \A v \in Walkers \ {w} : best'[v] = best[v] /\ index'[v] = index[v] /\ pc'[v] = "none" /\ pc[v] = "none"
  BY <1>1, <1>2 DEF FootInv, ShapeInv, OwnInv, BestInv
<1>5. /\ index[w] \in Nat /\ index[w] < Cells /\ index' \in [Walkers -> Nat] /\ index'[w] = index[w] + 1
      /\ limit \in Int
  BY <1>1, GridNumbers DEF BestInv, HeardInv
<1>6. pc'[w] = IF index[w] + 1 = Cells THEN "lna" ELSE "check"
  BY <1>1 DEF OwnInv
<1>7. ASSUME w \notin late PROVE BestOf(best'[w], index[w] + 1)
  <2>1. Target(w) = SweepCell(index[w])
    BY <1>1, <1>5 DEF Target, Applying, Cell
  <2>2. n = Level(SweepCell(index[w]))
    <3>1. latest = "fresh"
      BY <1>1, <1>7 DEF FrameInv
    <3>2. n = Level(chip)
      BY <3>1 DEF Readings
    <3>3. QED
      BY <1>1, <2>1, <3>2, JudgedCell
  <2>3. Result(w, n) = [cell |-> SweepCell(index[w]), quiet |-> Level(SweepCell(index[w])) <= limit,
                        level |-> Level(SweepCell(index[w]))]
    BY <2>1, <2>2 DEF Result
  <2>4. /\ index[w] = 0 => best[w] = NoBest
        /\ index[w] > 0 => BestOf(best[w], index[w])
    BY <1>1, <1>7 DEF BestInv, HeardInv
  <2>5. QED
    BY <1>3, <1>5, <2>3, <2>4, BetterIsBest
<1>8. HeardInv(w)'
  <2>1. kind'[w] = "sweep" /\ pc'[w] # "none" /\ index'[w] <= Cells /\ index'[w] # 0
        /\ (index'[w] = Cells => pc'[w] = "lna")
    BY <1>1, <1>5, <1>6, GridNumbers
  <2>2. w \notin late' => BestOf(best[w], index[w])'
    BY <1>1, <1>5, <1>7 DEF BestOf
  <2>3. QED
    BY <2>1, <2>2 DEF HeardInv
<1>9. \A v \in Walkers \ {w} : HeardInv(v)'
  BY <1>1, <1>4 DEF BestInv, HeardInv
<1>10. QED
  BY <1>1, <1>5, <1>8, <1>9 DEF BestInv

LEMMA BestWalk ==
  ASSUME OwnInv, FrameInv, FootInv, BestInv, NEW w \in Walkers, Walk(w) PROVE BestInv'
<1>1. HeardInv(w) /\ WalkerInv(w) /\ ShapeInv /\ kind[w] \in Kinds /\ pc[w] # "none" /\ pc[w] \in Places
  BY WalkShape DEF BestInv, FootInv, OwnInv
<1>2. ASSUME NEW r, Ends(w, r), limit' = limit PROVE BestInv'
  BY <1>1, <1>2, BestQuits
<1>3. ASSUME NEW p \in Places \ {"none"}, To(w, p), limit' = limit,
             kind[w] = "sweep" /\ index[w] = Cells => p \in {"lna", "mixer", "vga", "show"}
      PROVE  BestInv'
  BY <1>1, <1>3, BestMoves DEF To, walkVars
<1>4. CASE PinsMixer(w) \/ PinsVGA(w)
  <2>1. kind[w] = "auto"
    BY <1>1, <1>4 DEF PinsMixer, PinsVGA, WalkerInv
  <2>2. QED
    BY <1>2, <1>3, <1>4, <2>1 DEF PinsMixer, PinsVGA, Sets, Places
<1>5. CASE SetsLNA(w) \/ SetsMixer(w) \/ SetsVGA(w)
  BY <1>2, <1>3, <1>5 DEF SetsLNA, SetsMixer, SetsVGA, Sets, Places
<1>6. CASE Checks(w)
  BY <1>2, <1>3, <1>6 DEF Checks, Places
<1>7. CASE Shows(w)
  BY <1>2, <1>3, <1>7 DEF Shows, Places, Applying
<1>8. CASE SettleEnds(w) \/ PollEnds(w)
  <2>1. /\ pc[w] \in {"settle", "poll"} /\ UNCHANGED <<limit, kind, index, best>> /\ late \subseteq late'
        /\ \E p \in {"poll", "judge"} : pc' = [pc EXCEPT ![w] = p]
    BY <1>8 DEF SettleEnds, PollEnds
  <2>2. ~(kind[w] = "sweep" /\ index[w] = Cells)
    BY <1>1, <2>1 DEF HeardInv
  <2>3. QED
    BY <1>1, <2>1, <2>2, BestMoves DEF Places
<1>9. CASE WaitCancelled(w) \/ AutoConverges(w)
  BY <1>2, <1>9 DEF WaitCancelled, AutoConverges
<1>10. CASE AutoStepsDown(w)
  BY <1>10, BestAutoDown
<1>11. CASE SweepJudges(w)
  BY <1>11, BestSweepJudges
<1>12. QED
  BY <1>4, <1>5, <1>6, <1>7, <1>8, <1>9, <1>10, <1>11 DEF Walk

LEMMA BestStep == OwnInv /\ FrameInv /\ FootInv /\ BestInv /\ [Next]_vars => BestInv'
<1> SUFFICES ASSUME OwnInv, FrameInv, FootInv, BestInv, [Next]_vars PROVE BestInv'
  OBVIOUS
<1>1. CASE FrameBegins \/ FrameFails \/ QuitKey \/ Interrupt \/ KeySets \/ KeyShows
  BY <1>1, BestOthers DEF FrameBegins, FrameFails, QuitKey, Interrupt, KeySets, KeyShows, walkVars
<1>2. CASE FramePublished
  BY <1>2, BestOthers DEF FramePublished
<1>3. ASSUME NEW k \in Kinds, CancelKey(k) PROVE BestInv'
  BY <1>3, BestOthers DEF CancelKey, walkVars
<1>4. ASSUME NEW k \in Kinds, NEW w \in Walkers, StartKey(k, w) PROVE BestInv'
  BY <1>4, BestStarts
<1>5. ASSUME NEW s \in Stages, GainKey(s) PROVE BestInv'
  BY <1>5, BestOthers DEF GainKey, walkVars
<1>6. ASSUME NEW w \in Walkers, Walk(w) PROVE BestInv'
  BY <1>6, BestWalk
<1>7. CASE UNCHANGED vars
  BY <1>7, BestOthers DEF vars, walkVars
<1> QED
  BY <1>1, <1>2, <1>3, <1>4, <1>5, <1>6, <1>7 DEF Next, KeyThread

\* The chip is at a cell of S, and no other cell is better.
LEMMA FindsQuiet ==
  ASSUME NEW S, \A c \in S : Level(c) \in Int, NEW b \in S, Level(b) \in 0..(3 * Top),
         Level(chip) = Level(b), limit \in Int,
         \/ Level(b) <= limit /\ \A c \in S : Level(c) <= limit => Level(c) <= Level(b)
         \/ \A c \in S : Level(c) > limit /\ Level(b) <= Level(c)
  PROVE  Finds(S)
<1> DEFINE quiet == {Level(c) : c \in S} \cap {n \in 0..(3 * Top) : n <= limit}
<1>1. CASE Level(b) <= limit /\ \A c \in S : Level(c) <= limit => Level(c) <= Level(b)
  <2>1. Level(chip) \in quiet
    BY <1>1
  <2>2. \A n \in quiet : n <= Level(chip)
    BY <1>1
  <2>3. QED
    BY <2>1, <2>2 DEF Finds
<1>2. CASE \A c \in S : Level(c) > limit /\ Level(b) <= Level(c)
  <2>1. quiet = {}
    BY <1>2
  <2>2. \A c \in S : Level(chip) <= Level(c)
    BY <1>2
  <2>3. QED
    BY <2>1, <2>2 DEF Finds
<1>3. QED
  BY <1>1, <1>2

LEMMA AutoFinds ==
  ASSUME FrameInv, FootInv, BestInv, NEW w \in Walkers, AutoConverges(w), w \notin late
  PROVE  Finds({Cell("auto", i) : i \in 0..Top})
<1> DEFINE S == {Cell("auto", i) : i \in 0..Top}
           b == Cell("auto", index[w])
<1>1. pc[w] = "judge" /\ kind[w] = "auto" /\ ((\E n \in Readings : n <= limit) \/ Target(w)["lna"] = 0)
  BY DEF AutoConverges
<1>2. /\ index[w] \in 0..Top /\ limit \in Int
      /\ \A i \in 0..(index[w] - 1) : Level(Cell("auto", i)) > limit
  BY <1>1, TuiAssumption DEF BestInv, HeardInv
<1>3. Target(w) = b
  BY <1>1 DEF Target, Applying
<1>4. Level(chip) = Level(b)
  BY <1>1, <1>3, JudgedCell
<1>5. Readings = {Level(chip)}
  BY <1>1 DEF FrameInv, Readings
<1>6. \A i \in 0..Top : Level(Cell("auto", i)) = 3 * Top - i
  BY AutoLevels
<1>7. Level(b) = 3 * Top - index[w] /\ Level(b) \in 0..(3 * Top)
  BY <1>2, <1>6, TuiAssumption
<1>8. \A c \in S : Level(c) \in Int
  BY <1>6, TuiAssumption
<1>9. CASE Level(b) <= limit
  <2>1. ASSUME NEW i \in 0..Top, Level(Cell("auto", i)) <= limit PROVE Level(Cell("auto", i)) <= Level(b)
    <3>1. ~(i < index[w])
      BY <1>2, <1>6, <2>1, TuiAssumption
    <3>2. QED
      BY <3>1, <1>2, <1>6, <1>7, TuiAssumption
  <2>2. \A c \in S : Level(c) <= limit => Level(c) <= Level(b)
    BY <2>1
  <2>3. QED
    BY <1>2, <1>4, <1>7, <1>8, <1>9, <2>2, FindsQuiet
<1>10. CASE ~(Level(b) <= limit)
  <2>1. Target(w)["lna"] = 0
    BY <1>1, <1>4, <1>5, <1>10
  <2>2. index[w] = Top
    BY <1>2, <1>3, <2>1, AutoLevels, TuiAssumption
  <2>3. ASSUME NEW i \in 0..Top PROVE Level(Cell("auto", i)) > limit /\ Level(b) <= Level(Cell("auto", i))
    <3>1. Level(b) <= Level(Cell("auto", i))
      BY <1>6, <1>7, <2>2, TuiAssumption
    <3>2. Level(b) > limit
      BY <1>2, <1>7, <1>10
    <3>3. QED
      BY <3>1, <3>2, <1>2, <1>6, <1>7, TuiAssumption
  <2>4. \A c \in S : Level(c) > limit /\ Level(b) <= Level(c)
    BY <2>3
  <2>5. QED
    BY <1>2, <1>4, <1>7, <1>8, <2>4, FindsQuiet
<1>11. QED
  BY <1>9, <1>10

LEMMA SweepFinds ==
  ASSUME FootInv, BestInv, NEW w \in Walkers, Shows(w), Applying(w), w \notin late
  PROVE  Finds({Cell("sweep", i) : i \in 0..(Cells - 1)})
<1> DEFINE S == {Cell("sweep", i) : i \in 0..(Cells - 1)}
           b == best[w]
<1>1. pc[w] = "show" /\ kind[w] = "sweep" /\ index[w] = Cells /\ Target(w) = b.cell
  BY DEF Shows, Applying, Target
<1>2. Cells \in Nat \ {0} /\ limit \in Int /\ BestOf(b, Cells)
  BY <1>1, GridNumbers DEF BestInv, HeardInv
<1>3. PICK j \in 0..(Cells - 1) : b.cell = SweepCell(j) /\ b.level = Level(SweepCell(j))
  BY <1>2 DEF BestOf
<1>4. \A i \in 0..(Cells - 1) : Cell("sweep", i) = SweepCell(i)
  BY DEF Cell
<1>5. Level(chip) = Level(b.cell) /\ Level(b.cell) \in 0..(3 * Top) /\ b.cell \in S
  BY <1>1, <1>3, <1>4, JudgedCell, SweepLevels
<1>6. \A c \in S : Level(c) \in Int
  BY <1>4, SweepLevels, TuiAssumption
<1>7. CASE b.quiet
  <2>1. Level(b.cell) <= limit /\ \A c \in S : Level(c) <= limit => Level(c) <= Level(b.cell)
    BY <1>2, <1>3, <1>4, <1>7 DEF BestOf
  <2>2. QED
    BY <1>2, <1>5, <1>6, <2>1, FindsQuiet
<1>8. CASE ~b.quiet
  <2>1. \A c \in S : Level(c) > limit /\ Level(b.cell) <= Level(c)
    BY <1>2, <1>3, <1>4, <1>8 DEF BestOf
  <2>2. QED
    BY <1>2, <1>5, <1>6, <2>1, FindsQuiet
<1>9. QED
  BY <1>7, <1>8

\* The steps that end a walk well leave the chip as it is.
LEMMA EndsWell ==
  ASSUME OwnInv, FootInv, BestInv, [Next]_vars, NEW w \in Walkers, pc[w] # "none", pc'[w] = "none",
         outcome'[kind[w]] = "ok"
  PROVE  /\ AutoConverges(w) \/ (Shows(w) /\ Applying(w))
         /\ UNCHANGED <<chip, limit>>
<1>1. Walk(w)
  <2>1. \A v \in Walkers : Walk(v) => v = w
    BY WalkShape DEF OwnInv
  <2>2. ~(pc' = pc)
    BY DEF OwnInv
  <2>3. ASSUME NEW k \in Kinds, NEW v \in Walkers, StartKey(k, v) PROVE FALSE
    BY <2>3 DEF StartKey, NobodyRuns, OwnInv
  <2>4. ~(FrameBegins \/ FrameFails \/ FramePublished \/ QuitKey \/ Interrupt \/ KeySets \/ KeyShows)
    BY <2>2 DEF FrameBegins, FrameFails, FramePublished, QuitKey, Interrupt, KeySets, KeyShows
  <2>5. ~(\E k \in Kinds : CancelKey(k)) /\ ~(\E s \in Stages : GainKey(s)) /\ ~(UNCHANGED vars)
    BY <2>2 DEF CancelKey, GainKey, vars
  <2>6. QED
    BY <2>1, <2>3, <2>4, <2>5 DEF Next, KeyThread
<1>2. kind[w] \in Kinds /\ outcome[kind[w]] = "running"
  BY DEF OwnInv
<1>3. ASSUME Ends(w, "failed") PROVE FALSE
  BY <1>2, <1>3 DEF Ends, OwnInv
<1>4. ASSUME NEW p, p # "none", pc' = [pc EXCEPT ![w] = p] PROVE FALSE
  BY <1>4 DEF OwnInv
<1>5. ASSUME NEW k, NEW v, NEW n, n # "none", Sets(w, k, v, n) PROVE FALSE
  BY <1>3, <1>4, <1>5 DEF Sets, To
<1>6. ~(PinsMixer(w) \/ PinsVGA(w))
  BY <1>5 DEF PinsMixer, PinsVGA
<1>7. ~(SetsLNA(w) \/ SetsMixer(w) \/ SetsVGA(w))
  BY <1>5 DEF SetsLNA, SetsMixer, SetsVGA
<1>8. ~(Checks(w) \/ WaitCancelled(w))
  BY <1>3, <1>4 DEF Checks, WaitCancelled, To
<1>9. ~(SettleEnds(w) \/ PollEnds(w) \/ AutoStepsDown(w) \/ SweepJudges(w))
  BY <1>4 DEF SettleEnds, PollEnds, AutoStepsDown, SweepJudges
<1>10. Shows(w) => Applying(w)
  BY <1>4 DEF Shows, To
<1>11. AutoConverges(w) \/ Shows(w) => UNCHANGED <<chip, limit>>
  BY DEF AutoConverges, Shows, chipVars
<1>12. QED
  BY <1>1, <1>6, <1>7, <1>8, <1>9, <1>10, <1>11 DEF Walk

\* tui.go:752 and 999: an auto-tune or a sweep that completes, and whose frames kept up,
\* leaves the chip at the best of its cells: the most gain that the antenna bears, or the
\* least if it bears none; for any ladder, stride and antenna, and whatever keys, failed
\* setters, cancellations and lost frames come in between.
THEOREM BestIsLeft == ASSUME Settle >= Ahead PROVE Spec => CompletedBest
<1> DEFINE Inv == OwnInv /\ FrameInv /\ FootInv /\ BestInv
           Well == \A w \in Walkers, k \in Kinds :
                     /\ pc[w] # "none" /\ kind[w] = k /\ pc'[w] = "none" /\ w \notin late
                     /\ outcome'[k] = "ok"
                     => Finds({Cell(k, i) : i \in 0..(IF k = "auto" THEN Top ELSE Cells - 1)})'
<1>1. Init => Inv
  BY OwnInit, FrameInit, FootInit, BestInit
<1>2. Inv /\ [Next]_vars => Inv'
  BY OwnStep, FrameStep, FootStep, BestStep
<1>3. Inv /\ [Next]_vars => Well
  <2> SUFFICES ASSUME Inv, [Next]_vars, NEW w \in Walkers, NEW k \in Kinds,
                      pc[w] # "none", kind[w] = k, pc'[w] = "none", w \notin late, outcome'[k] = "ok"
               PROVE  Finds({Cell(k, i) : i \in 0..(IF k = "auto" THEN Top ELSE Cells - 1)})'
    OBVIOUS
  <2> DEFINE S == {Cell(k, i) : i \in 0..(IF k = "auto" THEN Top ELSE Cells - 1)}
  <2>1. /\ AutoConverges(w) \/ (Shows(w) /\ Applying(w))
        /\ UNCHANGED <<chip, limit>>
    BY EndsWell
  <2>2. Finds(S)
    <3>1. CASE AutoConverges(w)
      <4>1. k = "auto"
        BY <3>1 DEF AutoConverges
      <4>2. QED
        BY <3>1, <4>1, AutoFinds
    <3>2. CASE Shows(w) /\ Applying(w)
      <4>1. k = "sweep"
        BY <3>2 DEF Applying
      <4>2. QED
        BY <3>2, <4>1, SweepFinds
    <3>3. QED
      BY <2>1, <3>1, <3>2
  <2>3. QED
    BY <2>1, <2>2 DEF Finds
<1>4. QED
  BY <1>1, <1>2, <1>3, PTL DEF Spec, CompletedBest
=============================================================================
