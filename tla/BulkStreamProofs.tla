-------------------------- MODULE BulkStreamProofs --------------------------
(***************************************************************************)
(* Proofs, for every ring size, any number of readers and closers and      *)
(* every fault, of the type invariant and the state invariants of          *)
(* BulkStream:                                                             *)
(*   1. the types, one lemma per process;                                  *)
(*   2. what each process does to the URBs the kernel owns;                *)
(*   3. IInv (module BulkInvariant) holds initially and is kept by the     *)
(*      steps of each process;                                             *)
(*   4. the theorems, each a consequence of []IInv.                        *)
(* Then, that no chunk is lost uncounted, repeated or reordered, and that  *)
(* the channel with its three selects is a LossyFifo:                      *)
(*   5. what a chunk taken, evicted or dispatched does to streamCh;        *)
(*   6. DataInv (module BulkInvariant) is kept, given IInv;                *)
(*   7. the theorems, and the refinement;                                  *)
(*   8. without faults, an orderly Close leaves no stream error.           *)
(***************************************************************************)
EXTENDS BulkInvariant, FiniteSetTheorems, SequenceTheorems, TLAPS

USE NumURBsAssumption DEF Urbs

\* A step that leaves the kernel's URBs alone keeps its types.
LEMMA KernelKept == ASSUME KernelTypeOK, UNCHANGED kernelVars PROVE KernelTypeOK'
  BY DEF KernelTypeOK, kernelVars
\* A step that leaves streamCh and its counters alone keeps its types.
LEMMA FifoKept == ASSUME FifoTypeOK, UNCHANGED fifoVars PROVE FifoTypeOK'
  BY DEF FifoTypeOK, fifoVars
\* A step that leaves streamDone and streamErr alone keeps its types.
LEMMA StreamKept == ASSUME StreamTypeOK, UNCHANGED streamVars PROVE StreamTypeOK'
  BY DEF StreamTypeOK, streamVars
\* A step that leaves the reaper's locals alone keeps its types.
LEMMA ReaperKept == ASSUME ReaperTypeOK, UNCHANGED reaperVars PROVE ReaperTypeOK'
  BY DEF ReaperTypeOK, reaperVars
\* A step that leaves the closers' state alone keeps its types.
LEMMA CloserKept == ASSUME CloserTypeOK, UNCHANGED closerVars PROVE CloserTypeOK'
  BY DEF CloserTypeOK, closerVars
\* A step that leaves the readers' state alone keeps its types.
LEMMA ReaderKept == ASSUME ReaderTypeOK, UNCHANGED readerVars PROVE ReaderTypeOK'
  BY DEF ReaderTypeOK, readerVars

\* The initial state has the types: nothing submitted, no goroutine started.
LEMMA InitType == Init => TypeOK
<1> SUFFICES ASSUME Init PROVE TypeOK
  OBVIOUS
<1>1. KernelTypeOK
  BY DEF Init, KernelInit, KernelTypeOK
<1>2. FifoTypeOK /\ StreamTypeOK
  BY DEF Init, FifoTypeOK, StreamTypeOK
<1>3. ReaperTypeOK
  BY DEF Init, ReaperTypeOK, NoURB
<1>4. CloserTypeOK
  <2>1. closed \in BOOLEAN /\ sawStream \in BOOLEAN
    BY DEF Init
  <2>2. cursor \in 0..NumURBs
    BY DEF Init
  <2>3. cp \in [Closers -> {"idle", "check", "discard", "wait", "drain", "release", "closeFd", "returned"}]
    BY DEF Init
  <2>4. closeErr \in [Closers -> {"none", "nil", "err"}]
    BY DEF Init
  <2> QED
    BY <2>1, <2>2, <2>3, <2>4 DEF CloserTypeOK
<1>5. ReaderTypeOK
  BY DEF Init, ReaderTypeOK, Outcomes
<1> QED
  BY <1>1, <1>2, <1>3, <1>4, <1>5 DEF TypeOK

\* A completion moves one URB from "flight" to "done" and may mark it bad.
LEMMA ChipType == ASSUME TypeOK, Chip PROVE TypeOK'
<1>1. UNCHANGED <<fifoVars, streamVars, reaperVars, closerVars, readerVars>>
  BY DEF Chip
<1>2. KernelTypeOK'
  BY DEF Chip, ChipCompletes, TypeOK, KernelTypeOK
<1> QED
  BY <1>1, <1>2, FifoKept, StreamKept, ReaperKept, CloserKept, ReaderKept DEF TypeOK

\* A disconnect cancels what is in flight.
LEMMA DisconnectType == ASSUME TypeOK, Disconnect PROVE TypeOK'
<1>1. UNCHANGED <<fifoVars, streamVars, reaperVars, closerVars, readerVars>>
  BY DEF Disconnect
<1>2. KernelTypeOK'
  BY DEF Disconnect, Unplug, Cancelled, InState, TypeOK, KernelTypeOK
<1> QED
  BY <1>1, <1>2, FifoKept, StreamKept, ReaperKept, CloserKept, ReaderKept DEF TypeOK

\* What Read does outside startStream: the channel loses its head, the reader
\* moves on, its result is one of the outcomes (Read, ensureStream).
LEMMA ReaderType ==
  ASSUME TypeOK, NEW r \in Readers, ReadCaller(r) \/ ReadRuns(r) PROVE TypeOK'
<1>1. UNCHANGED <<kernelVars, streamVars, reaperVars, closerVars>>
  BY DEF ReadCaller, ReadRuns
<1>2. FifoTypeOK' /\ ReaderTypeOK'
  <2> USE DEF TypeOK, StreamTypeOK, FifoTypeOK, ReaderTypeOK, fifoVars, ReaderTo, ReadReturns, Outcomes
  <2>1. CASE ReadCall(r) BY <2>1 DEF ReadCall
  <2>2. CASE CancelContext(r) BY <2>2 DEF CancelContext
  <2>3. CASE EnterOnce(r) BY <2>3 DEF EnterOnce
  <2>4. CASE LeaveOnce(r) BY <2>4 DEF LeaveOnce
  <2>5. CASE ReadTakesChunk(r) BY <2>5 DEF ReadTakesChunk
  <2>6. CASE ReadIsCancelled(r) BY <2>6 DEF ReadIsCancelled
  <2>7. CASE ReadSeesEnd(r) BY <2>7 DEF ReadSeesEnd
  <2> QED BY <2>1, <2>2, <2>3, <2>4, <2>5, <2>6, <2>7 DEF ReadCaller, ReadRuns
<1> QED
  BY <1>1, <1>2, KernelKept, StreamKept, ReaperKept, CloserKept DEF TypeOK

\* startStream submits URBs of the ring only, and leaves streamDone and
\* streamErr at one of their values.
LEMMA StarterType ==
  ASSUME TypeOK, NEW r \in Readers, StartRuns(r) PROVE TypeOK'
<1>1. UNCHANGED <<fifoVars, closerVars, ctx, res, delivered>>
  BY DEF StartRuns
<1>2. KernelTypeOK' /\ StreamTypeOK' /\ ReaperTypeOK' /\ ReaderTypeOK'
  <2> USE <1>1 DEF TypeOK, KernelTypeOK, StreamTypeOK, ReaperTypeOK, ReaderTypeOK,
              kernelVars, streamVars, reaperVars, ReaderTo
  <2>1. CASE StartSubmits(r) BY <2>1 DEF StartSubmits, KernelSubmit
  <2>2. CASE StartSubmitFails(r) BY <2>2 DEF StartSubmitFails
  <2>3. CASE StartUnwinds(r) BY <2>3 DEF StartUnwinds, KernelDiscardAndReapAll
  <2>4. CASE StartLaunches(r) BY <2>4 DEF StartLaunches
  <2>5. CASE StartAssigns(r, "assignNil", "nil") BY <2>5 DEF StartAssigns
  <2>6. CASE StartAssigns(r, "assignErr", "err") BY <2>6 DEF StartAssigns
  <2> QED BY <2>1, <2>2, <2>3, <2>4, <2>5, <2>6 DEF StartRuns
<1> QED
  BY <1>1, <1>2, FifoKept, CloserKept DEF TypeOK

\* The reaper dispatches and resubmits only a URB of the ring.
LEMMA ReaperType == ASSUME TypeOK, ReaperInv, PendingAccounting, Reaper PROVE TypeOK'
<1>1. UNCHANGED <<closerVars, readerVars>>
  BY DEF Reaper
<1>2. KernelTypeOK' /\ FifoTypeOK' /\ StreamTypeOK' /\ ReaperTypeOK'
  <2> USE DEF TypeOK, KernelTypeOK, FifoTypeOK, StreamTypeOK, ReaperTypeOK,
              kernelVars, fifoVars, streamVars, ReaperTo, ReaperInv, ReaperHolds
  <2>1. CASE ReaperFinishes BY <2>1 DEF ReaperFinishes
  <2>2. CASE ReaperCallsReap BY <2>2 DEF ReaperCallsReap
  <2>3. ASSUME NEW u \in Urbs, ReaperReaps(u)
        PROVE KernelTypeOK' /\ FifoTypeOK' /\ StreamTypeOK' /\ ReaperTypeOK'
    BY <2>3 DEF ReaperReaps, KernelReap
  <2>4. CASE ReaperReapFails BY <2>4 DEF ReaperReapFails
  <2>5. CASE ReaperAccounts BY <2>5 DEF ReaperAccounts
  <2>6. CASE ReaperChecksStatus BY <2>6 DEF ReaperChecksStatus
  <2>7. CASE ReaperTriesSend BY <2>7 DEF ReaperTriesSend
  <2>8. CASE ReaperEvicts
    <3>1. chan # <<>> => Head(chan) \in Nat /\ Tail(chan) \in Seq(Nat)
      BY HeadTailProperties
    <3>2. CASE chan = <<>>
      BY <2>8, <3>2 DEF ReaperEvicts
    <3>3. CASE chan # <<>>
      <4>0. chan' = Tail(chan) /\ dropped' = dropped + 1
        BY <2>8, <3>3 DEF ReaperEvicts
      <4>1. chan' \in Seq(Nat) /\ dropped' \in Nat
        BY <3>1, <3>3, <4>0
      <4>2. lost' = lost \cup {Head(chan)} /\ lost \in SUBSET Nat
        BY <2>8, <3>3 DEF ReaperEvicts
      <4>3. lost' \in SUBSET Nat
        BY <3>1, <3>3, <4>2
      <4> QED BY <2>8, <4>1, <4>3 DEF ReaperEvicts
    <3> QED BY <3>2, <3>3
  <2>9. CASE ReaperResends
    <3>1. ord[urb] \in Nat
      BY <2>9 DEF ReaperResends
    <3>2. chan' = Append(chan, ord[urb]) \/ chan' = chan
      BY <2>9 DEF ReaperResends
    <3>3. chan' \in Seq(Nat) /\ dropped' \in Nat
      <4>1. chan' \in Seq(Nat)
        <5>1. Append(chan, ord[urb]) \in Seq(Nat)
          BY <3>1
        <5> QED BY <3>2, <5>1
      <4>2. dropped' = dropped \/ dropped' = dropped + 1
        BY <2>9 DEF ReaperResends
      <4> QED BY <4>1, <4>2
    <3>4. lost' \in SUBSET Nat
      <4>1. lost' = lost \/ lost' = lost \cup {ord[urb]}
        BY <2>9 DEF ReaperResends
      <4> QED BY <3>1, <4>1
    <3> QED BY <2>9, <3>3, <3>4 DEF ReaperResends
  <2>10. CASE ReaperSubmits BY <2>10 DEF ReaperSubmits, KernelSubmit
  <2>11. CASE ReaperSubmitFails BY <2>11 DEF ReaperSubmitFails
  <2>12. CASE ReaperFailType BY <2>12 DEF ReaperFailType
  <2>13. CASE ReaperFailData BY <2>13 DEF ReaperFailData
  <2> QED BY <2>1, <2>2, <2>3, <2>4, <2>5, <2>6, <2>7, <2>8, <2>9, <2>10, <2>11, <2>12, <2>13 DEF Reaper
<1> QED
  BY <1>1, <1>2, CloserKept, ReaderKept DEF TypeOK

\* The loop indices of Close and drainOrphanedURBs stay within the ring.
LEMMA CloserType ==
  ASSUME TypeOK, CloseInv, NEW c \in Closers, CloseCaller(c) \/ CloseRuns(c) PROVE TypeOK'
<1>1. UNCHANGED <<fifoVars, streamVars, reaperVars, readerVars>>
  BY DEF CloseCaller, CloseRuns
<1>2. KernelTypeOK' /\ CloserTypeOK'
  <2> USE DEF TypeOK, KernelTypeOK, CloserTypeOK, kernelVars, CloserTo
  <2>1. CASE CloseCall(c) BY <2>1 DEF CloseCall
  <2>2. CASE CloseChecksStream(c) BY <2>2 DEF CloseChecksStream
  <2>3. CASE CloseDiscards(c) BY <2>3 DEF CloseDiscards, KernelDiscard, CloseInv
  <2>4. CASE CloseWaits(c) BY <2>4 DEF CloseWaits
  <2>5. ASSUME NEW u \in Urbs, CloseDrains(c, u) PROVE KernelTypeOK' /\ CloserTypeOK'
    BY <2>5 DEF CloseDrains, KernelReap
  <2>6. CASE CloseDrained(c) BY <2>6 DEF CloseDrained
  <2>7. CASE CloseReleases(c) BY <2>7 DEF CloseReleases, KernelReleaseInterface, Cancelled, InState
  <2>8. CASE CloseClosesFd(c) BY <2>8 DEF CloseClosesFd, KernelCloseFd
  <2> QED BY <2>1, <2>2, <2>3, <2>4, <2>5, <2>6, <2>7, <2>8 DEF CloseCaller, CloseRuns
<1> QED
  BY <1>1, <1>2, FifoKept, StreamKept, ReaperKept, ReaderKept DEF TypeOK
----------------------------------------------------------------------------
(* What each process does to the kernel's URBs.                            *)

\* The ring is finite, and so is every set of its URBs.
LEMMA OwnedFacts ==
  ASSUME KernelTypeOK
  PROVE  /\ IsFiniteSet(Urbs) /\ Cardinality(Urbs) = NumURBs
         /\ IsFiniteSet(Owned) /\ Cardinality(Owned) \in Nat
         /\ IsFiniteSet(InState("done"))
         /\ Cardinality(InState("done")) \in 0..NumURBs
<1>1. IsFiniteSet(Urbs) /\ Cardinality(Urbs) = NumURBs
  BY FS_Interval
<1>2. Owned \subseteq Urbs /\ InState("done") \subseteq Urbs
  BY DEF Owned, InState
<1>3. IsFiniteSet(Owned) /\ Cardinality(Owned) \in Nat
  BY <1>1, <1>2, FS_Subset, FS_CardinalityType
<1>4. IsFiniteSet(InState("done")) /\ Cardinality(InState("done")) <= NumURBs
  BY <1>1, <1>2, FS_Subset
<1>5. Cardinality(InState("done")) \in Nat
  BY <1>4, FS_CardinalityType
<1> QED
  BY <1>1, <1>3, <1>4, <1>5

\* A reap under an open descriptor takes one URB from the kernel ...
LEMMA ReapTakesOne ==
  ASSUME KernelTypeOK, fdOpen, NEW u \in Urbs, KernelReap(u)
  PROVE  /\ u \in Owned /\ Owned' = Owned \ {u}
         /\ Cardinality(Owned)' = Cardinality(Owned) - 1
         /\ Cardinality(Owned) > 0
         /\ InState("done")' = InState("done") \ {u}
         /\ Cardinality(InState("done"))' = Cardinality(InState("done")) - 1
<1>1. u \in Owned /\ Owned' = Owned \ {u}
  BY DEF Owned, KernelReap, Reapable, KernelTypeOK
<1>2. u \in InState("done") /\ InState("done")' = InState("done") \ {u}
  BY DEF InState, KernelReap, Reapable, KernelTypeOK
<1>3. Cardinality(Owned \ {u}) = Cardinality(Owned) - 1
  BY <1>1, OwnedFacts, FS_RemoveElement
<1>4. Cardinality(InState("done") \ {u}) = Cardinality(InState("done")) - 1
  BY <1>2, OwnedFacts, FS_RemoveElement
<1>5. Cardinality(Owned) > 0
  BY <1>1, OwnedFacts, FS_EmptySet
<1> QED
  BY <1>1, <1>2, <1>3, <1>4, <1>5

\* ... and a submission gives it one.
LEMMA SubmitGivesOne ==
  ASSUME KernelTypeOK, NEW u \in Urbs, st[u] = "host", KernelSubmit(u)
  PROVE  Cardinality(Owned)' = Cardinality(Owned) + 1
<1>1. u \notin Owned /\ Owned' = Owned \cup {u}
  BY DEF Owned, KernelSubmit, KernelTypeOK
<1>2. Cardinality(Owned \cup {u}) = Cardinality(Owned) + 1
  BY <1>1, OwnedFacts, FS_AddElement
<1> QED
  BY <1>1, <1>2

\* Completions and cancellations move URBs out of flight and nowhere else.
Settles == 
  /\ Owned' = Owned
  /\ InState("flight")' \subseteq InState("flight")
  /\ \A u \in Urbs : st[u] = "host" => st'[u] = "host"
  /\ UNCHANGED <<submitted, fdOpen>>

\* A completion settles one URB.
LEMMA ChipSettles == ASSUME TypeOK, Chip PROVE Settles
  BY DEF TypeOK, KernelTypeOK, Chip, ChipCompletes, Settles, Owned, InState

\* A disconnect settles all of them: nothing is in flight any more.
LEMMA DisconnectSettles == ASSUME TypeOK, Disconnect PROVE Settles /\ InState("flight")' = {}
  BY DEF TypeOK, KernelTypeOK, Disconnect, Unplug, Cancelled, Settles, Owned, InState

\* DISCARDURB settles at most the URB it names, which is then not in flight.
LEMMA DiscardSettles ==
  ASSUME TypeOK, NEW u \in Urbs, KernelDiscard(u) PROVE Settles /\ st'[u] # "flight"
  BY DEF TypeOK, KernelTypeOK, KernelDiscard, Settles, Owned, InState

\* RELEASEINTERFACE settles whatever was in flight.
LEMMA ReleaseSettles == ASSUME TypeOK, KernelReleaseInterface PROVE Settles
  BY DEF TypeOK, KernelTypeOK, KernelReleaseInterface, Cancelled, Settles, Owned, InState
----------------------------------------------------------------------------
(* The invariant holds initially, and each process preserves it.           *)

\* Initially the kernel owns nothing and no goroutine has begun.
LEMMA InitIInv == Init => IInv
<1> SUFFICES ASSUME Init PROVE IInv
  OBVIOUS
<1>1. TypeOK
  BY InitType
<1>2. Owned = {} /\ InState("flight") = {}
  BY DEF Init, KernelInit, Owned, InState
<1>3. StartInv /\ PrefixInv /\ ReaperInv /\ KernelInv
  BY <1>2 DEF Init, KernelInit, StartInv, PrefixInv, ReaperInv, KernelInv, StartPcs, ReaperHolds
<1>4. PendingAccounting /\ FailedStartIsClean
  BY <1>2 DEF Init, KernelInit, PendingAccounting, FailedStartIsClean, ReaperLive, ReaperHolds
<1>5. CloseInv /\ DiscardInv /\ DrainInv /\ ReleaseInv
  BY <1>2 DEF Init, KernelInit, CloseInv, DiscardInv, DrainInv, ReleaseInv, ClosePcs
<1> QED
  BY <1>1, <1>3, <1>4, <1>5 DEF IInv

\* Whoever settles URBs and touches nothing else keeps the invariant: no part
\* of it needs a URB to be in flight rather than done.
LEMMA SettlingKeepsInv ==
  ASSUME IInv, TypeOK', Settles, ~plugged' => InState("flight")' = {},
         UNCHANGED <<fifoVars, streamVars, reaperVars, closerVars, readerVars>>
  PROVE  IInv'
<1> USE DEF IInv, Settles, fifoVars, streamVars, reaperVars, closerVars, readerVars
<1>1. \A u \in Urbs : st'[u] = "flight" => st[u] = "flight"
  BY DEF InState
<1>2. \A u \in Urbs : (st'[u] = "host") = (st[u] = "host")
  BY DEF Owned
<1>3. StartInv'
  BY DEF StartInv
<1>4. PrefixInv'
  BY <1>2 DEF PrefixInv
<1>5. ReaperInv'
  BY <1>2 DEF ReaperInv, ReaperHolds
<1>6. KernelInv'
  BY DEF KernelInv
<1>7. PendingAccounting'
  BY DEF PendingAccounting, ReaperLive, ReaperHolds
<1>8. CloseInv'
  BY DEF CloseInv
<1>9. DiscardInv'
  BY <1>1 DEF DiscardInv, PastClosedCheck
<1>10. DrainInv'
  <2> SUFFICES ASSUME NEW c \in Closers, cp[c] = "drain"
               PROVE  /\ rp = "exit" /\ InState("flight")' = {}
                      /\ Cardinality(InState("done"))' + cursor <= NumURBs
    BY DEF DrainInv
  <2>1. InState("flight")' = {} /\ InState("flight") = {}
    BY DEF DrainInv
  <2>2. InState("done") = Owned /\ InState("done")' = Owned'
    BY <2>1 DEF InState, Owned, TypeOK, KernelTypeOK
  <2> QED
    BY <2>1, <2>2 DEF DrainInv
<1>11. ReleaseInv'
  BY DEF ReleaseInv
<1>12. FailedStartIsClean'
  BY DEF FailedStartIsClean
<1> QED
  BY <1>3, <1>4, <1>5, <1>6, <1>7, <1>8, <1>9, <1>10, <1>11, <1>12

\* The chip may complete transfers at any moment.
LEMMA ChipInv == ASSUME IInv, Chip PROVE IInv'
<1>1. TypeOK' /\ Settles
  BY ChipType, ChipSettles DEF IInv
<1>2. ~plugged' => InState("flight")' = {}
  BY DEF Chip, ChipCompletes
<1>3. UNCHANGED <<fifoVars, streamVars, reaperVars, closerVars, readerVars>>
  BY DEF Chip
<1> QED
  BY <1>1, <1>2, <1>3, SettlingKeepsInv

\* The dongle may disappear at any moment.
LEMMA DisconnectInv == ASSUME IInv, Disconnect PROVE IInv'
<1>1. TypeOK' /\ Settles /\ InState("flight")' = {}
  BY DisconnectType, DisconnectSettles DEF IInv
<1>2. UNCHANGED <<fifoVars, streamVars, reaperVars, closerVars, readerVars>>
  BY DEF Disconnect
<1> QED
  BY <1>1, <1>2, SettlingKeepsInv

\* Read outside startStream touches neither the kernel nor the reaper; the
\* reader that enters startStream is the first and only one (sync.Once).
LEMMA ReaderInv ==
  ASSUME IInv, NEW r \in Readers, ReadCaller(r) \/ ReadRuns(r) PROVE IInv'
<1>1. TypeOK'
  BY ReaderType DEF IInv
<1>2. UNCHANGED <<kernelVars, streamVars, reaperVars, closerVars>>
  BY DEF ReadCaller, ReadRuns
<1>3. UNCHANGED <<InState("flight"), InState("done"), Owned>>
  BY <1>2 DEF kernelVars, InState, Owned
<1>4. /\ once' = once \/ (once = "new" /\ once' = "running")
      /\ \A q \in Readers : rd'[q] \in StartPcs /\ rd[q] \notin StartPcs =>
            q = r /\ rd'[q] = "start" /\ once = "new" /\ once' = "running"
      /\ \A q \in Readers : rd[q] \in StartPcs => rd'[q] = rd[q]
  <2> USE DEF IInv, TypeOK, ReaderTypeOK, StreamTypeOK, StartPcs, ReaderTo, ReadReturns
  <2>1. CASE ReadCall(r) BY <2>1 DEF ReadCall
  <2>2. CASE CancelContext(r) BY <2>2 DEF CancelContext
  <2>3. CASE EnterOnce(r) BY <2>3 DEF EnterOnce
  <2>4. CASE LeaveOnce(r) BY <2>4 DEF LeaveOnce
  <2>5. CASE ReadTakesChunk(r) BY <2>5 DEF ReadTakesChunk
  <2>6. CASE ReadIsCancelled(r) BY <2>6 DEF ReadIsCancelled
  <2>7. CASE ReadSeesEnd(r) BY <2>7 DEF ReadSeesEnd
  <2> QED BY <2>1, <2>2, <2>3, <2>4, <2>5, <2>6, <2>7 DEF ReadCaller, ReadRuns
<1> USE DEF kernelVars, streamVars, reaperVars, closerVars
<1>5. StartInv'
  BY <1>2, <1>3, <1>4 DEF IInv, StartInv, StartPcs
<1>6. PrefixInv'
  BY <1>2, <1>4 DEF IInv, PrefixInv, StartInv, StartPcs, Owned
<1>7. ReaperInv' /\ KernelInv' /\ PendingAccounting'
  BY <1>2, <1>3 DEF IInv, ReaperInv, KernelInv, PendingAccounting, ReaperLive, ReaperHolds
<1>8. CloseInv' /\ DiscardInv' /\ DrainInv' /\ ReleaseInv'
  BY <1>2, <1>3 DEF IInv, CloseInv, DiscardInv, DrainInv, ReleaseInv, PastClosedCheck
<1>9. FailedStartIsClean'
  BY <1>2, <1>3, <1>4 DEF IInv, FailedStartIsClean
<1> QED
  BY <1>1, <1>5, <1>6, <1>7, <1>8, <1>9 DEF IInv

\* startStream: submissions fill the ring from its start, a failure unwinds to
\* nothing owned, and the reaper is launched with pending = the whole ring.
LEMMA StarterInv == ASSUME IInv, NEW r \in Readers, StartRuns(r) PROVE IInv'
<1>1. TypeOK'
  BY StarterType DEF IInv
<1>2. UNCHANGED <<chan, dropped, lost, closed, cp, cursor, sawStream, closeErr>>
  BY DEF StartRuns, fifoVars, closerVars
<1>3. rd[r] \in StartPcs
  BY DEF StartRuns, StartSubmits, StartSubmitFails, StartUnwinds, StartLaunches, StartAssigns,
         ReaderTo, StartPcs
<1>4. once = "running" /\ \A q \in Readers : rd[q] \in StartPcs => q = r
  BY <1>3 DEF IInv, StartInv
<1>5. CASE StartSubmits(r)
  <2>1. /\ submitted < NumURBs /\ rd[r] = "start" /\ rd' = rd /\ once' = once
        /\ UNCHANGED <<streamVars, reaperVars, plugged, fdOpen>>
        /\ fdOpen /\ plugged
        /\ submitted' = submitted + 1
        /\ st' = [st EXCEPT ![submitted + 1] = "flight"]
    BY <1>5 DEF StartSubmits, KernelSubmit, CanSubmit, ReaderTo, IInv, TypeOK, ReaderTypeOK
  <2>2. rp = "off" /\ streamDone = "nil" /\ rp' = "off" /\ streamDone' = "nil"
    BY <1>3, <2>1 DEF IInv, StartInv, ReaperInv, streamVars, reaperVars
  <2>3. StartInv'
    BY <1>4, <2>1, <2>2 DEF IInv, StartInv, StartPcs
  <2>4. PrefixInv'
    BY <1>4, <2>1 DEF IInv, PrefixInv, StartPcs, TypeOK, KernelTypeOK
  <2>5. ReaperInv' /\ KernelInv' /\ PendingAccounting' /\ FailedStartIsClean'
    BY <1>4, <2>1, <2>2 DEF IInv, ReaperInv, KernelInv, PendingAccounting, ReaperLive,
                            ReaperHolds, FailedStartIsClean
  <2>6. CloseInv' /\ DiscardInv' /\ DrainInv' /\ ReleaseInv'
    BY <1>2, <2>1, <2>2 DEF IInv, CloseInv, DiscardInv, DrainInv, ReleaseInv, PastClosedCheck,
                            ClosePcs
  <2> QED
    BY <1>1, <2>3, <2>4, <2>5, <2>6 DEF IInv
<1>6. CASE StartUnwinds(r)
  <2>1. /\ rd[r] = "unwind" /\ rd' = [rd EXCEPT ![r] = "assignErr"] /\ once' = once
        /\ UNCHANGED <<streamVars, reaperVars, plugged, fdOpen, submitted>>
        /\ st' = IF fdOpen THEN [u \in Urbs |-> "host"] ELSE st
    BY <1>6 DEF StartUnwinds, KernelDiscardAndReapAll, ReaderTo
  <2>2. rp = "off" /\ streamDone = "nil" /\ rp' = "off" /\ streamDone' = "nil"
    BY <1>3, <2>1 DEF IInv, StartInv, ReaperInv, streamVars, reaperVars
  <2>3. Owned' = {}
    BY <2>1, <2>2 DEF IInv, KernelInv, Owned
  <2>4. StartInv'
    BY <1>4, <2>1, <2>2, <2>3 DEF IInv, StartInv, StartPcs, TypeOK, ReaderTypeOK
  <2>5. PrefixInv'
    BY <1>4, <2>1 DEF PrefixInv, StartPcs, IInv, TypeOK, ReaderTypeOK
  <2>6. InState("flight")' = {}
    BY <2>3 DEF InState, Owned
  <2>7. ReaperInv' /\ KernelInv' /\ PendingAccounting' /\ FailedStartIsClean'
    BY <1>4, <2>1, <2>2, <2>3, <2>6 DEF IInv, ReaperInv, KernelInv, PendingAccounting, ReaperLive,
                            ReaperHolds, FailedStartIsClean
  <2>8. CloseInv' /\ DiscardInv' /\ DrainInv' /\ ReleaseInv'
    BY <1>2, <2>1, <2>2 DEF IInv, CloseInv, DiscardInv, DrainInv, ReleaseInv, PastClosedCheck,
                            ClosePcs
  <2> QED
    BY <1>1, <2>4, <2>5, <2>7, <2>8 DEF IInv
<1>7. CASE StartSubmitFails(r)
  <2>1. /\ rd[r] = "start" /\ rd' = [rd EXCEPT ![r] = "unwind"] /\ once' = once
        /\ UNCHANGED <<kernelVars, streamVars, reaperVars>>
    BY <1>7 DEF StartSubmitFails, ReaderTo
  <2>2. UNCHANGED <<Owned, InState("flight"), InState("done")>>
    BY <2>1 DEF kernelVars, Owned, InState
  <2> USE DEF kernelVars, streamVars, reaperVars
  <2>3. rp = "off" /\ streamDone = "nil" /\ rp' = "off" /\ streamDone' = "nil"
    BY <1>3, <2>1 DEF IInv, StartInv, ReaperInv
  <2>4. StartInv' /\ PrefixInv'
    BY <1>4, <2>1, <2>2, <2>3 DEF IInv, StartInv, PrefixInv, StartPcs, TypeOK, ReaderTypeOK
  <2>5. ReaperInv' /\ KernelInv' /\ PendingAccounting' /\ FailedStartIsClean'
    BY <1>4, <2>1, <2>2, <2>3 DEF IInv, ReaperInv, KernelInv, PendingAccounting, ReaperLive,
                            ReaperHolds, FailedStartIsClean
  <2>6. CloseInv' /\ DiscardInv' /\ DrainInv' /\ ReleaseInv'
    BY <1>2, <2>1, <2>2 DEF IInv, CloseInv, DiscardInv, DrainInv, ReleaseInv, PastClosedCheck,
                            ClosePcs
  <2> QED
    BY <1>1, <2>4, <2>5, <2>6 DEF IInv
<1>8. CASE StartLaunches(r)
  <2>1. /\ rd[r] = "start" /\ rd' = [rd EXCEPT ![r] = "assignNil"] /\ once' = once
        /\ UNCHANGED <<kernelVars, streamErr, urb>>
        /\ submitted = NumURBs /\ streamDone' = "open" /\ rp' = "loop" /\ pending' = NumURBs
    BY <1>8 DEF StartLaunches, ReaderTo
  <2>2. UNCHANGED <<Owned, InState("flight"), InState("done")>>
    BY <2>1 DEF kernelVars, Owned, InState
  <2> USE DEF kernelVars
  <2>3. rp = "off" /\ streamDone = "nil"
    BY <1>3, <2>1 DEF IInv, StartInv, ReaperInv
  <2>4. StartInv' /\ PrefixInv'
    BY <1>4, <2>1, <2>2, <2>3 DEF IInv, StartInv, PrefixInv, StartPcs, TypeOK, ReaderTypeOK
  <2>5. ReaperInv' /\ KernelInv' /\ FailedStartIsClean'
    BY <1>4, <2>1, <2>2, <2>3 DEF IInv, ReaperInv, KernelInv, ReaperHolds, FailedStartIsClean
  <2>6. PendingAccounting'
    <3>1. fdOpen => Owned = Urbs
      BY <2>1 DEF IInv, PrefixInv, Owned
    <3>2. fdOpen => Cardinality(Owned) = NumURBs
      BY <3>1, OwnedFacts DEF IInv, TypeOK
    <3>3. Cardinality(Owned)' = Cardinality(Owned)
      BY <2>2
    <3> QED BY <2>1, <3>2, <3>3 DEF PendingAccounting, ReaperHolds
  <2>7. CloseInv' /\ DiscardInv' /\ DrainInv' /\ ReleaseInv'
    BY <1>2, <2>1, <2>2, <2>3 DEF IInv, CloseInv, DiscardInv, DrainInv, ReleaseInv, PastClosedCheck,
                            ClosePcs
  <2> QED
    BY <1>1, <2>4, <2>5, <2>6, <2>7 DEF IInv
<1>9. ASSUME NEW from \in {"assignNil", "assignErr"}, NEW err \in {"nil", "err"},
             (from = "assignErr") = (err = "err"), StartAssigns(r, from, err)
      PROVE IInv'
  <2>1. /\ rd[r] = from /\ rd' = [rd EXCEPT ![r] = "ensure"] /\ once' = "done"
        /\ UNCHANGED <<kernelVars, reaperVars, streamDone>> /\ streamErr' = err
    BY <1>9 DEF StartAssigns, ReaderTo
  <2>2. UNCHANGED <<Owned, InState("flight"), InState("done")>>
    BY <2>1 DEF kernelVars, Owned, InState
  <2> USE DEF kernelVars, reaperVars
  <2>3. /\ from = "assignErr" => rp = "off" /\ streamDone = "nil" /\ Owned = {}
        /\ from = "assignNil" => rp # "off" /\ streamDone # "nil"
    BY <1>3, <2>1 DEF IInv, StartInv, ReaperInv
  <2>4. StartInv' /\ PrefixInv'
    BY <1>4, <2>1, <2>2, <2>3 DEF IInv, StartInv, PrefixInv, StartPcs, TypeOK, ReaderTypeOK
  <2>5. ReaperInv' /\ KernelInv' /\ PendingAccounting'
    BY <2>1, <2>2 DEF IInv, ReaperInv, KernelInv, PendingAccounting, ReaperLive, ReaperHolds
  <2>6. FailedStartIsClean'
    BY <1>9, <2>1, <2>2, <2>3 DEF FailedStartIsClean
  <2>7. CloseInv' /\ DiscardInv' /\ DrainInv' /\ ReleaseInv'
    BY <1>2, <2>1, <2>2 DEF IInv, CloseInv, DiscardInv, DrainInv, ReleaseInv, PastClosedCheck,
                            ClosePcs
  <2> QED
    BY <1>1, <2>4, <2>5, <2>6, <2>7 DEF IInv
<1> QED
  BY <1>5, <1>6, <1>7, <1>8, <1>9 DEF StartRuns

\* The reaper keeps pending exact, and it never resubmits behind a Close that
\* it has not yet seen without coming back to the test of closed.
LEMMA ReaperStepInv == ASSUME IInv, Reaper PROVE IInv'
<1>1. TypeOK'
  BY ReaperType DEF IInv
<1>2. UNCHANGED <<closerVars, readerVars>>
  BY DEF Reaper
<1>3. rp # "off" /\ streamDone # "nil" /\ rp # "exit"
  BY DEF IInv, ReaperInv, Reaper, ReaperFinishes, ReaperCallsReap, ReaperReaps, ReaperReapFails,
         ReaperAccounts, ReaperChecksStatus, ReaperTriesSend, ReaperEvicts, ReaperResends,
         ReaperSubmits, ReaperSubmitFails, ReaperFailType, ReaperFailData, ReaperTo
<1>4. once # "new" /\ \A r \in Readers : rd[r] \in StartPcs => rd[r] = "assignNil"
  BY <1>3 DEF IInv, StartInv, StartPcs
<1>5. \A c \in Closers : cp[c] \notin {"drain"} /\ (cp[c] \in {"release", "closeFd"} => ~sawStream)
  BY <1>3 DEF IInv, DrainInv, ReleaseInv
<1>6. \A c \in Closers : cp[c] \in ClosePcs => closed /\ fdOpen
  BY DEF IInv, CloseInv
<1>7. ASSUME rp' # "off", streamDone' # "nil" PROVE StartInv' /\ PrefixInv' /\ FailedStartIsClean'
  BY <1>2, <1>4, <1>7 DEF IInv, StartInv, PrefixInv, FailedStartIsClean, StartPcs, readerVars
<1>8. ASSUME rp' # "off", fdOpen' = fdOpen
      PROVE CloseInv' /\ DrainInv' /\ ReleaseInv'
  BY <1>2, <1>5, <1>8 DEF IInv, CloseInv, DrainInv, ReleaseInv, ClosePcs, closerVars
<1>9. KernelTypeOK /\ ReaperTypeOK /\ ReaperInv /\ KernelInv /\ PendingAccounting /\ DiscardInv
  BY DEF IInv, TypeOK
<1>10. CASE ReaperFinishes
  <2>1. /\ rp = "loop" /\ rp' = "exit" /\ pending = 0 /\ streamDone' = "closed"
        /\ UNCHANGED <<kernelVars, urb, pending>>
    BY <1>10 DEF ReaperFinishes, ReaperTo
  <2>2. UNCHANGED <<Owned, InState("flight"), InState("done")>>
    BY <2>1 DEF kernelVars, Owned, InState
  <2>3. fdOpen => Owned = {} /\ \A u \in Urbs : st'[u] # "flight"
    <3>1. fdOpen => Cardinality(Owned) = 0
      BY <1>9, <2>1, OwnedFacts DEF PendingAccounting, ReaperLive, ReaperHolds
    <3>2. fdOpen => Owned = {}
      BY <1>9, <3>1, OwnedFacts, FS_EmptySet
    <3> QED BY <2>1, <3>2 DEF Owned, kernelVars
  <2>4. ReaperInv' /\ KernelInv' /\ PendingAccounting'
    BY <1>9, <2>1, <2>2 DEF ReaperInv, KernelInv, PendingAccounting, ReaperLive, ReaperHolds, kernelVars
  <2>5. DiscardInv'
    BY <1>2, <1>6, <2>3 DEF DiscardInv, ClosePcs, closerVars
  <2> QED
    BY <1>1, <1>7, <1>8, <2>1, <2>4, <2>5 DEF IInv, kernelVars
<1>11. CASE ReaperCallsReap
  <2>1. /\ rp = "loop" /\ rp' = IF fdOpen THEN "reaping" ELSE "failType"
        /\ pending > 0 /\ UNCHANGED <<kernelVars, streamDone, urb, pending>>
    BY <1>11 DEF ReaperCallsReap, ReaperTo, streamVars
  <2>2. UNCHANGED <<Owned, InState("flight"), InState("done")>>
    BY <2>1 DEF kernelVars, Owned, InState
  <2>3. ReaperInv' /\ KernelInv' /\ PendingAccounting'
    BY <1>3, <1>9, <2>1, <2>2 DEF ReaperInv, KernelInv, PendingAccounting, ReaperLive, ReaperHolds,
       kernelVars
  <2>4. DiscardInv'
    BY <1>2, <1>6, <2>1 DEF DiscardInv, ClosePcs, PastClosedCheck, closerVars
  <2> QED
    BY <1>1, <1>3, <1>7, <1>8, <2>1, <2>3, <2>4 DEF IInv, kernelVars
<1>12. ASSUME NEW u \in Urbs, ReaperReaps(u) PROVE IInv'
  <2>1. /\ rp = "reaping" /\ rp' = "check" /\ urb' = u /\ KernelReap(u)
        /\ UNCHANGED <<plugged, fdOpen, streamDone, pending>>
    BY <1>12 DEF ReaperReaps, ReaperTo, streamVars, KernelReap
  <2>2. /\ st'[u] = "host" /\ Owned' \subseteq Owned /\ InState("flight")' \subseteq InState("flight")
        /\ ~fdOpen => Owned' = {}
    BY <1>9, <2>1 DEF KernelReap, KernelTypeOK, Owned, InState
  <2>3. ReaperInv' /\ KernelInv'
    BY <1>3, <1>9, <2>1, <2>2 DEF ReaperInv, KernelInv, ReaperHolds
  <2>4. PendingAccounting'
    <3>1. fdOpen => pending = Cardinality(Owned) /\ Cardinality(Owned)' = Cardinality(Owned) - 1
      BY <1>9, <2>1, ReapTakesOne, OwnedFacts DEF PendingAccounting, ReaperLive, ReaperHolds
    <3>2. Cardinality(Owned) \in Nat
      BY <1>9, OwnedFacts
    <3> QED BY <2>1, <3>1, <3>2 DEF PendingAccounting, ReaperHolds
  <2>5. DiscardInv'
    BY <2>1 DEF DiscardInv, PastClosedCheck
  <2> QED
    BY <1>1, <1>3, <1>7, <1>8, <2>1, <2>3, <2>4, <2>5 DEF IInv
<1>13. CASE ReaperReapFails
  <2>1. /\ rp = "reaping" /\ rp' = "failType" /\ ~plugged /\ InState("done") = {}
        /\ UNCHANGED <<kernelVars, streamDone, urb, pending>>
    BY <1>13 DEF ReaperReapFails, ReaperTo, streamVars
  <2>2. InState("flight") = {}
    BY <1>9, <2>1 DEF KernelInv
  <2>3. Owned' = {} /\ InState("flight")' = {}
    BY <1>9, <2>1, <2>2 DEF kernelVars, Owned, InState, KernelTypeOK
  <2>4. ReaperInv' /\ KernelInv' /\ PendingAccounting'
    BY <1>3, <1>9, <2>1, <2>3 DEF ReaperInv, KernelInv, PendingAccounting, ReaperLive, ReaperHolds
  <2>5. DiscardInv'
    BY <2>3 DEF DiscardInv, InState
  <2> QED
    BY <1>1, <1>3, <1>7, <1>8, <2>1, <2>4, <2>5 DEF IInv, kernelVars
<1>14. CASE ReaperAccounts
  <2>1. /\ rp = "check" /\ rp' = "loop" /\ pending' = pending - 1
        /\ UNCHANGED <<kernelVars, streamDone, urb>>
    BY <1>14 DEF ReaperAccounts, ReaperTo, streamVars
  <2>2. UNCHANGED <<Owned, InState("flight"), InState("done")>>
    BY <2>1 DEF kernelVars, Owned, InState
  <2>3. ReaperInv' /\ KernelInv'
    BY <1>3, <1>9, <2>1, <2>2 DEF ReaperInv, KernelInv, ReaperHolds, kernelVars
  <2>4. PendingAccounting'
    <3>1. fdOpen => pending = Cardinality(Owned) + 1
      BY <1>9, <2>1 DEF PendingAccounting, ReaperLive, ReaperHolds
    <3>2. Cardinality(Owned) \in Nat /\ Cardinality(Owned)' = Cardinality(Owned)
      BY <1>9, <2>2, OwnedFacts
    <3> QED BY <2>1, <3>1, <3>2 DEF PendingAccounting, ReaperHolds, kernelVars
  <2>5. DiscardInv'
    BY <2>1 DEF DiscardInv, PastClosedCheck
  <2> QED
    BY <1>1, <1>3, <1>7, <1>8, <2>1, <2>3, <2>4, <2>5 DEF IInv, kernelVars
<1>15. CASE ReaperChecksStatus
  <2>1. /\ rp = "check" /\ rp' \in {"failType", "try"} /\ ~closed
        /\ UNCHANGED <<kernelVars, streamDone, urb, pending>>
    BY <1>15 DEF ReaperChecksStatus, ReaperTo, streamVars
  <2>2. UNCHANGED <<Owned, InState("flight"), InState("done")>>
    BY <2>1 DEF kernelVars, Owned, InState
  <2>3. ReaperInv' /\ KernelInv' /\ PendingAccounting'
    BY <1>3, <1>9, <2>1, <2>2 DEF ReaperInv, KernelInv, PendingAccounting, ReaperLive, ReaperHolds,
       kernelVars
  <2>4. DiscardInv'
    BY <1>2, <1>6, <2>1 DEF DiscardInv, ClosePcs, closerVars
  <2> QED
    BY <1>1, <1>3, <1>7, <1>8, <2>1, <2>3, <2>4 DEF IInv, kernelVars
<1>16. CASE ReaperSubmits
  <2>1. /\ rp = "submit" /\ rp' = "loop" /\ KernelSubmit(urb) /\ plugged /\ fdOpen
        /\ UNCHANGED <<streamDone, urb, pending, fdOpen, plugged>>
    BY <1>16 DEF ReaperSubmits, ReaperTo, streamVars, KernelSubmit, CanSubmit
  <2>2. urb \in Urbs /\ st[urb] = "host"
    BY <1>9, <2>1 DEF ReaperInv, ReaperHolds
  <2>3. ReaperInv' /\ KernelInv'
    BY <1>3, <1>9, <2>1 DEF ReaperInv, KernelInv, ReaperHolds
  <2>4. PendingAccounting'
    <3>1. pending = Cardinality(Owned) + 1
      BY <1>9, <2>1 DEF PendingAccounting, ReaperLive, ReaperHolds
    <3>2. Cardinality(Owned)' = Cardinality(Owned) + 1
      BY <1>9, <2>1, <2>2, SubmitGivesOne
    <3>3. Cardinality(Owned) \in Nat
      BY <1>9, OwnedFacts
    <3> QED BY <2>1, <3>1, <3>2, <3>3 DEF PendingAccounting, ReaperHolds
  <2>5. DiscardInv'
    BY <2>1 DEF DiscardInv, PastClosedCheck
  <2> QED
    BY <1>1, <1>3, <1>7, <1>8, <2>1, <2>3, <2>4, <2>5 DEF IInv
<1>17. CASE ReaperTriesSend \/ ReaperEvicts \/ ReaperResends
  <2>1. /\ rp \in {"try", "evict", "resend"} /\ rp' \in {"submit", "evict", "resend"}
        /\ UNCHANGED <<kernelVars, streamDone, urb, pending>>
    BY <1>17 DEF ReaperTriesSend, ReaperEvicts, ReaperResends, ReaperTo, streamVars
  <2>2. UNCHANGED <<Owned, InState("flight"), InState("done")>>
    BY <2>1 DEF kernelVars, Owned, InState
  <2>3. ReaperInv' /\ KernelInv' /\ PendingAccounting'
    BY <1>3, <1>9, <2>1, <2>2 DEF ReaperInv, KernelInv, PendingAccounting, ReaperLive, ReaperHolds,
       kernelVars
  <2>4. DiscardInv'
    BY <1>2, <1>9, <2>1 DEF DiscardInv, PastClosedCheck, closerVars, kernelVars
  <2> QED
    BY <1>1, <1>3, <1>7, <1>8, <2>1, <2>3, <2>4 DEF IInv, kernelVars
<1>18. CASE ReaperSubmitFails \/ ReaperFailType \/ ReaperFailData
  <2>1. /\ rp \in {"submit", "failType", "failData"} /\ rp' \in {"failType", "failData", "exit"}
        /\ streamDone' = IF rp' = "exit" THEN "closed" ELSE streamDone
        /\ UNCHANGED <<kernelVars, urb, pending>>
    BY <1>18 DEF ReaperSubmitFails, ReaperFailType, ReaperFailData, ReaperTo, streamVars
  <2>2. UNCHANGED <<Owned, InState("flight"), InState("done")>>
    BY <2>1 DEF kernelVars, Owned, InState
  <2>3. ReaperInv' /\ KernelInv' /\ PendingAccounting'
    BY <1>3, <1>9, <2>1, <2>2 DEF ReaperInv, KernelInv, PendingAccounting, ReaperLive, ReaperHolds,
       kernelVars
  <2>4. DiscardInv'
    BY <1>2, <1>9, <2>1 DEF DiscardInv, PastClosedCheck, closerVars, kernelVars
  <2> QED
    BY <1>1, <1>3, <1>7, <1>8, <2>1, <2>3, <2>4 DEF IInv, kernelVars
<1> QED
  BY <1>10, <1>11, <1>12, <1>13, <1>14, <1>15, <1>16, <1>17, <1>18 DEF Reaper

\* Close: discarding, waiting and draining leave nothing for the release.
LEMMA CloserInv ==
  ASSUME IInv, NEW c \in Closers, CloseCaller(c) \/ CloseRuns(c) PROVE IInv'
<1>1. TypeOK'
  BY CloserType DEF IInv
<1>2. UNCHANGED <<fifoVars, streamVars, reaperVars, readerVars>>
  BY DEF CloseCaller, CloseRuns
<1>3. UNCHANGED <<rp, urb, pending, streamDone, streamErr, rd, once>>
  BY <1>2 DEF streamVars, reaperVars, readerVars
<1>4. KernelTypeOK /\ CloserTypeOK /\ ReaperInv /\ KernelInv /\ PendingAccounting /\ CloseInv
      /\ DiscardInv /\ DrainInv /\ ReleaseInv
  BY DEF IInv, TypeOK
<1>5. \A d \in Closers : cp[c] \in ClosePcs /\ d # c => cp[d] \notin ClosePcs
  BY <1>4 DEF CloseInv
<1>6. cp[c] \in ClosePcs => closed /\ fdOpen
  BY <1>4 DEF CloseInv
\* Two kinds of step: those that leave the kernel alone ...
<1>7. ASSUME UNCHANGED kernelVars PROVE StartInv' /\ PrefixInv' /\ ReaperInv' /\ KernelInv'
                                        /\ PendingAccounting' /\ FailedStartIsClean'
  <2>1. UNCHANGED <<Owned, InState("flight")>>
    BY <1>7 DEF kernelVars, Owned, InState
  <2> QED
    BY <1>3, <1>7, <2>1 DEF kernelVars, IInv, StartInv, PrefixInv, ReaperInv, KernelInv,
       PendingAccounting, FailedStartIsClean, ReaperLive, ReaperHolds
<1>8. CASE CloseCall(c)
  <2>1. /\ cp[c] = "idle" /\ cp' = [cp EXCEPT ![c] = IF closed THEN "returned" ELSE "check"]
        /\ closed' = TRUE /\ UNCHANGED <<kernelVars, cursor, sawStream>>
    BY <1>8 DEF CloseCall, CloserTo
  <2>2. \A d \in Closers : d # c => cp'[d] = cp[d]
    BY <1>4, <2>1 DEF CloserTypeOK
  <2>3. cp'[c] \in {"returned", "check"} /\ (cp'[c] = "check" => ~closed)
    BY <1>4, <2>1 DEF CloserTypeOK
  <2>4. CloseInv'
    BY <1>3, <1>4, <2>1, <2>2, <2>3 DEF CloseInv, ClosePcs, kernelVars
  <2>5. UNCHANGED <<Owned, InState("flight"), InState("done")>>
    BY <2>1 DEF kernelVars, Owned, InState
  <2>6. DiscardInv' /\ DrainInv' /\ ReleaseInv'
    BY <1>3, <1>4, <2>1, <2>2, <2>3, <2>5 DEF DiscardInv, DrainInv, ReleaseInv, PastClosedCheck,
       kernelVars
  <2> QED
    BY <1>1, <1>7, <2>1, <2>4, <2>6 DEF IInv
<1>9. CASE CloseChecksStream(c)
  <2>1. /\ cp[c] = "check" /\ cp' = [cp EXCEPT ![c] = IF streamDone # "nil" THEN "discard" ELSE "release"]
        /\ sawStream' = (streamDone # "nil") /\ UNCHANGED <<kernelVars, closed, cursor>>
    BY <1>9 DEF CloseChecksStream, CloserTo
  <2>2. \A d \in Closers : d # c => cp'[d] \notin ClosePcs
    BY <1>4, <1>5, <2>1 DEF CloserTypeOK, ClosePcs
  <2>3. cp'[c] = IF sawStream' THEN "discard" ELSE "release"
    BY <1>4, <2>1 DEF CloserTypeOK
  <2>4. cursor = 0 /\ closed /\ fdOpen
    BY <1>4, <1>6, <2>1 DEF CloseInv, ClosePcs
  <2>5. sawStream' => rp' # "off"
    BY <1>3, <1>4, <2>1 DEF ReaperInv
  <2>6. CloseInv'
    BY <2>1, <2>2, <2>3, <2>4, <2>5 DEF CloseInv, ClosePcs, kernelVars
  <2>7. DiscardInv' /\ DrainInv' /\ ReleaseInv'
    BY <2>1, <2>2, <2>3, <2>4 DEF DiscardInv, DrainInv, ReleaseInv, ClosePcs
  <2> QED
    BY <1>1, <1>7, <2>1, <2>6, <2>7 DEF IInv
<1>10. CASE CloseDiscards(c)
  <2>1. /\ cp[c] = "discard"
        /\ cp' = [cp EXCEPT ![c] = IF cursor + 1 = NumURBs THEN "wait" ELSE "discard"]
        /\ KernelDiscard(cursor + 1) /\ cursor' = cursor + 1 /\ UNCHANGED <<closed, sawStream, fdOpen, plugged>>
    BY <1>10 DEF CloseDiscards, CloserTo, KernelDiscard
  <2>2. \A d \in Closers : d # c => cp'[d] \notin ClosePcs
    BY <1>4, <1>5, <2>1 DEF CloserTypeOK, ClosePcs
  <2>3. cp'[c] = IF cursor + 1 = NumURBs THEN "wait" ELSE "discard"
    BY <1>4, <2>1 DEF CloserTypeOK
  <2>4. cursor \in Nat /\ cursor < NumURBs /\ closed /\ fdOpen /\ sawStream /\ rp # "off"
    BY <1>4, <1>6, <2>1 DEF CloseInv, ClosePcs, CloserTypeOK
  <2>5. CloseInv'
    BY <1>3, <2>1, <2>2, <2>3, <2>4 DEF CloseInv, ClosePcs
  <2>6. Settles /\ st'[cursor + 1] # "flight"
    BY <2>1, <2>4, DiscardSettles DEF IInv
  <2>7. \A u \in Urbs : /\ st'[u] = "flight" => st[u] = "flight"
                        /\ (st'[u] = "host") = (st[u] = "host")
    BY <2>6 DEF Settles, InState, Owned
  <2>8. StartInv' /\ PrefixInv'
    BY <1>3, <2>6, <2>7 DEF IInv, StartInv, PrefixInv, Settles
  <2>9. ReaperInv' /\ KernelInv' /\ PendingAccounting' /\ FailedStartIsClean'
    BY <1>3, <1>4, <2>1, <2>6, <2>7 DEF IInv, ReaperInv, KernelInv, PendingAccounting, FailedStartIsClean,
       ReaperLive, ReaperHolds, Settles
  <2>10. DiscardInv'
    <3>1. PastClosedCheck => \A u \in Urbs : u <= cursor + 1 => st'[u] # "flight"
      BY <1>4, <2>1, <2>4, <2>6, <2>7 DEF DiscardInv
    <3> QED BY <1>3, <2>1, <2>2, <3>1 DEF DiscardInv, PastClosedCheck, ClosePcs
  <2>11. DrainInv' /\ ReleaseInv'
    BY <2>2, <2>3 DEF DrainInv, ReleaseInv, ClosePcs
  <2> QED
    BY <1>1, <2>5, <2>8, <2>9, <2>10, <2>11 DEF IInv
<1>11. CASE CloseWaits(c)
  <2>1. /\ cp[c] = "wait" /\ cp' = [cp EXCEPT ![c] = "drain"] /\ streamDone = "closed"
        /\ cursor' = 0 /\ UNCHANGED <<kernelVars, closed, sawStream>>
    BY <1>11 DEF CloseWaits, CloserTo
  <2>2. \A d \in Closers : d # c => cp'[d] \notin ClosePcs
    BY <1>4, <1>5, <2>1 DEF CloserTypeOK, ClosePcs
  <2>3. cp'[c] = "drain"
    BY <1>4, <2>1 DEF CloserTypeOK
  <2>4. cursor = NumURBs /\ closed /\ fdOpen /\ sawStream /\ rp = "exit"
    BY <1>4, <1>6, <2>1 DEF CloseInv, ClosePcs, ReaperInv
  <2>5. CloseInv'
    BY <1>3, <2>1, <2>2, <2>3, <2>4 DEF CloseInv, ClosePcs, kernelVars
  <2>6. InState("flight") = {}
    BY <1>4, <2>1, <2>4 DEF DiscardInv, PastClosedCheck, InState
  <2>7. UNCHANGED <<InState("flight"), InState("done")>>
    BY <2>1 DEF kernelVars, InState
  <2>8. Cardinality(InState("done"))' + cursor' <= NumURBs
    BY <1>4, <2>1, <2>7, OwnedFacts
  <2>9. DrainInv'
    BY <1>3, <2>2, <2>3, <2>4, <2>6, <2>7, <2>8 DEF DrainInv, ClosePcs
  <2>10. DiscardInv' /\ ReleaseInv'
    BY <2>2, <2>3 DEF DiscardInv, ReleaseInv, ClosePcs
  <2> QED
    BY <1>1, <1>7, <2>1, <2>5, <2>9, <2>10 DEF IInv
<1>12. ASSUME NEW u \in Urbs, CloseDrains(c, u) PROVE IInv'
  <2>1. /\ cp[c] = "drain" /\ cp' = cp /\ cursor < NumURBs /\ KernelReap(u)
        /\ cursor' = cursor + 1 /\ UNCHANGED <<closed, sawStream, submitted, plugged, fdOpen>>
    BY <1>4, <1>12 DEF CloseDrains, CloserTo, KernelReap, CloserTypeOK
  <2>2. closed /\ fdOpen /\ sawStream /\ rp = "exit" /\ cursor \in Nat /\ InState("flight") = {}
        /\ Cardinality(InState("done")) + cursor <= NumURBs
    BY <1>4, <1>6, <2>1 DEF CloseInv, ClosePcs, CloserTypeOK, DrainInv
  <2>3. st' = [st EXCEPT ![u] = "host"]
    BY <2>1, <2>2 DEF KernelReap
  <2>4. Owned' \subseteq Owned /\ InState("flight")' = {}
    BY <1>4, <2>2, <2>3 DEF KernelTypeOK, Owned, InState
  <2>5. \A d \in Closers : d # c => cp'[d] \notin ClosePcs
    BY <1>5, <2>1 DEF ClosePcs
  <2>6. CloseInv'
    BY <1>3, <2>1, <2>2, <2>5 DEF CloseInv, ClosePcs
  <2>7. StartInv' /\ PrefixInv'
    BY <1>3, <2>1, <2>2, <2>4 DEF IInv, StartInv, PrefixInv, StartPcs
  <2>8. ReaperInv' /\ KernelInv' /\ PendingAccounting' /\ FailedStartIsClean'
    BY <1>3, <1>4, <2>1, <2>2, <2>4 DEF IInv, ReaperInv, KernelInv, PendingAccounting,
       FailedStartIsClean, ReaperLive, ReaperHolds
  <2>9. DrainInv'
    <3>1. Cardinality(InState("done"))' = Cardinality(InState("done")) - 1
      BY <1>4, <2>1, <2>2, ReapTakesOne
    <3>2. Cardinality(InState("done")) \in Nat
      BY <1>4, OwnedFacts
    <3>3. Cardinality(InState("done"))' + cursor' <= NumURBs
      BY <2>1, <2>2, <3>1, <3>2
    <3> QED BY <1>3, <2>2, <2>4, <2>5, <3>3 DEF DrainInv, ClosePcs
  <2>10. DiscardInv' /\ ReleaseInv'
    BY <2>1, <2>5 DEF DiscardInv, ReleaseInv, ClosePcs
  <2> QED
    BY <1>1, <2>6, <2>7, <2>8, <2>9, <2>10 DEF IInv
<1>13. CASE CloseDrained(c)
  <2>1. /\ cp[c] = "drain" /\ cp' = [cp EXCEPT ![c] = "release"]
        /\ cursor = NumURBs \/ InState("done") = {}
        /\ UNCHANGED <<kernelVars, closed, cursor, sawStream>>
    BY <1>13 DEF CloseDrained, CloserTo
  <2>2. \A d \in Closers : d # c => cp'[d] \notin ClosePcs
    BY <1>4, <1>5, <2>1 DEF CloserTypeOK, ClosePcs
  <2>3. cp'[c] = "release"
    BY <1>4, <2>1 DEF CloserTypeOK
  <2>4. closed /\ fdOpen /\ sawStream /\ rp = "exit" /\ InState("flight") = {}
        /\ Cardinality(InState("done")) + cursor <= NumURBs
    BY <1>4, <1>6, <2>1 DEF CloseInv, ClosePcs, DrainInv
  <2>5. CloseInv'
    BY <1>3, <2>1, <2>2, <2>3, <2>4 DEF CloseInv, ClosePcs, kernelVars
  <2>6. InState("done") = {}
    <3>1. cursor = NumURBs => Cardinality(InState("done")) = 0
      BY <1>4, <2>4, OwnedFacts
    <3> QED BY <1>4, <2>1, <3>1, OwnedFacts, FS_EmptySet
  <2>7. Owned' = {}
    BY <1>4, <2>1, <2>4, <2>6 DEF kernelVars, Owned, InState, KernelTypeOK
  <2>8. ReleaseInv'
    BY <1>3, <2>2, <2>4, <2>7 DEF ReleaseInv, ClosePcs
  <2>9. DiscardInv' /\ DrainInv'
    BY <2>2, <2>3 DEF DiscardInv, DrainInv, ClosePcs
  <2> QED
    BY <1>1, <1>7, <2>1, <2>5, <2>8, <2>9 DEF IInv
\* ... and the two that give the interface and the descriptor back.
<1>14. CASE CloseReleases(c)
  <2>1. /\ cp[c] = "release" /\ cp' = [cp EXCEPT ![c] = "closeFd"] /\ KernelReleaseInterface
        /\ UNCHANGED <<closed, cursor, sawStream, fdOpen, plugged>>
    BY <1>14 DEF CloseReleases, CloserTo, KernelReleaseInterface
  <2>2. \A d \in Closers : d # c => cp'[d] \notin ClosePcs
    BY <1>4, <1>5, <2>1 DEF CloserTypeOK, ClosePcs
  <2>3. cp'[c] = "closeFd"
    BY <1>4, <2>1 DEF CloserTypeOK
  <2>4. closed /\ fdOpen
    BY <1>6, <2>1 DEF ClosePcs
  <2>5. CloseInv'
    BY <1>3, <2>1, <2>2, <2>3, <2>4 DEF CloseInv, ClosePcs
  <2>6. Settles
    BY <2>1, ReleaseSettles DEF IInv
  <2>7. \A u \in Urbs : (st'[u] = "host") = (st[u] = "host")
    BY <2>6 DEF Settles, Owned
  <2>8. StartInv' /\ PrefixInv'
    BY <1>3, <2>6, <2>7 DEF IInv, StartInv, PrefixInv, Settles
  <2>9. ReaperInv' /\ KernelInv' /\ PendingAccounting' /\ FailedStartIsClean'
    BY <1>3, <1>4, <2>1, <2>6, <2>7 DEF IInv, ReaperInv, KernelInv, PendingAccounting,
       FailedStartIsClean, ReaperLive, ReaperHolds, Settles
  <2>10. DiscardInv' /\ DrainInv'
    BY <2>2, <2>3 DEF DiscardInv, DrainInv, ClosePcs
  <2>11. ReleaseInv'
    BY <1>3, <1>4, <2>1, <2>2, <2>6 DEF ReleaseInv, ClosePcs, Settles
  <2> QED
    BY <1>1, <2>5, <2>8, <2>9, <2>10, <2>11 DEF IInv
<1>15. CASE CloseClosesFd(c)
  <2>1. /\ cp[c] = "closeFd" /\ cp' = [cp EXCEPT ![c] = "returned"]
        /\ fdOpen' = FALSE /\ st' = IF rp = "reaping" THEN st ELSE [u \in Urbs |-> "host"]
        /\ UNCHANGED <<closed, cursor, sawStream, submitted, plugged>>
    BY <1>15 DEF CloseClosesFd, CloserTo, KernelCloseFd
  <2>2. \A d \in Closers : cp'[d] \notin ClosePcs
    BY <1>4, <1>5, <2>1 DEF CloserTypeOK, ClosePcs
  <2>3. closed
    BY <1>6, <2>1 DEF ClosePcs
  <2>4. CloseInv' /\ DiscardInv' /\ DrainInv' /\ ReleaseInv'
    BY <2>1, <2>2, <2>3 DEF CloseInv, DiscardInv, DrainInv, ReleaseInv, ClosePcs
  <2>5. /\ \A u \in Urbs : st[u] = "host" => st'[u] = "host"
        /\ Owned' \subseteq Owned /\ InState("flight")' \subseteq InState("flight")
        /\ rp # "reaping" => Owned' = {}
    BY <2>1 DEF Owned, InState
  <2>6. StartInv' /\ PrefixInv'
    BY <1>3, <2>1, <2>5 DEF IInv, StartInv, PrefixInv
  <2>7. ReaperInv' /\ KernelInv' /\ PendingAccounting' /\ FailedStartIsClean'
    BY <1>3, <1>4, <2>1, <2>5 DEF IInv, ReaperInv, KernelInv, PendingAccounting,
       FailedStartIsClean, ReaperHolds
  <2> QED
    BY <1>1, <2>4, <2>6, <2>7 DEF IInv
<1> QED
  BY <1>8, <1>9, <1>10, <1>11, <1>12, <1>13, <1>14, <1>15 DEF CloseCaller, CloseRuns

\* A step that changes nothing keeps the invariant.
LEMMA StutterInv == ASSUME IInv, UNCHANGED vars PROVE IInv'
<1>1. UNCHANGED <<kernelVars, fifoVars, streamVars, reaperVars, closerVars, readerVars>>
  BY DEF vars
<1>2. TypeOK'
  BY <1>1, KernelKept, FifoKept, StreamKept, ReaperKept, CloserKept, ReaderKept DEF IInv, TypeOK
<1>3. Settles /\ (~plugged' => InState("flight")' = {})
  BY <1>1 DEF Settles, Owned, InState, kernelVars, IInv, KernelInv
<1> QED
  BY <1>1, <1>2, <1>3, SettlingKeepsInv

\* Every step of the system keeps the invariant.
LEMMA NextInv == ASSUME IInv, [Next]_vars PROVE IInv'
<1>1. CASE Chip BY <1>1, ChipInv
<1>2. CASE Disconnect BY <1>2, DisconnectInv
<1>3. CASE Reaper BY <1>3, ReaperStepInv
<1>4. ASSUME NEW r \in Readers, ReadCaller(r) \/ ReadRuns(r) PROVE IInv'
  BY <1>4, ReaderInv
<1>5. ASSUME NEW r \in Readers, StartRuns(r) PROVE IInv'
  BY <1>5, StarterInv
<1>6. ASSUME NEW c \in Closers, CloseCaller(c) \/ CloseRuns(c) PROVE IInv'
  BY <1>6, CloserInv
<1>7. CASE UNCHANGED vars BY <1>7, StutterInv
<1> QED
  BY <1>1, <1>2, <1>3, <1>4, <1>5, <1>6, <1>7 DEF Next
----------------------------------------------------------------------------
(* The theorems.                                                           *)

\* The inductive invariant holds in every reachable state, for every ring
\* size and any number of readers and closers, under every fault.
THEOREM InvariantHolds == Spec => []IInv
  BY InitIInv, NextInv, PTL DEF Spec

\* Every variable keeps its type: the loop index of Close never leaves the
\* ring, pending never goes below zero and the reaper only ever dispatches
\* and resubmits a URB of the ring.
THEOREM TypeCorrect == Spec => []TypeOK
<1>1. IInv => TypeOK
  BY DEF IInv
<1> QED
  BY <1>1, InvariantHolds, PTL

\* The reaper's pending is exact (runStreamReaper): the loop ends when the
\* kernel owns no URB, neither earlier nor later.
THEOREM AccountingHolds == Spec => []PendingAccounting
<1>1. IInv => PendingAccounting
  BY DEF IInv
<1> QED
  BY <1>1, InvariantHolds, PTL

\* A Close that found the stream running releases the interface with no URB
\* left in the kernel, however the reaper ended.
THEOREM CleanReleaseHolds == Spec => []CleanRelease
<1>1. IInv => CleanRelease
  BY DEF IInv, ReleaseInv, CleanRelease
<1> QED
  BY <1>1, InvariantHolds, PTL

\* A startStream that failed has left no URB with the kernel, and every later
\* Read is told.
THEOREM FailedStartHolds == Spec => []FailedStartIsClean
<1>1. IInv => FailedStartIsClean
  BY DEF IInv
<1> QED
  BY <1>1, InvariantHolds, PTL
----------------------------------------------------------------------------
(* The chunks.                                                             *)

USE NumURBsAssumption DEF Urbs, ChanCap

\* The sequences, as functions.
LEMMA FifoFacts ==
  ASSUME FifoTypeOK, delivered \in Seq(Nat)
  PROVE  /\ Len(chan) \in Nat /\ Len(delivered) \in Nat /\ dropped \in Nat
         /\ DOMAIN chan = 1..Len(chan) /\ DOMAIN delivered = 1..Len(delivered)
         /\ Left \in Nat /\ Dispatched \in Nat /\ Dispatched = Left + Len(chan)
         /\ \A i \in 1..Len(chan) : chan[i] \in Nat
         /\ \A i \in 1..Len(delivered) : delivered[i] \in Nat
         /\ chan = <<>> <=> Len(chan) = 0
BY DEF FifoTypeOK, Left, Dispatched

LEMMA HeadGoes ==
  ASSUME NEW s \in Seq(Nat), s # <<>>
  PROVE  /\ Len(s) \in Nat /\ Len(s) > 0
         /\ Tail(s) \in Seq(Nat) /\ Len(Tail(s)) = Len(s) - 1
         /\ \A i \in 1..(Len(s) - 1) : Tail(s)[i] = s[i + 1]
         /\ Head(s) = s[1]
OBVIOUS

LEMMA OneMore ==
  ASSUME NEW s \in Seq(Nat), NEW x \in Nat
  PROVE  /\ Append(s, x) \in Seq(Nat) /\ Len(s) \in Nat /\ Len(Append(s, x)) = Len(s) + 1
         /\ \A i \in 1..Len(s) : Append(s, x)[i] = s[i]
         /\ Append(s, x)[Len(s) + 1] = x
OBVIOUS

LEMMA LastOrBefore == ASSUME NEW n \in Nat, NEW i \in 1..n + 1 PROVE i \in 1..n \/ i = n + 1
OBVIOUS

LEMMA BeforeTheLast == ASSUME NEW n \in Nat, NEW i \in 1..n, i # n PROVE i \in 1..n - 1 /\ i + 1 \in 1..n
OBVIOUS

LEMMA ChunksOfOneMore ==
  ASSUME NEW s \in Seq(Nat), NEW x \in Nat
  PROVE  Chunks(Append(s, x)) = Chunks(s) \cup {x}
<1>1. /\ DOMAIN s = 1..Len(s) /\ DOMAIN Append(s, x) = 1..Len(s) + 1
  BY OneMore
<1> QED
  BY <1>1, OneMore DEF Chunks
----------------------------------------------------------------------------
(* streamCh.                                                               *)

\* A Read takes the oldest chunk, the next of what has left (Read).
LEMMA TakeKeepsChan ==
  ASSUME FifoTypeOK, delivered \in Seq(Nat), ChanInv, chan # <<>>,
         chan' = Tail(chan), delivered' = Append(delivered, Head(chan)), UNCHANGED <<dropped, lost>>
  PROVE  /\ ChanInv' /\ Left' = Left + 1 /\ Dispatched' = Dispatched
         /\ Len(chan') = Len(chan) - 1
<1>0. /\ Len(chan) \in Nat /\ Len(delivered) \in Nat /\ dropped \in Nat /\ Left \in Nat
      /\ Dispatched = Left + Len(chan) /\ Left = Len(delivered) + dropped
  BY FifoFacts DEF Left
<1>1. /\ Len(chan) > 0 /\ Len(chan') = Len(chan) - 1 /\ Head(chan) = Left + 1
      /\ \A i \in 1..Len(chan') : chan'[i] = chan[i + 1]
  <2>1. chan \in Seq(Nat)
    BY DEF FifoTypeOK
  <2>2. /\ Len(chan) > 0 /\ Len(chan') = Len(chan) - 1 /\ Head(chan) = chan[1]
        /\ \A i \in 1..Len(chan) - 1 : chan'[i] = chan[i + 1]
    BY <2>1, HeadGoes
  <2>3. 1 \in 1..Len(chan)
    BY <1>0, <2>2
  <2>4. chan[1] = Left + 1
    BY <2>3 DEF ChanInv
  <2> QED  BY <1>0, <2>2, <2>4
<1>2. /\ Len(delivered') = Len(delivered) + 1 /\ DOMAIN delivered' = 1..Len(delivered) + 1
      /\ \A i \in 1..Len(delivered) : delivered'[i] = delivered[i] /\ delivered[i] \in 1..Left
      /\ delivered'[Len(delivered) + 1] = Left + 1
  <2>1. delivered' = Append(delivered, Left + 1) /\ Left + 1 \in Nat
    BY <1>0, <1>1
  <2>2. \A i \in 1..Len(delivered) : delivered[i] \in Chunks(delivered)
    BY FifoFacts DEF Chunks
  <2> QED  BY <1>0, <2>1, <2>2, OneMore DEF ChanInv
<1>3. Left' = Left + 1 /\ Dispatched' = Dispatched
  BY <1>0, <1>1, <1>2 DEF Left, Dispatched
<1>4. \A i \in 1..Len(chan') : chan'[i] = Left' + i
  <2> TAKE i \in 1..Len(chan')
  <2>1. i + 1 \in 1..Len(chan)
    BY <1>0, <1>1
  <2>2. chan[i + 1] = Left + (i + 1)
    BY <2>1 DEF ChanInv
  <2> QED  BY <1>0, <1>1, <1>3, <2>2
<1>5. Chunks(delivered') \cup lost' = 1..Left'
  <2>1. Chunks(delivered') = Chunks(delivered) \cup {Left + 1}
    BY <1>0, <1>1, ChunksOfOneMore
  <2> QED  BY <1>0, <1>3, <2>1 DEF ChanInv
<1>6. Increasing(delivered')
  <2> SUFFICES ASSUME NEW i \in 1..Len(delivered) + 1, NEW j \in 1..Len(delivered) + 1, i < j
               PROVE  delivered'[i] < delivered'[j]
    BY <1>2 DEF Increasing
  <2>1. i \in 1..Len(delivered)
    BY <1>0
  <2>2. CASE j \in 1..Len(delivered)
    <3>1. delivered[i] < delivered[j]
      BY <2>1, <2>2, FifoFacts DEF ChanInv, Increasing
    <3> QED  BY <1>2, <2>1, <2>2, <3>1
  <2>3. CASE j = Len(delivered) + 1
    BY <1>0, <1>2, <2>1, <2>3
  <2>4. j \in 1..Len(delivered) \/ j = Len(delivered) + 1
    BY <1>0, LastOrBefore
  <2> QED  BY <2>2, <2>3, <2>4
<1> QED
  <2>1. Len(chan') <= ChanCap
    BY <1>0, <1>1 DEF ChanInv
  <2> QED  BY <1>1, <1>3, <1>4, <1>5, <1>6, <2>1 DEF ChanInv

\* The reaper gives the oldest chunk up (dispatchChunk's second select).
LEMMA EvictKeepsChan ==
  ASSUME FifoTypeOK, delivered \in Seq(Nat), ChanInv, chan # <<>>,
         chan' = Tail(chan), dropped' = dropped + 1, lost' = lost \cup {Head(chan)}, UNCHANGED delivered
  PROVE  ChanInv' /\ Dispatched' = Dispatched /\ Len(chan') = Len(chan) - 1
<1>0. /\ Len(chan) \in Nat /\ Len(delivered) \in Nat /\ dropped \in Nat /\ Left \in Nat
      /\ Dispatched = Left + Len(chan) /\ Left = Len(delivered) + dropped
  BY FifoFacts DEF Left
<1>1. /\ Len(chan) > 0 /\ Len(chan') = Len(chan) - 1 /\ Head(chan) = Left + 1
      /\ \A i \in 1..Len(chan') : chan'[i] = chan[i + 1]
  <2>1. chan \in Seq(Nat)
    BY DEF FifoTypeOK
  <2>2. /\ Len(chan) > 0 /\ Len(chan') = Len(chan) - 1 /\ Head(chan) = chan[1]
        /\ \A i \in 1..Len(chan) - 1 : chan'[i] = chan[i + 1]
    BY <2>1, HeadGoes
  <2>3. 1 \in 1..Len(chan)
    BY <1>0, <2>2
  <2>4. chan[1] = Left + 1
    BY <2>3 DEF ChanInv
  <2> QED  BY <1>0, <2>2, <2>4
<1>2. Left' = Left + 1 /\ Dispatched' = Dispatched
  BY <1>0, <1>1 DEF Left, Dispatched
<1>3. \A i \in 1..Len(chan') : chan'[i] = Left' + i
  <2> TAKE i \in 1..Len(chan')
  <2>1. i + 1 \in 1..Len(chan)
    BY <1>0, <1>1
  <2>2. chan[i + 1] = Left + (i + 1)
    BY <2>1 DEF ChanInv
  <2> QED  BY <1>0, <1>1, <1>2, <2>2
<1>4. Chunks(delivered') \cup lost' = 1..Left'
  <2>1. Chunks(delivered') \cup lost' = (Chunks(delivered) \cup lost) \cup {Left + 1}
    BY <1>1 DEF Chunks
  <2> QED  BY <1>0, <1>2, <2>1 DEF ChanInv
<1> QED
  <2>1. Len(chan') <= ChanCap
    BY <1>0, <1>1 DEF ChanInv
  <2> QED  BY <1>1, <1>2, <1>3, <1>4, <2>1 DEF ChanInv, Increasing

\* The reaper sends the next chunk (dispatchChunk's first and third select).
LEMMA SendKeepsChan ==
  ASSUME FifoTypeOK, delivered \in Seq(Nat), ChanInv, Len(chan) < ChanCap,
         chan' = Append(chan, Dispatched + 1), UNCHANGED <<dropped, lost, delivered>>
  PROVE  ChanInv' /\ Dispatched' = Dispatched + 1
<1>0. /\ Len(chan) \in Nat /\ Len(delivered) \in Nat /\ dropped \in Nat /\ Left \in Nat
      /\ Dispatched = Left + Len(chan) /\ Left = Len(delivered) + dropped
  BY FifoFacts DEF Left
<1>1. /\ Len(chan') = Len(chan) + 1 /\ chan'[Len(chan) + 1] = Dispatched + 1
      /\ \A i \in 1..Len(chan) : chan'[i] = chan[i]
  <2>1. chan \in Seq(Nat) /\ Dispatched + 1 \in Nat
    BY <1>0 DEF FifoTypeOK
  <2> QED  BY <2>1, OneMore
<1>2. Left' = Left /\ Dispatched' = Dispatched + 1
  BY <1>0, <1>1 DEF Left, Dispatched
<1>3. \A i \in 1..Len(chan') : chan'[i] = Left' + i
  <2> SUFFICES ASSUME NEW i \in 1..Len(chan) + 1 PROVE chan'[i] = Left + i
    BY <1>1, <1>2
  <2>1. CASE i \in 1..Len(chan)
    BY <1>1, <2>1 DEF ChanInv
  <2>2. CASE i = Len(chan) + 1
    BY <1>0, <1>1, <2>2
  <2> QED  BY <1>0, <2>1, <2>2, LastOrBefore
<1>4. Len(chan') <= ChanCap
  <2>1. \A n \in Nat : n < ChanCap => n + 1 <= ChanCap
    OBVIOUS
  <2> QED  BY <1>0, <1>1, <2>1
<1> QED
  BY <1>2, <1>3, <1>4 DEF ChanInv, Increasing, Chunks

LEMMA FifoUntouched ==
  ASSUME UNCHANGED <<fifoVars, delivered>>
  PROVE  /\ ChanInv => ChanInv'
         /\ Left' = Left /\ Dispatched' = Dispatched /\ Len(chan') = Len(chan)
BY DEF fifoVars, ChanInv, Left, Dispatched, Chunks, Increasing
----------------------------------------------------------------------------
(* The steps.                                                              *)

LEMMA DataTypes ==
  ASSUME IInv
  PROVE  /\ FifoTypeOK /\ delivered \in Seq(Nat) /\ KernelTypeOK /\ ReaperTypeOK
         /\ submitted \in Nat /\ \A u \in Urbs : ord[u] \in Nat
         /\ Left \in Nat /\ Dispatched \in Nat /\ Len(chan) \in Nat
         /\ NextChunk = Dispatched + 1 \/ NextChunk = Dispatched + 2
<1>1. /\ FifoTypeOK /\ delivered \in Seq(Nat) /\ KernelTypeOK /\ ReaperTypeOK
  BY DEF IInv, TypeOK, ReaderTypeOK
<1>2. submitted \in Nat /\ \A u \in Urbs : ord[u] \in Nat
  BY <1>1 DEF KernelTypeOK
<1> QED
  BY <1>1, <1>2, FifoFacts DEF NextChunk

LEMMA InitData == Init => DataInv
<1> SUFFICES ASSUME Init PROVE DataInv
  OBVIOUS
<1>1. Len(chan) = 0 /\ Left = 0 /\ Dispatched = 0
  BY DEF Init, Left, Dispatched
<1>2. ChanInv
  <2>1. Chunks(delivered) = {} /\ lost = {} /\ Increasing(delivered)
    BY DEF Init, Chunks, Increasing
  <2>2. 1..0 = {}
    OBVIOUS
  <2>3. Len(chan) <= ChanCap /\ \A i \in 1..Len(chan) : chan[i] = Left + i
    BY <1>1
  <2> QED  BY <1>1, <2>1, <2>2, <2>3 DEF ChanInv
<1>3. NumberInv
  BY <1>1 DEF Init, KernelInit, NumberInv, InState
<1>4. RingInv /\ DispatchInv
  BY DEF Init, RingInv, DispatchInv, ReaperLive, ReaperHolds
<1> QED
  BY <1>2, <1>3, <1>4 DEF DataInv

\* What is needed of a step that submits nothing.
LEMMA NumbersKept ==
  ASSUME IInv, DataInv, UNCHANGED <<ord, submitted>>, Dispatched' = Dispatched,
         rp' = "off" => rp = "off",
         \A r \in Readers : rd'[r] = "start" => rd[r] = "start" \/ submitted = 0,
         ~closed' => \A u \in InState("done")', v \in InState("flight")' : ord[u] <= ord[v]
  PROVE  NumberInv'
<1>1. submitted = 0 => \A u \in Urbs : ~(u <= submitted)
  OBVIOUS
<1> QED
  BY <1>1 DEF DataInv, NumberInv

\* A step that leaves streamCh and the reaper alone, and what the kernel owns
\* too unless Close has been called or the stream does not run.
LEMMA QuietKeepsData ==
  ASSUME IInv, DataInv, UNCHANGED <<ord, submitted, fifoVars, delivered, rp, urb>>,
         closed => closed', closed' \/ rp = "off" \/ Owned' = Owned,
         \A r \in Readers : rd'[r] = "start" => rd[r] = "start" \/ submitted = 0,
         ~closed' => \A u \in InState("done")', v \in InState("flight")' : ord[u] <= ord[v]
  PROVE  DataInv'
<1>1. ChanInv' /\ Dispatched' = Dispatched /\ Len(chan') = Len(chan)
  BY FifoUntouched DEF DataInv
<1>2. NumberInv'
  BY <1>1, NumbersKept
<1>3. DispatchInv'
  BY <1>1 DEF DataInv, DispatchInv
<1>4. RingInv'
  BY <1>1 DEF DataInv, RingInv, ReaperLive, ReaperHolds, NextChunk, Undispatched
<1> QED
  BY <1>1, <1>2, <1>3, <1>4 DEF DataInv

\* The chip completes the oldest (UsbfsUrbs).
LEMMA ChipData == ASSUME IInv, DataInv, Chip PROVE DataInv'
<1>1. PICK u \in Urbs, ok \in BOOLEAN : ChipCompletes(u, ok)
  BY DEF Chip
<1>2. /\ UNCHANGED <<ord, submitted, fifoVars, delivered, rp, urb, rd, closed>>
  BY <1>1 DEF Chip, ChipCompletes, reaperVars, readerVars, closerVars
<1>3. st \in [Urbs -> {"host", "flight", "done"}]
  BY DataTypes DEF KernelTypeOK
<1>4. Owned' = Owned
  BY <1>1, <1>3 DEF ChipCompletes, Owned
<1>5. ~closed => \A w \in InState("done")', v \in InState("flight")' : ord[w] <= ord[v]
  BY <1>1, <1>3 DEF ChipCompletes, InState, DataInv, NumberInv
<1> QED
  BY <1>2, <1>4, <1>5, QuietKeepsData

\* A dongle that is gone leaves nothing in flight.
LEMMA DisconnectData == ASSUME IInv, DataInv, Disconnect PROVE DataInv'
<1>1. UNCHANGED <<ord, submitted, fifoVars, delivered, rp, urb, rd, closed>>
  BY DEF Disconnect, Unplug, reaperVars, readerVars, closerVars
<1>2. st \in [Urbs -> {"host", "flight", "done"}]
  BY DataTypes DEF KernelTypeOK
<1>3. Owned' = Owned /\ InState("flight")' = {}
  BY <1>2 DEF Disconnect, Unplug, Cancelled, Owned, InState
<1> QED
  BY <1>1, <1>3, QuietKeepsData

\* Read, outside startStream.
LEMMA ReaderData ==
  ASSUME IInv, DataInv, NEW r \in Readers, ReadCaller(r) \/ ReadRuns(r) PROVE DataInv'
<1>1. /\ UNCHANGED <<kernelVars, rp, urb, closed>>
      /\ UNCHANGED <<Owned, InState("done"), InState("flight")>>
  BY DEF ReadCaller, ReadRuns, reaperVars, closerVars, kernelVars, Owned, InState
<1>2. CASE ReadTakesChunk(r)
  <2>1. /\ chan # <<>> /\ chan' = Tail(chan) /\ delivered' = Append(delivered, Head(chan))
        /\ UNCHANGED <<dropped, lost>>
        /\ \A q \in Readers : rd'[q] = "start" => rd[q] = "start"
    BY <1>2 DEF ReadTakesChunk, ReadReturns, ReaderTo, IInv, TypeOK, ReaderTypeOK
  <2>2. ChanInv' /\ Dispatched' = Dispatched /\ Len(chan') = Len(chan) - 1
    BY <2>1, TakeKeepsChan, DataTypes DEF DataInv
  <2>3. NumberInv'
    BY <1>1, <2>1, <2>2, NumbersKept DEF DataInv, NumberInv, kernelVars
  <2>4. DispatchInv'
    BY <1>1, <2>2, DataTypes DEF DataInv, DispatchInv, kernelVars
  <2>5. RingInv'
    BY <1>1, <2>2 DEF DataInv, RingInv, ReaperLive, ReaperHolds, NextChunk, Undispatched, kernelVars
  <2> QED  BY <2>2, <2>3, <2>4, <2>5 DEF DataInv
<1>3. CASE ~ReadTakesChunk(r)
  <2>1. UNCHANGED <<fifoVars, delivered>>
    BY <1>3 DEF ReadCaller, ReadRuns, ReadCall, CancelContext, EnterOnce, LeaveOnce, ReadIsCancelled, ReadSeesEnd
  <2>2. \A q \in Readers : rd'[q] = "start" => rd[q] = "start" \/ submitted = 0
    <3> USE DEF ReadReturns, ReaderTo, IInv, TypeOK, ReaderTypeOK
    <3>1. CASE ReadCall(r)  BY <3>1 DEF ReadCall
    <3>2. CASE CancelContext(r)  BY <3>2 DEF CancelContext
    <3>3. CASE EnterOnce(r)  BY <3>3 DEF EnterOnce, StartInv
    <3>4. CASE LeaveOnce(r)  BY <3>4 DEF LeaveOnce
    <3>5. CASE ReadIsCancelled(r)  BY <3>5 DEF ReadIsCancelled
    <3>6. CASE ReadSeesEnd(r)  BY <3>6 DEF ReadSeesEnd
    <3> QED  BY <1>3, <3>1, <3>2, <3>3, <3>4, <3>5, <3>6 DEF ReadCaller, ReadRuns
  <2> QED  BY <1>1, <2>1, <2>2, QuietKeepsData DEF DataInv, NumberInv, kernelVars
<1> QED  BY <1>2, <1>3

\* A submission gets the highest number and goes behind all others.
LEMMA SubmitGoesLast ==
  ASSUME IInv, DataInv, NEW u \in Urbs, st[u] = "host", KernelSubmit(u)
  PROVE  /\ \A v \in Urbs : ord'[v] <= submitted'
         /\ ord'[u] = submitted + 1 /\ submitted' = submitted + 1
         /\ \A v \in Urbs \ {u} : ord'[v] = ord[v]
         /\ ~closed => \A w \in InState("done")', v \in InState("flight")' : ord'[w] <= ord'[v]
         /\ Owned' = Owned \cup {u}
<1>1. /\ st \in [Urbs -> {"host", "flight", "done"}] /\ ord \in [Urbs -> Nat] /\ submitted \in Nat
  BY DataTypes DEF KernelTypeOK
<1>2. /\ ord'[u] = submitted + 1 /\ submitted' = submitted + 1
      /\ \A v \in Urbs \ {u} : ord'[v] = ord[v] /\ st'[v] = st[v]
      /\ st'[u] = "flight"
  BY <1>1 DEF KernelSubmit
<1>3. \A v \in Urbs : ord[v] <= submitted /\ ord[v] \in Nat
  BY <1>1 DEF DataInv, NumberInv
<1>4. \A v \in Urbs : ord'[v] <= submitted'
  <2> TAKE v \in Urbs
  <2> QED  BY <1>1, <1>2, <1>3
<1>5. ASSUME ~closed, NEW w \in InState("done")', NEW v \in InState("flight")'
      PROVE  ord'[w] <= ord'[v]
  <2>1. w \in Urbs /\ w # u /\ st[w] = "done" /\ ord'[w] = ord[w]
    BY <1>2 DEF InState
  <2>2. CASE v = u
    BY <1>1, <1>2, <1>3, <2>1, <2>2
  <2>3. CASE v # u
    BY <1>2, <1>5, <2>1, <2>3 DEF InState, DataInv, NumberInv
  <2> QED  BY <2>2, <2>3
<1>6. Owned' = Owned \cup {u}
  BY <1>1, <1>2 DEF Owned
<1> QED
  BY <1>2, <1>4, <1>5, <1>6

\* startStream: the ring is filled in its order before the reaper runs.
LEMMA StarterData ==
  ASSUME IInv, DataInv, NEW r \in Readers, StartRuns(r) PROVE DataInv'
<1>1. UNCHANGED <<fifoVars, delivered, closed>>
  BY DEF StartRuns, closerVars
<1>2. rd \in [Readers -> {"idle", "ensure", "start", "unwind", "assignNil", "assignErr", "select"}]
  BY DEF IInv, TypeOK, ReaderTypeOK
<1>3. ChanInv' /\ Dispatched' = Dispatched
  BY <1>1, FifoUntouched DEF DataInv
<1>4. CASE StartSubmits(r)
  <2>1. /\ submitted < NumURBs /\ KernelSubmit(submitted + 1) /\ rd[r] = "start" /\ rd' = rd
        /\ UNCHANGED <<rp, urb>>
    BY <1>2, <1>4 DEF StartSubmits, ReaderTo, reaperVars
  <2>2. rp = "off" /\ submitted + 1 \in Urbs
    BY <2>1, DataTypes DEF IInv, StartInv
  <2>3. st[submitted + 1] = "host"
    BY <2>1, <2>2, DataTypes DEF IInv, PrefixInv
  <2>4. /\ \A v \in Urbs : ord'[v] <= submitted'
        /\ ord'[submitted + 1] = submitted + 1 /\ submitted' = submitted + 1
        /\ \A v \in Urbs \ {submitted + 1} : ord'[v] = ord[v]
        /\ ~closed => \A w \in InState("done")', v \in InState("flight")' : ord'[w] <= ord'[v]
    BY <2>1, <2>2, <2>3, SubmitGoesLast
  <2>5. ASSUME NEW q \in Readers, rd'[q] = "start", NEW u \in Urbs, u <= submitted' PROVE ord'[u] = u
    <3>1. u = submitted + 1 \/ u <= submitted
      BY <2>4, <2>5, DataTypes
    <3>2. u <= submitted => ord[u] = u
      BY <2>1, <2>5 DEF DataInv, NumberInv
    <3> QED  BY <2>4, <3>1, <3>2
  <2>6. NumberInv'
    BY <1>1, <1>3, <2>1, <2>4, <2>5 DEF DataInv, NumberInv
  <2>7. RingInv' /\ DispatchInv'
    BY <2>1, <2>2 DEF RingInv, DispatchInv, ReaperLive, ReaperHolds
  <2> QED  BY <1>3, <2>6, <2>7 DEF DataInv
<1>5. CASE StartLaunches(r)
  <2>1. /\ submitted = NumURBs /\ rp' = "loop" /\ rd[r] = "start" /\ rd'[r] = "assignNil"
        /\ \A q \in Readers : rd'[q] = "start" => rd[q] = "start"
        /\ UNCHANGED kernelVars
    BY <1>2, <1>5 DEF StartLaunches, ReaderTo
  <2>2. rp = "off" /\ Dispatched = 0
    BY <2>1 DEF IInv, StartInv, DataInv, NumberInv
  <2>3. \A u \in Urbs : ord[u] = u
    BY <2>1 DEF DataInv, NumberInv
  <2>4. ~closed => Owned = Urbs
    BY <2>1 DEF IInv, PrefixInv, CloseInv, Owned
  <2>5. Owned' = Owned /\ InState("done")' = InState("done") /\ InState("flight")' = InState("flight")
    BY <2>1 DEF kernelVars, Owned, InState
  <2>6. NumberInv'
    BY <1>1, <1>3, <2>1, <2>5, NumbersKept DEF kernelVars, DataInv, NumberInv
  <2>7. NextChunk' = 1
    BY <1>3, <2>1, <2>2 DEF NextChunk, Undispatched
  <2>8. RingInv'
    BY <1>1, <2>1, <2>3, <2>4, <2>5, <2>7 DEF RingInv, kernelVars
  <2>9. DispatchInv'
    BY <2>1 DEF DispatchInv
  <2> QED  BY <1>3, <2>6, <2>8, <2>9 DEF DataInv
<1>6. CASE StartSubmitFails(r) \/ StartUnwinds(r)
  <2>1. /\ UNCHANGED <<ord, submitted, rp, urb>>
        /\ \A q \in Readers : rd'[q] = "start" => rd[q] = "start"
        /\ rd[r] \in {"start", "unwind"}
    BY <1>2, <1>6 DEF StartSubmitFails, StartUnwinds, ReaderTo, reaperVars, kernelVars, KernelDiscardAndReapAll
  <2>2. rp = "off"
    BY <2>1 DEF IInv, StartInv
  <2>3. ~closed => \A u \in InState("done")', v \in InState("flight")' : ord[u] <= ord[v]
    <3>1. CASE st' = st
      BY <3>1 DEF InState, DataInv, NumberInv
    <3>2. CASE st' = [u \in Urbs |-> "host"]
      BY <3>2 DEF InState
    <3> QED
      BY <1>6, <3>1, <3>2 DEF StartSubmitFails, StartUnwinds, KernelDiscardAndReapAll, kernelVars
  <2> QED  BY <1>1, <2>1, <2>2, <2>3, QuietKeepsData
<1>7. CASE StartAssigns(r, "assignNil", "nil") \/ StartAssigns(r, "assignErr", "err")
  <2>1. /\ UNCHANGED <<kernelVars, rp, urb>>
        /\ \A q \in Readers : rd'[q] = "start" => rd[q] = "start"
    BY <1>2, <1>7 DEF StartAssigns, ReaderTo, reaperVars
  <2>2. Owned' = Owned /\ InState("done")' = InState("done") /\ InState("flight")' = InState("flight")
    BY <2>1 DEF kernelVars, Owned, InState
  <2> QED  BY <1>1, <2>1, <2>2, QuietKeepsData DEF kernelVars, DataInv, NumberInv
<1> QED
  BY <1>4, <1>5, <1>6, <1>7 DEF StartRuns

\* The oldest of what is done is the next chunk, or Close has been called.
LEMMA ReapsTheNext ==
  ASSUME IInv, DataInv, ~closed, rp = "reaping", NEW u \in Urbs, Reapable(u)
  PROVE  ord[u] = Dispatched + 1
<1>1. NextChunk = Dispatched + 1 /\ ReaperLive
  BY DEF NextChunk, Undispatched, ReaperLive
<1>2. u \in Owned /\ ord[u] \in Nat /\ ord[u] >= NextChunk /\ ord[u] <= submitted
  BY <1>1, DataTypes DEF Reapable, Owned, DataInv, RingInv, NumberInv
<1>3. PICK v \in Owned : ord[v] = NextChunk
  <2>1. NextChunk \in NextChunk..submitted
    BY <1>1, <1>2, DataTypes
  <2> QED  BY <1>1, <2>1 DEF DataInv, RingInv
<1>4. ord[u] <= ord[v]
  <2>1. v \in InState("done") \/ v \in InState("flight")
    BY DataTypes DEF Owned, InState, KernelTypeOK
  <2>2. u \in InState("done")
    BY DEF Reapable, InState
  <2> QED  BY <2>1, <2>2 DEF Reapable, DataInv, NumberInv
<1> QED
  BY <1>1, <1>2, <1>3, <1>4, DataTypes

\* runStreamReaper and dispatchChunk.
LEMMA ReaperData == ASSUME IInv, DataInv, Reaper PROVE DataInv'
<1>1. UNCHANGED <<closed, rd, delivered>> /\ (~closed => fdOpen)
  BY DEF Reaper, closerVars, readerVars, IInv, CloseInv
<1>2. /\ Left \in Nat /\ Dispatched \in Nat /\ Len(chan) \in Nat /\ submitted \in Nat
      /\ \A u \in Urbs : ord[u] \in Nat
  BY DataTypes
<1>3. CASE ReaperFinishes \/ ReaperCallsReap \/ ReaperReapFails \/ ReaperAccounts \/ ReaperChecksStatus
           \/ ReaperSubmitFails \/ ReaperFailType \/ ReaperFailData
  <2>1. /\ UNCHANGED <<kernelVars, fifoVars, urb>>
        /\ rp' # "off"
        /\ \/ rp' \in {"exit", "failType", "failData"}
           \/ rp = "loop" /\ rp' = "reaping"
           \/ rp = "check" /\ rp' = "loop" /\ closed
           \/ rp = "check" /\ rp' = "try" /\ ~closed
    BY <1>3 DEF ReaperFinishes, ReaperCallsReap, ReaperReapFails, ReaperAccounts, ReaperChecksStatus,
       ReaperSubmitFails, ReaperFailType, ReaperFailData, ReaperTo
  <2>2. Owned' = Owned /\ InState("done")' = InState("done") /\ InState("flight")' = InState("flight")
    BY <2>1 DEF kernelVars, Owned, InState
  <2>3. ChanInv' /\ Dispatched' = Dispatched
    BY <1>1, <2>1, FifoUntouched DEF DataInv
  <2>4. NumberInv'
    BY <1>1, <2>1, <2>2, <2>3, NumbersKept DEF kernelVars, DataInv, NumberInv
  <2>5. RingInv'
    BY <1>1, <2>1, <2>2, <2>3 DEF kernelVars, DataInv, RingInv, ReaperLive, ReaperHolds, NextChunk, Undispatched
  <2>6. DispatchInv'
    BY <1>1, <2>1, <2>3 DEF kernelVars, DataInv, DispatchInv
  <2> QED  BY <2>3, <2>4, <2>5, <2>6 DEF DataInv
<1>4. ASSUME NEW u \in Urbs, ReaperReaps(u) PROVE DataInv'
  <2>1. /\ rp = "reaping" /\ rp' = "check" /\ urb' = u /\ Reapable(u) /\ KernelReap(u)
        /\ UNCHANGED <<ord, submitted, fifoVars>>
    BY <1>4 DEF ReaperReaps, ReaperTo, KernelReap
  <2>2. ChanInv' /\ Dispatched' = Dispatched
    BY <1>1, <2>1, FifoUntouched DEF DataInv
  <2>3. ~closed => ord[u] = Dispatched + 1
    BY <2>1, ReapsTheNext
  <2>4. ~closed => /\ u \in Owned /\ Owned' = Owned \ {u}
                   /\ InState("done")' \subseteq InState("done") /\ InState("flight")' \subseteq InState("flight")
    BY <1>1, <2>1, DataTypes DEF KernelReap, Reapable, KernelTypeOK, Owned, InState
  <2>5. NumberInv'
    BY <1>1, <2>1, <2>2, <2>4, NumbersKept DEF DataInv, NumberInv
  <2>6. NextChunk = Dispatched + 1 /\ NextChunk' = Dispatched + 2 /\ ReaperLive
    BY <2>1, <2>2 DEF NextChunk, Undispatched, ReaperLive
  <2>7. ASSUME ~closed
        PROVE  /\ NextChunk' <= submitted + 1
               /\ \A v \in Owned' : ord[v] >= NextChunk'
               /\ \A n \in NextChunk'..submitted : \E v \in Owned' : ord[v] = n
               /\ \A v, w \in Owned' : ord[v] = ord[w] => v = w
    <3>1. /\ \A v \in Owned : ord[v] >= NextChunk
          /\ \A n \in NextChunk..submitted : \E v \in Owned : ord[v] = n
          /\ \A v, w \in Owned : ord[v] = ord[w] => v = w
          /\ ord[u] <= submitted
      BY <2>6, <2>7 DEF DataInv, RingInv, NumberInv
    <3>2. ASSUME NEW v \in Owned' PROVE ord[v] >= NextChunk'
      <4>1. v \in Owned /\ v # u /\ ord[v] \in Nat
        BY <1>2, <2>4, <2>7 DEF Owned
      <4>2. ord[v] # ord[u] /\ ord[v] >= NextChunk
        BY <2>4, <2>7, <3>1, <4>1
      <4> QED  BY <1>2, <2>3, <2>6, <2>7, <4>1, <4>2
    <3>3. ASSUME NEW n \in NextChunk'..submitted PROVE \E v \in Owned' : ord[v] = n
      <4>1. n \in NextChunk..submitted /\ n # ord[u]
        BY <1>2, <2>3, <2>6, <2>7
      <4> QED  BY <2>4, <2>7, <3>1, <4>1
    <3>4. NextChunk' <= submitted + 1
      BY <1>2, <2>3, <2>6, <2>7, <3>1
    <3> QED  BY <2>4, <2>7, <3>1, <3>2, <3>3, <3>4
  <2>8. RingInv'
    BY <1>1, <2>1, <2>7 DEF RingInv
  <2>9. DispatchInv'
    BY <1>1, <2>1, <2>2, <2>3 DEF DispatchInv
  <2> QED  BY <2>2, <2>5, <2>8, <2>9 DEF DataInv
<1>5. ASSUME rp \in {"try", "resend"}, rp' = "submit", Len(chan) < ChanCap, chan' = Append(chan, ord[urb]),
             UNCHANGED <<dropped, lost, kernelVars, urb>>
      PROVE  DataInv'
  <2>1. ord[urb] = Dispatched + 1
    BY <1>5 DEF DataInv, DispatchInv
  <2>2. ChanInv' /\ Dispatched' = Dispatched + 1
    BY <1>1, <1>5, <2>1, SendKeepsChan, DataTypes DEF DataInv
  <2>3. NumberInv'
    BY <1>1, <1>5, <2>2 DEF kernelVars, DataInv, NumberInv, InState
  <2>4. NextChunk' = NextChunk /\ Owned' = Owned /\ ReaperLive
    BY <1>2, <1>5, <2>2 DEF NextChunk, Undispatched, Owned, kernelVars, ReaperLive, ReaperHolds
  <2>5. RingInv'
    BY <1>1, <1>5, <2>4 DEF kernelVars, DataInv, RingInv
  <2>6. DispatchInv'
    BY <1>5 DEF DispatchInv
  <2> QED  BY <2>2, <2>3, <2>5, <2>6 DEF DataInv
<1>6. CASE ReaperTriesSend
  <2>1. CASE Len(chan) < ChanCap
    BY <1>5, <1>6, <2>1 DEF ReaperTriesSend, ReaperTo
  <2>2. CASE ~(Len(chan) < ChanCap)
    <3>1. /\ rp = "try" /\ rp' = "evict" /\ UNCHANGED <<kernelVars, fifoVars, urb>>
      BY <1>6, <2>2 DEF ReaperTriesSend, ReaperTo, fifoVars
    <3>2. ChanInv' /\ Dispatched' = Dispatched
      BY <1>1, <3>1, FifoUntouched DEF DataInv
    <3>3. NumberInv' /\ DispatchInv'
      BY <1>1, <3>1, <3>2 DEF kernelVars, DataInv, NumberInv, DispatchInv, InState
    <3>4. RingInv'
      BY <1>1, <3>1, <3>2 DEF kernelVars, DataInv, RingInv, ReaperLive, ReaperHolds, NextChunk, Undispatched, Owned
    <3> QED  BY <3>2, <3>3, <3>4 DEF DataInv
  <2> QED  BY <2>1, <2>2
<1>7. CASE ReaperEvicts
  <2>1. rp = "evict" /\ rp' = "resend" /\ UNCHANGED <<kernelVars, urb>>
    BY <1>7 DEF ReaperEvicts, ReaperTo
  <2>2. ChanInv' /\ Dispatched' = Dispatched /\ Len(chan') < ChanCap
    <3>1. CASE chan = <<>>
      <4>1. UNCHANGED fifoVars /\ Len(chan) = 0
        BY <1>7, <3>1 DEF ReaperEvicts
      <4> QED  BY <1>1, <4>1, FifoUntouched DEF DataInv
    <3>2. CASE chan # <<>>
      <4>1. ChanInv' /\ Dispatched' = Dispatched /\ Len(chan') = Len(chan) - 1
        BY <1>1, <1>7, <3>2, EvictKeepsChan, DataTypes DEF ReaperEvicts, DataInv
      <4>2. Len(chan) <= ChanCap
        BY DEF DataInv, ChanInv
      <4> QED  BY <1>2, <4>1, <4>2
    <3> QED  BY <3>1, <3>2
  <2>3. NumberInv'
    BY <1>1, <2>1, <2>2 DEF kernelVars, DataInv, NumberInv, InState
  <2>4. DispatchInv'
    BY <2>1, <2>2 DEF kernelVars, DataInv, DispatchInv
  <2>5. RingInv'
    BY <1>1, <2>1, <2>2 DEF kernelVars, DataInv, RingInv, ReaperLive, ReaperHolds, NextChunk, Undispatched, Owned
  <2> QED  BY <2>2, <2>3, <2>4, <2>5 DEF DataInv
<1>8. CASE ReaperResends
  <2>1. rp = "resend" /\ Len(chan) < ChanCap
    BY <1>8 DEF ReaperResends, ReaperTo, DataInv, DispatchInv
  <2> QED  BY <1>5, <1>8, <2>1 DEF ReaperResends, ReaperTo
<1>9. CASE ReaperSubmits
  <2>1. rp = "submit" /\ rp' = "loop" /\ KernelSubmit(urb) /\ UNCHANGED <<fifoVars, urb>>
    BY <1>9 DEF ReaperSubmits, ReaperTo
  <2>2. urb \in Urbs /\ st[urb] = "host"
    BY <2>1 DEF IInv, ReaperInv, ReaperHolds
  <2>3. /\ \A v \in Urbs : ord'[v] <= submitted'
        /\ ord'[urb] = submitted + 1 /\ submitted' = submitted + 1
        /\ \A v \in Urbs \ {urb} : ord'[v] = ord[v]
        /\ ~closed => \A w \in InState("done")', v \in InState("flight")' : ord'[w] <= ord'[v]
        /\ Owned' = Owned \cup {urb} /\ urb \notin Owned
    BY <2>1, <2>2, SubmitGoesLast DEF Owned
  <2>4. ChanInv' /\ Dispatched' = Dispatched
    BY <1>1, <2>1, FifoUntouched DEF DataInv
  <2>5. \A q \in Readers : rd[q] # "start"
    BY <2>1 DEF IInv, StartInv
  <2>6. NumberInv'
    BY <1>1, <2>1, <2>3, <2>4, <2>5 DEF NumberInv
  <2>7. NextChunk' = NextChunk /\ NextChunk \in Nat /\ ReaperLive
    BY <1>2, <2>1, <2>4 DEF NextChunk, Undispatched, ReaperLive, ReaperHolds
  <2>8. ASSUME ~closed
        PROVE  /\ NextChunk <= submitted' + 1
               /\ \A v \in Owned' : ord'[v] >= NextChunk
               /\ \A n \in NextChunk..submitted' : \E v \in Owned' : ord'[v] = n
               /\ \A v, w \in Owned' : ord'[v] = ord'[w] => v = w
    <3>1. /\ NextChunk <= submitted + 1
          /\ \A v \in Owned : ord[v] >= NextChunk
          /\ \A n \in NextChunk..submitted : \E v \in Owned : ord[v] = n
          /\ \A v, w \in Owned : ord[v] = ord[w] => v = w
      BY <2>7, <2>8 DEF DataInv, RingInv
    <3>2. \A v \in Owned : v \in Urbs \ {urb} /\ ord'[v] = ord[v] /\ ord[v] <= submitted /\ ord[v] \in Nat
      BY <1>2, <2>3 DEF Owned, DataInv, NumberInv
    <3>3. \A v \in Owned' : ord'[v] >= NextChunk
      BY <2>3, <3>1, <3>2
    <3>4. ASSUME NEW n \in NextChunk..submitted' PROVE \E v \in Owned' : ord'[v] = n
      <4>1. n \in NextChunk..submitted \/ n = submitted + 1
        BY <1>2, <2>3, <2>7
      <4> QED  BY <2>3, <3>1, <3>2, <4>1
    <3>5. ASSUME NEW v \in Owned', NEW w \in Owned', ord'[v] = ord'[w] PROVE v = w
      <4>1. \A x \in Owned : ord'[x] # submitted + 1
        BY <1>2, <3>2
      <4> QED  BY <2>3, <3>1, <3>2, <3>5, <4>1
    <3> QED  BY <1>2, <2>3, <2>7, <3>1, <3>3, <3>4, <3>5
  <2>9. RingInv' /\ DispatchInv'
    BY <1>1, <2>1, <2>7, <2>8 DEF RingInv, DispatchInv
  <2> QED  BY <2>4, <2>6, <2>9 DEF DataInv
<1> QED
  BY <1>3, <1>4, <1>6, <1>7, <1>8, <1>9 DEF Reaper

\* Close: what it does to the kernel's URBs no longer matters for the chunks.
LEMMA CloserData ==
  ASSUME IInv, DataInv, NEW c \in Closers, CloseCaller(c) \/ CloseRuns(c) PROVE DataInv'
<1>1. UNCHANGED <<fifoVars, delivered, rp, urb, rd>>
  BY DEF CloseCaller, CloseRuns, reaperVars, readerVars
<1>2. UNCHANGED <<ord, submitted>> /\ closed'
  <2>1. CASE CloseCaller(c)
    BY <2>1 DEF CloseCaller, CloseCall, kernelVars
  <2>2. CASE CloseRuns(c)
    <3>1. cp[c] \in ClosePcs
      BY <2>2 DEF CloseRuns, CloseChecksStream, CloseDiscards, CloseWaits, CloseDrains, CloseDrained, CloseReleases,
         CloseClosesFd, CloserTo, ClosePcs
    <3>2. closed
      BY <3>1 DEF IInv, CloseInv
    <3> QED
      BY <2>2, <3>2 DEF CloseRuns, CloseChecksStream, CloseDiscards, CloseWaits, CloseDrains, CloseDrained,
         CloseReleases, CloseClosesFd, KernelDiscard, KernelReap, KernelReleaseInterface, KernelCloseFd, kernelVars
  <2> QED  BY <2>1, <2>2
<1> QED
  BY <1>1, <1>2, QuietKeepsData

LEMMA NextData == ASSUME IInv, DataInv, [Next]_vars PROVE DataInv'
<1>1. CASE Chip BY <1>1, ChipData
<1>2. CASE Disconnect BY <1>2, DisconnectData
<1>3. CASE Reaper BY <1>3, ReaperData
<1>4. ASSUME NEW r \in Readers, ReadCaller(r) \/ ReadRuns(r) PROVE DataInv'
  BY <1>4, ReaderData
<1>5. ASSUME NEW r \in Readers, StartRuns(r) PROVE DataInv'
  BY <1>5, StarterData
<1>6. ASSUME NEW c \in Closers, CloseCaller(c) \/ CloseRuns(c) PROVE DataInv'
  BY <1>6, CloserData
<1>7. CASE UNCHANGED vars
  <2>1. /\ UNCHANGED <<kernelVars, fifoVars, delivered, rp, urb, rd, closed>>
        /\ UNCHANGED <<Owned, InState("done"), InState("flight")>>
    BY <1>7 DEF vars, kernelVars, reaperVars, readerVars, closerVars, Owned, InState
  <2> QED  BY <2>1, QuietKeepsData DEF kernelVars, DataInv, NumberInv
<1> QED
  BY <1>1, <1>2, <1>3, <1>4, <1>5, <1>6, <1>7 DEF Next
----------------------------------------------------------------------------
(* The theorems.                                                           *)

\* Chunk numbers follow the stream from the kernel to the readers, for every
\* ring size, any number of goroutines and every fault.
THEOREM DataHolds == Spec => []DataInv
<1>1. IInv /\ DataInv /\ [Next]_vars => DataInv'
  BY NextData
<1> QED
  BY <1>1, InitData, InvariantHolds, PTL DEF Spec

\* Every chunk dispatched was returned by a Read, waits in streamCh or is
\* counted in DroppedSampleChunks (dispatchChunk, DroppedSampleChunks).
THEOREM ChunksConserved == Spec => []ChunkConservation
<1>1. IInv /\ DataInv => ChunkConservation
  <2> SUFFICES ASSUME IInv, DataInv PROVE ChunkConservation
    OBVIOUS
  <2>1. /\ Left \in Nat /\ Len(chan) \in Nat /\ Dispatched = Left + Len(chan)
        /\ DOMAIN chan = 1..Len(chan)
    BY DataTypes, FifoFacts
  <2>2. Chunks(chan) = Left + 1..Dispatched
    <3>1. \A i \in 1..Len(chan) : chan[i] = Left + i
      BY DEF DataInv, ChanInv
    <3>2. ASSUME NEW x \in Left + 1..Dispatched PROVE x \in Chunks(chan)
      <4>1. x - Left \in 1..Len(chan) /\ x = Left + (x - Left)
        BY <2>1
      <4> QED  BY <2>1, <3>1, <4>1 DEF Chunks
    <3>3. ASSUME NEW i \in 1..Len(chan) PROVE chan[i] \in Left + 1..Dispatched
      BY <2>1, <3>1
    <3> QED  BY <2>1, <3>2, <3>3 DEF Chunks
  <2>3. Chunks(delivered) \cup lost = 1..Left
    BY DEF DataInv, ChanInv
  <2>4. 1..Left \cup (Left + 1..Dispatched) = 1..Dispatched
    BY <2>1
  <2>5. Chunks(delivered) \cup Chunks(chan) \cup lost = 1..Dispatched
    BY <2>2, <2>3, <2>4
  <2>6. Len(delivered) + Len(chan) + dropped = Dispatched
    BY DataTypes, FifoFacts DEF Dispatched, Left
  <2> QED  BY <2>5, <2>6 DEF ChunkConservation
<1> QED
  BY <1>1, DataHolds, InvariantHolds, PTL

\* Reads return chunks in stream order, and what backpressure drops is older
\* than all that waits (dispatchChunk).
THEOREM OldestDroppedFirst == Spec => []DropOldestInOrder
<1>1. IInv /\ DataInv => DropOldestInOrder
  <2> SUFFICES ASSUME IInv, DataInv PROVE DropOldestInOrder
    OBVIOUS
  <2> DEFINE n == Len(delivered)
             s == delivered \o chan
  <2>1. /\ Left \in Nat /\ Len(chan) \in Nat /\ n \in Nat
        /\ DOMAIN chan = 1..Len(chan) /\ DOMAIN delivered = 1..n
        /\ \A i \in 1..n : delivered[i] \in Nat
    BY DataTypes, FifoFacts
  <2>2. /\ DOMAIN s = 1..n + Len(chan)
        /\ \A i \in 1..n : s[i] = delivered[i]
        /\ \A i \in n + 1..n + Len(chan) : s[i] = chan[i - n]
    BY DataTypes DEF FifoTypeOK
  <2>3. /\ \A i \in 1..Len(chan) : chan[i] = Left + i
        /\ Chunks(delivered) \cup lost = 1..Left /\ Increasing(delivered)
    BY DEF DataInv, ChanInv
  <2>4. \A i \in 1..n : delivered[i] \in 1..Left
    BY <2>1, <2>3 DEF Chunks
  <2>5. ASSUME NEW i \in 1..n + Len(chan), NEW j \in 1..n + Len(chan), i < j PROVE s[i] < s[j]
    <3>1. \A k \in 1..n + Len(chan) : k \in 1..n \/ k \in n + 1..n + Len(chan)
      BY <2>1
    <3>2. \A k \in n + 1..n + Len(chan) : k - n \in 1..Len(chan) /\ s[k] = Left + (k - n)
      <4> TAKE k \in n + 1..n + Len(chan)
      <4>1. k - n \in 1..Len(chan)
        BY <2>1
      <4> QED  BY <2>2, <2>3, <4>1
    <3>3. CASE j \in 1..n
      <4>1. i \in 1..n
        BY <2>1, <2>5, <3>3
      <4>2. delivered[i] < delivered[j]
        BY <2>1, <2>3, <2>5, <3>3, <4>1 DEF Increasing
      <4> QED  BY <2>2, <3>3, <4>1, <4>2
    <3>4. CASE j \in n + 1..n + Len(chan) /\ i \in 1..n
      <4>1. s[i] \in 1..Left /\ s[j] = Left + (j - n) /\ j - n \in 1..Len(chan)
        BY <2>2, <2>4, <3>2, <3>4
      <4> QED  BY <2>1, <4>1
    <3>5. CASE j \in n + 1..n + Len(chan) /\ i \in n + 1..n + Len(chan)
      <4>1. s[i] = Left + (i - n) /\ s[j] = Left + (j - n)
        BY <3>2, <3>5
      <4> QED  BY <2>1, <2>5, <4>1
    <3> QED  BY <3>1, <3>3, <3>4, <3>5
  <2>6. Increasing(s)
    BY <2>2, <2>5 DEF Increasing
  <2>7. ASSUME NEW x \in lost, NEW y \in Chunks(chan) PROVE x < y
    <3>1. x \in 1..Left
      BY <2>3
    <3>2. PICK i \in 1..Len(chan) : y = Left + i
      BY <2>1, <2>3 DEF Chunks
    <3> QED  BY <2>1, <3>1, <3>2
  <2> QED  BY <2>6, <2>7 DEF DropOldestInOrder
<1> QED
  BY <1>1, DataHolds, InvariantHolds, PTL
----------------------------------------------------------------------------
(* The refinement.  The barred variables are those of Fifo in BulkStream.  *)

BufBar == IF InHand THEN Append(chan, ord[urb]) ELSE chan
LastBar == Len(delivered) + Len(chan) + dropped + (IF InHand THEN 1 ELSE 0)

LEMMA BarFacts ==
  ASSUME IInv, DataInv
  PROVE  /\ LastBar = Dispatched + (IF InHand THEN 1 ELSE 0)
         /\ InHand => ord[urb] = Dispatched + 1 /\ ord[urb] \in Nat
BY DataTypes, FifoFacts DEF LastBar, InHand, Dispatched, Left, DataInv, DispatchInv

\* A step that moves no chunk is a stutter of the channel.
LEMMA NoChunkMoves ==
  ASSUME UNCHANGED <<fifoVars, delivered, InHand>>, InHand => UNCHANGED <<ord, urb>>
  PROVE  UNCHANGED <<BufBar, LastBar, dropped>>
BY DEF BufBar, LastBar, fifoVars

LEMMA TailOfOneMore ==
  ASSUME NEW s \in Seq(Nat), NEW x \in Nat, s # <<>>
  PROVE  Tail(Append(s, x)) = Append(Tail(s), x) /\ Append(s, x) # <<>>
<1>1. /\ Len(s) > 0 /\ Len(s) \in Nat /\ Tail(s) \in Seq(Nat) /\ Len(Tail(s)) = Len(s) - 1
      /\ \A i \in 1..Len(s) - 1 : Tail(s)[i] = s[i + 1]
  BY HeadGoes
<1>2. /\ Append(s, x) \in Seq(Nat) /\ Len(Append(s, x)) = Len(s) + 1
      /\ \A i \in 1..Len(s) : Append(s, x)[i] = s[i]
      /\ Append(s, x)[Len(s) + 1] = x
  BY OneMore
<1>3. Append(s, x) # <<>>
  BY <1>1, <1>2
<1>4. /\ Tail(Append(s, x)) \in Seq(Nat) /\ Len(Tail(Append(s, x))) = Len(s)
      /\ \A i \in 1..Len(s) : Tail(Append(s, x))[i] = Append(s, x)[i + 1]
  BY <1>1, <1>2, <1>3, HeadGoes
<1>5. /\ Append(Tail(s), x) \in Seq(Nat) /\ Len(Append(Tail(s), x)) = Len(s)
      /\ \A i \in 1..Len(s) - 1 : Append(Tail(s), x)[i] = Tail(s)[i]
      /\ Append(Tail(s), x)[Len(s)] = x
  BY <1>1, OneMore
<1>6. ASSUME NEW i \in 1..Len(s) PROVE Tail(Append(s, x))[i] = Append(Tail(s), x)[i]
  <2>1. CASE i = Len(s)
    BY <1>1, <1>2, <1>4, <1>5, <2>1
  <2>2. CASE i # Len(s)
    <3>1. i \in 1..Len(s) - 1 /\ i + 1 \in 1..Len(s)
      BY <1>1, <2>2, BeforeTheLast
    <3> QED  BY <1>1, <1>2, <1>4, <1>5, <3>1
  <2> QED  BY <2>1, <2>2
<1> QED
  BY <1>3, <1>4, <1>5, <1>6, SeqEqual

\* The three selects of dispatchChunk, as the one Put of the channel.
LEMMA DispatchRefines ==
  ASSUME IInv, DataInv, ReaperTriesSend \/ ReaperEvicts \/ ReaperResends, UNCHANGED delivered
  PROVE  [Fifo!FifoNext]_<<BufBar, LastBar, dropped>>
<1>1. UNCHANGED <<kernelVars, urb>>
  BY DEF ReaperTriesSend, ReaperEvicts, ReaperResends
<1>2. /\ chan \in Seq(Nat) /\ Len(chan) \in Nat /\ Len(delivered) \in Nat /\ dropped \in Nat
  BY DataTypes, FifoFacts DEF FifoTypeOK
<1>3. CASE ReaperTriesSend
  <2>1. CASE Len(chan) < ChanCap
    <3>1. /\ rp = "try" /\ rp' = "submit" /\ chan' = Append(chan, ord[urb]) /\ dropped' = dropped
      BY <1>3, <2>1 DEF ReaperTriesSend, ReaperTo
    <3>2. ord[urb] = Dispatched + 1 /\ ord[urb] \in Nat
      BY <3>1, DataTypes DEF DataInv, DispatchInv
    <3>3. ~InHand /\ ~InHand' /\ LastBar = Dispatched
      BY <3>1, BarFacts, DataTypes DEF InHand
    <3>4. Len(chan') = Len(chan) + 1
      BY <1>2, <3>1, <3>2, OneMore
    <3>5. LastBar' = LastBar + 1
      BY <1>2, <3>1, <3>3, <3>4 DEF LastBar
    <3>6. BufBar = chan /\ BufBar' = Append(BufBar, LastBar + 1)
      BY <3>1, <3>2, <3>3 DEF BufBar
    <3> QED
      BY <2>1, <3>1, <3>5, <3>6 DEF Fifo!FifoNext, Fifo!Put, BufBar, LastBar
  <2>2. CASE ~(Len(chan) < ChanCap)
    BY <1>1, <1>3, <2>2, NoChunkMoves DEF ReaperTriesSend, ReaperTo, InHand, fifoVars, kernelVars
  <2> QED  BY <2>1, <2>2
<1>4. CASE ReaperEvicts
  <2>1. rp = "evict" /\ rp' = "resend" /\ ~InHand /\ InHand' /\ BufBar = chan /\ LastBar = Dispatched
    BY <1>4, BarFacts, DataTypes DEF ReaperEvicts, ReaperTo, InHand, BufBar
  <2>2. ord[urb] = Dispatched + 1 /\ ord'[urb'] = Dispatched + 1
    BY <1>1, <2>1 DEF DataInv, DispatchInv, kernelVars
  <2>3. CASE chan = <<>>
    <3>1. chan' = chan /\ dropped' = dropped /\ Len(chan) = 0
      BY <1>4, <2>3 DEF ReaperEvicts, fifoVars
    <3>2. LastBar' = LastBar + 1 /\ BufBar' = Append(BufBar, LastBar + 1)
      BY <1>2, <2>1, <2>2, <3>1 DEF LastBar, BufBar
    <3>3. Len(BufBar) < ChanCap
      BY <2>1, <3>1
    <3> QED
      BY <3>1, <3>2, <3>3 DEF Fifo!FifoNext, Fifo!Put, BufBar, LastBar
  <2>4. CASE chan # <<>>
    <3>1. chan' = Tail(chan) /\ dropped' = dropped + 1 /\ Len(chan') = Len(chan) - 1
      BY <1>2, <1>4, <2>4, HeadGoes DEF ReaperEvicts
    <3>2. LastBar' = LastBar + 1
      <4>1. LastBar = Len(delivered) + Len(chan) + dropped + 0
        BY <2>1 DEF LastBar
      <4>2. LastBar' = Len(delivered) + (Len(chan) - 1) + (dropped + 1) + 1
        BY <2>1, <3>1 DEF LastBar
      <4>3. \A a, b, d \in Nat : a + (b - 1) + (d + 1) + 1 = (a + b + d + 0) + 1
        OBVIOUS
      <4> QED  BY <1>2, <4>1, <4>2, <4>3
    <3>3. BufBar' = Append(Tail(BufBar), LastBar + 1)
      BY <2>1, <2>2, <3>1 DEF BufBar
    <3> QED
      BY <2>1, <2>4, <3>1, <3>2, <3>3 DEF Fifo!FifoNext, Fifo!PutEvicting, BufBar, LastBar
  <2> QED  BY <2>3, <2>4
<1>5. CASE ReaperResends
  <2>1. /\ rp = "resend" /\ rp' = "submit" /\ Len(chan) < ChanCap /\ InHand /\ ~InHand'
        /\ chan' = Append(chan, ord[urb]) /\ dropped' = dropped
    BY <1>5 DEF ReaperResends, ReaperTo, InHand, DataInv, DispatchInv
  <2>2. Len(chan') = Len(chan) + 1
    BY <1>2, <2>1, BarFacts, OneMore
  <2>3. BufBar' = BufBar /\ LastBar' = LastBar
    BY <1>2, <2>1, <2>2 DEF BufBar, LastBar
  <2> QED  BY <2>1, <2>3
<1> QED
  BY <1>3, <1>4, <1>5

\* A Read that takes a chunk is the channel's Take, also while the reaper has the
\* next one in its hand.
LEMMA TakeRefines ==
  ASSUME IInv, DataInv, NEW r \in Readers, ReadTakesChunk(r), UNCHANGED <<kernelVars, reaperVars>>
  PROVE  [Fifo!FifoNext]_<<BufBar, LastBar, dropped>>
<1>1. /\ chan \in Seq(Nat) /\ Len(chan) \in Nat /\ Len(delivered) \in Nat /\ dropped \in Nat
      /\ delivered \in Seq(Nat)
  BY DataTypes, FifoFacts DEF FifoTypeOK
<1>2. /\ chan # <<>> /\ chan' = Tail(chan) /\ dropped' = dropped
      /\ delivered' = Append(delivered, Head(chan)) /\ UNCHANGED <<ord, urb, rp>>
  BY DEF ReadTakesChunk, kernelVars, reaperVars
<1>3. Len(chan') = Len(chan) - 1 /\ Len(delivered') = Len(delivered) + 1
  <2>1. Head(chan) \in Nat
    BY <1>1, <1>2
  <2> QED  BY <1>1, <1>2, <2>1, HeadGoes, OneMore
<1>4. InHand' = InHand
  BY <1>2 DEF InHand
<1>5. LastBar' = LastBar
  BY <1>1, <1>2, <1>3, <1>4 DEF LastBar
<1>6. BufBar # <<>> /\ BufBar' = Tail(BufBar)
  BY <1>1, <1>2, <1>4, BarFacts, TailOfOneMore DEF BufBar
<1> QED
  BY <1>2, <1>5, <1>6 DEF Fifo!FifoNext, Fifo!Take, BufBar, LastBar

LEMMA StepRefines ==
  ASSUME IInv, DataInv, [Next]_vars
  PROVE  [Fifo!FifoNext]_<<BufBar, LastBar, dropped>>
<1>1. CASE Chip \/ Disconnect
  BY <1>1, NoChunkMoves DEF Chip, ChipCompletes, Disconnect, Unplug, reaperVars, readerVars, InHand
<1>2. CASE Reaper
  <2>1. UNCHANGED delivered
    BY <1>2 DEF Reaper, readerVars
  <2>2. CASE ReaperTriesSend \/ ReaperEvicts \/ ReaperResends
    BY <2>1, <2>2, DispatchRefines
  <2>3. CASE ~(ReaperTriesSend \/ ReaperEvicts \/ ReaperResends)
    <3>1. UNCHANGED fifoVars /\ ~InHand /\ ~InHand'
      BY <1>2, <2>3 DEF Reaper, ReaperFinishes, ReaperCallsReap, ReaperReaps, ReaperReapFails, ReaperAccounts,
         ReaperChecksStatus, ReaperSubmits, ReaperSubmitFails, ReaperFailType, ReaperFailData, ReaperTo, InHand
    <3> QED  BY <2>1, <3>1, NoChunkMoves DEF InHand
  <2> QED  BY <2>2, <2>3
<1>3. ASSUME NEW r \in Readers, ReadCaller(r) \/ ReadRuns(r)
      PROVE  [Fifo!FifoNext]_<<BufBar, LastBar, dropped>>
  <2>1. UNCHANGED <<kernelVars, reaperVars>>
    BY <1>3 DEF ReadCaller, ReadRuns
  <2>2. CASE ReadTakesChunk(r)
    BY <2>1, <2>2, TakeRefines
  <2>3. CASE ~ReadTakesChunk(r)
    <3>1. UNCHANGED <<fifoVars, delivered>>
      BY <1>3, <2>3 DEF ReadCaller, ReadRuns, ReadCall, CancelContext, EnterOnce, LeaveOnce, ReadIsCancelled,
         ReadSeesEnd
    <3> QED  BY <2>1, <3>1, NoChunkMoves DEF kernelVars, reaperVars, InHand
  <2> QED  BY <2>2, <2>3
<1>4. ASSUME NEW r \in Readers, StartRuns(r)
      PROVE  [Fifo!FifoNext]_<<BufBar, LastBar, dropped>>
  <2>1. UNCHANGED <<fifoVars, delivered>>
    BY <1>4 DEF StartRuns
  <2>2. \/ rp = "off" /\ (rp' = "off" \/ rp' = "loop")
        \/ UNCHANGED <<rp, ord, urb>>
    BY <1>4 DEF StartRuns, StartSubmits, StartSubmitFails, StartUnwinds, StartLaunches, StartAssigns, ReaderTo,
       reaperVars, kernelVars, IInv, StartInv
  <2>3. UNCHANGED InHand /\ (InHand => UNCHANGED <<ord, urb>>)
    BY <2>2 DEF InHand
  <2> QED  BY <2>1, <2>3, NoChunkMoves
<1>5. ASSUME NEW c \in Closers, CloseCaller(c) \/ CloseRuns(c)
      PROVE  [Fifo!FifoNext]_<<BufBar, LastBar, dropped>>
  <2>1. UNCHANGED <<fifoVars, delivered, rp, urb>>
    BY <1>5 DEF CloseCaller, CloseRuns, reaperVars, readerVars
  <2>2. UNCHANGED ord
    BY <1>5 DEF CloseCaller, CloseCall, CloseRuns, CloseChecksStream, CloseDiscards, CloseWaits, CloseDrains,
       CloseDrained, CloseReleases, CloseClosesFd, KernelDiscard, KernelReap, KernelReleaseInterface,
       KernelCloseFd, kernelVars
  <2> QED  BY <2>1, <2>2, NoChunkMoves DEF InHand
<1>6. CASE UNCHANGED vars
  BY <1>6, NoChunkMoves DEF vars, kernelVars, reaperVars, readerVars, InHand
<1> QED
  BY <1>1, <1>2, <1>3, <1>4, <1>5, <1>6 DEF Next

\* streamCh with its three non-blocking selects is a bounded first-in first-out
\* buffer that gives up its oldest item (dispatchChunk), for every capacity.
THEOREM ChannelRefines == Spec => ChannelIsLossyFifo
<1>1. Init => Fifo!FifoInit
  BY DEF Init, Fifo!FifoInit, InHand
<1>2. IInv /\ DataInv /\ [Next]_vars => [Fifo!FifoNext]_(Fifo!fifo)
  BY StepRefines DEF Fifo!fifo, BufBar, LastBar
<1> QED
  BY <1>1, <1>2, DataHolds, InvariantHolds, PTL DEF Spec, ChannelIsLossyFifo, Fifo!FifoSpec
----------------------------------------------------------------------------
(* Without faults.                                                         *)

LEMMA InitNoFault == Init => NoFaultInv
BY DEF Init, KernelInit, NoFaultInv

\* The descriptor is open as long as Close has not been called.
LEMMA NextNoFault ==
  ASSUME Faults = {}, IInv, NoFaultInv, [Next]_vars
  PROVE  NoFaultInv'
<1>1. /\ plugged /\ (~closed => bad = {} /\ fdOpen)
      /\ fdOpen => \A r \in Readers : rd[r] \notin {"unwind", "assignErr"}
      /\ fdOpen \/ sawStream => streamErr = "nil" /\ rp \notin {"failType", "failData"}
      /\ sawStream => rp # "off" /\ (fdOpen \/ rp = "exit")
  BY DEF NoFaultInv, IInv, CloseInv
<1>2. rd \in [Readers -> {"idle", "ensure", "start", "unwind", "assignNil", "assignErr", "select"}]
  BY DEF IInv, TypeOK, ReaderTypeOK
<1>3. CASE Chip
  <2>1. PICK u \in Urbs, ok \in BOOLEAN : ChipCompletes(u, ok) /\ (ok \/ "status" \in Faults)
    BY <1>3 DEF Chip
  <2>2. UNCHANGED <<bad, plugged, fdOpen>>
    BY <2>1 DEF ChipCompletes
  <2> QED
    BY <1>1, <1>3, <2>2 DEF Chip, NoFaultInv, streamVars, reaperVars, closerVars, readerVars
<1>4. CASE Disconnect
  BY <1>4 DEF Disconnect
<1>5. CASE Reaper
  <2>1. UNCHANGED <<closed, sawStream, rd, plugged, fdOpen>> /\ bad' \subseteq bad
    BY <1>5 DEF Reaper, closerVars, readerVars, kernelVars, ReaperFinishes, ReaperCallsReap, ReaperReaps,
       ReaperReapFails, ReaperAccounts, ReaperChecksStatus, ReaperTriesSend, ReaperEvicts, ReaperResends,
       ReaperSubmits, ReaperSubmitFails, ReaperFailType, ReaperFailData, KernelReap, KernelSubmit
  <2>2. rp # "off" /\ rp' # "off" /\ rp # "exit"
    BY <1>5 DEF Reaper, ReaperFinishes, ReaperCallsReap, ReaperReaps,
       ReaperReapFails, ReaperAccounts, ReaperChecksStatus, ReaperTriesSend, ReaperEvicts, ReaperResends,
       ReaperSubmits, ReaperSubmitFails, ReaperFailType, ReaperFailData, ReaperTo
  <2>3. ASSUME fdOpen PROVE streamErr' = "nil" /\ rp' \notin {"failType", "failData"}
    <3>1. ~ReaperReapFails /\ ~ReaperSubmitFails /\ ~ReaperFailType /\ ~ReaperFailData
      BY <1>1, <2>3 DEF ReaperReapFails, ReaperSubmitFails, SubmitMayFail, CanSubmit, ReaperFailType,
         ReaperFailData, ReaperTo
    <3>2. ReaperChecksStatus => rp' = "try"
      BY <1>1 DEF ReaperChecksStatus, ReaperTo
    <3> QED
      BY <1>1, <1>5, <2>3, <3>1, <3>2 DEF Reaper, ReaperFinishes, ReaperCallsReap, ReaperReaps, ReaperAccounts,
         ReaperChecksStatus, ReaperTriesSend, ReaperEvicts, ReaperResends, ReaperSubmits, ReaperTo, streamVars
  <2> QED  BY <1>1, <2>1, <2>2, <2>3 DEF NoFaultInv
<1>6. ASSUME NEW r \in Readers, ReadCaller(r) \/ ReadRuns(r) PROVE NoFaultInv'
  <2>1. UNCHANGED <<kernelVars, streamVars, reaperVars, closerVars>>
    BY <1>6 DEF ReadCaller, ReadRuns
  <2>2. \A q \in Readers : rd'[q] \in {"unwind", "assignErr"} => rd[q] = rd'[q]
    <3> USE DEF ReadReturns, ReaderTo
    <3>1. CASE ReadCall(r)  BY <1>2, <3>1 DEF ReadCall
    <3>2. CASE CancelContext(r)  BY <3>2 DEF CancelContext
    <3>3. CASE EnterOnce(r)  BY <1>2, <3>3 DEF EnterOnce
    <3>4. CASE LeaveOnce(r)  BY <1>2, <3>4 DEF LeaveOnce
    <3>5. CASE ReadIsCancelled(r)  BY <1>2, <3>5 DEF ReadIsCancelled
    <3>6. CASE ReadSeesEnd(r)  BY <1>2, <3>6 DEF ReadSeesEnd
    <3>7. CASE ReadTakesChunk(r)  BY <1>2, <3>7 DEF ReadTakesChunk
    <3> QED  BY <1>6, <3>1, <3>2, <3>3, <3>4, <3>5, <3>6, <3>7 DEF ReadCaller, ReadRuns
  <2> QED  BY <1>1, <2>1, <2>2 DEF NoFaultInv, kernelVars, streamVars, reaperVars, closerVars
<1>7. ASSUME NEW r \in Readers, StartRuns(r) PROVE NoFaultInv'
  <2>1. /\ UNCHANGED <<plugged, fdOpen, closed, sawStream>> /\ bad' \subseteq bad
    BY <1>7 DEF StartRuns, StartSubmits, StartSubmitFails, StartUnwinds, StartLaunches, StartAssigns,
       closerVars, kernelVars, KernelSubmit, KernelDiscardAndReapAll
  <2>2. rp' = rp \/ (rp = "off" /\ rp' = "loop")
    BY <1>7 DEF StartRuns, StartSubmits, StartSubmitFails, StartUnwinds, StartLaunches, StartAssigns,
       reaperVars, ReaderTo, IInv, StartInv
  <2>3. fdOpen => \A q \in Readers : rd'[q] \notin {"unwind", "assignErr"}
    <3> SUFFICES ASSUME fdOpen, NEW q \in Readers PROVE rd'[q] \notin {"unwind", "assignErr"}
      OBVIOUS
    <3>1. ~StartSubmitFails(r) /\ ~StartUnwinds(r)
      BY <1>1 DEF StartSubmitFails, SubmitMayFail, CanSubmit, StartUnwinds, ReaderTo
    <3> QED
      BY <1>1, <1>2, <1>7, <3>1 DEF StartRuns, StartSubmits, StartLaunches, StartAssigns, ReaderTo
  <2>4. fdOpen \/ sawStream => streamErr' = "nil"
    <3>1. fdOpen \/ sawStream => ~StartAssigns(r, "assignErr", "err")
      BY <1>1 DEF StartAssigns, ReaderTo, IInv, StartInv
    <3> QED
      BY <1>1, <1>7, <3>1 DEF StartRuns, StartSubmits, StartSubmitFails, StartUnwinds, StartLaunches, StartAssigns,
         streamVars
  <2> QED  BY <1>1, <2>1, <2>2, <2>3, <2>4 DEF NoFaultInv
<1>8. ASSUME NEW c \in Closers, CloseCaller(c) \/ CloseRuns(c) PROVE NoFaultInv'
  <2>1. /\ UNCHANGED <<streamErr, rp, rd, plugged>> /\ closed'
    <3>1. cp[c] \in ClosePcs \/ CloseCaller(c)
      BY <1>8 DEF CloseRuns, CloseChecksStream, CloseDiscards, CloseWaits, CloseDrains, CloseDrained, CloseReleases,
         CloseClosesFd, CloserTo, ClosePcs
    <3>2. closed \/ CloseCaller(c)
      BY <3>1 DEF IInv, CloseInv
    <3> QED
      BY <1>8, <3>2 DEF CloseCaller, CloseCall, CloseRuns, CloseChecksStream, CloseDiscards, CloseWaits, CloseDrains,
         CloseDrained, CloseReleases, CloseClosesFd, KernelDiscard, KernelReap, KernelReleaseInterface,
         KernelCloseFd, kernelVars, streamVars, reaperVars, readerVars
  <2>2. CASE CloseChecksStream(c)
    <3>1. fdOpen /\ fdOpen' = fdOpen
      BY <2>2 DEF CloseChecksStream, CloserTo, ClosePcs, IInv, CloseInv, kernelVars
    <3>2. sawStream' => rp # "off"
      BY <2>2 DEF CloseChecksStream, IInv, ReaperInv
    <3> QED  BY <1>1, <2>1, <3>1, <3>2 DEF NoFaultInv
  <2>3. CASE CloseClosesFd(c)
    <3>1. sawStream' = sawStream /\ fdOpen' = FALSE
      BY <2>3 DEF CloseClosesFd, KernelCloseFd
    <3>2. sawStream => rp = "exit"
      BY <2>3 DEF CloseClosesFd, CloserTo, IInv, ReleaseInv
    <3> QED  BY <1>1, <2>1, <3>1, <3>2 DEF NoFaultInv
  <2>4. CASE ~CloseChecksStream(c) /\ ~CloseClosesFd(c)
    <3>1. UNCHANGED <<sawStream, fdOpen>>
      BY <1>8, <2>4 DEF CloseCaller, CloseCall, CloseRuns, CloseDiscards, CloseWaits, CloseDrains,
         CloseDrained, CloseReleases, KernelDiscard, KernelReap, KernelReleaseInterface, kernelVars
    <3> QED  BY <1>1, <2>1, <3>1 DEF NoFaultInv
  <2> QED  BY <2>2, <2>3, <2>4
<1>9. CASE UNCHANGED vars
  BY <1>1, <1>9 DEF vars, kernelVars, streamVars, reaperVars, closerVars, readerVars, NoFaultInv
<1> QED
  BY <1>3, <1>4, <1>5, <1>6, <1>7, <1>8, <1>9 DEF Next

\* A Close that tears down a running stream is not mistaken for a failure of its
\* transfers, if nothing else fails (runStreamReaper's test of closed).
THEOREM OrderlyClose == ASSUME Faults = {} PROVE Spec => []OrderlyCloseIsNoError
<1>1. IInv /\ NoFaultInv /\ [Next]_vars => NoFaultInv'
  BY NextNoFault
<1>2. NoFaultInv => OrderlyCloseIsNoError
  BY DEF NoFaultInv, OrderlyCloseIsNoError
<1> QED
  BY <1>1, <1>2, InitNoFault, InvariantHolds, PTL DEF Spec
=============================================================================
