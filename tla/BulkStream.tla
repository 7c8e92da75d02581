----------------------------- MODULE BulkStream -----------------------------
(***************************************************************************)
(* The bulk sample stream of linuxBackend: bulk_linux.go, and Read, Close  *)
(* and drainOrphanedURBs of usbfs_linux.go.                                *)
(*                                                                         *)
(* Three kinds of goroutine share one ring of URBs:                        *)
(*   - the readers, calling Read; the first one starts the stream inside   *)
(*     sync.Once (ensureStream, startStream);                              *)
(*   - the reaper, started by it (runStreamReaper, dispatchChunk);         *)
(*   - the closers, calling Close.                                         *)
(* A step is what one goroutine does between two points where another can  *)
(* be seen: one ioctl, one channel operation, one read or write of a       *)
(* shared variable.  Memory is sequentially consistent, except that an     *)
(* error interface is stored in two words (see ReaperFailType).            *)
(***************************************************************************)
EXTENDS UsbfsUrbs, Sequences, FiniteSets

CONSTANTS
  Readers,    \* goroutines calling Read
  Closers,    \* goroutines calling Close, once each
  MaxChunks,  \* bound: transfers the chip completes before Close is called
  Faults      \* which faults the environment injects, see FaultKinds

FaultKinds == {"unplug",  \* the dongle disappears
               "status",  \* a transfer completes with a non-zero status
               "submit"}  \* SUBMITURB fails although the dongle is there

ASSUME StreamAssumption ==
  /\ MaxChunks \in Nat
  /\ Faults \subseteq FaultKinds

ChanCap == NumURBs  \* streamChanCap = streamRingURBs

VARIABLES
  chan,        \* streamCh: the chunks waiting for a Read, by number
  dropped,     \* droppedURBs
  streamDone,  \* "nil", "open" (made by startStream) or "closed"
  streamErr,   \* "nil", "torn" (type word only) or "err"
  once,        \* streamOnce: "new", "running" or "done"
  rp,          \* where the reaper is
  urb,         \* the reaper's local urb
  pending,     \* the reaper's local pending
  closed,      \* the atomic flag
  cp,          \* cp[c]: where closer c is
  cursor,      \* loop index of the first closer
  sawStream,   \* the first closer found streamDone # nil
  closeErr,    \* closeErr[c]: what Close returned to c
  rd,          \* rd[r]: where reader r is
  ctx,         \* the readers whose context is cancelled
  res,         \* res[r]: the outcome of r's last Read
  delivered,   \* history: the chunks Reads returned, in order
  lost         \* history: the chunks counted in dropped

fifoVars   == <<chan, dropped, lost>>
streamVars == <<streamDone, streamErr>>
reaperVars == <<rp, urb, pending>>
closerVars == <<closed, cp, cursor, sawStream, closeErr>>
readerVars == <<rd, ctx, res, once, delivered>>
vars == <<kernelVars, fifoVars, streamVars, reaperVars, closerVars, readerVars>>

NoURB == 0
Outcomes == {"none", "chunk", "cancelled", "err", "torn", "empty"}

FifoTypeOK ==
  chan \in Seq(Nat) /\ dropped \in Nat /\ lost \in SUBSET Nat

StreamTypeOK ==
  /\ streamDone \in {"nil", "open", "closed"}
  /\ streamErr \in {"nil", "torn", "err"}

ReaperTypeOK ==
  /\ rp \in {"off", "loop", "reaping", "check", "try", "evict", "resend",
             "submit", "failType", "failData", "exit"}
  /\ urb \in Urbs \cup {NoURB}
  /\ pending \in Nat

CloserTypeOK ==
  /\ closed \in BOOLEAN
  /\ cp \in [Closers -> {"idle", "check", "discard", "wait", "drain",
                         "release", "closeFd", "returned"}]
  /\ cursor \in 0..NumURBs
  /\ sawStream \in BOOLEAN
  /\ closeErr \in [Closers -> {"none", "nil", "err"}]

ReaderTypeOK ==
  /\ rd \in [Readers -> {"idle", "ensure", "start", "unwind", "assignNil",
                         "assignErr", "select"}]
  /\ ctx \in SUBSET Readers
  /\ res \in [Readers -> Outcomes]
  /\ once \in {"new", "running", "done"}
  /\ delivered \in Seq(Nat)

TypeOK ==
  /\ KernelTypeOK
  /\ FifoTypeOK
  /\ StreamTypeOK
  /\ ReaperTypeOK
  /\ CloserTypeOK
  /\ ReaderTypeOK

Init ==
  /\ KernelInit
  /\ chan = <<>> /\ dropped = 0 /\ lost = {}
  /\ streamDone = "nil" /\ streamErr = "nil"
  /\ once = "new"
  /\ rp = "off" /\ urb = NoURB /\ pending = 0
  /\ closed = FALSE
  /\ cp = [c \in Closers |-> "idle"]
  /\ cursor = 0
  /\ sawStream = FALSE
  /\ closeErr = [c \in Closers |-> "none"]
  /\ rd = [r \in Readers |-> "idle"]
  /\ ctx = {}
  /\ res = [r \in Readers |-> "none"]
  /\ delivered = <<>>

SubmitMayFail == ~CanSubmit \/ "submit" \in Faults

\* One step of each goroutine.
ReaderTo(r, from, to) == rd[r] = from /\ rd' = [rd EXCEPT ![r] = to]
ReadReturns(r, from, outcome) ==
  ReaderTo(r, from, "idle") /\ res' = [res EXCEPT ![r] = outcome]
ReaperTo(from, to) == rp = from /\ rp' = to
CloserTo(c, from, to) == cp[c] = from /\ cp' = [cp EXCEPT ![c] = to]
----------------------------------------------------------------------------
(* Seeded bugs.  None of these is part of the specification: each is the    *)
(* definition of the same stem below as a plausible slip in the code would  *)
(* have made it, and shows that some property depends on that line.         *)

\* Read returns ensureStream's result without testing it for nil.
LeaveOnceUntested(r) ==
  /\ once = "done"
  /\ ReadReturns(r, "ensure", streamErr)
  /\ UNCHANGED <<fifoVars, ctx, once, delivered>>

\* startStream returns its error without unwinding.
StartUnwindsNothing(r) ==
  ReaderTo(r, "unwind", "assignErr") /\ UNCHANGED <<kernelVars, streamVars, reaperVars, once>>

\* The reaper skips cancelled URBs without pending--.
ReaperSkips ==
  closed /\ ReaperTo("check", "loop") /\ UNCHANGED <<kernelVars, fifoVars, streamVars, urb, pending>>

\* The status is tested without the closed flag.
ReaperIgnoresClosed ==
  /\ ReaperTo("check", IF urb \in bad THEN "failType" ELSE "try")
  /\ UNCHANGED <<kernelVars, fifoVars, streamVars, urb, pending>>

\* The channel is one larger than the constant says.
ReaperTriesSendLarger ==
  LET room == Len(chan) <= ChanCap
  IN /\ ReaperTo("try", IF room THEN "submit" ELSE "evict")
     /\ chan' = IF room THEN Append(chan, ord[urb]) ELSE chan
     /\ UNCHANGED <<kernelVars, dropped, lost, streamVars, urb, pending>>

\* The evicted chunk is not counted.
ReaperEvictsUncounted ==
  /\ ReaperTo("evict", "resend")
  /\ chan' = IF chan # <<>> THEN Tail(chan) ELSE chan
  /\ UNCHANGED <<kernelVars, dropped, lost, streamVars, urb, pending>>

\* A full channel is left as it is: backpressure drops the newest chunk.
ReaperEvictsNothing ==
  ReaperTo("evict", "resend") /\ UNCHANGED <<kernelVars, fifoVars, streamVars, urb, pending>>

\* No deferred close(streamDone) on the orderly path ...
ReaperFinishesSilently ==
  pending = 0 /\ ReaperTo("loop", "exit") /\ UNCHANGED <<kernelVars, fifoVars, streamVars, urb, pending>>

\* ... or none on the path of an error.
ReaperFailsSilently ==
  /\ ReaperTo("failData", "exit")
  /\ streamErr' = IF streamErr = "torn" THEN "err" ELSE streamErr
  /\ UNCHANGED <<kernelVars, fifoVars, streamDone, urb, pending>>

\* Close does not drain what a dead reaper left behind.
CloseSkipsDrain(c) ==
  CloserTo(c, "drain", "release") /\ UNCHANGED <<kernelVars, closed, cursor, sawStream, closeErr>>
----------------------------------------------------------------------------
(* Read, outside startStream.  These steps leave the kernel, the stream's  *)
(* outcome and the other goroutines alone (see ReadRuns).                    *)

\* Read looks at its context first.
ReadCall(r) ==
  /\ IF r \in ctx
     THEN ReadReturns(r, "idle", "cancelled")
     ELSE ReaderTo(r, "idle", "ensure") /\ res' = [res EXCEPT ![r] = "none"]
  /\ UNCHANGED <<fifoVars, ctx, once, delivered>>

\* The reader's context is cancelled, at any time.
CancelContext(r) ==
  /\ r \notin ctx
  /\ ctx' = ctx \cup {r}
  /\ UNCHANGED <<fifoVars, rd, res, once, delivered>>

\* ensureStream: the first caller runs startStream, the others wait in Do.
EnterOnce(r) ==
  /\ once = "new"
  /\ once' = "running"
  /\ ReaderTo(r, "ensure", "start")
  /\ UNCHANGED <<fifoVars, ctx, res, delivered>>

\* After Do, ensureStream returns whatever streamErr holds now.
LeaveOnce(r) ==
  /\ once = "done"
  /\ IF streamErr = "nil"
     THEN ReaderTo(r, "ensure", "select") /\ UNCHANGED res
     ELSE ReadReturns(r, "ensure", streamErr)
  /\ UNCHANGED <<fifoVars, ctx, once, delivered>>

\* The select of Read; Go picks any ready case.
ReadTakesChunk(r) ==
  /\ chan # <<>>
  /\ chan' = Tail(chan)
  /\ delivered' = Append(delivered, Head(chan))
  /\ ReadReturns(r, "select", "chunk")
  /\ UNCHANGED <<dropped, lost, ctx, once>>

ReadIsCancelled(r) ==
  /\ r \in ctx
  /\ ReadReturns(r, "select", "cancelled")
  /\ UNCHANGED <<fifoVars, ctx, once, delivered>>

\* (0, streamErr): "empty" is zero bytes without an error.
ReadSeesEnd(r) ==
  /\ streamDone = "closed"
  /\ ReadReturns(r, "select", IF streamErr = "nil" THEN "empty" ELSE streamErr)
  /\ UNCHANGED <<fifoVars, ctx, once, delivered>>
----------------------------------------------------------------------------
(* startStream, run by the reader inside Once.                             *)

\* Before the reaper runs, the URBs are submitted in ring order.
StartSubmits(r) ==
  /\ submitted < NumURBs
  /\ KernelSubmit(submitted + 1)
  /\ ReaderTo(r, "start", "start")
  /\ UNCHANGED <<streamVars, reaperVars, once>>

StartSubmitFails(r) ==
  /\ submitted < NumURBs
  /\ SubmitMayFail
  /\ ReaderTo(r, "start", "unwind")
  /\ UNCHANGED <<kernelVars, streamVars, reaperVars, once>>

\* unwindSubmittedURBs.  One step: between its ioctls only the chip can act,
\* and whether a URB completes or is cancelled is never looked at.
StartUnwinds(r) ==
  /\ KernelDiscardAndReapAll
  /\ ReaderTo(r, "unwind", "assignErr")
  /\ UNCHANGED <<streamVars, reaperVars, once>>

\* The channels are made and the reaper is launched ...
StartLaunches(r) ==
  /\ submitted = NumURBs
  /\ streamDone' = "open"
  /\ rp' = "loop"
  /\ pending' = NumURBs
  /\ ReaderTo(r, "start", "assignNil")
  /\ UNCHANGED <<kernelVars, streamErr, urb, once>>

\* ... and only then does ensureStream store startStream's result.
StartAssigns(r, from, err) ==
  /\ ReaderTo(r, from, "ensure")
  /\ streamErr' = err
  /\ once' = "done"
  /\ UNCHANGED <<kernelVars, streamDone, reaperVars>>
----------------------------------------------------------------------------
(* runStreamReaper.                                                        *)

\* for pending > 0; the deferred close(streamDone) is part of leaving.
ReaperFinishes ==
  /\ pending = 0
  /\ ReaperTo("loop", "exit")
  /\ streamDone' = "closed"
  /\ UNCHANGED <<kernelVars, fifoVars, streamErr, urb, pending>>

\* reapURB enters the ioctl (EBADF once the descriptor is closed) ...
ReaperCallsReap ==
  /\ pending > 0
  /\ ReaperTo("loop", IF fdOpen THEN "reaping" ELSE "failType")
  /\ UNCHANGED <<kernelVars, fifoVars, streamVars, urb, pending>>

\* ... and sleeps there until a URB is done.
ReaperReaps(u) ==
  /\ ReaperTo("reaping", "check")
  /\ KernelReap(u)
  /\ urb' = u
  /\ UNCHANGED <<fifoVars, streamVars, pending>>

\* ENODEV: the dongle is gone and nothing is left to reap.
ReaperReapFails ==
  /\ ~plugged /\ InState("done") = {}
  /\ ReaperTo("reaping", "failType")
  /\ UNCHANGED <<kernelVars, fifoVars, streamVars, urb, pending>>

\* if b.closed.Load(): count the URB back instead of using it.
ReaperAccounts ==
  /\ closed
  /\ ReaperTo("check", "loop")
  /\ pending' = pending - 1
  /\ UNCHANGED <<kernelVars, fifoVars, streamVars, urb>>

\* closed was false: look at the status, then dispatch.
ReaperChecksStatus ==
  /\ ~closed
  /\ ReaperTo("check", IF urb \in bad THEN "failType" ELSE "try")
  /\ UNCHANGED <<kernelVars, fifoVars, streamVars, urb, pending>>

\* dispatchChunk: three separate non-blocking selects.
ReaperTriesSend ==
  LET room == Len(chan) < ChanCap
  IN /\ ReaperTo("try", IF room THEN "submit" ELSE "evict")
     /\ chan' = IF room THEN Append(chan, ord[urb]) ELSE chan
     /\ UNCHANGED <<kernelVars, dropped, lost, streamVars, urb, pending>>

ReaperEvicts ==
  /\ ReaperTo("evict", "resend")
  /\ IF chan = <<>> THEN UNCHANGED fifoVars
     ELSE /\ chan' = Tail(chan)
          /\ dropped' = dropped + 1
          /\ lost' = lost \cup {Head(chan)}
  /\ UNCHANGED <<kernelVars, streamVars, urb, pending>>

ReaperResends ==
  /\ ReaperTo("resend", "submit")
  /\ IF Len(chan) < ChanCap
     THEN chan' = Append(chan, ord[urb]) /\ UNCHANGED <<dropped, lost>>
     ELSE /\ dropped' = dropped + 1
          /\ lost' = lost \cup {ord[urb]}
          /\ UNCHANGED chan
  /\ UNCHANGED <<kernelVars, streamVars, urb, pending>>

\* The URB goes back to the kernel; closed is not looked at again.
ReaperSubmits ==
  /\ ReaperTo("submit", "loop")
  /\ KernelSubmit(urb)
  /\ UNCHANGED <<fifoVars, streamVars, urb, pending>>

ReaperSubmitFails ==
  /\ SubmitMayFail
  /\ ReaperTo("submit", "failType")
  /\ UNCHANGED <<kernelVars, fifoVars, streamVars, urb, pending>>

\* b.streamErr = err without a lock: the compiler stores the interface's
\* type word, then its data word.  A Read between the two sees a torn error.
ReaperFailType ==
  /\ ReaperTo("failType", "failData")
  /\ streamErr' = "torn"
  /\ UNCHANGED <<kernelVars, fifoVars, streamDone, urb, pending>>

ReaperFailData ==
  /\ ReaperTo("failData", "exit")
  /\ streamErr' = IF streamErr = "torn" THEN "err" ELSE streamErr
  /\ streamDone' = "closed"
  /\ UNCHANGED <<kernelVars, fifoVars, urb, pending>>
----------------------------------------------------------------------------
(* Close.                                                                  *)

\* Under mu: only the first Close goes on, any other returns nil at once.
CloseCall(c) ==
  /\ CloserTo(c, "idle", IF closed THEN "returned" ELSE "check")
  /\ closed' = TRUE
  /\ closeErr' = IF closed THEN [closeErr EXCEPT ![c] = "nil"] ELSE closeErr
  /\ UNCHANGED <<kernelVars, cursor, sawStream>>

\* if b.streamDone != nil, read without synchronisation with startStream.
CloseChecksStream(c) ==
  /\ sawStream' = (streamDone # "nil")
  /\ CloserTo(c, "check", IF streamDone # "nil" THEN "discard" ELSE "release")
  /\ UNCHANGED <<kernelVars, closed, cursor, closeErr>>

CloseDiscards(c) ==
  /\ CloserTo(c, "discard", IF cursor + 1 = NumURBs THEN "wait" ELSE "discard")
  /\ KernelDiscard(cursor + 1)
  /\ cursor' = cursor + 1
  /\ UNCHANGED <<closed, sawStream, closeErr>>

\* <-b.streamDone
CloseWaits(c) ==
  /\ streamDone = "closed"
  /\ CloserTo(c, "wait", "drain")
  /\ cursor' = 0
  /\ UNCHANGED <<kernelVars, closed, sawStream, closeErr>>

\* drainOrphanedURBs: at most one non-blocking reap per URB of the ring.
CloseDrains(c, u) ==
  /\ cursor < NumURBs
  /\ CloserTo(c, "drain", "drain")
  /\ KernelReap(u)
  /\ cursor' = cursor + 1
  /\ UNCHANGED <<closed, sawStream, closeErr>>

CloseDrained(c) ==
  /\ cursor = NumURBs \/ InState("done") = {}
  /\ CloserTo(c, "drain", "release")
  /\ UNCHANGED <<kernelVars, closed, cursor, sawStream, closeErr>>

\* releaseInterface; firstErr keeps its failure.
CloseReleases(c) ==
  /\ CloserTo(c, "release", "closeFd")
  /\ KernelReleaseInterface
  /\ closeErr' = [closeErr EXCEPT ![c] = IF plugged THEN "nil" ELSE "err"]
  /\ UNCHANGED <<closed, cursor, sawStream>>

CloseClosesFd(c) ==
  /\ CloserTo(c, "closeFd", "returned")
  /\ KernelCloseFd(rp = "reaping")
  /\ UNCHANGED <<closed, cursor, sawStream, closeErr>>
----------------------------------------------------------------------------
(* The goroutines, the chip and the whole system.                          *)

\* What a reader does inside a Read it has called ...
ReadRuns(r) ==
  /\ \/ EnterOnce(r)
     \/ LeaveOnce(r)
     \/ ReadTakesChunk(r)
     \/ ReadIsCancelled(r)
     \/ ReadSeesEnd(r)
  /\ UNCHANGED <<kernelVars, streamVars, reaperVars, closerVars>>

StartRuns(r) ==
  /\ \/ StartSubmits(r)
     \/ StartSubmitFails(r)
     \/ StartUnwinds(r)
     \/ StartLaunches(r)
     \/ StartAssigns(r, "assignNil", "nil")
     \/ StartAssigns(r, "assignErr", "err")
  /\ UNCHANGED <<fifoVars, closerVars, ctx, res, delivered>>

\* ... and what its caller does.
ReadCaller(r) ==
  /\ ReadCall(r) \/ CancelContext(r)
  /\ UNCHANGED <<kernelVars, streamVars, reaperVars, closerVars>>

Reaper ==
  /\ \/ ReaperFinishes
     \/ ReaperCallsReap
     \/ \E u \in Urbs : ReaperReaps(u)
     \/ ReaperReapFails
     \/ ReaperAccounts
     \/ ReaperChecksStatus
     \/ ReaperTriesSend
     \/ ReaperEvicts
     \/ ReaperResends
     \/ ReaperSubmits
     \/ ReaperSubmitFails
     \/ ReaperFailType
     \/ ReaperFailData
  /\ UNCHANGED <<closerVars, readerVars>>

\* What a closer does inside a Close it has called.
CloseRuns(c) ==
  /\ \/ CloseChecksStream(c)
     \/ CloseDiscards(c)
     \/ CloseWaits(c)
     \/ \E u \in Urbs : CloseDrains(c, u)
     \/ CloseDrained(c)
     \/ CloseReleases(c)
     \/ CloseClosesFd(c)
  /\ UNCHANGED <<fifoVars, streamVars, reaperVars, readerVars>>

CloseCaller(c) ==
  CloseCall(c) /\ UNCHANGED <<fifoVars, streamVars, reaperVars, readerVars>>

\* MaxChunks bounds the stream while it is open; once Close is called the
\* chip may complete whatever is still queued.
Chip ==
  /\ plugged
  /\ \E u \in Urbs, ok \in BOOLEAN :
       /\ ord[u] <= MaxChunks \/ closed
       /\ ok \/ "status" \in Faults
       /\ ChipCompletes(u, ok)
  /\ UNCHANGED <<fifoVars, streamVars, reaperVars, closerVars, readerVars>>

Disconnect ==
  /\ "unplug" \in Faults
  /\ Unplug
  /\ UNCHANGED <<fifoVars, streamVars, reaperVars, closerVars, readerVars>>

Next ==
  \/ Chip
  \/ Disconnect
  \/ Reaper
  \/ \E r \in Readers : ReadCaller(r) \/ ReadRuns(r) \/ StartRuns(r)
  \/ \E c \in Closers : CloseCaller(c) \/ CloseRuns(c)

Spec == Init /\ [][Next]_vars

\* Runnable goroutines are scheduled.  Nobody has to call Read or Close, and
\* nothing is assumed of the chip.
GoroutineFairness ==
  /\ WF_vars(Reaper)
  /\ \A r \in Readers : WF_vars(ReadRuns(r) \/ StartRuns(r))
  /\ \A c \in Closers : WF_vars(CloseRuns(c))

StalledChipSpec == Spec /\ GoroutineFairness

\* In addition the chip goes on completing the transfers it was given.
FairSpec == StalledChipSpec /\ WF_vars(Chip)
----------------------------------------------------------------------------
(* Safety.                                                                 *)

\* The reaper is in its loop, and the steps where it holds a reaped URB.
ReaperHolds == rp \in {"check", "try", "evict", "resend", "submit"}
ReaperLive == ReaperHolds \/ rp \in {"loop", "reaping"}

\* runStreamReaper leaves its loop when pending reaches zero, so pending must
\* be exactly the URBs the kernel has plus the one in the reaper's hand: one
\* too many and Close waits for a completion that never comes, one too few
\* and the ring is abandoned with a URB in flight into a Go buffer.
PendingAccounting ==
  ReaperLive /\ fdOpen =>
    pending = Cardinality(Owned) + (IF ReaperHolds THEN 1 ELSE 0)

\* A Close that found the stream has got every URB back from the kernel when
\* it releases the interface, whether the reaper counted them down, had died
\* of a fault before, or was resubmitting while Close was discarding.
CleanRelease ==
  \A c \in Closers : sawStream /\ cp[c] \in {"release", "closeFd"} => Owned = {}

\* A stream that failed to start has left nothing with the kernel.
FailedStartIsClean ==
  once = "done" /\ streamDone = "nil" => Owned = {} /\ streamErr = "err"

Chunks(s) == {s[i] : i \in DOMAIN s}
Increasing(s) == \A i, j \in DOMAIN s : i < j => s[i] < s[j]

\* Every chunk dispatched so far is in exactly one place: returned by a Read,
\* waiting in streamCh, or counted in DroppedSampleChunks.  Chunk numbers have
\* no gaps: they are transfers of the stream.
ChunkConservation ==
  LET known == Chunks(delivered) \cup Chunks(chan) \cup lost
      total == Len(delivered) + Len(chan) + dropped
  IN known = 1..total

\* Reads return chunks in stream order, and what is given up is older than
\* anything still waiting: the newest chunk is never the one dropped.
DropOldestInOrder ==
  /\ Increasing(delivered \o chan)
  /\ \A x \in lost, y \in Chunks(chan) : x < y

\* Without a fault, a Close that tears down a running stream leaves no stream
\* error: URBs cancelled by Close are not mistaken for failed transfers.
OrderlyCloseIsNoError == sawStream => streamErr = "nil"
----------------------------------------------------------------------------
(* Refinement: the channel is a LossyFifo.  A full channel's dispatch takes *)
(* effect when the oldest chunk goes, so the chunk in the reaper's hand     *)
(* counts as put from then on.                                              *)

InHand == rp = "resend"

Fifo == INSTANCE LossyFifo WITH
  Capacity <- ChanCap,
  buf <- IF InHand THEN Append(chan, ord[urb]) ELSE chan,
  last <- Len(delivered) + Len(chan) + dropped + (IF InHand THEN 1 ELSE 0),
  gone <- dropped

ChannelIsLossyFifo == Fifo!FifoSpec
----------------------------------------------------------------------------
(* Liveness.                                                               *)

\* Close returns to whoever called it, from every state of the stream.
CloseTerminates == \A c \in Closers : cp[c] = "check" ~> cp[c] = "returned"

\* Once Close is called no Read stays blocked, not even one that was starting
\* the stream.
ReadsReturnAfterClose ==
  \A r \in Readers : closed /\ rd[r] # "idle" ~> rd[r] = "idle"

\* However the reaper ends, a blocked Read is woken.
ReadsReturnAfterEnd ==
  \A r \in Readers : rp = "failType" /\ rd[r] = "select" ~> rd[r] = "idle"
=============================================================================
