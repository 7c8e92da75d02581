--------------------------- MODULE BulkInvariant ---------------------------
(***************************************************************************)
(* Inductive invariants of BulkStream: IInv, which implies                 *)
(* PendingAccounting, CleanRelease and FailedStartIsClean, and DataInv for *)
(* the chunks.  BulkStreamProofs proves them for every ring size.          *)
(***************************************************************************)
EXTENDS BulkStream

StartPcs == {"start", "unwind", "assignNil", "assignErr"}
ClosePcs == {"check", "discard", "wait", "drain", "release", "closeFd"}

\* The reaper has looked at closed and will not look again before it either
\* resubmits or ends.
PastClosedCheck == rp \in {"try", "evict", "resend", "submit",
                           "failType", "failData", "exit"}

\* At most one reader runs startStream, and only while Once is running.
StartInv ==
  /\ \A r, q \in Readers : rd[r] \in StartPcs /\ rd[q] \in StartPcs => r = q
  /\ \A r \in Readers : rd[r] \in StartPcs => once = "running"
  /\ once = "new" => submitted = 0 /\ Owned = {} /\ rp = "off"
  /\ \A r \in Readers : rd[r] \in {"start", "unwind", "assignErr"} => rp = "off"
  /\ \A r \in Readers : rd[r] = "assignNil" => rp # "off"
  /\ \A r \in Readers : rd[r] = "assignErr" => Owned = {}

\* During startStream's loop exactly the first URBs of the ring are submitted,
\* unless a Close has already taken the descriptor away.
PrefixInv ==
  \A r \in Readers : rd[r] = "start" =>
    /\ submitted \in 0..NumURBs
    /\ \A u \in Urbs : u > submitted => st[u] = "host"
    /\ fdOpen => \A u \in Urbs : u <= submitted => st[u] # "host"

\* The reaper's life is visible in streamDone; the URB it holds is its own.
ReaperInv ==
  /\ (rp = "off") = (streamDone = "nil")
  /\ (rp = "exit") = (streamDone = "closed")
  /\ ReaperHolds => urb \in Urbs /\ st[urb] = "host"
  /\ ReaperHolds \/ rp = "reaping" => pending > 0

\* A dongle that is gone has nothing in flight; a closed descriptor owns
\* nothing, except under a reaper asleep in the ioctl.
KernelInv ==
  /\ ~plugged => InState("flight") = {}
  /\ ~fdOpen /\ rp # "reaping" => Owned = {}

\* One closer is past the first-Close test, and the descriptor is open until
\* it has finished.
CloseInv ==
  /\ \A c, d \in Closers : cp[c] \in ClosePcs /\ cp[d] \in ClosePcs => c = d
  /\ \A c \in Closers : cp[c] \in ClosePcs => closed /\ fdOpen
  /\ ~closed => fdOpen /\ ~sawStream /\ cursor = 0
  /\ \A c \in Closers : cp[c] = "check" => ~sawStream /\ cursor = 0
  /\ \A c \in Closers : cp[c] \in {"discard", "wait", "drain"} =>
                          sawStream /\ rp # "off"
  /\ \A c \in Closers : cp[c] = "discard" => cursor < NumURBs
  /\ \A c \in Closers : cp[c] = "wait" => cursor = NumURBs

\* What Close has discarded stays out of flight, unless the reaper is still
\* going to test closed: only a reaper that had passed that test can resubmit,
\* and it comes back to the test afterwards.
DiscardInv ==
  \A c \in Closers : cp[c] \in {"discard", "wait"} /\ PastClosedCheck =>
    \A u \in Urbs : u <= cursor => st[u] # "flight"

\* While Close drains, the reaper is gone, nothing is in flight, and the
\* remaining iterations are enough for what is left.
DrainInv ==
  \A c \in Closers : cp[c] = "drain" =>
    /\ rp = "exit"
    /\ InState("flight") = {}
    /\ Cardinality(InState("done")) + cursor <= NumURBs

ReleaseInv ==
  \A c \in Closers : cp[c] \in {"release", "closeFd"} /\ sawStream =>
    rp = "exit" /\ Owned = {}

IInv ==
  /\ TypeOK
  /\ StartInv
  /\ PrefixInv
  /\ ReaperInv
  /\ KernelInv
  /\ PendingAccounting
  /\ CloseInv
  /\ DiscardInv
  /\ DrainInv
  /\ ReleaseInv
  /\ FailedStartIsClean
----------------------------------------------------------------------------
(* The chunks.  DataInv and IInv together are inductive and imply           *)
(* ChunkConservation, DropOldestInOrder and ChannelIsLossyFifo.             *)

Left == Len(delivered) + dropped  \* the chunks that have left streamCh
Dispatched == Left + Len(chan)

\* What waits is the newest of what was dispatched, without a gap.
ChanInv ==
  /\ Len(chan) <= ChanCap
  /\ \A i \in 1..Len(chan) : chan[i] = Left + i
  /\ Chunks(delivered) \cup lost = 1..Left
  /\ Increasing(delivered)

\* Submission numbers follow the ring while it is filled; until Close is called
\* the kernel completes in their order.
NumberInv ==
  /\ \A u \in Urbs : ord[u] <= submitted
  /\ \A r \in Readers : rd[r] = "start" => \A u \in Urbs : u <= submitted => ord[u] = u
  /\ rp = "off" => Dispatched = 0
  /\ ~closed => \A u \in InState("done"), v \in InState("flight") : ord[u] <= ord[v]

Undispatched == rp \in {"check", "try", "evict", "resend"}

\* The number of the next chunk the kernel will hand out.
NextChunk == Dispatched + (IF Undispatched THEN 2 ELSE 1)

\* Until Close is called, what the kernel has is the next chunks, each once.
RingInv ==
  ~closed /\ ReaperLive =>
    /\ NextChunk <= submitted + 1
    /\ \A u \in Owned : ord[u] >= NextChunk
    /\ \A n \in NextChunk..submitted : \E u \in Owned : ord[u] = n
    /\ \A u, v \in Owned : ord[u] = ord[v] => u = v

\* Past the test of closed, the chunk in the reaper's hand is the next one also
\* if Close is called meanwhile; and nobody but the reaper fills streamCh.
DispatchInv ==
  /\ (rp = "check" /\ ~closed) \/ rp \in {"try", "evict", "resend"} => ord[urb] = Dispatched + 1
  /\ rp = "resend" => Len(chan) < ChanCap

DataInv == ChanInv /\ NumberInv /\ RingInv /\ DispatchInv

\* Without faults only a descriptor closed before the stream was seen to run
\* makes the stream fail.
NoFaultInv ==
  /\ plugged /\ (~closed => bad = {})
  /\ fdOpen => \A r \in Readers : rd[r] \notin {"unwind", "assignErr"}
  /\ fdOpen \/ sawStream => streamErr = "nil" /\ rp \notin {"failType", "failData"}
  /\ sawStream => rp # "off" /\ (fdOpen \/ rp = "exit")
=============================================================================
