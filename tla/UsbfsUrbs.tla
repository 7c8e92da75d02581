----------------------------- MODULE UsbfsUrbs -----------------------------
(***************************************************************************)
(* The kernel's side of the bulk stream, as far as the driver's ioctls and *)
(* their results show it: which URBs the kernel owns, in which order the   *)
(* bulk IN endpoint completes them, and what SUBMITURB, REAPURB,           *)
(* REAPURBNDELAY, DISCARDURB, RELEASEINTERFACE and close(2) do to them.    *)
(*                                                                         *)
(* This code is not in the repository: every operator is the behaviour the *)
(* driver relies on.  A bulk endpoint serves its queue in order, so the    *)
(* n-th submission carries the n-th transfer of the sample stream, and its *)
(* submission number ord[u] also names the chunk of samples it brings.     *)
(***************************************************************************)
EXTENDS Naturals

CONSTANTS NumURBs  \* the ring size, streamRingURBs (32 in the code)

ASSUME NumURBsAssumption == NumURBs \in Nat \ {0}

VARIABLES
  st,         \* st[u]: "host" (driver owns it), "flight" or "done" (unreaped)
  ord,        \* ord[u]: number of u's latest submission, 0 before the first
  bad,        \* the done URBs that carry a non-zero status
  submitted,  \* submissions so far
  plugged,    \* the dongle is still on the bus
  fdOpen      \* the driver's file descriptor is open

kernelVars == <<st, ord, bad, submitted, plugged, fdOpen>>

Urbs == 1..NumURBs

InState(s) == {u \in Urbs : st[u] = s}
Owned == {u \in Urbs : st[u] # "host"}

KernelTypeOK ==
  /\ st \in [Urbs -> {"host", "flight", "done"}]
  /\ ord \in [Urbs -> Nat]
  /\ bad \in SUBSET Urbs
  /\ submitted \in Nat
  /\ plugged \in BOOLEAN
  /\ fdOpen \in BOOLEAN

KernelInit ==
  /\ st = [u \in Urbs |-> "host"]
  /\ ord = [u \in Urbs |-> 0]
  /\ bad = {}
  /\ submitted = 0
  /\ plugged = TRUE
  /\ fdOpen = TRUE
----------------------------------------------------------------------------
(* The device and the bus.                                                 *)

\* The oldest URB in flight completes, with data or with an error status.
ChipCompletes(u, ok) ==
  /\ st[u] = "flight"
  /\ \A v \in InState("flight") : ord[u] <= ord[v]
  /\ st' = [st EXCEPT ![u] = "done"]
  /\ bad' = IF ok THEN bad ELSE bad \cup {u}
  /\ UNCHANGED <<ord, submitted, plugged, fdOpen>>

\* Every URB in flight, cancelled.
Cancelled == [u \in Urbs |-> IF st[u] = "flight" THEN "done" ELSE st[u]]

\* Disconnect: the USB core flushes the endpoint, nothing more can be queued.
Unplug ==
  /\ plugged
  /\ plugged' = FALSE
  /\ st' = Cancelled
  /\ bad' = bad \cup InState("flight")
  /\ UNCHANGED <<ord, submitted, fdOpen>>
----------------------------------------------------------------------------
(* The ioctls.  Each is one atomic step of the calling goroutine.          *)

CanSubmit == fdOpen /\ plugged

KernelSubmit(u) ==
  /\ CanSubmit
  /\ st' = [st EXCEPT ![u] = "flight"]
  /\ ord' = [ord EXCEPT ![u] = submitted + 1]
  /\ bad' = bad \ {u}
  /\ submitted' = submitted + 1
  /\ UNCHANGED <<plugged, fdOpen>>

\* Completions are reaped in the order they happened.  A cancelled URB may
\* have completed out of turn; nothing reads its place in the queue.
Reapable(u) ==
  /\ st[u] = "done"
  /\ \A v \in InState("done") : ord[u] <= ord[v]

\* Reap u.  A thread asleep in REAPURB keeps the open file alive after the
\* descriptor is closed; when it leaves, the kernel frees all that is left.
KernelReap(u) ==
  /\ Reapable(u)
  /\ st' = IF fdOpen THEN [st EXCEPT ![u] = "host"] ELSE [v \in Urbs |-> "host"]
  /\ UNCHANGED <<ord, bad, submitted, plugged, fdOpen>>

\* DISCARDURB kills a URB in flight synchronously (its completion is already
\* queued for reaping when the call returns); otherwise it is EINVAL.
KernelDiscard(u) ==
  /\ st' = IF st[u] = "flight" THEN [st EXCEPT ![u] = "done"] ELSE st
  /\ bad' = IF st[u] = "flight" THEN bad \cup {u} ELSE bad
  /\ UNCHANGED <<ord, submitted, plugged, fdOpen>>

\* DISCARDURB on every URB followed by reaping until none is left.
KernelDiscardAndReapAll ==
  /\ st' = IF fdOpen THEN [u \in Urbs |-> "host"] ELSE st
  /\ UNCHANGED <<ord, bad, submitted, plugged, fdOpen>>

\* RELEASEINTERFACE kills what is in flight on the interface; ENODEV once the
\* dongle is gone.
KernelReleaseInterface ==
  /\ st' = Cancelled
  /\ bad' = bad \cup InState("flight")
  /\ UNCHANGED <<ord, submitted, plugged, fdOpen>>

\* close(2): without a thread asleep in an ioctl the last reference goes, and
\* every URB with it.
KernelCloseFd(asleep) ==
  /\ fdOpen' = FALSE
  /\ st' = IF asleep THEN st ELSE [u \in Urbs |-> "host"]
  /\ UNCHANGED <<ord, bad, submitted, plugged>>
=============================================================================
