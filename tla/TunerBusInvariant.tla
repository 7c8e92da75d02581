------------------------- MODULE TunerBusInvariant -------------------------
(***************************************************************************)
(* Inductive invariants of TunerBus: BusInv for any number of callers      *)
(* without faults, AckInv for one caller under every fault.                *)
(***************************************************************************)
EXTENDS TunerBus

\* The repeater value written last.
LastWritten == IF latch = "none" THEN bridge ELSE latch

\* Whoever opened the bridge is still on the way to closing it, and whoever
\* wrote the latch is about to flush it.
OpenerInv ==
  LastWritten = "open" =>
    \E c \in Callers : pc[c] \in {"enableFlush", "merge", "transfer", "store", "disable"}

FlusherInv ==
  latch # "none" => \E c \in Callers : pc[c] \in {"enableFlush", "disableFlush"}

BusInv == TypeOK /\ OpenerInv /\ FlusherInv

\* The body of caller c runs through the open bridge ...
InBody(c) == pc[c] \in {"merge", "transfer", "store"}

BridgeInv(c) ==
  /\ InBody(c) => bridge = "open" /\ latch = "none"
  /\ pc[c] = "enableFlush" => LastWritten = "open"
  /\ pc[c] = "disableFlush" => LastWritten = "closed"

\* ... the shadow it merges into is the current one, and a transfer that was
\* acknowledged has put the same bytes on the chip that Store will remember.
TransferInv(c) ==
  /\ at[c] \in Nat \ {0}
  /\ pc[c] \in {"enable", "enableFlush"} => at[c] = 1
  /\ pc[c] \in {"transfer", "store"} => at[c] \in DOMAIN prog[c].writes /\ seen[c] = shadow
  /\ pc[c] = "store" => \A r \in DOMAIN Write(c) : chip[r] = Byte(c, r)

\* The registers that the first n transactions of c's program write.
Touched(c, n) ==
  {r \in Regs : \E i \in DOMAIN prog[c].writes : i <= n /\ r \in DOMAIN prog[c].writes[i]}

\* What these transactions assign, each bit by the last that assigns it, is in
\* the shadow.
Assigned(c, n) ==
  \A i \in DOMAIN prog[c].writes, r \in Regs, b \in Bits :
    /\ i <= n
    /\ r \in DOMAIN prog[c].writes[i] /\ b \in prog[c].writes[i][r].mask
    /\ \A j \in DOMAIN prog[c].writes : i < j /\ j <= n /\ r \in DOMAIN prog[c].writes[j] =>
         b \notin prog[c].writes[j][r].mask
    => (b \in shadow[r] <=> b \in prog[c].writes[i][r].val)

\* ... and on the chip.
Synced(regs) == \A r \in regs : chip[r] = shadow[r]

Done(c) == Assigned(c, Len(prog[c].writes)) /\ Synced(Touched(c, Len(prog[c].writes)))

ProgressInv(c) ==
  /\ InBody(c) => Assigned(c, at[c] - 1)
  /\ pc[c] \in {"merge", "transfer"} => Synced(Touched(c, at[c] - 1))
  /\ pc[c] = "store" => Synced(Touched(c, at[c] - 1) \ DOMAIN Write(c))
  /\ pc[c] \in {"disable", "disableFlush"} /\ ~err[c] => Done(c)
  /\ pc[c] = "idle" /\ result[c] = "ok" =>
       Done(c) /\ bridge = "closed" /\ latch = "none"

AckInv == TypeOK /\ \A c \in Callers : BridgeInv(c) /\ TransferInv(c) /\ ProgressInv(c)
=============================================================================
