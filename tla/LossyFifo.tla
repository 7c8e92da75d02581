----------------------------- MODULE LossyFifo -----------------------------
(***************************************************************************)
(* What the sample channel promises its readers, without the three selects *)
(* that implement it: a bounded first-in first-out buffer that never makes *)
(* the producer wait and never refuses the newest item.  When it has to    *)
(* give something up it gives up the oldest item, one per item put.        *)
(***************************************************************************)
EXTENDS Naturals, Sequences

CONSTANT Capacity  \* at least 1

VARIABLES
  buf,   \* the items waiting, oldest first
  last,  \* the newest item put, 0 before the first
  gone   \* how many items were given up

fifo == <<buf, last, gone>>

FifoInit == buf = <<>> /\ last = 0 /\ gone = 0

\* Items are numbered in the order they are put.
Put ==
  /\ Len(buf) < Capacity
  /\ buf' = Append(buf, last + 1)
  /\ last' = last + 1
  /\ UNCHANGED gone

PutEvicting ==
  /\ buf # <<>>
  /\ buf' = Append(Tail(buf), last + 1)
  /\ last' = last + 1
  /\ gone' = gone + 1

Take ==
  /\ buf # <<>>
  /\ buf' = Tail(buf)
  /\ UNCHANGED <<last, gone>>

FifoNext == Put \/ PutEvicting \/ Take

FifoSpec == FifoInit /\ [][FifoNext]_fifo
=============================================================================
