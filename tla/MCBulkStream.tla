---------------------------- MODULE MCBulkStream ----------------------------
(* TLC instances of BulkStream. *)
EXTENDS BulkInvariant, TLC

CONSTANTS r1, r2, c1, c2

OneReader == {r1}
TwoReaders == {r1, r2}
OneCloser == {c1}
TwoClosers == {c1, c2}
NoOne == {}

NoFaults == {}
AllFaults == FaultKinds

ReaderSymmetry == Permutations(Readers) \cup Permutations(Closers)
=============================================================================
