--------------------------- MODULE ProbeRunProofs ---------------------------
(***************************************************************************)
(* An exit code of 0 means what it says, and the dongle that is opened is   *)
(* the one that was counted, for any command line, chunk size, width of int *)
(* and number of ports, whatever is plugged and unplugged.                  *)
(***************************************************************************)
EXTENDS ProbeRun, FiniteSetTheorems, TLAPS

BeforeProbe == {"start", "listing", "ids", "address", "node", "configure", "tune", "opened"}
ProbeWhole == flags.noProbe \/ streamed = flags.probeBytes

\* What the two loops have counted is what they have done, wherever run is.
CountInv ==
  /\ pc \in BeforeProbe => streamed = 0
  /\ pc \in BeforeProbe \cup {"probe", "sink"} => sink = -1 /\ written = 0
  /\ pc \notin {"start", "exited"} => Usable(flags) /\ bytes = CaptureBytes(flags)
  /\ reading => pc \in Loops /\ Missing > 0
  /\ pc = "probe" => streamed <= flags.probeBytes
  /\ pc \in {"sink", "capture"} => cancelled \/ ProbeWhole
  /\ pc = "capture" => flags.capture /\ sink = written /\ written <= bytes
  /\ sink <= bytes \/ sink = -1
  /\ pc \in {"closing", "exited"} /\ code = 0 /\ ~cancelled /\ ~flags.version =>
       /\ ProbeWhole /\ (flags.capture => sink = bytes) /\ bytes = CaptureBytes(flags)

ProbeInv == TypeOK /\ CountInv
----------------------------------------------------------------------------
LEMMA PortsAreNumbers ==
  /\ Cardinality(Ports) \in Nat /\ Ports \subseteq Nat \ {0}
  /\ \A p \in Ports : p <= Cardinality(Ports)
BY ProbeAssumption, FS_CardinalityType

LEMMA FlagTypes ==
  ASSUME NEW f \in CommandLines
  PROVE  /\ f.seconds \in Int /\ f.captureBytes \in Int /\ f.probeBytes \in Int /\ f.device \in Int
         /\ f.version \in BOOLEAN /\ f.noProbe \in BOOLEAN /\ f.capture \in BOOLEAN
         /\ f.autoGain \in BOOLEAN
BY ProbeAssumption

LEMMA CaptureBytesInt == ASSUME NEW f \in CommandLines PROVE CaptureBytes(f) \in Int
<1>1. AskedBytes(f) \in Int
  BY FlagTypes, ProbeAssumption DEF AskedBytes
<1>2. ASSUME NEW n \in Int PROVE Wrapped(n) \in Int
  BY ProbeAssumption DEF Wrapped
<1>3. QED
  BY <1>1, <1>2, FlagTypes DEF CaptureBytes

LEMMA ProbeInit == Init => ProbeInv
<1> SUFFICES ASSUME Init PROVE ProbeInv
  OBVIOUS
<1>1. Cardinality(Ports) \in Nat
  BY PortsAreNumbers
<1>2. bus \in [Ports -> Devices]
  <2>1. bus \in [Ports -> [num : {0} \cup Ports, known : BOOLEAN]]
    BY DEF Init, InitBus
  <2>2. ASSUME NEW d \in [num : {0} \cup Ports, known : BOOLEAN] PROVE d \in Devices
    <3>1. d.num \in {0} \cup Ports /\ {0} \cup Ports \subseteq Nat
      BY PortsAreNumbers
    <3>2. QED
      BY <3>1 DEF Devices
  <2>3. QED
    BY <2>1, <2>2
<1>3. TypeOK
  <2>1. /\ nextNum \in Nat /\ bytes \in Int /\ node \in Nat
        /\ streamed \in Nat /\ written \in Nat /\ sink \in Nat \cup {-1}
    BY <1>1 DEF Init
  <2>2. devs \in Seq(Nat) /\ entries \subseteq Ports /\ touched \subseteq Ports
    BY DEF Init
  <2>3. /\ flags \in CommandLines /\ isKnown \in BOOLEAN /\ reading \in BOOLEAN
        /\ cancelled \in BOOLEAN /\ pc \in Places /\ stream \in {"live", "failed", "lost"}
        /\ code \in {0, 2, 3, 4, 5}
    BY DEF Init, Places
  <2>4. QED
    BY <1>2, <2>1, <2>2, <2>3 DEF TypeOK
<1>4. CountInv
  BY DEF Init, CountInv, BeforeProbe
<1>5. QED
  BY <1>3, <1>4 DEF ProbeInv

\* Nothing that the counts depend on changes until the probe begins.
LEMMA OpeningHolds ==
  ASSUME ProbeInv, flags' = flags, bytes' = bytes, UNCHANGED <<readVars, countVars, cancelled>>,
         pc \in BeforeProbe \ {"start"},
         \/ pc' \in BeforeProbe \ {"start"}
         \/ pc' = "exited" /\ code' # 0
  PROVE  CountInv'
BY DEF ProbeInv, CountInv, BeforeProbe, Loops, readVars, countVars, ProbeWhole, Missing

LEMMA ParsesHold == ASSUME ProbeInv, Parses PROVE ProbeInv'
<1>1. bytes' \in Int
  BY CaptureBytesInt DEF Parses, ProbeInv, TypeOK
<1>2. TypeOK'
  BY <1>1 DEF Parses, ProbeInv, TypeOK, Places, Exits, GoesOn, busVars, walkVars, readVars, countVars
<1>3. CountInv'
  BY DEF Parses, ProbeInv, CountInv, BeforeProbe, Loops, Exits, GoesOn, readVars, countVars, ProbeWhole, Missing
<1>4. QED
  BY <1>2, <1>3 DEF ProbeInv

LEMMA WalkHolds == ASSUME ProbeInv, Walk PROVE ProbeInv'
<1>1. CASE Lists
  <2>1. TypeOK'
    BY <1>1 DEF Lists, ProbeInv, TypeOK, Places, GoesOn, readVars, countVars
  <2>2. QED
    BY <1>1, <2>1, OpeningHolds DEF Lists, ProbeInv, GoesOn, BeforeProbe
<1>2. CASE ListFails
  <2>1. TypeOK'
    BY <1>2 DEF ListFails, ProbeInv, TypeOK, Places, Exits, busVars, walkVars, readVars, countVars
  <2>2. QED
    BY <1>2, <2>1, OpeningHolds DEF ListFails, ProbeInv, Exits, BeforeProbe
<1>3. CASE Selects
  <2>1. TypeOK'
    <3>1. flags.device + 1 \in DOMAIN devs => devs[flags.device + 1] \in Nat
      BY FlagTypes DEF ProbeInv, TypeOK
    <3>2. node' \in Nat /\ pc' \in Places /\ code' \in {0, 2, 3, 4, 5}
      BY <1>3, <3>1 DEF Selects, ProbeInv, TypeOK, Places, GoesOn, Exits
    <3>3. isKnown' \in BOOLEAN /\ devs' \in Seq(Nat)
      <4>1. isKnown' = FALSE /\ devs' = <<>>
        BY <1>3 DEF Selects
      <4>2. <<>> \in Seq(Nat)
        OBVIOUS
      <4>3. QED
        BY <4>1, <4>2
    <3>4. QED
      BY <1>3, <3>2, <3>3 DEF Selects, ProbeInv, TypeOK, busVars, readVars, countVars
  <2>2. QED
    BY <1>3, <2>1, OpeningHolds DEF Selects, ProbeInv, GoesOn, Exits, BeforeProbe
<1>4. ASSUME NEW p \in Ports, ReadsIds(p) PROVE ProbeInv'
  <2>1. TypeOK'
    BY <1>4 DEF ReadsIds, ProbeInv, TypeOK, Places, Devices, GoesOn, busVars, readVars, countVars
  <2>2. QED
    BY <1>4, <2>1, OpeningHolds DEF ReadsIds, ProbeInv, GoesOn, BeforeProbe
<1>5. ASSUME NEW p \in Ports, ReadsAddress(p) PROVE ProbeInv'
  <2>1. TypeOK'
    BY <1>5 DEF ReadsAddress, ProbeInv, TypeOK, Places, Devices, GoesOn, busVars, readVars, countVars
  <2>2. QED
    BY <1>5, <2>1, OpeningHolds DEF ReadsAddress, ProbeInv, GoesOn, BeforeProbe
<1>6. ASSUME NEW p \in Ports, SkipsEntry(p) PROVE ProbeInv'
  <2>1. TypeOK'
    BY <1>6 DEF SkipsEntry, ProbeInv, TypeOK, Places, GoesOn, busVars, readVars, countVars
  <2>2. QED
    BY <1>6, <2>1, OpeningHolds DEF SkipsEntry, ProbeInv, GoesOn, BeforeProbe
<1>7. QED
  BY <1>1, <1>2, <1>3, <1>4, <1>5, <1>6 DEF Walk
----------------------------------------------------------------------------
LEMMA OpensNodeHolds == ASSUME ProbeInv, OpensNode PROVE ProbeInv'
<1>1. TypeOK'
  BY DEF OpensNode, ProbeInv, TypeOK, Places, GoesOn, busVars, walkVars, readVars, countVars
<1>2. QED
  BY <1>1, OpeningHolds DEF OpensNode, ProbeInv, GoesOn, BeforeProbe

LEMMA ConfiguresHolds == ASSUME ProbeInv, Configures PROVE ProbeInv'
<1>1. TypeOK'
  BY DEF Configures, ProbeInv, TypeOK, Places, GoesOn, busVars, walkVars, readVars, countVars
<1>2. QED
  BY <1>1, OpeningHolds DEF Configures, ProbeInv, GoesOn, BeforeProbe

LEMMA TunesHolds == ASSUME ProbeInv, Tunes PROVE ProbeInv'
<1>1. TypeOK'
  BY DEF Tunes, ProbeInv, TypeOK, Places, GoesOn, busVars, walkVars, readVars, countVars
<1>2. QED
  BY <1>1, OpeningHolds DEF Tunes, ProbeInv, GoesOn, BeforeProbe

LEMMA OpenFailsHolds == ASSUME ProbeInv, OpenFails PROVE ProbeInv'
<1>1. TypeOK'
  BY DEF OpenFails, ProbeInv, TypeOK, Places, Exits, busVars, walkVars, readVars, countVars
<1>2. QED
  BY <1>1, OpeningHolds DEF OpenFails, ProbeInv, Exits, BeforeProbe

LEMMA StartsProbeHolds == ASSUME ProbeInv, StartsProbe PROVE ProbeInv'
<1>1. TypeOK'
  BY DEF StartsProbe, ProbeInv, TypeOK, Places, GoesOn, busVars, walkVars, readVars, countVars
<1>2. CountInv'
  <2>1. flags.probeBytes \in Int /\ flags.probeBytes >= 0
    BY FlagTypes DEF StartsProbe, ProbeInv, TypeOK, CountInv, Usable
  <2>2. QED
    BY <2>1 DEF StartsProbe, ProbeInv, TypeOK, CountInv, BeforeProbe, Loops, GoesOn, ProbeWhole,
              walkVars, readVars, countVars, Usable, CaptureBytes
<1>3. QED
  BY <1>1, <1>2 DEF ProbeInv
----------------------------------------------------------------------------
LEMMA EntersReadHolds == ASSUME ProbeInv, EntersRead PROVE ProbeInv'
<1>1. TypeOK'
  BY DEF EntersRead, ProbeInv, TypeOK, busVars, walkVars, countVars
<1>2. CountInv'
  BY DEF EntersRead, ProbeInv, CountInv, BeforeProbe, Loops, ProbeWhole, Missing, countVars
<1>3. QED
  BY <1>1, <1>2 DEF ProbeInv

LEMMA ReadIsCancelledHolds == ASSUME ProbeInv, ReadIsCancelled PROVE ProbeInv'
<1>1. TypeOK'
  BY DEF ReadIsCancelled, LeavesLoop, Loops, ProbeInv, TypeOK, Places, GoesOn, Closes, busVars, walkVars, countVars
<1>2. CountInv'
  BY DEF ReadIsCancelled, LeavesLoop, GoesOn, Closes, ProbeInv, CountInv, BeforeProbe, Loops, ProbeWhole, Missing, countVars
<1>3. QED
  BY <1>1, <1>2 DEF ProbeInv

\* The surplus that Taken drops is what keeps the counts at what was asked for.
LEMMA TakenFits ==
  ASSUME ProbeInv, reading, NEW n \in 1..ChunkSize
  PROVE  /\ Missing \in Int /\ Missing > 0
         /\ Taken(n) \in Nat /\ Taken(n) <= Missing
<1>1. Missing \in Int /\ Missing > 0
  BY FlagTypes DEF ProbeInv, TypeOK, CountInv, Missing
<1>2. n \in Nat
  BY ProbeAssumption
<1>3. QED
  BY <1>1, <1>2 DEF Taken, Min2

LEMMA ReadReturnsHolds ==
  ASSUME ProbeInv, NEW n \in 1..ChunkSize, ReadReturns(n) PROVE ProbeInv'
<1>1. Taken(n) \in Nat /\ Taken(n) <= Missing
  BY TakenFits DEF ReadReturns
<1>2. CASE pc = "probe"
  <2>1. TypeOK'
    <3>1. streamed' \in Nat /\ written' \in Nat /\ sink' \in Nat \cup {-1} /\ reading' = FALSE
      BY <1>1, <1>2 DEF ReadReturns, ProbeInv, TypeOK
    <3>2. QED
      BY <3>1 DEF ReadReturns, ProbeInv, TypeOK, busVars, walkVars
  <2>2. streamed \in Nat /\ flags.probeBytes \in Int
    BY FlagTypes DEF ProbeInv, TypeOK
  <2>3. streamed' <= flags.probeBytes
    BY <1>1, <1>2, <2>2 DEF ReadReturns, Missing
  <2>4. CountInv'
    BY <1>2, <2>3 DEF ReadReturns, ProbeInv, CountInv, BeforeProbe, Loops
  <2>5. QED
    BY <2>1, <2>4 DEF ProbeInv
<1>3. CASE pc = "capture"
  <2>1. sink = written /\ written \in Nat /\ bytes \in Int /\ written <= bytes
    BY <1>3 DEF ProbeInv, TypeOK, CountInv
  <2>2. /\ sink' = written' /\ written' \in Nat /\ written' <= bytes
    BY <1>1, <1>3, <2>1 DEF ReadReturns, Missing
  <2>3. TypeOK'
    BY <1>3, <2>2 DEF ReadReturns, ProbeInv, TypeOK, busVars, walkVars
  <2>4. CountInv'
    BY <1>3, <2>2 DEF ReadReturns, ProbeInv, CountInv, BeforeProbe, Loops, ProbeWhole
  <2>5. QED
    BY <2>3, <2>4 DEF ProbeInv
<1>4. QED
  BY <1>2, <1>3 DEF ReadReturns, ProbeInv, CountInv, Loops

LEMMA WriteFailsHolds ==
  ASSUME ProbeInv, NEW n \in 1..ChunkSize, NEW part \in 0..(n - 1), WriteFails(n, part) PROVE ProbeInv'
<1>1. Taken(n) \in Nat /\ Taken(n) <= Missing
  BY TakenFits DEF WriteFails
<1>2. sink = written /\ written \in Nat /\ bytes \in Int /\ n \in Nat /\ part \in Nat
  BY ProbeAssumption DEF WriteFails, ProbeInv, TypeOK, CountInv
<1>3. sink' \in Nat /\ sink' <= bytes
  BY <1>1, <1>2 DEF WriteFails, Missing
<1>4. TypeOK'
  BY <1>3 DEF WriteFails, Closes, ProbeInv, TypeOK, Places, busVars, walkVars
<1>5. CountInv'
  BY <1>3 DEF WriteFails, Closes, ProbeInv, CountInv, BeforeProbe, Loops
<1>6. QED
  BY <1>4, <1>5 DEF ProbeInv

LEMMA ReadFailsHolds == ASSUME ProbeInv, ReadFails PROVE ProbeInv'
<1>1. TypeOK'
  BY DEF ReadFails, Closes, ProbeInv, TypeOK, Places, busVars, walkVars, countVars
<1>2. CountInv'
  BY DEF ReadFails, Closes, ProbeInv, CountInv, BeforeProbe, Loops, ProbeWhole, countVars
<1>3. QED
  BY <1>1, <1>2 DEF ProbeInv

LEMMA ReadReturnsNothingHolds == ASSUME ProbeInv, ReadReturnsNothing PROVE ProbeInv'
<1>1. TypeOK'
  BY DEF ReadReturnsNothing, ProbeInv, TypeOK, busVars, walkVars, countVars
<1>2. CountInv'
  BY DEF ReadReturnsNothing, ProbeInv, CountInv, BeforeProbe, Loops, ProbeWhole, Missing, countVars
<1>3. QED
  BY <1>1, <1>2 DEF ProbeInv

LEMMA LoopEndsHolds == ASSUME ProbeInv, LoopEnds PROVE ProbeInv'
<1>1. TypeOK'
  BY DEF LoopEnds, LeavesLoop, GoesOn, Closes, ProbeInv, TypeOK, Places, busVars, walkVars, readVars, countVars
<1>2. /\ flags.probeBytes \in Int /\ bytes \in Int /\ streamed \in Nat /\ written \in Nat
  BY FlagTypes DEF ProbeInv, TypeOK
<1>3. CASE pc = "probe"
  <2>1. streamed = flags.probeBytes
    BY <1>2, <1>3 DEF LoopEnds, Missing, ProbeInv, CountInv
  <2>2. CountInv'
    BY <1>3, <2>1 DEF LoopEnds, LeavesLoop, GoesOn, ProbeInv, CountInv, BeforeProbe, Loops, ProbeWhole, readVars, countVars
  <2>3. QED
    BY <1>1, <2>2 DEF ProbeInv
<1>4. CASE pc = "capture"
  <2>1. written = bytes
    BY <1>2, <1>4 DEF LoopEnds, Missing, ProbeInv, CountInv
  <2>2. CountInv'
    BY <1>4, <2>1 DEF LoopEnds, LeavesLoop, Closes, ProbeInv, CountInv, BeforeProbe, Loops, ProbeWhole, readVars, countVars
  <2>3. QED
    BY <1>1, <2>2 DEF ProbeInv
<1>5. QED
  BY <1>3, <1>4 DEF LoopEnds, Loops
----------------------------------------------------------------------------
LEMMA CreatesSinkHolds == ASSUME ProbeInv, CreatesSink PROVE ProbeInv'
<1>1. TypeOK'
  BY DEF CreatesSink, GoesOn, Closes, ProbeInv, TypeOK, Places, busVars, walkVars, readVars
<1>2. bytes \in Int /\ bytes > 0
  BY DEF CreatesSink, ProbeInv, TypeOK, CountInv, Usable
<1>3. CountInv'
  BY <1>2 DEF CreatesSink, GoesOn, Closes, ProbeInv, CountInv, BeforeProbe, Loops, ProbeWhole, readVars
<1>4. QED
  BY <1>1, <1>3 DEF ProbeInv

LEMMA SinkFailsHolds == ASSUME ProbeInv, SinkFails PROVE ProbeInv'
<1>1. TypeOK'
  BY DEF SinkFails, Closes, ProbeInv, TypeOK, Places, busVars, walkVars, readVars, countVars
<1>2. CountInv'
  BY DEF SinkFails, Closes, ProbeInv, CountInv, BeforeProbe, Loops, ProbeWhole, readVars, countVars
<1>3. QED
  BY <1>1, <1>2 DEF ProbeInv

LEMMA ReceiverClosesHolds == ASSUME ProbeInv, ReceiverCloses PROVE ProbeInv'
<1>1. TypeOK'
  BY DEF ReceiverCloses, GoesOn, ProbeInv, TypeOK, Places, busVars, walkVars, readVars, countVars
<1>2. CountInv'
  BY DEF ReceiverCloses, GoesOn, ProbeInv, CountInv, BeforeProbe, Loops, ProbeWhole, readVars, countVars
<1>3. QED
  BY <1>1, <1>2 DEF ProbeInv
----------------------------------------------------------------------------
LEMMA InterruptHolds == ASSUME ProbeInv, Interrupt PROVE ProbeInv'
<1>1. TypeOK'
  BY DEF Interrupt, ProbeInv, TypeOK, busVars, walkVars, readVars, countVars
<1>2. CountInv'
  BY DEF Interrupt, ProbeInv, CountInv, BeforeProbe, Loops, ProbeWhole, Missing, readVars, countVars
<1>3. QED
  BY <1>1, <1>2 DEF ProbeInv

\* The bus changes; of run, only the stream can notice.
LEMMA BusHolds ==
  ASSUME ProbeInv, NEW p \in Ports, NEW d \in Devices, Changes(p, d),
         stream' \in {"live", "failed", "lost"}
  PROVE  ProbeInv'
<1>1. bus' \in [Ports -> Devices] /\ nextNum' \in Nat /\ touched' \subseteq Ports
  BY DEF Changes, ProbeInv, TypeOK
<1>2. TypeOK'
  BY <1>1 DEF Changes, ProbeInv, TypeOK, walkVars, countVars
<1>3. CountInv'
  BY DEF Changes, ProbeInv, CountInv, BeforeProbe, Loops, ProbeWhole, Missing, countVars
<1>4. QED
  BY <1>2, <1>3 DEF ProbeInv

LEMMA PlugsHolds ==
  ASSUME ProbeInv, NEW p \in Ports, NEW isDongle \in BOOLEAN, Plugs(p, isDongle) PROVE ProbeInv'
<1>1. [num |-> nextNum, known |-> isDongle] \in Devices
  BY DEF ProbeInv, TypeOK, Devices
<1>2. stream' \in {"live", "failed", "lost"}
  BY DEF Plugs, ProbeInv, TypeOK
<1>3. QED
  BY <1>1, <1>2, BusHolds DEF Plugs

LEMMA UnplugsHolds == ASSUME ProbeInv, NEW p \in Ports, Unplugs(p) PROVE ProbeInv'
<1>1. Empty \in Devices
  BY DEF Empty, Devices
<1>2. stream' \in {"live", "failed", "lost"}
  BY DEF Unplugs, ProbeInv, TypeOK
<1>3. QED
  BY <1>1, <1>2, BusHolds DEF Unplugs

LEMMA StreamEndsHolds ==
  ASSUME ProbeInv, NEW how \in {"failed", "lost"}, StreamEnds(how) PROVE ProbeInv'
<1>1. TypeOK'
  BY DEF StreamEnds, ProbeInv, TypeOK, busVars, walkVars, countVars
<1>2. CountInv'
  BY DEF StreamEnds, ProbeInv, CountInv, BeforeProbe, Loops, ProbeWhole, Missing, countVars
<1>3. QED
  BY <1>1, <1>2 DEF ProbeInv
----------------------------------------------------------------------------
LEMMA ProbeStep == ProbeInv /\ [Next]_vars => ProbeInv'
<1> SUFFICES ASSUME ProbeInv, [Next]_vars PROVE ProbeInv'
  OBVIOUS
<1>1. CASE Opening
  BY <1>1, ParsesHold, WalkHolds, OpensNodeHolds, ConfiguresHolds, TunesHolds, OpenFailsHolds DEF Opening
<1>2. CASE AroundLoops
  BY <1>2, StartsProbeHolds, CreatesSinkHolds, SinkFailsHolds DEF AroundLoops
<1>3. CASE Loop
  BY <1>3, EntersReadHolds, ReadIsCancelledHolds, ReadFailsHolds, ReadReturnsNothingHolds, LoopEndsHolds DEF Loop
<1>4. CASE Write
  BY <1>4, ReadReturnsHolds, WriteFailsHolds DEF Write
<1>5. CASE Environment
  BY <1>5, InterruptHolds, PlugsHolds, UnplugsHolds, StreamEndsHolds DEF Environment
<1>6. CASE UNCHANGED vars
  <2>1. TypeOK'
    BY <1>6 DEF vars, ProbeInv, TypeOK, busVars, walkVars, readVars, countVars
  <2>2. CountInv'
    BY <1>6 DEF vars, ProbeInv, CountInv, BeforeProbe, Loops, ProbeWhole, Missing, readVars, countVars
  <2>3. QED
    BY <2>1, <2>2 DEF ProbeInv
<1>7. QED
  BY <1>1, <1>2, <1>3, <1>4, <1>5, <1>6, ReceiverClosesHolds DEF Next

LEMMA ProbeInvariant == Spec => []ProbeInv
BY ProbeInit, ProbeStep, PTL DEF Spec

\* Every variable of a run keeps its type, for any set of command lines, any
\* number of ports and of events, and any width of Go's int.
THEOREM TypeCorrect == Spec => []TypeOK
<1>1. ProbeInv => TypeOK
  BY DEF ProbeInv
<1>2. QED
  BY <1>1, ProbeInvariant, PTL

\* main.go:472, captureIQ and probeIQ: exit code 0 without a signal means that
\* both loops have what was asked for to the byte, for any chunk sizes that Read
\* returns, any way the stream ends and any point at which a write fails.
THEOREM WholeCapture == Spec => []CaptureIsWhole
<1>1. ProbeInv => CaptureIsWhole
  <2> SUFFICES ASSUME ProbeInv PROVE CaptureIsWhole
    OBVIOUS
  <2>1. sink <= bytes \/ sink = -1
    BY DEF ProbeInv, CountInv
  <2>2. ASSUME pc = "exited", code = 0, ~cancelled, ~flags.version
        PROVE  ProbeWhole /\ (flags.capture => sink = CaptureBytes(flags))
    BY <2>2 DEF ProbeInv, CountInv
  <2>3. Wrapped(AskedBytes(flags)) = AskedBytes(flags) => CaptureBytes(flags) = AskedBytes(flags)
    BY DEF CaptureBytes, AskedBytes
  <2>4. QED
    BY <2>1, <2>2, <2>3 DEF CaptureIsWhole, ProbeWhole
<1>2. QED
  BY <1>1, ProbeInvariant, PTL
----------------------------------------------------------------------------
(* The index of --device.  What the walk has counted before a port x is off *)
(* by no more than the ports before x that something happened to.           *)

Sure(x) == {p \in Ports : p < x /\ p \notin touched /\ bus[p].known}
Unsure(x) == {p \in Ports : p < x /\ p \in touched}
CountedAt(n, x) ==
  Cardinality(Sure(x)) <= n /\ n <= Cardinality(Sure(x)) + Cardinality(Unsure(x))

\* An address is in one port; only a device can be known.
AddressInv ==
  /\ \A p \in Ports : bus[p].num < nextNum /\ (bus[p].known => Plugged(p))
  /\ \A p, q \in Ports : Plugged(p) /\ bus[p].num = bus[q].num => p = q

\* What is listed is read in order, and what was untouched is still there.
OrderInv ==
  /\ \A e \in entries \ touched : Plugged(e)
  /\ \A q \in Ports \ (entries \cup touched) : Plugged(q) => \A e \in entries : q < e

\* How many dongles there are before the entry that is read next.
LengthInv == \A e \in entries : FirstEntry(e) => CountedAt(Len(devs), e)

\* Where in the list an untouched dongle is.
PlaceInv ==
  \A q \in Ports \ touched : \A i \in 1..Len(devs) :
    devs[i] = bus[q].num => q \notin entries /\ bus[q].known /\ CountedAt(i - 1, q)

\* What the ids of the entry said.
IdsInv == \A e \in entries \ touched : FirstEntry(e) => isKnown = bus[e].known

ChosenInv ==
  \A q \in Ports \ touched : bus[q].num = node => bus[q].known /\ CountedAt(flags.device, q)

WalkInv ==
  /\ AddressInv
  /\ pc \in {"ids", "address"} => OrderInv /\ LengthInv /\ PlaceInv
  /\ pc = "address" => IdsInv
  /\ pc \in {"node", "configure"} => ChosenInv
  /\ pc \notin {"ids", "address"} => devs = <<>>
----------------------------------------------------------------------------
LEMMA SureFinite ==
  ASSUME NEW x
  PROVE  /\ IsFiniteSet(Sure(x)) /\ Cardinality(Sure(x)) \in Nat
         /\ IsFiniteSet(Unsure(x)) /\ Cardinality(Unsure(x)) \in Nat
<1>1. Sure(x) \in SUBSET Ports /\ Unsure(x) \in SUBSET Ports
  BY DEF Sure, Unsure
<1>2. QED
  BY <1>1, ProbeAssumption, FS_Subset, FS_CardinalityType

\* What happens to a port moves the count at x by at most one.
LEMMA ChangeCounted ==
  ASSUME TypeOK, NEW p \in Ports, NEW d, bus' = [bus EXCEPT ![p] = d], touched' = touched \cup {p},
         NEW x \in Nat, NEW n \in Int, CountedAt(n, x)
  PROVE  CountedAt(n, x)'
<1>1. Sure(x)' = Sure(x) \ {p}
  BY DEF Sure, TypeOK
<1>2. Cardinality(Sure(x)') \in Nat /\ Cardinality(Sure(x)') \in {Cardinality(Sure(x)), Cardinality(Sure(x)) - 1}
  <2>1. Cardinality(Sure(x) \ {p}) = IF p \in Sure(x) THEN Cardinality(Sure(x)) - 1 ELSE Cardinality(Sure(x))
    BY SureFinite, FS_RemoveElement
  <2>2. Cardinality(Sure(x)) \in Nat /\ Cardinality(Sure(x) \ {p}) \in Nat
    BY SureFinite, FS_RemoveElement, FS_CardinalityType
  <2>3. QED
    BY <1>1, <2>1, <2>2
<1>3. CASE p < x /\ p \notin touched
  <2>1. Unsure(x)' = Unsure(x) \cup {p} /\ p \notin Unsure(x)
    BY <1>3 DEF Unsure
  <2>2. Cardinality(Unsure(x)') = Cardinality(Unsure(x)) + 1
    BY <2>1, SureFinite, FS_AddElement
  <2>3. QED
    BY <1>2, <2>2, SureFinite DEF CountedAt
<1>4. CASE ~(p < x /\ p \notin touched)
  <2>1. Unsure(x)' = Unsure(x)
    BY <1>4 DEF Unsure
  <2>2. Sure(x)' = Sure(x)
    BY <1>1, <1>4 DEF Sure
  <2>3. QED
    BY <2>1, <2>2 DEF CountedAt
<1>5. QED
  BY <1>3, <1>4

\* From one entry to the next: what is between them is not a dongle, or touched.
LEMMA NextCounted ==
  ASSUME TypeOK, OrderInv, NEW e \in entries, FirstEntry(e), NEW f \in entries \ {e},
         \A g \in entries \ {e} : f <= g, AddressInv,
         NEW n \in Nat, NEW m \in Nat, CountedAt(n, e),
         m \in {n, n + 1}, e \notin touched => m = IF bus[e].known THEN n + 1 ELSE n
  PROVE  CountedAt(m, f)
<1>1. e \in Ports /\ f \in Ports /\ e < f
  BY PortsAreNumbers DEF TypeOK, FirstEntry
<1>2. Sure(f) = Sure(e) \cup (IF e \notin touched /\ bus[e].known THEN {e} ELSE {})
  <2>1. ASSUME NEW p \in Ports, e < p, p < f, p \notin touched PROVE ~bus[p].known
    <3>1. p \notin entries
      BY <2>1, <1>1, PortsAreNumbers
    <3>2. ~(p < e)
      BY <2>1, <1>1, PortsAreNumbers
    <3>3. QED
      BY <2>1, <3>1, <3>2, <1>1, PortsAreNumbers DEF OrderInv, AddressInv
  <2>2. ASSUME NEW p \in Ports PROVE p < f <=> p < e \/ p = e \/ (e < p /\ p < f)
    BY <1>1, PortsAreNumbers
  <2>3. QED
    BY <1>1, <2>1, <2>2 DEF Sure
<1>3. e \notin Sure(e)
  BY <1>1, PortsAreNumbers DEF Sure
<1>4. CASE e \notin touched
  <2>1. Unsure(e) \in SUBSET Unsure(f)
    <3>1. \A p \in Ports : p < e => p < f
      BY <1>1, PortsAreNumbers
    <3>2. QED
      BY <3>1 DEF Unsure
  <2>2. Cardinality(Unsure(e)) <= Cardinality(Unsure(f))
    BY <2>1, SureFinite, FS_Subset
  <2>3. CASE bus[e].known
    <3>1. Sure(f) = Sure(e) \cup {e}
      BY <1>2, <1>4, <2>3
    <3>2. Cardinality(Sure(f)) = Cardinality(Sure(e)) + 1
      BY <3>1, <1>3, SureFinite, FS_AddElement
    <3>3. m = n + 1
      BY <1>4, <2>3
    <3>4. QED
      BY <2>2, <3>2, <3>3, SureFinite DEF CountedAt
  <2>4. CASE ~bus[e].known
    <3>1. Sure(f) = Sure(e) /\ m = n
      BY <1>2, <1>4, <2>4
    <3>2. QED
      BY <2>2, <3>1, SureFinite DEF CountedAt
  <2>5. QED
    BY <2>3, <2>4
<1>5. CASE e \in touched
  <2>1. Unsure(e) \cup {e} \in SUBSET Unsure(f) /\ e \notin Unsure(e)
    <3>1. (\A p \in Ports : p < e => p < f) /\ ~(e < e)
      BY <1>1, PortsAreNumbers
    <3>2. QED
      BY <1>1, <1>5, <3>1 DEF Unsure
  <2>2. Cardinality(Unsure(e)) + 1 <= Cardinality(Unsure(f))
    <3>1. Cardinality(Unsure(e) \cup {e}) = Cardinality(Unsure(e)) + 1
      BY <2>1, SureFinite, FS_AddElement
    <3>2. QED
      BY <2>1, <3>1, SureFinite, FS_Subset
  <2>3. Sure(f) = Sure(e)
    BY <1>2, <1>5
  <2>4. QED
    BY <2>2, <2>3, SureFinite DEF CountedAt
<1>6. QED
  BY <1>4, <1>5
----------------------------------------------------------------------------
LEMMA WalkInit == Init => WalkInv
<1> SUFFICES ASSUME Init PROVE WalkInv
  OBVIOUS
<1>1. ASSUME NEW p \in Ports PROVE bus[p].num \in {0, p} /\ (bus[p].known => Plugged(p)) /\ bus[p].num < nextNum
  BY <1>1, PortsAreNumbers DEF Init, InitBus, Empty, Plugged
<1>2. AddressInv
  BY <1>1 DEF AddressInv, Plugged
<1>3. QED
  BY <1>2 DEF WalkInv, Init

\* Steps that read nothing of the directory.
LEMMA NoWalk ==
  ASSUME TypeOK, WalkInv, UNCHANGED <<bus, nextNum, touched, flags, entries, isKnown, devs, node>>,
         \/ pc' = pc
         \/ pc \notin {"ids", "address"} /\ pc' \notin {"ids", "address", "node", "configure"}
         \/ pc = "node" /\ pc' = "configure"
  PROVE  WalkInv'
<1>1. AddressInv'
  BY DEF WalkInv, AddressInv, Plugged
<1>2. OrderInv => OrderInv'
  BY DEF OrderInv, Plugged
<1>3. ASSUME NEW n, NEW x, CountedAt(n, x) PROVE CountedAt(n, x)'
  BY <1>3 DEF CountedAt, Sure, Unsure
<1>4. LengthInv => LengthInv'
  BY <1>3 DEF LengthInv, FirstEntry
<1>5. PlaceInv => PlaceInv'
  BY <1>3 DEF PlaceInv
<1>6. ChosenInv => ChosenInv'
  BY <1>3 DEF ChosenInv
<1>7. IdsInv => IdsInv'
  BY DEF IdsInv, FirstEntry
<1>8. QED
  BY <1>1, <1>2, <1>4, <1>5, <1>6, <1>7 DEF WalkInv

LEMMA ChangesKeepWalk ==
  ASSUME TypeOK, WalkInv, NEW p \in Ports, NEW d, d = Empty \/ d.num = nextNum, Changes(p, d)
  PROVE  WalkInv'
<1> USE PortsAreNumbers
<1>1. /\ bus' = [bus EXCEPT ![p] = d] /\ touched' = touched \cup {p} /\ nextNum' = nextNum + 1
      /\ UNCHANGED <<flags, entries, isKnown, devs, node, pc>>
  BY DEF Changes, walkVars
<1>2. \A q \in Ports : bus'[q] = IF q = p THEN d ELSE bus[q]
  BY <1>1 DEF TypeOK
<1>3. AddressInv'
  <2>1. \A q \in Ports : bus[q].num \in Nat /\ bus[q].num < nextNum
    BY DEF TypeOK, Devices, WalkInv, AddressInv
  <2>2. nextNum \in Nat
    BY DEF TypeOK
  <2>3. ASSUME NEW q \in Ports PROVE bus'[q].num < nextNum' /\ (bus'[q].known => Plugged(q)')
    <3>1. CASE q # p
      BY <3>1, <1>1, <1>2, <2>1, <2>2 DEF WalkInv, AddressInv, Plugged
    <3>2. CASE q = p
      <4>1. nextNum > 0
        BY <2>1, <2>2
      <4>2. QED
        BY <3>2, <4>1, <1>1, <1>2, <2>2 DEF Empty, Plugged
    <3>3. QED
      BY <3>1, <3>2
  <2>4. ASSUME NEW q \in Ports, NEW r \in Ports, Plugged(q)', bus'[q].num = bus'[r].num PROVE q = r
    <3>1. CASE q # p /\ r # p
      BY <3>1, <2>4, <1>2 DEF WalkInv, AddressInv, Plugged
    <3>2. CASE q = p /\ r # p
      BY <3>2, <2>4, <1>2, <2>1, <2>2 DEF Empty, Plugged
    <3>3. CASE q # p /\ r = p
      BY <3>3, <2>4, <1>2, <2>1, <2>2 DEF Empty, Plugged
    <3>4. QED
      BY <3>1, <3>2, <3>3
  <2>5. QED
    BY <2>3, <2>4 DEF AddressInv
<1>4. OrderInv => OrderInv'
  BY <1>1, <1>2 DEF OrderInv, Plugged, TypeOK
<1>5. ASSUME NEW n \in Int, NEW x \in Nat, CountedAt(n, x) PROVE CountedAt(n, x)'
  BY <1>1, <1>5, ChangeCounted
<1>6. LengthInv => LengthInv'
  <2>1. Len(devs) \in Int /\ \A e \in entries : e \in Nat
    BY DEF TypeOK
  <2>2. QED
    BY <2>1, <1>1, <1>5 DEF LengthInv, FirstEntry
<1>7. PlaceInv => PlaceInv'
  <2> SUFFICES ASSUME PlaceInv, NEW q \in Ports, q \notin touched', NEW i \in 1..Len(devs'), devs'[i] = bus'[q].num
               PROVE  q \notin entries' /\ bus'[q].known /\ CountedAt(i - 1, q)'
    BY DEF PlaceInv
  <2>1. i - 1 \in Int /\ q \in Nat /\ q \notin touched /\ bus'[q] = bus[q] /\ i \in 1..Len(devs)
    BY <1>1, <1>2 DEF TypeOK
  <2>2. q \notin entries /\ bus[q].known /\ CountedAt(i - 1, q)
    BY <2>1, <1>1 DEF PlaceInv
  <2>3. QED
    BY <2>1, <2>2, <1>1, <1>5
<1>8. ChosenInv => ChosenInv'
  <2> SUFFICES ASSUME ChosenInv, NEW q \in Ports, q \notin touched', bus'[q].num = node'
               PROVE  bus'[q].known /\ CountedAt(flags.device, q)'
    BY DEF ChosenInv
  <2>1. flags.device \in Int /\ q \in Nat /\ q \notin touched /\ bus'[q] = bus[q] /\ flags' = flags
    BY <1>1, <1>2, FlagTypes DEF TypeOK
  <2>2. bus[q].known /\ CountedAt(flags.device, q)
    BY <2>1, <1>1 DEF ChosenInv
  <2>3. CountedAt(flags.device, q)'
    BY <2>1, <2>2, <1>5 DEF CountedAt
  <2>4. QED
    BY <2>1, <2>2, <2>3
<1>9. IdsInv => IdsInv'
  BY <1>1, <1>2 DEF IdsInv, FirstEntry, TypeOK
<1>10. QED
  BY <1>1, <1>3, <1>4, <1>6, <1>7, <1>8, <1>9 DEF WalkInv
----------------------------------------------------------------------------
LEMMA ListsKeepsWalk == ASSUME TypeOK, WalkInv, Lists PROVE WalkInv'
<1>1. /\ entries' = {p \in Ports : Plugged(p)} /\ touched' = {} /\ pc' = "ids" /\ devs' = <<>>
      /\ UNCHANGED <<bus, nextNum>>
  BY DEF Lists, GoesOn, WalkInv
<1>2. AddressInv'
  BY <1>1 DEF WalkInv, AddressInv, Plugged
<1>3. OrderInv'
  BY <1>1 DEF OrderInv, Plugged
<1>4. PlaceInv'
  BY <1>1 DEF PlaceInv
<1>5. LengthInv'
  <2> SUFFICES ASSUME NEW e \in entries', FirstEntry(e)' PROVE CountedAt(Len(devs), e)'
    BY DEF LengthInv
  <2>1. Sure(e)' = {}
    <3>1. ASSUME NEW p \in Ports, bus[p].known PROVE e <= p
      BY <3>1, <1>1 DEF WalkInv, AddressInv, FirstEntry
    <3>2. \A p \in Ports : e <= p => ~(p < e)
      BY <1>1, PortsAreNumbers
    <3>3. QED
      BY <3>1, <3>2, <1>1 DEF Sure
  <2>2. Unsure(e)' = {}
    BY <1>1 DEF Unsure
  <2>3. Cardinality(Sure(e)') = 0 /\ Cardinality(Unsure(e)') = 0 /\ Len(devs') = 0
    BY <2>1, <2>2, <1>1, FS_EmptySet
  <2>4. QED
    BY <2>3 DEF CountedAt
<1>6. QED
  BY <1>1, <1>2, <1>3, <1>4, <1>5 DEF WalkInv

LEMMA ReadsIdsKeepsWalk ==
  ASSUME TypeOK, WalkInv, NEW p \in Ports, ReadsIds(p) PROVE WalkInv'
<1>1. /\ UNCHANGED <<bus, nextNum, touched, entries, devs>>
      /\ FirstEntry(p) /\ isKnown' = bus[p].known /\ pc = "ids" /\ pc' = "address"
  BY DEF ReadsIds, GoesOn, busVars
<1>2. AddressInv'
  BY <1>1 DEF WalkInv, AddressInv, Plugged
<1>3. OrderInv'
  BY <1>1 DEF WalkInv, OrderInv, Plugged
<1>4. ASSUME NEW n, NEW x, CountedAt(n, x) PROVE CountedAt(n, x)'
  BY <1>1, <1>4 DEF CountedAt, Sure, Unsure
<1>5. LengthInv'
  BY <1>1, <1>4 DEF WalkInv, LengthInv, FirstEntry
<1>6. PlaceInv'
  BY <1>1, <1>4 DEF WalkInv, PlaceInv
<1>7. IdsInv'
  <2>1. ASSUME NEW e \in entries, FirstEntry(e) PROVE e = p
    BY <2>1, <1>1, PortsAreNumbers DEF FirstEntry, TypeOK
  <2>2. QED
    BY <1>1, <2>1 DEF IdsInv, FirstEntry
<1>8. QED
  BY <1>1, <1>2, <1>3, <1>5, <1>6, <1>7 DEF WalkInv

\* An entry is done with: it is in the list or it is not.
LEMMA EntryDone ==
  ASSUME TypeOK, WalkInv, NEW p \in Ports, FirstEntry(p), pc \in {"ids", "address"}, pc' = "ids",
         UNCHANGED <<bus, nextNum, touched>>, entries' = entries \ {p},
         NEW added \in BOOLEAN, added => Plugged(p),
         devs' = IF added THEN Append(devs, bus[p].num) ELSE devs,
         p \notin touched => added = bus[p].known
  PROVE  WalkInv'
<1> USE PortsAreNumbers
<1>1. p \in entries /\ entries \subseteq Ports /\ devs \in Seq(Nat) /\ bus[p].num \in Nat
  BY DEF FirstEntry, TypeOK, Devices
<1>2. AddressInv'
  BY DEF WalkInv, AddressInv, Plugged
<1>3. OrderInv'
  <2>1. \A e \in entries' : e \in entries /\ p < e
    BY <1>1 DEF FirstEntry
  <2>2. QED
    BY <2>1 DEF WalkInv, OrderInv, Plugged
<1>4. ASSUME NEW n, NEW x, CountedAt(n, x) PROVE CountedAt(n, x)'
  BY <1>4 DEF CountedAt, Sure, Unsure
<1>5. Len(devs) \in Nat /\ Len(devs') = IF added THEN Len(devs) + 1 ELSE Len(devs)
  BY <1>1
<1>6. CountedAt(Len(devs), p)
  BY <1>1 DEF WalkInv, LengthInv
<1>7. LengthInv'
  <2> SUFFICES ASSUME NEW f \in entries', FirstEntry(f)' PROVE CountedAt(Len(devs), f)'
    BY DEF LengthInv
  <2>1. f \in entries \ {p} /\ \A g \in entries \ {p} : f <= g
    BY DEF FirstEntry
  <2>2. CountedAt(Len(devs'), f)
    <3>1. Len(devs') \in Nat /\ Len(devs') \in {Len(devs), Len(devs) + 1}
      BY <1>5
    <3>2. p \notin touched => Len(devs') = IF bus[p].known THEN Len(devs) + 1 ELSE Len(devs)
      BY <1>5
    <3>3. OrderInv /\ AddressInv
      BY DEF WalkInv
    <3>4. QED
      BY <1>1, <1>5, <1>6, <2>1, <3>1, <3>2, <3>3, NextCounted
  <2>3. QED
    BY <2>2, <1>4 DEF CountedAt
<1>8. PlaceInv'
  <2> SUFFICES ASSUME NEW q \in Ports, q \notin touched, NEW i \in 1..Len(devs'), devs'[i] = bus[q].num
               PROVE  q \notin entries' /\ bus[q].known /\ CountedAt(i - 1, q)
    BY <1>4 DEF PlaceInv
  <2>1. CASE i \in 1..Len(devs)
    <3>1. devs'[i] = devs[i]
      BY <1>1, <2>1
    <3>2. QED
      BY <2>1, <3>1 DEF WalkInv, PlaceInv
  <2>2. CASE i \notin 1..Len(devs)
    <3>1. added /\ i = Len(devs) + 1 /\ devs'[i] = bus[p].num
      BY <1>1, <1>5, <2>2
    <3>2. q = p
      BY <3>1 DEF WalkInv, AddressInv
    <3>3. i - 1 = Len(devs)
      BY <3>1, <1>5
    <3>4. QED
      BY <3>1, <3>2, <3>3, <1>6
  <2>3. QED
    BY <2>1, <2>2
<1>9. QED
  BY <1>2, <1>3, <1>7, <1>8 DEF WalkInv

LEMMA ReadsAddressKeepsWalk ==
  ASSUME TypeOK, WalkInv, NEW p \in Ports, ReadsAddress(p) PROVE WalkInv'
<1>1. /\ UNCHANGED <<bus, nextNum, touched>> /\ FirstEntry(p) /\ Plugged(p) /\ entries' = entries \ {p}
      /\ pc = "address" /\ pc' = "ids" /\ devs' = IF isKnown THEN Append(devs, bus[p].num) ELSE devs
  BY DEF ReadsAddress, GoesOn, busVars
<1>2. isKnown \in BOOLEAN
  BY DEF TypeOK
<1>3. p \notin touched => isKnown = bus[p].known
  BY <1>1 DEF WalkInv, IdsInv, FirstEntry
<1>4. QED
  BY <1>1, <1>2, <1>3, EntryDone

LEMMA SkipsEntryKeepsWalk ==
  ASSUME TypeOK, WalkInv, NEW p \in Ports, SkipsEntry(p) PROVE WalkInv'
<1>1. /\ UNCHANGED <<bus, nextNum, touched, devs>> /\ FirstEntry(p) /\ ~Plugged(p) /\ entries' = entries \ {p}
      /\ pc \in {"ids", "address"} /\ pc' = "ids"
  BY DEF SkipsEntry, GoesOn, busVars
<1>2. p \in touched
  BY <1>1 DEF WalkInv, OrderInv, FirstEntry
<1>3. QED
  BY <1>1, <1>2, EntryDone

LEMMA SelectsKeepsWalk == ASSUME TypeOK, WalkInv, Selects PROVE WalkInv'
<1>1. /\ UNCHANGED <<bus, nextNum, touched, flags>> /\ pc = "ids" /\ devs' = <<>>
      /\ \/ flags.device + 1 \in DOMAIN devs /\ node' = devs[flags.device + 1] /\ pc' = "node"
         \/ pc' = "exited"
  BY DEF Selects, GoesOn, Exits, busVars
<1>2. AddressInv'
  BY <1>1 DEF WalkInv, AddressInv, Plugged
<1>3. ASSUME NEW n, NEW x, CountedAt(n, x) PROVE CountedAt(n, x)'
  BY <1>1, <1>3 DEF CountedAt, Sure, Unsure
<1>4. CASE flags.device + 1 \in DOMAIN devs /\ node' = devs[flags.device + 1] /\ pc' = "node"
  <2>1. ChosenInv'
    <3> SUFFICES ASSUME NEW q \in Ports, q \notin touched, bus[q].num = node'
                 PROVE  bus[q].known /\ CountedAt(flags.device, q)'
      BY <1>1 DEF ChosenInv
    <3> DEFINE i == flags.device + 1
    <3>1. i \in 1..Len(devs) /\ devs[i] = bus[q].num /\ i - 1 = flags.device
      <4>1. flags.device \in Int /\ DOMAIN devs = 1..Len(devs)
        BY FlagTypes DEF TypeOK
      <4>2. QED
        BY <1>4, <4>1
    <3>2. bus[q].known /\ CountedAt(flags.device, q)
      BY <1>1, <3>1 DEF WalkInv, PlaceInv
    <3>3. QED
      BY <1>1, <3>2, <1>3 DEF CountedAt
  <2>2. QED
    BY <1>1, <1>2, <1>4, <2>1 DEF WalkInv
<1>5. CASE pc' = "exited"
  BY <1>1, <1>2, <1>5 DEF WalkInv
<1>6. QED
  BY <1>1, <1>4, <1>5
----------------------------------------------------------------------------
LEMMA WalkStep == ProbeInv /\ WalkInv /\ [Next]_vars => WalkInv'
<1> SUFFICES ASSUME ProbeInv, WalkInv, [Next]_vars PROVE WalkInv'
  OBVIOUS
<1>1. TypeOK
  BY DEF ProbeInv
<1>2. CASE Opening
  <2>1. CASE Walk
    <3>1. CASE ListFails
      BY <3>1, <1>1, NoWalk DEF ListFails, Exits, busVars, walkVars
    <3>2. QED
      BY <2>1, <3>1, <1>1, ListsKeepsWalk, SelectsKeepsWalk, ReadsIdsKeepsWalk, ReadsAddressKeepsWalk,
         SkipsEntryKeepsWalk DEF Walk
  <2>2. CASE Parses
    <3>1. pc = "start" /\ pc' \in {"exited", "listing"} /\ UNCHANGED <<busVars, flags, walkVars>>
      BY <2>2 DEF Parses, Exits, GoesOn
    <3>2. QED
      BY <3>1, <1>1, NoWalk DEF busVars, walkVars
  <2>3. CASE OpensNode \/ Configures \/ Tunes \/ OpenFails
    <3>1. /\ UNCHANGED <<busVars, flags, walkVars>>
          /\ \/ pc = "node" /\ pc' = "configure"
             \/ pc \in {"node", "configure", "tune"} /\ pc' \in {"tune", "opened", "exited"}
      BY <2>3 DEF OpensNode, Configures, Tunes, OpenFails, Exits, GoesOn
    <3>2. QED
      BY <3>1, <1>1, NoWalk DEF busVars, walkVars
  <2>4. QED
    BY <1>2, <2>1, <2>2, <2>3 DEF Opening
<1>3. CASE AroundLoops
  <2>1. /\ UNCHANGED <<busVars, flags, walkVars>> /\ pc \in {"opened", "sink"}
        /\ pc' \in {"sink", "probe", "capture", "closing"}
    BY <1>3 DEF AroundLoops, StartsProbe, CreatesSink, SinkFails, GoesOn, Closes
  <2>2. QED
    BY <2>1, <1>1, NoWalk DEF busVars, walkVars
<1>4. CASE Loop
  <2>1. /\ UNCHANGED <<busVars, flags, walkVars>>
        /\ pc' = pc \/ (pc \in Loops /\ pc' \in {"sink", "closing"})
    <3>1. ReadFails => reading /\ pc' = "closing"
      BY DEF ReadFails, Closes
    <3>2. reading => pc \in Loops
      BY DEF ProbeInv, CountInv
    <3>3. QED
      BY <1>4, <3>1, <3>2 DEF Loop, EntersRead, ReadIsCancelled, ReadFails, ReadReturnsNothing, LoopEnds, LeavesLoop,
         GoesOn, Closes
  <2>2. QED
    BY <2>1, <1>1, NoWalk DEF busVars, walkVars, Loops
<1>5. CASE Write
  <2>1. PICK n \in 1..ChunkSize : ReadReturns(n) \/ \E part \in 0..(n - 1) : WriteFails(n, part)
    BY <1>5 DEF Write
  <2>2. UNCHANGED <<busVars, flags, walkVars>> /\ (pc' = pc \/ (pc = "capture" /\ pc' = "closing"))
    BY <2>1 DEF ReadReturns, WriteFails, Closes
  <2>3. QED
    BY <2>2, <1>1, NoWalk DEF busVars, walkVars
<1>6. CASE Environment
  <2>1. CASE Interrupt \/ \E how \in {"failed", "lost"} : StreamEnds(how)
    <3>1. UNCHANGED <<busVars, flags, walkVars>> /\ pc' = pc
      BY <2>1 DEF Interrupt, StreamEnds
    <3>2. QED
      BY <3>1, <1>1, NoWalk DEF busVars, walkVars
  <2>2. ASSUME NEW p \in Ports, Unplugs(p) PROVE WalkInv'
    BY <2>2, <1>1, ChangesKeepWalk DEF Unplugs
  <2>3. ASSUME NEW p \in Ports, NEW isDongle \in BOOLEAN, Plugs(p, isDongle) PROVE WalkInv'
    <3> DEFINE d == [num |-> nextNum, known |-> isDongle]
    <3>1. d.num = nextNum /\ Changes(p, d)
      BY <2>3 DEF Plugs
    <3>2. QED
      BY <3>1, <1>1, ChangesKeepWalk
  <2>4. QED
    BY <1>6, <2>1, <2>2, <2>3 DEF Environment
<1>7. CASE ReceiverCloses
  BY <1>7, <1>1, NoWalk DEF ReceiverCloses, GoesOn, busVars, walkVars
<1>8. CASE UNCHANGED vars
  BY <1>8, <1>1, NoWalk DEF vars, busVars, walkVars
<1>9. QED
  BY <1>2, <1>3, <1>4, <1>5, <1>6, <1>7, <1>8 DEF Next

\* sysfs.go:114 and selectDevice: the device that is opened, if nothing happened to its
\* port during the walk, is a dongle and the one that --device counted, for any number of
\* ports and any devices that come and go, at any moment of the walk, between listing the
\* directory and reading an entry's address, and after it.
THEOREM IndexedIsOpened == Spec => []OpensTheIndexed
<1>1. WalkInv => OpensTheIndexed
  <2> SUFFICES ASSUME WalkInv, pc = "configure", NEW q \in Ports \ touched, bus[q].num = node
               PROVE  /\ bus[q].known
                      /\ flags.device >= Cardinality({p \in Ports : p < q /\ p \notin touched /\ bus[p].known})
                      /\ flags.device <= Cardinality({p \in Ports : p < q /\ p \notin touched /\ bus[p].known})
                                         + Cardinality({p \in Ports : p < q /\ p \in touched})
    BY DEF OpensTheIndexed
  <2>1. bus[q].known /\ CountedAt(flags.device, q)
    BY DEF WalkInv, ChosenInv
  <2>2. QED
    BY <2>1 DEF CountedAt, Sure, Unsure
<1>2. Init => ProbeInv /\ WalkInv
  BY ProbeInit, WalkInit
<1>3. ProbeInv /\ WalkInv /\ [Next]_vars => (ProbeInv /\ WalkInv)'
  BY ProbeStep, WalkStep
<1>4. QED
  BY <1>1, <1>2, <1>3, PTL DEF Spec
=============================================================================
