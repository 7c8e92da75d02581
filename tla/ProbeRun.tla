------------------------------ MODULE ProbeRun ------------------------------
(***************************************************************************)
(* One run of rtl-probe without --tui (main.go), from its flags to its      *)
(* exit code, with the walk over sysfs that finds the dongle (sysfs.go,     *)
(* selectDevice) on a bus where devices come and go.  What Open does to the *)
(* chip is OpenFlow's subject, what is behind Read is BulkStream's.         *)
(***************************************************************************)
EXTENDS Integers, Sequences, FiniteSets

CONSTANTS
  Ports,         \* directories in sysfs: 1..n, in the order they are listed
  MaxEvents,     \* bound: how often something is plugged or unplugged
  CommandLines,  \* the flags
  BytesPerSecond,
  ChunkSize,     \* captureChunkSize, the most that a Read returns
  IntLimit       \* the first count that does not fit Go's int: 2^31 or 2^63

ASSUME ProbeAssumption ==
  /\ IsFiniteSet(Ports) /\ Ports = 1..Cardinality(Ports) /\ MaxEvents \in Nat
  /\ BytesPerSecond \in Nat /\ ChunkSize \in Nat \ {0} /\ IntLimit \in Nat \ {0}
  /\ CommandLines \subseteq
       [seconds : Int, version : BOOLEAN, captureBytes : Int, probeBytes : Int,
        noProbe : BOOLEAN, capture : BOOLEAN, device : Int, autoGain : BOOLEAN]

VARIABLES
  bus,        \* what is in a port: an address and whether the driver knows the device
  nextNum,    \* the next device address; addresses are not reused
  touched,    \* ports that something happened to since the directory was listed
  flags,      \* the command line
  bytes,      \* cfg.captureBytes
  entries,    \* directory entries still to be read
  isKnown,    \* what the entry being read said of vendor and product
  devs,       \* the dongles found: their addresses
  node,       \* the address that is opened
  pc,         \* where run is
  reading,    \* inside Read's select
  stream,     \* "live", "failed", or "lost": ended without an error
  streamed,   \* bytes that the probe has counted
  written,    \* bytes that the capture has counted
  sink,       \* bytes in the capture's file, -1 if there is none
  cancelled,  \* SIGINT or SIGTERM has come
  code        \* the exit code

busVars == <<bus, nextNum, touched>>
walkVars == <<entries, isKnown, devs, node>>
readVars == <<reading, stream>>
countVars == <<streamed, written, sink>>
vars == <<busVars, flags, bytes, walkVars, pc, readVars, countVars, cancelled, code>>

Empty == [num |-> 0, known |-> FALSE]
Plugged(p) == bus[p].num # 0
Loops == {"probe", "capture"}
Min2(x, y) == IF x < y THEN x ELSE y

\* int(): the low bits, as a signed number.
Wrapped(n) == ((n + IntLimit) % (2 * IntLimit)) - IntLimit

\* Where run goes from here: through the deferred Close, if there is a receiver.
Exits(c) == pc' = "exited" /\ code' = c
Closes(c) == pc' = "closing" /\ code' = c
GoesOn(place) == pc' = place /\ UNCHANGED code
----------------------------------------------------------------------------
(* The flags: parseConfig and the checks of run.                            *)

AskedBytes(f) == IF f.seconds > 0 THEN f.seconds * BytesPerSecond ELSE f.captureBytes
CaptureBytes(f) == IF f.seconds > 0 THEN Wrapped(AskedBytes(f)) ELSE f.captureBytes
Usable(f) == CaptureBytes(f) > 0 /\ f.probeBytes >= 0

Parses ==
  /\ pc = "start" /\ bytes' = CaptureBytes(flags)
  /\ \/ flags.seconds < 0 /\ Exits(2)
     \/ flags.seconds >= 0 /\ flags.version /\ Exits(0)
     \/ flags.seconds >= 0 /\ ~flags.version /\ ~Usable(flags) /\ Exits(2)
     \/ flags.seconds >= 0 /\ ~flags.version /\ Usable(flags) /\ GoesOn("listing")
  /\ UNCHANGED <<busVars, flags, walkVars, readVars, countVars, cancelled>>
----------------------------------------------------------------------------
(* enumerate: the directory is listed once, its entries are read one file   *)
(* after the other.                                                        *)

Lists ==
  /\ pc = "listing" /\ entries' = {p \in Ports : Plugged(p)} /\ touched' = {}
  /\ GoesOn("ids")
  /\ UNCHANGED <<bus, nextNum, flags, bytes, isKnown, devs, node, readVars, countVars, cancelled>>

ListFails ==
  /\ pc = "listing" /\ Exits(3)
  /\ UNCHANGED <<busVars, flags, bytes, walkVars, readVars, countVars, cancelled>>

FirstEntry(p) == p \in entries /\ \A q \in entries : p <= q

\* Stat, idVendor, idProduct.
ReadsIds(p) ==
  /\ pc = "ids" /\ FirstEntry(p) /\ Plugged(p)
  /\ isKnown' = bus[p].known /\ GoesOn("address")
  /\ UNCHANGED <<busVars, flags, bytes, entries, devs, node, readVars, countVars, cancelled>>

\* Seeded bug: whatever has an address is kept.
ReadsAddressOfAny(p) ==
  /\ pc = "address" /\ FirstEntry(p) /\ Plugged(p)
  /\ devs' = Append(devs, bus[p].num)
  /\ entries' = entries \ {p} /\ GoesOn("ids")
  /\ UNCHANGED <<busVars, flags, bytes, isKnown, node, readVars, countVars, cancelled>>

\* busnum, devnum; then isKnownRTLSDR.
ReadsAddress(p) ==
  /\ pc = "address" /\ FirstEntry(p) /\ Plugged(p)
  /\ devs' = IF isKnown THEN Append(devs, bus[p].num) ELSE devs
  /\ entries' = entries \ {p} /\ GoesOn("ids")
  /\ UNCHANGED <<busVars, flags, bytes, isKnown, node, readVars, countVars, cancelled>>

\* A file that is gone skips the entry.
SkipsEntry(p) ==
  /\ pc \in {"ids", "address"} /\ FirstEntry(p) /\ ~Plugged(p)
  /\ entries' = entries \ {p} /\ GoesOn("ids")
  /\ UNCHANGED <<busVars, flags, bytes, isKnown, devs, node, readVars, countVars, cancelled>>
----------------------------------------------------------------------------
(* selectDevice and the rest of Open.                                       *)

\* The index counts from 0.
Selects ==
  /\ pc = "ids" /\ entries = {}
  /\ IF flags.device + 1 \in DOMAIN devs
     THEN node' = devs[flags.device + 1] /\ GoesOn("node")
     ELSE UNCHANGED node /\ Exits(3)
  /\ devs' = <<>> /\ isKnown' = FALSE
  /\ UNCHANGED <<busVars, flags, bytes, entries, readVars, countVars, cancelled>>

Present == \E p \in Ports : bus[p].num = node

OpensNode ==
  /\ pc = "node" /\ Present /\ GoesOn("configure")
  /\ UNCHANGED <<busVars, flags, bytes, walkVars, readVars, countVars, cancelled>>

Configures ==
  /\ pc = "configure" /\ Present
  /\ GoesOn(IF flags.autoGain THEN "tune" ELSE "opened")
  /\ UNCHANGED <<busVars, flags, bytes, walkVars, readVars, countVars, cancelled>>

\* runAutoTuneAtOpen has no context; the stream is running afterwards.
Tunes ==
  /\ pc = "tune" /\ GoesOn("opened")
  /\ UNCHANGED <<busVars, flags, bytes, walkVars, readVars, countVars, cancelled>>

\* Permissions, another user, a chip or tuner that does not answer.
OpenFails ==
  /\ pc \in {"node", "configure", "tune"} /\ Exits(3)
  /\ UNCHANGED <<busVars, flags, bytes, walkVars, readVars, countVars, cancelled>>

StartsProbe ==
  /\ pc = "opened"
  /\ IF flags.noProbe \/ flags.probeBytes = 0 THEN GoesOn("sink") ELSE GoesOn("probe")
  /\ UNCHANGED <<busVars, flags, bytes, walkVars, readVars, countVars, cancelled>>
----------------------------------------------------------------------------
(* probeIQ and captureIQ: both call Read until they have their bytes.       *)

Missing == IF pc = "probe" THEN flags.probeBytes - streamed ELSE bytes - written

\* What follows the loop, complete or interrupted.
LeavesLoop == IF pc = "probe" THEN GoesOn("sink") ELSE Closes(0)

\* Read looks at its context before it does anything else.
EntersRead ==
  /\ pc \in Loops /\ ~reading /\ Missing > 0 /\ ~cancelled
  /\ reading' = TRUE
  /\ UNCHANGED <<busVars, flags, bytes, walkVars, pc, stream, countVars, cancelled, code>>

\* Seeded bug: the capture goes on when Read reports that it was cancelled.
ReadIsCancelledIgnored ==
  /\ pc \in Loops /\ (reading \/ Missing > 0) /\ cancelled
  /\ reading' = FALSE
  /\ IF pc = "probe" THEN GoesOn("sink") ELSE UNCHANGED <<pc, code>>
  /\ UNCHANGED <<busVars, flags, bytes, walkVars, stream, countVars, cancelled>>

\* At its entry or in its select.
ReadIsCancelled ==
  /\ pc \in Loops /\ (reading \/ Missing > 0) /\ cancelled
  /\ reading' = FALSE /\ LeavesLoop
  /\ UNCHANGED <<busVars, flags, bytes, walkVars, stream, countVars, cancelled>>

\* Seeded bug: the last chunk is written whole.
TakenWhole(n) == n

\* The surplus of the last chunk is dropped.
Taken(n) == Min2(n, Missing)

\* The stream may have ended with chunks still in its channel.
ReadReturns(n) ==
  /\ reading /\ reading' = FALSE
  /\ IF pc = "probe"
     THEN streamed' = streamed + Taken(n) /\ UNCHANGED <<written, sink>>
     ELSE written' = written + Taken(n) /\ sink' = sink + Taken(n) /\ UNCHANGED streamed
  /\ UNCHANGED <<busVars, flags, bytes, walkVars, pc, stream, cancelled, code>>

\* The capture's Write fails; part of it may be in the file.
WriteFails(n, part) ==
  /\ reading /\ pc = "capture" /\ part < Taken(n)
  /\ reading' = FALSE /\ sink' = sink + part /\ Closes(5)
  /\ UNCHANGED <<busVars, flags, bytes, walkVars, stream, streamed, written, cancelled>>

ReadFails ==
  /\ reading /\ stream = "failed"
  /\ reading' = FALSE /\ Closes(IF pc = "probe" THEN 4 ELSE 5)
  /\ UNCHANGED <<busVars, flags, bytes, walkVars, stream, countVars, cancelled>>

\* (0, nil): the stream's error was lost.
ReadReturnsNothing ==
  /\ reading /\ stream = "lost" /\ reading' = FALSE
  /\ UNCHANGED <<busVars, flags, bytes, walkVars, pc, stream, countVars, cancelled, code>>

LoopEnds ==
  /\ pc \in Loops /\ ~reading /\ Missing <= 0 /\ LeavesLoop
  /\ UNCHANGED <<busVars, flags, bytes, walkVars, readVars, countVars, cancelled>>

\* openCaptureSink, if a capture is asked for.  An existing file is truncated.
CreatesSink ==
  /\ pc = "sink"
  /\ IF flags.capture THEN sink' = 0 /\ GoesOn("capture") ELSE UNCHANGED sink /\ Closes(0)
  /\ UNCHANGED <<busVars, flags, bytes, walkVars, readVars, streamed, written, cancelled>>

SinkFails ==
  /\ pc = "sink" /\ flags.capture /\ Closes(5)
  /\ UNCHANGED <<busVars, flags, bytes, walkVars, readVars, countVars, cancelled>>

\* The deferred Close, when it returns; what it returns is only printed.
ReceiverCloses ==
  /\ pc = "closing" /\ GoesOn("exited")
  /\ UNCHANGED <<busVars, flags, bytes, walkVars, readVars, countVars, cancelled>>
----------------------------------------------------------------------------
(* The environment.                                                        *)

Interrupt ==
  /\ pc # "exited" /\ ~cancelled /\ cancelled' = TRUE
  /\ UNCHANGED <<busVars, flags, bytes, walkVars, pc, readVars, countVars, code>>

\* Each event uses an address, so that they are counted by it.
Changes(p, device) ==
  /\ pc # "exited" /\ nextNum <= Cardinality(Ports) + MaxEvents
  /\ bus' = [bus EXCEPT ![p] = device] /\ nextNum' = nextNum + 1
  /\ touched' = touched \cup {p}
  /\ UNCHANGED <<flags, bytes, walkVars, pc, reading, countVars, cancelled, code>>

Plugs(p, isDongle) ==
  /\ ~Plugged(p) /\ Changes(p, [num |-> nextNum, known |-> isDongle]) /\ UNCHANGED stream

\* Unplugging the dongle in use ends the stream.
Unplugs(p) ==
  /\ Plugged(p) /\ Changes(p, Empty)
  /\ stream' = IF bus[p].num = node /\ stream = "live" THEN "failed" ELSE stream

\* A USB error, which startStream can overwrite; not before the first Read, which
\* may be the auto-tune's.
StreamEnds(how) ==
  /\ reading \/ streamed > 0 \/ written > 0 \/ (flags.autoGain /\ pc \in {"tune", "opened", "sink"})
  /\ pc \notin {"closing", "exited"} /\ stream = "live" /\ stream' = how
  /\ UNCHANGED <<busVars, flags, bytes, walkVars, pc, reading, countVars, cancelled, code>>
----------------------------------------------------------------------------
Devices == [num : Nat, known : BOOLEAN]

\* Something, or nothing, is in each port; addresses were given out in order.
InitBus ==
  /\ bus \in [Ports -> [num : {0} \cup Ports, known : BOOLEAN]]
  /\ \A p \in Ports : bus[p] = Empty \/ bus[p].num = p

Init ==
  /\ InitBus /\ nextNum = Cardinality(Ports) + 1 /\ touched = {}
  /\ flags \in CommandLines /\ bytes = 0
  /\ entries = {} /\ isKnown = FALSE /\ devs = <<>> /\ node = 0
  /\ pc = "start" /\ reading = FALSE /\ stream = "live"
  /\ streamed = 0 /\ written = 0 /\ sink = -1 /\ cancelled = FALSE /\ code = 0

Walk == Lists \/ ListFails \/ Selects \/ \E p \in Ports : ReadsIds(p) \/ ReadsAddress(p) \/ SkipsEntry(p)
Opening == Parses \/ Walk \/ OpensNode \/ Configures \/ Tunes \/ OpenFails
Write == \E n \in 1..ChunkSize : ReadReturns(n) \/ \E part \in 0..(n - 1) : WriteFails(n, part)
Loop == EntersRead \/ ReadIsCancelled \/ ReadFails \/ ReadReturnsNothing \/ LoopEnds
AroundLoops == StartsProbe \/ CreatesSink \/ SinkFails

Environment ==
  \/ Interrupt
  \/ \E p \in Ports : Unplugs(p) \/ \E isDongle \in BOOLEAN : Plugs(p, isDongle)
  \/ \E how \in {"failed", "lost"} : StreamEnds(how)

Next == Opening \/ AroundLoops \/ Loop \/ Write \/ ReceiverCloses \/ Environment

Spec == Init /\ [][Next]_vars

\* The main goroutine runs, and its output takes what it is given.  Nothing is
\* asked of what needs the chip: the opening and its auto-tune, a Read that
\* returns data (Write), and Close, which waits for the reaper and may do so for
\* ever (usbfs_linux.go:544).
FairSpec == Spec /\ WF_vars(Loop \/ AroundLoops)
----------------------------------------------------------------------------
(* Properties.                                                             *)

Places == {"start", "listing", "ids", "address", "node", "configure", "tune", "opened", "probe",
           "sink", "capture", "closing", "exited"}

TypeOK ==
  /\ bus \in [Ports -> Devices] /\ nextNum \in Nat /\ touched \subseteq Ports
  /\ flags \in CommandLines /\ bytes \in Int
  /\ entries \subseteq Ports /\ isKnown \in BOOLEAN /\ devs \in Seq(Nat) /\ node \in Nat
  /\ pc \in Places /\ reading \in BOOLEAN /\ stream \in {"live", "failed", "lost"}
  /\ streamed \in Nat /\ written \in Nat /\ sink \in Nat \cup {-1}
  /\ cancelled \in BOOLEAN /\ code \in {0, 2, 3, 4, 5}

\* Exit code 0 without a signal: the probe and the capture are complete, the file
\* holds what was asked for to the byte, if its size fits an int (main.go:174).
\* With any code the file has no surplus (main.go:466).  "Holds" is what Write has
\* acknowledged: the error of the file's Close is discarded (main.go:512).
CaptureIsWhole ==
  /\ sink <= bytes \/ sink = -1
  /\ (pc = "exited" /\ code = 0 /\ ~cancelled /\ ~flags.version) =>
       /\ flags.noProbe \/ streamed = flags.probeBytes
       /\ (flags.capture /\ Wrapped(AskedBytes(flags)) = AskedBytes(flags)) =>
            sink = AskedBytes(flags)

\* The device opened, if nothing happened to its port while the directory was
\* walked, is a dongle, and the one that --device counted: events at other ports
\* shift the index by no more than themselves (sysfs.go:114).
OpensTheIndexed ==
  pc = "configure" =>
    \A q \in Ports \ touched :
      bus[q].num = node =>
        LET before == {p \in Ports : p < q /\ p \notin touched /\ bus[p].known}
            unsure == {p \in Ports : p < q /\ p \in touched}
        IN /\ bus[q].known
           /\ flags.device >= Cardinality(before)
           /\ flags.device <= Cardinality(before) + Cardinality(unsure)

\* After a signal (main.go:543) an opened run leaves its loops for the deferred
\* Close (main.go:298), also if the chip has stopped and also if the stream's end
\* has lost its error.  That the process exits is not claimed: Close returns if the
\* chip still completes a transfer resubmitted behind its discards.
InterruptReachesClose ==
  (cancelled /\ pc \in {"opened", "probe", "sink", "capture"}) ~> (pc = "closing")
=============================================================================
