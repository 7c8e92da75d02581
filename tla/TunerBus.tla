------------------------------ MODULE TunerBus ------------------------------
(***************************************************************************)
(* The tuner behind the RTL2832U's I2C bridge: withRepeater and the        *)
(* register primitives of tuner_r860.go over the control transfers of      *)
(* i2c.go and rtl2832u.go.                                                 *)
(*                                                                         *)
(* A tuner operation opens the bridge, runs its body and closes the bridge *)
(* again.  The body is a program: a sequence of register writes, some of   *)
(* them read-modify-writes against the shadow.  The bridge is a bit of a   *)
(* demodulator register, and those are buffered: a write is committed by   *)
(* the next demodulator read, which demodWriteByte issues itself.          *)
(*                                                                         *)
(* Every control transfer is one step.  Nothing in the code serialises two *)
(* callers, so with several Callers their steps interleave.                *)
(***************************************************************************)
EXTENDS Naturals, Sequences

CONSTANTS
  Callers,   \* goroutines running tuner operations
  Regs,      \* the tuner's registers
  Bits,      \* the bits of a register; a register's value is a set of bits
  Programs,  \* the operations' bodies, see IsProgram
  Image,     \* the registers when the callers start
  Faults     \* how a transfer may fail, see FaultKinds

FaultKinds == {"refused",  \* an error, and the chip did nothing
               "unacked"}  \* an error, although the chip acted (a timeout)

\* writes[i] maps every register of one I2C transaction to the bits it
\* assigns (mask) and their values; a read is a transaction without registers.
\* ok = FALSE: the body ends with an error of its own after its writes.
IsProgram(p) ==
  /\ p.ok \in BOOLEAN
  /\ Len(p.writes) \in Nat
  /\ DOMAIN p.writes = 1..Len(p.writes)
  /\ \A i \in 1..Len(p.writes) :
       /\ DOMAIN p.writes[i] \subseteq Regs
       /\ \A r \in DOMAIN p.writes[i] :
            p.writes[i][r].mask \subseteq Bits /\ p.writes[i][r].val \subseteq Bits

ASSUME BusAssumption ==
  /\ \A p \in Programs : IsProgram(p)
  /\ Image \in [Regs -> SUBSET Bits]
  /\ Faults \subseteq FaultKinds

VARIABLES
  chip,    \* the tuner's registers
  shadow,  \* the host's copy of them
  bridge,  \* the repeater as it works: "open" or "closed"
  latch,   \* a written but uncommitted repeater value, or "none"
  pc,      \* pc[c]: the step caller c is at
  prog,    \* prog[c]: its program
  at,      \* at[c]: the transaction of the program it is at
  seen,    \* seen[c]: the shadow it has read for its read-modify-write
  err,     \* err[c]: the body returned an error
  result   \* result[c]: what its last operation returned

busVars  == <<bridge, latch>>
regVars  == <<chip, shadow>>
bodyVars == <<at, seen, err>>
vars == <<busVars, regVars, bodyVars, pc, prog, result>>

NoProgram == [writes |-> <<>>, ok |-> TRUE]

TypeOK ==
  /\ chip \in [Regs -> SUBSET Bits]
  /\ shadow \in [Regs -> SUBSET Bits]
  /\ bridge \in {"open", "closed"}
  /\ latch \in {"none", "open", "closed"}
  /\ pc \in [Callers -> {"idle", "enable", "enableFlush", "merge", "transfer",
                         "store", "disable", "disableFlush"}]
  /\ prog \in [Callers -> Programs \cup {NoProgram}]
  /\ at \in [Callers -> Nat]
  /\ seen \in [Callers -> [Regs -> SUBSET Bits]]
  /\ err \in [Callers -> BOOLEAN]
  /\ result \in [Callers -> {"none", "ok", "err"}]

Init ==
  /\ chip = Image /\ shadow = Image
  /\ bridge = "closed" /\ latch = "none"
  /\ pc = [c \in Callers |-> "idle"]
  /\ prog = [c \in Callers |-> NoProgram]
  /\ at = [c \in Callers |-> 1]
  /\ seen = [c \in Callers |-> Image]
  /\ err = [c \in Callers |-> FALSE]
  /\ result = [c \in Callers |-> "none"]

Outcomes == {"ok"} \cup Faults

Goto(c, from, to) == pc[c] = from /\ pc' = [pc EXCEPT ![c] = to]
Return(c, from, r) == Goto(c, from, "idle") /\ result' = [result EXCEPT ![c] = r]
----------------------------------------------------------------------------
(* Control transfers.                                                      *)

\* A demodulator write only reaches the latch.  What it finds there may or
\* may not have been committed by the time it arrives.
DemodWrite(v, o) ==
  IF o = "refused" THEN UNCHANGED busVars
  ELSE /\ latch' = v
       /\ bridge' \in {bridge} \cup ({latch} \ {"none"})

\* Any demodulator read commits the latch.
DemodRead(o) ==
  IF o = "refused" THEN UNCHANGED busVars
  ELSE /\ latch' = "none"
       /\ bridge' = IF latch = "none" THEN bridge ELSE latch

\* The transaction caller c is at, and the bytes writeRegisterMasked has
\* computed for it: the assigned bits over the shadow it read.
Write(c) == prog[c].writes[at[c]]
Byte(c, r) == (seen[c][r] \ Write(c)[r].mask) \cup (Write(c)[r].val \cap Write(c)[r].mask)

\* An I2C write.  A closed bridge drops it without an error; one that fails
\* may have reached any of its registers.
I2CWrite(c, o) ==
  \E reached \in SUBSET DOMAIN Write(c) :
    /\ o = "ok" => reached = DOMAIN Write(c)
    /\ o = "refused" => reached = {}
    /\ chip' = [r \in Regs |-> IF bridge = "open" /\ r \in reached
                               THEN Byte(c, r) ELSE chip[r]]
----------------------------------------------------------------------------
(* Seeded bugs: see the definitions of the same stem below.                *)

DisableWithoutFlush(c, o) ==
  /\ DemodWrite("closed", o)
  /\ Return(c, "disable", IF o = "ok" /\ ~err[c] THEN "ok" ELSE "err")
  /\ UNCHANGED <<regVars, bodyVars, prog>>

\* A transfer's error is not returned by withRepeater ...
TransferErrorIgnored(c, o) ==
  /\ Goto(c, "transfer", IF o = "ok" THEN "store" ELSE "disable")
  /\ I2CWrite(c, o)
  /\ UNCHANGED <<busVars, shadow, bodyVars, prog, result>>

\* ... or the close's error is not.
DisableFlushIgnored(c, o) ==
  /\ DemodRead(o)
  /\ Return(c, "disableFlush", IF err[c] THEN "err" ELSE "ok")
  /\ UNCHANGED <<regVars, bodyVars, prog>>

\* writeRegister does not update the shadow.
StoreNothing(c) ==
  /\ Goto(c, "store", "merge")
  /\ at' = [at EXCEPT ![c] = @ + 1]
  /\ UNCHANGED <<busVars, regVars, seen, err, prog, result>>
----------------------------------------------------------------------------
(* withRepeater.                                                           *)

Call(c) ==
  /\ Goto(c, "idle", "enable")
  /\ \E p \in Programs : prog' = [prog EXCEPT ![c] = p]
  /\ at' = [at EXCEPT ![c] = 1]
  /\ err' = [err EXCEPT ![c] = FALSE]
  /\ result' = [result EXCEPT ![c] = "none"]
  /\ UNCHANGED <<busVars, regVars, seen>>

\* enableI2CRepeater.  When it fails there is no deferred close yet.
EnableWrites(c, o) ==
  /\ DemodWrite("open", o)
  /\ IF o = "ok" THEN Goto(c, "enable", "enableFlush") /\ UNCHANGED result
                 ELSE Return(c, "enable", "err")
  /\ UNCHANGED <<regVars, bodyVars, prog>>

EnableFlushes(c, o) ==
  /\ DemodRead(o)
  /\ IF o = "ok" THEN Goto(c, "enableFlush", "merge") /\ UNCHANGED result
                 ELSE Return(c, "enableFlush", "err")
  /\ UNCHANGED <<regVars, bodyVars, prog>>

\* writeRegisterMasked reads the shadow ...
Merge(c) ==
  /\ Goto(c, "merge", "transfer")
  /\ at[c] \in DOMAIN prog[c].writes
  /\ seen' = [seen EXCEPT ![c] = shadow]
  /\ UNCHANGED <<busVars, regVars, at, err, prog, result>>

\* ... the bytes are sent ...
Transfer(c, o) ==
  /\ Goto(c, "transfer", IF o = "ok" THEN "store" ELSE "disable")
  /\ I2CWrite(c, o)
  /\ err' = [err EXCEPT ![c] = (o # "ok")]
  /\ UNCHANGED <<busVars, shadow, at, seen, prog, result>>

\* ... and once acknowledged, stored.
Store(c) ==
  /\ Goto(c, "store", "merge")
  /\ shadow' = [r \in Regs |-> IF r \in DOMAIN Write(c) THEN Byte(c, r) ELSE shadow[r]]
  /\ at' = [at EXCEPT ![c] = @ + 1]
  /\ UNCHANGED <<busVars, chip, seen, err, prog, result>>

BodyEnds(c) ==
  /\ Goto(c, "merge", "disable")
  /\ at[c] \notin DOMAIN prog[c].writes
  /\ err' = [err EXCEPT ![c] = ~prog[c].ok]
  /\ UNCHANGED <<busVars, regVars, at, seen, prog, result>>

\* The deferred disableI2CRepeater.  Its error counts if the body had none.
DisableWrites(c, o) ==
  /\ DemodWrite("closed", o)
  /\ IF o = "ok" THEN Goto(c, "disable", "disableFlush") /\ UNCHANGED result
                 ELSE Return(c, "disable", "err")
  /\ UNCHANGED <<regVars, bodyVars, prog>>

DisableFlushes(c, o) ==
  /\ DemodRead(o)
  /\ Return(c, "disableFlush", IF o = "ok" /\ ~err[c] THEN "ok" ELSE "err")
  /\ UNCHANGED <<regVars, bodyVars, prog>>

\* Register reads that are not part of a tuner operation, such as
\* SignalStats, commit the latch as well.
SignalStats ==
  /\ latch # "none"
  /\ DemodRead("ok")
  /\ UNCHANGED <<regVars, bodyVars, pc, prog, result>>

Operation(c) ==
  \/ Call(c)
  \/ Merge(c)
  \/ Store(c)
  \/ BodyEnds(c)
  \/ \E o \in Outcomes :
       \/ EnableWrites(c, o)
       \/ EnableFlushes(c, o)
       \/ Transfer(c, o)
       \/ DisableWrites(c, o)
       \/ DisableFlushes(c, o)

Next == SignalStats \/ \E c \in Callers : Operation(c)

Spec == Init /\ [][Next]_vars
----------------------------------------------------------------------------
(* Safety with any number of callers.                                      *)

\* When no operation is in progress the bridge is closed and no value is left
\* to be committed by a later read.  Without faults whoever wrote the repeater
\* last closed it and flushed; see also tuner_r860.go:276, "the bridge always
\* shuts".
BridgeShutWhenIdle ==
  (\A c \in Callers : pc[c] = "idle") => bridge = "closed" /\ latch = "none"
----------------------------------------------------------------------------
(* Safety with one caller, whatever fails.                                 *)

\* The bit b of register r after the program: assigned by its transaction i
\* and by no later one.
LastAssigns(p, i, r, b) ==
  /\ r \in DOMAIN p.writes[i]
  /\ b \in p.writes[i][r].mask
  /\ \A j \in DOMAIN p.writes : j > i /\ r \in DOMAIN p.writes[j] =>
       b \notin p.writes[j][r].mask

\* An operation that returned nil took effect: every bit it was to assign has
\* the value on the chip, even if an earlier operation failed half way and
\* left bridge, latch or shadow in disorder.
AckTookEffect ==
  \A c \in Callers : pc[c] = "idle" /\ result[c] = "ok" =>
    \A i \in DOMAIN prog[c].writes, r \in Regs, b \in Bits :
      LastAssigns(prog[c], i, r, b) =>
        (b \in chip[r] <=> b \in prog[c].writes[i][r].val)

\* ... it has healed the drift of every register it wrote, also in the bits
\* that it did not assign ...
AckHealsDrift ==
  \A c \in Callers : pc[c] = "idle" /\ result[c] = "ok" =>
    \A i \in DOMAIN prog[c].writes, r \in Regs :
      r \in DOMAIN prog[c].writes[i] => chip[r] = shadow[r]

\* ... and the bridge it leaves is closed.
AckLeavesBridgeClosed ==
  \A c \in Callers : pc[c] = "idle" /\ result[c] = "ok" =>
    bridge = "closed" /\ latch = "none"
----------------------------------------------------------------------------
(* A claim of the repository that the code does not keep.                  *)

\* i2c.go:87: i2cWrite's caller holds the repeater open.
WritesHoldTheBridge ==
  \A c \in Callers : pc[c] = "transfer" => bridge = "open"
=============================================================================
