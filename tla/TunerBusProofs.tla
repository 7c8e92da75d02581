--------------------------- MODULE TunerBusProofs ---------------------------
(***************************************************************************)
(* TunerBus for any set of callers, registers, bits and programs: without  *)
(* faults the bridge is shut whenever no operation is in progress; with    *)
(* one caller, whatever fails, an acknowledged operation took effect.      *)
(***************************************************************************)
EXTENDS TunerBusInvariant, TLAPS

USE DEF Goto, Return, busVars, regVars, bodyVars

\* Whatever a caller runs is a program (withRepeater's body).
LEMMA RunsPrograms ==
  ASSUME TypeOK, NEW c \in Callers
  PROVE  IsProgram(prog[c])
<1>1. IsProgram(NoProgram)
  BY DEF IsProgram, NoProgram
<1> QED
  BY <1>1, BusAssumption DEF TypeOK

\* A read-modify-write yields a set of bits (writeRegisterMasked).
LEMMA ByteType ==
  ASSUME TypeOK, NEW c \in Callers, at[c] \in DOMAIN prog[c].writes
  PROVE  /\ DOMAIN Write(c) \subseteq Regs
         /\ \A r \in DOMAIN Write(c) : Byte(c, r) \in SUBSET Bits
<1>1. /\ DOMAIN Write(c) \subseteq Regs
      /\ \A r \in DOMAIN Write(c) : Write(c)[r].val \subseteq Bits
  BY RunsPrograms DEF IsProgram, Write
<1>2. seen[c] \in [Regs -> SUBSET Bits]
  BY DEF TypeOK
<1> QED
  BY <1>1, <1>2 DEF Byte

\* A transfer leaves bytes in the tuner's registers (i2cWrite).
LEMMA I2CType ==
  ASSUME TypeOK, NEW c \in Callers, at[c] \in DOMAIN prog[c].writes,
         NEW o \in Outcomes, I2CWrite(c, o)
  PROVE  chip' \in [Regs -> SUBSET Bits]
<1>1. PICK reached \in SUBSET DOMAIN Write(c) :
        chip' = [r \in Regs |-> IF bridge = "open" /\ r \in reached
                                THEN Byte(c, r) ELSE chip[r]]
  BY DEF I2CWrite
<1>2. \A r \in reached : Byte(c, r) \in SUBSET Bits
  BY ByteType
<1> QED
  BY <1>1, <1>2 DEF TypeOK

\* The repeater's latch and bridge hold repeater values (demodWriteByte and
\* its flush).
LEMMA BusType ==
  ASSUME TypeOK, NEW o, NEW v \in {"open", "closed"}, DemodWrite(v, o) \/ DemodRead(o)
  PROVE  bridge' \in {"open", "closed"} /\ latch' \in {"none", "open", "closed"}
BY DEF TypeOK, DemodWrite, DemodRead

\* Where the transactions of a program are read, there is one.
AtInv ==
  \A c \in Callers :
    /\ at[c] \in Nat \ {0}
    /\ pc[c] \in {"transfer", "store"} => at[c] \in DOMAIN prog[c].writes

\* The callers start with the seeded image and no operation (Init).
LEMMA TypeInit == Init => TypeOK /\ AtInv
BY BusAssumption DEF Init, TypeOK, AtInv

\* Every step of every operation keeps the types.
LEMMA TypeStep == TypeOK /\ AtInv /\ [Next]_vars => TypeOK' /\ AtInv'
<1> SUFFICES ASSUME TypeOK, AtInv, [Next]_vars PROVE TypeOK' /\ AtInv'
  OBVIOUS
<1>1. CASE UNCHANGED vars
  BY <1>1 DEF vars, TypeOK, AtInv
<1>2. CASE SignalStats
  <2>1. bridge' \in {"open", "closed"} /\ latch' \in {"none", "open", "closed"}
    BY <1>2, BusType DEF SignalStats
  <2> QED
    BY <1>2, <2>1 DEF SignalStats, TypeOK, AtInv
<1>3. ASSUME NEW c \in Callers, Call(c) PROVE TypeOK' /\ AtInv'
  BY <1>3 DEF Call, TypeOK, AtInv
<1>4. ASSUME NEW c \in Callers, Merge(c) PROVE TypeOK' /\ AtInv'
  BY <1>4 DEF Merge, TypeOK, AtInv
<1>5. ASSUME NEW c \in Callers, Store(c) PROVE TypeOK' /\ AtInv'
  <2>1. \A r \in DOMAIN Write(c) : Byte(c, r) \in SUBSET Bits
    BY <1>5, ByteType DEF Store, AtInv
  <2>2. shadow' \in [Regs -> SUBSET Bits]
    BY <1>5, <2>1 DEF Store, TypeOK
  <2> QED
    BY <1>5, <2>2 DEF Store, TypeOK, AtInv
<1>6. ASSUME NEW c \in Callers, BodyEnds(c) PROVE TypeOK' /\ AtInv'
  <2>1. prog[c].ok \in BOOLEAN
    BY RunsPrograms DEF IsProgram
  <2> QED
    BY <1>6, <2>1 DEF BodyEnds, TypeOK, AtInv
<1>7. ASSUME NEW c \in Callers, NEW o \in Outcomes, EnableWrites(c, o)
      PROVE  TypeOK' /\ AtInv'
  <2>1. bridge' \in {"open", "closed"} /\ latch' \in {"none", "open", "closed"}
    BY <1>7, BusType DEF EnableWrites
  <2> QED
    BY <1>7, <2>1 DEF EnableWrites, TypeOK, AtInv
<1>8. ASSUME NEW c \in Callers, NEW o \in Outcomes, EnableFlushes(c, o)
      PROVE  TypeOK' /\ AtInv'
  <2>1. bridge' \in {"open", "closed"} /\ latch' \in {"none", "open", "closed"}
    BY <1>8, BusType DEF EnableFlushes
  <2> QED
    BY <1>8, <2>1 DEF EnableFlushes, TypeOK, AtInv
<1>9. ASSUME NEW c \in Callers, NEW o \in Outcomes, Transfer(c, o)
      PROVE  TypeOK' /\ AtInv'
  <2>1. chip' \in [Regs -> SUBSET Bits]
    BY <1>9, I2CType DEF Transfer, AtInv
  <2> QED
    BY <1>9, <2>1 DEF Transfer, TypeOK, AtInv
<1>10. ASSUME NEW c \in Callers, NEW o \in Outcomes, DisableWrites(c, o)
       PROVE  TypeOK' /\ AtInv'
  <2>1. bridge' \in {"open", "closed"} /\ latch' \in {"none", "open", "closed"}
    BY <1>10, BusType DEF DisableWrites
  <2> QED
    BY <1>10, <2>1 DEF DisableWrites, TypeOK, AtInv
<1>11. ASSUME NEW c \in Callers, NEW o \in Outcomes, DisableFlushes(c, o)
       PROVE  TypeOK' /\ AtInv'
  <2>1. bridge' \in {"open", "closed"} /\ latch' \in {"none", "open", "closed"}
    BY <1>11, BusType DEF DisableFlushes
  <2> QED
    BY <1>11, <2>1 DEF DisableFlushes, TypeOK, AtInv
<1> QED
  BY <1>1, <1>2, <1>3, <1>4, <1>5, <1>6, <1>7, <1>8, <1>9, <1>10, <1>11
  DEF Next, Operation

\* Type correctness: registers hold sets of bits, and every operation runs a
\* transaction of its program.
THEOREM TypeCorrect == Spec => []TypeOK
<1>1. Init => TypeOK /\ AtInv
  BY TypeInit
<1>2. TypeOK /\ AtInv /\ [Next]_vars => TypeOK' /\ AtInv'
  BY TypeStep
<1> QED
  BY <1>1, <1>2, PTL DEF Spec
----------------------------------------------------------------------------
(* Any number of callers, no faults.                                       *)

Opening == {"enableFlush", "merge", "transfer", "store", "disable"}
Flushing == {"enableFlush", "disableFlush"}

\* Without faults a transfer is acknowledged.
LEMMA NoFaultsOk == ASSUME Faults = {}, NEW o \in Outcomes PROVE o = "ok"
BY DEF Outcomes

\* What the repeater was last told, after a write of it and after a flush
\* (demodWriteByte).
LEMMA LastWrittenByWrite ==
  ASSUME NEW v \in {"open", "closed"}, DemodWrite(v, "ok")
  PROVE  LastWritten' = v /\ latch' # "none"
BY DEF DemodWrite, LastWritten

\* A read only commits (demodReadByte).
LEMMA LastWrittenByRead ==
  ASSUME DemodRead("ok")
  PROVE  LastWritten' = LastWritten /\ latch' = "none"
BY DEF DemodRead, LastWritten

\* A step of one caller that leaves the bus alone and stays within the same
\* part of withRepeater keeps both invariants.
LEMMA BusUntouched ==
  ASSUME TypeOK, OpenerInv, FlusherInv, UNCHANGED <<bridge, latch>>,
         NEW c \in Callers, NEW to, pc' = [pc EXCEPT ![c] = to],
         pc[c] \in Opening => to \in Opening,
         pc[c] \in Flushing => to \in Flushing
  PROVE  OpenerInv' /\ FlusherInv'
<1>1. \A d \in Callers : pc'[d] = IF d = c THEN to ELSE pc[d]
  BY DEF TypeOK
<1>2. LastWritten' = LastWritten
  BY DEF LastWritten
<1>3. OpenerInv'
  <2> SUFFICES ASSUME LastWritten = "open"
               PROVE  \E d \in Callers : pc'[d] \in Opening
    BY <1>2 DEF OpenerInv, Opening
  <2>1. PICK d \in Callers : pc[d] \in Opening
    BY DEF OpenerInv, Opening
  <2>2. pc'[d] \in Opening
    BY <2>1, <1>1
  <2> QED
    BY <2>2
<1>4. FlusherInv'
  <2> SUFFICES ASSUME latch # "none"
               PROVE  \E d \in Callers : pc'[d] \in Flushing
    BY DEF FlusherInv, Flushing
  <2>1. PICK d \in Callers : pc[d] \in Flushing
    BY DEF FlusherInv, Flushing
  <2>2. pc'[d] \in Flushing
    BY <2>1, <1>1
  <2> QED
    BY <2>2
<1> QED
  BY <1>3, <1>4

\* Every step keeps the opener and the flusher known.
LEMMA BusStep ==
  ASSUME Faults = {}, TypeOK, AtInv, OpenerInv, FlusherInv, [Next]_vars
  PROVE  OpenerInv' /\ FlusherInv'
<1>1. CASE UNCHANGED vars
  BY <1>1 DEF vars, OpenerInv, FlusherInv, LastWritten
<1>2. CASE SignalStats
  <2>1. LastWritten' = LastWritten /\ latch' = "none" /\ pc' = pc
    BY <1>2, LastWrittenByRead DEF SignalStats
  <2> QED
    BY <2>1 DEF OpenerInv, FlusherInv
<1>3. ASSUME NEW c \in Callers, Call(c) PROVE OpenerInv' /\ FlusherInv'
  <2>1. pc[c] = "idle" /\ pc' = [pc EXCEPT ![c] = "enable"] /\ UNCHANGED <<bridge, latch>>
    BY <1>3 DEF Call
  <2> QED
    BY <2>1, BusUntouched DEF Opening, Flushing
<1>4. ASSUME NEW c \in Callers, Merge(c) PROVE OpenerInv' /\ FlusherInv'
  <2>1. pc[c] = "merge" /\ pc' = [pc EXCEPT ![c] = "transfer"] /\ UNCHANGED <<bridge, latch>>
    BY <1>4 DEF Merge
  <2> QED
    BY <2>1, BusUntouched DEF Opening, Flushing
<1>5. ASSUME NEW c \in Callers, Store(c) PROVE OpenerInv' /\ FlusherInv'
  <2>1. pc[c] = "store" /\ pc' = [pc EXCEPT ![c] = "merge"] /\ UNCHANGED <<bridge, latch>>
    BY <1>5 DEF Store
  <2> QED
    BY <2>1, BusUntouched DEF Opening, Flushing
<1>6. ASSUME NEW c \in Callers, BodyEnds(c) PROVE OpenerInv' /\ FlusherInv'
  <2>1. pc[c] = "merge" /\ pc' = [pc EXCEPT ![c] = "disable"] /\ UNCHANGED <<bridge, latch>>
    BY <1>6 DEF BodyEnds
  <2> QED
    BY <2>1, BusUntouched DEF Opening, Flushing
<1>7. ASSUME NEW c \in Callers, NEW o \in Outcomes, Transfer(c, o)
      PROVE  OpenerInv' /\ FlusherInv'
  <2>1. pc[c] = "transfer" /\ pc' = [pc EXCEPT ![c] = "store"] /\ UNCHANGED <<bridge, latch>>
    BY <1>7, NoFaultsOk DEF Transfer
  <2> QED
    BY <2>1, BusUntouched DEF Opening, Flushing
<1>8. ASSUME NEW c \in Callers, NEW o \in Outcomes, EnableWrites(c, o)
      PROVE  OpenerInv' /\ FlusherInv'
  <2>1. LastWritten' = "open" /\ latch' # "none" /\ pc' = [pc EXCEPT ![c] = "enableFlush"]
    BY <1>8, NoFaultsOk, LastWrittenByWrite DEF EnableWrites
  <2>2. pc'[c] = "enableFlush"
    BY <2>1 DEF TypeOK
  <2> QED
    BY <2>1, <2>2 DEF OpenerInv, FlusherInv
<1>9. ASSUME NEW c \in Callers, NEW o \in Outcomes, EnableFlushes(c, o)
      PROVE  OpenerInv' /\ FlusherInv'
  <2>1. /\ LastWritten' = LastWritten /\ latch' = "none"
        /\ pc[c] = "enableFlush" /\ pc' = [pc EXCEPT ![c] = "merge"]
    BY <1>9, NoFaultsOk, LastWrittenByRead DEF EnableFlushes
  <2>2. pc'[c] = "merge"
    BY <2>1 DEF TypeOK
  <2> QED
    BY <2>1, <2>2 DEF OpenerInv, FlusherInv
<1>10. ASSUME NEW c \in Callers, NEW o \in Outcomes, DisableWrites(c, o)
       PROVE  OpenerInv' /\ FlusherInv'
  <2>1. LastWritten' = "closed" /\ latch' # "none" /\ pc' = [pc EXCEPT ![c] = "disableFlush"]
    BY <1>10, NoFaultsOk, LastWrittenByWrite DEF DisableWrites
  <2>2. pc'[c] = "disableFlush"
    BY <2>1 DEF TypeOK
  <2> QED
    BY <2>1, <2>2 DEF OpenerInv, FlusherInv
<1>11. ASSUME NEW c \in Callers, NEW o \in Outcomes, DisableFlushes(c, o)
       PROVE  OpenerInv' /\ FlusherInv'
  <2>1. /\ LastWritten' = LastWritten /\ latch' = "none"
        /\ pc[c] = "disableFlush" /\ pc' = [pc EXCEPT ![c] = "idle"]
    BY <1>11, NoFaultsOk, LastWrittenByRead DEF DisableFlushes
  <2>2. \A d \in Callers : pc[d] \in Opening => pc'[d] \in Opening
    BY <2>1 DEF TypeOK, Opening
  <2> QED
    BY <2>1, <2>2 DEF OpenerInv, FlusherInv, Opening
<1> QED
  BY <1>1, <1>2, <1>3, <1>4, <1>5, <1>6, <1>7, <1>8, <1>9, <1>10, <1>11
  DEF Next, Operation

\* Without faults, whatever the number of callers and however their operations
\* overlap, BusInv holds ...
THEOREM BusInvariantHolds == ASSUME Faults = {} PROVE Spec => []BusInv
<1>1. Init => TypeOK /\ AtInv /\ OpenerInv /\ FlusherInv
  BY TypeInit DEF Init, OpenerInv, FlusherInv, LastWritten
<1>2. TypeOK /\ AtInv /\ OpenerInv /\ FlusherInv /\ [Next]_vars
        => TypeOK' /\ AtInv' /\ OpenerInv' /\ FlusherInv'
  BY TypeStep, BusStep
<1>3. TypeOK /\ OpenerInv /\ FlusherInv => BusInv
  BY DEF BusInv
<1> QED
  BY <1>1, <1>2, <1>3, PTL DEF Spec

\* ... and the bridge is shut when the last of them returns (withRepeater).
THEOREM BridgeShuts == ASSUME Faults = {} PROVE Spec => []BridgeShutWhenIdle
<1>1. BusInv => BridgeShutWhenIdle
  BY DEF BusInv, TypeOK, OpenerInv, FlusherInv, LastWritten, BridgeShutWhenIdle
<1> QED
  BY <1>1, BusInvariantHolds, PTL
----------------------------------------------------------------------------
(* One caller, every fault.                                                *)

AtMostOneCaller == \A c, d \in Callers : c = d

\* A caller's part of AckInv.
CallerInv(c) == BridgeInv(c) /\ TransferInv(c) /\ ProgressInv(c)

\* What was assigned and what is in step only depend on the program and on the
\* two copies of the registers.
LEMMA DoneFrame ==
  ASSUME NEW c \in Callers, UNCHANGED <<chip, shadow, prog>>
  PROVE  /\ \A n : Assigned(c, n)' = Assigned(c, n)
         /\ \A n : Touched(c, n)' = Touched(c, n)
         /\ \A s : Synced(s)' = Synced(s)
         /\ Done(c)' = Done(c)
BY DEF Assigned, Touched, Synced, Done

\* An operation starts: nothing is assigned yet (withRepeater).
LEMMA AckCall ==
  ASSUME TypeOK, NEW c \in Callers, CallerInv(c), Call(c)
  PROVE  CallerInv(c)'
<1>1. pc'[c] = "enable" /\ at'[c] = 1
  BY DEF Call, TypeOK
<1> QED
  BY <1>1 DEF CallerInv, BridgeInv, TransferInv, ProgressInv, InBody

\* The repeater opens (enableI2CRepeater).
LEMMA AckEnable ==
  ASSUME TypeOK, NEW c \in Callers, CallerInv(c), NEW o \in Outcomes,
         EnableWrites(c, o) \/ EnableFlushes(c, o)
  PROVE  CallerInv(c)'
<1>1. CASE EnableWrites(c, o)
  <2>1. CASE o = "ok"
    <3>1. pc'[c] = "enableFlush" /\ at'[c] = 1 /\ LastWritten' = "open"
      BY <1>1, <2>1, LastWrittenByWrite DEF EnableWrites, TypeOK, CallerInv, TransferInv
    <3> QED
      BY <3>1 DEF CallerInv, BridgeInv, TransferInv, ProgressInv, InBody
  <2>2. CASE o # "ok"
    <3>1. pc'[c] = "idle" /\ result'[c] = "err" /\ at'[c] = at[c]
      BY <1>1, <2>2 DEF EnableWrites, TypeOK
    <3> QED
      BY <3>1 DEF CallerInv, BridgeInv, TransferInv, ProgressInv, InBody
  <2> QED
    BY <2>1, <2>2
<1>2. CASE EnableFlushes(c, o)
  <2>1. CASE o = "ok"
    <3>1. /\ pc'[c] = "merge" /\ at'[c] = 1
          /\ bridge' = "open" /\ latch' = "none"
      BY <1>2, <2>1 DEF EnableFlushes, DemodRead, TypeOK, CallerInv, BridgeInv,
                        TransferInv, LastWritten
    <3>2. Assigned(c, 0)' /\ Touched(c, 0)' = {}
      <4>1. DOMAIN prog'[c].writes \subseteq Nat \ {0}
        BY <1>2, RunsPrograms DEF EnableFlushes, IsProgram
      <4> QED
        BY <4>1 DEF Assigned, Touched
    <3>3. Synced(Touched(c, 0))'
      BY <3>2 DEF Synced
    <3>4. at'[c] - 1 = 0
      BY <3>1
    <3> QED
      BY <3>1, <3>2, <3>3, <3>4 DEF CallerInv, BridgeInv, TransferInv, ProgressInv, InBody
  <2>2. CASE o # "ok"
    <3>1. pc'[c] = "idle" /\ result'[c] = "err" /\ at'[c] = at[c]
      BY <1>2, <2>2 DEF EnableFlushes, TypeOK
    <3> QED
      BY <3>1 DEF CallerInv, BridgeInv, TransferInv, ProgressInv, InBody
  <2> QED
    BY <2>1, <2>2
<1> QED
  BY <1>1, <1>2

\* The shadow is read for the merge (writeRegisterMasked).
LEMMA AckMerge ==
  ASSUME TypeOK, NEW c \in Callers, CallerInv(c), Merge(c)
  PROVE  CallerInv(c)'
<1>1. /\ pc[c] = "merge" /\ pc'[c] = "transfer" /\ at'[c] = at[c]
      /\ at'[c] \in DOMAIN prog'[c].writes /\ seen'[c] = shadow'
      /\ UNCHANGED <<bridge, latch, chip, shadow, prog>>
  BY DEF Merge, TypeOK
<1>2. Assigned(c, at[c] - 1)' /\ Synced(Touched(c, at[c] - 1))'
  <2>1. Assigned(c, at[c] - 1) /\ Synced(Touched(c, at[c] - 1))
    BY <1>1 DEF CallerInv, ProgressInv, InBody
  <2> QED
    BY <2>1, <1>1 DEF Assigned, Synced, Touched
<1> QED
  BY <1>1, <1>2 DEF CallerInv, BridgeInv, TransferInv, ProgressInv, InBody

\* The transfer: acknowledged, its bytes are on the chip (i2cWrite).
LEMMA AckTransfer ==
  ASSUME TypeOK, NEW c \in Callers, CallerInv(c), NEW o \in Outcomes, Transfer(c, o)
  PROVE  CallerInv(c)'
<1>1. /\ pc[c] = "transfer" /\ UNCHANGED <<bridge, latch, shadow, at, seen, prog>>
      /\ pc'[c] = IF o = "ok" THEN "store" ELSE "disable"
      /\ err'[c] = (o # "ok")
      /\ bridge = "open" /\ latch = "none"
      /\ at[c] \in DOMAIN prog[c].writes /\ seen[c] = shadow
  BY DEF Transfer, TypeOK, CallerInv, BridgeInv, TransferInv, InBody
<1>2. Assigned(c, at[c] - 1)'
  <2>1. Assigned(c, at[c] - 1)
    BY <1>1 DEF CallerInv, ProgressInv, InBody
  <2> QED
    BY <2>1, <1>1 DEF Assigned
<1>3. /\ \A r \in Regs \ DOMAIN Write(c) : chip'[r] = chip[r]
      /\ o = "ok" => \A r \in DOMAIN Write(c) : chip'[r] = Byte(c, r)
  <2>1. DOMAIN Write(c) \subseteq Regs
    BY <1>1, ByteType
  <2> QED
    BY <1>1, <2>1 DEF Transfer, I2CWrite
<1>4. Synced(Touched(c, at[c] - 1) \ DOMAIN Write(c))'
  <2>1. Synced(Touched(c, at[c] - 1))
    BY <1>1 DEF CallerInv, ProgressInv
  <2>2. /\ Touched(c, at[c] - 1) \subseteq Regs
        /\ Touched(c, at[c] - 1)' = Touched(c, at[c] - 1)
        /\ (DOMAIN Write(c))' = DOMAIN Write(c)
    BY <1>1 DEF Touched, Write
  <2> QED
    BY <2>1, <2>2, <1>1, <1>3 DEF Synced
<1>5. o = "ok" => \A r \in (DOMAIN Write(c))' : chip'[r] = Byte(c, r)'
  BY <1>1, <1>3 DEF Write, Byte
<1>6. CASE o = "ok"
  <2>1. pc'[c] = "store"
    BY <1>1, <1>6
  <2> QED
    BY <2>1, <1>1, <1>2, <1>4, <1>5, <1>6
    DEF CallerInv, BridgeInv, TransferInv, ProgressInv, InBody
<1>7. CASE o # "ok"
  <2>1. pc'[c] = "disable" /\ err'[c]
    BY <1>1, <1>7
  <2> QED
    BY <2>1, <1>1 DEF CallerInv, BridgeInv, TransferInv, ProgressInv, InBody
<1> QED
  BY <1>6, <1>7

\* The shadow remembers what was acknowledged (writeRegister).
LEMMA AckStore ==
  ASSUME TypeOK, NEW c \in Callers, CallerInv(c), Store(c)
  PROVE  CallerInv(c)'
<1>0. PICK n \in Nat : n = at[c]
  BY DEF TypeOK
<1>1. /\ pc[c] = "store" /\ pc'[c] = "merge" /\ at'[c] = n + 1
      /\ UNCHANGED <<bridge, latch, chip, prog>>
      /\ bridge = "open" /\ latch = "none"
      /\ n \in Nat \ {0} /\ n \in DOMAIN prog[c].writes /\ seen[c] = shadow
  BY <1>0 DEF Store, TypeOK, CallerInv, BridgeInv, TransferInv, InBody
<1>2. n = at[c] /\ DOMAIN Write(c) \subseteq Regs /\ DOMAIN prog[c].writes \subseteq Nat
  BY <1>0, <1>1, ByteType, RunsPrograms DEF IsProgram
<1>3. /\ \A r \in DOMAIN Write(c) : shadow'[r] = Byte(c, r)
      /\ \A r \in Regs \ DOMAIN Write(c) : shadow'[r] = shadow[r]
  BY <1>2 DEF Store
<1>4. Assigned(c, n)'
  <2>1. SUFFICES ASSUME NEW i \in DOMAIN prog[c].writes, NEW r \in Regs, NEW b \in Bits,
                        i <= n, r \in DOMAIN prog[c].writes[i],
                        b \in prog[c].writes[i][r].mask,
                        \A j \in DOMAIN prog[c].writes :
                          i < j /\ j <= n /\ r \in DOMAIN prog[c].writes[j] =>
                            b \notin prog[c].writes[j][r].mask
                 PROVE  b \in shadow'[r] <=> b \in prog[c].writes[i][r].val
    BY <1>1 DEF Assigned
  <2>2. CASE i = n
    <3>1. r \in DOMAIN Write(c) /\ b \in Write(c)[r].mask /\ Write(c)[r].val = prog[c].writes[i][r].val
      BY <2>1, <2>2, <1>2 DEF Write
    <3> QED
      BY <3>1, <1>3 DEF Byte
  <2>3. CASE i < n
    <3>1. b \in shadow[r] <=> b \in prog[c].writes[i][r].val
      <4>1. Assigned(c, n - 1)
        BY <1>1, <1>2 DEF CallerInv, ProgressInv, InBody
      <4>2. i <= n - 1 /\ \A j \in DOMAIN prog[c].writes : j <= n - 1 => j <= n
        BY <2>3, <1>1, <1>2
      <4> QED
        BY <2>1, <4>1, <4>2 DEF Assigned
    <3>2. CASE r \in DOMAIN Write(c)
      <4>1. b \notin Write(c)[r].mask
        BY <2>1, <2>3, <3>2, <1>1, <1>2 DEF Write
      <4> QED
        BY <3>1, <3>2, <4>1, <1>1, <1>3 DEF Byte
    <3>3. CASE r \notin DOMAIN Write(c)
      BY <3>1, <3>3, <1>3
    <3> QED
      BY <3>2, <3>3
  <2> QED
    BY <2>1, <2>2, <2>3, <1>1, <1>2
<1>5. Synced(Touched(c, n))'
  <2>1. SUFFICES ASSUME NEW r \in Touched(c, n) PROVE chip[r] = shadow'[r]
    BY <1>1 DEF Touched, Synced
  <2>2. CASE r \in DOMAIN Write(c)
    BY <2>2, <1>1, <1>3 DEF CallerInv, TransferInv
  <2>3. CASE r \notin DOMAIN Write(c)
    <3>1. r \in Touched(c, n - 1) /\ r \in Regs
      <4>1. PICK i \in DOMAIN prog[c].writes : i <= n /\ r \in DOMAIN prog[c].writes[i]
        BY <2>1 DEF Touched
      <4>2. i # n
        BY <4>1, <2>3, <1>2 DEF Write
      <4>3. i <= n - 1
        BY <4>1, <4>2, <1>1, <1>2
      <4> QED
        BY <2>1, <4>1, <4>3 DEF Touched
    <3> QED
      BY <3>1, <2>3, <1>1, <1>2, <1>3 DEF CallerInv, ProgressInv, Synced
  <2> QED
    BY <2>2, <2>3
<1>6. at'[c] - 1 = n /\ at'[c] \in Nat \ {0}
  BY <1>1
<1> QED
  BY <1>1, <1>4, <1>5, <1>6 DEF CallerInv, BridgeInv, TransferInv, ProgressInv, InBody

\* The body returns (withRepeater's fn).
LEMMA AckBodyEnds ==
  ASSUME TypeOK, NEW c \in Callers, CallerInv(c), BodyEnds(c)
  PROVE  CallerInv(c)'
<1> DEFINE len == Len(prog[c].writes)
<1>1. /\ pc[c] = "merge" /\ pc'[c] = "disable" /\ at'[c] = at[c]
      /\ UNCHANGED <<bridge, latch, chip, shadow, prog>>
      /\ at[c] \in Nat \ {0}
  BY DEF BodyEnds, TypeOK, CallerInv, TransferInv
<1>2. DOMAIN prog[c].writes = 1..len /\ len \in Nat
  BY RunsPrograms DEF IsProgram
<1>3. at[c] - 1 >= len
  BY <1>1, <1>2 DEF BodyEnds
<1>4. Assigned(c, len)
  <2>1. Assigned(c, at[c] - 1)
    BY <1>1 DEF CallerInv, ProgressInv, InBody
  <2>2. \A i \in DOMAIN prog[c].writes : i <= len /\ i <= at[c] - 1
    BY <1>1, <1>2, <1>3
  <2> QED
    BY <2>1, <2>2 DEF Assigned
<1>5. Synced(Touched(c, len))
  <2>1. Synced(Touched(c, at[c] - 1))
    BY <1>1 DEF CallerInv, ProgressInv
  <2>2. \A i \in DOMAIN prog[c].writes : i <= len => i <= at[c] - 1
    BY <1>1, <1>2, <1>3
  <2> QED
    BY <2>1, <2>2 DEF Touched, Synced
<1>6. Done(c)'
  BY <1>1, <1>4, <1>5, DoneFrame DEF Done
<1> QED
  BY <1>1, <1>6 DEF CallerInv, BridgeInv, TransferInv, ProgressInv, InBody

\* The deferred close (disableI2CRepeater).
LEMMA AckDisable ==
  ASSUME TypeOK, NEW c \in Callers, CallerInv(c), NEW o \in Outcomes,
         DisableWrites(c, o) \/ DisableFlushes(c, o)
  PROVE  CallerInv(c)'
<1>1. /\ at'[c] = at[c] /\ err'[c] = err[c] /\ UNCHANGED <<chip, shadow, prog>>
      /\ pc[c] \in {"disable", "disableFlush"}
  BY DEF DisableWrites, DisableFlushes, TypeOK
<1>2. ~err[c] => Done(c)'
  BY <1>1, DoneFrame DEF CallerInv, ProgressInv
<1>3. CASE DisableWrites(c, o)
  <2>1. /\ pc'[c] \in {"disableFlush", "idle"}
        /\ pc'[c] = "idle" => result'[c] = "err"
        /\ pc'[c] = "disableFlush" => LastWritten' = "closed"
    BY <1>3, LastWrittenByWrite DEF DisableWrites, TypeOK
  <2> QED
    BY <2>1, <1>1, <1>2 DEF CallerInv, BridgeInv, TransferInv, ProgressInv, InBody
<1>4. CASE DisableFlushes(c, o)
  <2>1. /\ pc'[c] = "idle"
        /\ result'[c] = "ok" => ~err[c] /\ bridge' = "closed" /\ latch' = "none"
    BY <1>4 DEF DisableFlushes, DemodRead, TypeOK, CallerInv, BridgeInv, LastWritten
  <2> QED
    BY <2>1, <1>1, <1>2 DEF CallerInv, BridgeInv, TransferInv, ProgressInv, InBody
<1> QED
  BY <1>3, <1>4

\* A register read from elsewhere commits the latch (SignalStats).
LEMMA AckStats ==
  ASSUME TypeOK, NEW c \in Callers, CallerInv(c), SignalStats
  PROVE  CallerInv(c)'
<1>1. /\ UNCHANGED <<chip, shadow, at, seen, err, pc, prog, result>>
      /\ latch # "none" /\ LastWritten' = LastWritten
  BY LastWrittenByRead DEF SignalStats
<1>2. BridgeInv(c)' /\ ~InBody(c)
  BY <1>1 DEF CallerInv, BridgeInv, InBody
<1>3. TransferInv(c)'
  BY <1>1 DEF CallerInv, TransferInv, Write, Byte
<1>4. ProgressInv(c)'
  BY <1>1, <1>2, DoneFrame DEF CallerInv, ProgressInv, InBody
<1> QED
  BY <1>2, <1>3, <1>4 DEF CallerInv

\* With one caller and every fault, AckInv holds.
THEOREM AckInvariantHolds == ASSUME AtMostOneCaller PROVE Spec => []AckInv
<1>1. Init => AckInv
  <2>1. Init => \A c \in Callers : CallerInv(c)
    <3> SUFFICES ASSUME Init, NEW c \in Callers PROVE CallerInv(c)
      OBVIOUS
    <3>1. pc[c] = "idle" /\ at[c] = 1 /\ result[c] = "none"
      BY DEF Init
    <3> QED
      BY <3>1 DEF CallerInv, BridgeInv, TransferInv, ProgressInv, InBody
  <2> QED
    BY <2>1, TypeInit DEF AckInv, CallerInv
<1>2. AckInv /\ [Next]_vars => AckInv'
  <2> SUFFICES ASSUME AckInv, [Next]_vars PROVE AckInv'
    OBVIOUS
  <2>1. TypeOK /\ AtInv /\ \A c \in Callers : CallerInv(c)
    BY DEF AckInv, AtInv, CallerInv, TransferInv
  <2>2. TypeOK'
    BY <2>1, TypeStep
  <2>3. ASSUME NEW c \in Callers, CallerInv(c)' PROVE \A d \in Callers : CallerInv(d)'
    <3>1. \A d \in Callers : d = c
      BY DEF AtMostOneCaller
    <3> QED
      BY <2>3, <3>1
  <2>4. \A c \in Callers : CallerInv(c)'
    <3>1. CASE UNCHANGED vars
      <4> SUFFICES ASSUME NEW c \in Callers PROVE CallerInv(c)'
        OBVIOUS
      <4>1. BridgeInv(c)'
        BY <3>1, <2>1 DEF vars, CallerInv, BridgeInv, InBody, LastWritten
      <4>2. TransferInv(c)'
        BY <3>1, <2>1 DEF vars, CallerInv, TransferInv, Write, Byte
      <4>3. ProgressInv(c)'
        <5>1. UNCHANGED <<chip, shadow, prog, pc, at, err, result, bridge, latch>>
          BY <3>1 DEF vars, busVars, regVars, bodyVars
        <5>2. DOMAIN Write(c)' = DOMAIN Write(c)
          BY <5>1 DEF Write
        <5> QED
          BY <5>1, <5>2, <2>1, DoneFrame DEF CallerInv, ProgressInv, InBody
      <4> QED
        BY <4>1, <4>2, <4>3 DEF CallerInv
    <3>2. CASE SignalStats
      BY <3>2, <2>1, AckStats
    <3>3. ASSUME NEW c \in Callers, Operation(c) PROVE CallerInv(c)'
      BY <3>3, <2>1, AckCall, AckMerge, AckStore, AckBodyEnds, AckEnable, AckTransfer,
         AckDisable DEF Operation
    <3> QED
      BY <3>1, <3>2, <3>3, <2>3 DEF Next
  <2> QED
    BY <2>2, <2>4 DEF AckInv, CallerInv
<1> QED
  BY <1>1, <1>2, PTL DEF Spec

\* An operation that returned nil took effect on the chip ...
THEOREM AckTakesEffect == ASSUME AtMostOneCaller PROVE Spec => []AckTookEffect
<1>1. AckInv => AckTookEffect
  <2> SUFFICES ASSUME AckInv, NEW c \in Callers, pc[c] = "idle", result[c] = "ok",
                      NEW i \in DOMAIN prog[c].writes, NEW r \in Regs, NEW b \in Bits,
                      LastAssigns(prog[c], i, r, b)
               PROVE  b \in chip[r] <=> b \in prog[c].writes[i][r].val
    BY DEF AckTookEffect
  <2>1. Done(c) /\ TypeOK
    BY DEF AckInv, ProgressInv
  <2>2. \A j \in DOMAIN prog[c].writes : j \in Nat /\ j <= Len(prog[c].writes)
    BY <2>1, RunsPrograms DEF IsProgram
  <2>3. b \in shadow[r] <=> b \in prog[c].writes[i][r].val
    BY <2>1, <2>2 DEF Done, Assigned, LastAssigns
  <2>4. chip[r] = shadow[r]
    BY <2>1, <2>2 DEF Done, Touched, Synced, LastAssigns
  <2> QED
    BY <2>3, <2>4
<1> QED
  BY <1>1, AckInvariantHolds, PTL

\* ... left every register it wrote in step with the shadow ...
THEOREM AckHeals == ASSUME AtMostOneCaller PROVE Spec => []AckHealsDrift
<1>1. AckInv => AckHealsDrift
  <2> SUFFICES ASSUME AckInv, NEW c \in Callers, pc[c] = "idle", result[c] = "ok",
                      NEW i \in DOMAIN prog[c].writes, NEW r \in Regs,
                      r \in DOMAIN prog[c].writes[i]
               PROVE  chip[r] = shadow[r]
    BY DEF AckHealsDrift
  <2>1. Done(c) /\ TypeOK
    BY DEF AckInv, ProgressInv
  <2>2. i <= Len(prog[c].writes)
    BY <2>1, RunsPrograms DEF IsProgram
  <2> QED
    BY <2>1, <2>2 DEF Done, Touched, Synced
<1> QED
  BY <1>1, AckInvariantHolds, PTL

\* ... and the bridge closed.
THEOREM AckCloses == ASSUME AtMostOneCaller PROVE Spec => []AckLeavesBridgeClosed
<1>1. AckInv => AckLeavesBridgeClosed
  BY DEF AckInv, ProgressInv, AckLeavesBridgeClosed
<1> QED
  BY <1>1, AckInvariantHolds, PTL
=============================================================================
