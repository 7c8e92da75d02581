------------------------------ MODULE OpenFlow ------------------------------
(***************************************************************************)
(* Open and its rollback: openBackendWithSysfs, claimUSBDevice and         *)
(* configureChipAndTuner of usbfs_linux.go.                                *)
(*                                                                         *)
(* Claiming is modelled call by call.  The configuration that follows is a *)
(* script, a sequence of operations fixed by the options and by the VCO    *)
(* calibration the tuner reports: module BringUp has the real scripts.     *)
(* Every operation may fail after a part of its effect, and the process    *)
(* may be killed at any time; chip and tuner keep their registers for the  *)
(* next Open, the Receiver and its shadow do not outlive it.               *)
(***************************************************************************)
EXTENDS Integers, Sequences

CONSTANTS
  Configs,       \* what the options may ask for
  Calibrations,  \* what the tuner's VCO fine tune may read
  Script,        \* Script[<<cfg, cal>>]: the operations, see IsOp
  ChipRegs,      \* registers of the RTL2832U
  TunerRegs,     \* registers of the tuner
  Bits,          \* bits of a register; a register's value is a set of bits
  ChipPowerOn,   \* both register files when the dongle is plugged in
  TunerPowerOn,
  SoftReset,     \* the register with the reset and the repeater bit
  MaxOpens       \* bound: calls of Open while the dongle stays plugged in

ResetBit == 2
RepeaterBit == 3
Idle == {4}  \* the register's value with neither

\* set maps the registers an operation writes to the bits it assigns (mask)
\* and their values.  When it fails, one of parts has been written.
\* ok = FALSE: it writes nothing and returns an error of its own.
\* repeater: it is part of the body of a withRepeater.
IsOp(op) ==
  /\ op.unit \in {"chip", "tuner"}
  /\ DOMAIN op.set \subseteq IF op.unit = "chip" THEN ChipRegs ELSE TunerRegs
  /\ \A r \in DOMAIN op.set :
       op.set[r].mask \subseteq Bits /\ op.set[r].val \subseteq Bits
  /\ op.parts \subseteq SUBSET DOMAIN op.set
  /\ op.ok \in BOOLEAN /\ op.repeater \in BOOLEAN

\* withRepeater's first step, ...
OpensBridge(op) ==
  /\ op.unit = "chip" /\ SoftReset \in DOMAIN op.set
  /\ RepeaterBit \in op.set[SoftReset].mask \cap op.set[SoftReset].val

\* ... since which there was nothing but tuner operations.
Bracketed(ops, i) ==
  \E j \in 1..(i - 1) : OpensBridge(ops[j]) /\ \A l \in (j + 1)..(i - 1) : ops[l].unit = "tuner"

ASSUME BracketAssumption ==
  \A k \in DOMAIN Script : \A i \in DOMAIN Script[k] :
    Script[k][i].unit = "tuner" => Bracketed(Script[k], i)

ASSUME OpenAssumption ==
  /\ Configs # {} /\ Calibrations # {}
  /\ DOMAIN Script = Configs \X Calibrations
  /\ \A k \in DOMAIN Script :
       /\ Len(Script[k]) \in Nat
       /\ DOMAIN Script[k] = 1..Len(Script[k])
       /\ \A i \in DOMAIN Script[k] : IsOp(Script[k][i])
  /\ SoftReset \in ChipRegs
  /\ Idle \cup {ResetBit, RepeaterBit} \subseteq Bits
  /\ ChipPowerOn \in [ChipRegs -> SUBSET Bits]
  /\ TunerPowerOn \in [TunerRegs -> SUBSET Bits]
  /\ MaxOpens \in Nat

VARIABLES
  chip,      \* the RTL2832U's registers
  tuner,     \* the tuner's
  shadow,    \* the R860's copy of them
  unsynced,  \* history: what was written since the last soft reset pulse
  driver,    \* the kernel's DVB driver is bound to the interface
  fd,        \* the device node is open
  claimed,   \* the interface is claimed for it
  pc,        \* where Open or Close is
  cfg, cal,  \* the options and the calibration of this Open
  at,        \* the operation of the script it is at
  result,    \* what the last Open returned
  opens      \* calls of Open since it was plugged in

chipVars == <<chip, tuner, unsynced>>
regVars == <<chipVars, shadow>>
usbVars == <<driver, fd, claimed>>
callVars == <<cfg, cal, opens>>
vars == <<regVars, usbVars, callVars, pc, at, result>>

ZeroShadow == [r \in TunerRegs |-> {}]

\* Between calls the Receiver, its options and its shadow are gone.
NoCall(c, l, s, i) ==
  /\ c = (CHOOSE x \in Configs : TRUE) /\ l = (CHOOSE x \in Calibrations : TRUE)
  /\ s = ZeroShadow /\ i = 1

TypeOK ==
  /\ chip \in [ChipRegs -> SUBSET Bits]
  /\ tuner \in [TunerRegs -> SUBSET Bits]
  /\ shadow \in [TunerRegs -> SUBSET Bits]
  /\ unsynced \in [chip : SUBSET ChipRegs, tuner : SUBSET TunerRegs]
  /\ driver \in BOOLEAN /\ fd \in BOOLEAN /\ claimed \in BOOLEAN
  /\ pc \in {"idle", "select", "claim", "legacyClaim", "unclaimed", "configure",
             "shut", "opened", "release", "closeFd"}
  /\ cfg \in Configs /\ cal \in Calibrations
  /\ at \in Nat
  /\ result \in {"none", "ok", "err"}
  /\ opens \in 0..MaxOpens

Init ==
  /\ chip = ChipPowerOn /\ tuner = TunerPowerOn
  /\ unsynced = [chip |-> {}, tuner |-> {}]
  /\ driver \in BOOLEAN /\ fd = FALSE /\ claimed = FALSE
  /\ pc = "idle" /\ result = "none" /\ opens = 0
  /\ NoCall(cfg, cal, shadow, at)
----------------------------------------------------------------------------
(* Register writes.                                                        *)

Scripts == Script  \* a constant definition: TLC evaluates it once
Ops == Scripts[<<cfg, cal>>]
Merged(old, w) == (old \ w.mask) \cup (w.val \cap w.mask)

\* The register file f after op has reached the registers R, computing each
\* byte from base.
Written(f, base, op, R) ==
  [r \in DOMAIN f |-> IF r \in R THEN Merged(base[r], op.set[r]) ELSE f[r]]

\* Releasing the reset bit resynchronises the sample FIFO.
Pulses(op, R) ==
  /\ op.unit = "chip" /\ SoftReset \in R
  /\ ResetBit \in chip[SoftReset]
  /\ ResetBit \notin Merged(chip[SoftReset], op.set[SoftReset])

\* op reaches R.  The tuner hears nothing while the repeater is closed, and
\* masked bytes are computed from the shadow; writeSysRegMask reads the chip.
Reaches(op, R) ==
  /\ IF op.unit = "chip"
     THEN chip' = Written(chip, chip, op, R) /\ UNCHANGED tuner
     ELSE /\ tuner' = IF RepeaterBit \in chip[SoftReset]
                      THEN Written(tuner, shadow, op, R) ELSE tuner
          /\ UNCHANGED chip
  /\ unsynced' = CASE Pulses(op, R) -> [chip |-> {}, tuner |-> {}]
                   [] op.unit = "tuner" -> [unsynced EXCEPT !.tuner = @ \cup R]
                   [] OTHER -> [unsynced EXCEPT !.chip = @ \cup (R \ {SoftReset})]

\* Seeded bug: what is stored is the masked value, without the other fields.
StoresValue(op) ==
  shadow' = IF op.unit = "tuner"
            THEN [r \in DOMAIN shadow |->
                    IF r \in DOMAIN op.set THEN op.set[r].val \cap op.set[r].mask ELSE shadow[r]]
            ELSE shadow

\* writeRegister stores what was acknowledged.
Stores(op) ==
  shadow' = IF op.unit = "tuner" THEN Written(shadow, shadow, op, DOMAIN op.set)
            ELSE shadow
----------------------------------------------------------------------------
(* Open.                                                                   *)

Goto(from, to) == pc = from /\ pc' = to
EndsCall == pc' = "idle" /\ NoCall(cfg', cal', shadow', at')

Open ==
  /\ Goto("idle", "select")
  /\ opens < MaxOpens /\ opens' = opens + 1
  /\ cfg' \in Configs /\ cal' \in Calibrations
  /\ result' = "none"
  /\ UNCHANGED <<regVars, usbVars, at>>

\* selectDevice finds no dongle, or OpenFile fails.
SelectFails ==
  /\ pc = "select" /\ EndsCall /\ result' = "err"
  /\ UNCHANGED <<chipVars, usbVars, opens>>

OpensNode ==
  /\ Goto("select", "claim") /\ fd' = TRUE
  /\ UNCHANGED <<regVars, driver, claimed, callVars, at, result>>

\* disconnectKernelAndClaim: one ioctl evicts the driver and claims.
Claims ==
  /\ Goto("claim", "configure")
  /\ driver' = FALSE /\ claimed' = TRUE
  /\ UNCHANGED <<regVars, fd, callVars, at, result>>

\* errKernelDetachUnsupported: claimInterface is tried, ...
ClaimUnsupported ==
  /\ Goto("claim", "legacyClaim")
  /\ UNCHANGED <<regVars, usbVars, callVars, at, result>>

\* ... which does not evict anyone.
LegacyClaims ==
  /\ Goto("legacyClaim", "configure")
  /\ ~driver /\ claimed' = TRUE
  /\ UNCHANGED <<regVars, driver, fd, callVars, at, result>>

ClaimFails ==
  /\ pc \in {"claim", "legacyClaim"} /\ pc' = "unclaimed"
  /\ UNCHANGED <<regVars, usbVars, callVars, at, result>>

\* Seeded bug: claimUSBDevice returns the claim's error without closing.
KeepsUnclaimed ==
  /\ pc = "unclaimed" /\ EndsCall /\ result' = "err"
  /\ UNCHANGED <<chipVars, usbVars, opens>>

ClosesUnclaimed ==
  /\ pc = "unclaimed" /\ EndsCall /\ fd' = FALSE /\ result' = "err"
  /\ UNCHANGED <<chipVars, driver, claimed, opens>>

\* One operation of configureChipAndTuner.
Configures ==
  /\ pc = "configure" /\ at \in DOMAIN Ops /\ Ops[at].ok
  /\ Reaches(Ops[at], DOMAIN Ops[at].set) /\ Stores(Ops[at])
  /\ at' = at + 1
  /\ UNCHANGED <<usbVars, callVars, pc, result>>

\* An operation returns an error; the shadow is not read again.
ConfigureFails ==
  /\ pc = "configure" /\ at \in DOMAIN Ops
  /\ \E R \in Ops[at].parts : Reaches(Ops[at], R)
  /\ pc' = IF Ops[at].repeater THEN "shut" ELSE "release"
  /\ result' = "err"
  /\ UNCHANGED <<shadow, usbVars, callVars, at>>

\* The deferred disableI2CRepeater; its own error, too, is dropped.
ShutsRepeater ==
  /\ Goto("shut", "release")
  /\ \E open \in BOOLEAN :
       chip' = [chip EXCEPT ![SoftReset] = IF open THEN @ ELSE Idle]
  /\ UNCHANGED <<tuner, shadow, unsynced, usbVars, callVars, at, result>>

Configured ==
  /\ Goto("configure", "opened") /\ at \notin DOMAIN Ops
  /\ result' = "ok"
  /\ UNCHANGED <<regVars, usbVars, callVars, at>>
----------------------------------------------------------------------------
(* Close, of a Receiver or of a failed Open, without a stream.             *)

UserCloses ==
  /\ Goto("opened", "release")
  /\ UNCHANGED <<regVars, usbVars, callVars, at, result>>

\* Whether or not RELEASEINTERFACE succeeds ...
Releases ==
  /\ Goto("release", "closeFd") /\ claimed' \in {FALSE, claimed}
  /\ UNCHANGED <<regVars, driver, fd, callVars, at, result>>

\* ... the descriptor is closed, and with it the claim.
ClosesFd ==
  /\ pc = "closeFd" /\ EndsCall /\ fd' = FALSE /\ claimed' = FALSE
  /\ UNCHANGED <<chipVars, driver, opens, result>>

\* The process is killed, in the middle of an operation or elsewhere.
Killed ==
  /\ pc # "idle" /\ EndsCall
  /\ IF pc = "configure" /\ at \in DOMAIN Ops
     THEN \E R \in Ops[at].parts : Reaches(Ops[at], R)
     ELSE UNCHANGED chipVars
  /\ fd' = FALSE /\ claimed' = FALSE /\ result' = "none"
  /\ UNCHANGED <<driver, opens>>

\* The dongle is unplugged and plugged in again; the DVB driver may bind to it.
Replugged ==
  /\ pc = "idle" /\ opens' = 0
  /\ chip' = ChipPowerOn /\ tuner' = TunerPowerOn
  /\ unsynced' = [chip |-> {}, tuner |-> {}]
  /\ driver' \in BOOLEAN
  /\ UNCHANGED <<shadow, fd, claimed, pc, cfg, cal, at, result>>

Next ==
  \/ Replugged \/ Open \/ SelectFails \/ OpensNode
  \/ Claims \/ ClaimUnsupported \/ LegacyClaims \/ ClaimFails \/ ClosesUnclaimed
  \/ Configures \/ ConfigureFails \/ ShutsRepeater \/ Configured
  \/ UserCloses \/ Releases \/ ClosesFd \/ Killed

Spec == Init /\ [][Next]_vars
----------------------------------------------------------------------------
(* Safety.                                                                 *)

\* When Open has failed, or Close has returned, neither the descriptor nor the
\* claim is left, and nothing is configured without the claim
\* (usbfs_linux.go:266 and 163).
NothingHeld ==
  /\ pc = "idle" => ~fd /\ ~claimed
  /\ pc \in {"configure", "shut", "opened"} => fd /\ claimed /\ ~driver

\* No write of an Open was dropped by a closed repeater, whatever an earlier,
\* failed or killed Open left in it: what Open has written it can read back from
\* the shadow (tuner_r860.go:175).
TunerHeardAll ==
  pc = "opened" =>
    \A i \in DOMAIN Ops : Ops[i].unit = "tuner" =>
      \A r \in DOMAIN Ops[i].set : tuner[r] = shadow[r]

\* When Open returns, a soft reset has followed every other write
\* (init_chip.go:370: the FIFO needs a resync after a change of PLL or rate),
\* and the repeater is closed.
SyncedLast ==
  pc = "opened" =>
    /\ unsynced.chip = {} /\ unsynced.tuner = {}
    /\ chip[SoftReset] \cap {ResetBit, RepeaterBit} = {}
=============================================================================
