--------------------------- MODULE OpenFlowProofs ---------------------------
(***************************************************************************)
(* TypeOK, NothingHeld and TunerHeardAll for every script, and SyncedLast  *)
(* for every script that ends in a reset: whatever the options write,      *)
(* wherever they fail, whatever the registers held before.                 *)
(*                                                                         *)
(* Then the scripts of BringUp, for every option and fine tune: each is    *)
(* joined from Pieces, which are well formed and touch the tuner only with *)
(* the bridge open, and LeavesBit follows who assigns a bit last.  That    *)
(* the last assignment stands (LastStands) makes of it what the dongle     *)
(* holds when Open returns: SyncedLast and Streaming without hypothesis.   *)
(*                                                                         *)
(* At last the registers read as numbers: Leaves says which value a script *)
(* leaves in a field, FieldsRead what the field then is, and arithmetic    *)
(* that these are the rate, options and frequency asked for (AsAsked,      *)
(* OneIF).                                                                 *)
(***************************************************************************)
EXTENDS OpenedRadio, SequenceTheorems, FiniteSetTheorems, TLAPS

\* Who holds what, at every place of Open and Close.
HeldInv ==
  /\ pc \in {"idle", "select", "claim", "legacyClaim", "unclaimed", "configure",
             "shut", "opened", "release", "closeFd"}
  /\ pc \in {"idle", "select", "claim", "legacyClaim", "unclaimed"} => ~claimed
  /\ pc \in {"idle", "select"} <=> ~fd
  /\ pc \in {"configure", "shut", "opened"} => claimed /\ ~driver
  /\ fd \in BOOLEAN /\ claimed \in BOOLEAN /\ driver \in BOOLEAN

LEMMA HeldInit == Init => HeldInv
BY DEF Init, HeldInv

\* Claiming, and every way out before it.
LEMMA ClaimingHolds ==
  ASSUME HeldInv,
         \/ Replugged \/ Open \/ SelectFails \/ OpensNode \/ Claims
         \/ ClaimUnsupported \/ LegacyClaims \/ ClaimFails \/ ClosesUnclaimed
  PROVE  HeldInv'
<1>1. CASE Replugged
  BY <1>1 DEF HeldInv, Replugged
<1>2. CASE Open
  BY <1>2 DEF HeldInv, Open, Goto, usbVars
<1>3. CASE SelectFails
  BY <1>3 DEF HeldInv, SelectFails, EndsCall, usbVars
<1>4. CASE OpensNode
  BY <1>4 DEF HeldInv, OpensNode, Goto
<1>5. CASE Claims
  BY <1>5 DEF HeldInv, Claims, Goto
<1>6. CASE ClaimUnsupported
  BY <1>6 DEF HeldInv, ClaimUnsupported, Goto, usbVars
<1>7. CASE LegacyClaims
  BY <1>7 DEF HeldInv, LegacyClaims, Goto
<1>8. CASE ClaimFails
  BY <1>8 DEF HeldInv, ClaimFails, usbVars
<1>9. CASE ClosesUnclaimed
  BY <1>9 DEF HeldInv, ClosesUnclaimed, EndsCall
<1>10. QED
  BY <1>1, <1>2, <1>3, <1>4, <1>5, <1>6, <1>7, <1>8, <1>9

\* Configuring, closing and being killed.
LEMMA ConfiguringHolds ==
  ASSUME HeldInv,
         \/ Configures \/ ConfigureFails \/ ShutsRepeater \/ Configured
         \/ UserCloses \/ Releases \/ ClosesFd \/ Killed
  PROVE  HeldInv'
<1>1. CASE Configures
  BY <1>1 DEF HeldInv, Configures, usbVars
<1>2. CASE ConfigureFails
  <2>1. pc = "configure" /\ pc' \in {"shut", "release"} /\ UNCHANGED usbVars
    BY <1>2 DEF ConfigureFails
  <2>2. QED
    BY <2>1 DEF HeldInv, usbVars
<1>3. CASE ShutsRepeater
  BY <1>3 DEF HeldInv, ShutsRepeater, Goto, usbVars
<1>4. CASE Configured
  BY <1>4 DEF HeldInv, Configured, Goto, usbVars
<1>5. CASE UserCloses
  BY <1>5 DEF HeldInv, UserCloses, Goto, usbVars
<1>6. CASE Releases
  BY <1>6 DEF HeldInv, Releases, Goto
<1>7. CASE ClosesFd
  BY <1>7 DEF HeldInv, ClosesFd, EndsCall
<1>8. CASE Killed
  <2>1. pc' = "idle" /\ fd' = FALSE /\ claimed' = FALSE /\ UNCHANGED driver
    BY <1>8 DEF Killed, EndsCall
  <2>2. QED
    BY <2>1 DEF HeldInv
<1>9. QED
  BY <1>1, <1>2, <1>3, <1>4, <1>5, <1>6, <1>7, <1>8

LEMMA HeldStep == HeldInv /\ [Next]_vars => HeldInv'
<1> SUFFICES ASSUME HeldInv, [Next]_vars
             PROVE  HeldInv'
  OBVIOUS
<1>1. CASE UNCHANGED vars
  BY <1>1 DEF HeldInv, vars, usbVars
<1>2. CASE Next
  BY <1>2, ClaimingHolds, ConfiguringHolds DEF Next
<1>3. QED
  BY <1>1, <1>2

\* Whatever an Open is asked for, whichever of its operations fails or is
\* interrupted: descriptor and claim are given back, and configuring happens
\* only under the claim (usbfs_linux.go:163 and 266).
THEOREM NothingStaysHeld == Spec => []NothingHeld
<1>1. HeldInv => NothingHeld
  BY DEF HeldInv, NothingHeld
<1>2. QED
  BY <1>1, HeldInit, HeldStep, PTL DEF Spec
----------------------------------------------------------------------------
(* Types.                                                                  *)

LEMMA OpTypes ==
  ASSUME cfg \in Configs, cal \in Calibrations, NEW i \in DOMAIN Ops
  PROVE  IsOp(Ops[i])
BY OpenAssumption DEF Ops, Scripts

LEMMA MergedTyped ==
  ASSUME NEW old \in SUBSET Bits, NEW w, w.mask \subseteq Bits, w.val \subseteq Bits
  PROVE  Merged(old, w) \in SUBSET Bits
BY DEF Merged

\* An operation of the script that reaches a part of its registers.
LEMMA ReachesTyped ==
  ASSUME TypeOK, NEW op, IsOp(op), NEW R \in SUBSET DOMAIN op.set, Reaches(op, R)
  PROVE  /\ chip' \in [ChipRegs -> SUBSET Bits]
         /\ tuner' \in [TunerRegs -> SUBSET Bits]
         /\ unsynced' \in [chip : SUBSET ChipRegs, tuner : SUBSET TunerRegs]
<1>1. \A r \in R : op.set[r].mask \subseteq Bits /\ op.set[r].val \subseteq Bits
  BY DEF IsOp
<1>2. CASE op.unit = "chip"
  <2>1. chip' = Written(chip, chip, op, R) /\ tuner' = tuner
    BY <1>2 DEF Reaches
  <2>2. R \subseteq ChipRegs
    BY <1>2 DEF IsOp
  <2>3. chip' \in [ChipRegs -> SUBSET Bits]
    BY <2>1, <1>1, MergedTyped DEF Written, TypeOK
  <2>4. unsynced' \in [chip : SUBSET ChipRegs, tuner : SUBSET TunerRegs]
    BY <1>2, <2>2 DEF Reaches, TypeOK
  <2>5. QED
    BY <2>1, <2>3, <2>4 DEF TypeOK
<1>3. CASE op.unit = "tuner"
  <2>1. chip' = chip
    BY <1>3 DEF Reaches
  <2>2. R \subseteq TunerRegs
    BY <1>3 DEF IsOp
  <2>3. Written(tuner, shadow, op, R) \in [TunerRegs -> SUBSET Bits]
    BY <1>1, <2>2, MergedTyped DEF Written, TypeOK
  <2>4. tuner' \in [TunerRegs -> SUBSET Bits]
    BY <1>3, <2>3 DEF Reaches, TypeOK
  <2>5. unsynced' \in [chip : SUBSET ChipRegs, tuner : SUBSET TunerRegs]
    BY <1>3, <2>2 DEF Reaches, Pulses, TypeOK
  <2>6. QED
    BY <2>1, <2>4, <2>5 DEF TypeOK
<1>4. QED
  BY <1>2, <1>3 DEF IsOp

LEMMA StoresTyped ==
  ASSUME TypeOK, NEW op, IsOp(op), Stores(op)
  PROVE  shadow' \in [TunerRegs -> SUBSET Bits]
<1>1. CASE op.unit = "tuner"
  <2>1. \A r \in DOMAIN op.set : op.set[r].mask \subseteq Bits /\ op.set[r].val \subseteq Bits
    BY DEF IsOp
  <2>2. QED
    BY <1>1, <2>1, MergedTyped DEF Stores, Written, TypeOK
<1>2. CASE op.unit # "tuner"
  BY <1>2 DEF Stores, TypeOK
<1>3. QED
  BY <1>1, <1>2

\* What is left of a call after it.
LEMMA NoCallTyped ==
  /\ (CHOOSE x \in Configs : TRUE) \in Configs
  /\ (CHOOSE x \in Calibrations : TRUE) \in Calibrations
  /\ ZeroShadow \in [TunerRegs -> SUBSET Bits]
BY OpenAssumption DEF ZeroShadow

LEMMA TypeInit == Init => TypeOK
<1> SUFFICES ASSUME Init
             PROVE  TypeOK
  OBVIOUS
<1>1. cfg \in Configs /\ cal \in Calibrations /\ shadow \in [TunerRegs -> SUBSET Bits] /\ at = 1
  BY NoCallTyped DEF Init, NoCall
<1>2. chip \in [ChipRegs -> SUBSET Bits] /\ tuner \in [TunerRegs -> SUBSET Bits] /\ opens \in 0..MaxOpens
  BY OpenAssumption DEF Init
<1>3. unsynced \in [chip : SUBSET ChipRegs, tuner : SUBSET TunerRegs]
  BY DEF Init
<1>4. QED
  BY <1>1, <1>2, <1>3 DEF Init, TypeOK

LEMMA TypeStep == TypeOK /\ [Next]_vars => TypeOK'
<1> SUFFICES ASSUME TypeOK, [Next]_vars
             PROVE  TypeOK'
  OBVIOUS
<1>1. CASE UNCHANGED vars
  BY <1>1 DEF TypeOK, vars, regVars, chipVars, usbVars, callVars
<1>2. CASE Replugged
  BY <1>2, OpenAssumption DEF TypeOK, Replugged
<1>3. CASE Open
  BY <1>3, OpenAssumption DEF TypeOK, Open, Goto, regVars, chipVars, usbVars
<1>4. CASE SelectFails \/ ClosesUnclaimed \/ ClosesFd
  <2>1. NoCall(cfg', cal', shadow', at') /\ pc' = "idle" /\ UNCHANGED <<chipVars, opens>>
    BY <1>4 DEF SelectFails, ClosesUnclaimed, ClosesFd, EndsCall
  <2>2. driver' = driver /\ fd' \in BOOLEAN /\ claimed' \in BOOLEAN
        /\ result' \in {"none", "ok", "err"}
    BY <1>4 DEF SelectFails, ClosesUnclaimed, ClosesFd, usbVars, TypeOK
  <2>3. QED
    BY <2>1, <2>2, NoCallTyped DEF TypeOK, NoCall, chipVars
<1>5. CASE OpensNode \/ Claims \/ ClaimUnsupported \/ LegacyClaims \/ ClaimFails
  BY <1>5 DEF TypeOK, OpensNode, Claims, ClaimUnsupported, LegacyClaims, ClaimFails, Goto,
              regVars, chipVars, usbVars, callVars
<1>6. CASE Configures
  <2>1. at \in DOMAIN Ops /\ IsOp(Ops[at])
    BY <1>6, OpTypes DEF Configures, TypeOK
  <2>2. Reaches(Ops[at], DOMAIN Ops[at].set) /\ Stores(Ops[at])
    BY <1>6 DEF Configures
  <2>3. /\ chip' \in [ChipRegs -> SUBSET Bits] /\ tuner' \in [TunerRegs -> SUBSET Bits]
        /\ unsynced' \in [chip : SUBSET ChipRegs, tuner : SUBSET TunerRegs]
        /\ shadow' \in [TunerRegs -> SUBSET Bits]
    BY <2>1, <2>2, ReachesTyped, StoresTyped
  <2>4. at' = at + 1 /\ UNCHANGED <<driver, fd, claimed, cfg, cal, opens, pc, result>>
    BY <1>6 DEF Configures, usbVars, callVars
  <2>5. QED
    BY <2>3, <2>4 DEF TypeOK
<1>7. CASE ConfigureFails
  <2>1. at \in DOMAIN Ops /\ IsOp(Ops[at])
    BY <1>7, OpTypes DEF ConfigureFails, TypeOK
  <2>2. PICK R \in Ops[at].parts : Reaches(Ops[at], R)
    BY <1>7 DEF ConfigureFails
  <2>3. R \in SUBSET DOMAIN Ops[at].set
    BY <2>1 DEF IsOp
  <2>4. /\ chip' \in [ChipRegs -> SUBSET Bits] /\ tuner' \in [TunerRegs -> SUBSET Bits]
        /\ unsynced' \in [chip : SUBSET ChipRegs, tuner : SUBSET TunerRegs]
    BY <2>1, <2>2, <2>3, ReachesTyped
  <2>5. pc' \in {"shut", "release"} /\ result' = "err"
        /\ UNCHANGED <<shadow, driver, fd, claimed, cfg, cal, opens, at>>
    BY <1>7 DEF ConfigureFails, usbVars, callVars
  <2>6. QED
    BY <2>4, <2>5 DEF TypeOK
<1>8. CASE ShutsRepeater
  <2>1. chip' \in [ChipRegs -> SUBSET Bits]
    BY <1>8, OpenAssumption DEF ShutsRepeater, TypeOK
  <2>2. QED
    BY <1>8, <2>1 DEF TypeOK, ShutsRepeater, Goto, usbVars, callVars
<1>9. CASE Configured \/ UserCloses \/ Releases
  BY <1>9 DEF TypeOK, Configured, UserCloses, Releases, Goto,
              regVars, chipVars, usbVars, callVars
<1>10. CASE Killed
  <2>1. NoCall(cfg', cal', shadow', at') /\ pc' = "idle" /\ result' = "none"
        /\ fd' = FALSE /\ claimed' = FALSE /\ UNCHANGED <<driver, opens>>
    BY <1>10 DEF Killed, EndsCall
  <2>2. /\ chip' \in [ChipRegs -> SUBSET Bits] /\ tuner' \in [TunerRegs -> SUBSET Bits]
        /\ unsynced' \in [chip : SUBSET ChipRegs, tuner : SUBSET TunerRegs]
    <3>1. CASE pc = "configure" /\ at \in DOMAIN Ops
      <4>1. IsOp(Ops[at])
        BY <3>1, OpTypes DEF TypeOK
      <4>2. PICK R \in Ops[at].parts : Reaches(Ops[at], R)
        BY <1>10, <3>1 DEF Killed
      <4>3. R \in SUBSET DOMAIN Ops[at].set
        BY <4>1 DEF IsOp
      <4>4. QED
        BY <4>1, <4>2, <4>3, ReachesTyped
    <3>2. CASE ~(pc = "configure" /\ at \in DOMAIN Ops)
      BY <1>10, <3>2 DEF Killed, chipVars, TypeOK
    <3>3. QED
      BY <3>1, <3>2
  <2>3. QED
    BY <2>1, <2>2, NoCallTyped DEF TypeOK, NoCall
<1>11. QED
  BY <1>1, <1>2, <1>3, <1>4, <1>5, <1>6, <1>7, <1>8, <1>9, <1>10 DEF Next

\* Type correctness: registers only ever hold bits they have, whatever part of
\* which operation reached them.
THEOREM TypeCorrect == Spec => []TypeOK
BY TypeInit, TypeStep, PTL DEF Spec
----------------------------------------------------------------------------
(* What an Open has written the tuner has heard.                           *)

\* The tuner agrees with the shadow wherever this Open has written, and the
\* bridge is open wherever the script is inside a bracket.
HeardInv ==
  /\ pc \in {"idle", "select", "claim", "legacyClaim", "unclaimed"} => at = 1
  /\ pc \in {"configure", "opened"} =>
       \A i \in DOMAIN Ops : i < at /\ Ops[i].unit = "tuner" =>
         \A r \in DOMAIN Ops[i].set : tuner[r] = shadow[r]
  /\ pc = "configure" /\ Bracketed(Ops, at) => RepeaterBit \in chip[SoftReset]
  /\ pc = "configure" => at \in 1..(Len(Ops) + 1)
  /\ pc = "opened" => at = Len(Ops) + 1

LEMMA OpsFacts ==
  ASSUME TypeOK
  PROVE  /\ Len(Ops) \in Nat /\ DOMAIN Ops = 1..Len(Ops)
         /\ \A i \in DOMAIN Ops : IsOp(Ops[i])
         /\ \A i \in DOMAIN Ops : Ops[i].unit = "tuner" => Bracketed(Ops, i)
BY OpenAssumption, BracketAssumption DEF TypeOK, Ops, Scripts

LEMMA NotBracketedYet == ~Bracketed(Ops, 1)
BY DEF Bracketed

\* The bracket one operation further.
LEMMA BracketGrows ==
  ASSUME TypeOK, at \in DOMAIN Ops, Bracketed(Ops, at + 1)
  PROVE  OpensBridge(Ops[at]) \/ (Ops[at].unit = "tuner" /\ Bracketed(Ops, at))
<1>1. PICK j \in 1..at : OpensBridge(Ops[j]) /\ \A l \in (j + 1)..at : Ops[l].unit = "tuner"
  BY OpsFacts DEF Bracketed
<1>2. CASE j = at
  BY <1>1, <1>2
<1>3. CASE j # at
  <2>1. j \in 1..(at - 1) /\ at \in (j + 1)..at /\ at \in Nat
    BY <1>1, <1>3, OpsFacts
  <2>2. \A l \in (j + 1)..(at - 1) : Ops[l].unit = "tuner"
    BY <1>1, <2>1
  <2>3. QED
    BY <1>1, <2>1, <2>2 DEF Bracketed
<1>4. QED
  BY <1>2, <1>3

LEMMA ConfiguresHeard ==
  ASSUME TypeOK, HeardInv, Configures
  PROVE  HeardInv'
<1> DEFINE op == Ops[at]
<1>1. /\ pc = "configure" /\ pc' = "configure" /\ at \in DOMAIN Ops /\ at' = at + 1
      /\ Reaches(op, DOMAIN op.set) /\ Stores(op) /\ Ops' = Ops
  BY DEF Configures, callVars, Ops
<1>2. /\ IsOp(op) /\ Len(Ops) \in Nat /\ at \in 1..Len(Ops) /\ DOMAIN Ops = 1..Len(Ops)
      /\ \A i \in DOMAIN Ops : IsOp(Ops[i])
  BY <1>1, OpsFacts
<1>3. at' \in 1..(Len(Ops') + 1)
  BY <1>1, <1>2
<1>4. CASE op.unit = "tuner"
  <2>1. RepeaterBit \in chip[SoftReset]
    BY <1>1, <1>4, OpsFacts DEF HeardInv
  <2>2. /\ tuner' = Written(tuner, shadow, op, DOMAIN op.set) /\ chip' = chip
        /\ shadow' = Written(shadow, shadow, op, DOMAIN op.set)
    BY <1>1, <1>4, <2>1 DEF Reaches, Stores
  <2>3. ASSUME NEW i \in DOMAIN Ops, i < at + 1, Ops[i].unit = "tuner",
               NEW r \in DOMAIN Ops[i].set
        PROVE  tuner'[r] = shadow'[r]
    <3>1. r \in TunerRegs
      BY <1>2, <2>3 DEF IsOp
    <3>2. r \in DOMAIN tuner /\ r \in DOMAIN shadow
      BY <3>1 DEF TypeOK
    <3>3. CASE r \in DOMAIN op.set
      BY <2>2, <3>2, <3>3 DEF Written
    <3>4. CASE r \notin DOMAIN op.set
      <4>1. i < at
        BY <1>2, <2>3, <3>4
      <4>2. tuner[r] = shadow[r]
        BY <1>1, <2>3, <4>1 DEF HeardInv
      <4>3. QED
        BY <2>2, <3>2, <3>4, <4>2 DEF Written
    <3>5. QED
      BY <3>3, <3>4
  <2>4. Bracketed(Ops, at + 1) => RepeaterBit \in chip'[SoftReset]
    BY <2>1, <2>2
  <2>5. QED
    BY <1>1, <1>3, <2>3, <2>4 DEF HeardInv
<1>5. CASE op.unit = "chip"
  <2>1. chip' = Written(chip, chip, op, DOMAIN op.set) /\ tuner' = tuner /\ shadow' = shadow
    BY <1>1, <1>5 DEF Reaches, Stores
  <2>2. ASSUME NEW i \in DOMAIN Ops, i < at + 1, Ops[i].unit = "tuner",
               NEW r \in DOMAIN Ops[i].set
        PROVE  tuner'[r] = shadow'[r]
    <3>1. i < at
      BY <1>2, <1>5, <2>2
    <3>2. QED
      BY <1>1, <2>1, <2>2, <3>1 DEF HeardInv
  <2>3. ASSUME Bracketed(Ops, at + 1)
        PROVE  RepeaterBit \in chip'[SoftReset]
    <3>1. OpensBridge(op)
      BY <1>1, <1>5, <2>3, BracketGrows
    <3>2. SoftReset \in DOMAIN chip
      BY OpenAssumption DEF TypeOK
    <3>3. QED
      BY <2>1, <3>1, <3>2 DEF OpensBridge, Written, Merged
  <2>4. QED
    BY <1>1, <1>3, <2>2, <2>3 DEF HeardInv
<1>6. QED
  BY <1>2, <1>4, <1>5 DEF IsOp

LEMMA HeardInit == Init => HeardInv
BY DEF Init, HeardInv, NoCall

LEMMA HeardStep == TypeOK /\ HeardInv /\ [Next]_vars => HeardInv'
<1> SUFFICES ASSUME TypeOK, HeardInv, [Next]_vars
             PROVE  HeardInv'
  OBVIOUS
<1>1. CASE UNCHANGED vars
  BY <1>1 DEF HeardInv, vars, regVars, chipVars, usbVars, callVars, Ops
<1>2. CASE Replugged
  BY <1>2 DEF HeardInv, Replugged
<1>3. CASE Open \/ OpensNode \/ ClaimUnsupported \/ ClaimFails
  BY <1>3 DEF HeardInv, Open, OpensNode, ClaimUnsupported, ClaimFails, Goto, callVars
<1>4. CASE Claims \/ LegacyClaims
  <2>1. at = 1 /\ at' = 1 /\ pc' = "configure" /\ Ops' = Ops
    BY <1>4 DEF HeardInv, Claims, LegacyClaims, Goto, callVars, Ops
  <2>2. \A i \in DOMAIN Ops : ~(i < 1)
    BY OpsFacts
  <2>3. 1 \in 1..(Len(Ops) + 1)
    BY OpsFacts
  <2>4. QED
    BY <2>1, <2>2, <2>3, NotBracketedYet DEF HeardInv
<1>5. CASE SelectFails \/ ClosesUnclaimed \/ ClosesFd \/ Killed
  <2>1. pc' = "idle" /\ at' = 1
    BY <1>5 DEF SelectFails, ClosesUnclaimed, ClosesFd, Killed, EndsCall, NoCall
  <2>2. QED
    BY <2>1 DEF HeardInv
<1>6. CASE Configures
  BY <1>6, ConfiguresHeard
<1>7. CASE ConfigureFails \/ ShutsRepeater \/ UserCloses \/ Releases
  <2>1. pc' \in {"shut", "release", "closeFd"}
    BY <1>7 DEF ConfigureFails, ShutsRepeater, UserCloses, Releases, Goto
  <2>2. QED
    BY <2>1 DEF HeardInv
<1>8. CASE Configured
  <2>1. /\ pc = "configure" /\ pc' = "opened" /\ at \notin DOMAIN Ops
        /\ at' = at /\ Ops' = Ops /\ tuner' = tuner /\ shadow' = shadow
    BY <1>8 DEF Configured, Goto, regVars, chipVars, callVars, Ops
  <2>2. at = Len(Ops) + 1
    BY <2>1, OpsFacts DEF HeardInv
  <2>3. QED
    BY <2>1, <2>2 DEF HeardInv
<1>9. QED
  BY <1>1, <1>2, <1>3, <1>4, <1>5, <1>6, <1>7, <1>8 DEF Next

\* Whatever register contents and bridge state earlier Opens left, and whichever
\* script is run, as long as it brackets its tuner operations: a successful Open
\* has lost no tuner write (i2c.go:46, where a closed bridge drops them silently).
THEOREM TunerHears == Spec => []TunerHeardAll
<1>1. TypeOK /\ HeardInv => TunerHeardAll
  <2> SUFFICES ASSUME TypeOK, HeardInv, pc = "opened", NEW i \in DOMAIN Ops,
                      Ops[i].unit = "tuner", NEW r \in DOMAIN Ops[i].set
               PROVE  tuner[r] = shadow[r]
    BY DEF TunerHeardAll
  <2>1. i < at
    BY OpsFacts DEF HeardInv
  <2>2. QED
    BY <2>1 DEF HeardInv
<1>2. QED
  BY <1>1, TypeInit, TypeStep, HeardInit, HeardStep, PTL DEF Spec
----------------------------------------------------------------------------
(* The reset comes last.                                                   *)

\* The last two operations set the reset bit and release it, as
\* ResetSampleBuffer does, and with the last one the bridge is shut.
EndsInReset(ops) ==
  LET n == Len(ops)
  IN /\ n >= 2
     /\ ops[n - 1].unit = "chip" /\ SoftReset \in DOMAIN ops[n - 1].set
     /\ ResetBit \in ops[n - 1].set[SoftReset].mask \cap ops[n - 1].set[SoftReset].val
     /\ ops[n].unit = "chip" /\ DOMAIN ops[n].set = {SoftReset}
     /\ {ResetBit, RepeaterBit} \subseteq ops[n].set[SoftReset].mask
     /\ {ResetBit, RepeaterBit} \cap ops[n].set[SoftReset].val = {}

Synced ==
  /\ unsynced = [chip |-> {}, tuner |-> {}]
  /\ chip[SoftReset] \cap {ResetBit, RepeaterBit} = {}

\* Before the last operation the reset bit is set; after it nothing is left to do.
SyncInv ==
  /\ pc = "configure" /\ at = Len(Ops) => ResetBit \in chip[SoftReset]
  /\ pc \in {"configure", "opened"} /\ at = Len(Ops) + 1 => Synced

LEMMA OpsEndInReset ==
  ASSUME TypeOK, \A k \in DOMAIN Script : EndsInReset(Script[k])
  PROVE  EndsInReset(Ops)
BY OpenAssumption DEF TypeOK, Ops, Scripts

LEMMA ConfiguresSync ==
  ASSUME TypeOK, SyncInv, EndsInReset(Ops), Configures
  PROVE  SyncInv'
<1> DEFINE op == Ops[at]
           n == Len(Ops)
<1>1. /\ pc = "configure" /\ at \in DOMAIN Ops /\ at' = at + 1
      /\ Reaches(op, DOMAIN op.set) /\ Ops' = Ops
  BY DEF Configures, callVars, Ops
<1>2. n \in Nat /\ at \in 1..n /\ n >= 2
  BY <1>1, OpsFacts DEF EndsInReset
<1>3. SoftReset \in DOMAIN chip
  BY OpenAssumption DEF TypeOK
<1>4. CASE at = n
  <2>1. ResetBit \in chip[SoftReset]
    BY <1>1, <1>4 DEF SyncInv
  <2>2. /\ op.unit = "chip" /\ DOMAIN op.set = {SoftReset}
        /\ {ResetBit, RepeaterBit} \subseteq op.set[SoftReset].mask
        /\ {ResetBit, RepeaterBit} \cap op.set[SoftReset].val = {}
    BY <1>4 DEF EndsInReset
  <2>3. Merged(chip[SoftReset], op.set[SoftReset]) \cap {ResetBit, RepeaterBit} = {}
    BY <2>2 DEF Merged
  <2>4. chip'[SoftReset] = Merged(chip[SoftReset], op.set[SoftReset])
    BY <1>1, <1>3, <2>2 DEF Reaches, Written
  <2>5. Pulses(op, DOMAIN op.set)
    BY <2>1, <2>2, <2>3 DEF Pulses
  <2>6. unsynced' = [chip |-> {}, tuner |-> {}]
    BY <1>1, <2>2, <2>5 DEF Reaches
  <2>7. Synced'
    BY <2>3, <2>4, <2>6 DEF Synced
  <2>8. at' # Len(Ops')
    BY <1>1, <1>2, <1>4
  <2> QED  BY <2>7, <2>8 DEF SyncInv
<1>5. CASE at = n - 1
  <2>1. /\ op.unit = "chip" /\ SoftReset \in DOMAIN op.set
        /\ ResetBit \in op.set[SoftReset].mask \cap op.set[SoftReset].val
    BY <1>5 DEF EndsInReset
  <2>2. chip'[SoftReset] = Merged(chip[SoftReset], op.set[SoftReset])
    BY <1>1, <1>3, <2>1 DEF Reaches, Written
  <2>3. ResetBit \in chip'[SoftReset]
    BY <2>1, <2>2 DEF Merged
  <2>4. at' # Len(Ops') + 1
    BY <1>1, <1>2, <1>5
  <2> QED  BY <2>3, <2>4 DEF SyncInv
<1>6. CASE at # n /\ at # n - 1
  <2>1. at' # Len(Ops') /\ at' # Len(Ops') + 1
    BY <1>1, <1>2, <1>6
  <2> QED  BY <2>1 DEF SyncInv
<1> QED
  BY <1>4, <1>5, <1>6

LEMMA SyncInit == Init => SyncInv
BY DEF Init, SyncInv

LEMMA SyncStep ==
  ASSUME \A k \in DOMAIN Script : EndsInReset(Script[k])
  PROVE  TypeOK /\ HeardInv /\ SyncInv /\ [Next]_vars => SyncInv'
<1> SUFFICES ASSUME TypeOK, HeardInv, SyncInv, [Next]_vars
             PROVE  SyncInv'
  OBVIOUS
<1>1. CASE UNCHANGED vars
  BY <1>1 DEF SyncInv, Synced, vars, regVars, chipVars, usbVars, callVars, Ops
<1>2. CASE Configures
  BY <1>2, OpsEndInReset, ConfiguresSync
<1>3. CASE Configured
  BY <1>3 DEF SyncInv, Synced, Configured, Goto, regVars, chipVars, callVars, Ops
<1>4. CASE Claims \/ LegacyClaims
  <2>1. at' = 1 /\ Ops' = Ops
    BY <1>4 DEF HeardInv, Claims, LegacyClaims, Goto, callVars, Ops
  <2>2. Len(Ops) \in Nat /\ Len(Ops) >= 2
    BY OpsFacts, OpsEndInReset DEF EndsInReset
  <2> QED  BY <2>1, <2>2 DEF SyncInv
<1>5. CASE \/ Replugged \/ Open \/ SelectFails \/ OpensNode \/ ClaimUnsupported \/ ClaimFails
           \/ ClosesUnclaimed \/ ConfigureFails \/ ShutsRepeater \/ UserCloses \/ Releases
           \/ ClosesFd \/ Killed
  <2>1. pc' \notin {"configure", "opened"}
    BY <1>5 DEF Replugged, Open, SelectFails, OpensNode, ClaimUnsupported, ClaimFails, ClosesUnclaimed,
                ConfigureFails, ShutsRepeater, UserCloses, Releases, ClosesFd, Killed, Goto, EndsCall
  <2> QED  BY <2>1 DEF SyncInv
<1> QED
  BY <1>1, <1>2, <1>3, <1>4, <1>5 DEF Next

\* If the script ends in the reset pulse, a successful Open leaves nothing that was
\* written and not followed by a reset (init_chip.go:370), and the bridge shut,
\* whatever the chip's reset bit and repeater were before.
THEOREM ResetComesLast ==
  ASSUME \A k \in DOMAIN Script : EndsInReset(Script[k])
  PROVE  Spec => []SyncedLast
<1>1. HeardInv /\ SyncInv => SyncedLast
  BY DEF HeardInv, SyncInv, Synced, SyncedLast
<1>2. TypeOK /\ HeardInv /\ SyncInv /\ [Next]_vars => SyncInv'
  BY SyncStep
<1> QED
  BY <1>1, <1>2, TypeInit, TypeStep, HeardInit, HeardStep, SyncInit, PTL DEF Spec
----------------------------------------------------------------------------
(* BringUp: the real scripts, bit by bit.                                  *)

\* The weight of a bit, kept folded: the provers know 2^3 but not 2^b.
Weight(b) == 2^b

LEMMA Weights ==
  /\ Weight(0) = 1 /\ Weight(1) = 2 /\ Weight(2) = 4 /\ Weight(3) = 8 /\ Weight(4) = 16
  /\ Weight(5) = 32 /\ Weight(6) = 64 /\ Weight(7) = 128 /\ Weight(8) = 256 /\ Weight(9) = 512
  /\ Weight(10) = 1024 /\ Weight(11) = 2048 /\ Weight(12) = 4096 /\ Weight(13) = 8192 /\ Weight(14) = 16384
  /\ Weight(15) = 32768
BY DEF Weight

LEMMA BitTable ==
  ASSUME NEW n \in Nat, NEW b \in 0..15
  PROVE  b \in BitsOf(n) <=>
           \/ (b = 0 /\ (n \div 1) % 2 = 1) \/ (b = 1 /\ (n \div 2) % 2 = 1)
           \/ (b = 2 /\ (n \div 4) % 2 = 1) \/ (b = 3 /\ (n \div 8) % 2 = 1)
           \/ (b = 4 /\ (n \div 16) % 2 = 1) \/ (b = 5 /\ (n \div 32) % 2 = 1)
           \/ (b = 6 /\ (n \div 64) % 2 = 1) \/ (b = 7 /\ (n \div 128) % 2 = 1)
           \/ (b = 8 /\ (n \div 256) % 2 = 1) \/ (b = 9 /\ (n \div 512) % 2 = 1)
           \/ (b = 10 /\ (n \div 1024) % 2 = 1) \/ (b = 11 /\ (n \div 2048) % 2 = 1)
           \/ (b = 12 /\ (n \div 4096) % 2 = 1) \/ (b = 13 /\ (n \div 8192) % 2 = 1)
           \/ (b = 14 /\ (n \div 16384) % 2 = 1) \/ (b = 15 /\ (n \div 32768) % 2 = 1)
<1>1. b \in BitsOf(n) <=> (n \div Weight(b)) % 2 = 1
  BY Zenon DEF BitsOf, Weight
<1>2. \/ (b = 0 /\ Weight(b) = 1) \/ (b = 1 /\ Weight(b) = 2) \/ (b = 2 /\ Weight(b) = 4)
      \/ (b = 3 /\ Weight(b) = 8) \/ (b = 4 /\ Weight(b) = 16) \/ (b = 5 /\ Weight(b) = 32)
      \/ (b = 6 /\ Weight(b) = 64) \/ (b = 7 /\ Weight(b) = 128) \/ (b = 8 /\ Weight(b) = 256)
      \/ (b = 9 /\ Weight(b) = 512) \/ (b = 10 /\ Weight(b) = 1024) \/ (b = 11 /\ Weight(b) = 2048)
      \/ (b = 12 /\ Weight(b) = 4096) \/ (b = 13 /\ Weight(b) = 8192) \/ (b = 14 /\ Weight(b) = 16384)
      \/ (b = 15 /\ Weight(b) = 32768)
  BY Weights
<1> QED
  BY <1>1, <1>2

LEMMA BitsOfBits == \A n : BitsOf(n) \subseteq 0..15
BY DEF BitsOf

LEMMA WholeWord == BitsOf(65535) = 0..15
<1>1. \A b \in 0..15 : b \in BitsOf(65535)
  BY BitTable
<1> QED
  BY <1>1, BitsOfBits

LEMMA NoBits == BitsOf(0) = {}
<1>1. \A b \in 0..15 : b \notin BitsOf(0)
  <2>1. \A m \in Nat : m > 0 => (0 \div m) % 2 = 0
    OBVIOUS
  <2> QED
    BY <2>1, BitTable
<1> QED
  BY <1>1, BitsOfBits

LEMMA OneBit == BitsOf(1) = {0} /\ BitsOf(16) = {4}
<1>1. \A b \in 0..15 : b \in BitsOf(1) <=> b = 0
  BY BitTable
<1>2. \A b \in 0..15 : b \in BitsOf(16) <=> b = 4
  BY BitTable
<1> QED
  BY <1>1, <1>2, BitsOfBits

LEMMA SomeBits ==
  /\ 2 \in BitsOf(20) /\ 3 \in BitsOf(24) /\ 0 \notin BitsOf(26)
  /\ 7 \notin BitsOf(77) /\ 7 \in BitsOf(128) /\ 7 \notin BitsOf(96)
  /\ 7 \notin BitsOf(16) /\ 7 \notin BitsOf(31)
BY BitTable

Bytes == [val : SUBSET Bits, mask : SUBSET Bits]
RegsOf(unit) == IF unit = "chip" THEN ChipRegs ELSE TunerRegs
AllRegs == ChipRegs \cup TunerRegs

\* The operations as a set, to speak of sequences of them.
Operation ==
  {op \in [unit : {"chip", "tuner"}, ok : BOOLEAN, repeater : BOOLEAN,
           set : UNION {[R -> Bytes] : R \in SUBSET AllRegs},
           parts : SUBSET SUBSET AllRegs] : IsOp(op)}

LEMMA BatchIsOp ==
  ASSUME NEW unit \in {"chip", "tuner"}, NEW n \in Nat, NEW rows, DOMAIN rows = 1..n,
         \A i \in 1..n : rows[i][1] \in RegsOf(unit)
  PROVE  Batch(unit, rows) \in Operation
<1> DEFINE op == Batch(unit, rows)
           R == {rows[i][1] : i \in 1..n}
<1>1. /\ op.unit = unit /\ op.ok = TRUE /\ op.repeater = (unit = "tuner")
      /\ DOMAIN op.set = R /\ R \subseteq RegsOf(unit) /\ R \subseteq AllRegs
  BY DEF Batch, RegsOf, AllRegs
<1>2. op.set \in [R -> Bytes]
  BY BitsOfBits, RadioAssumption DEF Batch, Bytes
<1>3. op.parts \subseteq SUBSET R
  BY DEF Batch
<1>4. op \in [unit : {"chip", "tuner"}, ok : BOOLEAN, repeater : BOOLEAN,
              set : UNION {[Q -> Bytes] : Q \in SUBSET AllRegs}, parts : SUBSET SUBSET AllRegs]
  <2>1. op = [unit |-> op.unit, ok |-> op.ok, repeater |-> op.repeater,
              set |-> op.set, parts |-> op.parts]
    BY DEF Batch
  <2> HIDE DEF op, R
  <2>2. op.set \in UNION {[Q -> Bytes] : Q \in SUBSET AllRegs}
    BY <1>1, <1>2
  <2> QED
    BY <1>1, <1>3, <2>1, <2>2
<1>5. IsOp(op)
  <2> HIDE DEF op, R
  <2> QED
    BY <1>1, <1>2, <1>3 DEF IsOp, RegsOf, Bytes
<1> QED
  BY <1>4, <1>5 DEF Operation

\* What a batch says of a register.
LEMMA BatchSays ==
  ASSUME NEW unit \in {"chip", "tuner"}, NEW rows, NEW r \in DOMAIN Batch(unit, rows).set
  PROVE  \E i \in DOMAIN rows :
           /\ rows[i][1] = r
           /\ Batch(unit, rows).set[r] = [val |-> BitsOf(rows[i][2]), mask |-> BitsOf(rows[i][3])]
<1>1. r \in {rows[i][1] : i \in DOMAIN rows}
  BY DEF Batch
<1>2. PICK i \in DOMAIN rows : i = CHOOSE j \in DOMAIN rows : rows[j][1] = r
  BY <1>1
<1>3. rows[i][1] = r
  BY <1>1, <1>2
<1>4. Batch(unit, rows).set[r] = [val |-> BitsOf(rows[i][2]), mask |-> BitsOf(rows[i][3])]
  BY <1>1, <1>2 DEF Batch
<1> QED
  BY <1>3, <1>4

\* The registers of the baseband that are set once, before the tuner is.
Settled == {"ZeroIF", "ADCInput", "SpectrumInv", "AGCLoop", "AGCEnable"}

\* What leaves them alone, and what leaves the tuner's loop-through alone, too.
LeavesSettled == {op \in Operation : op.unit = "chip" => DOMAIN op.set \cap Settled = {}}
Quiet ==
  {op \in LeavesSettled : op.unit = "tuner" /\ 5 \in DOMAIN op.set => 7 \notin op.set[5].mask}

LEMMA WritesQuiet ==
  ASSUME NEW n \in Nat, NEW rows, DOMAIN rows = 1..n,
         \A i \in 1..n : rows[i][1] \in BasebandRegs \ Settled
  PROVE  Writes(rows) \in Quiet
<1> DEFINE full == [i \in 1..n |-> <<rows[i][1], rows[i][2], 65535>>]
<1>1. Writes(rows) = Batch("chip", full)
  BY DEF Writes
<1>2. DOMAIN full = 1..n /\ \A i \in 1..n : full[i][1] = rows[i][1]
  OBVIOUS
<1> HIDE DEF full
<1>3. Batch("chip", full) \in Operation
  BY <1>2, BatchIsOp, RadioAssumption DEF RegsOf
<1>4. Batch("chip", full).unit = "chip" /\ DOMAIN Batch("chip", full).set = {full[i][1] : i \in 1..n}
  BY <1>2 DEF Batch
<1> QED
  BY <1>1, <1>2, <1>3, <1>4 DEF Quiet, LeavesSettled

LEMMA WritesIsOp ==
  ASSUME NEW n \in Nat, NEW rows, DOMAIN rows = 1..n, \A i \in 1..n : rows[i][1] \in BasebandRegs
  PROVE  Writes(rows) \in Operation
<1> DEFINE full == [i \in 1..n |-> <<rows[i][1], rows[i][2], 65535>>]
<1>1. Writes(rows) = Batch("chip", full)
  BY DEF Writes
<1>2. DOMAIN full = 1..n /\ \A i \in 1..n : full[i][1] \in RegsOf("chip")
  BY RadioAssumption DEF RegsOf
<1> HIDE DEF full
<1> QED
  BY <1>1, <1>2, BatchIsOp

LEMMA TunerBatchQuiet ==
  ASSUME NEW n \in Nat, NEW rows, DOMAIN rows = 1..n,
         \A i \in 1..n : rows[i][1] \in R860Regs /\ (rows[i][1] = 5 => 7 \notin BitsOf(rows[i][3]))
  PROVE  Batch("tuner", rows) \in Quiet
<1> DEFINE op == Batch("tuner", rows)
<1>1. op \in Operation
  BY BatchIsOp, RadioAssumption DEF RegsOf
<1>2. op.unit = "tuner"
  BY DEF Batch
<1>3. \A r \in DOMAIN op.set : \E i \in DOMAIN rows :
        /\ rows[i][1] = r
        /\ op.set[r] = [val |-> BitsOf(rows[i][2]), mask |-> BitsOf(rows[i][3])]
  BY BatchSays
<1> HIDE DEF op
<1>4. ASSUME 5 \in DOMAIN op.set
      PROVE  7 \notin op.set[5].mask
  <2>1. PICK i \in DOMAIN rows :
          /\ rows[i][1] = 5
          /\ op.set[5] = [val |-> BitsOf(rows[i][2]), mask |-> BitsOf(rows[i][3])]
    BY <1>3, <1>4
  <2>2. 7 \notin BitsOf(rows[i][3])
    BY <2>1
  <2> QED
    BY <2>1, <2>2
<1>5. op \in Quiet
  BY <1>1, <1>2, <1>4 DEF Quiet, LeavesSettled
<1> QED
  BY <1>5 DEF op

LEMMA FailsQuiet ==
  ASSUME NEW unit \in {"chip", "tuner"}
  PROVE  Fails(unit) \in Quiet
<1>1. Batch(unit, <<>>) \in Operation /\ DOMAIN Batch(unit, <<>>).set = {}
  <2>1. DOMAIN <<>> = 1..0 /\ 0 \in Nat
    OBVIOUS
  <2>2. \A i \in 1..0 : <<>>[i][1] \in RegsOf(unit)
    OBVIOUS
  <2>3. Batch(unit, <<>>) \in Operation
    BY <2>1, <2>2, BatchIsOp
  <2>4. DOMAIN Batch(unit, <<>>).set = {<<>>[i][1] : i \in DOMAIN <<>>}
    BY DEF Batch
  <2> QED
    BY <2>1, <2>3, <2>4
<1>2. Fails(unit) = [Batch(unit, <<>>) EXCEPT !.ok = FALSE]
  BY DEF Fails
<1>3. Fails(unit) \in Operation
  BY <1>1, <1>2 DEF Operation, IsOp
<1>4. DOMAIN Fails(unit).set = {}
  BY <1>1, <1>2 DEF Operation
<1> QED
  BY <1>3, <1>4 DEF Quiet, LeavesSettled

\* Tuner operations come only after a write that opens the bridge.
Bracketing(ops) == \A i \in DOMAIN ops : ops[i].unit = "tuner" => Bracketed(ops, i)

Piece(ops, S) == ops \in Seq(S) /\ Bracketing(ops)

LEMMA PiecesJoin ==
  ASSUME NEW S, NEW s, NEW t, Piece(s, S), Piece(t, S)
  PROVE  Piece(s \o t, S)
<1> DEFINE st == s \o t
           m == Len(s)
<1>1. /\ s \in Seq(S) /\ t \in Seq(S) /\ m \in Nat /\ Len(t) \in Nat
      /\ DOMAIN s = 1..m /\ DOMAIN t = 1..Len(t)
  BY DEF Piece
<1>2. /\ st \in Seq(S) /\ DOMAIN st = 1..(m + Len(t))
      /\ \A i \in 1..m : st[i] = s[i]
      /\ \A i \in 1..Len(t) : st[m + i] = t[i]
  BY <1>1, ConcatProperties
<1> HIDE DEF st, m
<1>3. ASSUME NEW i \in DOMAIN st, st[i].unit = "tuner", i <= m
      PROVE  Bracketed(st, i)
  <2>1. i \in DOMAIN s /\ Bracketed(s, i)
    BY <1>1, <1>2, <1>3 DEF Piece, Bracketing
  <2>2. PICK j \in 1..(i - 1) : OpensBridge(s[j]) /\ \A l \in (j + 1)..(i - 1) : s[l].unit = "tuner"
    BY <2>1 DEF Bracketed
  <2>3. OpensBridge(st[j]) /\ \A l \in (j + 1)..(i - 1) : st[l].unit = "tuner"
    BY <1>1, <1>2, <2>1, <2>2
  <2> QED
    BY <2>3 DEF Bracketed
<1>4. ASSUME NEW i \in DOMAIN st, st[i].unit = "tuner", i > m
      PROVE  Bracketed(st, i)
  <2> DEFINE k == i - m
  <2>1. k \in 1..Len(t) /\ i = m + k
    BY <1>1, <1>2, <1>4
  <2>2. Bracketed(t, k)
    BY <1>1, <1>2, <1>4, <2>1 DEF Piece, Bracketing
  <2> HIDE DEF k
  <2>3. PICK j \in 1..(k - 1) : OpensBridge(t[j]) /\ \A l \in (j + 1)..(k - 1) : t[l].unit = "tuner"
    BY <2>2 DEF Bracketed
  <2>4. m + j \in 1..(i - 1) /\ OpensBridge(st[m + j])
    BY <1>1, <1>2, <2>1, <2>3
  <2>5. ASSUME NEW l \in (m + j + 1)..(i - 1)
        PROVE  st[l].unit = "tuner"
    <3>1. l - m \in (j + 1)..(k - 1) /\ l - m \in 1..Len(t) /\ l = m + (l - m)
      BY <1>1, <2>1, <2>3
    <3> QED
      BY <1>2, <2>3, <3>1
  <2> QED
    BY <2>4, <2>5 DEF Bracketed
<1>5. Bracketing(st)
  <2> SUFFICES ASSUME NEW i \in DOMAIN st, st[i].unit = "tuner"
               PROVE  Bracketed(st, i)
    BY DEF Bracketing
  <2>1. i \in Nat
    BY <1>1, <1>2
  <2> QED
    BY <1>1, <1>3, <1>4, <2>1
<1> QED
  BY <1>2, <1>5 DEF Piece, st

LEMMA ChipOnly ==
  ASSUME NEW S, NEW ops \in Seq(S), \A i \in DOMAIN ops : ops[i].unit = "chip"
  PROVE  Piece(ops, S)
BY DEF Piece, Bracketing

LEMMA OneWrite ==
  ASSUME NEW r \in BasebandRegs, NEW v \in Nat
  PROVE  /\ Writes(<<<<r, v>>>>).unit = "chip"
         /\ DOMAIN Writes(<<<<r, v>>>>).set = {r}
         /\ Writes(<<<<r, v>>>>).set[r] = [val |-> BitsOf(v), mask |-> 0..15]
<1> DEFINE rows == [i \in DOMAIN <<<<r, v>>>> |-> <<<<<<r, v>>>>[i][1], <<<<r, v>>>>[i][2], 65535>>]
           op == Batch("chip", rows)
<1>1. Writes(<<<<r, v>>>>) = op
  BY DEF Writes
<1>2. DOMAIN rows = {1} /\ rows[1] = <<r, v, 65535>>
  OBVIOUS
<1> HIDE DEF rows
<1>3. op.unit = "chip" /\ DOMAIN op.set = {r}
  BY <1>2 DEF Batch
<1>4. op.set[r] = [val |-> BitsOf(rows[1][2]), mask |-> BitsOf(rows[1][3])]
  <2>1. \A q \in DOMAIN op.set : \E i \in DOMAIN rows :
          /\ rows[i][1] = q
          /\ op.set[q] = [val |-> BitsOf(rows[i][2]), mask |-> BitsOf(rows[i][3])]
    BY BatchSays
  <2> HIDE DEF op
  <2> QED
    BY <1>2, <1>3, <2>1
<1>5. rows[1][2] = v /\ BitsOf(rows[1][3]) = 0..15
  BY <1>2, WholeWord
<1> QED
  BY <1>1, <1>3, <1>4, <1>5

LEMMA RepeaterOps ==
  /\ Writes(<<<<"SoftReset", \h18>>>>) \in Quiet /\ OpensBridge(Writes(<<<<"SoftReset", \h18>>>>))
  /\ Writes(<<<<"SoftReset", \h10>>>>) \in Quiet /\ Writes(<<<<"SoftReset", \h10>>>>).unit = "chip"
<1>1. "SoftReset" \in BasebandRegs \ Settled /\ SoftReset = "SoftReset"
  BY RadioAssumption DEF BasebandRegs, Settled
<1>2. ASSUME NEW v \in Nat
      PROVE  Writes(<<<<"SoftReset", v>>>>) \in Quiet
  <2> DEFINE rows == <<<<"SoftReset", v>>>>
  <2>1. DOMAIN rows = 1..1 /\ \A i \in 1..1 : rows[i][1] \in BasebandRegs \ Settled
    BY <1>1
  <2> HIDE DEF rows
  <2>2. Writes(rows) \in Quiet
    BY <2>1, WritesQuiet
  <2> QED
    BY <2>2 DEF rows
<1> DEFINE W(v) == Writes(<<<<"SoftReset", v>>>>)
<1>3. ASSUME NEW v \in Nat
      PROVE  /\ W(v).unit = "chip" /\ DOMAIN W(v).set = {"SoftReset"}
             /\ W(v).set["SoftReset"] = [val |-> BitsOf(v), mask |-> 0..15]
  BY <1>1, OneWrite
<1>4. W(24) \in Quiet /\ W(16) \in Quiet
  BY <1>2
<1> HIDE DEF W
<1>5. OpensBridge(W(24))
  <2>1. /\ W(24).unit = "chip" /\ DOMAIN W(24).set = {"SoftReset"}
        /\ W(24).set["SoftReset"] = [val |-> BitsOf(24), mask |-> 0..15]
    BY <1>3
  <2> QED
    BY <1>1, <2>1, SomeBits DEF OpensBridge, RepeaterBit
<1>6. W(16).unit = "chip"
  BY <1>3
<1> QED
  BY <1>4, <1>5, <1>6 DEF W

LEMMA RepeaterPiece ==
  ASSUME NEW S, Quiet \subseteq S, NEW body \in Seq(S),
         \A i \in DOMAIN body : body[i].unit = "tuner"
  PROVE  Piece(WithRepeater(body), S)
<1> DEFINE w == Writes(<<<<"SoftReset", \h18>>>>)
           z == Writes(<<<<"SoftReset", \h10>>>>)
           ops == <<w>> \o body \o <<z>>
           n == Len(body)
<1>1. /\ w \in S /\ z \in S /\ OpensBridge(w) /\ z.unit = "chip"
      /\ n \in Nat /\ DOMAIN body = 1..n
  BY RepeaterOps
<1>2. WithRepeater(body) = ops
  BY DEF WithRepeater
<1> HIDE DEF w, z, n
<1>3. /\ ops \in Seq(S) /\ DOMAIN ops = 1..(n + 2)
      /\ ops[1] = w /\ ops[n + 2] = z
      /\ \A i \in 1..n : ops[i + 1] = body[i]
  <2> DEFINE wb == <<w>> \o body
  <2>1. /\ wb \in Seq(S) /\ Len(wb) = n + 1 /\ wb[1] = w
        /\ \A i \in 1..n : wb[i + 1] = body[i]
    BY <1>1 DEF n
  <2>2. <<z>> \in Seq(S) /\ Len(<<z>>) = 1 /\ <<z>>[1] = z
    BY <1>1
  <2> HIDE DEF wb
  <2>3. /\ wb \o <<z>> \in Seq(S) /\ Len(wb \o <<z>>) = n + 2 /\ (wb \o <<z>>)[n + 2] = z
        /\ \A i \in 1..(n + 1) : (wb \o <<z>>)[i] = wb[i]
    BY <1>1, <2>1, <2>2
  <2> QED
    BY <1>1, <2>1, <2>3 DEF wb
<1> HIDE DEF ops
<1>4. ASSUME NEW i \in DOMAIN ops, ops[i].unit = "tuner"
      PROVE  Bracketed(ops, i)
  <2>1. i # 1 /\ i # n + 2
    BY <1>1, <1>3, <1>4 DEF OpensBridge
  <2>2. 1 \in 1..(i - 1) /\ OpensBridge(ops[1])
    BY <1>1, <1>3, <2>1
  <2>3. ASSUME NEW l \in 2..(i - 1)
        PROVE  ops[l].unit = "tuner"
    <3>1. l - 1 \in 1..n /\ l = (l - 1) + 1
      BY <1>1, <1>3, <2>1
    <3>2. ops[l] = body[l - 1]
      BY <1>3, <3>1
    <3> QED
      BY <1>1, <3>1, <3>2
  <2> QED
    BY <2>2, <2>3 DEF Bracketed
<1> QED
  BY <1>2, <1>3, <1>4 DEF Piece, Bracketing

----------------------------------------------------------------------------
(* The pieces of the script.                                               *)

LEMMA QuietOps == Quiet \subseteq LeavesSettled /\ LeavesSettled \subseteq Operation
BY DEF Quiet, LeavesSettled

LEMMA WritesChip == \A rows : Writes(rows).unit = "chip"
BY DEF Writes, Batch

LEMMA BasebandHas ==
  /\ {"SYSCTL", "EPA_MAXPKT", "EPA_CTL", "DEMOD_CTL1", "DEMOD_CTL", "GPO", "GPOE", "GPD",
      "SoftReset", "ADCDatapath", "ClockOutput", "ACRHi", "ACRLo", "DDC", "IFFreqHi",
      "IFFreqMid", "IFFreqLo", "FIR", "SDRMode", "PIDFilter", "FSM1", "FSM2",
      "RSampRatioHi", "RSampRatioLo"} \subseteq BasebandRegs \ Settled
  /\ Settled \subseteq BasebandRegs
BY DEF BasebandRegs, Settled

LEMMA ResetDemodPiece == Piece(ResetDemod, Quiet)
<1>1. ASSUME NEW v
      PROVE  Writes(<<<<"SoftReset", v>>>>) \in Quiet /\ Writes(<<<<"SoftReset", v>>>>).unit = "chip"
  <2> DEFINE rows == <<<<"SoftReset", v>>>>
  <2>1. DOMAIN rows = 1..1 /\ \A i \in 1..1 : rows[i][1] \in BasebandRegs \ Settled
    BY BasebandHas
  <2> HIDE DEF rows
  <2>2. Writes(rows) \in Quiet /\ Writes(rows).unit = "chip"
    BY <2>1, WritesQuiet, WritesChip
  <2> QED
    BY <2>2 DEF rows
<1> DEFINE a == Writes(<<<<"SoftReset", \h14>>>>)
           z == Writes(<<<<"SoftReset", \h10>>>>)
<1>2. a \in Quiet /\ z \in Quiet /\ a.unit = "chip" /\ z.unit = "chip"
  BY <1>1
<1>3. ResetDemod = <<a, z>>
  BY DEF ResetDemod
<1> HIDE DEF a, z
<1>4. <<a, z>> \in Seq(Quiet) /\ \A i \in DOMAIN <<a, z>> : <<a, z>>[i].unit = "chip"
  BY <1>2
<1> QED
  BY <1>3, <1>4, ChipOnly

LEMMA ResetSampleBufferPiece == Piece(ResetSampleBuffer, Quiet)
<1>1. ASSUME NEW v
      PROVE  Writes(<<<<"EPA_CTL", v>>>>) \in Quiet /\ Writes(<<<<"EPA_CTL", v>>>>).unit = "chip"
  <2> DEFINE rows == <<<<"EPA_CTL", v>>>>
  <2>1. DOMAIN rows = 1..1 /\ \A i \in 1..1 : rows[i][1] \in BasebandRegs \ Settled
    BY BasebandHas
  <2> HIDE DEF rows
  <2>2. Writes(rows) \in Quiet /\ Writes(rows).unit = "chip"
    BY <2>1, WritesQuiet, WritesChip
  <2> QED
    BY <2>2 DEF rows
<1> DEFINE a == Writes(<<<<"EPA_CTL", \h1002>>>>)
           z == Writes(<<<<"EPA_CTL", 0>>>>)
<1>2. a \in Quiet /\ z \in Quiet /\ a.unit = "chip" /\ z.unit = "chip"
  BY <1>1
<1>3. ResetSampleBuffer = <<a, z>> \o ResetDemod
  BY DEF ResetSampleBuffer
<1> HIDE DEF a, z
<1>4. <<a, z>> \in Seq(Quiet) /\ \A i \in DOMAIN <<a, z>> : <<a, z>>[i].unit = "chip"
  BY <1>2
<1>5. Piece(<<a, z>>, Quiet)
  BY <1>4, ChipOnly
<1> QED
  BY <1>3, <1>5, ResetDemodPiece, PiecesJoin

LEMMA WriteDemodIFFreqPiece ==
  ASSUME NEW freq
  PROVE  Piece(WriteDemodIFFreq(freq), Quiet)
<1> DEFINE e == EncodedIF(freq)
           rows == <<<<"IFFreqHi", e \div 65536>>, <<"IFFreqMid", (e \div 256) % 256>>,
                     <<"IFFreqLo", e % 256>>>>
           op == Writes(rows)
<1>1. WriteDemodIFFreq(freq) = <<op>>
  BY DEF WriteDemodIFFreq
<1>2. DOMAIN rows = 1..3 /\ \A i \in 1..3 : rows[i][1] \in BasebandRegs \ Settled
  BY BasebandHas
<1> HIDE DEF e, rows
<1>3. op \in Quiet /\ op.unit = "chip"
  BY <1>2, WritesQuiet, WritesChip
<1> HIDE DEF op
<1>4. <<op>> \in Seq(Quiet) /\ \A i \in DOMAIN <<op>> : <<op>>[i].unit = "chip"
  BY <1>3
<1> QED
  BY <1>1, <1>4, ChipOnly

LEMMA SetSampleRatePiece ==
  ASSUME NEW rate
  PROVE  Piece(SetSampleRate(rate), Quiet)
<1>1. CASE ~ValidSampleRate(rate)
  <2> DEFINE op == Fails("chip")
  <2>1. SetSampleRate(rate) = <<op>>
    BY <1>1 DEF SetSampleRate
  <2>2. op \in Quiet /\ op.unit = "chip"
    BY FailsQuiet DEF Fails, Batch
  <2> HIDE DEF op
  <2>3. <<op>> \in Seq(Quiet) /\ \A i \in DOMAIN <<op>> : <<op>>[i].unit = "chip"
    BY <2>2
  <2> QED
    BY <2>1, <2>3, ChipOnly
<1>2. CASE ValidSampleRate(rate)
  <2> DEFINE ratio == RSampRatio(rate)
             rows == <<<<"RSampRatioHi", ratio \div 65536>>, <<"RSampRatioLo", ratio % 65536>>>>
             op == Writes(rows)
  <2>1. SetSampleRate(rate) = <<op>> \o ResetDemod
    BY <1>2 DEF SetSampleRate
  <2>2. DOMAIN rows = 1..2 /\ \A i \in 1..2 : rows[i][1] \in BasebandRegs \ Settled
    BY BasebandHas
  <2> HIDE DEF ratio, rows
  <2>3. op \in Quiet /\ op.unit = "chip"
    BY <2>2, WritesQuiet, WritesChip
  <2> HIDE DEF op
  <2>4. <<op>> \in Seq(Quiet) /\ \A i \in DOMAIN <<op>> : <<op>>[i].unit = "chip"
    BY <2>3
  <2>5. Piece(<<op>>, Quiet)
    BY <2>4, ChipOnly
  <2> QED
    BY <2>1, <2>5, ResetDemodPiece, PiecesJoin
<1> QED
  BY <1>1, <1>2

LEMMA InitChipPiece == Piece(InitChip, Operation)
<1> DEFINE r1 == <<<<"SYSCTL", \h09>>, <<"EPA_MAXPKT", 2>>, <<"EPA_CTL", \h1002>>>>
           r2 == <<<<"DEMOD_CTL1", \h22>>, <<"DEMOD_CTL", \he8>>>>
           r3 == <<<<"SpectrumInv", 0>>, <<"ACRHi", 0>>, <<"ACRLo", 0>>>>
           names == <<"ACRHi", "ACRLo", "DDC", "IFFreqHi", "IFFreqMid", "IFFreqLo">>
           r4 == [i \in 1..6 |-> <<names[i], 0>>]
           r5 == <<<<"FIR", 1>>, <<"SDRMode", 5>>, <<"FSM1", \hf0>>, <<"FSM2", \h0f>>,
                   <<"AGCEnable", 0>>, <<"AGCLoop", 0>>, <<"PIDFilter", \h60>>,
                   <<"ADCDatapath", \h80>>, <<"ZeroIF", \h1b>>, <<"ClockOutput", \h83>>>>
           head == <<Writes(r1), Writes(r2)>>
           tail == <<Writes(r3), Writes(r4), Writes(r5)>>
<1>1. InitChip = head \o ResetDemod \o tail
  BY DEF InitChip
<1>2. /\ DOMAIN r1 = 1..3 /\ \A i \in 1..3 : r1[i][1] \in BasebandRegs
      /\ DOMAIN r2 = 1..2 /\ \A i \in 1..2 : r2[i][1] \in BasebandRegs
      /\ DOMAIN r3 = 1..3 /\ \A i \in 1..3 : r3[i][1] \in BasebandRegs
  BY BasebandHas DEF Settled
<1>3. DOMAIN r4 = 1..6 /\ \A i \in 1..6 : r4[i][1] \in BasebandRegs
  <2>1. \A i \in 1..6 : names[i] \in BasebandRegs
    BY BasebandHas
  <2> HIDE DEF names
  <2> QED  BY <2>1
<1>4. DOMAIN r5 = 1..10 /\ \A i \in 1..10 : r5[i][1] \in BasebandRegs
  BY BasebandHas DEF Settled
<1> HIDE DEF r1, r2, r3, r4, r5
<1>5. /\ Writes(r1) \in Operation /\ Writes(r2) \in Operation /\ Writes(r3) \in Operation
      /\ Writes(r4) \in Operation /\ Writes(r5) \in Operation
  BY <1>2, <1>3, <1>4, WritesIsOp
<1>6. \A rows : Writes(rows).unit = "chip"
  BY WritesChip
<1>7. head \in Seq(Operation) /\ \A i \in DOMAIN head : head[i].unit = "chip"
  BY <1>5, <1>6
<1>8. tail \in Seq(Operation) /\ \A i \in DOMAIN tail : tail[i].unit = "chip"
  BY <1>5, <1>6
<1> HIDE DEF head, tail
<1>9. Piece(ResetDemod, Operation)
  BY ResetDemodPiece, QuietOps DEF Piece
<1>10. Piece(head, Operation) /\ Piece(tail, Operation)
  BY <1>7, <1>8, ChipOnly
<1>11. Piece(head \o ResetDemod, Operation)
  BY <1>9, <1>10, PiecesJoin
<1> QED
  BY <1>1, <1>10, <1>11, PiecesJoin

LEMMA ConfigureForR820TPiece == Piece(ConfigureForR820T, Operation)
<1> DEFINE r1 == <<<<"ZeroIF", \h1a>>, <<"ADCInput", \h4d>>>>
           r2 == <<<<"SpectrumInv", 1>>>>
           f == WriteDemodIFFreq(3570)
<1>1. ConfigureForR820T = <<Writes(r1)>> \o f \o <<Writes(r2)>>
  BY DEF ConfigureForR820T
<1>2. /\ DOMAIN r1 = 1..2 /\ \A i \in 1..2 : r1[i][1] \in BasebandRegs
      /\ DOMAIN r2 = 1..1 /\ \A i \in 1..1 : r2[i][1] \in BasebandRegs
  BY BasebandHas DEF Settled
<1>3. Piece(f, Operation)
  BY WriteDemodIFFreqPiece, QuietOps DEF Piece
<1> HIDE DEF r1, r2, f
<1>4. Writes(r1) \in Operation /\ Writes(r2) \in Operation
  BY <1>2, WritesIsOp
<1> DEFINE a == Writes(r1)
           z == Writes(r2)
<1>5. a \in Operation /\ z \in Operation /\ a.unit = "chip" /\ z.unit = "chip"
  BY <1>4, WritesChip
<1> HIDE DEF a, z
<1>6. Piece(<<a>>, Operation) /\ Piece(<<z>>, Operation)
  <2>1. <<a>> \in Seq(Operation) /\ \A i \in DOMAIN <<a>> : <<a>>[i].unit = "chip"
    BY <1>5
  <2>2. <<z>> \in Seq(Operation) /\ \A i \in DOMAIN <<z>> : <<z>>[i].unit = "chip"
    BY <1>5
  <2> QED
    BY <2>1, <2>2, ChipOnly
<1>7. Piece(<<a>> \o f, Operation)
  BY <1>3, <1>6, PiecesJoin
<1>8. Piece(<<a>> \o f \o <<z>>, Operation)
  BY <1>6, <1>7, PiecesJoin
<1> QED
  BY <1>1, <1>8 DEF a, z

LEMMA TunerBatch == \A rows : Batch("tuner", rows).unit = "tuner"
BY DEF Batch

LEMMA TunerReadsQuiet == TunerReads \in Quiet /\ TunerReads.unit = "tuner"
<1> DEFINE rows == <<>>
<1>1. TunerReads = Batch("tuner", rows)
  BY DEF TunerReads
<1>2. DOMAIN rows = 1..0 /\ 0 \in Nat
      /\ \A i \in 1..0 : rows[i][1] \in R860Regs /\ (rows[i][1] = 5 => 7 \notin BitsOf(rows[i][3]))
  OBVIOUS
<1> HIDE DEF rows
<1>3. Batch("tuner", rows) \in Quiet
  BY <1>2, TunerBatchQuiet
<1> QED
  BY <1>1, <1>3, TunerBatch

LEMMA TunerJoin ==
  ASSUME NEW S, NEW s \in Seq(S), NEW t \in Seq(S),
         \A i \in DOMAIN s : s[i].unit = "tuner", \A i \in DOMAIN t : t[i].unit = "tuner"
  PROVE  s \o t \in Seq(S) /\ \A i \in DOMAIN (s \o t) : (s \o t)[i].unit = "tuner"
BY ConcatProperties

\* Every body of tuner operations, in its bracket.
LEMMA OneOpBody ==
  ASSUME NEW op \in Quiet, op.unit = "tuner"
  PROVE  Piece(WithRepeater(<<op>>), Quiet)
<1>1. <<op>> \in Seq(Quiet) /\ \A i \in DOMAIN <<op>> : <<op>>[i].unit = "tuner"
  OBVIOUS
<1> QED
  BY <1>1, RepeaterPiece

\* The five batches of NewR860, the second of which turns the loop-through off.
LEMMA NewR860Piece == Piece(NewR860, LeavesSettled)
<1> DEFINE r0 == [i \in 1..Len(InitValues) |-> <<i + 4, InitValues[i], 255>>]
           b0 == Batch("tuner", r0)
           b1 == Batch("tuner", SetTVStandard)
           b2 == Batch("tuner", SysFreqSel)
           b3 == Batch("tuner", DigitalTV1)
           b4 == Batch("tuner", DigitalTV2)
           body == <<b0, b1, b2, b3, b4>>
<1>1. NewR860 = WithRepeater(<<TunerReads>>) \o WithRepeater(body)
  BY DEF NewR860
<1>2. Len(InitValues) = 27
  BY DEF InitValues
<1>3. DOMAIN r0 = 1..27 /\ \A i \in 1..27 : r0[i][1] \in R860Regs
  BY <1>2 DEF R860Regs
<1>4. DOMAIN SetTVStandard = 1..10 /\ \A i \in 1..10 : SetTVStandard[i][1] \in R860Regs
  BY DEF SetTVStandard, R860Regs
<1>5. DOMAIN SysFreqSel = 1..9 /\ \A i \in 1..9 : SysFreqSel[i][1] \in R860Regs
  BY DEF SysFreqSel, R860Regs
<1>6. DOMAIN DigitalTV1 = 1..4 /\ \A i \in 1..4 : DigitalTV1[i][1] \in R860Regs
  BY DEF DigitalTV1, R860Regs
<1>7. DOMAIN DigitalTV2 = 1..4 /\ \A i \in 1..4 : DigitalTV2[i][1] \in R860Regs
  BY DEF DigitalTV2, R860Regs
<1> HIDE DEF r0
<1>8. /\ b0 \in Operation /\ b1 \in Operation /\ b2 \in Operation
      /\ b3 \in Operation /\ b4 \in Operation
  BY <1>3, <1>4, <1>5, <1>6, <1>7, BatchIsOp, RadioAssumption DEF RegsOf
<1>9. /\ b0.unit = "tuner" /\ b1.unit = "tuner" /\ b2.unit = "tuner"
      /\ b3.unit = "tuner" /\ b4.unit = "tuner"
  BY TunerBatch
<1> HIDE DEF b0, b1, b2, b3, b4
<1>10. body \in Seq(LeavesSettled) /\ \A i \in DOMAIN body : body[i].unit = "tuner"
  BY <1>8, <1>9 DEF LeavesSettled
<1> HIDE DEF body
<1>11. Piece(WithRepeater(body), LeavesSettled)
  BY <1>10, RepeaterPiece, QuietOps
<1>12. Piece(WithRepeater(<<TunerReads>>), LeavesSettled)
  BY TunerReadsQuiet, OneOpBody, QuietOps DEF Piece
<1> QED
  BY <1>1, <1>11, <1>12, PiecesJoin

LEMMA InitializeForSampleRatePiece ==
  ASSUME NEW rate
  PROVE  Piece(InitializeForSampleRate(rate), Quiet)
<1> DEFINE b == Bandwidth(rate)
           rows == <<<<10, b.r10, \h10>>, <<11, b.r11, \hef>>>>
           op == Batch("tuner", rows)
<1>1. InitializeForSampleRate(rate) = WithRepeater(<<op>>)
  BY DEF InitializeForSampleRate
<1> HIDE DEF b
<1>2. DOMAIN rows = 1..2
      /\ \A i \in 1..2 : rows[i][1] \in R860Regs /\ rows[i][1] # 5
  BY DEF R860Regs
<1> HIDE DEF rows
<1>3. op \in Quiet /\ op.unit = "tuner"
  BY <1>2, TunerBatchQuiet, TunerBatch
<1> HIDE DEF op
<1> QED
  BY <1>1, <1>3, OneOpBody

LEMMA SetFreqPiece ==
  ASSUME NEW lo, NEW fineTune
  PROVE  Piece(SetFreq(lo, fineTune), Quiet)
<1> DEFINE band == BandRange(lo)
           rm == <<<<23, band[2], 8>>, <<26, band[3], \hc3>>, <<27, band[4], 255>>,
                   <<16, 0, 3>>, <<8, 0, \h3f>>, <<9, 0, \h3f>>>>
           mux == Batch("tuner", rm)
           rv == <<<<26, 0, \h0c>>, <<18, \h80, \he0>>>>
           vco == Batch("tuner", rv)
           pll == LockPLL(lo, fineTune)
<1>1. SetMux(lo) = mux
  BY DEF SetMux
<1>2. DOMAIN rm = 1..6 /\ \A i \in 1..6 : rm[i][1] \in R860Regs /\ rm[i][1] # 5
  <2> HIDE DEF band
  <2> QED  BY DEF R860Regs
<1>3. DOMAIN rv = 1..2 /\ \A i \in 1..2 : rv[i][1] \in R860Regs /\ rv[i][1] # 5
  BY DEF R860Regs
<1>4. \E s \in Seq(Quiet) : /\ pll = <<vco, TunerReads>> \o s
                            /\ \A i \in DOMAIN s : s[i].unit = "tuner"
  <2>1. CASE PLLDivs(lo, fineTune) = {}
    <3> DEFINE op == Fails("tuner")
    <3>1. op \in Quiet /\ op.unit = "tuner"
      BY FailsQuiet DEF Fails, Batch
    <3>2. pll = <<vco, TunerReads>> \o <<op>>
      BY <2>1 DEF LockPLL
    <3> HIDE DEF op, pll
    <3>3. <<op>> \in Seq(Quiet) /\ \A i \in DOMAIN <<op>> : <<op>>[i].unit = "tuner"
      BY <3>1
    <3> QED
      BY <3>2, <3>3
  <2>2. CASE PLLDivs(lo, fineTune) # {}
    <3> DEFINE set == PLLSettings(lo, fineTune, CHOOSE k \in PLLDivs(lo, fineTune) : TRUE)
               rp == <<<<16, set.divNum * 32, \he0>>, <<20, set.ni + set.si * 64, 255>>,
                       <<18, IF set.sdm = 0 THEN 8 ELSE 0, 8>>,
                       <<22, set.sdm \div 256, 255>>, <<21, set.sdm % 256, 255>>, <<26, 8, 8>>>>
               op == Batch("tuner", rp)
    <3>1. pll = <<vco, TunerReads>> \o ProgramPLL(set)
      BY <2>2 DEF LockPLL
    <3>2. ProgramPLL(set) = <<op>>
      BY DEF ProgramPLL
    <3> HIDE DEF set
    <3>3. DOMAIN rp = 1..6 /\ \A i \in 1..6 : rp[i][1] \in R860Regs /\ rp[i][1] # 5
      BY DEF R860Regs
    <3> HIDE DEF rp
    <3>4. op \in Quiet /\ op.unit = "tuner"
      BY <3>3, TunerBatchQuiet, TunerBatch
    <3> HIDE DEF op, pll
    <3>5. <<op>> \in Seq(Quiet) /\ \A i \in DOMAIN <<op>> : <<op>>[i].unit = "tuner"
      BY <3>4
    <3> QED
      BY <3>1, <3>2, <3>5
  <2> QED
    BY <2>1, <2>2
<1> HIDE DEF rm, rv, pll
<1>5. mux \in Quiet /\ mux.unit = "tuner" /\ vco \in Quiet /\ vco.unit = "tuner"
  BY <1>2, <1>3, TunerBatchQuiet, TunerBatch
<1> HIDE DEF mux, vco
<1>6. PICK s \in Seq(Quiet) : /\ pll = <<vco, TunerReads>> \o s
                              /\ \A i \in DOMAIN s : s[i].unit = "tuner"
  BY <1>4
<1> DEFINE body == <<mux>> \o pll
<1>7. body \in Seq(Quiet) /\ \A i \in DOMAIN body : body[i].unit = "tuner"
  <2>1. /\ <<vco, TunerReads>> \in Seq(Quiet)
        /\ \A i \in DOMAIN <<vco, TunerReads>> : <<vco, TunerReads>>[i].unit = "tuner"
    BY <1>5, TunerReadsQuiet
  <2>2. pll \in Seq(Quiet) /\ \A i \in DOMAIN pll : pll[i].unit = "tuner"
    BY <1>6, <2>1, TunerJoin
  <2>3. <<mux>> \in Seq(Quiet) /\ \A i \in DOMAIN <<mux>> : <<mux>>[i].unit = "tuner"
    BY <1>5
  <2> QED
    BY <2>2, <2>3, TunerJoin
<1>8. SetFreq(lo, fineTune) = WithRepeater(body)
  BY <1>1 DEF SetFreq, pll
<1> HIDE DEF body
<1> QED
  BY <1>7, <1>8, RepeaterPiece

\* A masked register write that leaves the loop-through alone.
QuietSets ==
  {w \in UNION {[R -> Bytes] : R \in SUBSET R860Regs} : 5 \in DOMAIN w => 7 \notin w[5].mask}

LEMMA MaskedQuiet ==
  ASSUME NEW reg \in R860Regs, NEW val, NEW mask, reg = 5 => 7 \notin BitsOf(mask)
  PROVE  Masked(reg, val, mask) \in QuietSets
<1> DEFINE w == Masked(reg, val, mask)
<1>1. DOMAIN w = {reg} /\ w[reg].mask = BitsOf(mask) /\ w \in [{reg} -> Bytes]
  BY BitsOfBits, RadioAssumption DEF Masked, Bytes
<1> HIDE DEF w
<1>2. w \in UNION {[R -> Bytes] : R \in SUBSET R860Regs}
  BY <1>1
<1>3. w \in QuietSets
  BY <1>1, <1>2 DEF QuietSets
<1> QED
  BY <1>3 DEF w

\* A tuner program's transactions and, when it is cut short, its error.
ProgramOps(writes) ==
  [i \in DOMAIN writes |->
     [unit |-> "tuner", ok |-> TRUE, repeater |-> TRUE, set |-> writes[i], parts |-> {{}, DOMAIN writes[i]}]]
ProgramEnd(ok) == IF ok THEN <<>> ELSE <<Fails("tuner")>>

LEMMA ProgramBody ==
  ASSUME NEW writes \in Seq(QuietSets), NEW ok \in BOOLEAN
  PROVE  /\ BodyOf([writes |-> writes, ok |-> ok]) = ProgramOps(writes) \o ProgramEnd(ok)
         /\ ProgramOps(writes) \in Seq(Quiet) /\ ProgramEnd(ok) \in Seq(Quiet)
         /\ \A i \in DOMAIN ProgramOps(writes) : ProgramOps(writes)[i].unit = "tuner"
         /\ \A i \in DOMAIN ProgramEnd(ok) : ProgramEnd(ok)[i].unit = "tuner"
<1> DEFINE op(i) == [unit |-> "tuner", ok |-> TRUE, repeater |-> TRUE,
                     set |-> writes[i], parts |-> {{}, DOMAIN writes[i]}]
           s == ProgramOps(writes)
           t == ProgramEnd(ok)
<1>1. BodyOf([writes |-> writes, ok |-> ok]) = s \o t
  BY DEF BodyOf, ProgramOps, ProgramEnd
<1>2. ASSUME NEW i \in DOMAIN writes
      PROVE  op(i) \in Quiet
  <2> DEFINE w == writes[i]
             R == DOMAIN w
  <2>1. w \in QuietSets
    OBVIOUS
  <2> HIDE DEF w
  <2>2. R \subseteq R860Regs /\ w \in [R -> Bytes] /\ (5 \in R => 7 \notin w[5].mask)
    BY <2>1 DEF QuietSets
  <2> DEFINE o == [unit |-> "tuner", ok |-> TRUE, repeater |-> TRUE, set |-> w, parts |-> {{}, R}]
  <2>3. R \in SUBSET AllRegs /\ R \subseteq TunerRegs
    BY <2>2, RadioAssumption DEF AllRegs
  <2>4. o.set \in UNION {[Q -> Bytes] : Q \in SUBSET AllRegs} /\ o.parts \in SUBSET SUBSET AllRegs
    BY <2>2, <2>3
  <2>5. IsOp(o)
    BY <2>2, <2>3 DEF IsOp, Bytes
  <2>6. o \in Operation
    BY <2>4, <2>5 DEF Operation
  <2>7. o \in Quiet
    BY <2>2, <2>6 DEF Quiet, LeavesSettled
  <2> QED
    BY <2>7 DEF w
<1>3. s \in Seq(Quiet) /\ \A i \in DOMAIN s : s[i].unit = "tuner"
  <2>1. s \in [1..Len(writes) -> Quiet] /\ Len(writes) \in Nat
    BY <1>2 DEF ProgramOps
  <2>2. \A i \in DOMAIN s : s[i].unit = "tuner"
    <3>1. DOMAIN s = DOMAIN writes /\ \A i \in DOMAIN writes : s[i] = op(i)
      BY DEF ProgramOps
    <3>2. \A i \in DOMAIN writes : op(i).unit = "tuner"
      OBVIOUS
    <3> HIDE DEF s, op
    <3> QED
      BY <3>1, <3>2
  <2> HIDE DEF s
  <2> QED
    BY <2>1, <2>2
<1>4. t \in Seq(Quiet) /\ \A i \in DOMAIN t : t[i].unit = "tuner"
  <2> DEFINE f == Fails("tuner")
  <2>1. f \in Quiet /\ f.unit = "tuner"
    BY FailsQuiet DEF Fails, Batch
  <2> HIDE DEF f
  <2>2. <<f>> \in Seq(Quiet) /\ \A i \in DOMAIN <<f>> : <<f>>[i].unit = "tuner"
    BY <2>1
  <2>3. <<>> \in Seq(Quiet) /\ \A i \in DOMAIN <<>> : <<>>[i].unit = "tuner"
    OBVIOUS
  <2> QED
    BY <2>2, <2>3 DEF f, ProgramEnd
<1> QED
  BY <1>1, <1>3, <1>4

LEMMA ProgramPiece ==
  ASSUME NEW writes \in Seq(QuietSets), NEW ok \in BOOLEAN
  PROVE  Piece(TunerOp([writes |-> writes, ok |-> ok]), Quiet)
<1> DEFINE s == ProgramOps(writes)
           t == ProgramEnd(ok)
<1>1. s \o t \in Seq(Quiet) /\ \A i \in DOMAIN (s \o t) : (s \o t)[i].unit = "tuner"
  BY ProgramBody, TunerJoin
<1>2. BodyOf([writes |-> writes, ok |-> ok]) = s \o t
  BY ProgramBody
<1> QED
  BY <1>1, <1>2, RepeaterPiece DEF TunerOp

LEMMA RejectedPiece == Piece(TunerOp(Rejected), Quiet)
<1>1. <<>> \in Seq(QuietSets) /\ FALSE \in BOOLEAN
  OBVIOUS
<1>2. Rejected = [writes |-> <<>>, ok |-> FALSE]
  BY DEF Rejected, Stops
<1>3. Piece(TunerOp([writes |-> <<>>, ok |-> FALSE]), Quiet)
  BY <1>1, ProgramPiece
<1> QED
  BY <1>2, <1>3

LEMMA StagePiece ==
  ASSUME NEW stage
  PROVE  /\ Piece(TunerOp(SetLNAGain(stage)), Quiet)
         /\ Piece(TunerOp(SetMixerGain(stage)), Quiet)
         /\ Piece(TunerOp(SetVGAGain(stage)), Quiet)
<1>1. ASSUME NEW reg \in {5, 7, 12}, NEW v, NEW m, reg = 5 => m \in {16, 31}
      PROVE  Piece(TunerOp(Body(<<Masked(reg, v, m)>>)), Quiet)
  <2> DEFINE w == Masked(reg, v, m)
  <2>1. reg \in R860Regs /\ (reg = 5 => 7 \notin BitsOf(m))
    BY <1>1, SomeBits DEF R860Regs
  <2>2. w \in QuietSets
    BY <2>1, MaskedQuiet
  <2> HIDE DEF w
  <2>3. <<w>> \in Seq(QuietSets)
    BY <2>2
  <2> QED
    BY <2>3, ProgramPiece DEF Body, w
<1>2. Piece(TunerOp(Rejected), Quiet)
  BY RejectedPiece
<1>3. \/ SetLNAGain(stage) = Body(<<Masked(5, 0, 16)>>)
      \/ SetLNAGain(stage) = Body(<<Masked(5, 16 + stage.step, 31)>>)
      \/ SetLNAGain(stage) = Rejected
  BY DEF SetLNAGain
<1>4. \/ SetMixerGain(stage) = Body(<<Masked(7, 16, 16)>>)
      \/ SetMixerGain(stage) = Body(<<Masked(7, stage.step, 31)>>)
      \/ SetMixerGain(stage) = Rejected
  BY DEF SetMixerGain
<1>5. \/ SetVGAGain(stage) = Body(<<Masked(12, 11, 159)>>)
      \/ SetVGAGain(stage) = Body(<<Masked(12, stage.step, 31)>>)
      \/ SetVGAGain(stage) = Rejected
  BY DEF SetVGAGain
<1> DEFINE M(reg, v, m) == Body(<<Masked(reg, v, m)>>)
<1>6. Piece(TunerOp(SetLNAGain(stage)), Quiet)
  <2>1. \A v : Piece(TunerOp(M(5, v, 16)), Quiet) /\ Piece(TunerOp(M(5, v, 31)), Quiet)
    BY <1>1
  <2>2. \/ SetLNAGain(stage) = M(5, 0, 16) \/ SetLNAGain(stage) = M(5, 16 + stage.step, 31)
        \/ SetLNAGain(stage) = Rejected
    BY <1>3
  <2> HIDE DEF M
  <2> QED
    BY <1>2, <2>1, <2>2
<1>7. Piece(TunerOp(SetMixerGain(stage)), Quiet)
  <2>1. \A v, m : Piece(TunerOp(M(7, v, m)), Quiet)
    BY <1>1
  <2>2. \/ SetMixerGain(stage) = M(7, 16, 16) \/ SetMixerGain(stage) = M(7, stage.step, 31)
        \/ SetMixerGain(stage) = Rejected
    BY <1>4
  <2> HIDE DEF M
  <2> QED
    BY <1>2, <2>1, <2>2
<1>8. Piece(TunerOp(SetVGAGain(stage)), Quiet)
  <2>1. \A v, m : Piece(TunerOp(M(12, v, m)), Quiet)
    BY <1>1
  <2>2. \/ SetVGAGain(stage) = M(12, 11, 159) \/ SetVGAGain(stage) = M(12, stage.step, 31)
        \/ SetVGAGain(stage) = Rejected
    BY <1>5
  <2> HIDE DEF M
  <2> QED
    BY <1>2, <2>1, <2>2
<1> QED
  BY <1>6, <1>7, <1>8

LEMMA ApplyTunerGainPiece ==
  ASSUME NEW c
  PROVE  Piece(ApplyTunerGain(c), Quiet)
<1> DEFINE l == TunerOp(SetLNAGain(c.lna))
           m == TunerOp(SetMixerGain(c.mixer))
           v == TunerOp(SetVGAGain(c.vga))
<1>1. Piece(l, Quiet) /\ Piece(m, Quiet) /\ Piece(v, Quiet)
  BY StagePiece
<1>2. ApplyTunerGain(c) = l \o m \o v
  BY DEF ApplyTunerGain
<1> HIDE DEF l, m, v
<1>3. Piece(l \o m, Quiet)
  BY <1>1, PiecesJoin
<1> QED
  BY <1>1, <1>2, <1>3, PiecesJoin

LEMMA IfGivenPiece ==
  ASSUME NEW option, NEW ops, Piece(ops, Quiet)
  PROVE  Piece(IfGiven(option, ops), Quiet)
<1>1. Piece(<<>>, Quiet)
  BY DEF Piece, Bracketing
<1> QED
  BY <1>1 DEF IfGiven

LEMMA FilterPiece ==
  /\ \A coarse, fine : Piece(TunerOp(SetIFBandwidth(coarse, fine)), Quiet)
  /\ \A code : Piece(TunerOp(SetIFHighPass(code)), Quiet)
  /\ \A enable : Piece(TunerOp(SetFilterExt(enable)), Quiet)
<1>1. ASSUME NEW reg \in {10, 11, 30}, NEW v, NEW m
      PROVE  Masked(reg, v, m) \in QuietSets
  BY MaskedQuiet DEF R860Regs
<1>2. Piece(TunerOp(Rejected), Quiet)
  BY RejectedPiece
<1>3. ASSUME NEW coarse, NEW fine
      PROVE  Piece(TunerOp(SetIFBandwidth(coarse, fine)), Quiet)
  <2> DEFINE w == Masked(11, coarse * 32, 96)
             x == Masked(10, fine, 15)
  <2>1. w \in QuietSets /\ x \in QuietSets
    BY <1>1
  <2>2. SetIFBandwidth(coarse, fine) \in {Body(<<w, x>>), Rejected}
    BY DEF SetIFBandwidth
  <2> HIDE DEF w, x
  <2>3. <<w, x>> \in Seq(QuietSets)
    BY <2>1
  <2>4. Piece(TunerOp(Body(<<w, x>>)), Quiet)
    BY <2>3, ProgramPiece DEF Body
  <2> QED
    BY <1>2, <2>2, <2>4
<1>4. ASSUME NEW reg \in {11, 30}, NEW v, NEW m
      PROVE  Piece(TunerOp(Body(<<Masked(reg, v, m)>>)), Quiet)
  <2> DEFINE w == Masked(reg, v, m)
  <2>1. w \in QuietSets
    BY <1>1
  <2> HIDE DEF w
  <2>2. <<w>> \in Seq(QuietSets)
    BY <2>1
  <2> QED
    BY <2>2, ProgramPiece DEF Body, w
<1>5. ASSUME NEW code
      PROVE  Piece(TunerOp(SetIFHighPass(code)), Quiet)
  BY <1>2, <1>4 DEF SetIFHighPass
<1>6. ASSUME NEW enable
      PROVE  Piece(TunerOp(SetFilterExt(enable)), Quiet)
  BY <1>4 DEF SetFilterExt
<1> QED
  BY <1>3, <1>5, <1>6

LEMMA ApplyTunerFilterPiece ==
  ASSUME NEW c
  PROVE  Piece(ApplyTunerFilter(c), Quiet)
<1> DEFINE b == IfGiven(c.ifBandwidth,
                        TunerOp(SetIFBandwidth(c.ifBandwidth[1].coarse, c.ifBandwidth[1].fine)))
           h == IfGiven(c.ifHighPass, TunerOp(SetIFHighPass(c.ifHighPass[1])))
           e == IfGiven(c.filterExt, TunerOp(SetFilterExt(c.filterExt[1])))
<1>1. Piece(b, Quiet)
  BY FilterPiece, IfGivenPiece
<1>2. Piece(h, Quiet)
  BY FilterPiece, IfGivenPiece
<1>3. Piece(e, Quiet)
  BY FilterPiece, IfGivenPiece
<1>4. ApplyTunerFilter(c) = b \o h \o e
  BY DEF ApplyTunerFilter
<1> HIDE DEF b, h, e
<1>5. Piece(b \o h, Quiet)
  BY <1>1, <1>2, PiecesJoin
<1> QED
  BY <1>3, <1>4, <1>5, PiecesJoin

LEMMA BiasTeePiece ==
  ASSUME NEW gpio, NEW enable
  PROVE  Piece(SetBiasTee(gpio, enable), Quiet)
<1> DEFINE rows == <<<<"GPD", 0, 2^gpio>>, <<"GPOE", 2^gpio, 2^gpio>>,
                     <<"GPO", IF enable THEN 2^gpio ELSE 0, 2^gpio>>>>
           b == Batch("chip", rows)
           f == Fails("chip")
<1>1. SetBiasTee(gpio, enable) \in {<<f>>, <<b>>}
  BY DEF SetBiasTee
<1>2. DOMAIN rows = 1..3 /\ \A i \in 1..3 : rows[i][1] \in BasebandRegs \ Settled
  BY BasebandHas
<1>3. f \in Quiet /\ f.unit = "chip"
  BY FailsQuiet DEF Fails, Batch
<1> HIDE DEF rows, f
<1>4. b \in Operation
  BY <1>2, BatchIsOp, RadioAssumption DEF RegsOf
<1>5. b.unit = "chip" /\ DOMAIN b.set = {rows[i][1] : i \in 1..3}
  BY <1>2 DEF Batch
<1>6. b \in Quiet
  BY <1>2, <1>4, <1>5 DEF Quiet, LeavesSettled
<1> HIDE DEF b
<1>7. <<f>> \in Seq(Quiet) /\ \A i \in DOMAIN <<f>> : <<f>>[i].unit = "chip"
  BY <1>3
<1>8. <<b>> \in Seq(Quiet) /\ \A i \in DOMAIN <<b>> : <<b>>[i].unit = "chip"
  BY <1>5, <1>6
<1>9. Piece(<<f>>, Quiet) /\ Piece(<<b>>, Quiet)
  BY <1>7, <1>8, ChipOnly
<1> QED
  BY <1>1, <1>9

----------------------------------------------------------------------------
(* Whose write a bit ends up with.                                         *)

Assigns(op, u, r, b) == op.unit = u /\ r \in DOMAIN op.set /\ b \in op.set[r].mask

Spares(ops, u, r, b) == \A i \in DOMAIN ops : ~Assigns(ops[i], u, r, b)

\* The last operation that assigns bit b of u's register r makes it what it is in v.
LeavesBit(ops, u, r, b, v) ==
  \E i \in DOMAIN ops :
    /\ Assigns(ops[i], u, r, b) /\ (b \in ops[i].set[r].val <=> b \in v)
    /\ \A j \in DOMAIN ops : j > i => ~Assigns(ops[j], u, r, b)

LEMMA LaterLeaves ==
  ASSUME NEW S, NEW s \in Seq(S), NEW t \in Seq(S), NEW u, NEW r, NEW b, NEW v,
         LeavesBit(t, u, r, b, v)
  PROVE  LeavesBit(s \o t, u, r, b, v)
<1> DEFINE st == s \o t
           m == Len(s)
<1>1. /\ m \in Nat /\ Len(t) \in Nat /\ DOMAIN t = 1..Len(t) /\ DOMAIN st = 1..(m + Len(t))
      /\ \A i \in 1..Len(t) : st[m + i] = t[i]
  BY ConcatProperties
<1>2. PICK i \in DOMAIN t : /\ Assigns(t[i], u, r, b) /\ (b \in t[i].set[r].val <=> b \in v)
                            /\ \A j \in DOMAIN t : j > i => ~Assigns(t[j], u, r, b)
  BY DEF LeavesBit
<1> HIDE DEF st, m
<1>3. m + i \in DOMAIN st /\ Assigns(st[m + i], u, r, b) /\ (b \in st[m + i].set[r].val <=> b \in v)
  BY <1>1, <1>2
<1>4. ASSUME NEW j \in DOMAIN st, j > m + i
      PROVE  ~Assigns(st[j], u, r, b)
  <2>1. j - m \in DOMAIN t /\ j - m > i /\ j = m + (j - m)
    BY <1>1, <1>2, <1>4
  <2>2. st[j] = t[j - m]
    BY <1>1, <2>1
  <2> QED
    BY <1>2, <2>1, <2>2
<1> QED
  BY <1>3, <1>4 DEF LeavesBit, st

LEMMA SparedStays ==
  ASSUME NEW S, NEW s \in Seq(S), NEW t \in Seq(S), NEW u, NEW r, NEW b, NEW v,
         LeavesBit(s, u, r, b, v), Spares(t, u, r, b)
  PROVE  LeavesBit(s \o t, u, r, b, v)
<1> DEFINE st == s \o t
           m == Len(s)
<1>1. /\ m \in Nat /\ Len(t) \in Nat /\ DOMAIN t = 1..Len(t) /\ DOMAIN st = 1..(m + Len(t))
      /\ \A i \in 1..Len(t) : st[m + i] = t[i]
      /\ DOMAIN s = 1..m /\ \A i \in 1..m : st[i] = s[i]
  BY ConcatProperties
<1>2. PICK i \in DOMAIN s : /\ Assigns(s[i], u, r, b) /\ (b \in s[i].set[r].val <=> b \in v)
                            /\ \A j \in DOMAIN s : j > i => ~Assigns(s[j], u, r, b)
  BY DEF LeavesBit
<1> HIDE DEF st, m
<1>3. i \in DOMAIN st /\ Assigns(st[i], u, r, b) /\ (b \in st[i].set[r].val <=> b \in v)
  BY <1>1, <1>2
<1>4. ASSUME NEW j \in DOMAIN st, j > i
      PROVE  ~Assigns(st[j], u, r, b)
  <2>1. CASE j <= m
    <3>1. j \in DOMAIN s /\ st[j] = s[j]
      BY <1>1, <1>4, <2>1
    <3> QED
      BY <1>2, <1>4, <3>1
  <2>2. CASE j > m
    <3>1. j - m \in DOMAIN t /\ j = m + (j - m)
      BY <1>1, <1>4, <2>2
    <3>2. st[j] = t[j - m]
      BY <1>1, <3>1
    <3> QED
      BY <3>1, <3>2 DEF Spares
  <2> QED
    BY <1>1, <2>1, <2>2
<1> QED
  BY <1>3, <1>4 DEF LeavesBit, st

LEMMA SparedByBoth ==
  ASSUME NEW S, NEW s \in Seq(S), NEW t \in Seq(S), NEW u, NEW r, NEW b,
         Spares(s, u, r, b), Spares(t, u, r, b)
  PROVE  Spares(s \o t, u, r, b)
<1> DEFINE st == s \o t
           m == Len(s)
<1>1. /\ m \in Nat /\ Len(t) \in Nat /\ DOMAIN t = 1..Len(t) /\ DOMAIN st = 1..(m + Len(t))
      /\ \A i \in 1..Len(t) : st[m + i] = t[i]
      /\ DOMAIN s = 1..m /\ \A i \in 1..m : st[i] = s[i]
  BY ConcatProperties
<1> HIDE DEF st, m
<1>2. ASSUME NEW j \in DOMAIN st
      PROVE  ~Assigns(st[j], u, r, b)
  <2>1. CASE j <= m
    <3>1. j \in DOMAIN s /\ st[j] = s[j]
      BY <1>1, <2>1
    <3> QED
      BY <3>1 DEF Spares
  <2>2. CASE j > m
    <3>1. j - m \in DOMAIN t /\ j = m + (j - m)
      BY <1>1, <2>2
    <3>2. st[j] = t[j - m]
      BY <1>1, <3>1
    <3> QED
      BY <3>1, <3>2 DEF Spares
  <2> QED
    BY <1>1, <2>1, <2>2
<1> QED
  BY <1>2 DEF Spares, st

LEMMA QuietSpares ==
  ASSUME NEW ops
  PROVE  /\ ops \in Seq(LeavesSettled) =>
              \A r \in Settled, b \in 0..15 : Spares(ops, "chip", r, b)
         /\ ops \in Seq(Quiet) =>
              /\ Spares(ops, "tuner", 5, 7)
              /\ \A r \in Settled, b \in 0..15 : Spares(ops, "chip", r, b)
<1>1. ASSUME ops \in Seq(LeavesSettled), NEW r \in Settled, NEW b
      PROVE  Spares(ops, "chip", r, b)
  <2>1. \A i \in DOMAIN ops : ops[i] \in LeavesSettled
    BY <1>1
  <2> QED
    BY <1>1, <2>1 DEF Spares, Assigns, LeavesSettled
<1>2. ASSUME ops \in Seq(Quiet)
      PROVE  Spares(ops, "tuner", 5, 7)
  <2>1. \A i \in DOMAIN ops : ops[i] \in Quiet
    BY <1>2
  <2> QED
    BY <2>1 DEF Spares, Assigns, Quiet
<1>3. ops \in Seq(Quiet) => ops \in Seq(LeavesSettled)
  BY QuietOps
<1> QED
  BY <1>1, <1>2, <1>3

\* What a write without a mask says of a register it names once.
LEMMA WritesSay ==
  ASSUME NEW n \in Nat, NEW rows, DOMAIN rows = 1..n, NEW k \in 1..n,
         \A i \in 1..n : rows[i][1] = rows[k][1] => i = k
  PROVE  /\ rows[k][1] \in DOMAIN Writes(rows).set
         /\ Writes(rows).set[rows[k][1]] = [val |-> BitsOf(rows[k][2]), mask |-> 0..15]
<1> DEFINE full == [i \in 1..n |-> <<rows[i][1], rows[i][2], 65535>>]
           op == Batch("chip", full)
           r == rows[k][1]
<1>1. Writes(rows) = op
  BY DEF Writes
<1>2. DOMAIN full = 1..n
  OBVIOUS
<1>3. DOMAIN full = 1..n
      /\ \A i \in 1..n : full[i][1] = rows[i][1] /\ full[i][2] = rows[i][2] /\ full[i][3] = 65535
  OBVIOUS
<1> HIDE DEF full
<1>4. r \in DOMAIN op.set
  BY <1>3 DEF Batch
<1>5. \A q \in DOMAIN op.set : \E i \in DOMAIN full :
        /\ full[i][1] = q
        /\ op.set[q] = [val |-> BitsOf(full[i][2]), mask |-> BitsOf(full[i][3])]
  BY BatchSays
<1> HIDE DEF op
<1>6. op.set[r] = [val |-> BitsOf(full[k][2]), mask |-> BitsOf(full[k][3])]
  <2>1. PICK i \in 1..n :
          /\ full[i][1] = r
          /\ op.set[r] = [val |-> BitsOf(full[i][2]), mask |-> BitsOf(full[i][3])]
    BY <1>4, <1>5, <1>2
  <2>2. \A j \in 1..n : full[j][1] = rows[j][1]
    BY <1>3
  <2>3. i = k
    BY <2>1, <2>2
  <2> QED
    BY <2>1, <2>3
<1>7. full[k][2] = rows[k][2] /\ BitsOf(full[k][3]) = 0..15
  BY <1>3, WholeWord
<1> QED
  BY <1>1, <1>4, <1>6, <1>7

\* What Streaming asks of the bits that are set before the tuner is.
FixedBits(ops) ==
  /\ LeavesBit(ops, "chip", "ZeroIF", 0, {}) /\ LeavesBit(ops, "chip", "ADCInput", 7, {})
  /\ LeavesBit(ops, "chip", "AGCEnable", 0, {})
  /\ \A b \in 0..15 : LeavesBit(ops, "chip", "AGCLoop", b, {})
  /\ \A b \in 0..15 : LeavesBit(ops, "chip", "SpectrumInv", b, {0})

LEMMA FixedStay ==
  ASSUME NEW S, S \subseteq Operation, NEW s \in Seq(Operation), NEW t \in Seq(LeavesSettled),
         FixedBits(s)
  PROVE  FixedBits(s \o t)
<1>1. s \in Seq(Operation) /\ t \in Seq(Operation)
  BY QuietOps
<1>2. \A r \in Settled, b \in 0..15 : Spares(t, "chip", r, b)
  BY QuietSpares
<1>3. ASSUME NEW r \in Settled, NEW b \in 0..15, NEW v,
             LeavesBit(s, "chip", r, b, v)
      PROVE  LeavesBit(s \o t, "chip", r, b, v)
  BY <1>1, <1>2, <1>3, SparedStays
<1>4. /\ "ZeroIF" \in Settled /\ "ADCInput" \in Settled /\ "AGCEnable" \in Settled
      /\ "AGCLoop" \in Settled /\ "SpectrumInv" \in Settled
  BY DEF Settled
<1> QED
  BY <1>3, <1>4 DEF FixedBits

\* A write of n rows assigns all bits of the registers it names, none of others.
LEMMA WriteLeaves ==
  ASSUME NEW n \in Nat, NEW rows, DOMAIN rows = 1..n, NEW k \in 1..n,
         \A i \in 1..n : rows[i][1] = rows[k][1] => i = k, NEW b \in 0..15
  PROVE  /\ Assigns(Writes(rows), "chip", rows[k][1], b)
         /\ b \in Writes(rows).set[rows[k][1]].val <=> b \in BitsOf(rows[k][2])
<1> DEFINE op == Writes(rows)
           r == rows[k][1]
<1>1. r \in DOMAIN op.set /\ op.set[r] = [val |-> BitsOf(rows[k][2]), mask |-> 0..15]
  BY WritesSay
<1>2. op.unit = "chip"
  BY WritesChip
<1> HIDE DEF op, r
<1>3. Assigns(op, "chip", r, b) /\ (b \in op.set[r].val <=> b \in BitsOf(rows[k][2]))
  BY <1>1, <1>2 DEF Assigns
<1> QED
  BY <1>3 DEF op, r

LEMMA WriteSpares ==
  ASSUME NEW n \in Nat, NEW rows, DOMAIN rows = 1..n, NEW r, NEW b,
         \A i \in 1..n : rows[i][1] # r
  PROVE  ~Assigns(Writes(rows), "chip", r, b)
<1> DEFINE full == [i \in 1..n |-> <<rows[i][1], rows[i][2], 65535>>]
<1>1. Writes(rows) = Batch("chip", full)
  BY DEF Writes
<1>2. DOMAIN full = 1..n /\ \A i \in 1..n : full[i][1] = rows[i][1]
  OBVIOUS
<1> HIDE DEF full
<1>3. DOMAIN Batch("chip", full).set = {full[i][1] : i \in 1..n}
  BY <1>2 DEF Batch
<1> QED
  BY <1>1, <1>2, <1>3 DEF Assigns

\* The last operation of a sequence.
LEMMA LastLeaves ==
  ASSUME NEW S, NEW s \in Seq(S), NEW op \in S, NEW u, NEW r, NEW b, NEW v,
         Assigns(op, u, r, b), b \in op.set[r].val <=> b \in v
  PROVE  LeavesBit(s \o <<op>>, u, r, b, v)
<1>1. <<op>> \in Seq(S) /\ DOMAIN <<op>> = {1} /\ <<op>>[1] = op
  OBVIOUS
<1>2. LeavesBit(<<op>>, u, r, b, v)
  BY <1>1 DEF LeavesBit
<1> QED
  BY <1>1, <1>2, LaterLeaves

LEMMA InitChipLeaves ==
  /\ LeavesBit(InitChip, "chip", "AGCEnable", 0, {})
  /\ \A b \in 0..15 : LeavesBit(InitChip, "chip", "AGCLoop", b, {})
<1> DEFINE r5 == <<<<"FIR", 1>>, <<"SDRMode", 5>>, <<"FSM1", \hf0>>, <<"FSM2", \h0f>>,
                   <<"AGCEnable", 0>>, <<"AGCLoop", 0>>, <<"PIDFilter", \h60>>,
                   <<"ADCDatapath", \h80>>, <<"ZeroIF", \h1b>>, <<"ClockOutput", \h83>>>>
           op == Writes(r5)
           n == Len(InitChip)
<1>1. n \in Nat /\ n >= 1 /\ DOMAIN InitChip = 1..n /\ InitChip[n] = op
  <2> DEFINE head == <<Writes(<<<<"SYSCTL", \h09>>, <<"EPA_MAXPKT", 2>>, <<"EPA_CTL", \h1002>>>>),
                       Writes(<<<<"DEMOD_CTL1", \h22>>, <<"DEMOD_CTL", \he8>>>>)>>
             w3 == Writes(<<<<"SpectrumInv", 0>>, <<"ACRHi", 0>>, <<"ACRLo", 0>>>>)
             w4 == Writes([i \in 1..6 |->
                            <<<<"ACRHi", "ACRLo", "DDC", "IFFreqHi", "IFFreqMid", "IFFreqLo">>[i], 0>>])
  <2>1. InitChip = head \o ResetDemod \o <<w3, w4, op>>
    BY DEF InitChip
  <2>2. InitChip \in Seq(Operation)
    BY InitChipPiece DEF Piece
  <2>3. ResetDemod \in Seq(Operation)
    BY ResetDemodPiece, QuietOps DEF Piece
  <2> DEFINE S == {head[1], head[2], w3, w4, op} \cup Operation
  <2> HIDE DEF w3, w4, op
  <2>4. head \in Seq(S) /\ ResetDemod \in Seq(S) /\ <<w3, w4, op>> \in Seq(S)
    <3>1. ResetDemod \in Seq(S)
      BY <2>3
    <3>2. <<w3, w4, op>> \in Seq(S)
      OBVIOUS
    <3>3. head \in Seq(S)
      BY DEF head
    <3> QED
      BY <3>1, <3>2, <3>3
  <2> HIDE DEF head, S
  <2>5. head \o ResetDemod \in Seq(S)
    BY <2>4
  <2>6. LET s == head \o ResetDemod
            t == <<w3, w4, op>>
        IN /\ Len(s \o t) = Len(s) + 3 /\ Len(s) \in Nat /\ (s \o t)[Len(s) + 3] = t[3]
           /\ DOMAIN (s \o t) = 1..(Len(s) + 3)
    BY <2>4, <2>5, ConcatProperties
  <2> QED
    BY <2>1, <2>6
<1>2. DOMAIN r5 = 1..10
  OBVIOUS
<1>3. r5[5] = <<"AGCEnable", 0>> /\ \A i \in 1..10 : r5[i][1] = "AGCEnable" => i = 5
  OBVIOUS
<1>4. r5[6] = <<"AGCLoop", 0>> /\ \A i \in 1..10 : r5[i][1] = "AGCLoop" => i = 6
  OBVIOUS
<1> HIDE DEF r5
<1>5. ASSUME NEW b \in 0..15, NEW r \in {"AGCEnable", "AGCLoop"}
      PROVE  Assigns(op, "chip", r, b) /\ b \notin op.set[r].val
  <2>1. ASSUME NEW k \in {5, 6}
        PROVE  /\ Assigns(op, "chip", r5[k][1], b)
               /\ b \in op.set[r5[k][1]].val <=> b \in BitsOf(r5[k][2])
    <3>1. k \in 1..10 /\ 10 \in Nat /\ \A i \in 1..10 : r5[i][1] = r5[k][1] => i = k
      BY <1>3, <1>4
    <3>2. /\ Assigns(Writes(r5), "chip", r5[k][1], b)
          /\ b \in Writes(r5).set[r5[k][1]].val <=> b \in BitsOf(r5[k][2])
      BY <1>2, <3>1, WriteLeaves, Zenon
    <3> QED
      BY <3>2
  <2> HIDE DEF op
  <2>2. CASE r = "AGCEnable"
    BY <1>3, <2>1, <2>2, NoBits
  <2>3. CASE r = "AGCLoop"
    BY <1>4, <2>1, <2>3, NoBits
  <2> QED
    BY <1>5, <2>2, <2>3
<1> HIDE DEF op, n
<1>6. ASSUME NEW b \in 0..15, NEW r \in {"AGCEnable", "AGCLoop"}
      PROVE  LeavesBit(InitChip, "chip", r, b, {})
  <2>1. n \in DOMAIN InitChip /\ \A j \in DOMAIN InitChip : ~(j > n)
    BY <1>1
  <2>2. Assigns(InitChip[n], "chip", r, b) /\ b \notin InitChip[n].set[r].val
    BY <1>1, <1>5, <1>6
  <2> QED
    BY <2>1, <2>2 DEF LeavesBit
<1> QED
  BY <1>6

\* One operation that assigns the bit, and nothing after it that does.
LEMMA FirstLeaves ==
  ASSUME NEW S, NEW op \in S, NEW t \in Seq(S), NEW u, NEW r, NEW b, NEW v,
         Assigns(op, u, r, b), b \in op.set[r].val <=> b \in v, Spares(t, u, r, b)
  PROVE  LeavesBit(<<op>> \o t, u, r, b, v)
<1>1. <<op>> \in Seq(S) /\ DOMAIN <<op>> = {1} /\ <<op>>[1] = op
  OBVIOUS
<1>2. LeavesBit(<<op>>, u, r, b, v)
  BY <1>1 DEF LeavesBit
<1> QED
  BY <1>1, <1>2, SparedStays

LEMMA OneSpares ==
  ASSUME NEW S, NEW op \in S, NEW u, NEW r, NEW b, ~Assigns(op, u, r, b)
  PROVE  <<op>> \in Seq(S) /\ Spares(<<op>>, u, r, b)
BY DEF Spares

LEMMA R820TLeaves ==
  /\ LeavesBit(ConfigureForR820T, "chip", "ZeroIF", 0, {})
  /\ LeavesBit(ConfigureForR820T, "chip", "ADCInput", 7, {})
  /\ \A b \in 0..15 : LeavesBit(ConfigureForR820T, "chip", "SpectrumInv", b, {0})
  /\ \A b \in 0..15, r \in {"AGCEnable", "AGCLoop"} : Spares(ConfigureForR820T, "chip", r, b)
<1> DEFINE r1 == <<<<"ZeroIF", \h1a>>, <<"ADCInput", \h4d>>>>
           r2 == <<<<"SpectrumInv", 1>>>>
           f == WriteDemodIFFreq(3570)
           a == Writes(r1)
           z == Writes(r2)
<1>1. ConfigureForR820T = <<a>> \o f \o <<z>>
  BY DEF ConfigureForR820T
<1>2. f \in Seq(Quiet) /\ f \in Seq(Operation) /\ \A r \in Settled, b \in 0..15 : Spares(f, "chip", r, b)
  BY WriteDemodIFFreqPiece, QuietSpares, QuietOps DEF Piece
<1>3. /\ DOMAIN r1 = 1..2 /\ r1[1] = <<"ZeroIF", 26>> /\ r1[2] = <<"ADCInput", 77>>
      /\ DOMAIN r2 = 1..1 /\ r2[1] = <<"SpectrumInv", 1>>
  OBVIOUS
<1> HIDE DEF r1, r2, f
<1>4. a \in Operation /\ z \in Operation
  <2>1. /\ 2 \in Nat /\ \A i \in 1..2 : r1[i][1] \in BasebandRegs
        /\ 1 \in Nat /\ \A i \in 1..1 : r2[i][1] \in BasebandRegs
    BY <1>3, BasebandHas DEF Settled
  <2> QED
    BY <1>3, <2>1, WritesIsOp
<1>5. ASSUME NEW b \in 0..15
      PROVE  /\ Assigns(a, "chip", r1[1][1], b) /\ (b \in a.set[r1[1][1]].val <=> b \in BitsOf(r1[1][2]))
             /\ Assigns(a, "chip", r1[2][1], b) /\ (b \in a.set[r1[2][1]].val <=> b \in BitsOf(r1[2][2]))
  <2>1. 2 \in Nat /\ 1 \in 1..2 /\ 2 \in 1..2
    OBVIOUS
  <2>2. /\ \A i \in 1..2 : r1[i][1] = r1[1][1] => i = 1
        /\ \A i \in 1..2 : r1[i][1] = r1[2][1] => i = 2
    BY <1>3
  <2> QED
    BY <1>3, <2>1, <2>2, WriteLeaves, Zenon
<1>6. ASSUME NEW b \in 0..15
      PROVE  Assigns(z, "chip", r2[1][1], b) /\ (b \in z.set[r2[1][1]].val <=> b \in BitsOf(r2[1][2]))
  <2>1. 1 \in Nat /\ 1 \in 1..1 /\ \A i \in 1..1 : r2[i][1] = r2[1][1] => i = 1
    OBVIOUS
  <2> QED
    BY <1>3, <2>1, WriteLeaves, Zenon
<1>7. ASSUME NEW b \in 0..15
      PROVE  /\ \A r \in {"AGCEnable", "AGCLoop"} : ~Assigns(a, "chip", r, b)
             /\ \A r \in {"AGCEnable", "AGCLoop", "ZeroIF", "ADCInput"} : ~Assigns(z, "chip", r, b)
  <2>1. \A r \in {"AGCEnable", "AGCLoop"} : \A i \in 1..2 : r1[i][1] # r
    BY <1>3
  <2>2. \A r \in {"AGCEnable", "AGCLoop", "ZeroIF", "ADCInput"} : \A i \in 1..1 : r2[i][1] # r
    BY <1>3
  <2>3. 1 \in Nat /\ 2 \in Nat
    OBVIOUS
  <2> QED
    BY <1>3, <2>1, <2>2, <2>3, WriteSpares, Zenon
<1> HIDE DEF a, z
<1>8. <<a>> \in Seq(Operation) /\ <<z>> \in Seq(Operation) /\ <<a>> \o f \in Seq(Operation)
  BY <1>2, <1>4
<1>9. ASSUME NEW b \in 0..15, NEW r \in {"ZeroIF", "ADCInput"}, NEW v,
             Assigns(a, "chip", r, b), b \in a.set[r].val <=> b \in v
      PROVE  LeavesBit(ConfigureForR820T, "chip", r, b, v)
  <2>1. Spares(f, "chip", r, b)
    BY <1>2 DEF Settled
  <2>2. LeavesBit(<<a>> \o f, "chip", r, b, v)
    BY <1>2, <1>4, <1>9, <2>1, FirstLeaves
  <2>3. Spares(<<z>>, "chip", r, b)
    BY <1>4, <1>7, OneSpares
  <2> QED
    BY <1>1, <1>8, <2>2, <2>3, SparedStays
<1>10. LeavesBit(ConfigureForR820T, "chip", "ZeroIF", 0, {})
  <2>1. Assigns(a, "chip", "ZeroIF", 0) /\ (0 \in a.set["ZeroIF"].val <=> 0 \in {})
    BY <1>3, <1>5, SomeBits
  <2> QED
    BY <1>9, <2>1
<1>11. LeavesBit(ConfigureForR820T, "chip", "ADCInput", 7, {})
  <2>1. Assigns(a, "chip", "ADCInput", 7) /\ (7 \in a.set["ADCInput"].val <=> 7 \in {})
    BY <1>3, <1>5, SomeBits
  <2> QED
    BY <1>9, <2>1
<1>12. ASSUME NEW b \in 0..15
       PROVE  LeavesBit(ConfigureForR820T, "chip", "SpectrumInv", b, {0})
  <2>1. Assigns(z, "chip", "SpectrumInv", b) /\ (b \in z.set["SpectrumInv"].val <=> b \in {0})
    BY <1>3, <1>6, OneBit
  <2> QED
    BY <1>1, <1>4, <1>8, <2>1, LastLeaves
<1>13. ASSUME NEW b \in 0..15, NEW r \in {"AGCEnable", "AGCLoop"}
       PROVE  Spares(ConfigureForR820T, "chip", r, b)
  <2>1. Spares(f, "chip", r, b)
    BY <1>2 DEF Settled
  <2>2. Spares(<<a>>, "chip", r, b) /\ Spares(<<z>>, "chip", r, b)
    BY <1>4, <1>7, OneSpares
  <2>3. Spares(<<a>> \o f, "chip", r, b)
    BY <1>2, <1>8, <2>1, <2>2, SparedByBoth
  <2> QED
    BY <1>1, <1>8, <2>2, <2>3, SparedByBoth
<1> QED
  BY <1>10, <1>11, <1>12, <1>13

LEMMA HeadLeaves ==
  LET s == InitChip \o ConfigureForR820T IN Piece(s, Operation) /\ FixedBits(s)
<1> DEFINE s == InitChip \o ConfigureForR820T
<1>1. InitChip \in Seq(Operation) /\ ConfigureForR820T \in Seq(Operation)
  BY InitChipPiece, ConfigureForR820TPiece DEF Piece
<1>2. Piece(s, Operation)
  BY InitChipPiece, ConfigureForR820TPiece, PiecesJoin
<1>3. LeavesBit(s, "chip", "ZeroIF", 0, {}) /\ LeavesBit(s, "chip", "ADCInput", 7, {})
  BY <1>1, R820TLeaves, LaterLeaves
<1>4. \A b \in 0..15 : LeavesBit(s, "chip", "SpectrumInv", b, {0})
  BY <1>1, R820TLeaves, LaterLeaves
<1>5. LeavesBit(s, "chip", "AGCEnable", 0, {})
  BY <1>1, R820TLeaves, InitChipLeaves, SparedStays
<1>6. \A b \in 0..15 : LeavesBit(s, "chip", "AGCLoop", b, {})
  BY <1>1, R820TLeaves, InitChipLeaves, SparedStays
<1> QED
  BY <1>2, <1>3, <1>4, <1>5, <1>6 DEF FixedBits

\* The second batch of NewR860 turns the loop-through off, the rest leave it.
LEMMA NewR860Leaves == LeavesBit(NewR860, "tuner", 5, 7, {})
<1> DEFINE r0 == [i \in 1..Len(InitValues) |-> <<i + 4, InitValues[i], 255>>]
           b0 == Batch("tuner", r0)
           b1 == Batch("tuner", SetTVStandard)
           b2 == Batch("tuner", SysFreqSel)
           b3 == Batch("tuner", DigitalTV1)
           b4 == Batch("tuner", DigitalTV2)
           w == Writes(<<<<"SoftReset", \h18>>>>)
           z == Writes(<<<<"SoftReset", \h10>>>>)
           body == <<b0, b1, b2, b3, b4>>
           first == WithRepeater(<<TunerReads>>)
<1>1. NewR860 = first \o (<<w>> \o body \o <<z>>)
  BY DEF NewR860, WithRepeater
<1>2. DOMAIN SetTVStandard = 1..10 /\ SetTVStandard[7] = <<5, 0, 128>>
      /\ \A i \in 1..10 : SetTVStandard[i][1] \in R860Regs /\ (SetTVStandard[i][1] = 5 => i = 7)
  BY DEF SetTVStandard, R860Regs
<1>3. DOMAIN SysFreqSel = 1..9
      /\ \A i \in 1..9 : SysFreqSel[i][1] \in R860Regs
                         /\ (SysFreqSel[i][1] = 5 => SysFreqSel[i][3] = 96)
  BY DEF SysFreqSel, R860Regs
<1>4. DOMAIN DigitalTV1 = 1..4 /\ \A i \in 1..4 : DigitalTV1[i][1] \in R860Regs /\ DigitalTV1[i][1] # 5
  BY DEF DigitalTV1, R860Regs
<1>5. DOMAIN DigitalTV2 = 1..4 /\ \A i \in 1..4 : DigitalTV2[i][1] \in R860Regs /\ DigitalTV2[i][1] # 5
  BY DEF DigitalTV2, R860Regs
<1>6. b2 \in Quiet
  <2> DEFINE rows == SysFreqSel
  <2>1. /\ 9 \in Nat /\ DOMAIN rows = 1..9
        /\ \A i \in 1..9 : rows[i][1] \in R860Regs /\ (rows[i][1] = 5 => 7 \notin BitsOf(rows[i][3]))
    BY <1>3, SomeBits
  <2> QED
    BY <2>1, TunerBatchQuiet
<1>7. b3 \in Quiet /\ b4 \in Quiet
  BY <1>4, <1>5, TunerBatchQuiet
<1>8. b1.unit = "tuner" /\ 5 \in DOMAIN b1.set /\ b1.set[5] = [val |-> BitsOf(0), mask |-> BitsOf(128)]
  <2> DEFINE rows == SetTVStandard
  <2>1. b1.unit = "tuner" /\ 5 \in DOMAIN b1.set
    BY <1>2 DEF Batch
  <2>2. \A q \in DOMAIN b1.set : \E i \in DOMAIN rows :
          /\ rows[i][1] = q
          /\ b1.set[q] = [val |-> BitsOf(rows[i][2]), mask |-> BitsOf(rows[i][3])]
    BY BatchSays
  <2> HIDE DEF b1
  <2>3. PICK i \in 1..10 :
          /\ rows[i][1] = 5
          /\ b1.set[5] = [val |-> BitsOf(rows[i][2]), mask |-> BitsOf(rows[i][3])]
    BY <1>2, <2>1, <2>2
  <2> QED
    BY <1>2, <2>1, <2>3
<1>9. Assigns(b1, "tuner", 5, 7) /\ 7 \notin b1.set[5].val
  <2> HIDE DEF b1
  <2> QED
    BY <1>8, NoBits, SomeBits DEF Assigns
<1>10. w \in Quiet /\ z \in Quiet /\ first \in Seq(Quiet)
  BY RepeaterOps, TunerReadsQuiet, OneOpBody DEF Piece
<1>11. b0 \in Operation /\ b1 \in Operation
  <2>1. Len(InitValues) = 27
    BY DEF InitValues
  <2>2. DOMAIN r0 = 1..27 /\ \A i \in 1..27 : r0[i][1] \in R860Regs
    BY <2>1 DEF R860Regs
  <2> HIDE DEF r0
  <2> QED
    BY <1>2, <2>2, BatchIsOp, RadioAssumption DEF RegsOf
<1> HIDE DEF b0, b1, b2, b3, b4, w, z, first
<1>12. /\ b2 \in Operation /\ b3 \in Operation /\ b4 \in Operation
       /\ w \in Operation /\ z \in Operation /\ first \in Seq(Operation)
  BY <1>6, <1>7, <1>10, QuietOps
<1>13. LeavesBit(body, "tuner", 5, 7, {})
  <2>1. ~Assigns(b2, "tuner", 5, 7) /\ ~Assigns(b3, "tuner", 5, 7) /\ ~Assigns(b4, "tuner", 5, 7)
    BY <1>6, <1>7 DEF Quiet, Assigns
  <2>2. DOMAIN body = 1..5 /\ body[2] = b1 /\ body[3] = b2 /\ body[4] = b3 /\ body[5] = b4
    OBVIOUS
  <2> HIDE DEF body
  <2>3. \A j \in DOMAIN body : j > 2 => ~Assigns(body[j], "tuner", 5, 7)
    BY <2>1, <2>2
  <2> QED
    BY <1>9, <2>2, <2>3 DEF LeavesBit
<1>14. body \in Seq(Operation) /\ <<w>> \in Seq(Operation) /\ <<z>> \in Seq(Operation)
  BY <1>11, <1>12
<1>15. Spares(<<z>>, "tuner", 5, 7)
  <2>1. <<z>> \in Seq(Quiet)
    BY <1>10
  <2> QED
    BY <2>1, QuietSpares
<1> HIDE DEF body
<1>16. <<w>> \o body \in Seq(Operation) /\ <<w>> \o body \o <<z>> \in Seq(Operation)
  BY <1>14
<1>17. LeavesBit(<<w>> \o body, "tuner", 5, 7, {})
  BY <1>13, <1>14, LaterLeaves
<1>18. LeavesBit(<<w>> \o body \o <<z>>, "tuner", 5, 7, {})
  BY <1>14, <1>15, <1>16, <1>17, SparedStays
<1> QED
  BY <1>1, <1>12, <1>16, <1>18, LaterLeaves

\* A script that is set up so far: well formed, bracketed, with the bits in place.
SetUp(ops) == Piece(ops, Operation) /\ FixedBits(ops) /\ LeavesBit(ops, "tuner", 5, 7, {})

LEMMA SetUpStays ==
  ASSUME NEW s, NEW t, SetUp(s), Piece(t, Quiet)
  PROVE  SetUp(s \o t)
<1>1. /\ s \in Seq(Operation) /\ t \in Seq(Quiet) /\ t \in Seq(LeavesSettled) /\ t \in Seq(Operation)
      /\ Piece(t, Operation)
  BY QuietOps DEF SetUp, Piece
<1>2. Piece(s \o t, Operation)
  BY <1>1, PiecesJoin DEF SetUp
<1>3. FixedBits(s \o t)
  BY <1>1, FixedStay DEF SetUp
<1>4. LeavesBit(s \o t, "tuner", 5, 7, {})
  BY <1>1, QuietSpares, SparedStays DEF SetUp
<1> QED
  BY <1>2, <1>3, <1>4 DEF SetUp

LEMMA TunerSetUp == SetUp(InitChip \o ConfigureForR820T \o NewR860)
<1> DEFINE s == InitChip \o ConfigureForR820T
<1>1. Piece(s, Operation) /\ FixedBits(s)
  BY HeadLeaves
<1> HIDE DEF s
<1>2. s \in Seq(Operation) /\ NewR860 \in Seq(LeavesSettled) /\ NewR860 \in Seq(Operation)
      /\ Piece(NewR860, Operation)
  BY <1>1, NewR860Piece, QuietOps DEF Piece
<1>3. Piece(s \o NewR860, Operation)
  BY <1>1, <1>2, PiecesJoin
<1>4. FixedBits(s \o NewR860)
  BY <1>1, <1>2, FixedStay
<1>5. LeavesBit(s \o NewR860, "tuner", 5, 7, {})
  BY <1>2, NewR860Leaves, LaterLeaves
<1> QED
  BY <1>3, <1>4, <1>5 DEF SetUp, s

\* Everything up to the final reset.
BeforeReset(c, fineTune) ==
  InitChip \o ConfigureForR820T \o NewR860
  \o InitializeForSampleRate(c.rate) \o WriteDemodIFFreq(Bandwidth(c.rate).if)
  \o SetSampleRate(c.rate) \o SetCenterFreq(c, fineTune)
  \o ApplyTunerGain(c) \o ApplyTunerFilter(c) \o ApplyBiasTee(c)

LEMMA BeforeResetSetUp ==
  ASSUME NEW c, NEW fineTune
  PROVE  SetUp(BeforeReset(c, fineTune))
<1> DEFINE s1 == InitChip \o ConfigureForR820T \o NewR860
           s2 == s1 \o InitializeForSampleRate(c.rate)
           s3 == s2 \o WriteDemodIFFreq(Bandwidth(c.rate).if)
           s4 == s3 \o SetSampleRate(c.rate)
           s5 == s4 \o SetCenterFreq(c, fineTune)
           s6 == s5 \o ApplyTunerGain(c)
           s7 == s6 \o ApplyTunerFilter(c)
           s8 == s7 \o ApplyBiasTee(c)
<1>1. BeforeReset(c, fineTune) = s8
  BY DEF BeforeReset
<1>2. SetUp(s1)
  BY TunerSetUp
<1> HIDE DEF s1
<1>3. SetUp(s2)
  BY <1>2, SetUpStays, InitializeForSampleRatePiece
<1> HIDE DEF s2
<1>4. SetUp(s3)
  BY <1>3, SetUpStays, WriteDemodIFFreqPiece
<1> HIDE DEF s3
<1>5. SetUp(s4)
  BY <1>4, SetUpStays, SetSampleRatePiece
<1> HIDE DEF s4
<1>6. SetUp(s5)
  <2>1. Piece(SetCenterFreq(c, fineTune), Quiet)
    BY SetFreqPiece DEF SetCenterFreq
  <2> QED
    BY <1>5, <2>1, SetUpStays
<1> HIDE DEF s5
<1>7. SetUp(s6)
  BY <1>6, SetUpStays, ApplyTunerGainPiece
<1> HIDE DEF s6
<1>8. SetUp(s7)
  BY <1>7, SetUpStays, ApplyTunerFilterPiece
<1> HIDE DEF s7
<1>9. SetUp(s8)
  <2>1. Piece(ApplyBiasTee(c), Quiet)
    BY BiasTeePiece, IfGivenPiece DEF ApplyBiasTee
  <2> QED
    BY <1>8, <2>1, SetUpStays
<1> QED
  BY <1>1, <1>9

LEMMA OneWriteLeaves ==
  ASSUME NEW r \in BasebandRegs, NEW n \in Nat
  PROVE  LET op == Writes(<<<<r, n>>>>)
         IN /\ op \in Operation /\ op.unit = "chip" /\ DOMAIN op.set = {r}
            /\ op.set[r] = [val |-> BitsOf(n), mask |-> 0..15]
<1> DEFINE rows == <<<<r, n>>>>
<1>1. 1 \in Nat /\ DOMAIN rows = 1..1 /\ \A i \in 1..1 : rows[i][1] \in BasebandRegs
  OBVIOUS
<1> HIDE DEF rows
<1>2. Writes(rows) \in Operation
  BY <1>1, WritesIsOp
<1> QED
  BY <1>2, OneWrite DEF rows

\* The buffer's reset stops the endpoint and restarts it, then pulses the reset.
LEMMA ResetSampleBufferEnds ==
  LET n == Len(ResetSampleBuffer)
  IN /\ ResetSampleBuffer \in Seq(Operation) /\ n = 4
     /\ \A b \in 0..15 : LeavesBit(ResetSampleBuffer, "chip", "EPA_CTL", b, {})
     /\ \A b \in 0..15 : LeavesBit(ResetSampleBuffer, "chip", "SoftReset", b, {4})
     /\ EndsInReset(ResetSampleBuffer)
<1> DEFINE a1 == Writes(<<<<"EPA_CTL", \h1002>>>>)
           a2 == Writes(<<<<"EPA_CTL", 0>>>>)
           d1 == Writes(<<<<"SoftReset", \h14>>>>)
           d2 == Writes(<<<<"SoftReset", \h10>>>>)
           ops == ResetSampleBuffer
<1>1. "EPA_CTL" \in BasebandRegs /\ "SoftReset" \in BasebandRegs
  BY BasebandHas
<1> DEFINE W(r, n) == Writes(<<<<r, n>>>>)
           Sets(op, r, n) == /\ op \in Operation /\ op.unit = "chip" /\ DOMAIN op.set = {r}
                             /\ op.set[r] = [val |-> BitsOf(n), mask |-> 0..15]
<1>2. ASSUME NEW r \in BasebandRegs, NEW n \in Nat
      PROVE  Sets(W(r, n), r, n)
  BY OneWriteLeaves
<1>3. a1 = W("EPA_CTL", \h1002) /\ a2 = W("EPA_CTL", 0)
      /\ d1 = W("SoftReset", \h14) /\ d2 = W("SoftReset", \h10)
  OBVIOUS
<1>4. ops = <<a1, a2>> \o <<d1, d2>>
  BY DEF ResetSampleBuffer, ResetDemod
<1> HIDE DEF W, Sets, a1, a2, d1, d2, ops
<1>5. Sets(a1, "EPA_CTL", \h1002) /\ Sets(a2, "EPA_CTL", 0)
  BY <1>1, <1>2, <1>3
<1>6. Sets(d1, "SoftReset", \h14) /\ Sets(d2, "SoftReset", \h10)
  BY <1>1, <1>2, <1>3
<1>7. /\ ops \in Seq(Operation) /\ Len(ops) = 4 /\ DOMAIN ops = 1..4
      /\ ops[1] = a1 /\ ops[2] = a2 /\ ops[3] = d1 /\ ops[4] = d2
  <2> DEFINE s == <<a1, a2>>
             t == <<d1, d2>>
  <2>1. /\ s \in Seq(Operation) /\ Len(s) = 2 /\ s[1] = a1 /\ s[2] = a2
        /\ t \in Seq(Operation) /\ Len(t) = 2 /\ t[1] = d1 /\ t[2] = d2
    BY <1>5, <1>6 DEF Sets
  <2> HIDE DEF s, t
  <2>2. /\ s \o t \in Seq(Operation) /\ Len(s \o t) = 2 + 2
        /\ \A i \in 1..(2 + 2) : (s \o t)[i] = IF i <= 2 THEN s[i] ELSE t[i - 2]
    <3>1. /\ s \o t \in Seq(Operation) /\ Len(s \o t) = Len(s) + Len(t)
          /\ \A i \in 1..(Len(s) + Len(t)) :
               (s \o t)[i] = IF i <= Len(s) THEN s[i] ELSE t[i - Len(s)]
      BY <2>1, ConcatProperties
    <3> QED
      BY <2>1, <3>1
  <2>3. ops = s \o t
    BY <1>4 DEF s, t
  <2> HIDE DEF ops
  <2>4. Len(ops) = 4 /\ ops[1] = s[1] /\ ops[2] = s[2] /\ ops[3] = t[1] /\ ops[4] = t[2]
    BY <2>2, <2>3
  <2> QED
    BY <2>1, <2>2, <2>3, <2>4
<1>8. ASSUME NEW b \in 0..15
      PROVE  LeavesBit(ops, "chip", "EPA_CTL", b, {})
  <2>1. Assigns(ops[2], "chip", "EPA_CTL", b) /\ b \notin ops[2].set["EPA_CTL"].val
    BY <1>5, <1>7, NoBits DEF Assigns, Sets
  <2>2. \A j \in DOMAIN ops : j > 2 => ~Assigns(ops[j], "chip", "EPA_CTL", b)
    BY <1>6, <1>7 DEF Assigns, Sets
  <2> QED
    BY <1>7, <2>1, <2>2 DEF LeavesBit
<1>9. ASSUME NEW b \in 0..15
      PROVE  LeavesBit(ops, "chip", "SoftReset", b, {4})
  <2>1. Assigns(ops[4], "chip", "SoftReset", b) /\ (b \in ops[4].set["SoftReset"].val <=> b \in {4})
    BY <1>6, <1>7, OneBit DEF Assigns, Sets
  <2> QED
    BY <1>7, <2>1 DEF LeavesBit
<1>10. EndsInReset(ops)
  <2>1. SoftReset = "SoftReset" /\ ResetBit \in BitsOf(20) /\ ResetBit \in 0..15
        /\ RepeaterBit \in 0..15 /\ {ResetBit, RepeaterBit} \cap BitsOf(16) = {}
    BY RadioAssumption, SomeBits, OneBit DEF ResetBit, RepeaterBit
  <2>2. /\ d1.unit = "chip" /\ DOMAIN d1.set = {SoftReset}
        /\ d1.set[SoftReset].val = BitsOf(20) /\ d1.set[SoftReset].mask = 0..15
    BY <1>6, <2>1 DEF Sets
  <2>3. /\ d2.unit = "chip" /\ DOMAIN d2.set = {SoftReset}
        /\ d2.set[SoftReset].val = BitsOf(16) /\ d2.set[SoftReset].mask = 0..15
    BY <1>6, <2>1 DEF Sets
  <2>4. ResetBit \in d1.set[SoftReset].mask \cap d1.set[SoftReset].val
    BY <2>1, <2>2
  <2>5. {ResetBit, RepeaterBit} \subseteq d2.set[SoftReset].mask
        /\ {ResetBit, RepeaterBit} \cap d2.set[SoftReset].val = {}
    BY <2>1, <2>3
  <2> QED
    BY <1>7, <2>2, <2>3, <2>4, <2>5 DEF EndsInReset
<1> QED
  BY <1>7, <1>8, <1>9, <1>10 DEF ops

LEMMA EndsAsItsEnd ==
  ASSUME NEW s \in Seq(Operation), NEW t \in Seq(Operation), EndsInReset(t)
  PROVE  EndsInReset(s \o t)
<1> DEFINE st == s \o t
           m == Len(s)
<1>1. /\ m \in Nat /\ Len(t) \in Nat /\ Len(st) = m + Len(t) /\ Len(t) >= 2
      /\ \A i \in 1..Len(t) : st[m + i] = t[i]
  BY ConcatProperties DEF EndsInReset
<1> HIDE DEF st, m
<1>2. st[Len(st)] = t[Len(t)] /\ st[Len(st) - 1] = t[Len(t) - 1]
  <2>1. Len(t) \in 1..Len(t) /\ Len(t) - 1 \in 1..Len(t)
        /\ Len(st) = m + Len(t) /\ Len(st) - 1 = m + (Len(t) - 1)
    BY <1>1
  <2> QED
    BY <1>1, <2>1
<1>3. EndsInReset(st)
  BY <1>1, <1>2 DEF EndsInReset
<1> QED
  BY <1>3 DEF st

\* Whatever the options ask for and whatever the VCO's fine tune reads, even a
\* rate, a gain or a pin out of range: the script that is run is well formed,
\* touches the tuner only with the bridge open, ends in the reset pulse (tuner_r860.go:276,
\* init_chip.go:370), and leaves the endpoint and the demodulator as Streaming wants them.
THEOREM EveryScript ==
  ASSUME NEW c, NEW fineTune
  PROVE  LET ops == ConfigureChipAndTuner(c, fineTune)
         IN /\ SetUp(ops) /\ EndsInReset(ops)
            /\ \A b \in 0..15 : LeavesBit(ops, "chip", "EPA_CTL", b, {})
            /\ \A b \in 0..15 : LeavesBit(ops, "chip", "SoftReset", b, {4})
<1> DEFINE s == BeforeReset(c, fineTune)
           t == ResetSampleBuffer
<1>1. ConfigureChipAndTuner(c, fineTune) = s \o t
  BY DEF ConfigureChipAndTuner, BeforeReset
<1>2. SetUp(s) /\ s \in Seq(Operation)
  BY BeforeResetSetUp DEF SetUp, Piece
<1> HIDE DEF s
<1>3. /\ t \in Seq(Operation) /\ EndsInReset(t)
      /\ \A b \in 0..15 : LeavesBit(t, "chip", "EPA_CTL", b, {})
      /\ \A b \in 0..15 : LeavesBit(t, "chip", "SoftReset", b, {4})
  BY ResetSampleBufferEnds
<1>4. SetUp(s \o t)
  BY <1>2, ResetSampleBufferPiece, SetUpStays
<1> HIDE DEF t
<1>5. EndsInReset(s \o t)
  BY <1>2, <1>3, EndsAsItsEnd
<1>6. /\ \A b \in 0..15 : LeavesBit(s \o t, "chip", "EPA_CTL", b, {})
      /\ \A b \in 0..15 : LeavesBit(s \o t, "chip", "SoftReset", b, {4})
  BY <1>2, <1>3, LaterLeaves
<1> QED
  BY <1>1, <1>4, <1>5, <1>6

\* OpenFlow with the real scripts needs no hypothesis: a successful Open leaves
\* nothing that was written and not followed by a reset (init_chip.go:370).
THEOREM RadioSyncedLast == Spec => []SyncedLast
<1>1. \A k \in DOMAIN Script : EndsInReset(Script[k])
  <2> SUFFICES ASSUME NEW k \in DOMAIN Script
               PROVE  EndsInReset(ConfigureChipAndTuner(k[1], k[2]))
    BY RadioAssumption
  <2> QED
    BY EveryScript
<1> QED
  BY <1>1, ResetComesLast

----------------------------------------------------------------------------
(* The last write stands.                                                  *)

Held(u) == IF u = "chip" THEN chip ELSE shadow

\* Of what the operations up to n have assigned, the unit or its shadow holds the last.
HoldsLast(n) ==
  \A i \in DOMAIN Ops : i < n =>
    \A r \in DOMAIN Ops[i].set, b \in Bits :
      /\ Assigns(Ops[i], Ops[i].unit, r, b)
      /\ \A j \in DOMAIN Ops : i < j /\ j < n => ~Assigns(Ops[j], Ops[i].unit, r, b)
      => (b \in Held(Ops[i].unit)[r] <=> b \in Ops[i].set[r].val)

LastInv == pc \in {"configure", "opened"} => HoldsLast(at)

LEMMA ConfiguresLast ==
  ASSUME TypeOK, LastInv, Configures
  PROVE  LastInv'
<1> DEFINE op == Ops[at]
<1>1. /\ pc = "configure" /\ at \in DOMAIN Ops /\ at' = at + 1
      /\ Reaches(op, DOMAIN op.set) /\ Stores(op) /\ Ops' = Ops
  BY DEF Configures, callVars, Ops
<1>2. /\ IsOp(op) /\ Len(Ops) \in Nat /\ at \in 1..Len(Ops) /\ DOMAIN Ops = 1..Len(Ops)
      /\ \A i \in DOMAIN Ops : IsOp(Ops[i])
  BY <1>1, OpsFacts
\* What op does to the bits of its unit, and to the other's.
<1>3. ASSUME NEW u \in {"chip", "tuner"}, NEW r \in IF u = "chip" THEN ChipRegs ELSE TunerRegs
      PROVE  Held(u)'[r] = IF op.unit = u /\ r \in DOMAIN op.set
                           THEN Merged(Held(u)[r], op.set[r]) ELSE Held(u)[r]
  <2>1. CASE u = "chip"
    <3>1. Held(u) = chip /\ Held(u)' = chip' /\ r \in DOMAIN chip
      BY <1>3, <2>1 DEF Held, TypeOK
    <3>2. CASE op.unit = "chip"
      BY <1>1, <2>1, <3>1, <3>2 DEF Reaches, Written
    <3>3. CASE op.unit # "chip"
      BY <1>1, <2>1, <3>1, <3>3 DEF Reaches
    <3> QED  BY <3>2, <3>3
  <2>2. CASE u = "tuner"
    <3>1. Held(u) = shadow /\ Held(u)' = shadow' /\ r \in DOMAIN shadow
      BY <1>3, <2>2 DEF Held, TypeOK
    <3>2. CASE op.unit = "tuner"
      BY <1>1, <2>2, <3>1, <3>2 DEF Stores, Written
    <3>3. CASE op.unit # "tuner"
      BY <1>1, <2>2, <3>1, <3>3 DEF Stores
    <3> QED  BY <3>2, <3>3
  <2> QED
    BY <2>1, <2>2
<1>4. ASSUME NEW i \in DOMAIN Ops, i < at + 1, NEW r \in DOMAIN Ops[i].set, NEW b \in Bits,
             NEW u, u = Ops[i].unit, Assigns(Ops[i], u, r, b),
             \A j \in DOMAIN Ops : i < j /\ j < at + 1 => ~Assigns(Ops[j], u, r, b)
      PROVE  b \in Held(u)'[r] <=> b \in Ops[i].set[r].val
  <2>1. u \in {"chip", "tuner"} /\ r \in IF u = "chip" THEN ChipRegs ELSE TunerRegs
    BY <1>2, <1>4 DEF IsOp
  <2>2. Held(u)'[r] = IF op.unit = u /\ r \in DOMAIN op.set
                      THEN Merged(Held(u)[r], op.set[r]) ELSE Held(u)[r]
    BY <1>3, <2>1
  <2>3. CASE i = at
    <3>1. Held(u)'[r] = Merged(Held(u)[r], op.set[r]) /\ b \in op.set[r].mask
      BY <1>4, <2>2, <2>3 DEF Assigns
    <3> QED
      BY <2>3, <3>1 DEF Merged
  <2>4. CASE i # at
    <3>1. i < at /\ at > i /\ at < at + 1
      BY <1>2, <1>4, <2>4
    <3>2. \A j \in DOMAIN Ops : i < j /\ j < at => ~Assigns(Ops[j], u, r, b)
      BY <1>2, <1>4
    <3>3. b \in Held(u)[r] <=> b \in Ops[i].set[r].val
      BY <1>1, <1>4, <3>1, <3>2 DEF LastInv, HoldsLast
    <3>4. ~Assigns(op, u, r, b)
      BY <1>1, <1>4, <3>1
    <3>5. b \in Held(u)'[r] <=> b \in Held(u)[r]
      BY <2>2, <3>4 DEF Assigns, Merged
    <3> QED
      BY <3>3, <3>5
  <2> QED
    BY <2>3, <2>4
<1>5. ASSUME NEW i \in DOMAIN Ops, i < at + 1, NEW r \in DOMAIN Ops[i].set, NEW b \in Bits,
             Assigns(Ops[i], Ops[i].unit, r, b),
             \A j \in DOMAIN Ops : i < j /\ j < at + 1 => ~Assigns(Ops[j], Ops[i].unit, r, b)
      PROVE  b \in (IF Ops[i].unit = "chip" THEN chip' ELSE shadow')[r]
               <=> b \in Ops[i].set[r].val
  <2> DEFINE u == Ops[i].unit
  <2>1. b \in Held(u)'[r] <=> b \in Ops[i].set[r].val
    BY <1>1, <1>4, <1>5 DEF Held
  <2> QED
    BY <1>1, <2>1 DEF Held
<1> QED
  BY <1>1, <1>5 DEF LastInv, HoldsLast, Held

LEMMA LastInit == Init => LastInv
BY DEF Init, LastInv

LEMMA LastStep == TypeOK /\ HeardInv /\ LastInv /\ [Next]_vars => LastInv'
<1> SUFFICES ASSUME TypeOK, HeardInv, LastInv, [Next]_vars
             PROVE  LastInv'
  OBVIOUS
<1>1. CASE UNCHANGED vars
  BY <1>1 DEF LastInv, HoldsLast, Held, vars, regVars, chipVars, callVars, Ops
<1>2. CASE Configures
  BY <1>2, ConfiguresLast
<1>3. CASE Configured
  BY <1>3 DEF LastInv, HoldsLast, Held, Configured, Goto, regVars, chipVars, callVars, Ops
<1>4. CASE Claims \/ LegacyClaims
  <2>1. at' = 1 /\ Ops' = Ops
    BY <1>4 DEF HeardInv, Claims, LegacyClaims, Goto, callVars, Ops
  <2>2. \A i \in DOMAIN Ops : ~(i < 1)
    BY OpsFacts
  <2> QED  BY <2>1, <2>2 DEF LastInv, HoldsLast
<1>5. CASE \/ Replugged \/ Open \/ SelectFails \/ OpensNode \/ ClaimUnsupported \/ ClaimFails
           \/ ClosesUnclaimed \/ ConfigureFails \/ ShutsRepeater \/ UserCloses \/ Releases
           \/ ClosesFd \/ Killed
  <2>1. pc' \notin {"configure", "opened"}
    BY <1>5 DEF Replugged, Open, SelectFails, OpensNode, ClaimUnsupported, ClaimFails, ClosesUnclaimed,
                ConfigureFails, ShutsRepeater, UserCloses, Releases, ClosesFd, Killed, Goto, EndsCall
  <2> QED  BY <2>1 DEF LastInv
<1> QED
  BY <1>1, <1>2, <1>3, <1>4, <1>5 DEF Next

\* What the dongle itself holds of unit u.
Registers(u) == IF u = "chip" THEN chip ELSE tuner

\* When Open has returned, a bit that the script leaves as in v is so in the dongle.
LastStands ==
  pc = "opened" =>
    \A u \in {"chip", "tuner"}, r \in ChipRegs \cup TunerRegs, b \in Bits, v \in SUBSET Bits :
      LeavesBit(Ops, u, r, b, v) => (b \in Registers(u)[r] <=> b \in v)

LEMMA OpenedStands ==
  ASSUME TypeOK, HeardInv, LastInv
  PROVE  LastStands
<1> SUFFICES ASSUME pc = "opened", NEW u \in {"chip", "tuner"}, NEW r, NEW b \in Bits, NEW v,
                    LeavesBit(Ops, u, r, b, v)
             PROVE  b \in Registers(u)[r] <=> b \in v
  BY DEF LastStands
<1>1. PICK i \in DOMAIN Ops : /\ Assigns(Ops[i], u, r, b) /\ (b \in Ops[i].set[r].val <=> b \in v)
                              /\ \A j \in DOMAIN Ops : j > i => ~Assigns(Ops[j], u, r, b)
  BY DEF LeavesBit
<1>2. at = Len(Ops) + 1 /\ DOMAIN Ops = 1..Len(Ops) /\ Len(Ops) \in Nat
  BY OpsFacts DEF HeardInv
<1>3. i < at /\ \A j \in DOMAIN Ops : i < j /\ j < at => ~Assigns(Ops[j], u, r, b)
  BY <1>1, <1>2
<1>4. Ops[i].unit = u /\ r \in DOMAIN Ops[i].set
  BY <1>1 DEF Assigns
<1>5. b \in Held(u)[r] <=> b \in Ops[i].set[r].val
  BY <1>1, <1>3, <1>4 DEF LastInv, HoldsLast
<1>6. Held(u)[r] = Registers(u)[r]
  BY <1>3, <1>4 DEF Held, Registers, HeardInv
<1> QED
  BY <1>1, <1>5, <1>6

\* Whatever the registers held before and whichever script is run: what a
\* successful Open wrote last to a bit is what the dongle has there, though the
\* masked writes in between were computed from the shadow (tuner_r860.go:175)
\* or from a read of the chip (bias_tee.go:134).
THEOREM LastWritesStand == Spec => []LastStands
<1>1. TypeOK /\ HeardInv /\ LastInv => LastStands
  BY OpenedStands
<1> QED
  BY <1>1, TypeInit, TypeStep, HeardInit, HeardStep, LastInit, LastStep, PTL DEF Spec

LEMMA OpsLeave ==
  ASSUME TypeOK
  PROVE  /\ SetUp(Ops)
         /\ \A b \in 0..15 : LeavesBit(Ops, "chip", "EPA_CTL", b, {})
         /\ \A b \in 0..15 : LeavesBit(Ops, "chip", "SoftReset", b, {4})
<1>1. <<cfg, cal>> \in DOMAIN Script
  BY OpenAssumption DEF TypeOK
<1>2. Ops = ConfigureChipAndTuner(cfg, cal)
  BY <1>1, RadioAssumption DEF Ops, Scripts
<1> QED
  BY <1>2, EveryScript

LEMMA LeftStreaming ==
  ASSUME TypeOK, LastStands
  PROVE  Streaming
<1> SUFFICES ASSUME pc = "opened"
             PROVE  /\ chip["EPA_CTL"] = {} /\ chip["SoftReset"] = BitsOf(\h10)
                    /\ 0 \notin chip["ZeroIF"] /\ 7 \notin chip["ADCInput"] /\ chip["SpectrumInv"] = {0}
                    /\ chip["AGCLoop"] = {} /\ 0 \notin chip["AGCEnable"]
                    /\ 7 \notin tuner[5]
  BY DEF Streaming
<1>1. Bits = 0..15 /\ ChipRegs = BasebandRegs /\ TunerRegs = R860Regs
  BY RadioAssumption
<1>2. ASSUME NEW r \in ChipRegs, NEW b \in Bits, NEW v \in SUBSET Bits, LeavesBit(Ops, "chip", r, b, v)
      PROVE  b \in chip[r] <=> b \in v
  BY <1>2 DEF LastStands, Registers
<1>3. /\ "EPA_CTL" \in ChipRegs /\ "SoftReset" \in ChipRegs /\ "ZeroIF" \in ChipRegs
      /\ "ADCInput" \in ChipRegs /\ "SpectrumInv" \in ChipRegs /\ "AGCLoop" \in ChipRegs
      /\ "AGCEnable" \in ChipRegs
  BY <1>1 DEF BasebandRegs
<1>4. \A r \in ChipRegs : chip[r] \subseteq 0..15
  BY <1>1 DEF TypeOK
<1>5. ASSUME NEW r \in ChipRegs, NEW v \in SUBSET Bits, \A b \in 0..15 : LeavesBit(Ops, "chip", r, b, v)
      PROVE  chip[r] = v
  <2>1. \A b \in 0..15 : b \in chip[r] <=> b \in v
    BY <1>1, <1>2, <1>5
  <2> QED
    BY <1>1, <1>4, <2>1
<1>6. {} \in SUBSET Bits /\ {0} \in SUBSET Bits /\ {4} \in SUBSET Bits /\ 0 \in Bits /\ 7 \in Bits
  BY <1>1
<1>7. chip["EPA_CTL"] = {} /\ chip["SoftReset"] = {4}
  BY <1>3, <1>5, <1>6, OpsLeave
<1>8. FixedBits(Ops) /\ LeavesBit(Ops, "tuner", 5, 7, {})
  BY OpsLeave DEF SetUp
<1>9. chip["SpectrumInv"] = {0} /\ chip["AGCLoop"] = {}
  BY <1>3, <1>5, <1>6, <1>8 DEF FixedBits
<1>10. 0 \notin chip["ZeroIF"] /\ 7 \notin chip["ADCInput"] /\ 0 \notin chip["AGCEnable"]
  BY <1>2, <1>3, <1>6, <1>8 DEF FixedBits
<1>11. 7 \notin tuner[5]
  <2>1. 5 \in TunerRegs
    BY <1>1 DEF R860Regs
  <2> QED
    BY <1>6, <1>8, <2>1 DEF LastStands, Registers
<1>12. BitsOf(\h10) = {4}
  BY OneBit
<1> QED
  BY <1>7, <1>9, <1>10, <1>11, <1>12

\* Whatever the options and the VCO's fine tune, whatever a failed or killed Open
\* left in the registers: after a successful Open the endpoint runs, the
\* demodulator is set up for a real IF on one ADC and the loop-through is off
\* (demod_for_r820t.go:14, tuner_r860_postinit.go:16).
THEOREM OpenedStreams == Spec => []Streaming
<1>1. TypeOK /\ LastStands => Streaming
  BY LeftStreaming
<1> QED
  BY <1>1, TypeCorrect, LastWritesStand, PTL

----------------------------------------------------------------------------
(* What a set of bits says as a number.                                    *)

\* Bit b's weight in a sum.
At(bits, b, w) == IF b \in bits THEN w ELSE 0

LEMMA NumberIs ==
  ASSUME NEW bits
  PROVE  Number(bits) = At(bits, 0, 1) + At(bits, 1, 2) + At(bits, 2, 4) + At(bits, 3, 8)
           + At(bits, 4, 16) + At(bits, 5, 32) + At(bits, 6, 64) + At(bits, 7, 128)
           + At(bits, 8, 256) + At(bits, 9, 512) + At(bits, 10, 1024) + At(bits, 11, 2048)
           + At(bits, 12, 4096) + At(bits, 13, 8192) + At(bits, 14, 16384) + At(bits, 15, 32768)
BY SMT DEF Number, At

LEMMA MaskBits ==
  /\ BitsOf(15) = 0..3 /\ BitsOf(31) = 0..4 /\ BitsOf(255) = 0..7
  /\ BitsOf(96) = {5, 6} /\ BitsOf(192) = {6, 7} /\ BitsOf(239) = (0..7) \ {4}
  /\ BitsOf(159) = (0..4) \cup {7} /\ BitsOf(11) = {0, 1, 3}
  /\ BitsOf(32) = {5} /\ BitsOf(64) = {6}
<1>1. \A b \in 0..15 : /\ b \in BitsOf(15) <=> b \in 0..3
                       /\ b \in BitsOf(31) <=> b \in 0..4
                       /\ b \in BitsOf(255) <=> b \in 0..7
  BY BitTable
<1>2. \A b \in 0..15 : /\ b \in BitsOf(96) <=> b \in {5, 6}
                       /\ b \in BitsOf(192) <=> b \in {6, 7}
                       /\ b \in BitsOf(239) <=> b \in (0..7) \ {4}
  BY BitTable
<1>3. \A b \in 0..15 : /\ b \in BitsOf(159) <=> b \in (0..4) \cup {7}
                       /\ b \in BitsOf(11) <=> b \in {0, 1, 3}
                       /\ b \in BitsOf(32) <=> b = 5
                       /\ b \in BitsOf(64) <=> b = 6
  BY BitTable
<1>4. \A n : \A b \in BitsOf(n) : b \in 0..15
  BY BitsOfBits
<1>5. BitsOf(15) = 0..3 /\ BitsOf(31) = 0..4 /\ BitsOf(255) = 0..7
  BY <1>1, <1>4
<1>6. BitsOf(96) = {5, 6} /\ BitsOf(192) = {6, 7} /\ BitsOf(239) = (0..7) \ {4}
  BY <1>2, <1>4
<1>7. BitsOf(159) = (0..4) \cup {7} /\ BitsOf(11) = {0, 1, 3} /\ BitsOf(32) = {5} /\ BitsOf(64) = {6}
  BY <1>3, <1>4
<1> QED
  BY <1>5, <1>6, <1>7

\* The digits of n are what is left by halving it.
Digit(n, b) == At(BitsOf(n), b, 1)
Upper(n, m) == n \div m

LEMMA DigitsAre ==
  ASSUME NEW n \in Nat
  PROVE  /\ n = Digit(n, 0) + 2 * Upper(n, 2)
         /\ Upper(n, 2) = Digit(n, 1) + 2 * Upper(n, 4)
         /\ Upper(n, 4) = Digit(n, 2) + 2 * Upper(n, 8)
         /\ Upper(n, 8) = Digit(n, 3) + 2 * Upper(n, 16)
         /\ Upper(n, 16) = Digit(n, 4) + 2 * Upper(n, 32)
         /\ Upper(n, 32) = Digit(n, 5) + 2 * Upper(n, 64)
         /\ Upper(n, 64) = Digit(n, 6) + 2 * Upper(n, 128)
         /\ Upper(n, 128) = Digit(n, 7) + 2 * Upper(n, 256)
         /\ Upper(n, 256) = Digit(n, 8) + 2 * Upper(n, 512)
         /\ Upper(n, 512) = Digit(n, 9) + 2 * Upper(n, 1024)
         /\ Upper(n, 1024) = Digit(n, 10) + 2 * Upper(n, 2048)
         /\ Upper(n, 2048) = Digit(n, 11) + 2 * Upper(n, 4096)
         /\ Upper(n, 4096) = Digit(n, 12) + 2 * Upper(n, 8192)
         /\ Upper(n, 8192) = Digit(n, 13) + 2 * Upper(n, 16384)
         /\ Upper(n, 16384) = Digit(n, 14) + 2 * Upper(n, 32768)
         /\ Upper(n, 32768) = Digit(n, 15) + 2 * Upper(n, 65536)
         /\ \A b \in 0..15 : Digit(n, b) \in {0, 1}
         /\ Upper(n, 2) \in Nat /\ Upper(n, 4) \in Nat /\ Upper(n, 8) \in Nat /\ Upper(n, 16) \in Nat /\ Upper(n, 32) \in Nat
         /\ Upper(n, 64) \in Nat /\ Upper(n, 128) \in Nat /\ Upper(n, 256) \in Nat /\ Upper(n, 512) \in Nat /\ Upper(n, 1024) \in Nat
         /\ Upper(n, 2048) \in Nat /\ Upper(n, 4096) \in Nat /\ Upper(n, 8192) \in Nat /\ Upper(n, 16384) \in Nat /\ Upper(n, 32768) \in Nat /\ Upper(n, 65536) \in Nat
<1>1. ASSUME NEW q \in Nat, NEW d \in {0, 1}, d = 1 <=> q % 2 = 1
      PROVE  q = d + 2 * (q \div 2)
  BY <1>1, SMT
<1>2. /\ n \div 4 = (n \div 2) \div 2 /\ n \div 8 = (n \div 4) \div 2
      /\ n \div 16 = (n \div 8) \div 2 /\ n \div 32 = (n \div 16) \div 2
      /\ n \div 64 = (n \div 32) \div 2 /\ n \div 128 = (n \div 64) \div 2
      /\ n \div 256 = (n \div 128) \div 2 /\ n \div 512 = (n \div 256) \div 2
  BY SMT
<1>3. /\ n \div 1024 = (n \div 512) \div 2 /\ n \div 2048 = (n \div 1024) \div 2
      /\ n \div 4096 = (n \div 2048) \div 2 /\ n \div 8192 = (n \div 4096) \div 2
      /\ n \div 16384 = (n \div 8192) \div 2 /\ n \div 32768 = (n \div 16384) \div 2
      /\ n \div 65536 = (n \div 32768) \div 2
  BY SMT
<1>4. \A b \in 0..15 : Digit(n, b) \in {0, 1} /\ (Digit(n, b) = 1 <=> b \in BitsOf(n))
  BY DEF Digit, At
<1>5. /\ 0 \in BitsOf(n) <=> (n \div 1) % 2 = 1
      /\ 1 \in BitsOf(n) <=> (n \div 2) % 2 = 1
      /\ 2 \in BitsOf(n) <=> (n \div 4) % 2 = 1
      /\ 3 \in BitsOf(n) <=> (n \div 8) % 2 = 1
      /\ 4 \in BitsOf(n) <=> (n \div 16) % 2 = 1
      /\ 5 \in BitsOf(n) <=> (n \div 32) % 2 = 1
      /\ 6 \in BitsOf(n) <=> (n \div 64) % 2 = 1
      /\ 7 \in BitsOf(n) <=> (n \div 128) % 2 = 1
  BY BitTable
<1>6. /\ 8 \in BitsOf(n) <=> (n \div 256) % 2 = 1
      /\ 9 \in BitsOf(n) <=> (n \div 512) % 2 = 1
      /\ 10 \in BitsOf(n) <=> (n \div 1024) % 2 = 1
      /\ 11 \in BitsOf(n) <=> (n \div 2048) % 2 = 1
      /\ 12 \in BitsOf(n) <=> (n \div 4096) % 2 = 1
      /\ 13 \in BitsOf(n) <=> (n \div 8192) % 2 = 1
      /\ 14 \in BitsOf(n) <=> (n \div 16384) % 2 = 1
      /\ 15 \in BitsOf(n) <=> (n \div 32768) % 2 = 1
  BY BitTable
<1>7. \A m \in {2, 4, 8, 16, 32, 64, 128, 256, 512, 1024, 2048, 4096, 8192, 16384, 32768, 65536} : n \div m \in Nat
  BY SMT
<1>8. n \div 1 = n
  BY SMT
<1> HIDE DEF Digit
<1>9. /\ n = Digit(n, 0) + 2 * Upper(n, 2)
      /\ Upper(n, 2) = Digit(n, 1) + 2 * Upper(n, 4)
      /\ Upper(n, 4) = Digit(n, 2) + 2 * Upper(n, 8)
      /\ Upper(n, 8) = Digit(n, 3) + 2 * Upper(n, 16)
      /\ Upper(n, 16) = Digit(n, 4) + 2 * Upper(n, 32)
      /\ Upper(n, 32) = Digit(n, 5) + 2 * Upper(n, 64)
      /\ Upper(n, 64) = Digit(n, 6) + 2 * Upper(n, 128)
      /\ Upper(n, 128) = Digit(n, 7) + 2 * Upper(n, 256)
  BY <1>1, <1>2, <1>4, <1>5, <1>7, <1>8, SMT DEF Upper
<1>10. /\ Upper(n, 256) = Digit(n, 8) + 2 * Upper(n, 512)
       /\ Upper(n, 512) = Digit(n, 9) + 2 * Upper(n, 1024)
       /\ Upper(n, 1024) = Digit(n, 10) + 2 * Upper(n, 2048)
       /\ Upper(n, 2048) = Digit(n, 11) + 2 * Upper(n, 4096)
       /\ Upper(n, 4096) = Digit(n, 12) + 2 * Upper(n, 8192)
       /\ Upper(n, 8192) = Digit(n, 13) + 2 * Upper(n, 16384)
       /\ Upper(n, 16384) = Digit(n, 14) + 2 * Upper(n, 32768)
       /\ Upper(n, 32768) = Digit(n, 15) + 2 * Upper(n, 65536)
  BY <1>1, <1>3, <1>4, <1>6, <1>7, SMT DEF Upper
<1>11. \A m \in {2, 4, 8, 16, 32, 64, 128, 256, 512, 1024, 2048, 4096, 8192, 16384, 32768, 65536} : Upper(n, m) \in Nat
  BY <1>7 DEF Upper
<1> QED
  BY <1>4, <1>9, <1>10, <1>11

\* Bit b's share of the field m.
In(s, m, b, w) == IF b \in m THEN At(s, b, w) ELSE 0

FieldSum(s, m) ==
  Number(s \cap m) = In(s, m, 0, 1) + In(s, m, 1, 2) + In(s, m, 2, 4) + In(s, m, 3, 8)
                      + In(s, m, 4, 16) + In(s, m, 5, 32) + In(s, m, 6, 64) + In(s, m, 7, 128)

LEMMA FieldIs ==
  ASSUME NEW s, NEW m \in SUBSET (0..7)
  PROVE  FieldSum(s, m)
<1> DEFINE x == s \cap m
<1>1. \A b, w : At(x, b, w) = In(s, m, b, w)
  BY DEF At, In
<1>2. At(x, 8, 256) = 0 /\ At(x, 9, 512) = 0 /\ At(x, 10, 1024) = 0 /\ At(x, 11, 2048) = 0
      /\ At(x, 12, 4096) = 0 /\ At(x, 13, 8192) = 0 /\ At(x, 14, 16384) = 0 /\ At(x, 15, 32768) = 0
  BY SMT DEF At
<1>3. \A b, w : w \in Nat => In(s, m, b, w) \in Nat /\ At(s, b, w) \in Nat
  BY DEF At, In
<1> HIDE DEF x
<1>4. Number(x) = In(s, m, 0, 1) + In(s, m, 1, 2) + In(s, m, 2, 4) + In(s, m, 3, 8)
                  + In(s, m, 4, 16) + In(s, m, 5, 32) + In(s, m, 6, 64) + In(s, m, 7, 128)
  <2>1. /\ In(s, m, 0, 1) \in Nat /\ In(s, m, 1, 2) \in Nat /\ In(s, m, 2, 4) \in Nat /\ In(s, m, 3, 8) \in Nat
        /\ In(s, m, 4, 16) \in Nat /\ In(s, m, 5, 32) \in Nat /\ In(s, m, 6, 64) \in Nat /\ In(s, m, 7, 128) \in Nat
    BY <1>3
  <2> QED
    BY <1>1, <1>2, <2>1, NumberIs, SMT
<1> QED
  BY <1>4 DEF x, FieldSum

LEMMA FieldSums ==
  ASSUME NEW s
  PROVE  /\ Number(s \cap (0..7)) = At(s, 0, 1) + At(s, 1, 2) + At(s, 2, 4) + At(s, 3, 8)
                                   + At(s, 4, 16) + At(s, 5, 32) + At(s, 6, 64) + At(s, 7, 128)
         /\ Number(s \cap (0..3)) = At(s, 0, 1) + At(s, 1, 2) + At(s, 2, 4) + At(s, 3, 8)
         /\ Number(s \cap {6, 7}) = At(s, 6, 64) + At(s, 7, 128)
         /\ Number(s \cap {5, 6}) = At(s, 5, 32) + At(s, 6, 64)
         /\ Number(s \cap {4}) = At(s, 4, 16)
         /\ Number(s \cap {5}) = At(s, 5, 32)
         /\ Number(s \cap {6}) = At(s, 6, 64)
<1>1. /\ 0..7 \in SUBSET (0..7) /\ 0..3 \in SUBSET (0..7) /\ {6, 7} \in SUBSET (0..7) /\ {5, 6} \in SUBSET (0..7)
      /\ {4} \in SUBSET (0..7) /\ {5} \in SUBSET (0..7) /\ {6} \in SUBSET (0..7)
  OBVIOUS
<1>2. /\ FieldSum(s, 0..7) /\ FieldSum(s, 0..3) /\ FieldSum(s, {6, 7}) /\ FieldSum(s, {5, 6})
      /\ FieldSum(s, {4}) /\ FieldSum(s, {5}) /\ FieldSum(s, {6})
  BY <1>1, FieldIs
<1>3. /\ At(s, 0, 1) \in Nat /\ At(s, 1, 2) \in Nat /\ At(s, 2, 4) \in Nat /\ At(s, 3, 8) \in Nat
      /\ At(s, 4, 16) \in Nat /\ At(s, 5, 32) \in Nat /\ At(s, 6, 64) \in Nat /\ At(s, 7, 128) \in Nat
  BY DEF At
<1>4. Number(s \cap (0..7)) = At(s, 0, 1) + At(s, 1, 2) + At(s, 2, 4) + At(s, 3, 8)
                              + At(s, 4, 16) + At(s, 5, 32) + At(s, 6, 64) + At(s, 7, 128)
  BY <1>2, <1>3, SMT DEF FieldSum, In
<1>5. Number(s \cap (0..3)) = At(s, 0, 1) + At(s, 1, 2) + At(s, 2, 4) + At(s, 3, 8)
  BY <1>2, <1>3, SMT DEF FieldSum, In
<1>6. Number(s \cap {6, 7}) = At(s, 6, 64) + At(s, 7, 128) /\ Number(s \cap {5, 6}) = At(s, 5, 32) + At(s, 6, 64)
  BY <1>2, <1>3, SMT DEF FieldSum, In
<1>7. Number(s \cap {4}) = At(s, 4, 16) /\ Number(s \cap {5}) = At(s, 5, 32) /\ Number(s \cap {6}) = At(s, 6, 64)
  BY <1>2, <1>3, SMT DEF FieldSum, In
<1> QED
  BY <1>4, <1>5, <1>6, <1>7

\* A field of a register that holds n.
FieldsOf(n) ==
  /\ n < 65536 => Number(BitsOf(n)) = n
  /\ Number(BitsOf(n) \cap (0..7)) = n % 256
  /\ Number(BitsOf(n) \cap (0..3)) = n % 16
  /\ Number(BitsOf(n) \cap {6, 7}) = 64 * ((n \div 64) % 4)
  /\ Number(BitsOf(n) \cap {5, 6}) = 32 * ((n \div 32) % 4)

LEMMA FieldsRead ==
  ASSUME NEW n \in Nat
  PROVE  FieldsOf(n)
<1> DEFINE s == BitsOf(n)
           d0 == Digit(n, 0)
           d1 == Digit(n, 1)
           d2 == Digit(n, 2)
           d3 == Digit(n, 3)
           d4 == Digit(n, 4)
           d5 == Digit(n, 5)
           d6 == Digit(n, 6)
           d7 == Digit(n, 7)
           d8 == Digit(n, 8)
           d9 == Digit(n, 9)
           d10 == Digit(n, 10)
           d11 == Digit(n, 11)
           d12 == Digit(n, 12)
           d13 == Digit(n, 13)
           d14 == Digit(n, 14)
           d15 == Digit(n, 15)
           q1 == Upper(n, 2)
           q2 == Upper(n, 4)
           q3 == Upper(n, 8)
           q4 == Upper(n, 16)
           q5 == Upper(n, 32)
           q6 == Upper(n, 64)
           q7 == Upper(n, 128)
           q8 == Upper(n, 256)
           q9 == Upper(n, 512)
           q10 == Upper(n, 1024)
           q11 == Upper(n, 2048)
           q12 == Upper(n, 4096)
           q13 == Upper(n, 8192)
           q14 == Upper(n, 16384)
           q15 == Upper(n, 32768)
           q16 == Upper(n, 65536)
<1>1. \A b \in 0..15, w \in Int : At(s, b, w) = IF Digit(n, b) = 1 THEN w ELSE 0
  BY DEF Digit, At
<1>2. /\ d0 \in {0, 1}
      /\ d1 \in {0, 1}
      /\ d2 \in {0, 1}
      /\ d3 \in {0, 1}
      /\ d4 \in {0, 1}
      /\ d5 \in {0, 1}
      /\ d6 \in {0, 1}
      /\ d7 \in {0, 1}
      /\ d8 \in {0, 1}
      /\ d9 \in {0, 1}
      /\ d10 \in {0, 1}
      /\ d11 \in {0, 1}
      /\ d12 \in {0, 1}
      /\ d13 \in {0, 1}
      /\ d14 \in {0, 1}
      /\ d15 \in {0, 1}
  BY DigitsAre
<1>3. /\ n = d0 + 2 * q1
      /\ q1 = d1 + 2 * q2
      /\ q2 = d2 + 2 * q3
      /\ q3 = d3 + 2 * q4
      /\ q4 = d4 + 2 * q5
      /\ q5 = d5 + 2 * q6
      /\ q6 = d6 + 2 * q7
      /\ q7 = d7 + 2 * q8
      /\ q8 = d8 + 2 * q9
      /\ q9 = d9 + 2 * q10
      /\ q10 = d10 + 2 * q11
      /\ q11 = d11 + 2 * q12
      /\ q12 = d12 + 2 * q13
      /\ q13 = d13 + 2 * q14
      /\ q14 = d14 + 2 * q15
      /\ q15 = d15 + 2 * q16
  BY DigitsAre
<1>4. /\ q1 \in Nat
      /\ q2 \in Nat
      /\ q3 \in Nat
      /\ q4 \in Nat
      /\ q5 \in Nat
      /\ q6 \in Nat
      /\ q7 \in Nat
      /\ q8 \in Nat
      /\ q9 \in Nat
      /\ q10 \in Nat
      /\ q11 \in Nat
      /\ q12 \in Nat
      /\ q13 \in Nat
      /\ q14 \in Nat
      /\ q15 \in Nat
      /\ q16 \in Nat
  BY DigitsAre
<1> DEFINE x1 == n % 256
           x2 == n % 16
           x3 == (n \div 64) % 4
           x4 == (n \div 32) % 4
<1>5. /\ n < 65536 => q16 = 0
      /\ x1 = n - 256 * q8 /\ x2 = n - 16 * q4 /\ x3 = q6 - 4 * q8 /\ x4 = q5 - 4 * q7
  <2>1. n < 65536 => q16 = 0
    BY SMT DEF Upper
  <2>2. x1 = n - 256 * q8 /\ x2 = n - 16 * q4
    BY SMT DEF Upper
  <2>3. x3 = q6 - 4 * q8
    BY SMT DEF Upper
  <2>4. x4 = q5 - 4 * q7
    BY SMT DEF Upper
  <2> HIDE DEF x1, x2, x3, x4
  <2> QED
    BY <2>1, <2>2, <2>3, <2>4
<1>6. /\ At(s, 0, 1) = IF d0 = 1 THEN 1 ELSE 0
      /\ At(s, 1, 2) = IF d1 = 1 THEN 2 ELSE 0
      /\ At(s, 2, 4) = IF d2 = 1 THEN 4 ELSE 0
      /\ At(s, 3, 8) = IF d3 = 1 THEN 8 ELSE 0
      /\ At(s, 4, 16) = IF d4 = 1 THEN 16 ELSE 0
      /\ At(s, 5, 32) = IF d5 = 1 THEN 32 ELSE 0
      /\ At(s, 6, 64) = IF d6 = 1 THEN 64 ELSE 0
      /\ At(s, 7, 128) = IF d7 = 1 THEN 128 ELSE 0
      /\ At(s, 8, 256) = IF d8 = 1 THEN 256 ELSE 0
      /\ At(s, 9, 512) = IF d9 = 1 THEN 512 ELSE 0
      /\ At(s, 10, 1024) = IF d10 = 1 THEN 1024 ELSE 0
      /\ At(s, 11, 2048) = IF d11 = 1 THEN 2048 ELSE 0
      /\ At(s, 12, 4096) = IF d12 = 1 THEN 4096 ELSE 0
      /\ At(s, 13, 8192) = IF d13 = 1 THEN 8192 ELSE 0
      /\ At(s, 14, 16384) = IF d14 = 1 THEN 16384 ELSE 0
      /\ At(s, 15, 32768) = IF d15 = 1 THEN 32768 ELSE 0
  <2> HIDE DEF s
  <2> QED
    BY <1>1
<1> HIDE DEF s, x1, x2, x3, x4, d0, d1, d2, d3, d4, d5, d6, d7, d8, d9, d10, d11, d12, d13, d14, d15, q1, q2, q3, q4, q5, q6, q7, q8, q9, q10, q11, q12, q13, q14, q15, q16
<1>8. At(s, 0, 1) + At(s, 1, 2) + At(s, 2, 4) + At(s, 3, 8) + At(s, 4, 16) + At(s, 5, 32) + At(s, 6, 64) + At(s, 7, 128) = x1
  BY <1>2, <1>3, <1>4, <1>6, <1>5, SMT
<1>9. At(s, 0, 1) + At(s, 1, 2) + At(s, 2, 4) + At(s, 3, 8) = x2
  BY <1>2, <1>3, <1>4, <1>6, <1>5, SMT
<1>10. At(s, 6, 64) + At(s, 7, 128) = 64 * x3 /\ At(s, 5, 32) + At(s, 6, 64) = 32 * x4
  BY <1>2, <1>3, <1>4, <1>6, <1>5, SMT
<1>11. n < 65536 => Number(s) = n
  <2> DEFINE lo == At(s, 0, 1) + At(s, 1, 2) + At(s, 2, 4) + At(s, 3, 8) + At(s, 4, 16) + At(s, 5, 32) + At(s, 6, 64) + At(s, 7, 128)
             hi == At(s, 8, 256) + At(s, 9, 512) + At(s, 10, 1024) + At(s, 11, 2048) + At(s, 12, 4096) + At(s, 13, 8192) + At(s, 14, 16384) + At(s, 15, 32768)
  <2>1. lo = x1
    BY <1>8
  <2>2. hi = 256 * q8 - 65536 * q16
    BY <1>2, <1>3, <1>4, <1>6, SMT
  <2>3. Number(s) = lo + hi
    <3>1. /\ At(s, 0, 1) \in Int
          /\ At(s, 1, 2) \in Int
          /\ At(s, 2, 4) \in Int
          /\ At(s, 3, 8) \in Int
          /\ At(s, 4, 16) \in Int
          /\ At(s, 5, 32) \in Int
          /\ At(s, 6, 64) \in Int
          /\ At(s, 7, 128) \in Int
          /\ At(s, 8, 256) \in Int
          /\ At(s, 9, 512) \in Int
          /\ At(s, 10, 1024) \in Int
          /\ At(s, 11, 2048) \in Int
          /\ At(s, 12, 4096) \in Int
          /\ At(s, 13, 8192) \in Int
          /\ At(s, 14, 16384) \in Int
          /\ At(s, 15, 32768) \in Int
      BY DEF At
    <3> DEFINE total == At(s, 0, 1) + At(s, 1, 2) + At(s, 2, 4) + At(s, 3, 8) + At(s, 4, 16) + At(s, 5, 32) + At(s, 6, 64) + At(s, 7, 128) + At(s, 8, 256) + At(s, 9, 512) + At(s, 10, 1024) + At(s, 11, 2048) + At(s, 12, 4096) + At(s, 13, 8192) + At(s, 14, 16384) + At(s, 15, 32768)
    <3>2. Number(s) = total
      BY NumberIs
    <3>3. total = lo + hi
      BY <3>1, SMT
    <3> HIDE DEF total, lo, hi
    <3> QED
      BY <3>2, <3>3
  <2> HIDE DEF lo, hi
  <2> QED
    BY <1>4, <1>5, <2>1, <2>2, <2>3, SMT
<1>12. /\ n < 65536 => Number(s) = n
       /\ Number(s \cap (0..7)) = x1 /\ Number(s \cap (0..3)) = x2
       /\ Number(s \cap {6, 7}) = 64 * x3 /\ Number(s \cap {5, 6}) = 32 * x4
  <2>1. Number(s \cap (0..7)) = x1 /\ Number(s \cap (0..3)) = x2
    BY <1>8, <1>9, FieldSums
  <2>2. Number(s \cap {6, 7}) = 64 * x3 /\ Number(s \cap {5, 6}) = 32 * x4
    BY <1>10, FieldSums
  <2> QED
    BY <1>11, <2>1, <2>2
<1> QED
  BY <1>12 DEF FieldsOf, s, x1, x2, x3, x4

\* A single bit, read as a field.
LEMMA BitRead ==
  ASSUME NEW s
  PROVE  /\ Number(s \cap {4}) # 0 <=> 4 \in s
         /\ Number(s \cap {5}) # 0 <=> 5 \in s
         /\ Number(s \cap {6}) # 0 <=> 6 \in s
<1> DEFINE n4 == Number(s \cap {4})
           n5 == Number(s \cap {5})
           n6 == Number(s \cap {6})
<1>1. n4 = At(s, 4, 16) /\ n5 = At(s, 5, 32) /\ n6 = At(s, 6, 64)
  BY FieldSums
<1> HIDE DEF n4, n5, n6
<1>2. (n4 # 0 <=> 4 \in s) /\ (n5 # 0 <=> 5 \in s) /\ (n6 # 0 <=> 6 \in s)
  BY <1>1 DEF At
<1> QED
  BY <1>2 DEF n4, n5, n6

----------------------------------------------------------------------------
(* Which registers a part of the script touches, and what it leaves.       *)

AllOk(ops) == \A i \in DOMAIN ops : ops[i].ok

\* The chip's registers it writes are among C, the tuner's among T.
Touches(u, C, T) == IF u = "chip" THEN C ELSE T
Within(ops, C, T) ==
  /\ ops \in Seq(Operation)
  /\ \A i \in DOMAIN ops : DOMAIN ops[i].set \subseteq Touches(ops[i].unit, C, T)

\* The bits m of u's register r end up as in v.
Leaves(ops, u, r, m, v) == \A b \in m : LeavesBit(ops, u, r, b, v)

\* What s leaves in registers out of C and T, the longer t leaves, too.
Keeps(s, t, C, T) ==
  \A u, r, m, v : r \notin Touches(u, C, T) /\ Leaves(s, u, r, m, v) => Leaves(t, u, r, m, v)

LEMMA JoinedOps ==
  ASSUME NEW s \in Seq(Operation), NEW t \in Seq(Operation)
  PROVE  /\ s \o t \in Seq(Operation)
         /\ \A i \in DOMAIN s : \E j \in DOMAIN (s \o t) : (s \o t)[j] = s[i]
         /\ \A i \in DOMAIN t : \E j \in DOMAIN (s \o t) : (s \o t)[j] = t[i]
         /\ \A j \in DOMAIN (s \o t) : \/ \E i \in DOMAIN s : (s \o t)[j] = s[i]
                                       \/ \E i \in DOMAIN t : (s \o t)[j] = t[i]
<1> DEFINE st == s \o t
           m == Len(s)
<1>1. /\ m \in Nat /\ Len(t) \in Nat /\ DOMAIN t = 1..Len(t) /\ DOMAIN st = 1..(m + Len(t))
      /\ \A i \in 1..Len(t) : st[m + i] = t[i]
      /\ DOMAIN s = 1..m /\ st \in Seq(Operation) /\ \A i \in 1..m : st[i] = s[i]
  BY ConcatProperties
<1> HIDE DEF st, m
<1>2. \A i \in DOMAIN s : i \in DOMAIN st /\ st[i] = s[i]
  BY <1>1
<1>3. \A i \in DOMAIN t : m + i \in DOMAIN st /\ st[m + i] = t[i]
  BY <1>1
<1>4. ASSUME NEW j \in DOMAIN st
      PROVE  (\E i \in DOMAIN s : st[j] = s[i]) \/ (\E i \in DOMAIN t : st[j] = t[i])
  <2>1. CASE j <= m
    BY <1>1, <2>1
  <2>2. CASE j > m
    <3>1. j - m \in 1..Len(t) /\ j = m + (j - m)
      BY <1>1, <2>2
    <3> QED
      BY <1>1, <3>1
  <2> QED
    BY <1>1, <2>1, <2>2
<1>5. \A i \in DOMAIN s : \E j \in DOMAIN st : st[j] = s[i]
  BY <1>2, Zenon
<1>6. \A i \in DOMAIN t : \E j \in DOMAIN st : st[j] = t[i]
  BY <1>3, Zenon
<1>7. \A j \in DOMAIN st : (\E i \in DOMAIN s : st[j] = s[i]) \/ (\E i \in DOMAIN t : st[j] = t[i])
  BY <1>4, Zenon
<1>8. st \in Seq(Operation)
  BY <1>1
<1> QED
  BY <1>5, <1>6, <1>7, <1>8 DEF st

LEMMA OkOfBoth ==
  ASSUME NEW s \in Seq(Operation), NEW t \in Seq(Operation), AllOk(s \o t)
  PROVE  AllOk(s) /\ AllOk(t)
<1> DEFINE st == s \o t
<1>1. /\ \A i \in DOMAIN s : \E j \in DOMAIN st : st[j] = s[i]
      /\ \A i \in DOMAIN t : \E j \in DOMAIN st : st[j] = t[i]
  BY JoinedOps
<1>2. AllOk(st)
  OBVIOUS
<1> HIDE DEF st
<1>3. \A j \in DOMAIN st : st[j].ok
  BY <1>2 DEF AllOk
<1>4. ASSUME NEW i \in DOMAIN s
      PROVE  s[i].ok
  <2>1. PICK j \in DOMAIN st : st[j] = s[i]
    BY <1>1
  <2>2. st[j].ok
    BY <1>3
  <2> QED
    BY <2>1, <2>2, Zenon
<1>5. ASSUME NEW i \in DOMAIN t
      PROVE  t[i].ok
  <2>1. PICK j \in DOMAIN st : st[j] = t[i]
    BY <1>1
  <2>2. st[j].ok
    BY <1>3
  <2> QED
    BY <2>1, <2>2, Zenon
<1> QED
  BY <1>4, <1>5 DEF AllOk

LEMMA WithinBoth ==
  ASSUME NEW C, NEW T, NEW D, NEW U, NEW s, NEW t, Within(s, C, T), Within(t, D, U)
  PROVE  Within(s \o t, C \cup D, T \cup U)
<1> DEFINE st == s \o t
<1>1. s \in Seq(Operation) /\ t \in Seq(Operation)
  BY DEF Within
<1>2. /\ st \in Seq(Operation)
      /\ \A j \in DOMAIN st : (\E i \in DOMAIN s : st[j] = s[i]) \/ (\E i \in DOMAIN t : st[j] = t[i])
  BY <1>1, JoinedOps
<1> HIDE DEF st
<1>3. ASSUME NEW j \in DOMAIN st
      PROVE  DOMAIN st[j].set \subseteq Touches(st[j].unit, C \cup D, T \cup U)
  <2>1. ASSUME NEW i \in DOMAIN s, st[j] = s[i]
        PROVE  DOMAIN st[j].set \subseteq Touches(st[j].unit, C \cup D, T \cup U)
    BY <2>1 DEF Within, Touches
  <2>2. ASSUME NEW i \in DOMAIN t, st[j] = t[i]
        PROVE  DOMAIN st[j].set \subseteq Touches(st[j].unit, C \cup D, T \cup U)
    BY <2>2 DEF Within, Touches
  <2> QED
    BY <1>2, <2>1, <2>2
<1>4. Within(st, C \cup D, T \cup U)
  BY <1>2, <1>3 DEF Within
<1> QED
  BY <1>4 DEF st

LEMMA WithinMore ==
  ASSUME NEW C, NEW T, NEW D, NEW U, NEW s, Within(s, C, T), C \subseteq D, T \subseteq U
  PROVE  Within(s, D, U)
BY DEF Within, Touches

LEMMA LeavesLater ==
  ASSUME NEW s \in Seq(Operation), NEW t \in Seq(Operation)
  PROVE  \A u, r, m, v : Leaves(t, u, r, m, v) => Leaves(s \o t, u, r, m, v)
<1>1. \A u, r, b, v : LeavesBit(t, u, r, b, v) => LeavesBit(s \o t, u, r, b, v)
  BY LaterLeaves
<1> QED
  BY <1>1 DEF Leaves

LEMMA LeavesStay ==
  ASSUME NEW s \in Seq(Operation), NEW t, NEW C, NEW T, Within(t, C, T)
  PROVE  Keeps(s, s \o t, C, T)
<1>1. t \in Seq(Operation)
  BY DEF Within
<1>2. ASSUME NEW u, NEW r, NEW b, r \notin Touches(u, C, T)
      PROVE  Spares(t, u, r, b)
  BY <1>2 DEF Spares, Assigns, Within
<1>3. ASSUME NEW u, NEW r, NEW b, NEW v, r \notin Touches(u, C, T), LeavesBit(s, u, r, b, v)
      PROVE  LeavesBit(s \o t, u, r, b, v)
  BY <1>1, <1>2, <1>3, SparedStays
<1> QED
  BY <1>3 DEF Keeps, Leaves

LEMMA KeepsOn ==
  ASSUME NEW s, NEW t, NEW w, NEW C, NEW T, NEW D, NEW U, Keeps(s, t, C, T), Keeps(t, w, D, U)
  PROVE  Keeps(s, w, C \cup D, T \cup U)
BY DEF Keeps, Touches

LEMMA OneOp ==
  ASSUME NEW op \in Operation
  PROVE  /\ <<op>> \in Seq(Operation)
         /\ AllOk(<<op>>) <=> op.ok
         /\ \A C, T : Within(<<op>>, C, T) <=> DOMAIN op.set \subseteq Touches(op.unit, C, T)
         /\ \A u, r, b, v : Assigns(op, u, r, b) /\ (b \in op.set[r].val <=> b \in v) => LeavesBit(<<op>>, u, r, b, v)
<1>1. <<op>> \in Seq(Operation) /\ DOMAIN <<op>> = {1} /\ <<op>>[1] = op
  OBVIOUS
<1>2. AllOk(<<op>>) <=> op.ok
  BY <1>1 DEF AllOk
<1>3. \A C, T : Within(<<op>>, C, T) <=> DOMAIN op.set \subseteq Touches(op.unit, C, T)
  BY <1>1 DEF Within
<1>4. ASSUME NEW u, NEW r, NEW b, NEW v, Assigns(op, u, r, b), b \in op.set[r].val <=> b \in v
      PROVE  LeavesBit(<<op>>, u, r, b, v)
  BY <1>1, <1>4 DEF LeavesBit
<1> QED
  BY <1>1, <1>2, <1>3, <1>4

\* The bridge: it writes SoftReset around a body.
LEMMA BridgedSays ==
  ASSUME NEW body \in Seq(Operation)
  PROVE  /\ WithRepeater(body) \in Seq(Operation)
         /\ AllOk(WithRepeater(body)) => AllOk(body)
         /\ \A T : Within(body, {}, T) => Within(WithRepeater(body), {"SoftReset"}, T)
         /\ \A r, m, v : Leaves(body, "tuner", r, m, v) => Leaves(WithRepeater(body), "tuner", r, m, v)
<1> DEFINE w == Writes(<<<<"SoftReset", \h18>>>>)
           z == Writes(<<<<"SoftReset", \h10>>>>)
<1>1. /\ w \in Operation /\ w.unit = "chip" /\ DOMAIN w.set = {"SoftReset"}
      /\ z \in Operation /\ z.unit = "chip" /\ DOMAIN z.set = {"SoftReset"}
  BY OneWriteLeaves, BasebandHas
<1>2. WithRepeater(body) = <<w>> \o body \o <<z>>
  BY DEF WithRepeater
<1> HIDE DEF w, z
<1>3. /\ <<w>> \in Seq(Operation) /\ Within(<<w>>, {"SoftReset"}, {})
      /\ <<z>> \in Seq(Operation) /\ Within(<<z>>, {"SoftReset"}, {})
  BY <1>1, OneOp DEF Touches
<1>4. <<w>> \o body \in Seq(Operation) /\ <<w>> \o body \o <<z>> \in Seq(Operation)
  BY <1>3, JoinedOps
<1>5. ASSUME AllOk(<<w>> \o body \o <<z>>)
      PROVE  AllOk(body)
  BY <1>3, <1>4, <1>5, OkOfBoth
<1>6. ASSUME NEW T, Within(body, {}, T)
      PROVE  Within(<<w>> \o body \o <<z>>, {"SoftReset"}, T)
  <2>1. Within(<<w>> \o body, {"SoftReset"} \cup {}, {} \cup T)
    BY <1>3, <1>6, WithinBoth
  <2>2. Within(<<w>> \o body \o <<z>>, ({"SoftReset"} \cup {}) \cup {"SoftReset"}, ({} \cup T) \cup {})
    BY <1>3, <2>1, WithinBoth
  <2> QED
    BY <2>2, WithinMore
<1>7. ASSUME NEW r, NEW m, NEW v, Leaves(body, "tuner", r, m, v)
      PROVE  Leaves(<<w>> \o body \o <<z>>, "tuner", r, m, v)
  <2>1. Leaves(<<w>> \o body, "tuner", r, m, v)
    BY <1>3, <1>7, LeavesLater
  <2>2. Keeps(<<w>> \o body, <<w>> \o body \o <<z>>, {"SoftReset"}, {})
    BY <1>3, <1>4, LeavesStay
  <2> QED
    BY <2>1, <2>2 DEF Keeps, Touches
<1> QED
  BY <1>2, <1>4, <1>5, <1>6, <1>7

\* A batch, in the words of its rows.
LEMMA BatchSpan ==
  ASSUME NEW unit \in {"chip", "tuner"}, NEW n \in Nat, NEW rows, DOMAIN rows = 1..n
  PROVE  /\ Batch(unit, rows).unit = unit /\ Batch(unit, rows).ok
         /\ DOMAIN Batch(unit, rows).set = {rows[i][1] : i \in 1..n}
         /\ \A k \in 1..n : (\A i \in 1..n : rows[i][1] = rows[k][1] => i = k) =>
              Batch(unit, rows).set[rows[k][1]] = [val |-> BitsOf(rows[k][2]), mask |-> BitsOf(rows[k][3])]
<1> DEFINE op == Batch(unit, rows)
<1>1. op.unit = unit /\ op.ok = TRUE /\ DOMAIN op.set = {rows[i][1] : i \in 1..n}
  BY Zenon DEF Batch
<1>2. \A r \in DOMAIN op.set : \E i \in DOMAIN rows :
        /\ rows[i][1] = r
        /\ op.set[r] = [val |-> BitsOf(rows[i][2]), mask |-> BitsOf(rows[i][3])]
  <2> DEFINE Says(b) ==
        \A r \in DOMAIN b.set : \E i \in DOMAIN rows :
          /\ rows[i][1] = r
          /\ b.set[r] = [val |-> BitsOf(rows[i][2]), mask |-> BitsOf(rows[i][3])]
  <2>1. Says(Batch("chip", rows)) /\ Says(Batch("tuner", rows))
    BY BatchSays
  <2> HIDE DEF Says
  <2>2. Says(op)
    BY <2>1
  <2> QED
    BY <2>2 DEF Says
<1> HIDE DEF op
<1>3. ASSUME NEW k \in 1..n, \A i \in 1..n : rows[i][1] = rows[k][1] => i = k
      PROVE  op.set[rows[k][1]] = [val |-> BitsOf(rows[k][2]), mask |-> BitsOf(rows[k][3])]
  <2>1. PICK i \in DOMAIN rows :
          /\ rows[i][1] = rows[k][1]
          /\ op.set[rows[k][1]] = [val |-> BitsOf(rows[i][2]), mask |-> BitsOf(rows[i][3])]
    BY <1>1, <1>2
  <2>2. i = k
    BY <1>3, <2>1
  <2> QED
    BY <2>1, <2>2
<1>4. /\ op.unit = unit /\ op.ok /\ DOMAIN op.set = {rows[i][1] : i \in 1..n}
      /\ \A k \in 1..n : (\A i \in 1..n : rows[i][1] = rows[k][1] => i = k) =>
           op.set[rows[k][1]] = [val |-> BitsOf(rows[k][2]), mask |-> BitsOf(rows[k][3])]
  BY <1>1, <1>3
<1> QED
  BY <1>4 DEF op

LEMMA FailsSay ==
  ASSUME NEW unit \in {"chip", "tuner"}
  PROVE  /\ Fails(unit) \in Operation /\ ~Fails(unit).ok /\ DOMAIN Fails(unit).set = {}
         /\ <<Fails(unit)>> \in Seq(Operation) /\ ~AllOk(<<Fails(unit)>>)
         /\ Within(<<Fails(unit)>>, {}, {})
<1> DEFINE b == Batch(unit, <<>>)
           f == Fails(unit)
<1>1. f \in Operation
  BY FailsQuiet, QuietOps
<1>2. f = [b EXCEPT !.ok = FALSE]
  BY DEF Fails
<1>3. DOMAIN b.set = {} /\ b = [unit |-> b.unit, ok |-> b.ok, repeater |-> b.repeater, set |-> b.set, parts |-> b.parts]
  BY DEF Batch
<1> HIDE DEF b
<1>4. f.ok = FALSE /\ f.set = b.set
  BY <1>2, <1>3
<1> HIDE DEF f
<1>5. ~f.ok /\ DOMAIN f.set = {}
  BY <1>3, <1>4
<1>6. <<f>> \in Seq(Operation) /\ ~AllOk(<<f>>) /\ Within(<<f>>, {}, {})
  BY <1>1, <1>5, OneOp
<1> QED
  BY <1>1, <1>5, <1>6 DEF f

LEMMA ProgramSays ==
  ASSUME NEW writes \in Seq(QuietSets), NEW ok \in BOOLEAN
  PROVE  LET ops == TunerOp([writes |-> writes, ok |-> ok])
         IN /\ ops \in Seq(Operation)
            /\ AllOk(ops) => ok
            /\ \A T : (\A i \in DOMAIN writes : DOMAIN writes[i] \subseteq T) => Within(ops, {"SoftReset"}, T)
            /\ \A i \in DOMAIN writes : \A r \in DOMAIN writes[i] :
                 (\A j \in DOMAIN writes : j > i => r \notin DOMAIN writes[j]) =>
                   Leaves(ops, "tuner", r, writes[i][r].mask, writes[i][r].val)
<1> DEFINE s == ProgramOps(writes)
           t == ProgramEnd(ok)
           ops == WithRepeater(s \o t)
<1>1. TunerOp([writes |-> writes, ok |-> ok]) = ops
  BY ProgramBody DEF TunerOp
<1>2. s \in Seq(Operation) /\ t \in Seq(Operation) /\ s \o t \in Seq(Operation)
  <2>1. s \in Seq(Quiet) /\ t \in Seq(Quiet)
    BY ProgramBody
  <2> HIDE DEF s, t
  <2>2. s \in Seq(Operation) /\ t \in Seq(Operation)
    BY <2>1, QuietOps
  <2> QED
    BY <2>2, JoinedOps
<1>3. DOMAIN s = DOMAIN writes /\ \A i \in DOMAIN writes : s[i].unit = "tuner" /\ s[i].set = writes[i]
  <2> DEFINE op(i) == [unit |-> "tuner", ok |-> TRUE, repeater |-> TRUE,
                       set |-> writes[i], parts |-> {{}, DOMAIN writes[i]}]
  <2>1. DOMAIN s = DOMAIN writes /\ \A i \in DOMAIN writes : s[i] = op(i)
    BY DEF ProgramOps
  <2>2. \A i \in DOMAIN writes : op(i).unit = "tuner" /\ op(i).set = writes[i]
    OBVIOUS
  <2> HIDE DEF s, op
  <2> QED
    BY <2>1, <2>2
<1>4. (AllOk(t) => ok) /\ Within(t, {}, {})
  <2>1. CASE ok
    <3>1. t = <<>>
      BY <2>1 DEF ProgramEnd
    <3> HIDE DEF t
    <3> QED
      BY <2>1, <3>1 DEF Within
  <2>2. CASE ~ok
    <3>1. t = <<Fails("tuner")>>
      BY <2>2 DEF ProgramEnd
    <3> HIDE DEF t
    <3> QED
      BY <3>1, FailsSay
  <2> QED
    BY <2>1, <2>2
<1> HIDE DEF s, t
<1>5. ASSUME AllOk(ops)
      PROVE  ok
  <2>1. AllOk(s \o t)
    BY <1>2, <1>5, BridgedSays
  <2> QED
    BY <1>2, <1>4, <2>1, OkOfBoth
<1>6. ASSUME NEW T, \A i \in DOMAIN writes : DOMAIN writes[i] \subseteq T
      PROVE  Within(ops, {"SoftReset"}, T)
  <2>1. Within(s, {}, T)
    BY <1>2, <1>3, <1>6 DEF Within, Touches
  <2>2. Within(s \o t, {} \cup {}, T \cup {})
    BY <1>4, <2>1, WithinBoth
  <2>3. Within(s \o t, {}, T)
    BY <2>2, WithinMore
  <2> QED
    BY <1>2, <2>3, BridgedSays
<1>7. ASSUME NEW i \in DOMAIN writes, NEW r \in DOMAIN writes[i],
             \A j \in DOMAIN writes : j > i => r \notin DOMAIN writes[j]
      PROVE  Leaves(ops, "tuner", r, writes[i][r].mask, writes[i][r].val)
  <2> DEFINE m == writes[i][r].mask
             v == writes[i][r].val
  <2>1. \A b \in m : Assigns(s[i], "tuner", r, b) /\ (b \in s[i].set[r].val <=> b \in v)
    BY <1>3, <1>7 DEF Assigns
  <2>2. \A b \in m : \A j \in DOMAIN s : j > i => ~Assigns(s[j], "tuner", r, b)
    BY <1>3, <1>7 DEF Assigns
  <2> HIDE DEF m, v
  <2>3. Leaves(s, "tuner", r, m, v)
    BY <1>3, <2>1, <2>2 DEF Leaves, LeavesBit
  <2>4. Keeps(s, s \o t, {}, {})
    BY <1>2, <1>4, LeavesStay
  <2>5. Leaves(s \o t, "tuner", r, m, v)
    BY <2>3, <2>4 DEF Keeps, Touches
  <2>6. Leaves(ops, "tuner", r, m, v)
    BY <1>2, <2>5, BridgedSays
  <2> QED
    BY <2>6 DEF m, v
<1>8. ops \in Seq(Operation)
  BY <1>2, BridgedSays
<1> HIDE DEF ops
<1> QED
  BY <1>1, <1>5, <1>6, <1>7, <1>8

LEMMA RejectedSays ==
  /\ TunerOp(Rejected) \in Seq(Operation) /\ ~AllOk(TunerOp(Rejected))
  /\ Within(TunerOp(Rejected), {"SoftReset"}, {})
<1> DEFINE w == <<>>
<1>1. w \in Seq(QuietSets) /\ FALSE \in BOOLEAN /\ \A i \in DOMAIN w : DOMAIN w[i] \subseteq {}
  OBVIOUS
<1>2. Rejected = [writes |-> w, ok |-> FALSE]
  BY DEF Rejected, Stops
<1> HIDE DEF w
<1>3. LET ops == TunerOp([writes |-> w, ok |-> FALSE])
      IN /\ ops \in Seq(Operation)
         /\ AllOk(ops) => FALSE
         /\ \A T : (\A i \in DOMAIN w : DOMAIN w[i] \subseteq T) => Within(ops, {"SoftReset"}, T)
  BY <1>1, ProgramSays
<1> QED
  BY <1>1, <1>2, <1>3

\* A program of one masked write.
OneMasked(reg, val, mask) == TunerOp(Body(<<Masked(reg, val, mask)>>))

LEMMA OneMaskedSays ==
  ASSUME NEW reg \in R860Regs, NEW val, NEW mask, reg = 5 => 7 \notin BitsOf(mask)
  PROVE  /\ OneMasked(reg, val, mask) \in Seq(Operation)
         /\ Within(OneMasked(reg, val, mask), {"SoftReset"}, {reg})
         /\ Leaves(OneMasked(reg, val, mask), "tuner", reg, BitsOf(mask), BitsOf(val))
<1> DEFINE w == Masked(reg, val, mask)
           s == <<w>>
<1>1. w \in QuietSets /\ DOMAIN w = {reg} /\ w[reg].mask = BitsOf(mask) /\ w[reg].val = BitsOf(val)
  BY MaskedQuiet DEF Masked
<1>2. OneMasked(reg, val, mask) = TunerOp([writes |-> s, ok |-> TRUE])
  BY DEF OneMasked, Body
<1> HIDE DEF w
<1>3. s \in Seq(QuietSets) /\ TRUE \in BOOLEAN /\ DOMAIN s = {1} /\ s[1] = w
  BY <1>1
<1> HIDE DEF s
<1>4. LET ops == TunerOp([writes |-> s, ok |-> TRUE])
      IN /\ ops \in Seq(Operation)
         /\ \A T : (\A i \in DOMAIN s : DOMAIN s[i] \subseteq T) => Within(ops, {"SoftReset"}, T)
         /\ \A i \in DOMAIN s : \A r \in DOMAIN s[i] :
              (\A j \in DOMAIN s : j > i => r \notin DOMAIN s[j]) =>
                   Leaves(ops, "tuner", r, s[i][r].mask, s[i][r].val)
  BY <1>3, ProgramSays
<1>5. /\ \A i \in DOMAIN s : DOMAIN s[i] \subseteq {reg}
      /\ 1 \in DOMAIN s /\ reg \in DOMAIN s[1]
      /\ \A j \in DOMAIN s : j > 1 => reg \notin DOMAIN s[j]
  BY <1>1, <1>3
<1>6. s[1][reg].mask = BitsOf(mask) /\ s[1][reg].val = BitsOf(val)
  BY <1>1, <1>3
<1> DEFINE ops == TunerOp([writes |-> s, ok |-> TRUE])
<1> HIDE DEF ops
<1>7. ops \in Seq(Operation) /\ Within(ops, {"SoftReset"}, {reg})
  BY <1>4, <1>5 DEF ops
<1>8. Leaves(ops, "tuner", reg, s[1][reg].mask, s[1][reg].val)
  BY <1>4, <1>5 DEF ops
<1>9. Leaves(ops, "tuner", reg, BitsOf(mask), BitsOf(val))
  BY <1>6, <1>8
<1> QED
  BY <1>2, <1>7, <1>9 DEF ops

\* What n rows leave when they are the script ops: each register it names once
\* has the row's value under the row's mask.
RowsLeft(unit, n, rows, ops) ==
  /\ ops \in Seq(Operation)
  /\ \A C, T : {rows[i][1] : i \in 1..n} \subseteq Touches(unit, C, T) => Within(ops, C, T)
  /\ \A k \in 1..n : (\A i \in 1..n : rows[i][1] = rows[k][1] => i = k) =>
       Leaves(ops, unit, rows[k][1], BitsOf(rows[k][3]), BitsOf(rows[k][2]))

LEMMA BatchAlone ==
  ASSUME NEW unit \in {"chip", "tuner"}, NEW n \in Nat, NEW rows, DOMAIN rows = 1..n,
         \A i \in 1..n : rows[i][1] \in RegsOf(unit)
  PROVE  RowsLeft(unit, n, rows, <<Batch(unit, rows)>>)
<1> DEFINE op == Batch(unit, rows)
<1>1. op \in Operation
  BY BatchIsOp
<1>2. /\ op.unit = unit /\ DOMAIN op.set = {rows[i][1] : i \in 1..n}
      /\ \A k \in 1..n : (\A i \in 1..n : rows[i][1] = rows[k][1] => i = k) =>
           op.set[rows[k][1]] = [val |-> BitsOf(rows[k][2]), mask |-> BitsOf(rows[k][3])]
  BY BatchSpan
<1> HIDE DEF op
<1>3. <<op>> \in Seq(Operation)
  BY <1>1, OneOp
<1>4. \A C, T : {rows[i][1] : i \in 1..n} \subseteq Touches(unit, C, T) => Within(<<op>>, C, T)
  BY <1>1, <1>2, OneOp
<1>5. ASSUME NEW k \in 1..n, \A i \in 1..n : rows[i][1] = rows[k][1] => i = k
      PROVE  Leaves(<<op>>, unit, rows[k][1], BitsOf(rows[k][3]), BitsOf(rows[k][2]))
  <2> DEFINE m == BitsOf(rows[k][3])
             v == BitsOf(rows[k][2])
             r == rows[k][1]
  <2>1. r \in DOMAIN op.set /\ op.set[r] = [val |-> v, mask |-> m]
    BY <1>2, <1>5
  <2> HIDE DEF m, v, r
  <2>2. \A b \in m : Assigns(op, unit, r, b) /\ (b \in op.set[r].val <=> b \in v)
    BY <1>2, <2>1 DEF Assigns
  <2>3. Leaves(<<op>>, unit, r, m, v)
    BY <1>1, <2>2, OneOp DEF Leaves
  <2> QED
    BY <2>3 DEF m, v, r
<1> QED
  BY <1>3, <1>4, <1>5 DEF op, RowsLeft

\* The same of whole words.
WordsLeft(n, rows, ops) ==
  /\ ops \in Seq(Operation)
  /\ \A C, T : {rows[i][1] : i \in 1..n} \subseteq C => Within(ops, C, T)
  /\ \A k \in 1..n : (\A i \in 1..n : rows[i][1] = rows[k][1] => i = k) =>
       Leaves(ops, "chip", rows[k][1], 0..15, BitsOf(rows[k][2]))

LEMMA WritesAlone ==
  ASSUME NEW n \in Nat, NEW rows, DOMAIN rows = 1..n, \A i \in 1..n : rows[i][1] \in BasebandRegs
  PROVE  WordsLeft(n, rows, <<Writes(rows)>>)
<1> DEFINE full == [i \in 1..n |-> <<rows[i][1], rows[i][2], 65535>>]
           ops == <<Batch("chip", full)>>
<1>1. <<Writes(rows)>> = ops
  BY DEF Writes
<1>2. DOMAIN full = 1..n /\ \A i \in 1..n : full[i][1] = rows[i][1] /\ full[i][2] = rows[i][2] /\ full[i][3] = 65535
  OBVIOUS
<1> HIDE DEF full
<1>3. \A i \in 1..n : full[i][1] \in RegsOf("chip")
  BY <1>2, RadioAssumption DEF RegsOf
<1>4. RowsLeft("chip", n, full, ops)
  BY <1>2, <1>3, BatchAlone
<1> HIDE DEF ops
<1>5. ASSUME NEW C, NEW T, {rows[i][1] : i \in 1..n} \subseteq C
      PROVE  Within(ops, C, T)
  <2>1. {full[i][1] : i \in 1..n} \subseteq Touches("chip", C, T)
    BY <1>2, <1>5 DEF Touches
  <2> QED
    BY <1>4, <2>1 DEF RowsLeft
<1>6. ASSUME NEW k \in 1..n, \A i \in 1..n : rows[i][1] = rows[k][1] => i = k
      PROVE  Leaves(ops, "chip", rows[k][1], 0..15, BitsOf(rows[k][2]))
  <2>1. \A i \in 1..n : full[i][1] = full[k][1] => i = k
    BY <1>2, <1>6
  <2>2. Leaves(ops, "chip", full[k][1], BitsOf(full[k][3]), BitsOf(full[k][2]))
    BY <1>4, <2>1 DEF RowsLeft
  <2>3. full[k][1] = rows[k][1] /\ full[k][2] = rows[k][2] /\ BitsOf(full[k][3]) = 0..15
    BY <1>2, WholeWord
  <2> QED
    BY <2>2, <2>3
<1> QED
  BY <1>1, <1>4, <1>5, <1>6 DEF RowsLeft, WordsLeft

LEMMA TwoWrites ==
  ASSUME NEW r, NEW a \in Operation, NEW z \in Operation, a.unit = "chip", z.unit = "chip",
         DOMAIN a.set = {r}, DOMAIN z.set = {r}
  PROVE  <<a, z>> \in Seq(Operation) /\ Within(<<a, z>>, {r}, {})
<1> DEFINE ops == <<a, z>>
<1>1. ops \in Seq(Operation) /\ DOMAIN ops = 1..2 /\ ops[1] = a /\ ops[2] = z
  OBVIOUS
<1> HIDE DEF ops
<1>2. \A i \in DOMAIN ops : ops[i] \in {a, z}
  BY <1>1
<1>3. Within(ops, {r}, {})
  BY <1>1, <1>2, Zenon DEF Within, Touches
<1> QED
  BY <1>1, <1>3 DEF ops

LEMMA ResetDemodSays == ResetDemod \in Seq(Operation) /\ Within(ResetDemod, {"SoftReset"}, {})
<1> DEFINE a == Writes(<<<<"SoftReset", \h14>>>>)
           z == Writes(<<<<"SoftReset", \h10>>>>)
<1>1. /\ a \in Operation /\ a.unit = "chip" /\ DOMAIN a.set = {"SoftReset"}
      /\ z \in Operation /\ z.unit = "chip" /\ DOMAIN z.set = {"SoftReset"}
  BY OneWriteLeaves, BasebandHas
<1>2. ResetDemod = <<a, z>>
  BY DEF ResetDemod
<1> HIDE DEF a, z
<1> DEFINE ops == <<a, z>>
<1>3. ops \in Seq(Operation) /\ Within(ops, {"SoftReset"}, {})
  BY <1>1, TwoWrites
<1> HIDE DEF ops
<1> QED
  BY <1>2, <1>3 DEF ops

LEMMA ResetSampleBufferSays == Within(ResetSampleBuffer, {"EPA_CTL", "SoftReset"}, {})
<1> DEFINE a == Writes(<<<<"EPA_CTL", \h1002>>>>)
           z == Writes(<<<<"EPA_CTL", 0>>>>)
           W(v) == Writes(<<<<"EPA_CTL", v>>>>)
<1>1. /\ a \in Operation /\ a.unit = "chip" /\ DOMAIN a.set = {"EPA_CTL"}
      /\ z \in Operation /\ z.unit = "chip" /\ DOMAIN z.set = {"EPA_CTL"}
  <2>1. ASSUME NEW v \in Nat
        PROVE  W(v) \in Operation /\ W(v).unit = "chip" /\ DOMAIN W(v).set = {"EPA_CTL"}
    BY OneWriteLeaves, BasebandHas
  <2>2. a = W(\h1002) /\ z = W(0)
    OBVIOUS
  <2> HIDE DEF W, a, z
  <2> QED
    BY <2>1, <2>2
<1>2. ResetSampleBuffer = <<a, z>> \o ResetDemod
  BY DEF ResetSampleBuffer
<1> HIDE DEF a, z
<1> DEFINE ops == <<a, z>>
<1>3. ops \in Seq(Operation) /\ Within(ops, {"EPA_CTL"}, {})
  BY <1>1, TwoWrites
<1> HIDE DEF ops
<1>6. Within(ops \o ResetDemod, {"EPA_CTL"} \cup {"SoftReset"}, {} \cup {})
  BY <1>3, ResetDemodSays, WithinBoth
<1>7. Within(ops \o ResetDemod, {"EPA_CTL", "SoftReset"}, {})
  BY <1>6, WithinMore
<1> QED
  BY <1>2, <1>7 DEF ops

LEMMA SetSampleRateSays ==
  ASSUME NEW rate
  PROVE  LET ops == SetSampleRate(rate)
         IN /\ ops \in Seq(Operation)
            /\ Within(ops, {"RSampRatioHi", "RSampRatioLo", "SoftReset"}, {})
            /\ AllOk(ops) =>
                 /\ ValidSampleRate(rate)
                 /\ Leaves(ops, "chip", "RSampRatioHi", 0..15, BitsOf(RSampRatio(rate) \div 65536))
                 /\ Leaves(ops, "chip", "RSampRatioLo", 0..15, BitsOf(RSampRatio(rate) % 65536))
<1> DEFINE ops == SetSampleRate(rate)
           D == {"RSampRatioHi", "RSampRatioLo", "SoftReset"}
<1>1. CASE ~ValidSampleRate(rate)
  <2>1. ops = <<Fails("chip")>>
    BY <1>1 DEF SetSampleRate
  <2> HIDE DEF ops
  <2>2. ops \in Seq(Operation) /\ ~AllOk(ops) /\ Within(ops, {}, {})
    BY <2>1, FailsSay
  <2>3. Within(ops, D, {})
    BY <2>2, WithinMore
  <2> QED
    BY <2>2, <2>3 DEF ops
<1>2. CASE ValidSampleRate(rate)
  <2> DEFINE hi == RSampRatio(rate) \div 65536
             lo == RSampRatio(rate) % 65536
             rows == <<<<"RSampRatioHi", hi>>, <<"RSampRatioLo", lo>>>>
             w == <<Writes(rows)>>
  <2>1. ops = w \o ResetDemod
    BY <1>2 DEF SetSampleRate
  <2> HIDE DEF hi, lo
  <2>2. /\ 2 \in Nat /\ DOMAIN rows = 1..2 /\ \A i \in 1..2 : rows[i][1] \in BasebandRegs
        /\ {rows[i][1] : i \in 1..2} \subseteq {"RSampRatioHi", "RSampRatioLo"}
        /\ rows[1][1] = "RSampRatioHi" /\ rows[1][2] = hi
        /\ rows[2][1] = "RSampRatioLo" /\ rows[2][2] = lo
    BY BasebandHas
  <2> HIDE DEF rows
  <2>3. WordsLeft(2, rows, w)
    BY <2>2, WritesAlone
  <2> HIDE DEF w, ops
  <2>4. (\A i \in 1..2 : rows[i][1] = rows[1][1] => i = 1) /\ (\A i \in 1..2 : rows[i][1] = rows[2][1] => i = 2)
    BY <2>2
  <2>5. /\ Leaves(w, "chip", rows[1][1], 0..15, BitsOf(rows[1][2]))
        /\ Leaves(w, "chip", rows[2][1], 0..15, BitsOf(rows[2][2]))
    BY <2>3, <2>4 DEF WordsLeft
  <2>6. Within(w, {"RSampRatioHi", "RSampRatioLo"}, {})
    BY <2>2, <2>3 DEF WordsLeft
  <2>7. Within(ops, {"RSampRatioHi", "RSampRatioLo"} \cup {"SoftReset"}, {} \cup {})
    BY <2>1, <2>6, ResetDemodSays, WithinBoth
  <2>8. Within(ops, D, {})
    BY <2>7, WithinMore
  <2>9. Keeps(w, ops, {"SoftReset"}, {})
    BY <2>1, <2>3, ResetDemodSays, LeavesStay DEF WordsLeft
  <2>10. /\ Leaves(ops, "chip", "RSampRatioHi", 0..15, BitsOf(hi))
         /\ Leaves(ops, "chip", "RSampRatioLo", 0..15, BitsOf(lo))
    BY <2>2, <2>5, <2>9 DEF Keeps, Touches
  <2>11. ops \in Seq(Operation)
    BY <2>8 DEF Within
  <2> QED
    BY <1>2, <2>8, <2>10, <2>11 DEF ops, hi, lo
<1> QED
  BY <1>1, <1>2

LEMMA WriteDemodIFFreqSays ==
  ASSUME NEW freq
  PROVE  LET ops == WriteDemodIFFreq(freq)
             e == EncodedIF(freq)
         IN /\ ops \in Seq(Operation)
            /\ Within(ops, {"IFFreqHi", "IFFreqMid", "IFFreqLo"}, {})
            /\ Leaves(ops, "chip", "IFFreqHi", 0..15, BitsOf(e \div 65536))
            /\ Leaves(ops, "chip", "IFFreqMid", 0..15, BitsOf((e \div 256) % 256))
            /\ Leaves(ops, "chip", "IFFreqLo", 0..15, BitsOf(e % 256))
<1> DEFINE hi == EncodedIF(freq) \div 65536
           mid == (EncodedIF(freq) \div 256) % 256
           lo == EncodedIF(freq) % 256
           rows == <<<<"IFFreqHi", hi>>, <<"IFFreqMid", mid>>, <<"IFFreqLo", lo>>>>
           ops == <<Writes(rows)>>
<1>1. WriteDemodIFFreq(freq) = ops
  BY DEF WriteDemodIFFreq
<1> HIDE DEF hi, mid, lo
<1>2. /\ 3 \in Nat /\ DOMAIN rows = 1..3 /\ \A i \in 1..3 : rows[i][1] \in BasebandRegs
      /\ {rows[i][1] : i \in 1..3} \subseteq {"IFFreqHi", "IFFreqMid", "IFFreqLo"}
      /\ rows[1][1] = "IFFreqHi" /\ rows[1][2] = hi
      /\ rows[2][1] = "IFFreqMid" /\ rows[2][2] = mid
      /\ rows[3][1] = "IFFreqLo" /\ rows[3][2] = lo
  BY BasebandHas
<1> HIDE DEF rows
<1>3. WordsLeft(3, rows, ops)
  BY <1>2, WritesAlone
<1> HIDE DEF ops
<1>4. /\ \A i \in 1..3 : rows[i][1] = rows[1][1] => i = 1
      /\ \A i \in 1..3 : rows[i][1] = rows[2][1] => i = 2
      /\ \A i \in 1..3 : rows[i][1] = rows[3][1] => i = 3
  BY <1>2
<1>5. /\ Leaves(ops, "chip", rows[1][1], 0..15, BitsOf(rows[1][2]))
      /\ Leaves(ops, "chip", rows[2][1], 0..15, BitsOf(rows[2][2]))
      /\ Leaves(ops, "chip", rows[3][1], 0..15, BitsOf(rows[3][2]))
  BY <1>3, <1>4 DEF WordsLeft
<1>6. /\ ops \in Seq(Operation) /\ Within(ops, {"IFFreqHi", "IFFreqMid", "IFFreqLo"}, {})
      /\ Leaves(ops, "chip", "IFFreqHi", 0..15, BitsOf(hi))
      /\ Leaves(ops, "chip", "IFFreqMid", 0..15, BitsOf(mid))
      /\ Leaves(ops, "chip", "IFFreqLo", 0..15, BitsOf(lo))
  BY <1>2, <1>3, <1>5 DEF WordsLeft
<1> QED
  BY <1>1, <1>6 DEF hi, mid, lo

LEMMA InitializeForSampleRateSays ==
  ASSUME NEW rate
  PROVE  LET ops == InitializeForSampleRate(rate)
         IN /\ ops \in Seq(Operation)
            /\ Leaves(ops, "tuner", 10, {4}, BitsOf(Bandwidth(rate).r10))
            /\ Leaves(ops, "tuner", 11, (0..7) \ {4}, BitsOf(Bandwidth(rate).r11))
<1> DEFINE b == Bandwidth(rate)
           rows == <<<<10, b.r10, \h10>>, <<11, b.r11, \hef>>>>
           body == <<Batch("tuner", rows)>>
<1>1. InitializeForSampleRate(rate) = WithRepeater(body)
  BY DEF InitializeForSampleRate
<1> HIDE DEF b
<1>2. /\ 2 \in Nat /\ DOMAIN rows = 1..2 /\ \A i \in 1..2 : rows[i][1] \in R860Regs
      /\ rows[1] = <<10, b.r10, 16>> /\ rows[2] = <<11, b.r11, 239>>
  BY DEF R860Regs
<1> HIDE DEF rows
<1>3. RowsLeft("tuner", 2, rows, body)
  <2>1. \A i \in 1..2 : rows[i][1] \in RegsOf("tuner")
    BY <1>2, RadioAssumption DEF RegsOf
  <2> QED
    BY <1>2, <2>1, BatchAlone
<1> HIDE DEF body
<1>4. (\A i \in 1..2 : rows[i][1] = rows[1][1] => i = 1) /\ (\A i \in 1..2 : rows[i][1] = rows[2][1] => i = 2)
  BY <1>2
<1>5. /\ Leaves(body, "tuner", rows[1][1], BitsOf(rows[1][3]), BitsOf(rows[1][2]))
      /\ Leaves(body, "tuner", rows[2][1], BitsOf(rows[2][3]), BitsOf(rows[2][2]))
  BY <1>3, <1>4 DEF RowsLeft
<1>6. /\ Leaves(body, "tuner", 10, {4}, BitsOf(b.r10))
      /\ Leaves(body, "tuner", 11, (0..7) \ {4}, BitsOf(b.r11))
  <2>1. /\ rows[1][1] = 10 /\ rows[1][2] = b.r10 /\ BitsOf(rows[1][3]) = {4}
        /\ rows[2][1] = 11 /\ rows[2][2] = b.r11 /\ BitsOf(rows[2][3]) = (0..7) \ {4}
    BY <1>2, OneBit, MaskBits
  <2> QED
    BY <1>5, <2>1
<1>7. /\ WithRepeater(body) \in Seq(Operation)
      /\ Leaves(WithRepeater(body), "tuner", 10, {4}, BitsOf(b.r10))
      /\ Leaves(WithRepeater(body), "tuner", 11, (0..7) \ {4}, BitsOf(b.r11))
  BY <1>3, <1>6, BridgedSays DEF RowsLeft
<1> QED
  BY <1>1, <1>7 DEF b

\* A programmed PLL: the registers of its integer and its fraction.
PLLLeft(ops, s) ==
  /\ Leaves(ops, "tuner", 20, 0..7, BitsOf(s.ni + s.si * 64))
  /\ Leaves(ops, "tuner", 22, 0..7, BitsOf(s.sdm \div 256))
  /\ Leaves(ops, "tuner", 21, 0..7, BitsOf(s.sdm % 256))

FreqRegs == {8, 9, 16, 18, 20, 21, 22, 23, 26, 27}

LEMMA ProgramPLLSays ==
  ASSUME NEW s
  PROVE  /\ ProgramPLL(s) \in Seq(Operation) /\ Within(ProgramPLL(s), {}, FreqRegs)
         /\ PLLLeft(ProgramPLL(s), s)
<1> DEFINE div == s.divNum * 32
           int == s.ni + s.si * 64
           off == IF s.sdm = 0 THEN 8 ELSE 0
           hi == s.sdm \div 256
           lo == s.sdm % 256
           rows == <<<<16, div, \he0>>, <<20, int, 255>>, <<18, off, 8>>,
                     <<22, hi, 255>>, <<21, lo, 255>>, <<26, 8, 8>>>>
           ops == <<Batch("tuner", rows)>>
<1>1. ProgramPLL(s) = ops
  BY DEF ProgramPLL
<1> HIDE DEF div, int, off, hi, lo
<1>2. /\ 6 \in Nat /\ DOMAIN rows = 1..6
      /\ rows[1][1] = 16 /\ rows[2] = <<20, int, 255>> /\ rows[3][1] = 18
      /\ rows[4] = <<22, hi, 255>> /\ rows[5] = <<21, lo, 255>> /\ rows[6][1] = 26
  OBVIOUS
<1> HIDE DEF rows
<1>3. \A i \in 1..6 : rows[i][1] \in RegsOf("tuner") /\ rows[i][1] \in FreqRegs
  BY <1>2, RadioAssumption DEF RegsOf, R860Regs, FreqRegs
<1>4. RowsLeft("tuner", 6, rows, ops)
  BY <1>2, <1>3, BatchAlone
<1> HIDE DEF ops
<1>5. /\ \A i \in 1..6 : rows[i][1] = rows[2][1] => i = 2
      /\ \A i \in 1..6 : rows[i][1] = rows[4][1] => i = 4
      /\ \A i \in 1..6 : rows[i][1] = rows[5][1] => i = 5
  BY <1>2
<1>6. /\ Leaves(ops, "tuner", rows[2][1], BitsOf(rows[2][3]), BitsOf(rows[2][2]))
      /\ Leaves(ops, "tuner", rows[4][1], BitsOf(rows[4][3]), BitsOf(rows[4][2]))
      /\ Leaves(ops, "tuner", rows[5][1], BitsOf(rows[5][3]), BitsOf(rows[5][2]))
  BY <1>4, <1>5 DEF RowsLeft
<1>7. /\ rows[2][1] = 20 /\ rows[2][2] = int /\ BitsOf(rows[2][3]) = 0..7
      /\ rows[4][1] = 22 /\ rows[4][2] = hi /\ BitsOf(rows[4][3]) = 0..7
      /\ rows[5][1] = 21 /\ rows[5][2] = lo /\ BitsOf(rows[5][3]) = 0..7
  BY <1>2, MaskBits
<1>8. /\ Leaves(ops, "tuner", 20, 0..7, BitsOf(int))
      /\ Leaves(ops, "tuner", 22, 0..7, BitsOf(hi))
      /\ Leaves(ops, "tuner", 21, 0..7, BitsOf(lo))
  BY <1>6, <1>7
<1>9. ops \in Seq(Operation) /\ Within(ops, {}, FreqRegs)
  BY <1>3, <1>4 DEF RowsLeft, Touches
<1> QED
  BY <1>1, <1>8, <1>9 DEF PLLLeft, int, hi, lo

LEMMA PLLLeftLater ==
  ASSUME NEW s \in Seq(Operation), NEW t \in Seq(Operation), NEW set, PLLLeft(t, set)
  PROVE  PLLLeft(s \o t, set)
BY LeavesLater DEF PLLLeft

\* The batches before the PLL is programmed.
LEMMA FreqBatch ==
  ASSUME NEW n \in Nat, NEW rows, DOMAIN rows = 1..n, \A i \in 1..n : rows[i][1] \in FreqRegs
  PROVE  /\ Batch("tuner", rows) \in Operation /\ Batch("tuner", rows).unit = "tuner"
         /\ DOMAIN Batch("tuner", rows).set \subseteq FreqRegs
<1>1. \A i \in 1..n : rows[i][1] \in RegsOf("tuner")
  BY RadioAssumption DEF RegsOf, R860Regs, FreqRegs
<1>2. Batch("tuner", rows) \in Operation
  BY <1>1, BatchIsOp
<1>3. Batch("tuner", rows).unit = "tuner" /\ DOMAIN Batch("tuner", rows).set = {rows[i][1] : i \in 1..n}
  BY BatchSpan
<1> QED
  BY <1>2, <1>3

LEMMA LockPLLSays ==
  ASSUME NEW lo, NEW fineTune
  PROVE  LET ops == LockPLL(lo, fineTune)
         IN /\ ops \in Seq(Operation) /\ Within(ops, {}, FreqRegs)
            /\ AllOk(ops) => \E k \in PLLDivs(lo, fineTune) : PLLLeft(ops, PLLSettings(lo, fineTune, k))
<1> DEFINE ops == LockPLL(lo, fineTune)
           rv == <<<<26, 0, \h0c>>, <<18, \h80, \he0>>>>
           vco == Batch("tuner", rv)
           head == <<vco, TunerReads>>
           k == CHOOSE x \in PLLDivs(lo, fineTune) : TRUE
           end == IF PLLDivs(lo, fineTune) = {} THEN <<Fails("tuner")>>
                  ELSE ProgramPLL(PLLSettings(lo, fineTune, k))
<1>1. ops = head \o end
  BY DEF LockPLL
<1>2. 2 \in Nat /\ DOMAIN rv = 1..2 /\ \A i \in 1..2 : rv[i][1] \in FreqRegs
  BY DEF FreqRegs
<1> HIDE DEF rv
<1>3. /\ vco \in Operation /\ vco.unit = "tuner" /\ DOMAIN vco.set \subseteq FreqRegs
  BY <1>2, FreqBatch
<1>4. TunerReads \in Operation /\ TunerReads.unit = "tuner" /\ DOMAIN TunerReads.set = {}
  BY TunerReadsQuiet, QuietOps DEF TunerReads, Batch
<1> HIDE DEF vco
<1>5. head \in Seq(Operation) /\ Within(head, {}, FreqRegs)
  <2>1. head \in Seq(Operation) /\ DOMAIN head = 1..2 /\ head[1] = vco /\ head[2] = TunerReads
    BY <1>3, <1>4
  <2> HIDE DEF head
  <2>2. \A i \in DOMAIN head : head[i] \in {vco, TunerReads}
    BY <2>1
  <2>3. \A op \in {vco, TunerReads} : DOMAIN op.set \subseteq Touches(op.unit, {}, FreqRegs)
    BY <1>3, <1>4 DEF Touches
  <2> QED
    BY <2>1, <2>2, <2>3, Zenon DEF Within
<1>6. end \in Seq(Operation) /\ Within(end, {}, FreqRegs)
  <2>1. CASE PLLDivs(lo, fineTune) = {}
    <3>1. end = <<Fails("tuner")>>
      BY <2>1
    <3> HIDE DEF end
    <3> QED
      BY <3>1, FailsSay, WithinMore
  <2>2. CASE PLLDivs(lo, fineTune) # {}
    <3>1. end = ProgramPLL(PLLSettings(lo, fineTune, k))
      BY <2>2
    <3> HIDE DEF end, k
    <3> QED
      BY <3>1, ProgramPLLSays
  <2> QED
    BY <2>1, <2>2
<1>7. ASSUME AllOk(end)
      PROVE  k \in PLLDivs(lo, fineTune) /\ PLLLeft(end, PLLSettings(lo, fineTune, k))
  <2>1. PLLDivs(lo, fineTune) # {}
    <3> SUFFICES ASSUME PLLDivs(lo, fineTune) = {}
                 PROVE  FALSE
      OBVIOUS
    <3>1. end = <<Fails("tuner")>>
      OBVIOUS
    <3> HIDE DEF end
    <3> QED
      BY <1>7, <3>1, FailsSay
  <2>2. end = ProgramPLL(PLLSettings(lo, fineTune, k)) /\ k \in PLLDivs(lo, fineTune)
    BY <2>1
  <2> HIDE DEF end, k
  <2> QED
    BY <2>2, ProgramPLLSays
<1> HIDE DEF head, end, k, ops
<1>8. ops \in Seq(Operation)
  BY <1>1, <1>5, <1>6, JoinedOps
<1>9. Within(ops, {}, FreqRegs)
  <2>1. Within(ops, {} \cup {}, FreqRegs \cup FreqRegs)
    BY <1>1, <1>5, <1>6, WithinBoth
  <2> QED
    BY <2>1, WithinMore
<1>10. ASSUME AllOk(ops)
       PROVE  \E x \in PLLDivs(lo, fineTune) : PLLLeft(ops, PLLSettings(lo, fineTune, x))
  <2>1. AllOk(end)
    BY <1>1, <1>5, <1>6, <1>10, OkOfBoth
  <2>2. PLLLeft(ops, PLLSettings(lo, fineTune, k))
    BY <1>1, <1>5, <1>6, <1>7, <2>1, PLLLeftLater
  <2> QED
    BY <1>7, <2>1, <2>2
<1> QED
  BY <1>8, <1>9, <1>10 DEF ops

LEMMA SetFreqSays ==
  ASSUME NEW lo, NEW fineTune
  PROVE  LET ops == SetFreq(lo, fineTune)
         IN /\ ops \in Seq(Operation) /\ Within(ops, {"SoftReset"}, FreqRegs)
            /\ AllOk(ops) => \E k \in PLLDivs(lo, fineTune) : PLLLeft(ops, PLLSettings(lo, fineTune, k))
<1> DEFINE band == BandRange(lo)
           rm == <<<<23, band[2], 8>>, <<26, band[3], \hc3>>, <<27, band[4], 255>>,
                   <<16, 0, 3>>, <<8, 0, \h3f>>, <<9, 0, \h3f>>>>
           mux == Batch("tuner", rm)
           pll == LockPLL(lo, fineTune)
           body == <<mux>> \o pll
           ops == WithRepeater(body)
<1>1. SetFreq(lo, fineTune) = ops
  BY DEF SetFreq, SetMux
<1> HIDE DEF band
<1>2. 6 \in Nat /\ DOMAIN rm = 1..6 /\ \A i \in 1..6 : rm[i][1] \in FreqRegs
  BY DEF FreqRegs
<1> HIDE DEF rm
<1>3. mux \in Operation /\ mux.unit = "tuner" /\ DOMAIN mux.set \subseteq FreqRegs
  BY <1>2, FreqBatch
<1> HIDE DEF mux
<1>4. <<mux>> \in Seq(Operation) /\ Within(<<mux>>, {}, FreqRegs)
  BY <1>3, OneOp DEF Touches
<1>5. /\ pll \in Seq(Operation) /\ Within(pll, {}, FreqRegs)
      /\ AllOk(pll) => \E k \in PLLDivs(lo, fineTune) : PLLLeft(pll, PLLSettings(lo, fineTune, k))
  BY LockPLLSays
<1> HIDE DEF pll
<1>6. body \in Seq(Operation) /\ Within(body, {}, FreqRegs)
  <2>1. Within(body, {} \cup {}, FreqRegs \cup FreqRegs)
    BY <1>4, <1>5, WithinBoth
  <2> QED
    BY <1>4, <1>5, <2>1, WithinMore, JoinedOps
<1>7. ops \in Seq(Operation) /\ Within(ops, {"SoftReset"}, FreqRegs) /\ (AllOk(ops) => AllOk(body))
  BY <1>6, BridgedSays
<1>8. ASSUME AllOk(ops)
      PROVE  \E k \in PLLDivs(lo, fineTune) : PLLLeft(ops, PLLSettings(lo, fineTune, k))
  <2>1. AllOk(pll)
    BY <1>4, <1>5, <1>7, <1>8, OkOfBoth
  <2>2. PICK k \in PLLDivs(lo, fineTune) : PLLLeft(pll, PLLSettings(lo, fineTune, k))
    BY <1>5, <2>1
  <2>3. PLLLeft(body, PLLSettings(lo, fineTune, k))
    BY <1>4, <1>5, <2>2, PLLLeftLater
  <2>4. PLLLeft(ops, PLLSettings(lo, fineTune, k))
    <3> HIDE DEF body
    <3> QED
      BY <1>6, <2>3, BridgedSays DEF PLLLeft
  <2> QED
    BY <2>4
<1> HIDE DEF ops
<1> QED
  BY <1>1, <1>7, <1>8

\* A gain stage's write: auto writes va under ma, manual a step of 0..15 in vm.
GainLeft(ops, stage, reg, va, ma, vm) ==
  IF stage.auto THEN Leaves(ops, "tuner", reg, BitsOf(ma), BitsOf(va))
  ELSE stage.step < 16 /\ Leaves(ops, "tuner", reg, 0..4, BitsOf(vm))

LEMMA GainSays ==
  ASSUME NEW stage, stage.auto \in BOOLEAN, NEW reg \in {5, 7, 12}, NEW va, NEW ma, NEW vm, NEW p,
         reg = 5 => ma = 16,
         p = IF stage.auto THEN Body(<<Masked(reg, va, ma)>>)
             ELSE IF stage.step < 16 THEN Body(<<Masked(reg, vm, 31)>>) ELSE Rejected
  PROVE  /\ TunerOp(p) \in Seq(Operation) /\ Within(TunerOp(p), {"SoftReset"}, {reg})
         /\ AllOk(TunerOp(p)) => GainLeft(TunerOp(p), stage, reg, va, ma, vm)
<1> DEFINE ops == TunerOp(p)
           A == OneMasked(reg, va, ma)
           M == OneMasked(reg, vm, 31)
           R == TunerOp(Rejected)
<1>1. ops = IF stage.auto THEN A ELSE IF stage.step < 16 THEN M ELSE R
  BY DEF OneMasked
<1>2. reg \in R860Regs /\ (reg = 5 => 7 \notin BitsOf(ma)) /\ (reg = 5 => 7 \notin BitsOf(31))
  BY SomeBits DEF R860Regs
<1>3. /\ A \in Seq(Operation) /\ Within(A, {"SoftReset"}, {reg})
      /\ Leaves(A, "tuner", reg, BitsOf(ma), BitsOf(va))
  BY <1>2, OneMaskedSays
<1>4. /\ M \in Seq(Operation) /\ Within(M, {"SoftReset"}, {reg})
      /\ Leaves(M, "tuner", reg, BitsOf(31), BitsOf(vm))
  BY <1>2, OneMaskedSays
<1>5. R \in Seq(Operation) /\ ~AllOk(R) /\ Within(R, {"SoftReset"}, {reg})
  BY RejectedSays, WithinMore
<1>6. BitsOf(31) = 0..4
  BY MaskBits
<1> HIDE DEF ops, A, M, R
<1>7. /\ ops \in Seq(Operation) /\ Within(ops, {"SoftReset"}, {reg})
      /\ AllOk(ops) => GainLeft(ops, stage, reg, va, ma, vm)
  BY <1>1, <1>3, <1>4, <1>5, <1>6 DEF GainLeft
<1> QED
  BY <1>7 DEF ops

LEMMA GainStays ==
  ASSUME NEW s, NEW t, NEW C, NEW T, Keeps(s, t, C, T), NEW stage, NEW reg, NEW va, NEW ma, NEW vm,
         reg \notin T, GainLeft(s, stage, reg, va, ma, vm)
  PROVE  GainLeft(t, stage, reg, va, ma, vm)
BY DEF GainLeft, Keeps, Touches

LEMMA GainLater ==
  ASSUME NEW s \in Seq(Operation), NEW t \in Seq(Operation),
         NEW stage, NEW reg, NEW va, NEW ma, NEW vm, GainLeft(t, stage, reg, va, ma, vm)
  PROVE  GainLeft(s \o t, stage, reg, va, ma, vm)
BY LeavesLater DEF GainLeft

GainsLeft(ops, c) ==
  /\ GainLeft(ops, c.lna, 5, 0, 16, 16 + c.lna.step)
  /\ GainLeft(ops, c.mixer, 7, 16, 16, c.mixer.step)
  /\ GainLeft(ops, c.vga, 12, 11, 159, c.vga.step)

LEMMA ApplyTunerGainSays ==
  ASSUME NEW c, c.lna \in Stages, c.mixer \in Stages, c.vga \in Stages
  PROVE  LET ops == ApplyTunerGain(c)
         IN /\ ops \in Seq(Operation) /\ Within(ops, {"SoftReset"}, {5, 7, 12})
            /\ AllOk(ops) => GainsLeft(ops, c)
<1> DEFINE l == TunerOp(SetLNAGain(c.lna))
           m == TunerOp(SetMixerGain(c.mixer))
           v == TunerOp(SetVGAGain(c.vga))
           ops == l \o m \o v
<1>1. ApplyTunerGain(c) = ops
  BY DEF ApplyTunerGain
<1>2. c.lna.auto \in BOOLEAN /\ c.mixer.auto \in BOOLEAN /\ c.vga.auto \in BOOLEAN
  BY DEF Stages
<1>3. /\ l \in Seq(Operation) /\ Within(l, {"SoftReset"}, {5})
      /\ AllOk(l) => GainLeft(l, c.lna, 5, 0, 16, 16 + c.lna.step)
  <2> DEFINE p == SetLNAGain(c.lna)
  <2>1. p = IF c.lna.auto THEN Body(<<Masked(5, 0, 16)>>)
            ELSE IF c.lna.step < 16 THEN Body(<<Masked(5, 16 + c.lna.step, 31)>>) ELSE Rejected
    BY <1>2 DEF SetLNAGain, StepCount
  <2> HIDE DEF p
  <2>2. /\ TunerOp(p) \in Seq(Operation) /\ Within(TunerOp(p), {"SoftReset"}, {5})
        /\ AllOk(TunerOp(p)) => GainLeft(TunerOp(p), c.lna, 5, 0, 16, 16 + c.lna.step)
    BY <1>2, <2>1, GainSays
  <2> QED
    BY <2>2 DEF p
<1>4. /\ m \in Seq(Operation) /\ Within(m, {"SoftReset"}, {7})
      /\ AllOk(m) => GainLeft(m, c.mixer, 7, 16, 16, c.mixer.step)
  <2> DEFINE p == SetMixerGain(c.mixer)
             st == c.mixer
             n == c.mixer.step
  <2>1. p = IF st.auto THEN Body(<<Masked(7, 16, 16)>>)
            ELSE IF st.step < 16 THEN Body(<<Masked(7, n, 31)>>) ELSE Rejected
    BY <1>2 DEF SetMixerGain, StepCount
  <2>2. st.auto \in BOOLEAN /\ 7 \in {5, 7, 12} /\ (7 = 5 => 16 = 16)
    BY <1>2
  <2> HIDE DEF p, st, n
  <2>3. /\ TunerOp(p) \in Seq(Operation) /\ Within(TunerOp(p), {"SoftReset"}, {7})
        /\ AllOk(TunerOp(p)) => GainLeft(TunerOp(p), st, 7, 16, 16, n)
    BY <2>1, <2>2, GainSays
  <2> QED
    BY <2>3 DEF p, st, n
<1>5. /\ v \in Seq(Operation) /\ Within(v, {"SoftReset"}, {12})
      /\ AllOk(v) => GainLeft(v, c.vga, 12, 11, 159, c.vga.step)
  <2> DEFINE p == SetVGAGain(c.vga)
  <2>1. p = IF c.vga.auto THEN Body(<<Masked(12, 11, 159)>>)
            ELSE IF c.vga.step < 16 THEN Body(<<Masked(12, c.vga.step, 31)>>) ELSE Rejected
    BY <1>2 DEF SetVGAGain, StepCount
  <2> HIDE DEF p
  <2>2. /\ TunerOp(p) \in Seq(Operation) /\ Within(TunerOp(p), {"SoftReset"}, {12})
        /\ AllOk(TunerOp(p)) => GainLeft(TunerOp(p), c.vga, 12, 11, 159, c.vga.step)
    BY <1>2, <2>1, GainSays
  <2> QED
    BY <2>2 DEF p
<1> HIDE DEF l, m, v
<1>6. l \o m \in Seq(Operation) /\ Within(l \o m, {"SoftReset"}, {5, 7})
  <2>1. Within(l \o m, {"SoftReset"} \cup {"SoftReset"}, {5} \cup {7})
    BY <1>3, <1>4, WithinBoth
  <2> QED
    BY <1>3, <1>4, <2>1, WithinMore, JoinedOps
<1>7. ops \in Seq(Operation) /\ Within(ops, {"SoftReset"}, {5, 7, 12})
  <2>1. Within(ops, {"SoftReset"} \cup {"SoftReset"}, {5, 7} \cup {12})
    BY <1>5, <1>6, WithinBoth
  <2> QED
    BY <1>5, <1>6, <2>1, WithinMore, JoinedOps
<1>8. Keeps(l, l \o m, {"SoftReset"}, {7}) /\ Keeps(l \o m, ops, {"SoftReset"}, {12})
  BY <1>3, <1>4, <1>5, <1>6, LeavesStay
<1>9. ASSUME AllOk(ops)
      PROVE  GainsLeft(ops, c)
  <2>1. AllOk(l \o m) /\ AllOk(v)
    BY <1>5, <1>6, <1>9, OkOfBoth
  <2>2. AllOk(l) /\ AllOk(m)
    BY <1>3, <1>4, <2>1, OkOfBoth
  <2>3. GainLeft(ops, c.vga, 12, 11, 159, c.vga.step)
    BY <1>5, <1>6, <2>1, GainLater
  <2>4. GainLeft(l \o m, c.mixer, 7, 16, 16, c.mixer.step)
    BY <1>3, <1>4, <2>2, GainLater
  <2>5. GainLeft(l \o m, c.lna, 5, 0, 16, 16 + c.lna.step)
    <3> DEFINE n == 16 + c.lna.step
    <3>1. GainLeft(l, c.lna, 5, 0, 16, n) /\ 5 \notin {7}
      BY <1>3, <2>2
    <3> HIDE DEF n
    <3>2. GainLeft(l \o m, c.lna, 5, 0, 16, n)
      BY <1>8, <3>1, GainStays
    <3> QED
      BY <3>2 DEF n
  <2>6. GainLeft(ops, c.mixer, 7, 16, 16, c.mixer.step)
    <3>1. 7 \notin {12}
      OBVIOUS
    <3> QED
      BY <1>8, <2>4, <3>1, GainStays
  <2>7. GainLeft(ops, c.lna, 5, 0, 16, 16 + c.lna.step)
    <3> DEFINE n == 16 + c.lna.step
    <3>1. GainLeft(l \o m, c.lna, 5, 0, 16, n) /\ 5 \notin {12}
      BY <2>5
    <3> HIDE DEF n
    <3>2. GainLeft(ops, c.lna, 5, 0, 16, n)
      BY <1>8, <3>1, GainStays
    <3> QED
      BY <3>2 DEF n
  <2> QED
    BY <2>3, <2>6, <2>7 DEF GainsLeft
<1> HIDE DEF ops
<1> QED
  BY <1>1, <1>7, <1>9

\* A program spares the bits that no write's mask has.
LEMMA ProgramSpares ==
  ASSUME NEW writes \in Seq(QuietSets), NEW ok \in BOOLEAN, NEW r, NEW b,
         \A i \in DOMAIN writes : r \in DOMAIN writes[i] => b \notin writes[i][r].mask
  PROVE  Spares(TunerOp([writes |-> writes, ok |-> ok]), "tuner", r, b)
<1> DEFINE s == ProgramOps(writes)
           t == ProgramEnd(ok)
           w == Writes(<<<<"SoftReset", \h18>>>>)
           z == Writes(<<<<"SoftReset", \h10>>>>)
<1>1. TunerOp([writes |-> writes, ok |-> ok]) = <<w>> \o (s \o t) \o <<z>>
  BY ProgramBody DEF TunerOp, WithRepeater
<1>2. s \in Seq(Operation) /\ t \in Seq(Operation)
  <2>1. s \in Seq(Quiet) /\ t \in Seq(Quiet)
    BY ProgramBody
  <2> HIDE DEF s, t
  <2> QED
    BY <2>1, QuietOps
<1>3. Spares(s, "tuner", r, b)
  <2> DEFINE op(i) == [unit |-> "tuner", ok |-> TRUE, repeater |-> TRUE,
                       set |-> writes[i], parts |-> {{}, DOMAIN writes[i]}]
  <2>1. DOMAIN s = DOMAIN writes /\ \A i \in DOMAIN writes : s[i] = op(i)
    BY DEF ProgramOps
  <2>2. \A i \in DOMAIN writes : op(i).set = writes[i]
    OBVIOUS
  <2> HIDE DEF s, op
  <2> QED
    BY <2>1, <2>2 DEF Spares, Assigns
<1>4. Spares(t, "tuner", r, b)
  <2>1. CASE ok
    <3>1. t = <<>>
      BY <2>1 DEF ProgramEnd
    <3> HIDE DEF t
    <3> QED
      BY <3>1 DEF Spares
  <2>2. CASE ~ok
    <3>1. t = <<Fails("tuner")>>
      BY <2>2 DEF ProgramEnd
    <3>2. Fails("tuner") \in Operation /\ DOMAIN Fails("tuner").set = {}
      BY FailsSay
    <3>3. ~Assigns(Fails("tuner"), "tuner", r, b)
      BY <3>2 DEF Assigns
    <3> HIDE DEF t
    <3> QED
      BY <3>1, <3>2, <3>3, OneSpares
  <2> QED
    BY <2>1, <2>2
<1>5. w \in Operation /\ w.unit = "chip" /\ z \in Operation /\ z.unit = "chip"
  BY OneWriteLeaves, BasebandHas
<1> HIDE DEF s, t, w, z
<1>6. /\ <<w>> \in Seq(Operation) /\ Spares(<<w>>, "tuner", r, b)
      /\ <<z>> \in Seq(Operation) /\ Spares(<<z>>, "tuner", r, b)
  <2>1. ~Assigns(w, "tuner", r, b) /\ ~Assigns(z, "tuner", r, b)
    BY <1>5 DEF Assigns
  <2> QED
    BY <1>5, <2>1, OneSpares
<1>7. s \o t \in Seq(Operation) /\ Spares(s \o t, "tuner", r, b)
  BY <1>2, <1>3, <1>4, SparedByBoth, JoinedOps
<1>8. <<w>> \o (s \o t) \in Seq(Operation) /\ Spares(<<w>> \o (s \o t), "tuner", r, b)
  BY <1>6, <1>7, SparedByBoth, JoinedOps
<1>9. Spares(<<w>> \o (s \o t) \o <<z>>, "tuner", r, b)
  BY <1>6, <1>8, SparedByBoth
<1> QED
  BY <1>1, <1>9

LEMMA NothingSays == <<>> \in Seq(Operation) /\ Within(<<>>, {}, {}) /\ AllOk(<<>>)
BY DEF Within, AllOk

\* SetIFBandwidth: two registers, of which the second write spares the first.
BandwidthLeft(ops, coarse, fine) ==
  /\ coarse < 4 /\ fine < 16
  /\ Leaves(ops, "tuner", 11, {5, 6}, BitsOf(coarse * 32))
  /\ Leaves(ops, "tuner", 10, 0..3, BitsOf(fine))

LEMMA SetIFBandwidthSays ==
  ASSUME NEW coarse, NEW fine
  PROVE  LET ops == TunerOp(SetIFBandwidth(coarse, fine))
         IN /\ Within(ops, {"SoftReset"}, {10, 11})
            /\ AllOk(ops) => BandwidthLeft(ops, coarse, fine)
<1> DEFINE ops == TunerOp(SetIFBandwidth(coarse, fine))
<1>1. CASE coarse < 4 /\ fine < 16
  <2> DEFINE w == Masked(11, coarse * 32, 96)
             x == Masked(10, fine, 15)
             s == <<w, x>>
             p == TunerOp([writes |-> s, ok |-> TRUE])
  <2>1. ops = p
    BY <1>1 DEF SetIFBandwidth, Body, StepCount
  <2>2. /\ w \in QuietSets /\ x \in QuietSets
        /\ DOMAIN w = {11} /\ w[11].mask = BitsOf(96) /\ w[11].val = BitsOf(coarse * 32)
        /\ DOMAIN x = {10} /\ x[10].mask = BitsOf(15) /\ x[10].val = BitsOf(fine)
    <3>1. w \in QuietSets /\ x \in QuietSets
      BY MaskedQuiet DEF R860Regs
    <3>2. DOMAIN w = {11} /\ w[11].mask = BitsOf(96) /\ w[11].val = BitsOf(coarse * 32)
      BY DEF Masked
    <3>3. DOMAIN x = {10} /\ x[10].mask = BitsOf(15) /\ x[10].val = BitsOf(fine)
      BY DEF Masked
    <3> QED
      BY <3>1, <3>2, <3>3
  <2> HIDE DEF w, x
  <2>3. s \in Seq(QuietSets) /\ TRUE \in BOOLEAN /\ DOMAIN s = 1..2 /\ s[1] = w /\ s[2] = x
    BY <2>2
  <2> HIDE DEF s
  <2>4. /\ \A T : (\A i \in DOMAIN s : DOMAIN s[i] \subseteq T) => Within(p, {"SoftReset"}, T)
        /\ \A i \in DOMAIN s : \A r \in DOMAIN s[i] :
             (\A j \in DOMAIN s : j > i => r \notin DOMAIN s[j]) =>
               Leaves(p, "tuner", r, s[i][r].mask, s[i][r].val)
    BY <2>3, ProgramSays
  <2> HIDE DEF p
  <2>5. \A i \in DOMAIN s : DOMAIN s[i] \subseteq {10, 11}
    BY <2>2, <2>3
  <2>6. /\ 1 \in DOMAIN s /\ 11 \in DOMAIN s[1] /\ \A j \in DOMAIN s : j > 1 => 11 \notin DOMAIN s[j]
    BY <2>2, <2>3
  <2>7. /\ 2 \in DOMAIN s /\ 10 \in DOMAIN s[2] /\ \A j \in DOMAIN s : j > 2 => 10 \notin DOMAIN s[j]
    BY <2>2, <2>3
  <2>8. /\ Leaves(p, "tuner", 11, s[1][11].mask, s[1][11].val)
        /\ Leaves(p, "tuner", 10, s[2][10].mask, s[2][10].val)
    BY <2>4, <2>6, <2>7
  <2>9. /\ Leaves(p, "tuner", 11, {5, 6}, BitsOf(coarse * 32))
        /\ Leaves(p, "tuner", 10, 0..3, BitsOf(fine))
    <3>1. BitsOf(96) = {5, 6} /\ BitsOf(15) = 0..3
      BY MaskBits
    <3>2. /\ s[1][11].mask = BitsOf(96) /\ s[1][11].val = BitsOf(coarse * 32)
          /\ s[2][10].mask = BitsOf(15) /\ s[2][10].val = BitsOf(fine)
      BY <2>2, <2>3
    <3> QED
      BY <2>8, <3>1, <3>2, Zenon
  <2>10. Within(p, {"SoftReset"}, {10, 11})
    BY <2>4, <2>5
  <2> QED
    BY <1>1, <2>1, <2>9, <2>10 DEF BandwidthLeft
<1>2. CASE ~(coarse < 4 /\ fine < 16)
  <2>1. ops = TunerOp(Rejected)
    BY <1>2 DEF SetIFBandwidth, StepCount
  <2> HIDE DEF ops
  <2>2. ~AllOk(ops) /\ Within(ops, {"SoftReset"}, {10, 11})
    BY <2>1, RejectedSays, WithinMore
  <2> QED
    BY <2>2 DEF ops
<1> QED
  BY <1>1, <1>2

LEMMA SetIFHighPassSays ==
  ASSUME NEW code
  PROVE  LET ops == TunerOp(SetIFHighPass(code))
         IN /\ Within(ops, {"SoftReset"}, {11})
            /\ \A b \in {5, 6} : Spares(ops, "tuner", 11, b)
            /\ AllOk(ops) => code < 16 /\ Leaves(ops, "tuner", 11, 0..3, BitsOf(code))
<1> DEFINE ops == TunerOp(SetIFHighPass(code))
<1>1. CASE code < 16
  <2>1. ops = OneMasked(11, code, 15)
    BY <1>1 DEF SetIFHighPass, StepCount, OneMasked
  <2>2. /\ Within(OneMasked(11, code, 15), {"SoftReset"}, {11})
        /\ Leaves(OneMasked(11, code, 15), "tuner", 11, BitsOf(15), BitsOf(code))
    BY OneMaskedSays DEF R860Regs
  <2>3. ASSUME NEW b \in {5, 6}
        PROVE  Spares(OneMasked(11, code, 15), "tuner", 11, b)
    <3> DEFINE w == Masked(11, code, 15)
               s == <<w>>
    <3>1. w \in QuietSets /\ DOMAIN w = {11} /\ w[11].mask = 0..3
      <4>1. w \in QuietSets
        BY MaskedQuiet DEF R860Regs
      <4>2. DOMAIN w = {11} /\ w[11].mask = BitsOf(15)
        BY DEF Masked
      <4>3. BitsOf(15) = 0..3
        BY MaskBits
      <4> QED
        BY <4>1, <4>2, <4>3, Zenon
    <3>2. OneMasked(11, code, 15) = TunerOp([writes |-> s, ok |-> TRUE])
      BY DEF OneMasked, Body
    <3> HIDE DEF w
    <3>3. s \in Seq(QuietSets) /\ TRUE \in BOOLEAN /\ DOMAIN s = {1} /\ s[1] = w
      BY <3>1
    <3> HIDE DEF s
    <3>4. \A i \in DOMAIN s : 11 \in DOMAIN s[i] => b \notin s[i][11].mask
      BY <2>3, <3>1, <3>3
    <3>5. Spares(TunerOp([writes |-> s, ok |-> TRUE]), "tuner", 11, b)
      BY <3>3, <3>4, ProgramSpares
    <3> QED
      BY <3>2, <3>5
  <2> HIDE DEF ops
  <2> QED
    BY <1>1, <2>1, <2>2, <2>3, MaskBits DEF ops
<1>2. CASE ~(code < 16)
  <2>1. ops = TunerOp(Rejected)
    BY <1>2 DEF SetIFHighPass, StepCount
  <2> HIDE DEF ops
  <2>2. ~AllOk(ops) /\ Within(ops, {"SoftReset"}, {}) /\ Within(ops, {"SoftReset"}, {11})
    BY <2>1, RejectedSays, WithinMore
  <2>3. \A b \in {5, 6} : Spares(ops, "tuner", 11, b)
    BY <2>2 DEF Within, Spares, Assigns, Touches
  <2> QED
    BY <2>2, <2>3 DEF ops
<1> QED
  BY <1>1, <1>2

LEMMA SetFilterExtSays ==
  ASSUME NEW on
  PROVE  LET ops == TunerOp(SetFilterExt(on))
         IN /\ Within(ops, {"SoftReset"}, {30})
            /\ Leaves(ops, "tuner", 30, {6}, IF on THEN {6} ELSE {})
<1> DEFINE ops == TunerOp(SetFilterExt(on))
           v == IF on THEN 64 ELSE 0
<1>1. ops = OneMasked(30, v, 64)
  BY DEF SetFilterExt, OneMasked
<1>2. BitsOf(64) = {6} /\ BitsOf(v) = IF on THEN {6} ELSE {}
  BY MaskBits, NoBits
<1> HIDE DEF v, ops
<1>3. /\ Within(OneMasked(30, v, 64), {"SoftReset"}, {30})
      /\ Leaves(OneMasked(30, v, 64), "tuner", 30, BitsOf(64), BitsOf(v))
  BY OneMaskedSays DEF R860Regs
<1> QED
  BY <1>1, <1>2, <1>3 DEF ops

FilterLeft(ops, c) ==
  /\ c.ifBandwidth # <<>> => BandwidthLeft(ops, c.ifBandwidth[1].coarse, c.ifBandwidth[1].fine)
  /\ c.ifHighPass # <<>> => c.ifHighPass[1] < 16 /\ Leaves(ops, "tuner", 11, 0..3, BitsOf(c.ifHighPass[1]))
  /\ c.filterExt # <<>> => Leaves(ops, "tuner", 30, {6}, IF c.filterExt[1] THEN {6} ELSE {})

LEMMA FilterStays ==
  ASSUME NEW s, NEW t, NEW C, NEW T, Keeps(s, t, C, T), NEW c, FilterLeft(s, c), T \cap {10, 11, 30} = {}
  PROVE  FilterLeft(t, c)
BY DEF FilterLeft, BandwidthLeft, Keeps, Touches

LEMMA FilterLater ==
  ASSUME NEW s \in Seq(Operation), NEW t \in Seq(Operation), NEW c, FilterLeft(t, c)
  PROVE  FilterLeft(s \o t, c)
BY LeavesLater DEF FilterLeft, BandwidthLeft

LEMMA ApplyTunerFilterSays ==
  ASSUME NEW c
  PROVE  LET ops == ApplyTunerFilter(c)
         IN /\ Within(ops, {"SoftReset"}, {10, 11, 30})
            /\ c.ifBandwidth = <<>> /\ c.ifHighPass = <<>> => Within(ops, {"SoftReset"}, {30})
            /\ AllOk(ops) => FilterLeft(ops, c)
<1> DEFINE b == IfGiven(c.ifBandwidth,
                        TunerOp(SetIFBandwidth(c.ifBandwidth[1].coarse, c.ifBandwidth[1].fine)))
           h == IfGiven(c.ifHighPass, TunerOp(SetIFHighPass(c.ifHighPass[1])))
           e == IfGiven(c.filterExt, TunerOp(SetFilterExt(c.filterExt[1])))
           ops == b \o h \o e
<1>1. ApplyTunerFilter(c) = ops
  BY DEF ApplyTunerFilter
<1>2. /\ Within(b, {"SoftReset"}, {10, 11}) /\ (c.ifBandwidth = <<>> => Within(b, {}, {}))
      /\ AllOk(b) /\ c.ifBandwidth # <<>> => BandwidthLeft(b, c.ifBandwidth[1].coarse, c.ifBandwidth[1].fine)
  <2>1. CASE c.ifBandwidth = <<>>
    <3>1. b = <<>>
      BY <2>1 DEF IfGiven
    <3> HIDE DEF b
    <3> QED
      BY <2>1, <3>1, NothingSays, WithinMore
  <2>2. CASE c.ifBandwidth # <<>>
    <3>1. b = TunerOp(SetIFBandwidth(c.ifBandwidth[1].coarse, c.ifBandwidth[1].fine))
      BY <2>2 DEF IfGiven
    <3> HIDE DEF b
    <3> QED
      BY <2>2, <3>1, SetIFBandwidthSays
  <2> QED
    BY <2>1, <2>2
<1>3. /\ Within(h, {"SoftReset"}, {11}) /\ (c.ifHighPass = <<>> => Within(h, {}, {}))
      /\ \A x \in {5, 6} : Spares(h, "tuner", 11, x)
      /\ AllOk(h) /\ c.ifHighPass # <<>> =>
           c.ifHighPass[1] < 16 /\ Leaves(h, "tuner", 11, 0..3, BitsOf(c.ifHighPass[1]))
  <2>1. CASE c.ifHighPass = <<>>
    <3>1. h = <<>>
      BY <2>1 DEF IfGiven
    <3> HIDE DEF h
    <3>2. \A x \in {5, 6} : Spares(h, "tuner", 11, x)
      BY <3>1 DEF Spares
    <3> QED
      BY <2>1, <3>1, <3>2, NothingSays, WithinMore
  <2>2. CASE c.ifHighPass # <<>>
    <3>1. h = TunerOp(SetIFHighPass(c.ifHighPass[1]))
      BY <2>2 DEF IfGiven
    <3> HIDE DEF h
    <3> QED
      BY <2>2, <3>1, SetIFHighPassSays
  <2> QED
    BY <2>1, <2>2
<1>4. /\ Within(e, {"SoftReset"}, {30})
      /\ c.filterExt # <<>> => Leaves(e, "tuner", 30, {6}, IF c.filterExt[1] THEN {6} ELSE {})
  <2>1. CASE c.filterExt = <<>>
    <3>1. e = <<>>
      BY <2>1 DEF IfGiven
    <3> HIDE DEF e
    <3> QED
      BY <2>1, <3>1, NothingSays, WithinMore
  <2>2. CASE c.filterExt # <<>>
    <3>1. e = TunerOp(SetFilterExt(c.filterExt[1]))
      BY <2>2 DEF IfGiven
    <3> HIDE DEF e
    <3> QED
      BY <2>2, <3>1, SetFilterExtSays
  <2> QED
    BY <2>1, <2>2
<1> HIDE DEF b, h, e
<1>5. b \in Seq(Operation) /\ h \in Seq(Operation) /\ e \in Seq(Operation) /\ b \o h \in Seq(Operation)
  <2>1. b \in Seq(Operation) /\ h \in Seq(Operation) /\ e \in Seq(Operation)
    BY <1>2, <1>3, <1>4 DEF Within
  <2> QED
    BY <2>1, JoinedOps
<1>6. Within(ops, {"SoftReset"}, {10, 11, 30})
  <2>1. Within(b \o h, {"SoftReset"} \cup {"SoftReset"}, {10, 11} \cup {11})
    BY <1>2, <1>3, WithinBoth
  <2>2. Within(ops, ({"SoftReset"} \cup {"SoftReset"}) \cup {"SoftReset"}, ({10, 11} \cup {11}) \cup {30})
    BY <1>4, <2>1, WithinBoth
  <2> QED
    BY <2>2, WithinMore
<1>7. ASSUME c.ifBandwidth = <<>>, c.ifHighPass = <<>>
      PROVE  Within(ops, {"SoftReset"}, {30})
  <2>1. Within(b \o h, {} \cup {}, {} \cup {})
    BY <1>2, <1>3, <1>7, WithinBoth
  <2>2. Within(ops, ({} \cup {}) \cup {"SoftReset"}, ({} \cup {}) \cup {30})
    BY <1>4, <2>1, WithinBoth
  <2> QED
    BY <2>2, WithinMore
<1>8. ASSUME AllOk(ops)
      PROVE  FilterLeft(ops, c)
  <2>1. AllOk(b) /\ AllOk(h)
    BY <1>5, <1>8, OkOfBoth
  <2>2. Keeps(b \o h, ops, {"SoftReset"}, {30}) /\ Keeps(b, b \o h, {"SoftReset"}, {11})
    BY <1>3, <1>4, <1>5, LeavesStay
  <2>3. ASSUME c.filterExt # <<>>
        PROVE  Leaves(ops, "tuner", 30, {6}, IF c.filterExt[1] THEN {6} ELSE {})
    BY <1>4, <1>5, <2>3, LeavesLater
  <2>4. ASSUME c.ifHighPass # <<>>
        PROVE  c.ifHighPass[1] < 16 /\ Leaves(ops, "tuner", 11, 0..3, BitsOf(c.ifHighPass[1]))
    <3>1. c.ifHighPass[1] < 16 /\ Leaves(b \o h, "tuner", 11, 0..3, BitsOf(c.ifHighPass[1]))
      BY <1>3, <1>5, <2>1, <2>4, LeavesLater
    <3> QED
      BY <2>2, <3>1 DEF Keeps, Touches
  <2>5. ASSUME c.ifBandwidth # <<>>
        PROVE  BandwidthLeft(ops, c.ifBandwidth[1].coarse, c.ifBandwidth[1].fine)
    <3> DEFINE coarse == c.ifBandwidth[1].coarse
               fine == c.ifBandwidth[1].fine
               v == BitsOf(coarse * 32)
               f == BitsOf(fine)
    <3>1. coarse < 4 /\ fine < 16 /\ Leaves(b, "tuner", 11, {5, 6}, v) /\ Leaves(b, "tuner", 10, 0..3, f)
      BY <1>2, <2>1, <2>5 DEF BandwidthLeft
    <3> HIDE DEF coarse, fine, v, f
    <3>2. Leaves(b \o h, "tuner", 11, {5, 6}, v)
      BY <1>3, <1>5, <3>1, SparedStays DEF Leaves
    <3>3. Leaves(b \o h, "tuner", 10, 0..3, f)
      BY <2>2, <3>1 DEF Keeps, Touches
    <3>4. Leaves(ops, "tuner", 11, {5, 6}, v) /\ Leaves(ops, "tuner", 10, 0..3, f)
      BY <2>2, <3>2, <3>3 DEF Keeps, Touches
    <3> QED
      BY <3>1, <3>4 DEF BandwidthLeft, coarse, fine, v, f
  <2> QED
    BY <2>3, <2>4, <2>5 DEF FilterLeft
<1> HIDE DEF ops
<1> QED
  BY <1>1, <1>6, <1>7, <1>8

LEMMA PinBit ==
  ASSUME NEW g \in 0..7
  PROVE  2^g \in Nat /\ BitsOf(2^g) = {g}
<1> DEFINE n == Weight(g)
<1>1. n = 2^g
  BY DEF Weight
<1>2. \/ g = 0 /\ n = 1
      \/ g = 1 /\ n = 2
      \/ g = 2 /\ n = 4
      \/ g = 3 /\ n = 8
      \/ g = 4 /\ n = 16
      \/ g = 5 /\ n = 32
      \/ g = 6 /\ n = 64
      \/ g = 7 /\ n = 128
  BY Weights
<1> HIDE DEF n
<1>3. \A b \in 0..15 : b \in BitsOf(1) <=> b = 0
  BY BitTable
<1>4. \A b \in 0..15 : b \in BitsOf(2) <=> b = 1
  BY BitTable
<1>5. \A b \in 0..15 : b \in BitsOf(4) <=> b = 2
  BY BitTable
<1>6. \A b \in 0..15 : b \in BitsOf(8) <=> b = 3
  BY BitTable
<1>7. \A b \in 0..15 : b \in BitsOf(16) <=> b = 4
  BY BitTable
<1>8. \A b \in 0..15 : b \in BitsOf(32) <=> b = 5
  BY BitTable
<1>9. \A b \in 0..15 : b \in BitsOf(64) <=> b = 6
  BY BitTable
<1>10. \A b \in 0..15 : b \in BitsOf(128) <=> b = 7
  BY BitTable
<1>11. \A b \in 0..15 : b \in BitsOf(n) <=> b = g
  BY <1>2, <1>3, <1>4, <1>5, <1>6, <1>7, <1>8, <1>9, <1>10
<1>12. \A b \in BitsOf(n) : b \in 0..15
  BY BitsOfBits
<1>13. n \in Nat /\ BitsOf(n) = {g}
  BY <1>2, <1>11, <1>12
<1> QED
  BY <1>1, <1>13

\* setBiasTee leaves its pin an output with the level asked for.
PinLeft(ops, g, enable) ==
  /\ g \in 0..7
  /\ Leaves(ops, "chip", "GPD", {g}, {})
  /\ Leaves(ops, "chip", "GPOE", {g}, {g})
  /\ Leaves(ops, "chip", "GPO", {g}, IF enable THEN {g} ELSE {})

LEMMA SetBiasTeeSays ==
  ASSUME NEW g \in Nat, NEW enable
  PROVE  LET ops == SetBiasTee(g, enable)
         IN /\ Within(ops, {"GPD", "GPOE", "GPO"}, {})
            /\ AllOk(ops) => PinLeft(ops, g, enable)
<1> DEFINE ops == SetBiasTee(g, enable)
           D == {"GPD", "GPOE", "GPO"}
<1>1. CASE g > 7
  <2>1. ops = <<Fails("chip")>>
    BY <1>1 DEF SetBiasTee
  <2> HIDE DEF ops
  <2>2. ~AllOk(ops) /\ Within(ops, {}, {})
    BY <2>1, FailsSay
  <2>3. Within(ops, D, {})
    BY <2>2, WithinMore
  <2> QED
    BY <2>2, <2>3 DEF ops
<1>2. CASE ~(g > 7)
  <2> DEFINE w == 2^g
             x == IF enable THEN w ELSE 0
             rows == <<<<"GPD", 0, w>>, <<"GPOE", w, w>>, <<"GPO", x, w>>>>
  <2>1. ops = <<Batch("chip", rows)>>
    BY <1>2 DEF SetBiasTee
  <2>2. g \in 0..7 /\ BitsOf(w) = {g} /\ BitsOf(x) = IF enable THEN {g} ELSE {}
    <3>1. g \in 0..7
      BY <1>2
    <3>2. BitsOf(w) = {g}
      BY <3>1, PinBit
    <3> HIDE DEF w
    <3> QED
      BY <3>1, <3>2, NoBits
  <2> HIDE DEF w, x
  <2>3. /\ 3 \in Nat /\ DOMAIN rows = 1..3 /\ \A i \in 1..3 : rows[i][1] \in D
        /\ rows[1] = <<"GPD", 0, w>> /\ rows[2] = <<"GPOE", w, w>> /\ rows[3] = <<"GPO", x, w>>
    OBVIOUS
  <2>4. \A i \in 1..3 : rows[i][1] \in RegsOf("chip")
    BY <2>3, RadioAssumption DEF RegsOf, BasebandRegs
  <2> HIDE DEF rows, ops
  <2>5. RowsLeft("chip", 3, rows, ops)
    BY <2>1, <2>3, <2>4, BatchAlone
  <2>6. /\ \A i \in 1..3 : rows[i][1] = rows[1][1] => i = 1
        /\ \A i \in 1..3 : rows[i][1] = rows[2][1] => i = 2
        /\ \A i \in 1..3 : rows[i][1] = rows[3][1] => i = 3
    BY <2>3
  <2>7. /\ Leaves(ops, "chip", rows[1][1], BitsOf(rows[1][3]), BitsOf(rows[1][2]))
        /\ Leaves(ops, "chip", rows[2][1], BitsOf(rows[2][3]), BitsOf(rows[2][2]))
        /\ Leaves(ops, "chip", rows[3][1], BitsOf(rows[3][3]), BitsOf(rows[3][2]))
    BY <2>5, <2>6 DEF RowsLeft
  <2>8. PinLeft(ops, g, enable)
    BY <2>2, <2>3, <2>7, NoBits DEF PinLeft
  <2>9. Within(ops, D, {})
    BY <2>3, <2>5 DEF RowsLeft, Touches
  <2> QED
    BY <2>8, <2>9 DEF ops
<1> QED
  BY <1>1, <1>2

BiasLeft(ops, c) == c.biasTee # <<>> => PinLeft(ops, c.biasTee[1].gpio, c.biasTee[1].enable)

LEMMA ApplyBiasTeeSays ==
  ASSUME NEW c, c.biasTee # <<>> => c.biasTee[1].gpio \in Nat
  PROVE  LET ops == ApplyBiasTee(c)
         IN /\ Within(ops, {"GPD", "GPOE", "GPO"}, {})
            /\ AllOk(ops) => BiasLeft(ops, c)
<1> DEFINE ops == ApplyBiasTee(c)
<1>1. CASE c.biasTee = <<>>
  <2>1. ops = <<>>
    BY <1>1 DEF ApplyBiasTee, IfGiven
  <2> HIDE DEF ops
  <2> QED
    BY <1>1, <2>1, NothingSays, WithinMore DEF BiasLeft, ops
<1>2. CASE c.biasTee # <<>>
  <2> DEFINE g == c.biasTee[1].gpio
             e == c.biasTee[1].enable
  <2>1. ops = SetBiasTee(g, e) /\ g \in Nat
    BY <1>2 DEF ApplyBiasTee, IfGiven
  <2> HIDE DEF ops, g, e
  <2>2. Within(ops, {"GPD", "GPOE", "GPO"}, {}) /\ (AllOk(ops) => PinLeft(ops, g, e))
    BY <2>1, SetBiasTeeSays
  <2> QED
    BY <2>2 DEF BiasLeft, ops, g, e
<1> QED
  BY <1>1, <1>2

LEMMA BiasStays ==
  ASSUME NEW s, NEW t, NEW C, NEW T, Keeps(s, t, C, T), NEW c, BiasLeft(s, c), C \cap {"GPD", "GPOE", "GPO"} = {}
  PROVE  BiasLeft(t, c)
BY DEF BiasLeft, PinLeft, Keeps, Touches

LEMMA BiasLater ==
  ASSUME NEW s \in Seq(Operation), NEW t \in Seq(Operation), NEW c, BiasLeft(t, c)
  PROVE  BiasLeft(s \o t, c)
BY LeavesLater DEF BiasLeft, PinLeft

\* What a script that had no error leaves for the options c.
AsksLeft(ops, c) ==
  /\ ValidSampleRate(c.rate)
  /\ Leaves(ops, "chip", "RSampRatioHi", 0..15, BitsOf(RSampRatio(c.rate) \div 65536))
  /\ Leaves(ops, "chip", "RSampRatioLo", 0..15, BitsOf(RSampRatio(c.rate) % 65536))
  /\ GainsLeft(ops, c) /\ FilterLeft(ops, c) /\ BiasLeft(ops, c)

\* ... and for the frequency.
IFLeft(ops, c, fineTune) ==
  /\ Leaves(ops, "chip", "IFFreqHi", 0..15, BitsOf(EncodedIF(Bandwidth(c.rate).if) \div 65536))
  /\ Leaves(ops, "chip", "IFFreqMid", 0..15, BitsOf((EncodedIF(Bandwidth(c.rate).if) \div 256) % 256))
  /\ Leaves(ops, "chip", "IFFreqLo", 0..15, BitsOf(EncodedIF(Bandwidth(c.rate).if) % 256))
  /\ \E k \in PLLDivs(c.rf + Bandwidth(c.rate).if, fineTune) :
       PLLLeft(ops, PLLSettings(c.rf + Bandwidth(c.rate).if, fineTune, k))
  /\ c.ifBandwidth = <<>> /\ c.ifHighPass = <<>> =>
       /\ Leaves(ops, "tuner", 10, {4}, BitsOf(Bandwidth(c.rate).r10))
       /\ Leaves(ops, "tuner", 11, (0..7) \ {4}, BitsOf(Bandwidth(c.rate).r11))

\* The last of the parts keeps what the part before it left, and so on.
LEMMA Trail ==
  ASSUME NEW s \in Seq(Operation), NEW t, NEW w, NEW C, NEW T, NEW D, NEW U,
         Within(t, D, U), Keeps(s \o t, w, C, T)
  PROVE  Keeps(s, w, C \cup D, T \cup U)
<1>1. Keeps(s, s \o t, D, U)
  BY LeavesStay
<1>2. Keeps(s, w, D \cup C, U \cup T)
  BY <1>1, KeepsOn
<1>3. D \cup C = C \cup D /\ U \cup T = T \cup U
  OBVIOUS
<1> QED
  BY <1>2, <1>3, Zenon

LEMMA KeepsLess ==
  ASSUME NEW s, NEW t, NEW C, NEW T, NEW D, NEW U, Keeps(s, t, C, T), C \subseteq D, T \subseteq U
  PROVE  Keeps(s, t, D, U)
BY DEF Keeps, Touches

LEMMA ScriptLeaves ==
  ASSUME NEW c, NEW fineTune, c.lna \in Stages, c.mixer \in Stages, c.vga \in Stages,
         c.biasTee # <<>> => c.biasTee[1].gpio \in Nat,
         AllOk(ConfigureChipAndTuner(c, fineTune))
  PROVE  /\ AsksLeft(ConfigureChipAndTuner(c, fineTune), c)
         /\ IFLeft(ConfigureChipAndTuner(c, fineTune), c, fineTune)
<1> DEFINE if == Bandwidth(c.rate).if
           head == InitChip \o ConfigureForR820T \o NewR860
           t1 == InitializeForSampleRate(c.rate)
           t2 == WriteDemodIFFreq(if)
           t3 == SetSampleRate(c.rate)
           t4 == SetCenterFreq(c, fineTune)
           t5 == ApplyTunerGain(c)
           t6 == ApplyTunerFilter(c)
           t7 == ApplyBiasTee(c)
           t8 == ResetSampleBuffer
           s1 == head \o t1
           s2 == s1 \o t2
           s3 == s2 \o t3
           s4 == s3 \o t4
           s5 == s4 \o t5
           s6 == s5 \o t6
           s7 == s6 \o t7
           ops == s7 \o t8
\* The parts.
<1>1. ConfigureChipAndTuner(c, fineTune) = ops
  BY DEF ConfigureChipAndTuner
<1>2. head \in Seq(Operation)
  BY TunerSetUp DEF SetUp, Piece
<1>3. /\ t1 \in Seq(Operation)
      /\ Leaves(t1, "tuner", 10, {4}, BitsOf(Bandwidth(c.rate).r10))
      /\ Leaves(t1, "tuner", 11, (0..7) \ {4}, BitsOf(Bandwidth(c.rate).r11))
  BY InitializeForSampleRateSays
<1>4. /\ t2 \in Seq(Operation) /\ Within(t2, {"IFFreqHi", "IFFreqMid", "IFFreqLo"}, {})
      /\ Leaves(t2, "chip", "IFFreqHi", 0..15, BitsOf(EncodedIF(if) \div 65536))
      /\ Leaves(t2, "chip", "IFFreqMid", 0..15, BitsOf((EncodedIF(if) \div 256) % 256))
      /\ Leaves(t2, "chip", "IFFreqLo", 0..15, BitsOf(EncodedIF(if) % 256))
  BY WriteDemodIFFreqSays
<1>5. /\ t3 \in Seq(Operation) /\ Within(t3, {"RSampRatioHi", "RSampRatioLo", "SoftReset"}, {})
      /\ AllOk(t3) =>
           /\ ValidSampleRate(c.rate)
           /\ Leaves(t3, "chip", "RSampRatioHi", 0..15, BitsOf(RSampRatio(c.rate) \div 65536))
           /\ Leaves(t3, "chip", "RSampRatioLo", 0..15, BitsOf(RSampRatio(c.rate) % 65536))
  BY SetSampleRateSays
<1>6. /\ t4 \in Seq(Operation) /\ Within(t4, {"SoftReset"}, FreqRegs)
      /\ AllOk(t4) => \E k \in PLLDivs(c.rf + if, fineTune) : PLLLeft(t4, PLLSettings(c.rf + if, fineTune, k))
  <2> DEFINE lo == c.rf + if
  <2>1. t4 = SetFreq(lo, fineTune)
    BY DEF SetCenterFreq
  <2> HIDE DEF lo
  <2>2. /\ SetFreq(lo, fineTune) \in Seq(Operation) /\ Within(SetFreq(lo, fineTune), {"SoftReset"}, FreqRegs)
        /\ AllOk(SetFreq(lo, fineTune)) =>
             \E k \in PLLDivs(lo, fineTune) : PLLLeft(SetFreq(lo, fineTune), PLLSettings(lo, fineTune, k))
    BY SetFreqSays
  <2> HIDE DEF t4
  <2>3. /\ t4 \in Seq(Operation) /\ Within(t4, {"SoftReset"}, FreqRegs)
        /\ AllOk(t4) => \E k \in PLLDivs(lo, fineTune) : PLLLeft(t4, PLLSettings(lo, fineTune, k))
    BY <2>1, <2>2
  <2> QED
    BY <2>3 DEF lo
<1>7. /\ t5 \in Seq(Operation) /\ Within(t5, {"SoftReset"}, {5, 7, 12})
      /\ AllOk(t5) => GainsLeft(t5, c)
  BY ApplyTunerGainSays
<1>8. /\ Within(t6, {"SoftReset"}, {10, 11, 30})
      /\ c.ifBandwidth = <<>> /\ c.ifHighPass = <<>> => Within(t6, {"SoftReset"}, {30})
      /\ AllOk(t6) => FilterLeft(t6, c)
  BY ApplyTunerFilterSays
<1>9. Within(t7, {"GPD", "GPOE", "GPO"}, {}) /\ (AllOk(t7) => BiasLeft(t7, c))
  BY ApplyBiasTeeSays
<1>10. Within(t8, {"EPA_CTL", "SoftReset"}, {})
  BY ResetSampleBufferSays
<1>11. t6 \in Seq(Operation) /\ t7 \in Seq(Operation) /\ t8 \in Seq(Operation)
  BY <1>8, <1>9, <1>10 DEF Within
<1>12. AllOk(ops)
  BY <1>1
<1> HIDE DEF head, t1, t2, t3, t4, t5, t6, t7, t8
<1>13. s1 \in Seq(Operation)
  BY <1>2, <1>3, JoinedOps
<1> HIDE DEF s1
<1>14. s2 \in Seq(Operation)
  BY <1>4, <1>13, JoinedOps
<1> HIDE DEF s2
<1>15. s3 \in Seq(Operation)
  BY <1>5, <1>14, JoinedOps
<1> HIDE DEF s3
<1>16. s4 \in Seq(Operation)
  BY <1>6, <1>15, JoinedOps
<1> HIDE DEF s4
<1>17. s5 \in Seq(Operation)
  BY <1>7, <1>16, JoinedOps
<1> HIDE DEF s5
<1>18. s6 \in Seq(Operation)
  BY <1>11, <1>17, JoinedOps
<1> HIDE DEF s6
<1>19. s7 \in Seq(Operation)
  BY <1>11, <1>18, JoinedOps
<1> HIDE DEF s7
\* None of them failed.
<1>20. AllOk(s7)
  BY <1>11, <1>12, <1>19, OkOfBoth
<1>21. AllOk(s6) /\ AllOk(t7)
  BY <1>11, <1>18, <1>20, OkOfBoth DEF s7
<1>22. AllOk(s5) /\ AllOk(t6)
  BY <1>11, <1>17, <1>21, OkOfBoth DEF s6
<1>23. AllOk(s4) /\ AllOk(t5)
  BY <1>7, <1>16, <1>22, OkOfBoth DEF s5
<1>24. AllOk(s3) /\ AllOk(t4)
  BY <1>6, <1>15, <1>23, OkOfBoth DEF s4
<1>25. AllOk(t3)
  BY <1>5, <1>14, <1>24, OkOfBoth DEF s3
\* What the rest of the script leaves alone.
<1> DEFINE C7 == {"EPA_CTL", "SoftReset"}
           C6 == C7 \cup {"GPD", "GPOE", "GPO"}
           C3 == C6 \cup {"RSampRatioHi", "RSampRatioLo"}
           C2 == C3 \cup {"IFFreqHi", "IFFreqMid", "IFFreqLo"}
           F == {5, 7, 12, 10, 11, 30}
<1>26. Keeps(s7, ops, C7, {})
  BY <1>10, <1>19, LeavesStay
<1> HIDE DEF ops
<1>27. Keeps(s6, ops, C6, {})
  <2>1. Keeps(s6, ops, C7 \cup {"GPD", "GPOE", "GPO"}, {} \cup {})
    BY <1>9, <1>18, <1>26, Trail DEF s7
  <2> QED
    BY <2>1, KeepsLess
<1>28. Keeps(s5, ops, C6, {10, 11, 30})
  <2>1. Keeps(s5, ops, C6 \cup {"SoftReset"}, {} \cup {10, 11, 30})
    BY <1>8, <1>17, <1>27, Trail DEF s6
  <2> QED
    BY <2>1, KeepsLess
<1>29. Keeps(s4, ops, C6, F)
  <2>1. Keeps(s4, ops, C6 \cup {"SoftReset"}, {10, 11, 30} \cup {5, 7, 12})
    BY <1>7, <1>16, <1>28, Trail DEF s5
  <2> QED
    BY <2>1, KeepsLess
<1>30. Keeps(s3, ops, C6, F \cup FreqRegs)
  <2>1. Keeps(s3, ops, C6 \cup {"SoftReset"}, F \cup FreqRegs)
    BY <1>6, <1>15, <1>29, Trail DEF s4
  <2> QED
    BY <2>1, KeepsLess
<1>31. Keeps(s2, ops, C3, F \cup FreqRegs)
  <2>1. Keeps(s2, ops, C6 \cup {"RSampRatioHi", "RSampRatioLo", "SoftReset"}, (F \cup FreqRegs) \cup {})
    BY <1>5, <1>14, <1>30, Trail DEF s3
  <2> QED
    BY <2>1, KeepsLess
<1>32. ASSUME c.ifBandwidth = <<>>, c.ifHighPass = <<>>
       PROVE  Keeps(s1, ops, C2, {5, 7, 12, 30} \cup FreqRegs)
  <2>1. Keeps(s5, ops, C6 \cup {"SoftReset"}, {} \cup {30})
    BY <1>8, <1>17, <1>27, <1>32, Trail DEF s6
  <2>2. Keeps(s5, ops, C6, {30})
    BY <2>1, KeepsLess
  <2>3. Keeps(s4, ops, C6 \cup {"SoftReset"}, {30} \cup {5, 7, 12})
    BY <1>7, <1>16, <2>2, Trail DEF s5
  <2>4. Keeps(s4, ops, C6, {5, 7, 12, 30})
    BY <2>3, KeepsLess
  <2>5. Keeps(s3, ops, C6 \cup {"SoftReset"}, {5, 7, 12, 30} \cup FreqRegs)
    BY <1>6, <1>15, <2>4, Trail DEF s4
  <2>6. Keeps(s3, ops, C6, {5, 7, 12, 30} \cup FreqRegs)
    BY <2>5, KeepsLess
  <2>7. Keeps(s2, ops, C6 \cup {"RSampRatioHi", "RSampRatioLo", "SoftReset"}, ({5, 7, 12, 30} \cup FreqRegs) \cup {})
    BY <1>5, <1>14, <2>6, Trail DEF s3
  <2>8. Keeps(s2, ops, C3, {5, 7, 12, 30} \cup FreqRegs)
    BY <2>7, KeepsLess
  <2>9. Keeps(s1, ops, C3 \cup {"IFFreqHi", "IFFreqMid", "IFFreqLo"}, ({5, 7, 12, 30} \cup FreqRegs) \cup {})
    BY <1>4, <1>13, <2>8, Trail DEF s2
  <2> QED
    BY <2>9, KeepsLess
\* What each part leaves, and the rest with it.
<1>33. /\ Leaves(ops, "chip", "RSampRatioHi", 0..15, BitsOf(RSampRatio(c.rate) \div 65536))
       /\ Leaves(ops, "chip", "RSampRatioLo", 0..15, BitsOf(RSampRatio(c.rate) % 65536))
  <2> DEFINE v == BitsOf(RSampRatio(c.rate) \div 65536)
             w == BitsOf(RSampRatio(c.rate) % 65536)
  <2>1. Leaves(t3, "chip", "RSampRatioHi", 0..15, v) /\ Leaves(t3, "chip", "RSampRatioLo", 0..15, w)
    BY <1>5, <1>25
  <2> HIDE DEF v, w
  <2>2. Leaves(s3, "chip", "RSampRatioHi", 0..15, v) /\ Leaves(s3, "chip", "RSampRatioLo", 0..15, w)
    BY <1>5, <1>14, <2>1, LeavesLater DEF s3
  <2>3. Leaves(ops, "chip", "RSampRatioHi", 0..15, v) /\ Leaves(ops, "chip", "RSampRatioLo", 0..15, w)
    BY <1>30, <2>2 DEF Keeps, Touches
  <2> QED
    BY <2>3 DEF v, w
<1>34. GainsLeft(ops, c)
  <2> DEFINE n == 16 + c.lna.step
  <2>1. /\ GainLeft(t5, c.lna, 5, 0, 16, n) /\ GainLeft(t5, c.mixer, 7, 16, 16, c.mixer.step)
        /\ GainLeft(t5, c.vga, 12, 11, 159, c.vga.step)
    BY <1>7, <1>23 DEF GainsLeft
  <2> HIDE DEF n
  <2>2. GainLeft(s5, c.lna, 5, 0, 16, n)
    BY <1>7, <1>16, <2>1, GainLater DEF s5
  <2>3. GainLeft(s5, c.mixer, 7, 16, 16, c.mixer.step)
    BY <1>7, <1>16, <2>1, GainLater DEF s5
  <2>4. GainLeft(s5, c.vga, 12, 11, 159, c.vga.step)
    BY <1>7, <1>16, <2>1, GainLater DEF s5
  <2>5. 5 \notin {10, 11, 30} /\ 7 \notin {10, 11, 30} /\ 12 \notin {10, 11, 30}
    OBVIOUS
  <2>6. GainLeft(ops, c.lna, 5, 0, 16, n)
    BY <1>28, <2>2, <2>5, GainStays
  <2>7. GainLeft(ops, c.mixer, 7, 16, 16, c.mixer.step)
    BY <1>28, <2>3, <2>5, GainStays
  <2>8. GainLeft(ops, c.vga, 12, 11, 159, c.vga.step)
    BY <1>28, <2>4, <2>5, GainStays
  <2> QED
    BY <2>6, <2>7, <2>8 DEF GainsLeft, n
<1>35. FilterLeft(ops, c)
  <2>1. FilterLeft(s6, c)
    BY <1>8, <1>11, <1>17, <1>22, FilterLater DEF s6
  <2> QED
    BY <1>27, <2>1, FilterStays
<1>36. BiasLeft(ops, c)
  <2>1. BiasLeft(s7, c)
    BY <1>9, <1>11, <1>18, <1>21, BiasLater DEF s7
  <2>2. C7 \cap {"GPD", "GPOE", "GPO"} = {}
    OBVIOUS
  <2> QED
    BY <1>26, <2>1, <2>2, BiasStays
<1>37. AsksLeft(ops, c)
  BY <1>5, <1>25, <1>33, <1>34, <1>35, <1>36 DEF AsksLeft
<1>38. /\ Leaves(ops, "chip", "IFFreqHi", 0..15, BitsOf(EncodedIF(if) \div 65536))
       /\ Leaves(ops, "chip", "IFFreqMid", 0..15, BitsOf((EncodedIF(if) \div 256) % 256))
       /\ Leaves(ops, "chip", "IFFreqLo", 0..15, BitsOf(EncodedIF(if) % 256))
  <2> DEFINE v == BitsOf(EncodedIF(if) \div 65536)
             w == BitsOf((EncodedIF(if) \div 256) % 256)
             x == BitsOf(EncodedIF(if) % 256)
  <2>1. /\ Leaves(t2, "chip", "IFFreqHi", 0..15, v) /\ Leaves(t2, "chip", "IFFreqMid", 0..15, w)
        /\ Leaves(t2, "chip", "IFFreqLo", 0..15, x)
    BY <1>4
  <2> HIDE DEF v, w, x
  <2>2. /\ Leaves(s2, "chip", "IFFreqHi", 0..15, v) /\ Leaves(s2, "chip", "IFFreqMid", 0..15, w)
        /\ Leaves(s2, "chip", "IFFreqLo", 0..15, x)
    BY <1>4, <1>13, <2>1, LeavesLater DEF s2
  <2>3. /\ Leaves(ops, "chip", "IFFreqHi", 0..15, v) /\ Leaves(ops, "chip", "IFFreqMid", 0..15, w)
        /\ Leaves(ops, "chip", "IFFreqLo", 0..15, x)
    BY <1>31, <2>2 DEF Keeps, Touches
  <2> QED
    BY <2>3 DEF v, w, x
<1>39. \E k \in PLLDivs(c.rf + if, fineTune) : PLLLeft(ops, PLLSettings(c.rf + if, fineTune, k))
  <2> DEFINE D == PLLDivs(c.rf + if, fineTune)
             S(k) == PLLSettings(c.rf + if, fineTune, k)
  <2>1. \E k \in D : PLLLeft(t4, S(k))
    BY <1>6, <1>24
  <2> HIDE DEF D, S
  <2>2. PICK k \in D : PLLLeft(t4, S(k))
    BY <2>1
  <2>3. PLLLeft(s4, S(k))
    BY <1>6, <1>15, <2>2, PLLLeftLater DEF s4
  <2>4. PLLLeft(ops, S(k))
    BY <1>29, <2>3 DEF Keeps, Touches, PLLLeft
  <2>5. \E x \in D : PLLLeft(ops, S(x))
    BY <2>4
  <2> QED
    BY <2>5 DEF D, S
<1>40. ASSUME c.ifBandwidth = <<>>, c.ifHighPass = <<>>
       PROVE  /\ Leaves(ops, "tuner", 10, {4}, BitsOf(Bandwidth(c.rate).r10))
              /\ Leaves(ops, "tuner", 11, (0..7) \ {4}, BitsOf(Bandwidth(c.rate).r11))
  <2> DEFINE v == BitsOf(Bandwidth(c.rate).r10)
             w == BitsOf(Bandwidth(c.rate).r11)
  <2>1. Leaves(t1, "tuner", 10, {4}, v) /\ Leaves(t1, "tuner", 11, (0..7) \ {4}, w)
    BY <1>3
  <2> HIDE DEF v, w
  <2>2. Leaves(s1, "tuner", 10, {4}, v) /\ Leaves(s1, "tuner", 11, (0..7) \ {4}, w)
    BY <1>2, <1>3, <2>1, LeavesLater DEF s1
  <2>3. 10 \notin {5, 7, 12, 30} \cup FreqRegs /\ 11 \notin {5, 7, 12, 30} \cup FreqRegs
    BY DEF FreqRegs
  <2>4. Leaves(ops, "tuner", 10, {4}, v) /\ Leaves(ops, "tuner", 11, (0..7) \ {4}, w)
    BY <1>32, <1>40, <2>2, <2>3 DEF Keeps, Touches
  <2> QED
    BY <2>4 DEF v, w
<1>41. IFLeft(ops, c, fineTune)
  BY <1>38, <1>39, <1>40 DEF IFLeft
<1> QED
  BY <1>1, <1>37, <1>41

----------------------------------------------------------------------------
(* What the registers of an opened Receiver say.                           *)

\* Only operations that do not fail by themselves are passed.
OkInv == pc \in {"configure", "opened"} => \A i \in DOMAIN Ops : i < at => Ops[i].ok

LEMMA OkInit == Init => OkInv
BY DEF Init, OkInv

LEMMA OkStep == TypeOK /\ HeardInv /\ OkInv /\ [Next]_vars => OkInv'
<1> SUFFICES ASSUME TypeOK, HeardInv, OkInv, [Next]_vars
             PROVE  OkInv'
  OBVIOUS
<1>1. CASE UNCHANGED vars
  BY <1>1 DEF OkInv, vars, callVars, Ops
<1>2. CASE Configures
  <2>1. at' = at + 1 /\ Ops' = Ops /\ Ops[at].ok /\ pc = "configure" /\ at \in DOMAIN Ops
    BY <1>2 DEF Configures, callVars, Ops
  <2>2. \A i \in DOMAIN Ops : i < at + 1 => i < at \/ i = at
    BY <2>1, OpsFacts
  <2> QED
    BY <2>1, <2>2 DEF OkInv
<1>3. CASE Configured
  BY <1>3 DEF OkInv, Configured, Goto, callVars, Ops
<1>4. CASE Claims \/ LegacyClaims
  <2>1. at' = 1 /\ Ops' = Ops
    BY <1>4 DEF HeardInv, Claims, LegacyClaims, Goto, callVars, Ops
  <2>2. \A i \in DOMAIN Ops : ~(i < 1)
    BY OpsFacts
  <2> QED  BY <2>1, <2>2 DEF OkInv
<1>5. CASE \/ Replugged \/ Open \/ SelectFails \/ OpensNode \/ ClaimUnsupported \/ ClaimFails
           \/ ClosesUnclaimed \/ ConfigureFails \/ ShutsRepeater \/ UserCloses \/ Releases
           \/ ClosesFd \/ Killed
  <2>1. pc' \notin {"configure", "opened"}
    BY <1>5 DEF Replugged, Open, SelectFails, OpensNode, ClaimUnsupported, ClaimFails, ClosesUnclaimed,
                ConfigureFails, ShutsRepeater, UserCloses, Releases, ClosesFd, Killed, Goto, EndsCall
  <2> QED  BY <2>1 DEF OkInv
<1> QED
  BY <1>1, <1>2, <1>3, <1>4, <1>5 DEF Next

\* An opened Receiver's script had no error, ...
OkOpened == pc = "opened" => AllOk(Ops)

LEMMA OpenedOk ==
  ASSUME TypeOK, HeardInv, OkInv
  PROVE  OkOpened
<1> SUFFICES ASSUME pc = "opened"
             PROVE  \A i \in DOMAIN Ops : Ops[i].ok
  BY DEF OkOpened, AllOk
<1>1. at = Len(Ops) + 1 /\ DOMAIN Ops = 1..Len(Ops) /\ Len(Ops) \in Nat
  BY OpsFacts DEF HeardInv
<1>2. \A i \in DOMAIN Ops : i < at
  BY <1>1
<1> QED
  BY <1>2 DEF OkInv

LEMMA OkSafe == Spec => []OkOpened
<1>1. TypeOK /\ HeardInv /\ OkInv => OkOpened
  BY OpenedOk
<1> QED
  BY <1>1, TypeInit, TypeStep, HeardInit, HeardStep, OkInit, OkStep, PTL DEF Spec

\* An option is given once or not at all.
LEMMA OptionGiven ==
  ASSUME NEW X, NEW s \in Seq(X), Len(s) <= 1
  PROVE  /\ s = <<>> => ToSet(s) = {}
         /\ s # <<>> => s[1] \in X /\ ToSet(s) = {s[1]}
<1>1. /\ Len(s) \in Nat /\ DOMAIN s = 1..Len(s) /\ \A i \in DOMAIN s : s[i] \in X
      /\ s = <<>> => Len(s) = 0
      /\ s # <<>> => Len(s) # 0
  <2>1. Len(s) \in Nat /\ s \in [1..Len(s) -> X] /\ DOMAIN s = 1..Len(s)
    BY LenProperties
  <2>2. (s # <<>> => Len(s) \in Nat \ {0}) /\ (s = <<>> => Len(s) = 0)
    BY EmptySeq
  <2> QED
    BY <2>1, <2>2
<1>2. (s = <<>> => DOMAIN s = {}) /\ (s # <<>> => DOMAIN s = {1})
  BY <1>1
<1> QED
  BY <1>1, <1>2 DEF ToSet

\* ... so that its registers are as the options ask.
LEMMA OpenedLeaves ==
  ASSUME TypeOK, OkOpened, pc = "opened"
  PROVE  AsksLeft(Ops, cfg) /\ IFLeft(Ops, cfg, cal)
<1>1. <<cfg, cal>> \in DOMAIN Script
  BY OpenAssumption DEF TypeOK
<1>2. Ops = ConfigureChipAndTuner(cfg, cal)
  BY <1>1, RadioAssumption DEF Ops, Scripts
<1>3. cfg \in Configs
  BY DEF TypeOK
<1>4. cfg.lna \in Stages /\ cfg.mixer \in Stages /\ cfg.vga \in Stages
  BY <1>3, ConfigAssumption
<1>5. cfg.biasTee # <<>> => cfg.biasTee[1].gpio \in Nat
  <2> DEFINE X == [gpio : Nat, enable : BOOLEAN]
  <2>1. cfg.biasTee \in Seq(X) /\ Len(cfg.biasTee) <= 1
    BY <1>3, ConfigAssumption
  <2>2. \A x \in X : x.gpio \in Nat
    OBVIOUS
  <2> HIDE DEF X
  <2> QED
    BY <2>1, <2>2, OptionGiven
<1>6. AllOk(ConfigureChipAndTuner(cfg, cal))
  BY <1>2 DEF OkOpened
<1> QED
  BY <1>2, <1>4, <1>5, <1>6, ScriptLeaves

\* The bits m of a register, when the script leaves them as in v.
LEMMA RegisterSays ==
  ASSUME TypeOK, LastStands, pc = "opened"
  PROVE  /\ \A r \in BasebandRegs, m \in SUBSET (0..15), v \in SUBSET (0..15) :
              Leaves(Ops, "chip", r, m, v) => chip[r] \cap m = v \cap m
         /\ \A r \in R860Regs, m \in SUBSET (0..15), v \in SUBSET (0..15) :
              Leaves(Ops, "tuner", r, m, v) => tuner[r] \cap m = v \cap m
<1>1. Bits = 0..15 /\ ChipRegs = BasebandRegs /\ TunerRegs = R860Regs
  BY RadioAssumption
<1>2. ASSUME NEW r \in BasebandRegs, NEW b \in 0..15, NEW v \in SUBSET (0..15), LeavesBit(Ops, "chip", r, b, v)
      PROVE  b \in chip[r] <=> b \in v
  BY <1>1, <1>2 DEF LastStands, Registers
<1>3. ASSUME NEW r \in R860Regs, NEW b \in 0..15, NEW v \in SUBSET (0..15), LeavesBit(Ops, "tuner", r, b, v)
      PROVE  b \in tuner[r] <=> b \in v
  BY <1>1, <1>3 DEF LastStands, Registers
<1>4. ASSUME NEW r \in BasebandRegs, NEW m \in SUBSET (0..15), NEW v \in SUBSET (0..15),
             Leaves(Ops, "chip", r, m, v)
      PROVE  chip[r] \cap m = v \cap m
  <2>1. \A b \in m : b \in 0..15 /\ LeavesBit(Ops, "chip", r, b, v)
    BY <1>4 DEF Leaves
  <2>2. \A b \in m : b \in chip[r] <=> b \in v
    BY <1>2, <2>1
  <2> QED
    BY <2>2
<1>5. ASSUME NEW r \in R860Regs, NEW m \in SUBSET (0..15), NEW v \in SUBSET (0..15),
             Leaves(Ops, "tuner", r, m, v)
      PROVE  tuner[r] \cap m = v \cap m
  <2>1. \A b \in m : b \in 0..15 /\ LeavesBit(Ops, "tuner", r, b, v)
    BY <1>5 DEF Leaves
  <2>2. \A b \in m : b \in tuner[r] <=> b \in v
    BY <1>3, <2>1
  <2> QED
    BY <2>2
<1> QED
  BY <1>4, <1>5

LEMMA Divided ==
  ASSUME NEW n \in Nat, NEW d \in Nat \ {0}
  PROVE  n \div d \in Nat /\ n % d \in Nat /\ n % d < d /\ n = (n \div d) * d + (n % d)
<1>1. n = (n \div d) * d + (n % d) /\ n % d \in 0..d - 1 /\ n \div d \in Int
  OBVIOUS
<1>2. n \div d \in Nat
  <2> DEFINE q == n \div d
  <2>1. n = q * d + (n % d) /\ n % d < d /\ q \in Int
    BY <1>1
  <2> HIDE DEF q
  <2>2. CASE q < 0
    <3>1. q + 1 <= 0 /\ q * d = (q + 1) * d - d
      BY <2>1, <2>2, SMT
    <3>2. (q + 1) * d <= 0
      BY <2>1, <3>1, SMT
    <3> QED
      BY <1>1, <2>1, <3>1, <3>2, SMT
  <2> QED
    BY <2>1, <2>2 DEF q
<1> DEFINE r == n % d
<1>3. r \in Nat /\ r < d
  <2>1. r \in 0..d - 1
    BY <1>1
  <2> HIDE DEF r
  <2> QED
    BY <2>1
<1> QED
  BY <1>1, <1>2, <1>3

LEMMA Monotone ==
  ASSUME NEW x \in Nat, NEW y \in Nat, NEW z \in Nat, x <= y
  PROVE  x * z <= y * z /\ x * z \in Nat /\ y * z \in Nat
<1>1. PICK d \in Nat : y = x + d
  <2>1. y - x \in Nat /\ y = x + (y - x)
    OBVIOUS
  <2> QED
    BY <2>1
<1>2. y * z = x * z + d * z /\ x * z \in Nat /\ d * z \in Nat
  BY <1>1, SMT
<1> QED
  BY <1>2

\* The ratio's word says the rate: with bit 27 repeated nothing but its lowest
\* two bits is lost.
LEMMA RatioSays ==
  ASSUME NEW rate \in Nat, ValidSampleRate(rate)
  PROVE  LET R == RSampRatio(rate)
             hi == R \div 65536
             lo == R % 65536
             expanded == hi * 65536 + lo + (IF (hi \div 2048) % 2 = 1 THEN 2^28 ELSE 0)
         IN /\ hi \in Nat /\ hi < 65536 /\ lo \in Nat /\ lo < 65536
            /\ Near((expanded \div 4096) * rate, Xtal * 1024, rate)
<1> DEFINE N == 58982400
           a == N \div rate
           b == N % rate
           c == (b * 2048) \div rate
           s == a * 2048 + c
           q == a \div 2
           R == RSampRatio(rate)
           hi == R \div 65536
           lo == R % 65536
           expanded == hi * 65536 + lo + (IF (hi \div 2048) % 2 = 1 THEN 268435456 ELSE 0)
<1>1. (rate \in 226..300) \/ (rate \in 901..3200)
  BY SMT DEF ValidSampleRate
<1>2. a \in Nat /\ b \in Nat /\ b < rate /\ N = a * rate + b
  BY <1>1, Divided
<1>3. Scaled22(Xtal, rate) = s
  BY SMT DEF Scaled22, Xtal
<1>4. (rate >= 901 => a <= 65463) /\ (rate <= 300 => a >= 196608 /\ a <= 260984)
  <2> DEFINE p == a * rate
  <2>1. p <= N /\ p > N - rate /\ p \in Nat
    <3> HIDE DEF a, b
    <3>1. p \in Nat
      BY <1>2
    <3> HIDE DEF p
    <3>2. N = p + b
      BY <1>2 DEF p
    <3> QED
      BY <1>2, <3>1, <3>2
  <2>2. (65464 <= a => 65464 * rate <= p) /\ (a <= 196607 => p <= 196607 * rate)
        /\ (260985 <= a => 260985 * rate <= p) /\ a \in Nat
    <3> HIDE DEF a, b
    <3> QED
      BY <1>2, Monotone
  <2> HIDE DEF a, p
  <2> QED
    BY <1>1, <2>1, <2>2
<1>5. c \in Nat /\ c <= 2047
  <2> DEFINE m == b * 2048
             e == m % rate
  <2>1. m \in Nat /\ m <= 2048 * rate - 2048
    BY <1>2
  <2> HIDE DEF m
  <2>2. m \div rate \in Nat /\ m % rate \in Nat /\ m = (m \div rate) * rate + (m % rate)
    BY <1>1, <2>1, Divided
  <2>3. c = m \div rate /\ e = m % rate
    BY DEF m
  <2> HIDE DEF c, e
  <2>4. c \in Nat /\ e \in Nat /\ m = c * rate + e
    BY <2>2, <2>3
  <2> DEFINE p == c * rate
  <2>5. 2048 <= c => 2048 * rate <= p
    BY <2>4, Monotone
  <2>6. m = p + e /\ p \in Nat
    BY <2>4
  <2> HIDE DEF p
  <2> QED
    BY <2>1, <2>4, <2>5, <2>6
<1>6. R = (s % 268435456) - ((s % 268435456) % 4)
  <2> HIDE DEF s
  <2>1. 2^28 = 268435456
    BY SMT
  <2> QED
    BY <1>3, <2>1, SMT DEF RSampRatio
<1> HIDE DEF a, b, c, R
<1>7. /\ s \in Nat
      /\ rate >= 901 => s < 134217728
      /\ rate <= 300 => s >= 402653184 /\ s < 536870912
  BY <1>2, <1>4, <1>5
<1>8. s \div 4096 = q
  BY <1>2, <1>5
<1> HIDE DEF s
<1>9. /\ R \in Nat /\ R < 268435456
      /\ rate >= 901 => R < 134217728 /\ R = s - (s % 4)
      /\ rate <= 300 => R >= 134217728 /\ R = s - (s % 4) - 268435456
  <2>1. CASE rate >= 901
    <3>1. s % 268435456 = s
      BY <1>7, <2>1
    <3> QED
      BY <1>6, <1>7, <2>1, <3>1
  <2>2. CASE rate <= 300
    <3> DEFINE r == s - 268435456
    <3>1. s % 268435456 = r /\ r \in Nat /\ r >= 134217728 /\ r < 268435456
      BY <1>7, <2>2
    <3>2. r % 4 = s % 4
      BY <1>7
    <3>3. R = r - (r % 4)
      BY <1>6, <3>1
    <3> HIDE DEF r
    <3>4. R \in Nat /\ R < 268435456 /\ R >= 134217728 /\ R = r - (s % 4)
      BY <3>1, <3>2, <3>3, SMT
    <3>5. r = s - 268435456
      BY DEF r
    <3> QED
      BY <1>7, <2>2, <3>4, <3>5, SMT
  <2> QED
    BY <1>1, <2>1, <2>2
<1>10. hi \in Nat /\ hi < 65536 /\ lo \in Nat /\ lo < 65536 /\ hi * 65536 + lo = R
  BY <1>9
<1>11. (rate >= 901 => hi < 2048) /\ (rate <= 300 => hi >= 2048 /\ hi < 4096)
  BY <1>9
<1> HIDE DEF hi, lo
<1>12. expanded = s - (s % 4)
  <2> DEFINE d == (hi \div 2048) % 2
             x == s % 4
  <2>1. (rate >= 901 => d = 0) /\ (rate <= 300 => d = 1)
    BY <1>10, <1>11
  <2>2. x \in Int
    BY <1>7
  <2> HIDE DEF d, x
  <2>3. CASE rate >= 901
    BY <1>7, <1>9, <1>10, <2>1, <2>2, <2>3, SMT DEF x
  <2>4. CASE rate <= 300
    BY <1>7, <1>9, <1>10, <2>1, <2>2, <2>4, SMT DEF x
  <2> QED
    BY <1>1, <2>3, <2>4
<1> HIDE DEF expanded
<1>13. expanded \div 4096 = q
  BY <1>7, <1>8, <1>12
<1>14. Near(q * rate, 29491200, rate)
  <2>1. (a = 2 * q \/ a = 2 * q + 1) /\ q \in Nat
    BY <1>2
  <2> HIDE DEF q
  <2>2. a * rate = 2 * (q * rate) \/ a * rate = 2 * (q * rate) + rate
    BY <1>2, <2>1, SMT
  <2>3. q * rate \in Nat
    BY <2>1
  <2> DEFINE p == q * rate
             x == a * rate
  <2> HIDE DEF p, x
  <2>4. N = x + b /\ (x = 2 * p \/ x = 2 * p + rate) /\ p \in Nat
    BY <1>2, <2>2, <2>3 DEF p, x
  <2>5. p <= 29491200 + rate /\ 29491200 <= p + rate
    BY <1>2, <2>4
  <2> QED
    BY <2>5 DEF p, Near
<1>15. Xtal * 1024 = 29491200 /\ 2^28 = 268435456
  BY SMT DEF Xtal
<1>16. /\ hi \in Nat /\ hi < 65536 /\ lo \in Nat /\ lo < 65536
       /\ Near((expanded \div 4096) * rate, Xtal * 1024, rate)
  BY <1>10, <1>13, <1>14, <1>15
<1> QED
  BY <1>15, <1>16 DEF hi, lo, expanded, R

LEMMA WordRead ==
  ASSUME NEW n \in Nat, n < 65536
  PROVE  Number(BitsOf(n)) = n
<1>1. FieldsOf(n)
  BY FieldsRead
<1> QED
  BY <1>1, SMT DEF FieldsOf

LEMMA WordSays ==
  ASSUME TypeOK, LastStands, pc = "opened"
  PROVE  \A r \in BasebandRegs : \A n : Leaves(Ops, "chip", r, 0..15, BitsOf(n)) => chip[r] = BitsOf(n)
<1> SUFFICES ASSUME NEW r \in BasebandRegs, NEW n, Leaves(Ops, "chip", r, 0..15, BitsOf(n))
             PROVE  chip[r] = BitsOf(n)
  OBVIOUS
<1> DEFINE v == BitsOf(n)
<1>1. chip[r] \subseteq 0..15
  BY RadioAssumption DEF TypeOK
<1> DEFINE m == 0..15
<1>2. v \in SUBSET (0..15) /\ m \in SUBSET (0..15) /\ Leaves(Ops, "chip", r, m, v)
  BY BitsOfBits
<1> HIDE DEF v, m
<1>3. chip[r] \cap m = v \cap m
  BY <1>2, RegisterSays
<1>4. chip[r] = v
  BY <1>1, <1>2, <1>3 DEF m
<1> QED
  BY <1>4 DEF v

LEMMA RateLeft ==
  ASSUME TypeOK, LastStands, pc = "opened", AsksLeft(Ops, cfg), cfg.rate \in Nat
  PROVE  RateAsAsked
<1> DEFINE R == RSampRatio(cfg.rate)
           hi == R \div 65536
           lo == R % 65536
           expanded == hi * 65536 + lo + (IF (hi \div 2048) % 2 = 1 THEN 2^28 ELSE 0)
<1>1. /\ hi \in Nat /\ hi < 65536 /\ lo \in Nat /\ lo < 65536
      /\ Near((expanded \div 4096) * cfg.rate, Xtal * 1024, cfg.rate)
  BY RatioSays DEF AsksLeft
<1>2. /\ Leaves(Ops, "chip", "RSampRatioHi", 0..15, BitsOf(hi))
      /\ Leaves(Ops, "chip", "RSampRatioLo", 0..15, BitsOf(lo))
  BY DEF AsksLeft
<1> HIDE DEF hi, lo
<1>3. chip["RSampRatioHi"] = BitsOf(hi) /\ chip["RSampRatioLo"] = BitsOf(lo)
  BY <1>2, WordSays, BasebandHas
<1>4. Number(BitsOf(hi)) = hi /\ Number(BitsOf(lo)) = lo
  <2>1. hi \in Nat /\ hi < 65536 /\ lo \in Nat /\ lo < 65536
    BY <1>1
  <2> QED
    BY <2>1, WordRead
<1>5. 11 \in BitsOf(hi) <=> (hi \div 2048) % 2 = 1
  <2>1. hi \in Nat /\ 11 \in 0..15
    BY <1>1
  <2> QED
    BY <2>1, BitTable
<1> HIDE DEF R
<1> QED
  BY <1>1, <1>3, <1>4, <1>5 DEF RateAsAsked

LEMMA TunerSays ==
  ASSUME TypeOK, LastStands, pc = "opened",
         NEW r \in R860Regs, NEW m \in SUBSET (0..15), NEW v \in SUBSET (0..15), Leaves(Ops, "tuner", r, m, v)
  PROVE  \A x \in SUBSET m : tuner[r] \cap x = v \cap x
<1>1. tuner[r] \cap m = v \cap m
  BY RegisterSays
<1> QED
  BY <1>1

LEMMA ChipSays ==
  ASSUME TypeOK, LastStands, pc = "opened",
         NEW r \in BasebandRegs, NEW b \in 0..15, NEW v \in SUBSET (0..15), Leaves(Ops, "chip", r, {b}, v)
  PROVE  b \in chip[r] <=> b \in v
<1>1. {b} \in SUBSET (0..15)
  OBVIOUS
<1>2. chip[r] \cap {b} = v \cap {b}
  BY <1>1, RegisterSays
<1> QED
  BY <1>2

\* A stage's field, read back.
LEMMA StepRead ==
  ASSUME NEW n \in Nat, n < 16
  PROVE  /\ Number(BitsOf(n) \cap (0..3)) = n /\ 4 \notin BitsOf(n)
         /\ Number(BitsOf(16 + n) \cap (0..3)) = n /\ 4 \in BitsOf(16 + n)
<1> DEFINE k == 16 + n
<1>1. k \in Nat /\ n % 16 = n /\ k % 16 = n
  OBVIOUS
<1>2. (n \div 16) % 2 = 0 /\ (k \div 16) % 2 = 1
  OBVIOUS
<1> HIDE DEF k
<1>3. FieldsOf(n) /\ FieldsOf(k)
  BY <1>1, FieldsRead
<1>4. Number(BitsOf(n) \cap (0..3)) = n /\ Number(BitsOf(k) \cap (0..3)) = n
  BY <1>1, <1>3, SMT DEF FieldsOf
<1>5. (4 \in BitsOf(n) <=> (n \div 16) % 2 = 1) /\ (4 \in BitsOf(k) <=> (k \div 16) % 2 = 1)
  BY <1>1, BitTable
<1> QED
  BY <1>2, <1>4, <1>5 DEF k

LEMMA StagesLeft ==
  ASSUME TypeOK, LastStands, pc = "opened", GainsLeft(Ops, cfg),
         cfg.lna \in Stages, cfg.mixer \in Stages, cfg.vga \in Stages
  PROVE  /\ StageIs(cfg.lna, 4 \in tuner[5], Field(5, \h0f), 4 \notin tuner[5])
         /\ StageIs(cfg.mixer, 4 \notin tuner[7], Field(7, \h0f), 4 \in tuner[7])
         /\ StageIs(cfg.vga, 4 \notin tuner[12], Field(12, \h0f), Field(12, \h0f) = 11)
<1>1. BitsOf(15) = 0..3 /\ BitsOf(16) = {4} /\ BitsOf(0) = {} /\ BitsOf(159) = (0..4) \cup {7}
  BY MaskBits, OneBit, NoBits
<1>2. Field(5, 15) = Number(tuner[5] \cap (0..3)) /\ Field(7, 15) = Number(tuner[7] \cap (0..3))
      /\ Field(12, 15) = Number(tuner[12] \cap (0..3))
  BY <1>1 DEF Field
<1>3. 5 \in R860Regs /\ 7 \in R860Regs /\ 12 \in R860Regs
  BY DEF R860Regs
<1>4. \A n : BitsOf(n) \in SUBSET (0..15)
  BY BitsOfBits
<1>5. \A stage \in Stages : stage.auto \in BOOLEAN /\ stage.step \in Nat
  BY DEF Stages
\* The fields of a manual stage, in any of the registers.
<1>6. ASSUME NEW r \in R860Regs, NEW n, Leaves(Ops, "tuner", r, 0..4, BitsOf(n))
      PROVE  tuner[r] \cap (0..3) = BitsOf(n) \cap (0..3) /\ (4 \in tuner[r] <=> 4 \in BitsOf(n))
  <2> DEFINE v == BitsOf(n)
             m == 0..4
  <2>1. v \in SUBSET (0..15) /\ m \in SUBSET (0..15) /\ Leaves(Ops, "tuner", r, m, v) /\ (0..3) \in SUBSET m /\ {4} \in SUBSET m
    BY <1>4, <1>6
  <2> HIDE DEF v, m
  <2>2. \A x \in SUBSET m : tuner[r] \cap x = v \cap x
    BY <2>1, TunerSays
  <2>3. tuner[r] \cap (0..3) = v \cap (0..3) /\ tuner[r] \cap {4} = v \cap {4}
    BY <2>1, <2>2
  <2>4. 4 \in tuner[r] <=> 4 \in v
    BY <2>3
  <2> QED
    BY <2>3, <2>4 DEF v
\* The mode bit alone.
<1>7. ASSUME NEW r \in R860Regs, NEW v \in SUBSET (0..15), Leaves(Ops, "tuner", r, {4}, v)
      PROVE  4 \in tuner[r] <=> 4 \in v
  <2>1. {4} \in SUBSET (0..15)
    OBVIOUS
  <2>2. tuner[r] \cap {4} = v \cap {4}
    BY <1>7, <2>1, RegisterSays
  <2> QED
    BY <2>2
<1>8. StageIs(cfg.lna, 4 \in tuner[5], Field(5, 15), 4 \notin tuner[5])
  <2> DEFINE n == 16 + cfg.lna.step
  <2>1. GainLeft(Ops, cfg.lna, 5, 0, 16, n)
    BY DEF GainsLeft
  <2>2. CASE cfg.lna.auto
    <3>1. Leaves(Ops, "tuner", 5, {4}, {})
      BY <1>1, <2>1, <2>2 DEF GainLeft
    <3>2. 4 \notin tuner[5]
      BY <1>3, <1>7, <3>1
    <3> QED
      BY <2>2, <3>2 DEF StageIs
  <2>3. CASE ~cfg.lna.auto
    <3>1. cfg.lna.step < 16 /\ cfg.lna.step \in Nat /\ Leaves(Ops, "tuner", 5, 0..4, BitsOf(n))
      BY <1>5, <2>1, <2>3 DEF GainLeft
    <3>2. tuner[5] \cap (0..3) = BitsOf(n) \cap (0..3) /\ (4 \in tuner[5] <=> 4 \in BitsOf(n))
      BY <1>3, <1>6, <3>1
    <3>3. Number(BitsOf(n) \cap (0..3)) = cfg.lna.step /\ 4 \in BitsOf(n)
      BY <3>1, StepRead
    <3> QED
      BY <1>2, <2>3, <3>2, <3>3 DEF StageIs
  <2> QED
    BY <2>2, <2>3
<1>9. StageIs(cfg.mixer, 4 \notin tuner[7], Field(7, 15), 4 \in tuner[7])
  <2> DEFINE n == cfg.mixer.step
  <2>1. GainLeft(Ops, cfg.mixer, 7, 16, 16, n)
    BY DEF GainsLeft
  <2>2. CASE cfg.mixer.auto
    <3>1. Leaves(Ops, "tuner", 7, {4}, {4})
      BY <1>1, <2>1, <2>2 DEF GainLeft
    <3>2. 4 \in tuner[7]
      BY <1>3, <1>7, <3>1
    <3> QED
      BY <2>2, <3>2 DEF StageIs
  <2>3. CASE ~cfg.mixer.auto
    <3>1. n < 16 /\ n \in Nat /\ Leaves(Ops, "tuner", 7, 0..4, BitsOf(n))
      BY <1>5, <2>1, <2>3 DEF GainLeft
    <3>2. tuner[7] \cap (0..3) = BitsOf(n) \cap (0..3) /\ (4 \in tuner[7] <=> 4 \in BitsOf(n))
      BY <1>3, <1>6, <3>1
    <3>3. Number(BitsOf(n) \cap (0..3)) = n /\ 4 \notin BitsOf(n)
      BY <3>1, StepRead
    <3> QED
      BY <1>2, <2>3, <3>2, <3>3 DEF StageIs
  <2> QED
    BY <2>2, <2>3
<1>10. StageIs(cfg.vga, 4 \notin tuner[12], Field(12, 15), Field(12, 15) = 11)
  <2> DEFINE n == cfg.vga.step
  <2>1. GainLeft(Ops, cfg.vga, 12, 11, 159, n)
    BY DEF GainsLeft
  <2>2. CASE cfg.vga.auto
    <3> DEFINE m == (0..4) \cup {7}
               v == BitsOf(11)
    <3>1. Leaves(Ops, "tuner", 12, m, v)
      BY <1>1, <2>1, <2>2 DEF GainLeft
    <3>2. m \in SUBSET (0..15) /\ (0..3) \in SUBSET m /\ v \in SUBSET (0..15)
      BY <1>4
    <3> HIDE DEF m, v
    <3>3. \A x \in SUBSET m : tuner[12] \cap x = v \cap x
      BY <1>3, <3>1, <3>2, TunerSays
    <3>4. tuner[12] \cap (0..3) = v \cap (0..3)
      BY <3>2, <3>3
    <3>5. \A x : x \in Nat /\ x < 16 => Number(BitsOf(x) \cap (0..3)) = x
      BY StepRead
    <3>6. Number(v \cap (0..3)) = 11
      <4>1. 11 \in Nat /\ 11 < 16
        OBVIOUS
      <4> QED
        BY <3>5, <4>1 DEF v
    <3> QED
      BY <1>2, <2>2, <3>4, <3>6 DEF StageIs
  <2>3. CASE ~cfg.vga.auto
    <3>1. n < 16 /\ n \in Nat /\ Leaves(Ops, "tuner", 12, 0..4, BitsOf(n))
      BY <1>5, <2>1, <2>3 DEF GainLeft
    <3>2. tuner[12] \cap (0..3) = BitsOf(n) \cap (0..3) /\ (4 \in tuner[12] <=> 4 \in BitsOf(n))
      BY <1>3, <1>6, <3>1
    <3>3. Number(BitsOf(n) \cap (0..3)) = n /\ 4 \notin BitsOf(n)
      BY <3>1, StepRead
    <3> QED
      BY <1>2, <2>3, <3>2, <3>3 DEF StageIs
  <2> QED
    BY <2>2, <2>3
<1> QED
  BY <1>8, <1>9, <1>10

LEMMA FilterSays ==
  ASSUME TypeOK, LastStands, pc = "opened", FilterLeft(Ops, cfg),
         cfg.ifBandwidth \in Seq([coarse : Nat, fine : Nat]), Len(cfg.ifBandwidth) <= 1,
         cfg.ifHighPass \in Seq(Nat), Len(cfg.ifHighPass) <= 1,
         cfg.filterExt \in Seq(BOOLEAN), Len(cfg.filterExt) <= 1
  PROVE  /\ \A b \in ToSet(cfg.ifBandwidth) :
              Field(11, \h60) = b.coarse * 32 /\ Field(10, \h0f) = b.fine
         /\ \A code \in ToSet(cfg.ifHighPass) : Field(11, \h0f) = code
         /\ \A on \in ToSet(cfg.filterExt) : (6 \in tuner[30]) = on
<1>1. BitsOf(15) = 0..3 /\ BitsOf(96) = {5, 6}
  BY MaskBits
<1>2. /\ Field(11, 96) = Number(tuner[11] \cap {5, 6})
      /\ Field(11, 15) = Number(tuner[11] \cap (0..3))
      /\ Field(10, 15) = Number(tuner[10] \cap (0..3))
  BY <1>1 DEF Field
<1>3. 10 \in R860Regs /\ 11 \in R860Regs /\ 30 \in R860Regs
  BY DEF R860Regs
<1>4. {5, 6} \in SUBSET (0..15) /\ 0..3 \in SUBSET (0..15) /\ {6} \in SUBSET (0..15)
  OBVIOUS
<1>5. \A n : BitsOf(n) \in SUBSET (0..15)
  BY BitsOfBits
<1>6. ASSUME NEW r \in R860Regs, NEW m \in SUBSET (0..15), NEW v \in SUBSET (0..15), Leaves(Ops, "tuner", r, m, v)
      PROVE  tuner[r] \cap m = v \cap m
  BY <1>6, RegisterSays
<1>7. ASSUME NEW r \in R860Regs, NEW n \in Nat, n < 16, Leaves(Ops, "tuner", r, 0..3, BitsOf(n))
      PROVE  Number(tuner[r] \cap (0..3)) = n
  <2> DEFINE v == BitsOf(n)
             m == 0..3
  <2>1. v \in SUBSET (0..15) /\ m \in SUBSET (0..15) /\ Leaves(Ops, "tuner", r, m, v)
    BY <1>4, <1>5, <1>7
  <2>2. Number(v \cap m) = n
    BY <1>7, StepRead
  <2> HIDE DEF v, m
  <2>3. tuner[r] \cap m = v \cap m
    BY <1>6, <2>1
  <2> QED
    BY <2>2, <2>3 DEF m
<1>8. ASSUME NEW b \in ToSet(cfg.ifBandwidth)
      PROVE  Field(11, 96) = b.coarse * 32 /\ Field(10, 15) = b.fine
  <2> DEFINE X == [coarse : Nat, fine : Nat]
  <2>1. \A x \in X : x.coarse \in Nat /\ x.fine \in Nat
    OBVIOUS
  <2>2. cfg.ifBandwidth \in Seq(X) /\ Len(cfg.ifBandwidth) <= 1
    OBVIOUS
  <2> HIDE DEF X
  <2>3. cfg.ifBandwidth # <<>> /\ cfg.ifBandwidth[1] \in X /\ b = cfg.ifBandwidth[1]
    BY <1>8, <2>2, OptionGiven
  <2>4. b.coarse \in Nat /\ b.fine \in Nat /\ BandwidthLeft(Ops, b.coarse, b.fine)
    BY <2>1, <2>3 DEF FilterLeft
  <2> DEFINE n == b.coarse * 32
             v == BitsOf(n)
             m == {5, 6}
  <2>5. /\ b.coarse < 4 /\ b.fine < 16
        /\ Leaves(Ops, "tuner", 11, m, v) /\ Leaves(Ops, "tuner", 10, 0..3, BitsOf(b.fine))
    BY <2>4 DEF BandwidthLeft
  <2>6. Field(10, 15) = b.fine
    BY <1>2, <1>3, <1>7, <2>4, <2>5
  <2>7. n \in Nat /\ 32 * ((n \div 32) % 4) = n
    <3>1. b.coarse \in Nat /\ b.coarse < 4
      BY <2>4, <2>5
    <3> DEFINE c == b.coarse
    <3>2. c \in Nat /\ c < 4 /\ n = c * 32
      BY <3>1
    <3> HIDE DEF c
    <3>3. c = 0 \/ c = 1 \/ c = 2 \/ c = 3
      BY <3>2
    <3>4. n \in {0, 32, 64, 96}
      BY <3>2, <3>3
    <3> HIDE DEF n
    <3> QED
      BY <3>4
  <2>8. v \in SUBSET (0..15) /\ m \in SUBSET (0..15)
    BY <1>4, <1>5
  <2> HIDE DEF n
  <2>9. Number(v \cap m) = n
    <3>1. FieldsOf(n)
      BY <2>7, FieldsRead
    <3> QED
      BY <2>7, <3>1, SMT DEF FieldsOf
  <2> HIDE DEF v, m
  <2>10. tuner[11] \cap m = v \cap m
    BY <1>3, <1>6, <2>5, <2>8
  <2>11. Field(11, 96) = n
    BY <1>2, <2>9, <2>10 DEF m
  <2> QED
    BY <2>6, <2>11 DEF n
<1>9. ASSUME NEW code \in ToSet(cfg.ifHighPass)
      PROVE  Field(11, 15) = code
  <2> DEFINE s == cfg.ifHighPass
  <2>1. s \in Seq(Nat) /\ Len(s) <= 1
    OBVIOUS
  <2>2. s # <<>> /\ s[1] \in Nat /\ code = s[1]
    BY <1>9, <2>1, OptionGiven
  <2>3. code < 16 /\ code \in Nat /\ Leaves(Ops, "tuner", 11, 0..3, BitsOf(code))
    BY <2>2 DEF FilterLeft
  <2> QED
    BY <1>2, <1>3, <1>7, <2>3
<1>10. ASSUME NEW on \in ToSet(cfg.filterExt)
       PROVE  (6 \in tuner[30]) = on
  <2> DEFINE s == cfg.filterExt
             v == IF on THEN {6} ELSE {}
             m == {6}
  <2>1. s \in Seq(BOOLEAN) /\ Len(s) <= 1
    OBVIOUS
  <2>2. s # <<>> /\ s[1] \in BOOLEAN /\ on = s[1]
    BY <1>10, <2>1, OptionGiven
  <2>3. on \in BOOLEAN /\ Leaves(Ops, "tuner", 30, m, v)
    BY <2>2 DEF FilterLeft
  <2>4. v \in SUBSET (0..15) /\ m \in SUBSET (0..15)
    BY <1>4
  <2> HIDE DEF v, m
  <2>5. tuner[30] \cap m = v \cap m
    BY <1>3, <1>6, <2>3, <2>4
  <2>6. 6 \in tuner[30] <=> on
    BY <2>3, <2>5 DEF v, m
  <2> QED
    BY <2>3, <2>6
<1> QED
  BY <1>8, <1>9, <1>10

LEMMA BiasSays ==
  ASSUME TypeOK, LastStands, pc = "opened", BiasLeft(Ops, cfg),
         cfg.biasTee \in Seq([gpio : Nat, enable : BOOLEAN]), Len(cfg.biasTee) <= 1
  PROVE  \A b \in ToSet(cfg.biasTee) :
           b.gpio \notin chip["GPD"] /\ b.gpio \in chip["GPOE"]
           /\ (b.gpio \in chip["GPO"]) = b.enable
<1> SUFFICES ASSUME NEW b \in ToSet(cfg.biasTee)
             PROVE  /\ b.gpio \notin chip["GPD"] /\ b.gpio \in chip["GPOE"]
                    /\ (b.gpio \in chip["GPO"]) = b.enable
  OBVIOUS
<1> DEFINE X == [gpio : Nat, enable : BOOLEAN]
           g == b.gpio
           v == IF b.enable THEN {g} ELSE {}
<1>1. \A x \in X : x.enable \in BOOLEAN
  OBVIOUS
<1>2. cfg.biasTee \in Seq(X) /\ Len(cfg.biasTee) <= 1
  OBVIOUS
<1> HIDE DEF X
<1>3. cfg.biasTee # <<>> /\ cfg.biasTee[1] \in X /\ b = cfg.biasTee[1]
  BY <1>2, OptionGiven
<1>4. b.enable \in BOOLEAN /\ PinLeft(Ops, g, b.enable)
  BY <1>1, <1>3 DEF BiasLeft
<1>5. /\ g \in 0..15
      /\ Leaves(Ops, "chip", "GPD", {g}, {}) /\ Leaves(Ops, "chip", "GPOE", {g}, {g})
      /\ Leaves(Ops, "chip", "GPO", {g}, v)
  BY <1>4 DEF PinLeft
<1>6. {g} \in SUBSET (0..15) /\ v \in SUBSET (0..15) /\ {} \in SUBSET (0..15)
  BY <1>5
<1>7. "GPD" \in BasebandRegs /\ "GPOE" \in BasebandRegs /\ "GPO" \in BasebandRegs
  BY DEF BasebandRegs
<1> HIDE DEF g, v
<1>8. g \notin chip["GPD"]
  BY <1>5, <1>6, <1>7, ChipSays
<1>9. g \in chip["GPOE"]
  BY <1>5, <1>6, <1>7, ChipSays
<1>10. g \in chip["GPO"] <=> g \in v
  BY <1>5, <1>6, <1>7, ChipSays
<1>11. g \in v <=> b.enable
  BY DEF v
<1>12. (g \in chip["GPO"]) = b.enable
  BY <1>4, <1>10, <1>11
<1> QED
  BY <1>8, <1>9, <1>12 DEF g

LEMMA OpenedAsks == TypeOK /\ LastStands /\ OkOpened => AsAsked
<1> SUFFICES ASSUME TypeOK, LastStands, OkOpened, pc = "opened"
             PROVE  /\ RateAsAsked
                    /\ StageIs(cfg.lna, 4 \in tuner[5], Field(5, \h0f), 4 \notin tuner[5])
                    /\ StageIs(cfg.mixer, 4 \notin tuner[7], Field(7, \h0f), 4 \in tuner[7])
                    /\ StageIs(cfg.vga, 4 \notin tuner[12], Field(12, \h0f), Field(12, \h0f) = 11)
                    /\ \A b \in ToSet(cfg.ifBandwidth) :
                         Field(11, \h60) = b.coarse * 32 /\ Field(10, \h0f) = b.fine
                    /\ \A code \in ToSet(cfg.ifHighPass) : Field(11, \h0f) = code
                    /\ \A on \in ToSet(cfg.filterExt) : (6 \in tuner[30]) = on
                    /\ \A b \in ToSet(cfg.biasTee) :
                         b.gpio \notin chip["GPD"] /\ b.gpio \in chip["GPOE"]
                         /\ (b.gpio \in chip["GPO"]) = b.enable
  BY DEF AsAsked
<1>1. AsksLeft(Ops, cfg)
  BY OpenedLeaves
<1>2. GainsLeft(Ops, cfg) /\ FilterLeft(Ops, cfg) /\ BiasLeft(Ops, cfg)
  BY <1>1 DEF AsksLeft
<1>3. cfg \in Configs
  BY DEF TypeOK
<1>4. /\ cfg.rate \in Nat /\ cfg.rf \in Nat
      /\ cfg.lna \in Stages /\ cfg.mixer \in Stages /\ cfg.vga \in Stages
      /\ cfg.ifBandwidth \in Seq([coarse : Nat, fine : Nat]) /\ Len(cfg.ifBandwidth) <= 1
      /\ cfg.ifHighPass \in Seq(Nat) /\ Len(cfg.ifHighPass) <= 1
      /\ cfg.filterExt \in Seq(BOOLEAN) /\ Len(cfg.filterExt) <= 1
      /\ cfg.biasTee \in Seq([gpio : Nat, enable : BOOLEAN]) /\ Len(cfg.biasTee) <= 1
  BY <1>3, ConfigAssumption
<1>5. RateAsAsked
  BY <1>1, <1>4, RateLeft
<1>6. /\ StageIs(cfg.lna, 4 \in tuner[5], Field(5, \h0f), 4 \notin tuner[5])
      /\ StageIs(cfg.mixer, 4 \notin tuner[7], Field(7, \h0f), 4 \in tuner[7])
      /\ StageIs(cfg.vga, 4 \notin tuner[12], Field(12, \h0f), Field(12, \h0f) = 11)
  BY <1>2, <1>4, StagesLeft
<1>7. /\ \A b \in ToSet(cfg.ifBandwidth) :
           Field(11, \h60) = b.coarse * 32 /\ Field(10, \h0f) = b.fine
      /\ \A code \in ToSet(cfg.ifHighPass) : Field(11, \h0f) = code
      /\ \A on \in ToSet(cfg.filterExt) : (6 \in tuner[30]) = on
  BY <1>2, <1>4, FilterSays
<1>8. \A b \in ToSet(cfg.biasTee) :
        b.gpio \notin chip["GPD"] /\ b.gpio \in chip["GPOE"]
        /\ (b.gpio \in chip["GPO"]) = b.enable
  BY <1>2, <1>4, BiasSays
<1> QED
  BY <1>5, <1>6, <1>7, <1>8

\* An opened Receiver has the rate and every option its Config asked for,
\* whatever the order of the later writes to the same registers
\* (usbfs_linux.go:320, sample_rate.go:147).
THEOREM OpenedAsAsked == Spec => []AsAsked
BY OpenedAsks, TypeCorrect, LastWritesStand, OkSafe, PTL

----------------------------------------------------------------------------
(* The frequencies of an opened Receiver.                                  *)

Math == INSTANCE TuningMathProofs

LEMMA SameSDM ==
  ASSUME NEW frac, NEW t
  PROVE  Arithmetic!SDM(frac, t) = Math!SDM(frac, t)
BY Zenon DEF Arithmetic!SDM, Math!SDM

LEMMA PowersAre ==
  ASSUME NEW k \in 1..6
  PROVE  /\ 2^k \in {2, 4, 8, 16, 32, 64}
         /\ 2^k \in Nat
<1> DEFINE P(x) == 2^x
<1>1. P(1) = 2 /\ P(2) = 4 /\ P(3) = 8 /\ P(4) = 16 /\ P(5) = 32 /\ P(6) = 64
  BY SMT
<1> HIDE DEF P
<1>2. k = 1 \/ k = 2 \/ k = 3 \/ k = 4 \/ k = 5 \/ k = 6
  OBVIOUS
<1>3. P(k) \in {2, 4, 8, 16, 32, 64}
  BY <1>1, <1>2
<1>4. P(k) \in Nat
  BY <1>3
<1> QED
  BY <1>3, <1>4, Zenon DEF P

\* The PLL's word is the fraction it is computed from, to 2 kHz.
LEMMA WordIsFraction ==
  ASSUME NEW frac \in Nat, frac < 57600
  PROVE  /\ SDM(frac) \in Nat /\ SDM(frac) < 65536
         /\ LET f == (SDM(frac) * 225) \div 256
            IN f \in Int /\ frac - 2 <= f /\ f <= frac + 2
<1> DEFINE t == 57600
           word == SDM(frac)
           p == t * word
<1>1. 2 * Xtal = t
  BY SMT DEF Xtal
<1>2. t \in Nat /\ frac <= t
  OBVIOUS
<1> HIDE DEF t
<1>3. word = Math!SDM(frac, t)
  BY <1>1, SameSDM DEF SDM
<1>4. word \in Nat /\ word < 2^16
  <2>1. Math!SDM(frac, t) \in Nat /\ Math!SDM(frac, t) < 2^16
    BY <1>2, Math!SDMFits
  <2> QED
    BY <1>3, <2>1
<1>5. PICK lost : Math!Loses(t, lost) /\ lost[15] = 146944
  BY Math!ReferenceLoses DEF t
<1>6. p \in Int /\ 65536 * frac - p <= 2 * t /\ p - 65536 * frac <= lost[15]
  BY <1>2, <1>3, <1>5, Math!SDMWithin
<1>7. word < 65536
  BY <1>4, SMT
<1> HIDE DEF word
<1>8. LET f == (word * 225) \div 256
      IN f \in Int /\ frac - 2 <= f /\ f <= frac + 2
  <2>1. p = 57600 * word
    BY DEF t
  <2>2. 65536 * frac - 57600 * word <= 115200 /\ 57600 * word - 65536 * frac <= 146944
    BY <1>5, <1>6, SMT DEF t
  <2> QED
    BY <1>4, <2>2, SMT
<1> QED
  BY <1>4, <1>7, <1>8 DEF word

\* What computePLLSettings computes is the VCO it was asked for.
VCOOf(s) == 57600 * (4 * s.ni + s.si + 13) + (s.sdm * 225) \div 256

LEMMA SettingsSay ==
  ASSUME NEW lo \in Nat, NEW fineTune, NEW k \in MixDivs(lo)
  PROVE  LET s == PLLSettings(lo, fineTune, k)
             v == lo * 2^k
         IN /\ s.ni \in Nat /\ s.ni < 16 /\ s.si \in Nat /\ s.si < 4
            /\ s.sdm \in Nat /\ s.sdm < 65536
            /\ v \in Nat /\ 1770000 <= v /\ v < 3540000
            /\ VCOOf(s) \in Int /\ VCOOf(s) <= v + 2 /\ v <= VCOOf(s) + 2
<1> DEFINE v == lo * 2^k
           n == v \div 57600
           frac == v % 57600
           s == PLLSettings(lo, fineTune, k)
           f == (SDM(frac) * 225) \div 256
<1>1. v \in Nat /\ 1770000 <= v /\ v < 3540000
  <2>1. k \in 1..6 /\ v >= VCOMin /\ v < 2 * VCOMin
    BY DEF MixDivs
  <2>2. 2^k \in Nat
    BY <2>1, PowersAre, Zenon
  <2>3. v \in Nat
    <3> DEFINE w == 2^k
    <3>1. w \in Nat
      BY <2>2
    <3> HIDE DEF w
    <3> QED
      BY <3>1 DEF w
  <2> HIDE DEF v
  <2> QED
    BY <2>1, <2>3, SMT DEF VCOMin
<1>2. 2 * Xtal = 57600
  BY SMT DEF Xtal
<1>3. s.ni = (n - 13) \div 4 /\ s.si = (n - 13) % 4 /\ s.sdm = SDM(frac)
  BY <1>2 DEF PLLSettings
<1> HIDE DEF v, s
<1>4. n \in Nat /\ 30 <= n /\ n <= 61 /\ frac \in Nat /\ frac < 57600 /\ v = 57600 * n + frac
  BY <1>1, SMT
<1> HIDE DEF n, frac
<1>5. SDM(frac) \in Nat /\ SDM(frac) < 65536 /\ f \in Int /\ frac - 2 <= f /\ f <= frac + 2
  BY <1>4, WordIsFraction
<1> HIDE DEF f
<1>6. /\ s.ni \in Nat /\ s.ni < 16 /\ s.si \in Nat /\ s.si < 4
      /\ 4 * s.ni + s.si + 13 = n
  BY <1>3, <1>4, SMT
<1>7. VCOOf(s) = 57600 * n + f
  BY <1>3, <1>6 DEF VCOOf, f
<1>8. VCOOf(s) \in Int /\ VCOOf(s) <= v + 2 /\ v <= VCOOf(s) + 2
  BY <1>4, <1>5, <1>7, SMT
<1> QED
  BY <1>1, <1>3, <1>5, <1>6, <1>8 DEF v, s

\* The PLL's registers say it.
LEMMA PLLSays ==
  ASSUME TypeOK, LastStands, pc = "opened", NEW s, PLLLeft(Ops, s),
         s.ni \in Nat, s.ni < 16, s.si \in Nat, s.si < 4, s.sdm \in Nat, s.sdm < 65536
  PROVE  VCOFreq = VCOOf(s)
<1> DEFINE n == s.ni + s.si * 64
           hi == s.sdm \div 256
           lo == s.sdm % 256
<1>1. 20 \in R860Regs /\ 21 \in R860Regs /\ 22 \in R860Regs
  BY DEF R860Regs
<1>2. /\ Leaves(Ops, "tuner", 20, 0..7, BitsOf(n))
      /\ Leaves(Ops, "tuner", 22, 0..7, BitsOf(hi))
      /\ Leaves(Ops, "tuner", 21, 0..7, BitsOf(lo))
  BY DEF PLLLeft
<1>3. /\ n \in Nat /\ n % 16 = s.ni /\ (n \div 64) % 4 = s.si
      /\ hi \in Nat /\ hi % 256 = hi /\ lo \in Nat /\ lo % 256 = lo /\ hi * 256 + lo = s.sdm
  <2> DEFINE a == s.ni
             b == s.si
             c == s.sdm
  <2>1. a \in Nat /\ a < 16 /\ b \in Nat /\ b < 4 /\ c \in Nat /\ c < 65536
    OBVIOUS
  <2> HIDE DEF a, b, c
  <2>2. a + b * 64 \in Nat /\ (a + b * 64) % 16 = a /\ ((a + b * 64) \div 64) % 4 = b
    BY <2>1, SMT
  <2>3. /\ c \div 256 \in Nat /\ (c \div 256) % 256 = c \div 256
        /\ c % 256 \in Nat /\ (c % 256) % 256 = c % 256 /\ ((c \div 256) * 256) + (c % 256) = c
    BY <2>1, SMT
  <2> QED
    BY <2>2, <2>3 DEF a, b, c
<1> HIDE DEF n, hi, lo
<1>4. FieldsOf(n) /\ FieldsOf(hi) /\ FieldsOf(lo)
  <2>1. n \in Nat /\ hi \in Nat /\ lo \in Nat
    BY <1>3
  <2> QED
    BY <2>1, FieldsRead
<1>5. ASSUME NEW r \in R860Regs, NEW x, Leaves(Ops, "tuner", r, 0..7, BitsOf(x)), NEW m \in SUBSET (0..7)
      PROVE  tuner[r] \cap m = BitsOf(x) \cap m
  <2> DEFINE v == BitsOf(x)
             w == 0..7
  <2>1. v \in SUBSET (0..15) /\ w \in SUBSET (0..15) /\ Leaves(Ops, "tuner", r, w, v) /\ m \in SUBSET w
    BY <1>5, BitsOfBits
  <2> HIDE DEF v, w
  <2>2. tuner[r] \cap m = v \cap m
    BY <2>1, TunerSays
  <2> QED
    BY <2>2 DEF v
<1>6. (0..3) \in SUBSET (0..7) /\ {6, 7} \in SUBSET (0..7) /\ (0..7) \in SUBSET (0..7)
  OBVIOUS
<1>7. BitsOf(15) = 0..3 /\ BitsOf(192) = {6, 7} /\ BitsOf(255) = 0..7
  BY MaskBits
<1>8. Field(20, 15) = Number(BitsOf(n) \cap (0..3)) /\ Field(20, 192) = Number(BitsOf(n) \cap {6, 7})
  <2>1. tuner[20] \cap (0..3) = BitsOf(n) \cap (0..3) /\ tuner[20] \cap {6, 7} = BitsOf(n) \cap {6, 7}
    BY <1>1, <1>2, <1>5, <1>6
  <2> QED
    BY <1>7, <2>1 DEF Field
<1>9. Field(22, 255) = Number(BitsOf(hi) \cap (0..7)) /\ Field(21, 255) = Number(BitsOf(lo) \cap (0..7))
  <2>1. tuner[22] \cap (0..7) = BitsOf(hi) \cap (0..7) /\ tuner[21] \cap (0..7) = BitsOf(lo) \cap (0..7)
    BY <1>1, <1>2, <1>5, <1>6
  <2> QED
    BY <1>7, <2>1 DEF Field
<1>10. Field(20, 15) = s.ni /\ Field(20, 192) = 64 * s.si /\ Field(22, 255) = hi /\ Field(21, 255) = lo
  BY <1>3, <1>4, <1>8, <1>9, SMT DEF FieldsOf
<1>11. Field(20, 192) \div 64 = s.si
  <2> DEFINE b == s.si
             x == Field(20, 192)
  <2>1. b \in Nat /\ x = 64 * b
    BY <1>10
  <2> HIDE DEF b, x
  <2>2. x \div 64 = b
    BY <2>1, SMT
  <2> QED
    BY <2>2 DEF b, x
<1>12. 2 * Xtal = 57600
  BY SMT DEF Xtal
<1>13. /\ 4 * Field(20, 15) + Field(20, 192) \div 64 + 13 = 4 * s.ni + s.si + 13
       /\ Field(22, 255) * 256 + Field(21, 255) = s.sdm
  BY <1>3, <1>10, <1>11
<1>14. VCOFreq = 2 * Xtal * (4 * Field(20, 15) + Field(20, 192) \div 64 + 13)
                 + ((Field(22, 255) * 256 + Field(21, 255)) * 225) \div 256
  BY DEF VCOFreq
<1> QED
  BY <1>12, <1>13, <1>14 DEF VCOOf

LEMMA CornersAre ==
  /\ DOMAIN IFLowPassBw = 1..10
  /\ IFLowPassBw[1] = 1700 /\ IFLowPassBw[2] = 1600 /\ IFLowPassBw[3] = 1550
  /\ IFLowPassBw[4] = 1450 /\ IFLowPassBw[5] = 1200 /\ IFLowPassBw[6] = 900
  /\ IFLowPassBw[7] = 700 /\ IFLowPassBw[8] = 550 /\ IFLowPassBw[9] = 450
  /\ IFLowPassBw[10] = 350
BY SMT DEF IFLowPassBw

LEMMA CornerIndex ==
  ASSUME NEW rest \in Int, rest <= 1700
  PROVE  LET idx == Cardinality({i \in DOMAIN IFLowPassBw : rest <= IFLowPassBw[i]})
         IN /\ idx \in 1..10
            /\ IFLowPassBw[idx] \in Int /\ 350 <= IFLowPassBw[idx] /\ IFLowPassBw[idx] <= 1700
<1> DEFINE wide == {i \in DOMAIN IFLowPassBw : rest <= IFLowPassBw[i]}
           Falls(i) == i + 1 \in 1..10 => IFLowPassBw[i + 1] < rest
<1>1. \E i \in 1..10 : rest <= IFLowPassBw[i] /\ Falls(i)
  BY CornersAre, SMT
<1>2. PICK i \in 1..10 : rest <= IFLowPassBw[i] /\ Falls(i)
  BY <1>1
<1>3. wide = 1..i
  BY <1>2, CornersAre
<1>4. Cardinality(1..i) = i
  <2>1. 1 \in Int /\ i \in Int /\ ~(1 > i) /\ i - 1 + 1 = i
    OBVIOUS
  <2> QED
    BY <2>1, FS_Interval
<1>5. Cardinality(wide) = i
  <2>1. \A s : s = 1..i => Cardinality(s) = i
    BY <1>4
  <2> HIDE DEF wide
  <2> QED
    BY <1>3, <2>1
<1>6. IFLowPassBw[i] \in Int /\ 350 <= IFLowPassBw[i] /\ IFLowPassBw[i] <= 1700
  <2>1. i = 1 \/ i = 2 \/ i = 3 \/ i = 4 \/ i = 5 \/ i = 6 \/ i = 7 \/ i = 8 \/ i = 9 \/ i = 10
    OBVIOUS
  <2>2. CASE i \in {1, 2, 3, 4, 5}
    BY <2>2, CornersAre
  <2>3. CASE i \in {6, 7, 8, 9, 10}
    BY <2>3, CornersAre
  <2> QED
    BY <2>1, <2>2, <2>3
<1> HIDE DEF wide
<1> QED
  BY <1>5, <1>6 DEF wide

\* The filter of a rate: one of ten low-pass corners and two high-pass ones.
NarrowFilter(b, idx, h1, h2) ==
  LET hp == (IF h2 THEN 380 ELSE 0) + (IF h1 THEN 350 ELSE 0)
  IN /\ b.r10 = 0
     /\ b.r11 = 128 + (IF h2 THEN 0 ELSE 32) + (IF h1 THEN 0 ELSE 64) + (16 - idx)
     /\ b.if = 2300 + hp - (hp + IFLowPassBw[idx]) \div 2

LEMMA BandwidthIs ==
  ASSUME NEW rate \in Nat, ValidSampleRate(rate)
  PROVE  LET b == Bandwidth(rate)
         IN /\ b.if \in Nat /\ 1000 <= b.if /\ b.if <= 4570
            /\ \/ b.r10 = 16 /\ b.r11 = 107 /\ b.if = 3570
               \/ \E idx \in 1..10, h1 \in BOOLEAN, h2 \in BOOLEAN : NarrowFilter(b, idx, h1, h2)
<1> DEFINE b == Bandwidth(rate)
<1>1. rate <= 3200
  BY DEF ValidSampleRate
<1>2. CASE rate > 2430
  <2>1. b = [r10 |-> 16, r11 |-> 107, if |-> 3570]
    BY <1>1, <1>2 DEF Bandwidth
  <2> QED
    BY <2>1
<1>3. CASE rate <= 2430
  <2> DEFINE hp2 == IF rate > 2050 THEN 380 ELSE 0
             hp1 == IF rate - hp2 > 1700 THEN 350 ELSE 0
             h2 == rate > 2050
             h1 == rate - hp2 > 1700
             rest == rate - hp2 - hp1
             idx == Cardinality({i \in DOMAIN IFLowPassBw : rest <= IFLowPassBw[i]})
             low == IFLowPassBw[idx]
             if == 2300 + hp2 + hp1 - (hp2 + hp1 + low) \div 2
  <2>1. b = [r10 |-> 0,
             r11 |-> 128 + (IF hp2 = 0 THEN 32 ELSE 0) + (IF hp1 = 0 THEN 64 ELSE 0) + (15 - (idx - 1)),
             if |-> if]
    BY <1>3 DEF Bandwidth
  <2>2. rest \in Int /\ rest <= 1700
    BY <1>3
  <2>3. hp2 \in {0, 380} /\ hp1 \in {0, 350}
    OBVIOUS
  <2>4. (h2 <=> hp2 = 380) /\ (h1 <=> hp1 = 350) /\ h1 \in BOOLEAN /\ h2 \in BOOLEAN
    OBVIOUS
  <2> HIDE DEF rest
  <2>5. idx \in 1..10 /\ low \in Int /\ 350 <= low /\ low <= 1700
    BY <2>2, CornerIndex
  <2> HIDE DEF idx, low, hp1, hp2, h1, h2
  <2>6. if \in Nat /\ 1000 <= if /\ if <= 4570
    BY <2>3, <2>5
  <2> DEFINE hp == (IF h2 THEN 380 ELSE 0) + (IF h1 THEN 350 ELSE 0)
  <2>7. hp = hp2 + hp1 /\ hp \in Int
    BY <2>3, <2>4
  <2>8. if = 2300 + hp - (hp + low) \div 2
    <3> HIDE DEF hp
    <3>1. hp2 \in Int /\ hp1 \in Int
      BY <2>3
    <3> QED
      BY <2>5, <2>7, <3>1
  <2> DEFINE w2 == IF h2 THEN 0 ELSE 32
             w1 == IF h1 THEN 0 ELSE 64
  <2>11. (IF hp2 = 0 THEN 32 ELSE 0) = w2 /\ (IF hp1 = 0 THEN 64 ELSE 0) = w1
         /\ w1 \in Int /\ w2 \in Int
    BY <2>3, <2>4
  <2>9. 128 + (IF hp2 = 0 THEN 32 ELSE 0) + (IF hp1 = 0 THEN 64 ELSE 0) + (15 - (idx - 1))
          = 128 + (IF h2 THEN 0 ELSE 32) + (IF h1 THEN 0 ELSE 64) + (16 - idx)
    <3> DEFINE x2 == IF hp2 = 0 THEN 32 ELSE 0
               x1 == IF hp1 = 0 THEN 64 ELSE 0
    <3>1. x2 = w2 /\ x1 = w1 /\ 15 - (idx - 1) = 16 - idx
      BY <2>5, <2>11
    <3> HIDE DEF x1, x2, w1, w2
    <3>2. 128 + x2 + x1 + (15 - (idx - 1)) = 128 + w2 + w1 + (16 - idx)
      BY <3>1
    <3> QED
      BY <3>2 DEF x1, x2, w1, w2
  <2>10. NarrowFilter(b, idx, h1, h2)
    BY <2>1, <2>8, <2>9 DEF NarrowFilter, low
  <2> QED
    BY <2>1, <2>4, <2>5, <2>6, <2>10
<1> QED
  BY <1>2, <1>3

\* The word of the converter says the IF, or one kHz less.
LEMMA EncodedSays ==
  ASSUME NEW if \in Nat, 1000 <= if, if <= 4570
  PROVE  LET e == EncodedIF(if)
             m == 2^22 - e
             ddc == ((m \div 2048) * Xtal + ((m % 2048) * Xtal) \div 2048) \div 2048
         IN /\ e \in Nat /\ e < 4194304
            /\ ddc \in Int /\ (ddc = if \/ ddc = if - 1)
<1> DEFINE a == (if * 2048) \div 28800
           r == (if * 2048) % 28800
           c == (r * 2048) \div 28800
           s == a * 2048 + c
           e == EncodedIF(if)
           m == 2^22 - e
           ddc == ((m \div 2048) * Xtal + ((m % 2048) * Xtal) \div 2048) \div 2048
<1>1. 2^22 = 4194304 /\ Xtal = 28800
  BY SMT DEF Xtal
<1>2. Scaled22(if, Xtal) = s
  BY <1>1 DEF Scaled22
<1>3. e = (4194304 - s) % 4194304
  <2> HIDE DEF s
  <2> QED
    BY <1>1, <1>2 DEF EncodedIF
<1>4. a \in Nat /\ a <= 325 /\ a >= 71 /\ r \in Nat /\ r < 28800 /\ if * 2048 = 28800 * a + r
  BY SMT
<1> HIDE DEF a, r, e
<1>5. c \in Nat /\ c <= 2047 /\ 28800 * c <= r * 2048 /\ r * 2048 < 28800 * c + 28800
  BY <1>4, SMT
<1> HIDE DEF c
<1>6. s \in Nat /\ s > 0 /\ s < 4194304 /\ 28800 * s <= if * 4194304 /\ if * 4194304 < 28800 * s + 28800
  BY <1>4, <1>5, SMT
<1> HIDE DEF s
<1>7. e = 4194304 - s /\ e \in Nat /\ e < 4194304
  BY <1>3, <1>6, SMT
<1>8. m = s
  BY <1>1, <1>6, <1>7
<1> HIDE DEF m
<1> DEFINE a2 == m \div 2048
           b2 == m % 2048
           c2 == (b2 * 28800) \div 2048
           d2 == (a2 * 28800 + c2) \div 2048
<1>9. a2 \in Int /\ b2 \in Int /\ m = 2048 * a2 + b2
  BY <1>6, <1>8, SMT
<1> HIDE DEF a2, b2
<1>10. c2 \in Int /\ 2048 * c2 <= b2 * 28800 /\ b2 * 28800 < 2048 * c2 + 2048
  BY <1>9, SMT
<1> HIDE DEF c2
<1>11. d2 \in Int /\ 2048 * d2 <= a2 * 28800 + c2 /\ a2 * 28800 + c2 < 2048 * d2 + 2048
  BY <1>9, <1>10, SMT
<1>12. ddc = d2
  BY <1>1 DEF a2, b2, c2
<1> HIDE DEF d2, ddc
<1>13. d2 = if \/ d2 = if - 1
  BY <1>6, <1>8, <1>9, <1>10, <1>11, SMT
<1> QED
  BY <1>7, <1>11, <1>12, <1>13 DEF ddc, m, e

\* The converter removes the filter's IF.
LEMMA ConverterLeft ==
  ASSUME TypeOK, LastStands, pc = "opened", IFLeft(Ops, cfg, cal),
         NEW if, if = Bandwidth(cfg.rate).if, if \in Nat, 1000 <= if, if <= 4570
  PROVE  DDCFreq \in Int /\ (DDCFreq = if \/ DDCFreq = if - 1)
<1> DEFINE e == EncodedIF(if)
           hi == e \div 65536
           mid == (e \div 256) % 256
           lo == e % 256
<1>1. /\ Leaves(Ops, "chip", "IFFreqHi", 0..15, BitsOf(hi))
      /\ Leaves(Ops, "chip", "IFFreqMid", 0..15, BitsOf(mid))
      /\ Leaves(Ops, "chip", "IFFreqLo", 0..15, BitsOf(lo))
  BY DEF IFLeft
<1>2. e \in Nat /\ e < 4194304
  BY EncodedSays
<1> HIDE DEF e
<1>3. /\ hi \in Nat /\ hi < 65536 /\ mid \in Nat /\ mid < 65536 /\ lo \in Nat /\ lo < 65536
      /\ hi * 65536 + mid * 256 + lo = e
  BY <1>2, SMT
<1> HIDE DEF hi, mid, lo
<1>4. "IFFreqHi" \in BasebandRegs /\ "IFFreqMid" \in BasebandRegs /\ "IFFreqLo" \in BasebandRegs
  BY DEF BasebandRegs
<1>5. chip["IFFreqHi"] = BitsOf(hi) /\ chip["IFFreqMid"] = BitsOf(mid) /\ chip["IFFreqLo"] = BitsOf(lo)
  BY <1>1, <1>4, WordSays
<1>6. Number(BitsOf(hi)) = hi /\ Number(BitsOf(mid)) = mid /\ Number(BitsOf(lo)) = lo
  BY <1>3, WordRead
<1>7. Number(chip["IFFreqHi"]) * 65536 + Number(chip["IFFreqMid"]) * 256 + Number(chip["IFFreqLo"]) = e
  BY <1>3, <1>5, <1>6
<1> DEFINE sum == Number(chip["IFFreqHi"]) * 65536 + Number(chip["IFFreqMid"]) * 256 + Number(chip["IFFreqLo"])
           D(x) == (((2^22 - x) \div 2048) * Xtal + (((2^22 - x) % 2048) * Xtal) \div 2048) \div 2048
<1>8. DDCFreq = D(sum)
  BY DEF DDCFreq
<1>9. D(e) \in Int /\ (D(e) = if \/ D(e) = if - 1)
  BY EncodedSays DEF e
<1> HIDE DEF D
<1> QED
  BY <1>7, <1>8, <1>9

\* The filter's registers say its centre.
LEMMA CentreLeft ==
  ASSUME TypeOK, LastStands, pc = "opened", NEW b,
         Leaves(Ops, "tuner", 10, {4}, BitsOf(b.r10)),
         Leaves(Ops, "tuner", 11, (0..7) \ {4}, BitsOf(b.r11)),
         \/ b.r10 = 16 /\ b.r11 = 107 /\ b.if = 3570
         \/ \E idx \in 1..10, h1 \in BOOLEAN, h2 \in BOOLEAN : NarrowFilter(b, idx, h1, h2)
  PROVE  FilterCentre = b.if
<1> DEFINE v == BitsOf(b.r10)
           w == BitsOf(b.r11)
           m == (0..7) \ {4}
<1>1. 10 \in R860Regs /\ 11 \in R860Regs
  BY DEF R860Regs
<1>2. v \in SUBSET (0..15) /\ w \in SUBSET (0..15) /\ {4} \in SUBSET (0..15) /\ m \in SUBSET (0..15)
  BY BitsOfBits
<1>3. {4} \in SUBSET {4} /\ m \in SUBSET m /\ (0..3) \in SUBSET m /\ {5} \in SUBSET m /\ {6} \in SUBSET m
  OBVIOUS
<1>4. Leaves(Ops, "tuner", 10, {4}, v) /\ Leaves(Ops, "tuner", 11, m, w)
  OBVIOUS
<1> HIDE DEF v, w, m
<1>5. tuner[10] \cap {4} = v \cap {4}
  BY <1>1, <1>2, <1>3, <1>4, TunerSays
<1>6. \A x \in SUBSET m : tuner[11] \cap x = w \cap x
  BY <1>1, <1>2, <1>4, TunerSays
<1>7. BitsOf(16) = {4} /\ BitsOf(239) = m /\ BitsOf(15) = 0..3 /\ BitsOf(32) = {5} /\ BitsOf(64) = {6}
  BY MaskBits, OneBit DEF m
<1>8. /\ Field(10, 16) = Number(v \cap {4}) /\ Field(11, 239) = Number(w \cap m)
      /\ Field(11, 15) = Number(w \cap (0..3))
      /\ Field(11, 32) = Number(w \cap {5}) /\ Field(11, 64) = Number(w \cap {6})
  <2>1. /\ Field(10, 16) = Number(tuner[10] \cap {4}) /\ Field(11, 239) = Number(tuner[11] \cap m)
        /\ Field(11, 15) = Number(tuner[11] \cap (0..3))
        /\ Field(11, 32) = Number(tuner[11] \cap {5}) /\ Field(11, 64) = Number(tuner[11] \cap {6})
    BY <1>7 DEF Field
  <2>2. /\ tuner[11] \cap m = w \cap m /\ tuner[11] \cap (0..3) = w \cap (0..3)
        /\ tuner[11] \cap {5} = w \cap {5} /\ tuner[11] \cap {6} = w \cap {6}
    BY <1>3, <1>6
  <2> QED
    BY <1>5, <2>1, <2>2
<1>9. /\ Field(10, 16) # 0 <=> 4 \in v
      /\ Field(11, 32) # 0 <=> 5 \in w
      /\ Field(11, 64) # 0 <=> 6 \in w
  BY <1>8, BitRead
<1>10. CASE b.r10 = 16 /\ b.r11 = 107 /\ b.if = 3570
  <2>1. 4 \in v
    BY <1>7, <1>10 DEF v
  <2>2. Field(11, 239) = 107
    <3>1. \A i \in 0..15 : i \in BitsOf(107) => i \in 0..7 /\ i # 4
      BY BitTable
    <3>2. w \cap m = w
      BY <1>2, <1>10, <3>1 DEF w, m
    <3>3. 107 \in Nat /\ 107 < 65536
      OBVIOUS
    <3>4. Number(BitsOf(107)) = 107
      BY <3>3, WordRead
    <3> QED
      BY <1>8, <1>10, <3>2, <3>4 DEF w
  <2>3. FilterCentre = 3570
    BY <1>9, <2>1, <2>2 DEF FilterCentre
  <2> QED
    BY <1>10, <2>3
<1>11. CASE \E idx \in 1..10, h1 \in BOOLEAN, h2 \in BOOLEAN : NarrowFilter(b, idx, h1, h2)
  <2>1. PICK idx \in 1..10, h1 \in BOOLEAN, h2 \in BOOLEAN : NarrowFilter(b, idx, h1, h2)
    BY <1>11
  <2> DEFINE hp == (IF h2 THEN 380 ELSE 0) + (IF h1 THEN 350 ELSE 0)
             n == 128 + (IF h2 THEN 0 ELSE 32) + (IF h1 THEN 0 ELSE 64) + (16 - idx)
  <2>2. b.r10 = 0 /\ b.r11 = n /\ b.if = 2300 + hp - (hp + IFLowPassBw[idx]) \div 2
    BY <2>1 DEF NarrowFilter
  <2>3. n \in Nat /\ n % 16 = 16 - idx
        /\ ((n \div 32) % 2 = 1 <=> ~h2) /\ ((n \div 64) % 2 = 1 <=> ~h1)
    <3>1. CASE h1 /\ h2
      BY <3>1
    <3>2. CASE h1 /\ ~h2
      BY <3>2
    <3>3. CASE ~h1 /\ h2
      BY <3>3
    <3>4. CASE ~h1 /\ ~h2
      BY <3>4
    <3> QED
      BY <3>1, <3>2, <3>3, <3>4
  <2> HIDE DEF n
  <2>4. 4 \notin v
    BY <2>2, NoBits DEF v
  <2>5. (5 \in w <=> ~h2) /\ (6 \in w <=> ~h1)
    <3>1. (5 \in BitsOf(n) <=> (n \div 32) % 2 = 1) /\ (6 \in BitsOf(n) <=> (n \div 64) % 2 = 1)
      BY <2>3, BitTable
    <3> QED
      BY <2>2, <2>3, <3>1 DEF w
  <2>6. Field(11, 15) = 16 - idx
    <3>1. n \in Nat
      BY <2>3
    <3>2. FieldsOf(n)
      BY <3>1, FieldsRead
    <3>3. Number(BitsOf(n) \cap (0..3)) = 16 - idx
      BY <2>3, <3>2, SMT DEF FieldsOf
    <3> QED
      BY <1>8, <2>2, <3>3 DEF w
  <2> DEFINE hp2 == IF Field(11, 32) = 0 THEN 380 ELSE 0
             hp1 == IF Field(11, 64) = 0 THEN 350 ELSE 0
             lp == IFLowPassBw[16 - Field(11, 15)]
  <2>7. Field(10, 16) = 0
    BY <1>9, <2>4
  <2>8. FilterCentre = 2300 + (hp2 + hp1) - ((hp2 + hp1) + lp) \div 2
    BY <2>7 DEF FilterCentre
  <2>9. hp2 + hp1 = hp
    BY <1>9, <2>5
  <2>10. lp = IFLowPassBw[idx]
    <3>1. 16 - Field(11, 15) = idx
      BY <2>6
    <3> QED
      BY <3>1
  <2> HIDE DEF hp1, hp2, lp, hp
  <2> QED
    BY <2>2, <2>8, <2>9, <2>10
<1> QED
  BY <1>10, <1>11

\* The PLL makes of v its VCO.
LocksTo(v) ==
  /\ v \in Nat /\ 1770000 <= v /\ v < 3540000
  /\ VCOFreq \in Int /\ VCOFreq <= v + 2 /\ v <= VCOFreq + 2

\* The VCO is where the LO of the requested frequency and the IF needs it.
LEMMA VCOLeft ==
  ASSUME TypeOK, LastStands, pc = "opened", IFLeft(Ops, cfg, cal), cfg.rf \in Nat,
         NEW if, if = Bandwidth(cfg.rate).if, if \in Nat, 1000 <= if, if <= 4570
  PROVE  \E k \in 1..6 : LocksTo((cfg.rf + if) * 2^k)
<1> DEFINE lo == cfg.rf + if
           S(k) == PLLSettings(lo, cal, k)
<1>1. \E k \in PLLDivs(lo, cal) : PLLLeft(Ops, S(k))
  BY DEF IFLeft
<1>2. lo \in Nat
  OBVIOUS
<1> HIDE DEF lo, S
<1>3. PICK k \in PLLDivs(lo, cal) : PLLLeft(Ops, S(k))
  BY <1>1
<1>4. k \in MixDivs(lo) /\ k \in 1..6
  BY <1>3 DEF PLLDivs, MixDivs
<1> DEFINE s == S(k)
           v == lo * 2^k
<1>5. /\ s.ni \in Nat /\ s.ni < 16 /\ s.si \in Nat /\ s.si < 4
      /\ s.sdm \in Nat /\ s.sdm < 65536
      /\ v \in Nat /\ 1770000 <= v /\ v < 3540000
      /\ VCOOf(s) \in Int /\ VCOOf(s) <= v + 2 /\ v <= VCOOf(s) + 2
  BY <1>2, <1>4, SettingsSay DEF S
<1>6. PLLLeft(Ops, s)
  BY <1>3
<1> HIDE DEF s, v
<1>7. VCOFreq = VCOOf(s)
  BY <1>5, <1>6, PLLSays
<1>8. LocksTo(v)
  BY <1>5, <1>7, SMT DEF LocksTo
<1>9. LocksTo((cfg.rf + if) * 2^k)
  BY <1>8 DEF v, lo
<1> DEFINE L(x) == LocksTo((cfg.rf + if) * 2^x)
<1> HIDE DEF L
<1>10. L(k)
  BY <1>9 DEF L
<1>11. \E x \in 1..6 : L(x)
  BY <1>4, <1>10
<1> QED
  BY <1>11 DEF L

LEMMA OpenedTunes == TypeOK /\ LastStands /\ OkOpened => OneIF
<1> SUFFICES ASSUME TypeOK, LastStands, OkOpened, pc = "opened"
             PROVE  /\ VCOFreq + 2 >= VCOMin /\ VCOFreq <= 2 * VCOMin + 1
                    /\ \E m \in 1..6 : Near(VCOFreq, (cfg.rf + DDCFreq) * 2^m, 2^m + 2)
                    /\ cfg.ifBandwidth = <<>> /\ cfg.ifHighPass = <<>> => Near(DDCFreq, FilterCentre, 1)
  BY DEF OneIF
<1> DEFINE b == Bandwidth(cfg.rate)
           if == b.if
<1>1. AsksLeft(Ops, cfg) /\ IFLeft(Ops, cfg, cal)
  BY OpenedLeaves
<1>2. cfg.rate \in Nat /\ cfg.rf \in Nat /\ ValidSampleRate(cfg.rate)
  BY <1>1, ConfigAssumption DEF TypeOK, AsksLeft
<1>3. /\ if \in Nat /\ 1000 <= if /\ if <= 4570
      /\ \/ b.r10 = 16 /\ b.r11 = 107 /\ b.if = 3570
         \/ \E idx \in 1..10, h1 \in BOOLEAN, h2 \in BOOLEAN : NarrowFilter(b, idx, h1, h2)
  BY <1>2, BandwidthIs
<1>4. if = Bandwidth(cfg.rate).if
  OBVIOUS
<1> HIDE DEF if
<1>5. DDCFreq \in Int /\ (DDCFreq = if \/ DDCFreq = if - 1)
  BY <1>1, <1>3, <1>4, ConverterLeft
<1>6. PICK k \in 1..6 : LocksTo((cfg.rf + if) * 2^k)
  BY <1>1, <1>2, <1>3, <1>4, VCOLeft
<1>7. VCOFreq + 2 >= VCOMin /\ VCOFreq <= 2 * VCOMin + 1
  <2> DEFINE v == (cfg.rf + if) * 2^k
  <2>1. LocksTo(v)
    BY <1>6
  <2> HIDE DEF v
  <2> QED
    BY <2>1, SMT DEF VCOMin, LocksTo
<1>8. Near(VCOFreq, (cfg.rf + DDCFreq) * 2^k, 2^k + 2)
  <2> DEFINE p == 2^k
             lo == cfg.rf + if
             v == lo * p
             ld == cfg.rf + DDCFreq
             x == ld * p
  <2>1. p \in Nat
    BY PowersAre
  <2>2. v \in Nat /\ VCOFreq \in Int /\ VCOFreq <= v + 2 /\ v <= VCOFreq + 2
    <3>1. LocksTo(v)
      BY <1>6
    <3> HIDE DEF v
    <3> QED
      BY <3>1 DEF LocksTo
  <2>3. lo \in Nat /\ (ld = lo \/ ld = lo - 1)
    BY <1>2, <1>3, <1>5
  <2> HIDE DEF p, lo, ld
  <2>4. (lo - 1) * p = v - p
    BY <2>1, <2>3, SMT
  <2>5. x = v \/ x = v - p
    BY <2>3, <2>4
  <2> HIDE DEF x, v
  <2>6. Near(VCOFreq, x, p + 2)
    BY <2>1, <2>2, <2>5, SMT DEF Near
  <2> QED
    BY <2>6 DEF x, p, ld
<1>9. ASSUME cfg.ifBandwidth = <<>>, cfg.ifHighPass = <<>>
      PROVE  Near(DDCFreq, FilterCentre, 1)
  <2>1. Leaves(Ops, "tuner", 10, {4}, BitsOf(b.r10)) /\ Leaves(Ops, "tuner", 11, (0..7) \ {4}, BitsOf(b.r11))
    BY <1>1, <1>9 DEF IFLeft
  <2> HIDE DEF b
  <2>2. FilterCentre = if
    BY <1>3, <2>1, CentreLeft DEF if
  <2> QED
    BY <1>3, <1>5, <2>2, SMT DEF Near
<1> QED
  BY <1>7, <1>8, <1>9

\* The frequencies an opened Receiver is set to agree: its VCO is in its octave,
\* what mixes down to zero is the frequency its Config asked for, and the filter
\* is where the converter is (usbfs_linux.go:320, tuner_r860.go:175).
THEOREM OpenedOnOneIF == Spec => []OneIF
BY OpenedTunes, TypeCorrect, LastWritesStand, OkSafe, PTL
=============================================================================
