------------------------------ MODULE RelocArm -----------------------------
(***************************************************************************)
(* The relocator of src/safe_jit/arm.rs, with the encodings of             *)
(* arm_util/encoding_arm.rs (mode "arm") and encoding_thumb.rs ("thumb").  *)
(* Instructions that read the program counter become loads of literals, as *)
(* on AArch64, but are shorter in Thumb.  The disassembler is taken to     *)
(* report the program counter as read by all of them and by no branch.     *)
(***************************************************************************)
EXTENDS ThunkTemplate

ScanningArm == mode \in {"arm", "thumb"} /\ phase = "scan"

Current == template[cursor]

(* target_pc of LoadImm.  The sign of a wide load is left out, that of     *)
(* LDRD turned round; of a load plus a register, the register's number is  *)
(* taken for a distance.                                                   *)
LoadTarget(i) ==
    LET p == EffectivePc(pc + start[i])
        d == template[i].imm
    IN  CASE template[i].op = "ldrW" -> p + (IF d < 0 THEN -d ELSE d)
          [] template[i].op = "ldrD" -> p - d
          [] OTHER -> p + d

(* target_pc of Adr.                                                       *)
AdrTarget(i) == EffectivePc(pc + start[i]) + template[i].imm

ArmAtAsm ==
    \/ cursor = Asm
    \/ /\ cursor < Asm
       /\ Loads(cursor) /\ ~Current.cond
       /\ LoadTarget(cursor) = pc + magic

ArmReachAsm ==
    /\ ScanningArm
    /\ ArmAtAsm
    /\ IF extra = <<>>
       THEN Return(cow, newMagic)
       ELSE /\ phase' = "pool"
            /\ UNCHANGED <<error, relocVars>>

(* A branch within the template is followed, whatever its condition.       *)
ArmBranch ==
    /\ ScanningArm /\ cursor < Asm
    /\ Current.op = "b"
    /\ Goto(IF Inside(cursor) THEN Current.to ELSE cursor + 1)

ArmPlain ==
    /\ ScanningArm /\ cursor < Asm
    /\ Current.op = "plain"
    /\ Goto(cursor + 1)

(* Writes to the program counter, unsupported groups, uses of it under a   *)
(* condition, and those that are neither an Adr nor a LoadImm.  The test   *)
(* Adr::try_from_raw makes of the 32-bit forms in Thumb, s1 # s2, is that  *)
(* of no such instruction.                                                 *)
Refused(i) ==
    \/ template[i].op \in {"jump", "vldr", "adrW"}
    \/ UsesAddress(i) /\ template[i].cond

ArmUnsupported ==
    /\ ScanningArm /\ cursor < Asm
    /\ Refused(cursor)
    /\ Panic("UnsupportedInstruction")

ArmInvalid ==
    /\ ScanningArm /\ cursor < Asm
    /\ Current.op = "invalid"
    /\ Panic("NoThunkAsm")

(* An instruction behind a branch back has been copied.                    *)
ArmOutOfOrder ==
    /\ ScanningArm /\ ~ArmAtAsm
    /\ UsesAddress(cursor) /\ ~Refused(cursor)
    /\ ~InOrder(cow, start[cursor])
    /\ Panic("Slice")

(* ADR has 2 or 4 bytes, the load it becomes has 4.                        *)
ArmAdr ==
    /\ ScanningArm /\ cursor < Asm
    /\ Current.op = "adr" /\ ~Current.cond
    /\ InOrder(cow, start[cursor])
    /\ LET offset == start[cursor]
           room == AppendBytes(cow, offset, "hole", 4, 0)
       IN  /\ extra' = PutAside(room.len - 4, AdrTarget(cursor))
           /\ cow' = Ignore(room, offset, Current.len)
    /\ newMagic' = newMagic + 4 - Current.len
    /\ cursor' = cursor + 1
    /\ UNCHANGED <<phase, error>>

(* LoadImm::as_rt_load keeps the length.                                   *)
ArmLoad ==
    /\ ScanningArm /\ ~ArmAtAsm
    /\ Loads(cursor) /\ ~Current.cond
    /\ InOrder(cow, start[cursor])
    /\ LET offset == start[cursor]
           room == AppendBytes(cow, offset, "hole", 4, 0)
       IN  /\ extra' = PutAside(room.len - 4, LoadTarget(cursor))
           /\ cow' = Ignore(AppendBytes(room, offset, "deref", Current.len, 0),
                            offset, Current.len)
    /\ newMagic' = newMagic + 4
    /\ cursor' = cursor + 1
    /\ UNCHANGED <<phase, error>>

ArmPool ==
    /\ mode \in {"arm", "thumb"} /\ phase = "pool"
    /\ LET whole == CopyUpTo(cow, TemplateLen)
       IN  cow' = IF (whole.len - newMagic) % 4 = 0
                  THEN whole
                  ELSE Push(whole, "pad", 2, TemplateLen, 0)
    /\ phase' = "literals"
    /\ cursor' = 1
    /\ UNCHANGED <<error, newMagic, extra>>

(* LdrImm::new_lit, at the address the load would have behind the          *)
(* template's own.                                                         *)
Displacement(ldr) == (pc + cow.len) - EffectivePc(pc + ldr.at)

ArmLiteral ==
    /\ mode \in {"arm", "thumb"} /\ phase = "literals"
    /\ cursor <= Len(extra)
    /\ LET ldr == extra[cursor]
           distance == Displacement(ldr)
       IN  IF distance >= Reach[mode]
           THEN Panic("EncodingError")
           ELSE /\ cow' = FillHole(Push(cow, "literal", 4, TemplateLen, ldr.addr),
                                   ldr.at, distance)
                /\ cursor' = cursor + 1
                /\ UNCHANGED <<phase, error, newMagic, extra>>

ArmFinish ==
    /\ mode \in {"arm", "thumb"} /\ phase = "literals"
    /\ cursor > Len(extra)
    /\ Return(cow, newMagic)

RelocateArm ==
    /\ \/ ArmReachAsm \/ ArmBranch \/ ArmPlain \/ ArmUnsupported \/ ArmInvalid
       \/ ArmOutOfOrder \/ ArmAdr \/ ArmLoad
       \/ ArmPool \/ ArmLiteral \/ ArmFinish
    /\ UNCHANGED <<templateVars, magic, blockVars, runVars>>
=============================================================================
