--------------------------- MODULE RelocAArch64 ----------------------------
(***************************************************************************)
(* The relocator of src/safe_jit/aarch64.rs, with the encodings of         *)
(* arm_util/encoding_aarch64.rs it decodes instructions by.  An ADR or     *)
(* ADRP becomes a load of the address from a literal behind the thunk, an  *)
(* LDR of a literal the same load and one through the register.            *)
(***************************************************************************)
EXTENDS ThunkTemplate

(* Adr::target_pc shifts the immediate's bits left by 12 and back: it      *)
(* keeps one bit less than there are.                                      *)
AdrImmediate(i) == Signed(template[i].imm, AdrCodes \div 2)

\* Faulty: the page is counted from the instruction.
A64TargetUnmasked(i) ==
    LET a == pc + start[i]
    IN  CASE template[i].op = "adrp" -> a + AdrImmediate(i) * PageSize
          [] template[i].op = "adr"  -> a + AdrImmediate(i)
          [] OTHER                   -> a + template[i].imm
(* target_pc of Adr and of LdrImm.                                         *)
A64Target(i) ==
    LET a == pc + start[i]
    IN  CASE template[i].op = "adrp" -> a - (a % PageSize) + AdrImmediate(i) * PageSize
          [] template[i].op = "adr"  -> a + AdrImmediate(i)
          [] OTHER                   -> a + template[i].imm

(* The block's first load has been found.                                  *)
A64AtAsm ==
    \/ cursor = Asm
    \/ cursor < Asm /\ template[cursor].op = "ldr" /\ A64Target(cursor) = pc + magic

A64ReachAsm ==
    /\ Scanning("a64")
    /\ A64AtAsm
    /\ IF extra = <<>>
       THEN Return(cow, newMagic)
       ELSE /\ phase' = "pool"
            /\ UNCHANGED <<error, relocVars>>

A64Ldr ==
    /\ Scanning("a64") /\ ~A64AtAsm
    /\ template[cursor].op = "ldr"
    /\ LET offset == start[cursor]
           room == AppendBytes(cow, offset, "hole", 4, 0)
       IN  /\ extra' = PutAside(room.len - 4, A64Target(cursor))
           /\ cow' = Replace(room, offset, "deref", 4, 0)
    /\ newMagic' = newMagic + 4
    /\ cursor' = cursor + 1
    /\ UNCHANGED <<phase, error>>

A64Adr ==
    /\ Scanning("a64") /\ ~A64AtAsm
    /\ template[cursor].op \in {"adr", "adrp"}
    /\ cow' = Replace(cow, start[cursor], "hole", 4, 0)
    /\ extra' = PutAside(cow'.len - 4, A64Target(cursor))
    /\ cursor' = cursor + 1
    /\ UNCHANGED <<phase, error, newMagic>>

\* Faulty: a branch to the next instruction is not followed.
FollowsPast(i) == Inside(i) /\ template[i].to > i + 1
\* Faulty: any branch within the template is followed.
FollowsAny(i) == Inside(i)
(* Only forward branches are followed.                                     *)
Follows(i) == Inside(i) /\ template[i].to > i

A64Branch ==
    /\ Scanning("a64") /\ ~A64AtAsm
    /\ template[cursor].op = "b"
    /\ IF Follows(cursor)
       THEN Goto(template[cursor].to)
       ELSE Panic("UnsupportedInstruction")

(* Every other instruction is copied if it is none of the unsupported      *)
(* groups; the loop ends where none can be disassembled.                   *)
A64Other ==
    /\ Scanning("a64") /\ ~A64AtAsm
    /\ CASE template[cursor].op = "jump" -> Panic("UnsupportedInstruction")
         [] template[cursor].op = "invalid" -> Panic("NoThunkAsm")
         [] template[cursor].op \in {"plain", "vldr"} -> Goto(cursor + 1)
         [] OTHER -> FALSE

(* The literals follow the thunk, 8 bytes each and aligned as the          *)
(* constants are.                                                          *)
A64Pool ==
    /\ mode = "a64" /\ phase = "pool"
    /\ LET whole == CopyUpTo(cow, TemplateLen)
       IN  cow' = IF (whole.len - newMagic) % 8 = 0
                  THEN whole
                  ELSE Push(whole, "pad", 4, TemplateLen, 0)
    /\ phase' = "literals"
    /\ cursor' = 1
    /\ UNCHANGED <<error, newMagic, extra>>

(* try_set_imm refuses what does not fit the field without its sign.       *)
A64Encoded(distance) == Signed(distance, Reach["a64"])

A64Literal ==
    /\ mode = "a64" /\ phase = "literals"
    /\ cursor <= Len(extra)
    /\ LET ldr == extra[cursor]
           distance == cow.len - ldr.at
       IN  IF distance >= Reach[mode]
           THEN Panic("EncodingError")
           ELSE /\ cow' = FillHole(Push(cow, "literal", 8, TemplateLen, ldr.addr),
                                   ldr.at, A64Encoded(distance))
                /\ cursor' = cursor + 1
                /\ UNCHANGED <<phase, error, newMagic, extra>>

A64Finish ==
    /\ mode = "a64" /\ phase = "literals"
    /\ cursor > Len(extra)
    /\ Return(cow, newMagic)

RelocateAArch64 ==
    /\ \/ A64ReachAsm \/ A64Ldr \/ A64Adr \/ A64Branch \/ A64Other
       \/ A64Pool \/ A64Literal \/ A64Finish
    /\ UNCHANGED <<templateVars, magic, blockVars, runVars>>
=============================================================================
