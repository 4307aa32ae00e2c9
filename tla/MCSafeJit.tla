----------------------------- MODULE MCSafeJit ------------------------------
(* Small instances of SafeJit: the prologues of a few instructions, one    *)
(* of which stands for ten that do not use their address.                  *)
EXTENDS SafeJitInv, TLC

Instr(op, len, imm) == [op |-> op, len |-> len, imm |-> imm, cond |-> FALSE, to |-> 0]

Conditional(i) == [i EXCEPT !.cond = TRUE]

Branch(len, to) == [op |-> "b", len |-> len, imm |-> 0, cond |-> FALSE, to |-> to]

Branches(len) == {Branch(len, to) : to \in 0..(MaxLength + 2)}

X86Instructions ==
    {Instr("plain", 3, 0), Instr("call", 5, 0), Instr("call", 6, 0), Instr("pop", 1, 0),
     Instr("jump", 2, 0), Instr("invalid", 1, 0)}

A64Instructions ==
    {Instr("plain", 4, 0), Instr("plain", 40, 0), Instr("vldr", 4, 64),
     Instr("jump", 4, 0), Instr("invalid", 4, 0),
     Instr("ldr", 4, 400), Instr("ldr", 4, -64),
     Instr("adr", 4, 7), Instr("adr", 4, -9), Instr("adr", 4, 20),
     Instr("adrp", 4, 1), Instr("adrp", 4, -16), Instr("adrp", 4, -17)} \cup Branches(4)

ArmInstructions ==
    LET ldr == Instr("ldr", 4, -64)
        adr == Instr("adr", 4, 100)
    IN  {Instr("plain", 4, 0), Instr("plain", 40, 0), Instr("jump", 4, 0),
         Instr("invalid", 4, 0), ldr, adr, Conditional(ldr), Conditional(adr),
         Instr("ldrReg", 4, 3), Instr("vldr", 4, 64),
         Conditional(Branch(4, MaxLength))} \cup Branches(4)

ThumbInstructions ==
    {Instr("plain", 2, 0), Instr("plain", 4, 0), Instr("adr", 2, 100), Instr("adrW", 4, -100),
     Instr("ldrT1", 2, 200), Instr("ldrW", 4, 300), Instr("ldrW", 4, -64),
     Instr("ldrD", 4, -48), Instr("ldrD", 4, 0), Conditional(Instr("ldrT1", 2, 64)),
     Branch(2, 2), Branch(2, MaxLength)}

AllInstructions ==
    [x86 |-> X86Instructions, a64 |-> A64Instructions,
     arm |-> ArmInstructions, thumb |-> ThumbInstructions]

(* ADR and ADRP.                                                           *)
AdrInstructions ==
    [a64 |-> {i \in A64Instructions : i.op \in {"plain", "adr", "adrp"}}]

(* The short ADR of Thumb.                                                *)
ShortAdrs == [thumb |-> {Instr("plain", 2, 0), Instr("adr", 2, 100)}]

(* Addresses as the architectures align them.                              *)
AllPcs == [x86 |-> {1000, 1003}, a64 |-> {1000, 1004}, arm |-> {1000, 1004}, thumb |-> {1000, 1002}]

(* Of the two loads and the branch of a block in Thumb, the loads may take *)
(* 2 or 4 bytes.                                                           *)
AllAsmCode == [x86 |-> {16}, a64 |-> {12}, arm |-> {12}, thumb |-> {6, 10}]

AllMagicAlign == [x86 |-> 4, a64 |-> 8, arm |-> 4, thumb |-> 4]

AllReach == [x86 |-> 0, a64 |-> 96, arm |-> 40, thumb |-> 4096]
=============================================================================
