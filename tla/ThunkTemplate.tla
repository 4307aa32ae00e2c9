--------------------------- MODULE ThunkTemplate ---------------------------
(***************************************************************************)
(* A thunk template as the relocators of src/safe_jit see it, and the      *)
(* state they share.  In the code it is a prologue of the compiler's,      *)
(* followed by the _thunk_asm block of src/arch.rs: instructions that load *)
(* the closure pointer and the return address, padding, and the constants  *)
(* they are loaded from.  An instruction is what the relocators ask the    *)
(* disassembler, or the encodings of src/safe_jit/arm_util, about it.      *)
(***************************************************************************)
EXTENDS Integers, Sequences, CowBuffer

CONSTANTS
    Modes,         \* the instruction sets: "x86", "a64", "arm", "thumb"
    Instructions,  \* the instructions prologues consist of, by mode
    MaxLength,     \* bound: instructions of a prologue
    Pcs,           \* addresses of templates, by mode
    AsmCode,       \* bytes of the block in front of padding and constants, by mode
    MagicAlign,    \* align_of::<Magic>(), by mode
    Memory,        \* addresses the allocator may return
    Reach,         \* the distances the literal load has codes for, by mode
    AdrCodes,      \* the values an immediate of ADR or ADRP has; 2 ^ 21 on AArch64
    PageSize       \* what ADRP counts in; 4096 on AArch64

(* How an instruction uses its own address:                                *)
(*   "plain"  not at all                                                   *)
(*   "adr", "adrp", "adrW"  computes an address, adrW in 32 bits of Thumb  *)
(*   "ldr", "ldrT1", "ldrW", "ldrD"  loads from an address, the last three *)
(*            in the encodings of Thumb                                    *)
(*   "vldr"   loads a vector register from an address                      *)
(*   "ldrReg" loads from its address plus a register                       *)
(*   "call"   calls the next instruction; "pop" takes the address back     *)
(*   "b"      branches, on Arm and AArch64, to instruction "to", 0 or      *)
(*            beyond the block if that is not in the template              *)
(*   "jump"   any other control flow, or a privileged instruction          *)
(*   "invalid" none                                                        *)
Operations ==
    {"plain", "adr", "adrp", "adrW", "ldr", "ldrT1", "ldrW", "ldrD", "vldr",
     "ldrReg", "call", "pop", "b", "jump", "invalid"}

(* imm is the distance the processor adds, cond is TRUE iff the            *)
(* instruction may be skipped.                                             *)
Instruction ==
    [op : Operations, len : Nat \ {0}, imm : Int, cond : BOOLEAN, to : Nat]

ASSUME ModesAssumption == Modes \subseteq {"x86", "a64", "arm", "thumb"}

ASSUME TemplateAssumption ==
    /\ \A m \in Modes : /\ Instructions[m] \subseteq Instruction
                        /\ Pcs[m] \subseteq Nat
                        /\ AsmCode[m] \subseteq Nat \ {0}
                        /\ MagicAlign[m] \in {4, 8}
                        /\ Reach[m] \in Nat
    /\ MaxLength \in Nat
    /\ Memory \subseteq Nat
    /\ AdrCodes \in Nat /\ AdrCodes > 1
    /\ PageSize \in Nat \ {0}

(* The words and instructions of the Arm instruction sets, and the 16      *)
(* bytes of the block's code on x86, where only calls read the address of  *)
(* an instruction and all jumps are "jump".                                *)
ASSUME ArchitectureAssumption ==
    \A m \in Modes :
        /\ m = "a64" => MagicAlign[m] = 8 /\ Reach[m] > 0
        /\ m \in {"arm", "thumb"} => MagicAlign[m] = 4
        /\ m # "x86" => \A i \in Instructions[m] :
                            i.op # "plain" => i.len = 4 \/ (m = "thumb" /\ i.len = 2)
        /\ m = "x86" =>
              /\ AsmCode[m] = {16}
              /\ \A i \in Instructions[m] :
                    i.op \in {"plain", "call", "pop", "jump", "invalid"}

VARIABLES
    mode,      \* the target the crate was built for
    pc,        \* the address of the template
    asmCode,   \* the length of the block's code
    template,  \* the instructions of the prologue
    start,     \* their offsets in the template, and that of the block
    phase,     \* what AllocatedThunk::new is doing, "run" when it has returned
    error,     \* what it has panicked with
    magic,     \* template_magic_offset
    newMagic,  \* magic_offset, in the copy
    cursor,    \* the instruction, and then the load or literal, it is at
    extra,     \* extra_ldrs, or call_pops
    cow,       \* the bytes of the copy
    block,     \* alloc_base
    thunk,     \* where in the block the copy starts
    at,        \* a call: the instruction the template is at
    ip         \* and the offset the copy is at

templateVars == <<mode, pc, asmCode, template, start>>
relocVars == <<newMagic, cursor, extra, cow>>
blockVars == <<block, thunk>>
runVars == <<at, ip>>
vars == <<templateVars, phase, error, magic, relocVars, blockVars, runVars>>

-----------------------------------------------------------------------------
(* The number in a signed field of n values that v is written to.          *)
Signed(v, n) ==
    LET low == v % n
    IN  IF 2 * low < n THEN low ELSE low - n

(* The number of bytes from address a to the next multiple of n.           *)
AlignOffset(a, n) == (n - (a % n)) % n

Asm == Len(template) + 1

Prologue == 1..Len(template)

(* On x86 the block itself is aligned.                                     *)
AsmStart ==
    IF mode = "x86" THEN start[Asm] + AlignOffset(pc + start[Asm], 8) ELSE start[Asm]

(* The offset of the magic constants.                                      *)
MagicAt ==
    LET end == AsmStart + asmCode
    IN  end + AlignOffset(pc + end, MagicAlign[mode])

ExtraSize == IF mode \in {"x86", "a64"} THEN 16 ELSE 8

WordSize == IF mode = "a64" THEN 8 ELSE 4

TemplateLen == magic + ExtraSize

(* What the program counter reads as in the instruction at address a.      *)
EffectivePc(a) ==
    CASE mode = "arm" -> (a + 8) - ((a + 8) % 4)
      [] mode = "thumb" -> (a + 4) - ((a + 4) % 4)
      [] OTHER -> a

Inside(i) == template[i].to \in 1..Asm

UsesAddress(i) ==
    template[i].op \in {"adr", "adrp", "adrW", "ldr", "ldrT1", "ldrW", "ldrD", "vldr", "ldrReg"}

Loads(i) == template[i].op \in {"ldr", "ldrT1", "ldrW", "ldrD", "ldrReg"}

(* The address the processor computes for instruction i.                   *)
Address(i) ==
    LET a == pc + start[i]
    IN  CASE template[i].op = "adrp" -> a - (a % PageSize) + template[i].imm * PageSize
          [] template[i].op = "call" -> a + template[i].len
          [] OTHER -> EffectivePc(a) + template[i].imm

-----------------------------------------------------------------------------
Panic(e) ==
    /\ phase' = "panicked"
    /\ error' = e
    /\ UNCHANGED relocVars

Goto(i) ==
    /\ cursor' = i
    /\ UNCHANGED <<phase, error, newMagic, extra, cow>>

(* The relocator returns the bytes of buffer b.                            *)
Return(b, m) ==
    /\ phase' = "alloc"
    /\ cow' = IntoBytes(b, TemplateLen)
    /\ newMagic' = m
    /\ UNCHANGED <<error, cursor, extra>>

Scanning(m) == mode = m /\ phase = "scan"

(* An instruction's load is put aside; its address becomes a literal.      *)
PutAside(n, address) == Append(extra, [at |-> n, len |-> 4, addr |-> address])
=============================================================================
