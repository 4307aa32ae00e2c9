------------------------------ MODULE SafeJit -------------------------------
(***************************************************************************)
(* AllocatedThunk::new of src/arch.rs for the instruction sets RelocX64    *)
(* does not cover: the search for the magic constants, the relocation      *)
(* (src/safe_jit/mod.rs), the allocation and alignment of the copy.  Then  *)
(* the thunk is called: the model runs the template and the copy in        *)
(* lock-step up to the _thunk_asm block.                                   *)
(*                                                                         *)
(* What the steps after the alignment do to the block's contents is in     *)
(* BareClosure; here they are places in it.                                *)
(***************************************************************************)
EXTENDS RelocX86, RelocAArch64, RelocArm

Init ==
    /\ mode \in Modes
    /\ pc \in Pcs[mode]
    /\ asmCode \in AsmCode[mode]
    /\ template = <<>>
    /\ start = <<0>>
    /\ phase = "compile"
    /\ error = "none"
    /\ magic = 0
    /\ newMagic = 0
    /\ cursor = 1
    /\ extra = <<>>
    /\ cow = NewBuffer
    /\ block = 0
    /\ thunk = 0
    /\ at = 1
    /\ ip = 0

(* The compiler writes the prologue.                                       *)
Compile ==
    /\ phase = "compile"
    /\ Len(template) < MaxLength
    /\ \E i \in Instructions[mode] :
          /\ template' = Append(template, i)
          /\ start' = Append(start, start[Asm] + i.len)
    /\ UNCHANGED <<mode, pc, asmCode, phase, error, magic, relocVars, blockVars, runVars>>

\* Faulty: the search starts at the template, aligned or not.
SearchFromStart == 0
(* The constants can only be at multiples of their alignment.              *)
SearchFrom == AlignOffset(pc, MagicAlign[mode])

BeginSearch ==
    /\ phase = "compile"
    /\ phase' = "search"
    /\ magic' = SearchFrom
    /\ UNCHANGED <<templateVars, error, relocVars, blockVars, runVars>>

SearchMagic ==
    /\ phase = "search"
    /\ IF magic = MagicAt
       THEN /\ phase' = "scan"
            /\ newMagic' = magic
            /\ UNCHANGED magic
       ELSE /\ magic' = magic + MagicAlign[mode]
            /\ UNCHANGED <<phase, newMagic>>
    /\ UNCHANGED <<templateVars, error, cursor, extra, cow, blockVars, runVars>>

(* reloc_thunk_template, of the target's architecture.                     *)
Relocate == RelocateX86 \/ RelocateAArch64 \/ RelocateArm

\* Faulty: no bytes for the alignment.
BlockSizeExact(n) == n
(* The size of the allocation.                                             *)
BlockSize(n) == n + MagicAlign[mode] - 1

\* Faulty: the copy is aligned, not the constants in it.
PlaceStart(b) == b + AlignOffset(b, MagicAlign[mode])
(* The copy starts where its constants come to be aligned.                 *)
Place(b) == b + AlignOffset(b + newMagic, MagicAlign[mode])

AllocThunk ==
    /\ phase = "alloc"
    /\ block' \in Memory
    /\ thunk' = Place(block')
    /\ phase' = "run"
    /\ UNCHANGED <<templateVars, error, magic, relocVars, runVars>>

-----------------------------------------------------------------------------
(* Where the closure pointer and the return address are written.           *)
ClosurePtrAt == newMagic + (IF mode = "x86" THEN -15 ELSE 0)

ReturnAddrAt == newMagic + (IF mode = "x86" THEN -10 ELSE WordSize)

(* The pieces of the copy that begin with the code of template offset o    *)
(* when they are entered at offset x.                                      *)
CopiesOf(o, x) ==
    {p \in cow.pieces : p.kind = "copy" /\ p.at <= x /\ x < p.at + p.len
                        /\ p.src + (x - p.at) = o}

(* The literal at the address a load has been encoded with.                *)
Loaded(p) ==
    {l \in cow.pieces : l.kind = "literal"
                        /\ thunk + l.at = EffectivePc(thunk + p.at) + p.arg}

(* A load of the address instruction i uses.                               *)
Gives(p, i) ==
    \/ p.kind = "mov" /\ p.arg = Address(i)
    \/ p.kind = "ldr" /\ \E l \in Loaded(p) : l.arg = Address(i)

(* The code at offset x of the copy does what instruction i of the         *)
(* template does: either it is that instruction, which does not depend on  *)
(* where it is, or a load of the address it uses.                          *)
Same(i, x) ==
    \/ /\ CopiesOf(start[i], x) # {}
       /\ i # Asm => /\ ~UsesAddress(i) /\ template[i].op \notin {"call", "jump"}
                     /\ (template[i].op = "b" => Inside(i))
    \/ /\ i # Asm /\ (UsesAddress(i) \/ Pairs(i))
       /\ template[i].op # "ldrReg"
       /\ \E p \in cow.pieces :
             /\ p.at = x /\ p.src = start[i]
             /\ Gives(p, i)
             /\ Loads(i) => \E d \in cow.pieces :
                                d.kind = "deref" /\ d.at = x + p.len /\ d.src = start[i]

(* The bytes of the copy that stand for instruction i.                     *)
CopyLen(i) ==
    IF CopiesOf(start[i], ip) # {} THEN template[i].len
    ELSE IF Pairs(i) THEN MovLen
    ELSE IF Loads(i) THEN 4 + template[i].len
    ELSE 4

(* A branch's bytes are the same in the copy, and go as far.               *)
Run ==
    /\ phase = "run"
    /\ at < Asm /\ Same(at, ip)
    /\ \/ /\ template[at].op # "b" \/ template[at].cond
          /\ at' = IF Pairs(at) THEN at + 2 ELSE at + 1
          /\ ip' = ip + CopyLen(at)
       \/ /\ template[at].op = "b"
          /\ at' = template[at].to
          /\ ip' = ip + start[template[at].to] - start[at]
    /\ UNCHANGED <<templateVars, phase, error, magic, relocVars, blockVars>>

Next == Compile \/ BeginSearch \/ SearchMagic \/ Relocate \/ AllocThunk \/ Run

Spec == Init /\ [][Next]_vars

(* Once called, AllocatedThunk::new keeps running.                         *)
FairSpec == Spec /\ WF_vars(SearchMagic \/ Relocate \/ AllocThunk)

-----------------------------------------------------------------------------
(* Properties *)

(* Every variable has its type.                                            *)
TypeOK ==
    /\ mode \in Modes /\ pc \in Nat /\ asmCode \in Nat \ {0}
    /\ template \in Seq(Instruction)
    /\ start \in Seq(Nat) /\ Len(start) = Asm
    /\ phase \in {"compile", "search", "scan", "encode", "pool", "literals",
                  "alloc", "run", "panicked"}
    /\ error \in {"none", "InvalidInstruction", "UnsupportedInstruction",
                  "NoThunkAsm", "EncodingError", "Slice"}
    /\ magic \in Nat /\ newMagic \in Nat /\ cursor \in Nat \ {0}
    /\ extra \in Seq([at : Nat, len : Nat, addr : Int])
    /\ cow \in Buffer
    /\ block \in Nat /\ thunk \in Nat
    /\ at \in 1..Asm /\ ip \in Nat

Relocated == phase \in {"alloc", "run"}

(* The search never passes the constants (arch.rs 218-227).                *)
SearchInside == phase = "search" => magic <= MagicAt

(* The copy of the block lies where the relocator says its constants are,  *)
(* code, padding and constants in one piece, however the prologue in front *)
(* of it has grown or shrunk.                                              *)
BlockFollows ==
    Relocated =>
        \E p \in cow.pieces :
            /\ p.kind = "copy" /\ p.src <= start[Asm]
            /\ p.src + p.len = TemplateLen
            /\ p.at + (magic - p.src) = newMagic

(* Pieces do not overlap, so that no literal or load is written over code, *)
(* and the copy, wherever it was shifted to, is inside its allocation.     *)
CopyFits ==
    phase = "run" =>
        /\ \A p, r \in cow.pieces : p # r => p.at + p.len <= r.at \/ r.at + r.len <= p.at
        /\ block <= thunk
        /\ \A p \in cow.pieces : thunk + p.at + p.len <= block + BlockSize(cow.len)

(* The address the block's load at distance d behind its start reads, of   *)
(* the word at distance w behind the constants.                            *)
AsmReads(d, w) ==
    LET here == start[Asm] + d
        copied == newMagic - (magic - here)
    IN  EffectivePc(thunk + copied) + ((pc + magic + w) - EffectivePc(pc + here))

(* The block's loads find the closure pointer and the return address where *)
(* they were written, aligned as a word.                                   *)
BlockFindsPointers ==
    phase = "run" =>
        IF mode = "x86"
        THEN /\ newMagic - (magic - AsmStart) + 1 = ClosurePtrAt
             /\ newMagic - (magic - AsmStart) + 6 = ReturnAddrAt
        ELSE /\ AsmReads(0, 0) = thunk + ClosurePtrAt
             /\ \A d \in {2, 4} : AsmReads(d, WordSize) = thunk + ReturnAddrAt
             /\ (thunk + ClosurePtrAt) % MagicAlign[mode] = 0

(* The copy does what the template does: "Panics if the relocation would   *)
(* lead to broken code" (safe_jit/mod.rs 44-45).                           *)
CopyRunsAlike == phase = "run" => Same(at, ip)

(* Prologues in which no instruction is mistaken: no ADR beyond half its   *)
(* reach, vector literal, load plus register, wide load of a lower         *)
(* address, LDRD at any distance but 0 (encoding_thumb.rs 173 applies its  *)
(* sign twice) or load of the block's constants, no branch that has a      *)
(* condition, goes back or leaves the template, in Thumb no shift of the   *)
(* copy by half a word, and on AArch64 no literal so far that its distance *)
(* is encoded as a negative one.                                           *)
Plausible(i) ==
    /\ (mode = "a64" /\ template[i].op \in {"adr", "adrp"}) => AdrImmediate(i) = template[i].imm
    /\ template[i].op \notin {"vldr", "ldrReg"}
    /\ template[i].op = "ldrW" => template[i].imm >= 0
    /\ template[i].op = "ldrD" => template[i].imm = 0
    /\ Loads(i) => Address(i) # pc + MagicAt
    /\ template[i].op = "b" => (Inside(i) /\ template[i].to > i /\ ~template[i].cond)

Mistaken ==
    \/ \E i \in Prologue : ~Plausible(i)
    \/ mode = "thumb" /\ (newMagic - magic) % 4 # 0
    \/ mode = "a64" /\ \E p \in cow.pieces : p.kind = "ldr" /\ p.arg < 0

(* Apart from these, every prologue that is relocated runs as it did       *)
(* before, on all instruction sets: each address it uses is the one it     *)
(* used in the template.                                                   *)
PlausibleRunsAlike == ~Mistaken => CopyRunsAlike

(* The address of every literal behind the thunk is aligned as the         *)
(* constants are.                                                          *)
LiteralsAligned ==
    phase = "run" =>
        \A p \in cow.pieces : p.kind = "literal" => (thunk + p.at) % MagicAlign[mode] = 0

(* Instructions the relocators are written to refuse: those that leave     *)
(* the prologue or cannot be disassembled, vector literals, a use of the   *)
(* address under a condition, a call without its pop, and a branch past    *)
(* the block or back.                                                      *)
Unsupported(i) ==
    \/ template[i].op \in {"jump", "invalid", "vldr"}
    \/ UsesAddress(i) /\ template[i].cond
    \/ template[i].op = "call" /\ ~Pairs(i)
    \/ template[i].op = "b" /\ (~Inside(i) \/ template[i].to <= i)

(* The wide ADR of Thumb is not one of them: encoding_thumb.rs 209-276 and *)
(* arm.rs 75-86 are written to relocate it, and it is lost to the          *)
(* comparison at encoding_thumb.rs 250, which none of its forms passes.    *)
Misjudged(i) == template[i].op = "adrW"

GivenUp(i) == Unsupported(i) \/ Misjudged(i)

(* The part of JitInv that has every panic explained, by an instruction    *)
(* given up or a literal out of reach.                                     *)
PanicsExplained ==
    phase = "panicked" =>
        \/ \E i \in Prologue : GivenUp(i)
        \/ error = "EncodingError" /\ cow.len + 8 > Reach[mode]

(* The loads of a prologue can reach their literals, however much it grows *)
(* and wherever the loads are in it.                                       *)
Reaching == mode # "x86" => MagicAt + ExtraSize + 12 * Len(template) <= Reach[mode]

Supported == Reaching /\ \A i \in Prologue : ~GivenUp(i)

(* A prologue of supported instructions is relocated, whatever their order *)
(* and number: no encoding fails, no slice of the buffer ends before it    *)
(* begins, and the loop over the template does not miss the block          *)
(* (arch.rs 229-247, arm_util.rs 103, safe_jit/mod.rs 44-45).  The wide   *)
(* ADR of Thumb is excepted, as it is misjudged.                           *)
SupportedRelocated == Supported => phase # "panicked"

ForwardOnly == \A i \in Prologue : template[i].op = "b" => template[i].to > i

(* The constants are found, and a relocation ends, in a thunk or a panic:  *)
(* on AArch64 whatever the branches, on Arm if none goes back.             *)
RelocationEnds ==
    (phase = "search") ~>
        \/ phase \in {"run", "panicked"}
        \/ mode \in {"arm", "thumb"} /\ ~ForwardOnly
=============================================================================
