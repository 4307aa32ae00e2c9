------------------------------ MODULE RelocX64 ------------------------------
(***************************************************************************)
(* The thunk relocator of src/safe_jit/x86_64.rs.  A thunk template is the *)
(* prologue the compiler puts in front of a _thunk_asm block; it is copied *)
(* to a JIT block, so that its rip-relative memory operands must be        *)
(* addressed through a register loaded with their absolute address.        *)
(* After a relocation the model runs the template and its copy in          *)
(* lock-step, up to the _thunk_asm block, which both have.                 *)
(*                                                                         *)
(* An instruction is what the relocator asks iced_x86 about it: its flow   *)
(* control, the general purpose registers it reads and those it            *)
(* overwrites, its length, and where a conditional jump goes.  A register  *)
(* it overwrites in part, or maybe, is read or neither read nor written.   *)
(***************************************************************************)
EXTENDS Integers, Sequences

CONSTANTS
    Registers,      \* general purpose registers, by their number
    Instructions,   \* the instructions prologues consist of
    MaxLength,      \* bound: instructions of a prologue
    AsmLength,      \* bytes of the first instruction of _thunk_asm
    Growth,         \* bytes by which relocating an instruction may lengthen it
    OverflowChecks, \* TRUE iff the build checks for arithmetic overflow
    NoRegister

(* "next" falls through; "above" and "below" do and have a rip-relative    *)
(* operand above or below the template; "jcc" is a conditional jump to     *)
(* instruction "to", 0 if that is in front of the template.                *)
Operations == {"next", "above", "below", "jcc", "other", "invalid"}

Instruction ==
    [op : Operations, reads : SUBSET Registers, writes : SUBSET Registers,
     len : Nat \ {0}, to : Nat]

ASSUME RegistersAssumption == Registers \subseteq 0..15 /\ NoRegister \notin Registers

ASSUME InstructionsAssumption ==
    /\ Instructions \subseteq Instruction
    /\ MaxLength \in Nat
    /\ AsmLength \in Nat
    /\ Growth \subseteq Nat \ {0}
    /\ OverflowChecks \in BOOLEAN

VARIABLES
    template,  \* the instructions in front of the _thunk_asm block
    clReg,     \* the register the block loads the closure pointer into
    phase,     \* what the relocator is doing, "run" when it has succeeded
    error,     \* what it has panicked with
    cursor,    \* the instruction it is at
    start,     \* where each instruction starts in the template
    gprOps,    \* gpr_ops: the next visible operation on each register
    base,      \* chosen_registers, by the instruction they are chosen for
    place,     \* where each instruction starts in the copy
    size,      \* bytes of the copy so far
    at,        \* running: the next instruction of the template
    ip,        \* running: where the copy is
    dirty      \* running: the registers that differ between the two

relocVars == <<phase, error, cursor, start, gprOps, base, place, size>>
runVars == <<at, ip, dirty>>
vars == <<template, clReg, relocVars, runVars>>

-----------------------------------------------------------------------------
Asm == Len(template) + 1

Prologue == 1..Len(template)

NeedsReloc(i) == template[i].op \in {"above", "below"}

Relocations == {i \in Prologue : NeedsReloc(i)}

IsJcc(i) == template[i].op = "jcc"

Lowest(s) == CHOOSE r \in s : \A q \in s : r <= q

Init ==
    /\ template \in UNION {[1..n -> Instructions] : n \in 0..MaxLength}
    /\ clReg \in Registers
    /\ phase = "decode"
    /\ error = "none"
    /\ cursor = 1
    /\ start = [i \in 1..Asm |-> 0]
    /\ gprOps = [r \in Registers |-> [kind |-> "None", at |-> 0]]
    /\ base = [i \in Prologue |-> NoRegister]
    /\ place = <<>>
    /\ size = 0
    /\ at = 1
    /\ ip = 0
    /\ dirty = {}

Panic(e) ==
    /\ phase' = "panicked"
    /\ error' = e
    /\ UNCHANGED <<cursor, start, gprOps, base, place, size>>

(***************************************************************************)
(* The decode loop.                                                        *)
(***************************************************************************)

(* The operand of an instruction is compared with the magic constants by   *)
(* its distance from the template, an unsigned difference.                 *)
Refusal(i) ==
    IF template[i].op = "invalid" THEN "InvalidInstruction"
    ELSE IF template[i].op = "other" THEN "UnsupportedInstruction"
    ELSE IF template[i].op = "below" /\ OverflowChecks THEN "Overflow"
    ELSE "none"

(* start[cursor] is the position of the decoder.                           *)
Decode ==
    /\ phase = "decode"
    /\ cursor < Asm
    /\ IF Refusal(cursor) # "none"
       THEN Panic(Refusal(cursor))
       ELSE /\ cursor' = cursor + 1
            /\ start' = [start EXCEPT ![cursor + 1] = start[cursor] + template[cursor].len]
            /\ UNCHANGED <<phase, error, gprOps, base, place, size>>
    /\ UNCHANGED <<template, clReg, runVars>>

\* Faulty: a target in front of the template is not noticed.
LeavesForward(i) == IsJcc(i) /\ template[i].to > Asm
(* The jump goes beyond the _thunk_asm block, or below the template, whose *)
(* difference wraps.                                                       *)
Leaves(i) == IsJcc(i) /\ (template[i].to = 0 \/ template[i].to > Asm)

(* The block is reached.  A template without rip-relative operands is      *)
(* copied as it is.                                                        *)
ReachAsm ==
    /\ phase = "decode"
    /\ cursor = Asm
    /\ IF \E i \in Prologue : Leaves(i)
       THEN Panic("UnsupportedControlFlow")
       ELSE IF Relocations = {}
       THEN /\ phase' = "run"
            /\ place' = start
            /\ size' = start[Asm]
            /\ UNCHANGED <<error, cursor, start, gprOps, base>>
       ELSE /\ phase' = "scan"
            /\ cursor' = Asm - 1
            /\ gprOps' = [gprOps EXCEPT ![clReg] = [kind |-> "Write", at |-> AsmLength]]
            /\ UNCHANGED <<error, start, base, place, size>>
    /\ UNCHANGED <<template, clReg, runVars>>

(***************************************************************************)
(* The backward pass.  The code numbers instructions from 0.               *)
(***************************************************************************)

\* Faulty: a register that is read and written counts as written.
VisitWrites(r) ==
    IF r \in template[cursor].writes THEN [kind |-> "Write", at |-> cursor - 1]
    ELSE IF r \in template[cursor].reads THEN [kind |-> "Read", at |-> cursor - 1]
    ELSE gprOps[r]
(* What the instruction makes of the last operation on a register.         *)
Visit(r) ==
    IF r \in template[cursor].reads THEN [kind |-> "Read", at |-> cursor - 1]
    ELSE IF r \in template[cursor].writes THEN [kind |-> "Write", at |-> cursor - 1]
    ELSE gprOps[r]

\* Faulty: a register the instruction itself overwrites is passed over.
WrittenLater(ops) ==
    {r \in Registers : ops[r].kind = "Write" /\ ops[r].at > cursor - 1}
(* The registers that are overwritten before they are read again.          *)
Available(ops) ==
    {r \in Registers : ops[r].kind = "Write" /\ ops[r].at >= cursor - 1}

Scan ==
    /\ phase = "scan"
    /\ LET ops == [r \in Registers |-> Visit(r)]
       IN  IF NeedsReloc(cursor) /\ Available(ops) = {}
           THEN Panic("NoAvailableRegister")
           ELSE /\ gprOps' = ops
                /\ base' = IF NeedsReloc(cursor)
                           THEN [base EXCEPT ![cursor] = Lowest(Available(ops))]
                           ELSE base
                /\ phase' = IF cursor = 1 THEN "encode" ELSE "scan"
                /\ cursor' = IF cursor = 1 THEN 1 ELSE cursor - 1
                /\ UNCHANGED <<error, start, place, size>>
    /\ UNCHANGED <<template, clReg, runVars>>

(***************************************************************************)
(* The copy.                                                               *)
(***************************************************************************)

\* Faulty: all instructions are encoded again, jumps in their long form.
LengthsAll(i) == {template[i].len + n : n \in Growth}
(* The bytes an instruction takes in the copy.                             *)
Lengths(i) ==
    IF NeedsReloc(i) THEN {template[i].len + n : n \in Growth} ELSE {template[i].len}

Encode ==
    /\ phase = "encode"
    /\ cursor < Asm
    /\ \/ /\ \E n \in Lengths(cursor) : size' = size + n
          /\ place' = Append(place, size)
          /\ cursor' = cursor + 1
          /\ UNCHANGED <<phase, error, start, gprOps, base>>
       \/ NeedsReloc(cursor) /\ Panic("EncodingError")
    /\ UNCHANGED <<template, clReg, runVars>>

(* The _thunk_asm block follows.                                           *)
AppendAsm ==
    /\ phase = "encode"
    /\ cursor = Asm
    /\ place' = Append(place, size)
    /\ phase' = "run"
    /\ UNCHANGED <<template, clReg, error, cursor, start, gprOps, base, size, runVars>>

(***************************************************************************)
(* A call of the thunk: the processor runs the copy.                       *)
(***************************************************************************)

(* The registers that differ when an instruction is about to run, behind   *)
(* the load of an address.                                                 *)
DirtyAt(i) == dirty \cup ({base[i]} \ {NoRegister})

(* The offset a jump goes to.  0 is somewhere in front of the template.    *)
Target(i) == IF template[i].to = 0 THEN -1 ELSE start[template[i].to]

(* The copy has the bytes of a jump unchanged, so it jumps as far.         *)
Run ==
    /\ phase = "run"
    /\ at < Asm
    /\ ip = place[at]
    /\ dirty' = DirtyAt(at) \ template[at].writes
    /\ \/ at' = at + 1 /\ ip' = place[at + 1]
       \/ /\ IsJcc(at)
          /\ at' = template[at].to
          /\ ip' = place[at + 1] + Target(at) - start[at + 1]
    /\ UNCHANGED <<template, clReg, relocVars>>

-----------------------------------------------------------------------------
Next == Decode \/ ReachAsm \/ Scan \/ Encode \/ AppendAsm \/ Run

Spec == Init /\ [][Next]_vars

-----------------------------------------------------------------------------
(* Properties *)

(* Every variable has its type.                                            *)
TypeOK ==
    /\ template \in Seq(Instructions)
    /\ clReg \in Registers
    /\ phase \in {"decode", "scan", "encode", "run", "panicked"}
    /\ error \in {"none", "InvalidInstruction", "UnsupportedInstruction", "Overflow",
                  "UnsupportedControlFlow", "NoAvailableRegister", "EncodingError"}
    /\ cursor \in 1..Asm
    /\ start \in [1..Asm -> Nat]
    /\ gprOps \in [Registers -> [kind : {"None", "Read", "Write"}, at : Nat]]
    /\ base \in [Prologue -> Registers \cup {NoRegister}]
    /\ place \in Seq(Nat)
    /\ size \in Nat
    /\ at \in 1..Asm
    /\ ip \in Int
    /\ dirty \subseteq Registers

(* Register r is overwritten before it is read, from instruction i on.     *)
Dead(r, i) ==
    \E j \in i..Asm :
        /\ j = Asm => r = clReg
        /\ j # Asm => r \in template[j].writes \ template[j].reads
        /\ \A k \in i..(j - 1) : r \notin template[k].reads

(* No instruction reads, and the thunk behind the _thunk_asm block does    *)
(* not find, a register the copy has used for an address.                  *)
SameValues ==
    phase = "run" =>
        IF at = Asm THEN dirty \subseteq {clReg}
        ELSE DirtyAt(at) \cap template[at].reads = {}

(* What is overwritten before it is read behind a jump, is so where it     *)
(* goes.                                                                   *)
KeepsDead(i) == \A r \in Registers : Dead(r, i + 1) => Dead(r, template[i].to)

(* A prologue computes in the copy what it computes in the template, along *)
(* every path, if its jumps are like that: the registers picked by the     *)
(* backward pass, which follows none, are dead (x86_64.rs 96-121).         *)
SafeJumpsSameValues ==
    (\A i \in Prologue : IsJcc(i) => Leaves(i) \/ KeepsDead(i)) => SameValues

(* The same for all prologues.                                             *)
CopySameValues == SameValues

(* The copy is at the instruction the template is at.                      *)
SameInstruction == phase = "run" => ip = place[at]

Between(i, j) == {k \in Prologue : (i < k /\ k < j) \/ (j <= k /\ k < i)}

(* A copied jump still arrives where it should if nothing it jumps over    *)
(* was lengthened (x86_64.rs 36-43, 63-66, 128).                           *)
SparedJumpsArrive ==
    (\A i \in Prologue : IsJcc(i) => Between(i, template[i].to) \cap Relocations = {})
        => SameInstruction

(* The same for all jumps.                                                 *)
JumpsArrive == SameInstruction

(* Every instruction is supported, no jump leaves, and a register is free  *)
(* wherever one is needed.                                                 *)
Relocatable ==
    /\ \A i \in Prologue : template[i].op \notin {"invalid", "other"} /\ ~Leaves(i)
    /\ \A i \in Relocations : \E r \in Registers : Dead(r, i)

(* reloc_thunk_template panics only over code it cannot relocate           *)
(* (safe_jit/mod.rs 44-45).                                                *)
PanicsOnlyIfBroken ==
    error \notin {"none", "EncodingError"} => ~Relocatable

(* A build that checks for overflow meets an operand below the template.   *)
Overflows == OverflowChecks /\ \E i \in Prologue : template[i].op = "below"

(* Apart from these, so it does for prologues that have at most one        *)
(* instruction more than the block's first has bytes (x86_64.rs 50, 92,    *)
(* 115-118).                                                               *)
ShortRelocated ==
    ~Overflows /\ Len(template) <= AsmLength + 1 => PanicsOnlyIfBroken
=============================================================================
