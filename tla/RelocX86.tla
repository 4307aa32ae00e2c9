----------------------------- MODULE RelocX86 ------------------------------
(***************************************************************************)
(* The relocator of src/safe_jit/x86.rs.  32-bit code has no operands      *)
(* relative to its address, but it calls the next instruction and pops the *)
(* return address; such a pair becomes a move of that address.             *)
(***************************************************************************)
EXTENDS ThunkTemplate

(* mov r32, imm32                                                          *)
MovLen == 5

(* The call at i and what follows it make a pair.                          *)
Pairs(i) ==
    /\ template[i].op = "call"
    /\ i + 1 \in Prologue
    /\ template[i + 1].op = "pop"

X86Invalid ==
    /\ Scanning("x86") /\ cursor < Asm
    /\ template[cursor].op = "invalid"
    /\ Panic("InvalidInstruction")

X86Next ==
    /\ Scanning("x86") /\ cursor < Asm
    /\ template[cursor].op \notin {"invalid", "call", "jump"}
    /\ Goto(cursor + 1)

X86CallPop ==
    /\ Scanning("x86") /\ cursor < Asm
    /\ Pairs(cursor)
    /\ cursor' = cursor + 2
    /\ extra' = Append(extra,
                       [at |-> start[cursor],
                        len |-> start[cursor + 1] - start[cursor] + template[cursor + 1].len,
                        addr |-> pc + start[cursor] + template[cursor].len])
    /\ UNCHANGED <<phase, error, newMagic, cow>>

X86Unsupported ==
    /\ Scanning("x86") /\ cursor < Asm
    /\ template[cursor].op \in {"call", "jump"}
    /\ ~Pairs(cursor)
    /\ Panic("UnsupportedInstruction")

(* The offset THUNK_CODE_OFFSET from the magic constants is reached.       *)
X86ReachAsm ==
    /\ Scanning("x86") /\ cursor = Asm
    /\ IF extra = <<>>
       THEN Return(cow, magic)
       ELSE /\ phase' = "encode"
            /\ cursor' = 1
            /\ UNCHANGED <<error, newMagic, extra, cow>>

(* The slice between two pairs is copied, and the second one encoded.      *)
X86Encode ==
    /\ phase = "encode"
    /\ cursor <= Len(extra)
    /\ LET pair == extra[cursor]
           moved == AppendBytes(cow, pair.at, "mov", MovLen, pair.addr)
       IN  cow' = Ignore(moved, pair.at, pair.len)
    /\ cursor' = cursor + 1
    /\ UNCHANGED <<phase, error, newMagic, extra>>

\* Faulty: the constants are taken to be where they were.
X86MagicKept(b) == magic
(* The copy has lost as many bytes in front of the constants.              *)
X86Magic(b) == magic + IntoBytes(b, TemplateLen).len - TemplateLen

X86Finish ==
    /\ phase = "encode"
    /\ cursor > Len(extra)
    /\ Return(cow, X86Magic(cow))

RelocateX86 ==
    /\ \/ X86Invalid \/ X86Next \/ X86CallPop \/ X86Unsupported
       \/ X86ReachAsm \/ X86Encode \/ X86Finish
    /\ UNCHANGED <<templateVars, magic, blockVars, runVars>>
=============================================================================
