----------------------------- MODULE SafeJitInv -----------------------------
(***************************************************************************)
(* The inductive invariant of SafeJit: what holds of the buffer and of the *)
(* loads put aside between the steps of a relocation.                      *)
(***************************************************************************)
EXTENDS SafeJit

(* The template is the compiler's, and offsets add up its instructions.    *)
LayoutInv ==
    /\ mode \in Modes /\ pc \in Pcs[mode] /\ asmCode \in AsmCode[mode]
    /\ template \in Seq(Instructions[mode])
    /\ start \in Seq(Nat) /\ Len(start) = Asm
    /\ \A i \in Prologue : start[i] + template[i].len = start[i + 1]
    /\ \A i, j \in 1..Asm : i < j => start[i] < start[j]

(* Until the constants are found nothing else happens.                     *)
SearchInv ==
    /\ phase \in {"compile", "search"} =>
          cow = NewBuffer /\ extra = <<>> /\ cursor = 1 /\ newMagic = 0
    /\ phase = "search" =>
          /\ magic \in Nat /\ magic <= MagicAt
          /\ (pc + magic) % MagicAlign[mode] = 0
    /\ phase \notin {"compile", "search"} => magic = MagicAt

(* Pieces follow each other; on Arm code only moves up.                    *)
Shaped(b) ==
    /\ b \in Buffer
    /\ \A p \in b.pieces : p.at + p.len <= b.len
    /\ \A p, r \in b.pieces : p # r => p.at + p.len <= r.at \/ r.at + r.len <= p.at

MovesUp(b) ==
    mode # "x86" =>
        /\ b.copied <= b.len
        /\ \A p \in b.pieces : p.kind = "copy" => p.src <= p.at

(* Literals are as far from the constants as their alignment asks.         *)
Spaced(b, m) ==
    \A p \in b.pieces : p.kind = "literal" => (p.at - m) % MagicAlign[mode] = 0

Unpooled(b) == \A p \in b.pieces : p.kind # "literal"

(* What the loop over the instructions keeps.                              *)
InStep ==
    /\ cow.copied <= start[Asm]
    /\ cow.len = 0 => cow.copied = 0
    /\ newMagic = magic + cow.len - cow.copied
    /\ Unpooled(cow)

(* No branch of the template goes back.                                    *)
NeverBack == \A i \in Prologue : template[i].op = "b" /\ Inside(i) => template[i].to > i

ScanInv ==
    phase = "scan" =>
        /\ cursor \in 1..Asm
        /\ mode = "a64" \/ NeverBack => cow.copied <= start[cursor]
        /\ InStep
        /\ mode # "x86" => \A k \in DOMAIN extra : extra[k].at < cow.len
        /\ mode = "x86" =>
              /\ cow = NewBuffer
              /\ \A k \in DOMAIN extra : extra[k].at + extra[k].len <= start[cursor]

(* The pairs on x86 are found in the order of their offsets.               *)
PairsInv ==
    mode = "x86" =>
        /\ \A k \in DOMAIN extra : extra[k].at + extra[k].len <= start[Asm]
        /\ \A j, k \in DOMAIN extra : j < k => extra[j].at + extra[j].len <= extra[k].at

EncodeInv ==
    phase = "encode" =>
        /\ mode = "x86"
        /\ cow.copied <= start[Asm]
        /\ cow.len = 0 => cow.copied = 0
        /\ Unpooled(cow)
        /\ cursor \in DOMAIN extra => cow.copied <= extra[cursor].at

PoolInv ==
    phase = "pool" =>
        /\ mode # "x86"
        /\ InStep
        /\ \A k \in DOMAIN extra : extra[k].at < cow.len

(* A piece that holds the block, and its place.                            *)
IsBlock(p, m) ==
    /\ p.kind = "copy" /\ p.src <= start[Asm]
    /\ p.src + p.len = TemplateLen
    /\ p.at + (magic - p.src) = m

LiteralsInv ==
    phase = "literals" =>
        /\ mode # "x86"
        /\ cow.copied = TemplateLen
        /\ cow.len > 0
        /\ (cow.len - newMagic) % WordSize = 0
        /\ Spaced(cow, newMagic)
        /\ \E p \in cow.pieces :
              IsBlock(p, newMagic) /\ \A k \in DOMAIN extra : extra[k].at < p.at

DoneInv ==
    phase \in {"alloc", "run"} =>
        /\ Spaced(cow, newMagic)
        /\ \E p \in cow.pieces : IsBlock(p, newMagic)

PlacedInv == phase = "run" => block \in Memory /\ thunk = Place(block)

JitInv ==
    /\ TypeOK /\ LayoutInv /\ SearchInv
    /\ Shaped(cow) /\ MovesUp(cow)
    /\ ScanInv /\ PairsInv /\ EncodeInv /\ PoolInv /\ LiteralsInv /\ DoneInv /\ PlacedInv
    /\ PanicsExplained
=============================================================================
