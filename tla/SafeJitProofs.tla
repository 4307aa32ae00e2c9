---------------------------- MODULE SafeJitProofs ---------------------------
(***************************************************************************)
(* Proofs about AllocatedThunk::new and the relocators of x86, AArch64 and *)
(* Arm, for prologues of any length, placed anywhere: the magic constants  *)
(* are found, the block follows the prologue in the copy and finds its     *)
(* pointers there, the copy fits its allocation, and nothing is refused    *)
(* without a reason.                                                       *)
(***************************************************************************)
EXTENDS SafeJitInv, TLAPS

USE ModesAssumption

-----------------------------------------------------------------------------
(* Numbers *)

LEMMA AlignOffsetRight ==
    ASSUME NEW a \in Int, NEW n \in {4, 8}
    PROVE  /\ AlignOffset(a, n) \in 0..(n - 1)
           /\ (a + AlignOffset(a, n)) % n = 0
  <1>1. CASE n = 4
    BY <1>1 DEF AlignOffset
  <1>2. CASE n = 8
    BY <1>2 DEF AlignOffset
  <1> QED BY <1>1, <1>2

(* Of the numbers aligned from a on, the offset gives the first.           *)
LEMMA AlignOffsetLeast ==
    ASSUME NEW a \in Int, NEW n \in {4, 8}, NEW d \in Nat, (a + d) % n = 0
    PROVE  AlignOffset(a, n) <= d
  <1>1. CASE n = 4
    BY <1>1 DEF AlignOffset
  <1>2. CASE n = 8
    BY <1>2 DEF AlignOffset
  <1> QED BY <1>1, <1>2

(* Two aligned numbers are a whole step apart.                             *)
LEMMA AlignedApart ==
    ASSUME NEW a \in Int, NEW n \in {4, 8}, NEW d \in Int, NEW e \in Int,
           (a + d) % n = 0, (a + e) % n = 0, d < e
    PROVE  d + n <= e /\ (a + (d + n)) % n = 0
  <1>1. CASE n = 4
    BY <1>1
  <1>2. CASE n = 8
    BY <1>2
  <1> QED BY <1>1, <1>2

LEMMA EightFour ==
    ASSUME NEW a \in Int, a % 8 = 0
    PROVE  a % 4 = 0
  <1>1. a = 8 * (a \div 8)
    OBVIOUS
  <1>2. a \div 8 \in Int
    OBVIOUS
  <1>3. \A k \in Int : (8 * k) % 4 = 0
    OBVIOUS
  <1> QED BY <1>1, <1>2, <1>3

LEMMA SignedInt ==
    ASSUME NEW v \in Int, NEW n \in Nat, n > 0
    PROVE  Signed(v, n) \in Int
  BY DEF Signed

-----------------------------------------------------------------------------
(* The buffer *)

(* What a step adds is of one kind; the rest stays as it was.              *)
Grows(b, c) == \A p \in c.pieces : p.kind = "literal" => p \in b.pieces

LEMMA PushRight ==
    ASSUME NEW b, Shaped(b), NEW kind \in PieceKinds, NEW n \in Nat, n > 0,
           NEW src \in Nat, NEW arg \in Int
    PROVE  /\ Shaped(Push(b, kind, n, src, arg))
           /\ Push(b, kind, n, src, arg).len = b.len + n
           /\ Push(b, kind, n, src, arg).copied = b.copied
           /\ Push(b, kind, n, src, arg).pieces =
                b.pieces \cup {[kind |-> kind, at |-> b.len, len |-> n, src |-> src, arg |-> arg]}
  <1> DEFINE new == [kind |-> kind, at |-> b.len, len |-> n, src |-> src, arg |-> arg]
             c == Push(b, kind, n, src, arg)
  <1>1. b \in Buffer
    BY DEF Shaped
  <1>2. new \in Piece
    BY <1>1 DEF Piece, Buffer
  <1>3. c = [pieces |-> b.pieces \cup {new}, len |-> b.len + n, copied |-> b.copied]
    BY <1>1 DEF Push, Buffer
  <1>4. c \in Buffer
    BY <1>1, <1>2, <1>3 DEF Buffer
  <1>5. \A p \in b.pieces : p \in Piece /\ p.at + p.len <= b.len
    BY <1>1 DEF Buffer, Shaped
  <1>6. \A p \in c.pieces : p.at + p.len <= c.len
    BY <1>1, <1>3, <1>5 DEF Buffer, Piece
  <1>7. \A p, r \in c.pieces : p # r => p.at + p.len <= r.at \/ r.at + r.len <= p.at
    BY <1>3, <1>5 DEF Shaped
  <1> QED BY <1>3, <1>4, <1>6, <1>7 DEF Shaped

LEMMA CopyUpToRight ==
    ASSUME NEW b, Shaped(b), NEW offset \in Nat, b.copied <= offset
    PROVE  /\ Shaped(CopyUpTo(b, offset))
           /\ CopyUpTo(b, offset).len = b.len + offset - b.copied
           /\ CopyUpTo(b, offset).copied = offset
           /\ Grows(b, CopyUpTo(b, offset))
           /\ MovesUp(b) => MovesUp(CopyUpTo(b, offset))
           /\ b.pieces \subseteq CopyUpTo(b, offset).pieces
           /\ b.copied < offset =>
                 [kind |-> "copy", at |-> b.len, len |-> offset - b.copied,
                  src |-> b.copied, arg |-> 0] \in CopyUpTo(b, offset).pieces
  <1>1. b \in Buffer /\ b.len \in Nat /\ b.copied \in Nat
    BY DEF Shaped, Buffer
  <1>2. CASE offset = b.copied
    BY <1>1, <1>2 DEF CopyUpTo, Grows
  <1>3. CASE offset # b.copied
    <2> DEFINE p == Push(b, "copy", offset - b.copied, b.copied, 0)
               new == [kind |-> "copy", at |-> b.len, len |-> offset - b.copied,
                       src |-> b.copied, arg |-> 0]
               c == CopyUpTo(b, offset)
    <2>0. offset - b.copied \in Nat /\ offset - b.copied > 0 /\ "copy" \in PieceKinds
      BY <1>1, <1>3 DEF PieceKinds
    <2>1. /\ Shaped(p) /\ p.len = b.len + (offset - b.copied) /\ p.copied = b.copied
          /\ p.pieces = b.pieces \cup {new}
      BY <1>1, <2>0, PushRight
    <2>2. c = [pieces |-> p.pieces, len |-> p.len, copied |-> offset]
      BY <1>3 DEF CopyUpTo, SkipTo
    <2>3. Shaped(c)
      BY <2>1, <2>2 DEF Shaped, Buffer
    <2>4. Grows(b, c)
      BY <2>1, <2>2 DEF Grows
    <2>5. MovesUp(b) => MovesUp(c)
      BY <1>1, <2>1, <2>2 DEF MovesUp
    <2> QED BY <1>1, <2>1, <2>2, <2>3, <2>4, <2>5
  <1> QED BY <1>2, <1>3

LEMMA AppendRight ==
    ASSUME NEW b, Shaped(b), NEW offset \in Nat, b.copied <= offset,
           NEW kind \in PieceKinds \ {"copy", "literal"}, NEW n \in Nat, n > 0,
           NEW arg \in Int
    PROVE  /\ Shaped(AppendBytes(b, offset, kind, n, arg))
           /\ AppendBytes(b, offset, kind, n, arg).len = b.len + offset - b.copied + n
           /\ AppendBytes(b, offset, kind, n, arg).copied = offset
           /\ Grows(b, AppendBytes(b, offset, kind, n, arg))
           /\ MovesUp(b) => MovesUp(AppendBytes(b, offset, kind, n, arg))
  <1> DEFINE c == CopyUpTo(b, offset)
             d == Push(c, kind, n, offset, arg)
  <1>1. /\ Shaped(c) /\ c.len = b.len + offset - b.copied /\ c.copied = offset
        /\ Grows(b, c) /\ (MovesUp(b) => MovesUp(c))
    BY CopyUpToRight
  <1>2. /\ Shaped(d) /\ d.len = c.len + n /\ d.copied = c.copied
        /\ d.pieces = c.pieces \cup {[kind |-> kind, at |-> c.len, len |-> n,
                                     src |-> offset, arg |-> arg]}
    BY <1>1, PushRight
  <1>3. d = AppendBytes(b, offset, kind, n, arg)
    BY DEF AppendBytes
  <1>4. Grows(b, d)
    BY <1>1, <1>2 DEF Grows
  <1>5. c.len \in Nat
    BY <1>1 DEF Shaped, Buffer
  <1>6. MovesUp(b) => MovesUp(d)
    BY <1>1, <1>2, <1>5 DEF MovesUp
  <1> HIDE DEF c, d
  <1> QED BY <1>1, <1>2, <1>3, <1>4, <1>6

(* Bytes left out where the buffer has come to.                            *)
LEMMA SkipRight ==
    ASSUME NEW b, Shaped(b), NEW offset \in Nat, b.copied <= offset
    PROVE  /\ Shaped(SkipTo(b, offset))
           /\ SkipTo(b, offset).len = b.len
           /\ SkipTo(b, offset).copied = offset
           /\ Grows(b, SkipTo(b, offset))
           /\ MovesUp(b) /\ (mode # "x86" => offset <= b.len) => MovesUp(SkipTo(b, offset))
  BY DEF SkipTo, Shaped, Buffer, Grows, MovesUp

LEMMA FillHoleRight ==
    ASSUME NEW b, Shaped(b), NEW at0 \in Nat, NEW arg \in Int
    PROVE  /\ Shaped(FillHole(b, at0, arg))
           /\ FillHole(b, at0, arg).len = b.len
           /\ FillHole(b, at0, arg).copied = b.copied
           /\ Grows(b, FillHole(b, at0, arg))
           /\ MovesUp(b) => MovesUp(FillHole(b, at0, arg))
           /\ \A p \in b.pieces : p.at # at0 => p \in FillHole(b, at0, arg).pieces
  <1> DEFINE c == FillHole(b, at0, arg)
  <1>1. b \in Buffer /\ b.pieces \subseteq Piece
    BY DEF Shaped, Buffer
  <1>2. c.pieces = {Filled(p, at0, arg) : p \in b.pieces} /\ c.len = b.len /\ c.copied = b.copied
    BY DEF FillHole
  <1>3. ASSUME NEW p \in b.pieces
        PROVE  /\ Filled(p, at0, arg) \in Piece
               /\ Filled(p, at0, arg).at = p.at /\ Filled(p, at0, arg).len = p.len
               /\ Filled(p, at0, arg).src = p.src
               /\ Filled(p, at0, arg) = p \/ Filled(p, at0, arg).kind = "ldr"
               /\ p.at # at0 => Filled(p, at0, arg) = p
    <2>1. p \in Piece
      BY <1>1
    <2>2. CASE p.at = at0
      BY <2>1, <2>2 DEF Filled, Piece, PieceKinds
    <2>3. CASE p.at # at0
      BY <2>1, <2>3 DEF Filled
    <2> QED BY <2>2, <2>3
  <1>4. c \in Buffer
    <2>1. c = [pieces |-> c.pieces, len |-> b.len, copied |-> b.copied]
      BY <1>2 DEF FillHole
    <2>2. c.pieces \subseteq Piece
      BY <1>2, <1>3
    <2> HIDE DEF c
    <2> QED BY <1>1, <2>1, <2>2 DEF Buffer
  <1>5. \A p \in c.pieces : p.at + p.len <= c.len
    BY <1>2, <1>3 DEF Shaped
  <1>6. \A p, r \in c.pieces : p # r => p.at + p.len <= r.at \/ r.at + r.len <= p.at
    BY <1>2, <1>3 DEF Shaped
  <1>7. Grows(b, c)
    BY <1>2, <1>3 DEF Grows
  <1>8. MovesUp(b) => MovesUp(c)
    BY <1>2, <1>3 DEF MovesUp
  <1>9. \A p \in b.pieces : p.at # at0 => p \in c.pieces
    BY <1>2, <1>3
  <1> QED BY <1>2, <1>4, <1>5, <1>6, <1>7, <1>8, <1>9 DEF Shaped

LEMMA NewBufferShaped ==
    Shaped(NewBuffer) /\ MovesUp(NewBuffer) /\ NewBuffer.pieces = {}
    /\ NewBuffer.len = 0 /\ NewBuffer.copied = 0
  BY DEF NewBuffer, Shaped, MovesUp, Buffer

LEMMA IntoBytesRight ==
    ASSUME NEW b, Shaped(b), MovesUp(b), NEW total \in Nat, b.copied <= total,
           b.len = 0 => b.copied = 0
    PROVE  /\ Shaped(IntoBytes(b, total)) /\ MovesUp(IntoBytes(b, total))
           /\ IntoBytes(b, total).len = b.len + total - b.copied
           /\ Grows(b, IntoBytes(b, total))
           /\ b.copied < total =>
                 [kind |-> "copy", at |-> b.len, len |-> total - b.copied,
                  src |-> b.copied, arg |-> 0] \in IntoBytes(b, total).pieces
           /\ b.len # 0 => b.pieces \subseteq IntoBytes(b, total).pieces
  <1>1. CASE b.len = 0
    BY <1>1, CopyUpToRight, NewBufferShaped DEF IntoBytes, Grows
  <1>2. CASE b.len # 0
    BY <1>2, CopyUpToRight DEF IntoBytes
  <1> QED BY <1>1, <1>2

-----------------------------------------------------------------------------
(* The template *)

LEMMA Layout ==
    ASSUME LayoutInv
    PROVE  /\ mode \in Modes /\ mode \in {"x86", "a64", "arm", "thumb"}
           /\ pc \in Nat /\ asmCode \in Nat /\ asmCode > 0
           /\ MagicAlign[mode] \in {4, 8}
           /\ Len(template) \in Nat /\ Asm \in Nat /\ Asm > 0
           /\ \A i \in Prologue : template[i] \in Instruction /\ i \in 1..Asm
           /\ \A i \in 1..Asm : start[i] \in Nat /\ start[i] <= start[Asm]
  <1>1. /\ mode \in {"x86", "a64", "arm", "thumb"} /\ pc \in Nat
        /\ asmCode \in Nat /\ asmCode > 0 /\ MagicAlign[mode] \in {4, 8}
    BY TemplateAssumption DEF LayoutInv
  <1>2. Len(template) \in Nat /\ Asm \in Nat /\ Asm > 0
    BY DEF LayoutInv, Asm
  <1>3. \A i \in Prologue : template[i] \in Instruction /\ i \in 1..Asm
    <2> TAKE i \in Prologue
    <2>1. i \in 1..Len(template)
      BY DEF Prologue
    <2>2. template[i] \in Instructions[mode]
      BY <2>1 DEF LayoutInv
    <2> QED BY <1>2, <2>1, <2>2, TemplateAssumption DEF LayoutInv, Asm
  <1>4. \A i \in 1..Asm : start[i] \in Nat /\ start[i] <= start[Asm]
    <2> TAKE i \in 1..Asm
    <2>1. start[i] \in Nat /\ start[Asm] \in Nat
      BY <1>2 DEF LayoutInv
    <2>2. i = Asm \/ i < Asm
      BY <1>2
    <2> QED BY <1>2, <2>1, <2>2 DEF LayoutInv
  <1> QED BY <1>1, <1>2, <1>3, <1>4 DEF LayoutInv

(* The constants are behind the block's code, at an aligned address.       *)
LEMMA MagicAtRight ==
    ASSUME LayoutInv
    PROVE  /\ start[Asm] \in Nat /\ AsmStart \in Nat /\ start[Asm] <= AsmStart
           /\ MagicAt \in Nat /\ AsmStart < MagicAt
           /\ (pc + MagicAt) % MagicAlign[mode] = 0
           /\ mode = "x86" => MagicAt = AsmStart + 16
  <1>1. /\ start[Asm] \in Nat /\ pc \in Nat /\ asmCode \in Nat /\ asmCode > 0
        /\ MagicAlign[mode] \in {4, 8} /\ mode \in Modes
    BY Layout
  <1>0. pc + start[Asm] \in Int /\ 8 \in {4, 8}
    BY <1>1
  <1> DEFINE o == AlignOffset(pc + start[Asm], 8)
  <1>a. o \in 0..7 /\ ((pc + start[Asm]) + o) % 8 = 0
    BY <1>0, AlignOffsetRight
  <1>b. AsmStart = IF mode = "x86" THEN start[Asm] + o ELSE start[Asm]
    BY DEF AsmStart
  <1> HIDE DEF o
  <1>2. AsmStart \in Nat /\ start[Asm] <= AsmStart
    BY <1>1, <1>a, <1>b
  <1> DEFINE end == AsmStart + asmCode
  <1>3. end \in Nat /\ pc + end \in Int
    BY <1>1, <1>2
  <1>4. /\ AlignOffset(pc + end, MagicAlign[mode]) \in 0..(MagicAlign[mode] - 1)
        /\ (pc + end + AlignOffset(pc + end, MagicAlign[mode])) % MagicAlign[mode] = 0
    BY <1>1, <1>3, AlignOffsetRight
  <1>5. MagicAt = end + AlignOffset(pc + end, MagicAlign[mode])
    BY DEF MagicAt
  <1>6. MagicAt \in Nat /\ AsmStart < MagicAt
    BY <1>1, <1>2, <1>4, <1>5
  <1>7. pc + MagicAt = pc + end + AlignOffset(pc + end, MagicAlign[mode])
    BY <1>1, <1>3, <1>4, <1>5
  <1>8. ASSUME mode = "x86" PROVE MagicAt = AsmStart + 16
    <2>1. asmCode = 16
      BY <1>1, <1>8, ArchitectureAssumption DEF LayoutInv
    <2>2. AsmStart = start[Asm] + o
      BY <1>8, <1>b
    <2>3. pc + AsmStart = (pc + start[Asm]) + o
      BY <1>1, <1>a, <2>2
    <2>4. (pc + AsmStart) % 8 = 0
      BY <1>a, <2>3
    <2>5. (pc + end) % 8 = 0
      <3>1. pc + end = (pc + AsmStart) + 16 /\ pc + AsmStart \in Int
        BY <1>1, <1>2, <2>1
      <3>2. \A a \in Int : a % 8 = 0 => (a + 16) % 8 = 0
        OBVIOUS
      <3> QED BY <2>4, <3>1, <3>2
    <2>6. (pc + end + 0) % MagicAlign[mode] = 0
      <3>1. CASE MagicAlign[mode] = 8
        BY <1>3, <2>5, <3>1
      <3>2. CASE MagicAlign[mode] = 4
        <4>1. (pc + end) % 4 = 0
          BY <1>3, <2>5, EightFour
        <4>2. pc + end + 0 = pc + end
          BY <1>3
        <4> QED BY <3>2, <4>1, <4>2
      <3> QED BY <1>1, <3>1, <3>2
    <2>7. AlignOffset(pc + end, MagicAlign[mode]) <= 0
      BY <1>1, <1>3, <2>6, AlignOffsetLeast
    <2> QED BY <1>1, <1>2, <1>4, <1>5, <2>1, <2>7
  <1> QED BY <1>1, <1>2, <1>4, <1>6, <1>7, <1>8

(* Only Compile changes the template.                                      *)
LEMMA LayoutStays ==
    ASSUME UNCHANGED templateVars
    PROVE  /\ LayoutInv <=> LayoutInv'
           /\ Asm' = Asm /\ Prologue' = Prologue /\ MagicAt' = MagicAt
           /\ AsmStart' = AsmStart /\ WordSize' = WordSize /\ ExtraSize' = ExtraSize
           /\ NeverBack' <=> NeverBack
  BY DEF templateVars, LayoutInv, Asm, Prologue, MagicAt, AsmStart, WordSize, ExtraSize,
         NeverBack, Inside

-----------------------------------------------------------------------------
(* The compiler and the search *)

Put == [at : Nat, len : Nat, addr : Int]

Phases ==
    {"compile", "search", "scan", "encode", "pool", "literals", "alloc", "run", "panicked"}

Errors ==
    {"none", "InvalidInstruction", "UnsupportedInstruction", "NoThunkAsm",
     "EncodingError", "Slice"}

LEMMA InitRight ==
    ASSUME Init
    PROVE  JitInv
  <1>1. Asm = 1 /\ Prologue = {}
    BY DEF Init, Asm, Prologue
  <1>2. LayoutInv
    BY <1>1 DEF Init, LayoutInv
  <1>3. pc \in Nat /\ asmCode \in Nat \ {0}
    BY <1>2, Layout
  <1>4. TypeOK
    BY <1>1, <1>2, <1>3, NewBufferShaped, TemplateAssumption
    DEF Init, TypeOK, LayoutInv, Shaped
  <1>5. SearchInv /\ Shaped(cow) /\ MovesUp(cow)
    BY NewBufferShaped DEF Init, SearchInv
  <1>6. /\ ScanInv /\ PairsInv /\ EncodeInv /\ PoolInv /\ LiteralsInv /\ DoneInv
        /\ PlacedInv /\ PanicsExplained
    BY DEF Init, ScanInv, PairsInv, EncodeInv, PoolInv, LiteralsInv, DoneInv, PlacedInv,
           PanicsExplained
  <1> QED BY <1>2, <1>4, <1>5, <1>6 DEF JitInv

(* The phases before the relocation have nothing to keep but the layout.   *)
LEMMA BeforeRelocation ==
    ASSUME phase' \in {"compile", "search"}, extra' = <<>>
    PROVE  /\ ScanInv' /\ PairsInv' /\ EncodeInv' /\ PoolInv' /\ LiteralsInv' /\ DoneInv'
           /\ PlacedInv' /\ PanicsExplained'
  BY DEF ScanInv, PairsInv, EncodeInv, PoolInv, LiteralsInv, DoneInv, PlacedInv,
         PanicsExplained

LEMMA CompileRight ==
    ASSUME JitInv, Compile
    PROVE  JitInv'
  <1> USE DEF JitInv
  <1>1. PICK i \in Instructions[mode] :
          template' = Append(template, i) /\ start' = Append(start, start[Asm] + i.len)
    BY DEF Compile
  <1>2. /\ phase = "compile" /\ phase' = "compile"
        /\ UNCHANGED <<mode, pc, asmCode, error, magic, newMagic, cursor, extra, cow,
                      block, thunk, at, ip>>
    BY DEF Compile, relocVars, blockVars, runVars
  <1>3. i \in Instruction /\ i.len \in Nat /\ i.len > 0
    BY TemplateAssumption DEF LayoutInv, Instruction
  <1>4. /\ start[Asm] \in Nat /\ Asm \in Nat /\ Asm = Len(template) + 1
        /\ Len(template) \in Nat /\ Len(start) = Asm
    BY Layout DEF Asm, LayoutInv
  <1>5. template' \in Seq(Instructions[mode]) /\ Len(template') = Asm /\ Asm' = Asm + 1
    BY <1>1, <1>4 DEF LayoutInv, Asm
  <1>6. start' \in Seq(Nat) /\ Len(start') = Asm'
    BY <1>1, <1>3, <1>4, <1>5 DEF LayoutInv
  <1>7. /\ \A k \in 1..Asm : start'[k] = start[k]
        /\ start'[Asm'] = start[Asm] + i.len
        /\ \A k \in Prologue : template'[k] = template[k]
        /\ template'[Asm] = i
    BY <1>1, <1>3, <1>4, <1>5 DEF LayoutInv, Prologue
  <1>8. Prologue' = 1..Asm
    BY <1>5 DEF Prologue
  <1>9. ASSUME NEW k \in Prologue'
        PROVE  start'[k] + template'[k].len = start'[k + 1]
    <2>1. CASE k = Asm
      BY <1>4, <1>5, <1>7, <2>1
    <2>2. CASE k # Asm
      <3>1. k \in Prologue /\ k \in 1..Asm /\ k + 1 \in 1..Asm
        BY <1>4, <1>8, <1>9, <2>2 DEF Prologue
      <3> QED BY <1>7, <3>1 DEF LayoutInv
    <2> QED BY <2>1, <2>2
  <1>10. ASSUME NEW j \in 1..Asm', NEW k \in 1..Asm', j < k
         PROVE  start'[j] < start'[k]
    <2>1. CASE k = Asm'
      <3>1. j \in 1..Asm
        BY <1>4, <1>5, <1>10, <2>1
      <3>2. start[j] \in Nat /\ start[j] <= start[Asm]
        BY <3>1, Layout
      <3> QED BY <1>3, <1>4, <1>7, <2>1, <3>1, <3>2
    <2>2. CASE k # Asm'
      <3>1. j \in 1..Asm /\ k \in 1..Asm
        BY <1>4, <1>5, <1>10, <2>2
      <3> QED BY <1>7, <1>10, <3>1 DEF LayoutInv
    <2> QED BY <2>1, <2>2
  <1>11. LayoutInv'
    BY <1>2, <1>5, <1>6, <1>9, <1>10 DEF LayoutInv
  <1>12. SearchInv'
    BY <1>2 DEF SearchInv
  <1>13. template' \in Seq(Instruction)
    BY <1>1, <1>3 DEF TypeOK
  <1>14. TypeOK'
    <2>1. at' \in 1..Asm'
      BY <1>2, <1>4, <1>5 DEF TypeOK
    <2> QED BY <1>2, <1>5, <1>6, <1>13, <2>1 DEF TypeOK
  <1>15. Shaped(cow)' /\ MovesUp(cow)'
    BY <1>2 DEF MovesUp, Shaped
  <1>16. phase' \in {"compile", "search"} /\ extra' = <<>>
    BY <1>2 DEF SearchInv
  <1> QED BY <1>11, <1>12, <1>14, <1>15, <1>16, BeforeRelocation

LEMMA BeginSearchRight ==
    ASSUME JitInv, BeginSearch
    PROVE  JitInv'
  <1> USE DEF JitInv
  <1>1. /\ phase = "compile" /\ phase' = "search" /\ magic' = AlignOffset(pc, MagicAlign[mode])
        /\ UNCHANGED <<templateVars, error, newMagic, cursor, extra, cow, block, thunk, at, ip>>
    BY DEF BeginSearch, SearchFrom, relocVars, blockVars, runVars
  <1>2. pc \in Nat /\ MagicAlign[mode] \in {4, 8}
    BY Layout
  <1>3. magic' \in 0..(MagicAlign[mode] - 1) /\ (pc + magic') % MagicAlign[mode] = 0
    <2> DEFINE n == MagicAlign[mode]
    <2>1. n \in {4, 8} /\ pc \in Int /\ magic' = AlignOffset(pc, n)
      BY <1>1, <1>2
    <2> HIDE DEF n
    <2>2. magic' \in 0..(n - 1) /\ (pc + magic') % n = 0
      BY <2>1, AlignOffsetRight
    <2> QED BY <2>2 DEF n
  <1>4. magic' \in Nat
    BY <1>2, <1>3
  <1>5. MagicAt \in Nat /\ (pc + MagicAt) % MagicAlign[mode] = 0
    BY MagicAtRight
  <1>6. magic' <= MagicAt
    BY <1>1, <1>2, <1>5, AlignOffsetLeast
  <1>7. LayoutInv' /\ MagicAt' = MagicAt /\ Asm' = Asm
    BY <1>1, LayoutStays
  <1>8. SearchInv'
    BY <1>1, <1>3, <1>4, <1>6, <1>7 DEF SearchInv, templateVars
  <1>9. TypeOK'
    BY <1>1, <1>4, <1>7 DEF TypeOK, templateVars
  <1>10. Shaped(cow)' /\ MovesUp(cow)'
    BY <1>1 DEF MovesUp, Shaped, templateVars
  <1>11. phase' \in {"compile", "search"} /\ extra' = <<>>
    BY <1>1 DEF SearchInv
  <1> QED BY <1>7, <1>8, <1>9, <1>10, <1>11, BeforeRelocation

(* A step of the search stays in front of the constants, or finds them.    *)
LEMMA SearchMagicRight ==
    ASSUME JitInv, SearchMagic
    PROVE  JitInv'
  <1> USE DEF JitInv
  <1>1. /\ phase = "search"
        /\ UNCHANGED <<templateVars, error, cursor, extra, cow, block, thunk, at, ip>>
    BY DEF SearchMagic, blockVars, runVars
  <1>2. /\ pc \in Nat /\ MagicAlign[mode] \in {4, 8} /\ MagicAt \in Nat
        /\ (pc + MagicAt) % MagicAlign[mode] = 0
    BY Layout, MagicAtRight
  <1>3. /\ magic \in Nat /\ magic <= MagicAt /\ (pc + magic) % MagicAlign[mode] = 0
        /\ cow = NewBuffer /\ extra = <<>> /\ cursor = 1 /\ newMagic = 0
    BY <1>1 DEF SearchInv
  <1>4. LayoutInv' /\ MagicAt' = MagicAt /\ Asm' = Asm
    BY <1>1, LayoutStays
  <1>5. Shaped(cow)' /\ MovesUp(cow)'
    BY <1>1 DEF MovesUp, Shaped, templateVars
  <1>6. CASE magic # MagicAt
    <2>1. phase' = "search" /\ magic' = magic + MagicAlign[mode] /\ newMagic' = newMagic
      BY <1>1, <1>6 DEF SearchMagic
    <2>2. magic' <= MagicAt /\ (pc + magic') % MagicAlign[mode] = 0
      <3> DEFINE n == MagicAlign[mode]
      <3>1. /\ n \in {4, 8} /\ pc \in Int /\ magic \in Int /\ MagicAt \in Int
            /\ (pc + magic) % n = 0 /\ (pc + MagicAt) % n = 0 /\ magic < MagicAt
            /\ magic' = magic + n
        BY <1>2, <1>3, <1>6, <2>1
      <3> HIDE DEF n
      <3>2. magic + n <= MagicAt /\ (pc + (magic + n)) % n = 0
        BY <3>1, AlignedApart
      <3> QED BY <3>1, <3>2 DEF n
    <2>3. magic' \in Nat
      BY <1>2, <1>3, <2>1
    <2>4. SearchInv'
      BY <1>1, <1>3, <1>4, <2>1, <2>2, <2>3 DEF SearchInv, templateVars
    <2>5. TypeOK'
      BY <1>1, <1>4, <2>1, <2>3 DEF TypeOK, templateVars
    <2>6. phase' \in {"compile", "search"} /\ extra' = <<>>
      BY <1>1, <1>3, <2>1
    <2> QED BY <1>4, <1>5, <2>4, <2>5, <2>6, BeforeRelocation
  <1>7. CASE magic = MagicAt
    <2>1. phase' = "scan" /\ magic' = magic /\ newMagic' = magic
      BY <1>1, <1>7 DEF SearchMagic
    <2>2. SearchInv'
      BY <1>4, <1>7, <2>1 DEF SearchInv
    <2>3. TypeOK'
      BY <1>1, <1>3, <1>4, <2>1 DEF TypeOK, templateVars
    <2>4. Asm \in Nat /\ Asm > 0 /\ start[1] \in Nat /\ start[Asm] \in Nat
      BY Layout
    <2>5. cow' = NewBuffer /\ extra' = <<>> /\ cursor' = 1 /\ start' = start /\ mode' = mode
      BY <1>1, <1>3 DEF templateVars
    <2>6. ScanInv'
      BY <1>3, <1>4, <2>1, <2>4, <2>5, NewBufferShaped DEF ScanInv, InStep, Unpooled
    <2>7. /\ PairsInv' /\ EncodeInv' /\ PoolInv' /\ LiteralsInv' /\ DoneInv' /\ PlacedInv'
          /\ PanicsExplained'
      BY <2>1, <2>5 DEF PairsInv, EncodeInv, PoolInv, LiteralsInv, DoneInv, PlacedInv,
                        PanicsExplained
    <2> QED BY <1>4, <1>5, <2>2, <2>3, <2>6, <2>7
  <1> QED BY <1>6, <1>7

-----------------------------------------------------------------------------
(* Ways a step of a relocation ends *)

RelocPhases == {"scan", "encode", "pool", "literals"}

Static == UNCHANGED <<templateVars, magic, blockVars, runVars>>

LEMMA RelocationStep ==
    ASSUME JitInv, Static, phase \in RelocPhases,
           phase' \in RelocPhases \cup {"alloc", "panicked"}, error' \in Errors,
           newMagic' \in Nat, cursor' \in Nat \ {0}, extra' \in Seq(Put),
           Shaped(cow'), MovesUp(cow'),
           ScanInv', PairsInv', EncodeInv', PoolInv', LiteralsInv', DoneInv', PanicsExplained'
    PROVE  JitInv'
  <1> USE DEF JitInv
  <1>1. /\ UNCHANGED templateVars
        /\ UNCHANGED <<mode, pc, asmCode, template, start, magic, block, thunk, at, ip>>
    BY DEF Static, templateVars, blockVars, runVars
  <1>2. LayoutInv' /\ MagicAt' = MagicAt /\ Asm' = Asm
    BY <1>1, LayoutStays
  <1>3. phase \notin {"compile", "search"} /\ phase' \notin {"compile", "search", "run"}
    BY DEF RelocPhases
  <1>4. SearchInv'
    BY <1>1, <1>2, <1>3 DEF SearchInv
  <1>5. cow' \in Buffer
    BY DEF Shaped
  <1>6. TypeOK'
    BY <1>1, <1>2, <1>5 DEF TypeOK, RelocPhases, Errors, Put
  <1>7. Shaped(cow)' /\ MovesUp(cow)'
    BY <1>1 DEF MovesUp, Shaped
  <1>8. PlacedInv'
    BY <1>3 DEF PlacedInv
  <1> QED BY <1>2, <1>4, <1>6, <1>7, <1>8

(* What the relocators know when they start on a step.                     *)
LEMMA Known ==
    ASSUME JitInv, phase \in RelocPhases
    PROVE  /\ LayoutInv
           /\ magic = MagicAt /\ magic \in Nat /\ TemplateLen \in Nat
           /\ start[Asm] \in Nat /\ start[Asm] < magic /\ magic < TemplateLen
           /\ error \in Errors /\ newMagic \in Nat /\ cursor \in Nat \ {0}
           /\ extra \in Seq(Put)
           /\ Shaped(cow) /\ MovesUp(cow)
           /\ cow.len \in Nat /\ cow.copied \in Nat
           /\ WordSize \in {4, 8} /\ ExtraSize % WordSize = 0
           /\ TemplateLen = magic + ExtraSize
  <1>1. magic = MagicAt
    BY DEF JitInv, SearchInv, RelocPhases
  <1>2. magic \in Nat /\ start[Asm] \in Nat /\ start[Asm] < magic
    BY <1>1, MagicAtRight DEF JitInv
  <1>3. WordSize \in {4, 8} /\ ExtraSize % WordSize = 0 /\ ExtraSize \in {8, 16}
    BY DEF WordSize, ExtraSize
  <1>4. TemplateLen = magic + ExtraSize
    BY DEF TemplateLen
  <1> QED BY <1>1, <1>2, <1>3, <1>4 DEF JitInv, TypeOK, Errors, Put, Shaped, Buffer

LEMMA PutTyped ==
    ASSUME NEW s \in Seq(Put)
    PROVE  /\ DOMAIN s = 1..Len(s) /\ Len(s) \in Nat
           /\ \A k \in DOMAIN s : s[k].at \in Nat /\ s[k].len \in Nat /\ s[k].addr \in Int
  <1>1. DOMAIN s = 1..Len(s) /\ Len(s) \in Nat
    OBVIOUS
  <1>2. \A k \in 1..Len(s) : s[k] \in Put
    OBVIOUS
  <1> QED BY <1>1, <1>2 DEF Put

LEMMA PanicRight ==
    ASSUME JitInv, Static, phase \in RelocPhases, NEW e \in Errors, Panic(e),
           \/ \E i \in Prologue : GivenUp(i)
           \/ e = "EncodingError" /\ cow.len + 8 > Reach[mode]
    PROVE  JitInv'
  <1>1. UNCHANGED <<mode, pc, template, start>>
    BY DEF Static, templateVars
  <1>2. /\ phase' = "panicked" /\ error' = e
        /\ newMagic' = newMagic /\ cursor' = cursor /\ extra' = extra /\ cow' = cow
    BY DEF Panic, relocVars
  <1>3. Prologue' = Prologue /\ Asm' = Asm
    BY <1>1 DEF Prologue, Asm
  <1>4. \A i : GivenUp(i)' <=> GivenUp(i)
    BY <1>1, <1>3 DEF GivenUp, Misjudged, Unsupported, UsesAddress, Pairs, Inside
  <1>5. PanicsExplained'
    BY <1>1, <1>2, <1>3, <1>4 DEF PanicsExplained
  <1>6. ScanInv' /\ EncodeInv' /\ PoolInv' /\ LiteralsInv' /\ DoneInv'
    BY <1>2 DEF ScanInv, EncodeInv, PoolInv, LiteralsInv, DoneInv
  <1>7. PairsInv'
    BY <1>1, <1>2, <1>3 DEF PairsInv, JitInv
  <1> QED BY <1>2, <1>5, <1>6, <1>7, Known, RelocationStep DEF RelocPhases

LEMMA GotoRight ==
    ASSUME JitInv, Static, phase = "scan", NEW i \in 1..Asm, Goto(i),
           mode = "a64" \/ NeverBack => cursor <= i,
           mode = "x86" => cursor <= i
    PROVE  JitInv'
  <1> USE DEF RelocPhases
  <1>1. UNCHANGED <<mode, pc, template, start, magic>> /\ UNCHANGED templateVars
    BY DEF Static, templateVars
  <1>2. /\ phase' = phase /\ error' = error /\ cursor' = i
        /\ newMagic' = newMagic /\ extra' = extra /\ cow' = cow
    BY DEF Goto
  <1>3. Prologue' = Prologue /\ Asm' = Asm /\ (NeverBack' <=> NeverBack)
    BY <1>1, LayoutStays
  <1>4. ScanInv /\ cursor \in 1..Asm /\ Asm \in Nat
    BY Layout DEF JitInv, ScanInv
  <1>5. cursor <= i => start[cursor] <= start[i]
    <2>1. cursor = i \/ cursor < i \/ ~(cursor <= i)
      BY <1>4
    <2>2. start[i] \in Nat /\ start[cursor] \in Nat
      BY <1>4, Layout DEF JitInv
    <2> QED BY <1>4, <2>1, <2>2 DEF JitInv, LayoutInv
  <1>6. start[i] \in Nat /\ start[cursor] \in Nat /\ cow.copied \in Nat
    BY <1>4, Layout, Known DEF JitInv
  <1>7. \A k \in DOMAIN extra : extra[k].at \in Nat /\ extra[k].len \in Nat
    BY Known, PutTyped
  <1>8. ScanInv'
    BY <1>1, <1>2, <1>3, <1>4, <1>5, <1>6, <1>7 DEF ScanInv, InStep, Unpooled
  <1>9. EncodeInv' /\ PoolInv' /\ LiteralsInv' /\ DoneInv' /\ PanicsExplained'
    BY <1>2 DEF EncodeInv, PoolInv, LiteralsInv, DoneInv, PanicsExplained
  <1>10. PairsInv'
    BY <1>1, <1>2, <1>3 DEF PairsInv, JitInv
  <1>11. i \in Nat \ {0}
    BY <1>4
  <1> QED BY <1>2, <1>8, <1>9, <1>10, <1>11, Known, RelocationStep

(* What is left of the template, copied in one piece, holds the block.     *)
LEMMA TailIsBlock ==
    ASSUME JitInv, phase \in RelocPhases, NEW len \in Nat, NEW copied \in Nat,
           copied <= start[Asm]
    PROVE  /\ copied < TemplateLen
           /\ IsBlock([kind |-> "copy", at |-> len, len |-> TemplateLen - copied,
                       src |-> copied, arg |-> 0], magic + len - copied)
  BY Known DEF IsBlock

LEMMA ReturnRight ==
    ASSUME JitInv, Static, phase \in RelocPhases, NEW b, NEW m \in Nat, Return(b, m),
           Shaped(b), MovesUp(b), b.copied <= TemplateLen, b.len = 0 => b.copied = 0,
           Spaced(b, m),
           \E p \in IntoBytes(b, TemplateLen).pieces : IsBlock(p, m)
    PROVE  JitInv'
  <1>1. UNCHANGED <<mode, pc, template, start, magic>> /\ UNCHANGED templateVars
    BY DEF Static, templateVars
  <1>2. /\ phase' = "alloc" /\ error' = error /\ cursor' = cursor /\ extra' = extra
        /\ newMagic' = m /\ cow' = IntoBytes(b, TemplateLen)
    BY DEF Return
  <1>3. Shaped(cow') /\ MovesUp(cow') /\ Grows(b, cow')
    BY <1>2, Known, IntoBytesRight
  <1>4. Asm' = Asm /\ WordSize' = WordSize /\ TemplateLen' = TemplateLen
    BY <1>1, LayoutStays DEF TemplateLen
  <1>5. Spaced(cow', m)
    BY <1>3 DEF Spaced, Grows
  <1>6. DoneInv'
    BY <1>1, <1>2, <1>4, <1>5 DEF DoneInv, Spaced, IsBlock
  <1>7. ScanInv' /\ EncodeInv' /\ PoolInv' /\ LiteralsInv' /\ PanicsExplained'
    BY <1>2 DEF ScanInv, EncodeInv, PoolInv, LiteralsInv, PanicsExplained
  <1>8. PairsInv'
    BY <1>1, <1>2, <1>4 DEF PairsInv, JitInv
  <1> QED BY <1>2, <1>3, <1>6, <1>7, <1>8, Known, RelocationStep

-----------------------------------------------------------------------------
(* x86 *)

LEMMA Appended ==
    ASSUME NEW s \in Seq(Put), NEW e \in Put
    PROVE  /\ Append(s, e) \in Seq(Put)
           /\ Len(s) \in Nat /\ DOMAIN s = 1..Len(s)
           /\ DOMAIN Append(s, e) = 1..(Len(s) + 1)
           /\ \A k \in DOMAIN s : Append(s, e)[k] = s[k]
           /\ Append(s, e)[Len(s) + 1] = e
  OBVIOUS

(* An instruction of the prologue and the offset behind it.                *)
LEMMA AtInstruction ==
    ASSUME JitInv, phase = "scan", cursor < Asm
    PROVE  /\ cursor \in Prologue /\ cursor \in Nat /\ cursor > 0 /\ cursor + 1 \in 1..Asm
           /\ template[cursor] \in Instruction
           /\ template[cursor].len \in Nat /\ template[cursor].len > 0
           /\ start[cursor] \in Nat /\ start[cursor + 1] \in Nat
           /\ start[cursor] + template[cursor].len = start[cursor + 1]
           /\ start[cursor + 1] <= start[Asm]
  <1>1. cursor \in 1..Asm /\ Asm \in Nat /\ Asm = Len(template) + 1 /\ Len(template) \in Nat
    BY Layout DEF JitInv, ScanInv, Asm
  <1>2. cursor \in Prologue /\ cursor \in Nat /\ cursor > 0 /\ cursor + 1 \in 1..Asm
    BY <1>1 DEF Prologue
  <1>3. template[cursor] \in Instruction
    BY <1>2, Layout DEF JitInv
  <1>4. start[cursor] + template[cursor].len = start[cursor + 1]
    BY <1>2 DEF JitInv, LayoutInv
  <1>5. /\ start[cursor] \in Nat /\ start[cursor + 1] \in Nat
        /\ start[cursor + 1] <= start[Asm]
    BY <1>1, <1>2, Layout DEF JitInv
  <1> QED BY <1>2, <1>3, <1>4, <1>5 DEF Instruction

LEMMA X86CallPopRight ==
    ASSUME JitInv, Static, X86CallPop
    PROVE  JitInv'
  <1> USE DEF RelocPhases
  <1>1. /\ phase = "scan" /\ mode = "x86" /\ cursor < Asm /\ Pairs(cursor)
        /\ cursor' = cursor + 2
        /\ UNCHANGED <<phase, error, newMagic, cow>>
    BY DEF X86CallPop, Scanning
  <1>2. UNCHANGED <<mode, pc, template, start, magic>> /\ UNCHANGED templateVars
    BY DEF Static, templateVars
  <1>3. Asm' = Asm /\ Prologue' = Prologue /\ (NeverBack' <=> NeverBack)
    BY <1>2, LayoutStays
  <1>4. cursor + 1 \in Prologue /\ cursor + 2 \in 1..Asm /\ Asm \in Nat
    BY <1>1, AtInstruction, Layout DEF Pairs, Prologue, Asm, JitInv
  <1> DEFINE pop == template[cursor + 1]
             pair == [at |-> start[cursor], len |-> start[cursor + 1] - start[cursor] + pop.len,
                      addr |-> pc + start[cursor] + template[cursor].len]
  <1>5. /\ start[cursor] \in Nat /\ start[cursor + 1] \in Nat /\ start[cursor] < start[cursor + 1]
        /\ pop.len \in Nat /\ template[cursor].len \in Nat
        /\ start[cursor + 1] + pop.len = start[(cursor + 1) + 1]
        /\ start[(cursor + 1) + 1] \in Nat /\ start[(cursor + 1) + 1] <= start[Asm]
    <2>1. pop \in Instruction
      BY <1>4, Layout DEF JitInv
    <2>2. start[cursor + 1] + pop.len = start[(cursor + 1) + 1]
      BY <1>4 DEF JitInv, LayoutInv
    <2>3. (cursor + 1) + 1 = cursor + 2
      BY <1>1, AtInstruction
    <2>4. start[cursor + 2] \in Nat /\ start[cursor + 2] <= start[Asm]
      BY <1>4, Layout DEF JitInv
    <2> QED BY <1>1, <2>1, <2>2, <2>3, <2>4, AtInstruction DEF Instruction
  <1>6. pair \in Put /\ pair.at + pair.len = start[cursor + 2] /\ start[cursor + 2] <= start[Asm]
    <2>1. (cursor + 1) + 1 = cursor + 2
      BY <1>1, AtInstruction
    <2>2. pc \in Nat
      BY Layout DEF JitInv
    <2> QED BY <1>5, <2>1, <2>2 DEF Put
  <1>7. extra' = Append(extra, pair)
    BY DEF X86CallPop
  <1> HIDE DEF pair
  <1>8. /\ extra' \in Seq(Put) /\ Len(extra) \in Nat /\ DOMAIN extra = 1..Len(extra)
        /\ DOMAIN extra' = 1..(Len(extra) + 1)
        /\ \A k \in DOMAIN extra : extra'[k] = extra[k]
        /\ extra'[Len(extra) + 1] = pair
    BY <1>1, <1>6, <1>7, Known, Appended
  <1>9. \A k \in DOMAIN extra :
           /\ extra[k].at \in Nat /\ extra[k].len \in Nat
           /\ extra[k].at + extra[k].len <= start[cursor]
    BY <1>1, Known, PutTyped DEF JitInv, ScanInv
  <1>10. pair.at = start[cursor] /\ start[cursor] <= start[cursor + 2]
    BY <1>1, <1>5, <1>6, AtInstruction DEF pair
  <1>11. \A k \in DOMAIN extra' : extra'[k].at + extra'[k].len <= start[cursor + 2]
    <2> TAKE k \in DOMAIN extra'
    <2>1. start[cursor] \in Nat /\ start[cursor + 2] \in Nat
      BY <1>1, <1>4, AtInstruction, Layout DEF JitInv
    <2>2. CASE k = Len(extra) + 1
      BY <1>6, <1>8, <2>1, <2>2
    <2>3. CASE k # Len(extra) + 1
      <3>1. k \in DOMAIN extra
        BY <1>8, <2>3
      <3>2. extra[k].at + extra[k].len \in Nat
        BY <1>9, <3>1
      <3> QED BY <1>8, <1>9, <1>10, <2>1, <3>1, <3>2
    <2> QED BY <2>2, <2>3
  <1>12. \A j, k \in DOMAIN extra' : j < k => extra'[j].at + extra'[j].len <= extra'[k].at
    <2> SUFFICES ASSUME NEW j \in DOMAIN extra', NEW k \in DOMAIN extra', j < k
                 PROVE  extra'[j].at + extra'[j].len <= extra'[k].at
      OBVIOUS
    <2>1. j \in DOMAIN extra
      BY <1>8
    <2>2. CASE k = Len(extra) + 1
      BY <1>8, <1>9, <1>10, <2>1, <2>2
    <2>3. CASE k # Len(extra) + 1
      <3>1. k \in DOMAIN extra
        BY <1>8, <2>3
      <3> QED BY <1>1, <1>8, <2>1, <3>1 DEF JitInv, PairsInv
    <2> QED BY <2>2, <2>3
  <1>13. \A k \in DOMAIN extra' : extra'[k].at + extra'[k].len <= start[Asm]
    <2> TAKE k \in DOMAIN extra'
    <2>1. extra'[k].at \in Nat /\ extra'[k].len \in Nat
      BY <1>8, PutTyped
    <2> QED BY <1>4, <1>6, <1>11, <2>1, Known, Layout DEF JitInv
  <1>14. PairsInv'
    BY <1>2, <1>3, <1>12, <1>13 DEF PairsInv
  <1>15. ScanInv'
    <2>1. ScanInv
      BY DEF JitInv
    <2>2. cow.copied <= start[cursor + 2]
      <3>1. cow = NewBuffer /\ start[cursor + 2] \in Nat
        BY <1>1, <1>4, <2>1, Layout DEF ScanInv, JitInv
      <3> QED BY <3>1, NewBufferShaped
    <2> QED BY <1>1, <1>2, <1>3, <1>4, <1>11, <2>1, <2>2 DEF ScanInv, InStep, Unpooled
  <1>16. EncodeInv' /\ PoolInv' /\ LiteralsInv' /\ DoneInv' /\ PanicsExplained'
    BY <1>1 DEF EncodeInv, PoolInv, LiteralsInv, DoneInv, PanicsExplained
  <1>17. Shaped(cow') /\ MovesUp(cow')
    BY <1>1, Known
  <1> QED BY <1>1, <1>4, <1>8, <1>14, <1>15, <1>16, <1>17, Known, RelocationStep

LEMMA X86ReachAsmRight ==
    ASSUME JitInv, Static, X86ReachAsm
    PROVE  JitInv'
  <1> USE DEF RelocPhases
  <1>1. phase = "scan" /\ mode = "x86"
    BY DEF X86ReachAsm, Scanning
  <1>2. cow = NewBuffer /\ newMagic = magic + cow.len - cow.copied
    BY <1>1 DEF JitInv, ScanInv, InStep
  <1>3. newMagic = magic /\ cow.len = 0 /\ cow.copied = 0 /\ cow.pieces = {}
    BY <1>1, <1>2, NewBufferShaped, Known
  <1>4. CASE extra = <<>>
    <2> DEFINE tail == [kind |-> "copy", at |-> cow.len, len |-> TemplateLen - cow.copied,
                        src |-> cow.copied, arg |-> 0]
    <2>1. Return(cow, magic)
      BY <1>4 DEF X86ReachAsm
    <2>2. cow.copied < TemplateLen /\ IsBlock(tail, magic + cow.len - cow.copied)
      BY <1>1, <1>3, Known, TailIsBlock
    <2>3. magic + cow.len - cow.copied = magic
      BY <1>1, <1>3, Known
    <2>4. tail \in IntoBytes(cow, TemplateLen).pieces
      BY <1>1, <1>3, <2>2, Known, IntoBytesRight
    <2>5. Spaced(cow, magic)
      BY <1>3 DEF Spaced
    <2>6. cow.copied <= TemplateLen
      BY <1>1, <1>3, Known
    <2> HIDE DEF tail
    <2> QED BY <1>1, <1>3, <2>1, <2>2, <2>3, <2>4, <2>5, <2>6, Known, ReturnRight
  <1>5. CASE extra # <<>>
    <2>1. phase' = "encode" /\ cursor' = 1 /\ UNCHANGED <<error, newMagic, extra, cow>>
      BY <1>5 DEF X86ReachAsm
    <2>2. UNCHANGED <<mode, pc, template, start, magic>> /\ UNCHANGED templateVars
      BY DEF Static, templateVars
    <2>3. Asm' = Asm
      BY <2>2, LayoutStays
    <2>4. PairsInv'
      BY <2>1, <2>2, <2>3 DEF JitInv, PairsInv
    <2>5. \A k \in DOMAIN extra : extra[k].at \in Nat
      BY <1>1, Known, PutTyped
    <2>6. EncodeInv'
      BY <1>1, <1>3, <2>1, <2>2, <2>3, <2>5, Known DEF EncodeInv, Unpooled
    <2>7. ScanInv' /\ PoolInv' /\ LiteralsInv' /\ DoneInv' /\ PanicsExplained'
      BY <2>1 DEF ScanInv, PoolInv, LiteralsInv, DoneInv, PanicsExplained
    <2> QED BY <1>1, <2>1, <2>4, <2>6, <2>7, Known, RelocationStep
  <1> QED BY <1>4, <1>5

LEMMA X86EncodeRight ==
    ASSUME JitInv, Static, X86Encode
    PROVE  JitInv'
  <1> USE DEF RelocPhases
  <1> DEFINE pair == extra[cursor]
             moved == AppendBytes(cow, pair.at, "mov", MovLen, pair.addr)
  <1>1. /\ phase = "encode" /\ cursor <= Len(extra) /\ cursor' = cursor + 1
        /\ cow' = Ignore(moved, pair.at, pair.len)
        /\ UNCHANGED <<phase, error, newMagic, extra>>
    BY DEF X86Encode
  <1>2. UNCHANGED <<mode, pc, template, start, magic>> /\ UNCHANGED templateVars
    BY DEF Static, templateVars
  <1>3. Asm' = Asm
    BY <1>2, LayoutStays
  <1>4. EncodeInv /\ PairsInv
    BY DEF JitInv
  <1>5. cursor \in DOMAIN extra /\ cursor \in Nat \ {0} /\ DOMAIN extra = 1..Len(extra)
    BY <1>1, Known, PutTyped
  <1>6. pair.at \in Nat /\ pair.len \in Nat /\ pair.addr \in Int
    BY <1>1, <1>5, Known, PutTyped
  <1>7. cow.copied <= pair.at /\ mode = "x86" /\ pair.at + pair.len <= start[Asm]
    BY <1>1, <1>4, <1>5 DEF EncodeInv, PairsInv
  <1>8. /\ Shaped(moved) /\ moved.len = cow.len + pair.at - cow.copied + MovLen
        /\ moved.copied = pair.at /\ Grows(cow, moved)
    <2>1. "mov" \in PieceKinds \ {"copy", "literal"} /\ MovLen \in Nat /\ MovLen > 0
      BY DEF PieceKinds, MovLen
    <2>2. Shaped(cow)
      BY <1>1, Known
    <2> HIDE DEF pair
    <2> QED BY <1>6, <1>7, <2>1, <2>2, AppendRight
  <1>9. cow' = SkipTo(moved, pair.at + pair.len)
    BY <1>1, <1>8 DEF Ignore, CopyUpTo
  <1> HIDE DEF moved
  <1>10. /\ Shaped(cow') /\ cow'.len = moved.len /\ cow'.copied = pair.at + pair.len
         /\ Grows(moved, cow')
    <2>1. pair.at + pair.len \in Nat /\ moved.copied <= pair.at + pair.len
      BY <1>6, <1>8
    <2> QED BY <1>8, <1>9, <2>1, SkipRight
  <1>11. cow'.len > 0
    <2>1. cow.len \in Nat /\ cow.copied \in Nat
      BY <1>1, Known
    <2> HIDE DEF pair
    <2> QED BY <1>6, <1>7, <1>8, <1>10, <2>1 DEF MovLen
  <1>12. \A k \in DOMAIN extra : k = cursor + 1 => pair.at + pair.len <= extra[k].at
    BY <1>4, <1>5, <1>7 DEF PairsInv
  <1>13. EncodeInv'
    <2>1. Unpooled(cow')
      BY <1>1, <1>4, <1>8, <1>10 DEF EncodeInv, Unpooled, Grows
    <2>2. cow'.copied <= start'[Asm']
      BY <1>2, <1>3, <1>7, <1>10
    <2>3. cursor' \in DOMAIN extra' => cow'.copied <= extra'[cursor'].at
      BY <1>1, <1>10, <1>12
    <2> QED BY <1>1, <1>2, <1>7, <1>11, <2>1, <2>2, <2>3 DEF EncodeInv, Unpooled
  <1>14. PairsInv'
    BY <1>1, <1>2, <1>3, <1>4 DEF PairsInv
  <1>15. ScanInv' /\ PoolInv' /\ LiteralsInv' /\ DoneInv' /\ PanicsExplained'
    BY <1>1 DEF ScanInv, PoolInv, LiteralsInv, DoneInv, PanicsExplained
  <1>16. MovesUp(cow')
    BY <1>7 DEF MovesUp
  <1> QED BY <1>1, <1>5, <1>10, <1>13, <1>14, <1>15, <1>16, Known, RelocationStep

LEMMA X86FinishRight ==
    ASSUME JitInv, Static, X86Finish
    PROVE  JitInv'
  <1> USE DEF RelocPhases
  <1> DEFINE tail == [kind |-> "copy", at |-> cow.len, len |-> TemplateLen - cow.copied,
                      src |-> cow.copied, arg |-> 0]
             whole == IntoBytes(cow, TemplateLen)
  <1>1. phase = "encode" /\ Return(cow, X86Magic(cow))
    BY DEF X86Finish
  <1>2. /\ cow.copied <= start[Asm] /\ (cow.len = 0 => cow.copied = 0)
        /\ Unpooled(cow) /\ mode = "x86"
    BY <1>1 DEF JitInv, EncodeInv
  <1>3. cow.copied < TemplateLen /\ cow.copied <= TemplateLen
    BY <1>1, <1>2, Known
  <1>4. whole.len = cow.len + TemplateLen - cow.copied /\ tail \in whole.pieces
    BY <1>1, <1>2, <1>3, Known, IntoBytesRight
  <1>5. X86Magic(cow) = magic + cow.len - cow.copied /\ X86Magic(cow) \in Nat
    <2>1. X86Magic(cow) = magic + whole.len - TemplateLen
      BY DEF X86Magic
    <2>2. /\ magic \in Nat /\ TemplateLen \in Nat
          /\ cow.len \in Nat /\ cow.copied \in Nat
      BY <1>1, Known
    <2>3. cow.copied <= magic
      BY <1>1, <1>2, <2>2, Known
    <2> HIDE DEF whole
    <2>4. whole.len = cow.len + TemplateLen - cow.copied
      BY <1>4
    <2> QED BY <2>1, <2>2, <2>3, <2>4
  <1>6. IsBlock(tail, X86Magic(cow))
    BY <1>1, <1>2, <1>5, Known, TailIsBlock
  <1>7. Spaced(cow, X86Magic(cow))
    BY <1>2 DEF Spaced, Unpooled
  <1> HIDE DEF tail, whole
  <1> QED BY <1>1, <1>2, <1>3, <1>4, <1>5, <1>6, <1>7, Known, ReturnRight DEF whole

LEMMA X86Right ==
    ASSUME JitInv, RelocateX86
    PROVE  JitInv'
  <1>1. Static
    BY DEF RelocateX86, Static
  <1>2. CASE X86Invalid
    <2>1. phase = "scan" /\ cursor < Asm /\ template[cursor].op = "invalid"
          /\ Panic("InvalidInstruction")
      BY <1>2 DEF X86Invalid, Scanning
    <2> QED BY <1>1, <2>1, AtInstruction, PanicRight DEF RelocPhases, Errors,
                GivenUp, Unsupported
  <1>3. CASE X86Next
    <2>1. phase = "scan" /\ cursor < Asm /\ Goto(cursor + 1)
      BY <1>3 DEF X86Next, Scanning
    <2> QED BY <1>1, <2>1, AtInstruction, GotoRight
  <1>4. CASE X86Unsupported
    <2>1. /\ phase = "scan" /\ cursor < Asm /\ template[cursor].op \in {"call", "jump"}
          /\ ~Pairs(cursor) /\ Panic("UnsupportedInstruction")
      BY <1>4 DEF X86Unsupported, Scanning
    <2> QED BY <1>1, <2>1, AtInstruction, PanicRight DEF RelocPhases, Errors,
                GivenUp, Unsupported
  <1> QED BY <1>1, <1>2, <1>3, <1>4, X86CallPopRight, X86ReachAsmRight, X86EncodeRight,
             X86FinishRight DEF RelocateX86

-----------------------------------------------------------------------------
(* Steps the relocators of AArch64 and Arm have in common *)

(* The lengths of the instructions they change.                            *)
LEMMA WordLengths ==
    ASSUME JitInv, mode # "x86", NEW i \in Prologue, template[i].op # "plain"
    PROVE  template[i].len \in {2, 4} /\ (mode # "thumb" => template[i].len = 4)
  <1>1. template[i] \in Instructions[mode] /\ mode \in Modes
    BY DEF JitInv, LayoutInv, Prologue
  <1> QED BY <1>1, ArchitectureAssumption

LEMMA WordAligned ==
    ASSUME LayoutInv, mode # "x86"
    PROVE  WordSize = MagicAlign[mode]
  BY Layout, ArchitectureAssumption DEF WordSize

LEMMA LoadStep ==
    ASSUME JitInv, Static, phase = "scan", mode # "x86", cursor < Asm,
           UNCHANGED <<phase, error>>, cursor' = cursor + 1,
           NEW n \in Nat, NEW a \in Int, extra' = PutAside(n, a), n < cow'.len,
           Shaped(cow'), MovesUp(cow'), Grows(cow, cow'),
           cow'.copied = start[cursor + 1], cow.len <= cow'.len, 0 < cow'.len,
           newMagic' \in Nat, newMagic' = magic + cow'.len - cow'.copied
    PROVE  JitInv'
  <1> USE DEF RelocPhases
  <1>1. UNCHANGED <<mode, pc, template, start, magic>> /\ UNCHANGED templateVars
    BY DEF Static, templateVars
  <1>2. Asm' = Asm /\ Prologue' = Prologue /\ (NeverBack' <=> NeverBack)
    BY <1>1, LayoutStays
  <1>3. [at |-> n, len |-> 4, addr |-> a] \in Put
    BY DEF Put
  <1>4. extra' = Append(extra, [at |-> n, len |-> 4, addr |-> a])
    BY DEF PutAside
  <1>5. /\ extra' \in Seq(Put) /\ Len(extra) \in Nat /\ DOMAIN extra = 1..Len(extra)
        /\ DOMAIN extra' = 1..(Len(extra) + 1)
        /\ \A k \in DOMAIN extra : extra'[k] = extra[k]
        /\ extra'[Len(extra) + 1].at = n
    BY <1>3, <1>4, Known, Appended
  <1>6. ScanInv /\ cow.len \in Nat /\ cow'.len \in Nat
    BY Known DEF JitInv, Shaped, Buffer
  <1>7. \A k \in DOMAIN extra' : extra'[k].at < cow'.len
    <2> TAKE k \in DOMAIN extra'
    <2>1. CASE k = Len(extra) + 1
      BY <1>5, <2>1
    <2>2. CASE k # Len(extra) + 1
      <3>1. k \in DOMAIN extra /\ extra'[k] = extra[k]
        BY <1>5, <2>2
      <3>2. extra[k].at < cow.len /\ extra[k].at \in Nat
        BY <1>6, <3>1, Known, PutTyped DEF ScanInv
      <3> QED BY <1>6, <3>1, <3>2
    <2> QED BY <2>1, <2>2
  <1>8. /\ cursor + 1 \in 1..Asm /\ cursor + 1 \in Nat \ {0}
        /\ start[cursor + 1] \in Nat /\ start[cursor + 1] <= start[Asm]
    BY AtInstruction
  <1>9. InStep'
    <2>1. Unpooled(cow')
      BY <1>6 DEF ScanInv, InStep, Unpooled, Grows
    <2> QED BY <1>1, <1>2, <1>6, <1>8, <2>1 DEF InStep, Unpooled
  <1>10. ScanInv'
    BY <1>1, <1>2, <1>7, <1>8, <1>9 DEF ScanInv
  <1>11. PairsInv' /\ EncodeInv' /\ PoolInv' /\ LiteralsInv' /\ DoneInv' /\ PanicsExplained'
    BY <1>1 DEF PairsInv, EncodeInv, PoolInv, LiteralsInv, DoneInv, PanicsExplained
  <1> QED BY <1>5, <1>8, <1>10, <1>11, Known, RelocationStep

LEMMA ReachAsmStep ==
    ASSUME JitInv, Static, phase = "scan", mode # "x86",
           IF extra = <<>>
           THEN Return(cow, newMagic)
           ELSE phase' = "pool" /\ UNCHANGED <<error, relocVars>>
    PROVE  JitInv'
  <1> USE DEF RelocPhases
  <1> DEFINE tail == [kind |-> "copy", at |-> cow.len, len |-> TemplateLen - cow.copied,
                      src |-> cow.copied, arg |-> 0]
  <1>1. InStep /\ \A k \in DOMAIN extra : extra[k].at < cow.len
    BY DEF JitInv, ScanInv
  <1>2. CASE extra = <<>>
    <2>1. cow.copied < TemplateLen /\ IsBlock(tail, magic + cow.len - cow.copied)
      BY <1>1, Known, TailIsBlock DEF InStep
    <2>2. tail \in IntoBytes(cow, TemplateLen).pieces
      BY <1>1, <2>1, Known, IntoBytesRight DEF InStep
    <2>3. newMagic = magic + cow.len - cow.copied
      BY <1>1 DEF InStep
    <2>4. Spaced(cow, newMagic) /\ (cow.len = 0 => cow.copied = 0)
      BY <1>1 DEF InStep, Spaced, Unpooled
    <2>5. cow.copied <= TemplateLen
      BY <2>1, Known
    <2> HIDE DEF tail
    <2> QED BY <1>2, <2>1, <2>2, <2>3, <2>4, <2>5, Known, ReturnRight
  <1>3. CASE extra # <<>>
    <2>1. phase' = "pool" /\ UNCHANGED <<error, newMagic, cursor, extra, cow>>
      BY <1>3 DEF relocVars
    <2>2. UNCHANGED <<mode, pc, template, start, magic>> /\ UNCHANGED templateVars
      BY DEF Static, templateVars
    <2>3. Asm' = Asm
      BY <2>2, LayoutStays
    <2>4. PoolInv'
      BY <1>1, <2>1, <2>2, <2>3 DEF PoolInv, InStep, Unpooled
    <2>5. PairsInv' /\ ScanInv' /\ EncodeInv' /\ LiteralsInv' /\ DoneInv' /\ PanicsExplained'
      BY <2>1, <2>2 DEF PairsInv, ScanInv, EncodeInv, LiteralsInv, DoneInv, PanicsExplained
    <2> QED BY <2>1, <2>4, <2>5, Known, RelocationStep
  <1> QED BY <1>2, <1>3

(* The rest of the template puts literals where they need no padding.      *)
LEMMA PoolAligned ==
    ASSUME JitInv, phase = "pool"
    PROVE  (CopyUpTo(cow, TemplateLen).len - newMagic) % WordSize = 0
  <1> USE DEF RelocPhases
  <1>1. cow.copied <= start[Asm] /\ newMagic = magic + cow.len - cow.copied
    BY DEF JitInv, PoolInv, InStep
  <1>2. cow.copied <= TemplateLen
    BY <1>1, Known
  <1>3. CopyUpTo(cow, TemplateLen).len = cow.len + TemplateLen - cow.copied
    BY <1>2, Known, CopyUpToRight
  <1>4. CopyUpTo(cow, TemplateLen).len - newMagic = ExtraSize
    <2>1. ExtraSize \in Int
      BY DEF ExtraSize
    <2> QED BY <1>1, <1>3, <2>1, Known
  <1> QED BY <1>4, Known

LEMMA PoolStep ==
    ASSUME JitInv, Static, phase = "pool", cow' = CopyUpTo(cow, TemplateLen),
           phase' = "literals", cursor' = 1, UNCHANGED <<error, newMagic, extra>>
    PROVE  JitInv'
  <1> USE DEF RelocPhases
  <1> DEFINE tail == [kind |-> "copy", at |-> cow.len, len |-> TemplateLen - cow.copied,
                      src |-> cow.copied, arg |-> 0]
  <1>1. UNCHANGED <<mode, pc, template, start, magic>> /\ UNCHANGED templateVars
    BY DEF Static, templateVars
  <1>2. Asm' = Asm /\ WordSize' = WordSize /\ TemplateLen' = TemplateLen
    BY <1>1, LayoutStays DEF TemplateLen
  <1>3. /\ mode # "x86" /\ InStep
        /\ \A k \in DOMAIN extra : extra[k].at < cow.len
    BY DEF JitInv, PoolInv
  <1>4. cow.copied < TemplateLen /\ IsBlock(tail, newMagic)
    BY <1>3, Known, TailIsBlock DEF InStep
  <1>5. /\ Shaped(cow') /\ MovesUp(cow') /\ Grows(cow, cow')
        /\ cow'.len = cow.len + TemplateLen - cow.copied /\ cow'.copied = TemplateLen
        /\ tail \in cow'.pieces
    <2>1. /\ cow.copied <= TemplateLen /\ cow.copied < TemplateLen /\ TemplateLen \in Nat
          /\ Shaped(cow) /\ MovesUp(cow)
      BY <1>4, Known
    <2>2. /\ Shaped(CopyUpTo(cow, TemplateLen)) /\ MovesUp(CopyUpTo(cow, TemplateLen))
          /\ Grows(cow, CopyUpTo(cow, TemplateLen))
          /\ CopyUpTo(cow, TemplateLen).len = cow.len + TemplateLen - cow.copied
          /\ CopyUpTo(cow, TemplateLen).copied = TemplateLen
          /\ tail \in CopyUpTo(cow, TemplateLen).pieces
      BY <2>1, CopyUpToRight
    <2>3. MovesUp(cow') <=> MovesUp(CopyUpTo(cow, TemplateLen))
      BY DEF MovesUp
    <2> HIDE DEF tail
    <2> QED BY <2>2, <2>3
  <1>6. cow'.len > 0
    BY <1>4, <1>5, Known
  <1>7. (cow'.len - newMagic) % WordSize = 0
    BY PoolAligned
  <1>8. Spaced(cow', newMagic)
    BY <1>3, <1>5 DEF InStep, Unpooled, Spaced, Grows
  <1>9. tail.at = cow.len
    OBVIOUS
  <1> HIDE DEF tail
  <1>10. \E p \in cow'.pieces : IsBlock(p, newMagic) /\ \A k \in DOMAIN extra : extra[k].at < p.at
    BY <1>3, <1>4, <1>5, <1>9
  <1>11. LiteralsInv'
    BY <1>1, <1>2, <1>3, <1>5, <1>6, <1>7, <1>8, <1>10 DEF LiteralsInv, Spaced, IsBlock
  <1>12. PairsInv' /\ ScanInv' /\ EncodeInv' /\ PoolInv' /\ DoneInv' /\ PanicsExplained'
    BY <1>1, <1>3 DEF PairsInv, ScanInv, EncodeInv, PoolInv, DoneInv, PanicsExplained
  <1> QED BY <1>5, <1>11, <1>12, Known, RelocationStep

(* The literal of the load put aside goes to the end of the buffer.        *)
LEMMA LiteralStep ==
    ASSUME JitInv, Static, phase = "literals", cursor <= Len(extra), NEW arg \in Int,
           cow' = FillHole(Push(cow, "literal", WordSize, TemplateLen, extra[cursor].addr),
                           extra[cursor].at, arg),
           cursor' = cursor + 1, UNCHANGED <<phase, error, newMagic, extra>>
    PROVE  JitInv'
  <1> USE DEF RelocPhases
  <1> DEFINE put == extra[cursor]
             literal == [kind |-> "literal", at |-> cow.len, len |-> WordSize,
                         src |-> TemplateLen, arg |-> put.addr]
             longer == Push(cow, "literal", WordSize, TemplateLen, put.addr)
  <1>1. UNCHANGED <<mode, pc, template, start, magic>> /\ UNCHANGED templateVars
    BY DEF Static, templateVars
  <1>2. Asm' = Asm /\ WordSize' = WordSize /\ TemplateLen' = TemplateLen
    BY <1>1, LayoutStays DEF TemplateLen
  <1>3. LiteralsInv
    BY DEF JitInv
  <1>4. cursor \in DOMAIN extra /\ put.at \in Nat /\ put.addr \in Int /\ cursor \in Nat \ {0}
    BY Known, PutTyped
  <1>5. /\ Shaped(longer) /\ longer.len = cow.len + WordSize /\ longer.copied = cow.copied
        /\ longer.pieces = cow.pieces \cup {literal}
    <2>1. "literal" \in PieceKinds /\ WordSize \in Nat /\ WordSize > 0
      BY Known DEF PieceKinds
    <2>2. Shaped(cow) /\ TemplateLen \in Nat
      BY Known
    <2> HIDE DEF put
    <2> QED BY <1>4, <2>1, <2>2, PushRight
  <1>6. MovesUp(longer)
    <2>1. literal.kind # "copy"
      OBVIOUS
    <2>2. MovesUp(cow) /\ cow.len \in Nat /\ cow.copied \in Nat /\ WordSize \in {4, 8}
      BY Known
    <2> HIDE DEF literal, longer
    <2> QED BY <1>5, <2>1, <2>2 DEF MovesUp
  <1>7. \A p \in longer.pieces :
           p.kind = "literal" => (p.at - newMagic) % MagicAlign[mode] = 0
    <2>1. literal.at = cow.len /\ WordSize = MagicAlign[mode]
      BY <1>3, WordAligned DEF LiteralsInv, JitInv
    <2> HIDE DEF literal, longer
    <2> QED BY <1>3, <1>5, <2>1 DEF LiteralsInv, Spaced
  <1>8. PICK p \in cow.pieces : IsBlock(p, newMagic) /\ \A k \in DOMAIN extra : extra[k].at < p.at
    BY <1>3 DEF LiteralsInv
  <1>9. p \in longer.pieces /\ p.at # put.at
    <2>1. put.at < p.at /\ p.at \in Nat
      BY <1>4, <1>8, Known DEF Shaped, Buffer, Piece
    <2> HIDE DEF put, longer
    <2> QED BY <1>4, <1>5, <2>1
  <1> HIDE DEF longer, literal
  <1>10. cow' = FillHole(longer, put.at, arg)
    BY DEF longer
  <1>11. /\ Shaped(cow') /\ cow'.len = longer.len /\ cow'.copied = longer.copied
         /\ Grows(longer, cow') /\ p \in cow'.pieces
    <2>1. put.at \in Nat /\ Shaped(longer) /\ p \in longer.pieces /\ p.at # put.at
      BY <1>4, <1>5, <1>9
    <2> DEFINE filled == FillHole(longer, put.at, arg)
    <2>2. /\ Shaped(filled) /\ filled.len = longer.len /\ filled.copied = longer.copied
          /\ Grows(longer, filled)
      BY <2>1, FillHoleRight
    <2>3. \A q \in longer.pieces : q.at # put.at => q \in filled.pieces
      BY <2>1, FillHoleRight
    <2>4. cow' = filled
      BY <1>10
    <2> HIDE DEF put, filled
    <2> QED BY <2>1, <2>2, <2>3, <2>4
  <1>12. MovesUp(cow')
    <2>1. MovesUp(FillHole(longer, put.at, arg))
      BY <1>4, <1>5, <1>6, FillHoleRight
    <2> QED BY <1>10, <2>1
  <1>13. cow'.len > 0 /\ (cow'.len - newMagic) % WordSize = 0
    <2>1. /\ (cow.len - newMagic) % WordSize = 0 /\ cow.len > 0
          /\ cow.len \in Nat /\ newMagic \in Nat /\ WordSize \in {4, 8}
          /\ cow'.len = cow.len + WordSize
      BY <1>3, <1>5, <1>11, Known DEF LiteralsInv
    <2> DEFINE d == cow.len - newMagic
    <2>2. d \in Int /\ cow'.len - newMagic = d + WordSize /\ d % WordSize = 0
      BY <2>1
    <2> HIDE DEF d
    <2>3. \A k \in Int : (k % 4 = 0 => (k + 4) % 4 = 0) /\ (k % 8 = 0 => (k + 8) % 8 = 0)
      OBVIOUS
    <2>4. (d + WordSize) % WordSize = 0
      BY <2>1, <2>2, <2>3
    <2> QED BY <2>1, <2>2, <2>4
  <1>14. Spaced(cow', newMagic)
    BY <1>7, <1>11 DEF Spaced, Grows
  <1>15. LiteralsInv'
    BY <1>1, <1>2, <1>3, <1>5, <1>8, <1>11, <1>13, <1>14 DEF LiteralsInv, Spaced, IsBlock
  <1>16. PairsInv' /\ ScanInv' /\ EncodeInv' /\ PoolInv' /\ DoneInv' /\ PanicsExplained'
    BY <1>1, <1>3 DEF PairsInv, ScanInv, EncodeInv, PoolInv, DoneInv, PanicsExplained,
                      LiteralsInv
  <1>17. cursor' \in Nat \ {0}
    BY <1>4
  <1> QED BY <1>11, <1>12, <1>15, <1>16, <1>17, Known, RelocationStep

LEMMA FinishStep ==
    ASSUME JitInv, Static, phase = "literals", Return(cow, newMagic)
    PROVE  JitInv'
  <1> USE DEF RelocPhases
  <1>1. /\ cow.copied = TemplateLen /\ cow.len > 0 /\ Spaced(cow, newMagic)
        /\ \E p \in cow.pieces : IsBlock(p, newMagic)
    BY DEF JitInv, LiteralsInv
  <1>2. Shaped(cow) /\ MovesUp(cow) /\ TemplateLen \in Nat /\ newMagic \in Nat
    BY Known
  <1>3. cow.copied <= TemplateLen /\ cow.len # 0
    BY <1>1, <1>2
  <1>4. cow.pieces \subseteq IntoBytes(cow, TemplateLen).pieces
    BY <1>2, <1>3, IntoBytesRight
  <1>5. \E p \in IntoBytes(cow, TemplateLen).pieces : IsBlock(p, newMagic)
    BY <1>1, <1>4
  <1> QED BY <1>1, <1>2, <1>3, <1>5, ReturnRight

(* Bytes appended in place of an instruction that is no longer than they   *)
(* are.                                                                    *)
LEMMA InsteadRight ==
    ASSUME NEW b, Shaped(b), MovesUp(b), mode # "x86", NEW offset \in Nat, b.copied <= offset,
           NEW kind \in PieceKinds \ {"copy", "literal"}, NEW n \in Nat, n > 0,
           NEW arg \in Int, NEW end \in Nat, offset <= end, end <= offset + n
    PROVE  LET c == SkipTo(AppendBytes(b, offset, kind, n, arg), end)
           IN  /\ Shaped(c) /\ MovesUp(c) /\ Grows(b, c)
               /\ c.len = b.len + offset - b.copied + n /\ c.copied = end
  <1> DEFINE d == AppendBytes(b, offset, kind, n, arg)
             c == SkipTo(d, end)
  <1>1. /\ Shaped(d) /\ d.len = b.len + offset - b.copied + n /\ d.copied = offset
        /\ Grows(b, d) /\ MovesUp(d)
    BY AppendRight
  <1>2. b.len \in Nat /\ b.copied \in Nat /\ b.copied <= b.len
    BY DEF Shaped, Buffer, MovesUp
  <1> HIDE DEF d
  <1>3. d.copied <= end /\ end <= d.len
    BY <1>1, <1>2
  <1>4. /\ Shaped(c) /\ MovesUp(c) /\ Grows(d, c)
        /\ c.len = d.len /\ c.copied = end
    BY <1>1, <1>3, SkipRight
  <1>5. Grows(b, c)
    BY <1>1, <1>4 DEF Grows
  <1> QED BY <1>1, <1>4, <1>5 DEF d

-----------------------------------------------------------------------------
(* AArch64 *)

LEMMA A64TargetInt ==
    ASSUME JitInv, NEW i \in Prologue
    PROVE  A64Target(i) \in Int
  <1>1. pc \in Nat /\ start[i] \in Nat /\ template[i].imm \in Int
    BY Layout DEF JitInv, Instruction
  <1>2. AdrCodes \div 2 \in Nat /\ AdrCodes \div 2 > 0 /\ PageSize \in Nat \ {0}
    BY TemplateAssumption
  <1>3. AdrImmediate(i) \in Int
    BY <1>1, <1>2, SignedInt DEF AdrImmediate
  <1>4. AdrImmediate(i) * PageSize \in Int
    BY <1>2, <1>3
  <1>5. (pc + start[i]) - ((pc + start[i]) % PageSize) \in Int
    BY <1>1, <1>2
  <1>6. CASE template[i].op = "adrp"
    <2> DEFINE x == (pc + start[i]) - ((pc + start[i]) % PageSize)
               y == AdrImmediate(i) * PageSize
    <2>1. A64Target(i) = x + y
      BY <1>6 DEF A64Target
    <2>2. x \in Int
      BY <1>5, Zenon
    <2>3. y \in Int
      BY <1>4, Zenon
    <2> HIDE DEF x, y
    <2> QED BY <2>1, <2>2, <2>3
  <1>7. CASE template[i].op = "adr"
    BY <1>1, <1>3, <1>7 DEF A64Target
  <1>8. CASE template[i].op \notin {"adr", "adrp"}
    BY <1>1, <1>8 DEF A64Target
  <1> QED BY <1>6, <1>7, <1>8

(* The instruction the loop is at has not been copied yet.                 *)
LEMMA A64Ahead ==
    ASSUME JitInv, Scanning("a64")
    PROVE  mode # "x86" /\ phase = "scan" /\ InStep /\ cow.copied <= start[cursor]
  BY DEF Scanning, JitInv, ScanInv

LEMMA A64LdrRight ==
    ASSUME JitInv, Static, A64Ldr
    PROVE  JitInv'
  <1> USE DEF RelocPhases
  <1> DEFINE offset == start[cursor]
             room == AppendBytes(cow, offset, "hole", 4, 0)
  <1>1. /\ Scanning("a64") /\ template[cursor].op = "ldr" /\ cursor < Asm
        /\ extra' = PutAside(room.len - 4, A64Target(cursor))
        /\ cow' = Replace(room, offset, "deref", 4, 0)
        /\ newMagic' = newMagic + 4 /\ cursor' = cursor + 1
        /\ UNCHANGED <<phase, error>>
    <2>1. cursor \in 1..Asm /\ Asm \in Nat
      BY Layout DEF A64Ldr, Scanning, JitInv, ScanInv
    <2> QED BY <2>1 DEF A64Ldr, A64AtAsm
  <1>2. mode # "x86" /\ phase = "scan" /\ InStep /\ cow.copied <= offset
    BY <1>1, A64Ahead
  <1>3. cursor \in Prologue /\ offset \in Nat /\ start[cursor + 1] = offset + 4
    <2>1. cursor \in Prologue /\ offset \in Nat /\ offset + template[cursor].len = start[cursor + 1]
      BY <1>1, <1>2, AtInstruction
    <2>2. template[cursor].len = 4
      BY <1>1, <1>2, <2>1, WordLengths DEF Scanning
    <2> QED BY <2>1, <2>2
  <1>4. "hole" \in PieceKinds \ {"copy", "literal"} /\ "deref" \in PieceKinds \ {"copy", "literal"}
    BY DEF PieceKinds
  <1>5. Shaped(cow) /\ MovesUp(cow) /\ cow.len \in Nat /\ cow.copied \in Nat /\ magic \in Nat
    BY <1>2, Known
  <1>6. /\ Shaped(room) /\ MovesUp(room) /\ Grows(cow, room)
        /\ room.len = cow.len + offset - cow.copied + 4 /\ room.copied = offset
    <2> HIDE DEF offset
    <2>1. /\ Shaped(cow) /\ MovesUp(cow) /\ offset \in Nat /\ cow.copied <= offset
          /\ "hole" \in PieceKinds \ {"copy", "literal"} /\ 4 \in Nat /\ 4 > 0 /\ 0 \in Int
      BY <1>2, <1>3, <1>4, <1>5
    <2> QED BY <2>1, AppendRight
  <1> HIDE DEF room
  <1>7. cow' = SkipTo(AppendBytes(room, offset, "deref", 4, 0), offset + 4)
    BY <1>1 DEF Replace
  <1>8. /\ Shaped(cow') /\ MovesUp(cow') /\ Grows(room, cow')
        /\ cow'.len = room.len + offset - room.copied + 4 /\ cow'.copied = offset + 4
    <2>1. room.copied <= offset
      BY <1>3, <1>6
    <2>2. \A c : c = SkipTo(AppendBytes(room, offset, "deref", 4, 0), offset + 4) =>
             /\ Shaped(c) /\ MovesUp(c) /\ Grows(room, c)
             /\ c.len = room.len + offset - room.copied + 4 /\ c.copied = offset + 4
      BY <1>2, <1>3, <1>4, <1>6, <2>1, InsteadRight
    <2>3. \A c : c = cow' /\ MovesUp(c) => MovesUp(cow')
      OBVIOUS
    <2> QED BY <1>7, <2>2, <2>3
  <1>9. Grows(cow, cow')
    BY <1>6, <1>8 DEF Grows
  <1>10. newMagic = magic + cow.len - cow.copied
    BY <1>2 DEF InStep
  <1> HIDE DEF offset
  <1>11. /\ room.len - 4 \in Nat /\ room.len - 4 < cow'.len /\ cow.len <= cow'.len /\ 0 < cow'.len
         /\ newMagic' \in Nat /\ newMagic' = magic + cow'.len - cow'.copied
    <2>1. newMagic \in Nat
      BY <1>2, Known
    <2> QED BY <1>1, <1>2, <1>3, <1>5, <1>6, <1>8, <1>10, <2>1
  <1>12. A64Target(cursor) \in Int
    BY <1>3, A64TargetInt
  <1> QED BY <1>1, <1>2, <1>3, <1>8, <1>9, <1>11, <1>12, LoadStep

LEMMA A64AdrRight ==
    ASSUME JitInv, Static, A64Adr
    PROVE  JitInv'
  <1> USE DEF RelocPhases
  <1> DEFINE offset == start[cursor]
  <1>1. /\ Scanning("a64") /\ template[cursor].op \in {"adr", "adrp"} /\ cursor < Asm
        /\ extra' = PutAside(cow'.len - 4, A64Target(cursor))
        /\ cow' = Replace(cow, offset, "hole", 4, 0)
        /\ newMagic' = newMagic /\ cursor' = cursor + 1
        /\ UNCHANGED <<phase, error>>
    <2>1. cursor \in 1..Asm /\ Asm \in Nat
      BY Layout DEF A64Adr, Scanning, JitInv, ScanInv
    <2> QED BY <2>1 DEF A64Adr, A64AtAsm
  <1>2. mode # "x86" /\ phase = "scan" /\ InStep /\ cow.copied <= offset
    BY <1>1, A64Ahead
  <1>3. cursor \in Prologue /\ offset \in Nat /\ start[cursor + 1] = offset + 4
    <2>1. cursor \in Prologue /\ offset \in Nat /\ offset + template[cursor].len = start[cursor + 1]
      BY <1>1, <1>2, AtInstruction
    <2>2. template[cursor].len = 4
      BY <1>1, <1>2, <2>1, WordLengths DEF Scanning
    <2> QED BY <2>1, <2>2
  <1>4. "hole" \in PieceKinds \ {"copy", "literal"}
    BY DEF PieceKinds
  <1>5. Shaped(cow) /\ MovesUp(cow) /\ cow.len \in Nat /\ cow.copied \in Nat /\ magic \in Nat
    BY <1>2, Known
  <1>7. cow' = SkipTo(AppendBytes(cow, offset, "hole", 4, 0), offset + 4)
    BY <1>1 DEF Replace
  <1>8. /\ Shaped(cow') /\ MovesUp(cow') /\ Grows(cow, cow')
        /\ cow'.len = cow.len + offset - cow.copied + 4 /\ cow'.copied = offset + 4
    <2>2. \A c : c = SkipTo(AppendBytes(cow, offset, "hole", 4, 0), offset + 4) =>
             /\ Shaped(c) /\ MovesUp(c) /\ Grows(cow, c)
             /\ c.len = cow.len + offset - cow.copied + 4 /\ c.copied = offset + 4
      BY <1>2, <1>3, <1>4, <1>5, InsteadRight
    <2> QED BY <1>7, <2>2
  <1>10. newMagic = magic + cow.len - cow.copied
    BY <1>2 DEF InStep
  <1> HIDE DEF offset
  <1>11. /\ cow'.len - 4 \in Nat /\ cow'.len - 4 < cow'.len /\ cow.len <= cow'.len /\ 0 < cow'.len
         /\ newMagic' \in Nat /\ newMagic' = magic + cow'.len - cow'.copied
    <2>1. newMagic \in Nat
      BY <1>2, Known
    <2> QED BY <1>1, <1>2, <1>3, <1>5, <1>8, <1>10, <2>1
  <1>12. A64Target(cursor) \in Int
    BY <1>3, A64TargetInt
  <1> QED BY <1>1, <1>2, <1>3, <1>8, <1>11, <1>12, LoadStep

LEMMA A64BranchRight ==
    ASSUME JitInv, Static, A64Branch
    PROVE  JitInv'
  <1>1. /\ phase = "scan" /\ mode = "a64" /\ template[cursor].op = "b" /\ cursor < Asm
        /\ IF Follows(cursor)
           THEN Goto(template[cursor].to)
           ELSE Panic("UnsupportedInstruction")
    <2>1. cursor \in 1..Asm /\ Asm \in Nat
      BY Layout DEF A64Branch, Scanning, JitInv, ScanInv
    <2> QED BY <2>1 DEF A64Branch, A64AtAsm, Scanning
  <1>2. cursor \in Prologue /\ cursor \in Nat
    BY <1>1, AtInstruction
  <1>3. CASE Follows(cursor)
    <2>1. template[cursor].to \in 1..Asm /\ cursor <= template[cursor].to
      BY <1>2, <1>3, Layout DEF Follows, Inside, JitInv
    <2> QED BY <1>1, <1>3, <2>1, GotoRight
  <1>4. CASE ~Follows(cursor)
    <2>1. GivenUp(cursor)
      <3>1. ~Inside(cursor) \/ template[cursor].to \in 1..Asm
        BY DEF Inside
      <3>2. Asm \in Nat
        BY Layout DEF JitInv
      <3> QED BY <1>1, <1>2, <1>4, <3>1, <3>2 DEF Follows, GivenUp, Misjudged, Unsupported
    <2> QED BY <1>1, <1>2, <1>4, <2>1, PanicRight DEF RelocPhases, Errors
  <1> QED BY <1>3, <1>4

LEMMA A64OtherRight ==
    ASSUME JitInv, Static, A64Other
    PROVE  JitInv'
  <1>1. phase = "scan" /\ mode = "a64" /\ cursor < Asm /\ A64Other
    <2>1. cursor \in 1..Asm /\ Asm \in Nat
      BY Layout DEF A64Other, Scanning, JitInv, ScanInv
    <2> QED BY <2>1 DEF A64Other, A64AtAsm, Scanning
  <1>2. cursor \in Prologue /\ cursor + 1 \in 1..Asm /\ cursor \in Nat
    BY <1>1, AtInstruction
  <1>3. CASE template[cursor].op = "jump"
    <2>1. Panic("UnsupportedInstruction") /\ GivenUp(cursor)
      BY <1>1, <1>3 DEF A64Other, GivenUp, Misjudged, Unsupported
    <2> QED BY <1>1, <1>2, <2>1, PanicRight DEF RelocPhases, Errors
  <1>4. CASE template[cursor].op = "invalid"
    <2>1. Panic("NoThunkAsm") /\ GivenUp(cursor)
      BY <1>1, <1>4 DEF A64Other, GivenUp, Misjudged, Unsupported
    <2> QED BY <1>1, <1>2, <2>1, PanicRight DEF RelocPhases, Errors
  <1>5. CASE template[cursor].op \in {"plain", "vldr"}
    <2>1. Goto(cursor + 1)
      BY <1>1, <1>5 DEF A64Other
    <2> QED BY <1>1, <1>2, <2>1, GotoRight
  <1>6. CASE template[cursor].op \notin {"jump", "invalid", "plain", "vldr"}
    BY <1>1, <1>6 DEF A64Other
  <1> QED BY <1>3, <1>4, <1>5, <1>6

LEMMA A64LiteralRight ==
    ASSUME JitInv, Static, A64Literal
    PROVE  JitInv'
  <1> DEFINE ldr == extra[cursor]
             distance == cow.len - ldr.at
  <1>1. /\ phase = "literals" /\ mode = "a64" /\ cursor <= Len(extra)
        /\ IF distance >= Reach[mode]
           THEN Panic("EncodingError")
           ELSE /\ cow' = FillHole(Push(cow, "literal", 8, TemplateLen, ldr.addr),
                                   ldr.at, A64Encoded(distance))
                /\ cursor' = cursor + 1
                /\ UNCHANGED <<phase, error, newMagic, extra>>
    BY DEF A64Literal
  <1>2. cow.len \in Nat /\ ldr.at \in Nat /\ distance \in Int /\ distance <= cow.len
    <2>1. cow.len \in Nat /\ extra \in Seq(Put) /\ cursor \in Nat \ {0}
      BY <1>1, Known DEF RelocPhases
    <2>2. ldr.at \in Nat
      BY <1>1, <2>1, PutTyped
    <2> HIDE DEF ldr
    <2> QED BY <2>1, <2>2
  <1>3. Reach["a64"] \in Nat /\ Reach["a64"] > 0
    BY <1>1, TemplateAssumption, ArchitectureAssumption DEF JitInv, LayoutInv
  <1>4. WordSize = 8
    BY <1>1 DEF WordSize
  <1> HIDE DEF distance
  <1>5. CASE distance >= Reach[mode]
    <2>1. cow.len + 8 > Reach[mode]
      BY <1>1, <1>2, <1>3, <1>5
    <2> QED BY <1>1, <1>5, <2>1, PanicRight DEF RelocPhases, Errors
  <1>6. CASE ~(distance >= Reach[mode])
    <2>1. A64Encoded(distance) \in Int
      BY <1>2, <1>3, SignedInt DEF A64Encoded
    <2> QED BY <1>1, <1>4, <1>6, <2>1, LiteralStep
  <1> QED BY <1>5, <1>6

LEMMA A64Right ==
    ASSUME JitInv, RelocateAArch64
    PROVE  JitInv'
  <1>1. Static
    BY DEF RelocateAArch64, Static
  <1>2. CASE A64ReachAsm
    <2>1. /\ phase = "scan" /\ mode = "a64"
          /\ IF extra = <<>>
             THEN Return(cow, newMagic)
             ELSE phase' = "pool" /\ UNCHANGED <<error, relocVars>>
      BY <1>2 DEF A64ReachAsm, Scanning
    <2> QED BY <1>1, <2>1, ReachAsmStep
  <1>3. CASE A64Pool
    <2>1. /\ mode = "a64" /\ phase = "pool"
          /\ phase' = "literals" /\ cursor' = 1 /\ UNCHANGED <<error, newMagic, extra>>
      BY <1>3 DEF A64Pool
    <2>2. (CopyUpTo(cow, TemplateLen).len - newMagic) % 8 = 0
      BY <2>1, PoolAligned DEF WordSize
    <2>3. cow' = CopyUpTo(cow, TemplateLen)
      BY <1>3, <2>2 DEF A64Pool
    <2> QED BY <1>1, <2>1, <2>3, PoolStep
  <1>4. CASE A64Finish
    <2>1. phase = "literals" /\ Return(cow, newMagic)
      BY <1>4 DEF A64Finish
    <2> QED BY <1>1, <2>1, FinishStep
  <1> QED BY <1>1, <1>2, <1>3, <1>4, A64LdrRight, A64AdrRight, A64BranchRight, A64OtherRight,
             A64LiteralRight DEF RelocateAArch64

-----------------------------------------------------------------------------
(* Arm *)

LEMMA EffectivePcRight ==
    ASSUME NEW a \in Nat
    PROVE  EffectivePc(a) \in Nat /\ a <= EffectivePc(a)
  <1>1. CASE mode = "arm"
    BY <1>1 DEF EffectivePc
  <1>2. CASE mode = "thumb"
    BY <1>2 DEF EffectivePc
  <1>3. CASE mode \notin {"arm", "thumb"}
    BY <1>3 DEF EffectivePc
  <1> QED BY <1>1, <1>2, <1>3

LEMMA ArmTargets ==
    ASSUME JitInv, NEW i \in Prologue
    PROVE  LoadTarget(i) \in Int /\ AdrTarget(i) \in Int
  <1>1. pc \in Nat /\ start[i] \in Nat /\ template[i].imm \in Int
    BY Layout DEF JitInv, Instruction
  <1>2. EffectivePc(pc + start[i]) \in Nat
    BY <1>1, EffectivePcRight
  <1>3. CASE template[i].op = "ldrW"
    BY <1>1, <1>2, <1>3 DEF LoadTarget, AdrTarget
  <1>4. CASE template[i].op = "ldrD"
    BY <1>1, <1>2, <1>4 DEF LoadTarget, AdrTarget
  <1>5. CASE template[i].op \notin {"ldrW", "ldrD"}
    BY <1>1, <1>2, <1>5 DEF LoadTarget, AdrTarget
  <1> QED BY <1>3, <1>4, <1>5

LEMMA ArmScan ==
    ASSUME JitInv, ScanningArm
    PROVE  /\ mode # "x86" /\ mode # "a64" /\ phase = "scan" /\ InStep
           /\ cursor \in 1..Asm /\ Asm \in Nat
           /\ NeverBack => cow.copied <= start[cursor]
  BY Layout DEF ScanningArm, JitInv, ScanInv

LEMMA ArmBranchRight ==
    ASSUME JitInv, Static, ArmBranch
    PROVE  JitInv'
  <1> DEFINE i == IF Inside(cursor) THEN template[cursor].to ELSE cursor + 1
  <1>1. ScanningArm /\ cursor < Asm /\ template[cursor].op = "b" /\ Goto(i)
    BY DEF ArmBranch, Current
  <1>2. phase = "scan" /\ mode # "a64" /\ mode # "x86"
    BY <1>1, ArmScan
  <1>3. cursor \in Prologue /\ cursor \in Nat /\ cursor + 1 \in 1..Asm
    BY <1>1, <1>2, AtInstruction
  <1>4. i \in 1..Asm /\ Asm \in Nat
    BY <1>3, Layout DEF Inside, JitInv
  <1>5. NeverBack => cursor <= i
    BY <1>1, <1>3, <1>4 DEF NeverBack
  <1> HIDE DEF i
  <1> QED BY <1>1, <1>2, <1>4, <1>5, GotoRight

LEMMA ArmOutOfOrderRight ==
    ASSUME JitInv, Static, ArmOutOfOrder
    PROVE  JitInv'
  <1>1. ScanningArm /\ ~(cow.copied <= start[cursor]) /\ Panic("Slice")
    BY DEF ArmOutOfOrder, InOrder
  <1>2. phase = "scan" /\ ~NeverBack
    BY <1>1, ArmScan
  <1>3. PICK i \in Prologue :
           template[i].op = "b" /\ Inside(i) /\ ~(template[i].to > i)
    BY <1>2 DEF NeverBack
  <1>4. GivenUp(i)
    <2>1. i \in Nat /\ template[i].to \in Nat
      BY <1>3, Layout DEF Inside, Prologue, JitInv
    <2> QED BY <1>3, <2>1 DEF GivenUp, Misjudged, Unsupported
  <1> QED BY <1>1, <1>2, <1>4, PanicRight DEF RelocPhases, Errors

LEMMA ArmRefusedRight ==
    ASSUME JitInv, Static, ArmUnsupported \/ ArmInvalid
    PROVE  JitInv'
  <1>1. /\ ScanningArm /\ cursor < Asm /\ GivenUp(cursor)
        /\ Panic("UnsupportedInstruction") \/ Panic("NoThunkAsm")
    BY DEF ArmUnsupported, ArmInvalid, Refused, GivenUp, Misjudged, Unsupported, Current
  <1>2. phase = "scan"
    BY <1>1, ArmScan
  <1>3. cursor \in Prologue
    BY <1>1, <1>2, AtInstruction
  <1>4. CASE Panic("UnsupportedInstruction")
    BY <1>1, <1>2, <1>3, <1>4, PanicRight DEF RelocPhases, Errors
  <1>5. CASE Panic("NoThunkAsm")
    BY <1>1, <1>2, <1>3, <1>5, PanicRight DEF RelocPhases, Errors
  <1> QED BY <1>1, <1>4, <1>5

LEMMA ArmAdrRight ==
    ASSUME JitInv, Static, ArmAdr
    PROVE  JitInv'
  <1> USE DEF RelocPhases
  <1> DEFINE offset == start[cursor]
             len == template[cursor].len
             room == AppendBytes(cow, offset, "hole", 4, 0)
  <1>1. /\ ScanningArm /\ template[cursor].op = "adr" /\ cursor < Asm
        /\ cow.copied <= offset
        /\ extra' = PutAside(room.len - 4, AdrTarget(cursor))
        /\ cow' = Ignore(room, offset, len)
        /\ newMagic' = newMagic + 4 - len /\ cursor' = cursor + 1
        /\ UNCHANGED <<phase, error>>
    BY DEF ArmAdr, Current, InOrder
  <1>2. mode # "x86" /\ phase = "scan" /\ InStep
    BY <1>1, ArmScan
  <1>3. /\ cursor \in Prologue /\ offset \in Nat /\ start[cursor + 1] = offset + len
        /\ len \in Nat /\ len <= 4
    <2>1. cursor \in Prologue /\ offset \in Nat /\ offset + len = start[cursor + 1]
      BY <1>1, <1>2, AtInstruction
    <2>2. len \in {2, 4}
      BY <1>1, <1>2, <2>1, WordLengths
    <2> HIDE DEF len
    <2> QED BY <2>1, <2>2
  <1>4. "hole" \in PieceKinds \ {"copy", "literal"}
    BY DEF PieceKinds
  <1>5. Shaped(cow) /\ MovesUp(cow) /\ cow.len \in Nat /\ cow.copied \in Nat /\ magic \in Nat
    BY <1>2, Known
  <1> HIDE DEF offset, len
  <1>6. room.len = cow.len + offset - cow.copied + 4 /\ room.copied = offset
    <2>1. /\ Shaped(cow) /\ MovesUp(cow) /\ offset \in Nat /\ cow.copied <= offset
          /\ "hole" \in PieceKinds \ {"copy", "literal"} /\ 4 \in Nat /\ 4 > 0 /\ 0 \in Int
      BY <1>1, <1>3, <1>4, <1>5
    <2> QED BY <2>1, AppendRight
  <1>7. cow' = SkipTo(AppendBytes(cow, offset, "hole", 4, 0), offset + len)
    BY <1>1, <1>6 DEF Ignore, CopyUpTo
  <1> HIDE DEF room
  <1>8. /\ Shaped(cow') /\ MovesUp(cow') /\ Grows(cow, cow')
        /\ cow'.len = cow.len + offset - cow.copied + 4 /\ cow'.copied = offset + len
    <2>1. /\ Shaped(cow) /\ MovesUp(cow) /\ mode # "x86" /\ offset \in Nat /\ cow.copied <= offset
          /\ "hole" \in PieceKinds \ {"copy", "literal"} /\ 4 \in Nat /\ 4 > 0 /\ 0 \in Int
          /\ offset + len \in Nat /\ offset <= offset + len /\ offset + len <= offset + 4
      BY <1>1, <1>2, <1>3, <1>4, <1>5
    <2>2. \A c : c = SkipTo(AppendBytes(cow, offset, "hole", 4, 0), offset + len) =>
             /\ Shaped(c) /\ MovesUp(c) /\ Grows(cow, c)
             /\ c.len = cow.len + offset - cow.copied + 4 /\ c.copied = offset + len
      BY <2>1, InsteadRight
    <2> QED BY <1>7, <2>2
  <1>10. newMagic = magic + cow.len - cow.copied
    BY <1>2 DEF InStep
  <1>11. /\ room.len - 4 \in Nat /\ room.len - 4 < cow'.len /\ cow.len <= cow'.len /\ 0 < cow'.len
         /\ newMagic' \in Nat /\ newMagic' = magic + cow'.len - cow'.copied
    <2>1. newMagic \in Nat
      BY <1>2, Known
    <2> QED BY <1>1, <1>2, <1>3, <1>5, <1>6, <1>8, <1>10, <2>1
  <1>12. AdrTarget(cursor) \in Int
    BY <1>3, ArmTargets
  <1>13. cow'.copied = start[cursor + 1]
    BY <1>3, <1>8
  <1> QED BY <1>1, <1>2, <1>8, <1>11, <1>12, <1>13, LoadStep

LEMMA ArmLoadRight ==
    ASSUME JitInv, Static, ArmLoad
    PROVE  JitInv'
  <1> USE DEF RelocPhases
  <1> DEFINE offset == start[cursor]
             len == template[cursor].len
             room == AppendBytes(cow, offset, "hole", 4, 0)
             both == AppendBytes(room, offset, "deref", len, 0)
  <1>1. /\ ScanningArm /\ cursor < Asm
        /\ cow.copied <= offset
        /\ extra' = PutAside(room.len - 4, LoadTarget(cursor))
        /\ cow' = Ignore(both, offset, len)
        /\ newMagic' = newMagic + 4 /\ cursor' = cursor + 1
        /\ UNCHANGED <<phase, error>>
    <2>1. cursor \in 1..Asm /\ Asm \in Nat
      BY ArmScan DEF ArmLoad
    <2> QED BY <2>1 DEF ArmLoad, ArmAtAsm, Current, InOrder
  <1>2. mode # "x86" /\ phase = "scan" /\ InStep
    BY <1>1, ArmScan
  <1>3. /\ cursor \in Prologue /\ offset \in Nat /\ start[cursor + 1] = offset + len
        /\ len \in Nat /\ len > 0
    BY <1>1, <1>2, AtInstruction
  <1>4. "hole" \in PieceKinds \ {"copy", "literal"} /\ "deref" \in PieceKinds \ {"copy", "literal"}
    BY DEF PieceKinds
  <1>5. Shaped(cow) /\ MovesUp(cow) /\ cow.len \in Nat /\ cow.copied \in Nat /\ magic \in Nat
    BY <1>2, Known
  <1> HIDE DEF offset, len
  <1>6. /\ Shaped(room) /\ MovesUp(room) /\ Grows(cow, room)
        /\ room.len = cow.len + offset - cow.copied + 4 /\ room.copied = offset
    <2>1. /\ Shaped(cow) /\ MovesUp(cow) /\ offset \in Nat /\ cow.copied <= offset
          /\ "hole" \in PieceKinds \ {"copy", "literal"} /\ 4 \in Nat /\ 4 > 0 /\ 0 \in Int
      BY <1>1, <1>3, <1>4, <1>5
    <2> QED BY <2>1, AppendRight
  <1> HIDE DEF room
  <1>7. cow' = SkipTo(both, offset + len)
    <2>1. both.copied = offset
      <3>1. /\ Shaped(room) /\ offset \in Nat /\ room.copied <= offset /\ 0 \in Int
            /\ "deref" \in PieceKinds \ {"copy", "literal"} /\ len \in Nat /\ len > 0
        BY <1>3, <1>4, <1>6
      <3> QED BY <3>1, AppendRight
    <2> HIDE DEF both
    <2> QED BY <1>1, <2>1 DEF Ignore, CopyUpTo
  <1>8. /\ Shaped(cow') /\ MovesUp(cow') /\ Grows(room, cow')
        /\ cow'.len = room.len + offset - room.copied + len /\ cow'.copied = offset + len
    <2>1. /\ Shaped(room) /\ MovesUp(room) /\ mode # "x86" /\ offset \in Nat
          /\ room.copied <= offset /\ 0 \in Int
          /\ "deref" \in PieceKinds \ {"copy", "literal"}
          /\ len \in Nat /\ len > 0
          /\ offset + len \in Nat /\ offset <= offset + len /\ offset + len <= offset + len
      BY <1>2, <1>3, <1>4, <1>6
    <2>2. \A c : c = SkipTo(AppendBytes(room, offset, "deref", len, 0), offset + len) =>
             /\ Shaped(c) /\ MovesUp(c) /\ Grows(room, c)
             /\ c.len = room.len + offset - room.copied + len /\ c.copied = offset + len
      BY <2>1, InsteadRight
    <2> QED BY <1>7, <2>2
  <1>9. Grows(cow, cow')
    BY <1>6, <1>8 DEF Grows
  <1>10. newMagic = magic + cow.len - cow.copied
    BY <1>2 DEF InStep
  <1>11. /\ room.len - 4 \in Nat /\ room.len - 4 < cow'.len /\ cow.len <= cow'.len /\ 0 < cow'.len
         /\ newMagic' \in Nat /\ newMagic' = magic + cow'.len - cow'.copied
    <2>1. newMagic \in Nat
      BY <1>2, Known
    <2> QED BY <1>1, <1>2, <1>3, <1>5, <1>6, <1>8, <1>10, <2>1
  <1>12. LoadTarget(cursor) \in Int
    BY <1>3, ArmTargets
  <1>13. cow'.copied = start[cursor + 1]
    BY <1>3, <1>8
  <1> QED BY <1>1, <1>2, <1>8, <1>9, <1>11, <1>12, <1>13, LoadStep

LEMMA ArmLiteralRight ==
    ASSUME JitInv, Static, ArmLiteral
    PROVE  JitInv'
  <1> DEFINE ldr == extra[cursor]
             distance == Displacement(ldr)
  <1>1. /\ phase = "literals" /\ mode \in {"arm", "thumb"} /\ cursor <= Len(extra)
        /\ IF distance >= Reach[mode]
           THEN Panic("EncodingError")
           ELSE /\ cow' = FillHole(Push(cow, "literal", 4, TemplateLen, ldr.addr),
                                   ldr.at, distance)
                /\ cursor' = cursor + 1
                /\ UNCHANGED <<phase, error, newMagic, extra>>
    BY DEF ArmLiteral
  <1>2. cow.len \in Nat /\ distance \in Int /\ distance <= cow.len
    <2>1. cow.len \in Nat /\ extra \in Seq(Put) /\ cursor \in Nat \ {0} /\ pc \in Nat
      BY <1>1, Known, Layout DEF RelocPhases, JitInv
    <2>2. ldr.at \in Nat
      BY <1>1, <2>1, PutTyped
    <2>3. /\ EffectivePc(pc + ldr.at) \in Nat /\ pc + ldr.at <= EffectivePc(pc + ldr.at)
      BY <2>1, <2>2, EffectivePcRight
    <2> HIDE DEF ldr
    <2> QED BY <2>1, <2>2, <2>3 DEF Displacement
  <1>3. Reach[mode] \in Nat
    BY TemplateAssumption DEF JitInv, LayoutInv
  <1>4. WordSize = 4
    BY <1>1 DEF WordSize
  <1> HIDE DEF distance
  <1>5. CASE distance >= Reach[mode]
    <2>1. cow.len + 8 > Reach[mode]
      BY <1>2, <1>3, <1>5
    <2> QED BY <1>1, <1>5, <2>1, PanicRight DEF RelocPhases, Errors
  <1>6. CASE ~(distance >= Reach[mode])
    BY <1>1, <1>2, <1>4, <1>6, LiteralStep
  <1> QED BY <1>5, <1>6

LEMMA ArmRight ==
    ASSUME JitInv, RelocateArm
    PROVE  JitInv'
  <1>1. Static
    BY DEF RelocateArm, Static
  <1>2. CASE ArmReachAsm
    <2>1. /\ phase = "scan" /\ mode # "x86"
          /\ IF extra = <<>>
             THEN Return(cow, newMagic)
             ELSE phase' = "pool" /\ UNCHANGED <<error, relocVars>>
      BY <1>2 DEF ArmReachAsm, ScanningArm
    <2> QED BY <1>1, <2>1, ReachAsmStep
  <1>3. CASE ArmPlain
    <2>1. ScanningArm /\ cursor < Asm /\ Goto(cursor + 1)
      BY <1>3 DEF ArmPlain
    <2>2. phase = "scan"
      BY <2>1, ArmScan
    <2> QED BY <1>1, <2>1, <2>2, AtInstruction, GotoRight
  <1>4. CASE ArmPool
    <2>1. /\ mode \in {"arm", "thumb"} /\ phase = "pool"
          /\ phase' = "literals" /\ cursor' = 1 /\ UNCHANGED <<error, newMagic, extra>>
      BY <1>4 DEF ArmPool
    <2>2. (CopyUpTo(cow, TemplateLen).len - newMagic) % 4 = 0
      <3>1. WordSize = 4
        BY <2>1 DEF WordSize
      <3> QED BY <2>1, <3>1, PoolAligned
    <2>3. cow' = CopyUpTo(cow, TemplateLen)
      BY <1>4, <2>2 DEF ArmPool
    <2> QED BY <1>1, <2>1, <2>3, PoolStep
  <1>5. CASE ArmFinish
    <2>1. phase = "literals" /\ Return(cow, newMagic)
      BY <1>5 DEF ArmFinish
    <2> QED BY <1>1, <2>1, FinishStep
  <1> QED BY <1>1, <1>2, <1>3, <1>4, <1>5, ArmBranchRight, ArmOutOfOrderRight, ArmRefusedRight,
             ArmAdrRight, ArmLoadRight, ArmLiteralRight DEF RelocateArm

-----------------------------------------------------------------------------
(* The allocation, and a call *)

LEMMA AllocThunkRight ==
    ASSUME JitInv, AllocThunk
    PROVE  JitInv'
  <1> USE DEF JitInv
  <1>1. /\ phase = "alloc" /\ phase' = "run" /\ block' \in Memory /\ thunk' = Place(block')
        /\ UNCHANGED <<templateVars, error, magic, newMagic, cursor, extra, cow, at, ip>>
    BY DEF AllocThunk, relocVars, runVars
  <1>2. UNCHANGED <<mode, pc, asmCode, template, start, magic>> /\ UNCHANGED templateVars
    BY <1>1 DEF templateVars
  <1>3. /\ LayoutInv' /\ MagicAt' = MagicAt /\ Asm' = Asm /\ WordSize' = WordSize
        /\ TemplateLen' = TemplateLen
    BY <1>2, LayoutStays DEF TemplateLen
  <1>4. block' \in Nat /\ newMagic \in Nat /\ MagicAlign[mode] \in {4, 8}
    BY <1>1, TemplateAssumption, Layout DEF TypeOK
  <1>5. thunk' \in Nat
    <2>1. AlignOffset(block' + newMagic, MagicAlign[mode]) \in 0..(MagicAlign[mode] - 1)
      <3> DEFINE a == block' + newMagic
                 n == MagicAlign[mode]
      <3>1. a \in Int /\ n \in {4, 8}
        BY <1>4
      <3> HIDE DEF a, n
      <3>2. AlignOffset(a, n) \in 0..(n - 1)
        BY <3>1, AlignOffsetRight
      <3> QED BY <3>2 DEF a, n
    <2> QED BY <1>1, <1>4, <2>1 DEF Place
  <1>6. TypeOK'
    BY <1>1, <1>2, <1>3, <1>4, <1>5 DEF TypeOK
  <1>7. SearchInv'
    BY <1>1, <1>2, <1>3 DEF SearchInv
  <1>8. Shaped(cow)' /\ MovesUp(cow)'
    BY <1>1, <1>2 DEF Shaped, MovesUp
  <1>9. DoneInv'
    BY <1>1, <1>2, <1>3 DEF DoneInv, Spaced, IsBlock
  <1>10. PlacedInv'
    BY <1>1, <1>2 DEF PlacedInv, Place
  <1>11. PairsInv'
    BY <1>1, <1>2, <1>3 DEF PairsInv
  <1>12. ScanInv' /\ EncodeInv' /\ PoolInv' /\ LiteralsInv' /\ PanicsExplained'
    BY <1>1 DEF ScanInv, EncodeInv, PoolInv, LiteralsInv, PanicsExplained
  <1> QED BY <1>3, <1>6, <1>7, <1>8, <1>9, <1>10, <1>11, <1>12

(* The copy of a branch is not in front of the branch.                     *)
LEMMA BranchAhead ==
    ASSUME JitInv, at < Asm, Same(at, ip), template[at].op = "b"
    PROVE  Inside(at) /\ start[at] <= ip
  <1>1. at \in Prologue /\ at # Asm
    BY Layout DEF JitInv, TypeOK, Prologue, Asm
  <1>2. ~UsesAddress(at) /\ ~Pairs(at)
    BY DEF UsesAddress, Pairs
  <1>3. CopiesOf(start[at], ip) # {} /\ Inside(at)
    BY <1>1, <1>2 DEF Same
  <1>4. PICK p \in cow.pieces : p.kind = "copy" /\ p.src + (ip - p.at) = start[at]
    BY <1>3 DEF CopiesOf
  <1>5. mode # "x86"
    <2>1. template[at] \in Instructions[mode] /\ mode \in Modes
      BY <1>1 DEF JitInv, LayoutInv, Prologue
    <2> QED BY <2>1, ArchitectureAssumption
  <1>6. p.src <= p.at /\ p.src \in Nat /\ p.at \in Nat /\ ip \in Nat
    BY <1>4, <1>5 DEF JitInv, MovesUp, Shaped, Buffer, Piece, TypeOK
  <1> QED BY <1>3, <1>4, <1>6

LEMMA RunRight ==
    ASSUME JitInv, Run
    PROVE  JitInv'
  <1>1. /\ phase = "run" /\ at < Asm /\ Same(at, ip)
        /\ UNCHANGED <<templateVars, phase, error, magic, newMagic, cursor, extra, cow,
                      block, thunk>>
    BY DEF Run, relocVars, blockVars
  <1>2. UNCHANGED <<mode, pc, asmCode, template, start, magic>> /\ UNCHANGED templateVars
    BY <1>1 DEF templateVars
  <1>3. /\ LayoutInv' /\ MagicAt' = MagicAt /\ Asm' = Asm /\ WordSize' = WordSize
        /\ TemplateLen' = TemplateLen /\ Prologue' = Prologue
    BY <1>2, LayoutStays DEF TemplateLen, JitInv
  <1>4. /\ at \in Nat /\ at > 0 /\ ip \in Nat /\ Asm \in Nat /\ at \in Prologue
        /\ Asm = Len(template) + 1 /\ Len(template) \in Nat
    BY <1>1, Layout DEF JitInv, TypeOK, Prologue, Asm
  <1>5. template[at].len \in Nat /\ start[at] \in Nat
    BY <1>4, Layout DEF JitInv, Instruction
  <1>6. CopyLen(at) \in Nat
    BY <1>5 DEF CopyLen, MovLen
  <1>7. at' \in 1..Asm /\ ip' \in Nat
    <2>1. CASE at' = (IF Pairs(at) THEN at + 2 ELSE at + 1) /\ ip' = ip + CopyLen(at)
      <3>1. Pairs(at) => at + 2 <= Asm
        BY <1>4 DEF Pairs, Prologue
      <3> QED BY <1>1, <1>4, <1>6, <2>1, <3>1
    <2>2. CASE /\ template[at].op = "b" /\ at' = template[at].to
               /\ ip' = ip + start[template[at].to] - start[at]
      <3>1. Inside(at) /\ start[at] <= ip
        BY <1>1, <2>2, BranchAhead
      <3>2. template[at].to \in 1..Asm /\ start[template[at].to] \in Nat
        BY <3>1, Layout DEF Inside, JitInv
      <3> QED BY <1>4, <1>5, <2>2, <3>1, <3>2
    <2> QED BY <2>1, <2>2 DEF Run
  <1>8. TypeOK'
    BY <1>1, <1>2, <1>3, <1>7 DEF JitInv, TypeOK
  <1>9. SearchInv' /\ ScanInv' /\ EncodeInv' /\ PoolInv' /\ LiteralsInv' /\ PanicsExplained'
    BY <1>1, <1>3 DEF JitInv, SearchInv, ScanInv, EncodeInv, PoolInv, LiteralsInv, PanicsExplained
  <1>10. Shaped(cow)' /\ MovesUp(cow)'
    BY <1>1, <1>2 DEF JitInv, Shaped, MovesUp
  <1>11. DoneInv'
    BY <1>1, <1>2, <1>3 DEF JitInv, DoneInv, Spaced, IsBlock
  <1>12. PlacedInv' /\ PairsInv'
    BY <1>1, <1>2, <1>3 DEF JitInv, PlacedInv, Place, PairsInv
  <1> QED BY <1>3, <1>8, <1>9, <1>10, <1>11, <1>12 DEF JitInv

LEMMA StutterRight ==
    ASSUME JitInv, UNCHANGED vars
    PROVE  JitInv'
  <1>1. UNCHANGED <<mode, pc, asmCode, template, start, phase, error, magic, newMagic, cursor,
                    extra, cow, block, thunk, at, ip>> /\ UNCHANGED templateVars
    BY DEF vars, templateVars, relocVars, blockVars, runVars
  <1>2. /\ LayoutInv' /\ MagicAt' = MagicAt /\ Asm' = Asm /\ WordSize' = WordSize
        /\ TemplateLen' = TemplateLen /\ Prologue' = Prologue /\ (NeverBack' <=> NeverBack)
    BY <1>1, LayoutStays DEF TemplateLen, JitInv
  <1>3. TypeOK' /\ SearchInv' /\ Shaped(cow)' /\ MovesUp(cow)'
    BY <1>1, <1>2 DEF JitInv, TypeOK, SearchInv, Shaped, MovesUp
  <1>4. InStep' <=> InStep
    BY <1>1, <1>2 DEF InStep, Unpooled
  <1>5. ScanInv' /\ PairsInv' /\ PoolInv'
    BY <1>1, <1>2, <1>4 DEF JitInv, ScanInv, PairsInv, PoolInv
  <1>6. EncodeInv' /\ LiteralsInv' /\ DoneInv' /\ PlacedInv'
    BY <1>1, <1>2 DEF JitInv, EncodeInv, Unpooled, LiteralsInv, DoneInv, PlacedInv, Place,
                      Spaced, IsBlock
  <1>7. \A i : GivenUp(i)' <=> GivenUp(i)
    BY <1>1, <1>2 DEF GivenUp, Misjudged, Unsupported, UsesAddress, Pairs, Inside
  <1>8. PanicsExplained'
    BY <1>1, <1>2, <1>7 DEF JitInv, PanicsExplained
  <1> QED BY <1>2, <1>3, <1>5, <1>6, <1>8 DEF JitInv

-----------------------------------------------------------------------------
(* Theorems *)

(* The inductive invariant: between its steps a relocator has copied a     *)
(* part of the template in pieces that follow each other, and knows by how *)
(* much the constants have moved.                                          *)
THEOREM JitInvariant == Spec => []JitInv
  <1>1. Init => JitInv
    BY InitRight
  <1>2. JitInv /\ [Next]_vars => JitInv'
    BY CompileRight, BeginSearchRight, SearchMagicRight, X86Right, A64Right, ArmRight,
       AllocThunkRight, RunRight, StutterRight DEF Next, Relocate
  <1> QED BY <1>1, <1>2, PTL DEF Spec

(* Every variable keeps its type.                                          *)
THEOREM JitTypeCorrect == Spec => []TypeOK
  <1>1. JitInv => TypeOK
    BY DEF JitInv
  <1> QED BY <1>1, JitInvariant, PTL

(* The search for the magic constants, by steps of their alignment, never  *)
(* passes them (arch.rs 226-231).                                          *)
THEOREM SearchNeverPasses == Spec => []SearchInside
  <1>1. JitInv => SearchInside
    BY DEF JitInv, SearchInv, SearchInside
  <1> QED BY <1>1, JitInvariant, PTL

(* The relocators of x86, AArch64 and Arm return the place the magic       *)
(* constants have in the copy, and the block is whole around it.           *)
THEOREM BlockKeepsUp == Spec => []BlockFollows
  <1>1. JitInv => BlockFollows
    BY DEF JitInv, DoneInv, IsBlock, BlockFollows, Relocated
  <1> QED BY <1>1, JitInvariant, PTL

LEMMA Placed ==
    ASSUME JitInv, phase = "run"
    PROVE  /\ block \in Nat /\ thunk \in Nat /\ newMagic \in Nat /\ MagicAlign[mode] \in {4, 8}
           /\ block <= thunk /\ thunk <= block + MagicAlign[mode] - 1
           /\ (thunk + newMagic) % MagicAlign[mode] = 0
  <1>1. /\ block \in Nat /\ thunk \in Nat /\ newMagic \in Nat /\ MagicAlign[mode] \in {4, 8}
        /\ thunk = block + AlignOffset(block + newMagic, MagicAlign[mode])
    BY Layout DEF JitInv, TypeOK, PlacedInv, Place
  <1> DEFINE n == MagicAlign[mode]
             a == block + newMagic
             o == AlignOffset(a, n)
  <1>2. n \in {4, 8} /\ a \in Int /\ thunk = block + o
    BY <1>1
  <1>3. o \in 0..(n - 1) /\ (a + o) % n = 0
    <2> HIDE DEF n, a
    <2> QED BY <1>2, AlignOffsetRight
  <1>4. thunk + newMagic = a + o /\ o \in Int /\ o <= n - 1 /\ o >= 0
    <2>1. o \in Int /\ o <= n - 1 /\ o >= 0
      <3> HIDE DEF o, n
      <3> QED BY <1>2, <1>3
    <2>2. block \in Nat /\ newMagic \in Nat /\ a = block + newMagic
      BY <1>1
    <2> HIDE DEF o, n, a
    <2> QED BY <1>2, <2>1, <2>2
  <1> HIDE DEF o
  <1>5. block <= thunk /\ thunk <= block + n - 1
    <2> HIDE DEF n
    <2> QED BY <1>1, <1>2, <1>4
  <1> QED BY <1>1, <1>3, <1>4, <1>5

(* The pieces of the copy do not overlap, and wherever the allocation is   *)
(* the aligned copy is inside it (arch.rs 250-253).                        *)
THEOREM CopyNeverOverruns == Spec => []CopyFits
  <1>1. ASSUME JitInv, phase = "run"
        PROVE  /\ \A p, r \in cow.pieces : p # r => p.at + p.len <= r.at \/ r.at + r.len <= p.at
               /\ block <= thunk
               /\ \A p \in cow.pieces : thunk + p.at + p.len <= block + BlockSize(cow.len)
    <2>1. Shaped(cow)
      BY <1>1 DEF JitInv
    <2>2. \A p \in cow.pieces : p.at \in Nat /\ p.len \in Nat /\ p.at + p.len <= cow.len
      BY <2>1 DEF Shaped, Buffer, Piece
    <2>3. cow.len \in Nat
      BY <2>1 DEF Shaped, Buffer
    <2>4. \A p \in cow.pieces : thunk + p.at + p.len <= block + BlockSize(cow.len)
      BY <1>1, <2>2, <2>3, Placed DEF BlockSize
    <2> QED BY <1>1, <2>1, <2>4, Placed DEF Shaped
  <1>2. JitInv => CopyFits
    BY <1>1 DEF CopyFits
  <1> QED BY <1>2, JitInvariant, PTL

(* Two addresses a multiple of four apart read the program counter as far  *)
(* apart.                                                                  *)
LEMMA EffectivePcApart ==
    ASSUME NEW x \in Int, NEW y \in Int, mode \in {"arm", "thumb"} => (x - y) % 4 = 0
    PROVE  EffectivePc(x) - EffectivePc(y) = x - y
  <1> DEFINE k == (x - y) \div 4
  <1>a. k \in Int /\ (mode \in {"arm", "thumb"} => x = y + 4 * k)
    OBVIOUS
  <1>b. \A b, c \in Int : (b + 4 * c) % 4 = b % 4
    OBVIOUS
  <1> HIDE DEF k
  <1>1. CASE mode = "arm"
    <2>1. x + 8 = (y + 8) + 4 * k
      BY <1>1, <1>a
    <2>2. (x + 8) % 4 = (y + 8) % 4
      BY <1>a, <1>b, <2>1
    <2> QED BY <1>1, <2>2 DEF EffectivePc
  <1>2. CASE mode = "thumb"
    <2>1. x + 4 = (y + 4) + 4 * k
      BY <1>2, <1>a
    <2>2. (x + 4) % 4 = (y + 4) % 4
      BY <1>a, <1>b, <2>1
    <2> QED BY <1>2, <2>2 DEF EffectivePc
  <1>3. CASE mode \notin {"arm", "thumb"}
    BY <1>3 DEF EffectivePc
  <1> QED BY <1>1, <1>2, <1>3

(* Wherever the copy is, and however its prologue has changed, the block   *)
(* loads the closure pointer and the return address from where they were   *)
(* written (arch.rs 260-273).                                              *)
THEOREM BlockFindsItsPointers == Spec => []BlockFindsPointers
  <1>1. ASSUME JitInv, phase = "run"
        PROVE  IF mode = "x86"
               THEN /\ newMagic - (magic - AsmStart) + 1 = ClosurePtrAt
                    /\ newMagic - (magic - AsmStart) + 6 = ReturnAddrAt
               ELSE /\ AsmReads(0, 0) = thunk + ClosurePtrAt
                    /\ \A d \in {2, 4} : AsmReads(d, WordSize) = thunk + ReturnAddrAt
                    /\ (thunk + ClosurePtrAt) % MagicAlign[mode] = 0
    <2>1. /\ magic = MagicAt /\ magic \in Nat /\ start[Asm] \in Nat /\ AsmStart \in Nat
          /\ pc \in Nat /\ (pc + magic) % MagicAlign[mode] = 0
          /\ mode = "x86" => magic = AsmStart + 16
      BY <1>1, MagicAtRight, Layout DEF JitInv, SearchInv
    <2>2. /\ thunk \in Nat /\ newMagic \in Nat /\ MagicAlign[mode] \in {4, 8}
          /\ (thunk + newMagic) % MagicAlign[mode] = 0
      BY <1>1, Placed
    <2>3. CASE mode = "x86"
      BY <2>1, <2>2, <2>3 DEF ClosurePtrAt, ReturnAddrAt
    <2>4. CASE mode # "x86"
      <3>1. mode \in {"arm", "thumb"} => MagicAlign[mode] = 4
        BY <1>1, ArchitectureAssumption DEF JitInv, LayoutInv
      <3>2. ASSUME NEW d \in Nat, NEW w \in Nat
            PROVE  AsmReads(d, w) = thunk + newMagic + w
        <4> DEFINE here == start[Asm] + d
                   copied == newMagic - (magic - here)
                   x == thunk + copied
                   y == pc + here
        <4>1. AsmReads(d, w) = EffectivePc(x) + ((pc + magic + w) - EffectivePc(y))
          BY DEF AsmReads
        <4>2. x \in Int /\ y \in Int /\ x - y = (thunk + newMagic) - (pc + magic)
          BY <2>1, <2>2
        <4>3. mode \in {"arm", "thumb"} => (x - y) % 4 = 0
          <5>1. \A a, b \in Int : a % 4 = 0 /\ b % 4 = 0 => (a - b) % 4 = 0
            OBVIOUS
          <5>2. thunk + newMagic \in Int /\ pc + magic \in Int
            BY <2>1, <2>2
          <5> HIDE DEF x, y
          <5> QED BY <2>1, <2>2, <3>1, <4>2, <5>1, <5>2
        <4>5. EffectivePc(x) \in Int /\ EffectivePc(y) \in Int
          <5> HIDE DEF x, y
          <5>1. CASE mode = "arm"
            BY <4>2, <5>1 DEF EffectivePc
          <5>2. CASE mode = "thumb"
            BY <4>2, <5>2 DEF EffectivePc
          <5>3. CASE mode \notin {"arm", "thumb"}
            BY <4>2, <5>3 DEF EffectivePc
          <5> QED BY <5>1, <5>2, <5>3
        <4> HIDE DEF x, y
        <4>4. EffectivePc(x) - EffectivePc(y) = x - y
          BY <4>2, <4>3, EffectivePcApart
        <4> QED BY <2>1, <2>2, <4>1, <4>2, <4>4, <4>5
      <3>3. ClosurePtrAt = newMagic /\ ReturnAddrAt = newMagic + WordSize /\ WordSize \in Nat
        BY <2>2, <2>4 DEF ClosurePtrAt, ReturnAddrAt, WordSize
      <3>4. AsmReads(0, 0) = thunk + ClosurePtrAt
        BY <2>2, <3>2, <3>3
      <3>5. \A d \in {2, 4} : AsmReads(d, WordSize) = thunk + ReturnAddrAt
        BY <2>2, <3>2, <3>3
      <3> QED BY <2>2, <2>4, <3>3, <3>4, <3>5
    <2> QED BY <2>3, <2>4
  <1>2. JitInv => BlockFindsPointers
    BY <1>1 DEF BlockFindsPointers
  <1> QED BY <1>2, JitInvariant, PTL

(* The addresses that loads were replaced by are aligned for them.         *)
THEOREM LiteralsStayAligned == Spec => []LiteralsAligned
  <1>1. ASSUME JitInv, phase = "run", NEW p \in cow.pieces, p.kind = "literal"
        PROVE  (thunk + p.at) % MagicAlign[mode] = 0
    <2>1. (p.at - newMagic) % MagicAlign[mode] = 0 /\ p.at \in Nat
      BY <1>1 DEF JitInv, DoneInv, Spaced, Shaped, Buffer, Piece
    <2>2. /\ thunk \in Nat /\ newMagic \in Nat /\ MagicAlign[mode] \in {4, 8}
          /\ (thunk + newMagic) % MagicAlign[mode] = 0
      BY <1>1, Placed
    <2> DEFINE a == thunk + newMagic
               b == p.at - newMagic
               n == MagicAlign[mode]
    <2>3. a \in Int /\ b \in Int /\ a + b = thunk + p.at /\ n \in {4, 8} /\ a % n = 0 /\ b % n = 0
      BY <2>1, <2>2
    <2> HIDE DEF a, b, n
    <2>4. \A c, d \in Int : /\ c % 4 = 0 /\ d % 4 = 0 => (c + d) % 4 = 0
                           /\ c % 8 = 0 /\ d % 8 = 0 => (c + d) % 8 = 0
      OBVIOUS
    <2>5. (a + b) % n = 0
      <3>1. CASE n = 4
        BY <2>3, <2>4, <3>1
      <3>2. CASE n = 8
        BY <2>3, <2>4, <3>2
      <3> QED BY <2>3, <3>1, <3>2
    <2> QED BY <2>3, <2>5 DEF n
  <1>2. JitInv => LiteralsAligned
    BY <1>1 DEF LiteralsAligned
  <1> QED BY <1>2, JitInvariant, PTL

-----------------------------------------------------------------------------
(* How long a relocation takes *)

(* The ways a relocator moves on, if it follows no branch back.            *)
GoesAhead ==
    \/ phase' \in {"alloc", "panicked"}
    \/ /\ phase = "scan" /\ phase' = "scan"
       /\ cursor' \in (cursor + 1)..Asm
       /\ Len(extra') \in Nat /\ Len(extra') <= Len(extra) + 1
    \/ phase = "scan" /\ phase' \in {"pool", "encode"} /\ extra' = extra
    \/ phase = "pool" /\ phase' = "literals" /\ extra' = extra
    \/ /\ phase \in {"encode", "literals"} /\ phase' = phase /\ extra' = extra
       /\ cursor <= Len(extra) /\ cursor' = cursor + 1

LEMMA RelocatorGoesAhead ==
    ASSUME JitInv, Relocate, mode \in {"x86", "a64"} \/ NeverBack
    PROVE  phase \in RelocPhases /\ GoesAhead
  <1> USE DEF RelocPhases, GoesAhead
  <1>t. extra \in Seq(Put) /\ Len(extra) \in Nat /\ Asm \in Nat
    BY Layout DEF JitInv, TypeOK, Put
  <1>a. \A e : Len(Append(extra, e)) = Len(extra) + 1
    BY <1>t
  <1>p. \A n, a : Len(PutAside(n, a)) = Len(extra) + 1
    BY <1>a DEF PutAside
  <1>s. ASSUME phase = "scan", cursor < Asm
        PROVE  cursor + 1 \in (cursor + 1)..Asm
    BY <1>s, <1>t, AtInstruction
  <1>g. ASSUME phase = "scan", NEW i \in (cursor + 1)..Asm, Goto(i) PROVE GoesAhead
    BY <1>g, <1>t DEF Goto
  <1>1. CASE RelocateX86
    <2>1. CASE X86Invalid
      BY <2>1 DEF X86Invalid, Panic, Scanning
    <2>2. CASE X86Next
      BY <2>2, <1>s, <1>g DEF X86Next, Scanning
    <2>3. CASE X86CallPop
      <3>1. /\ phase = "scan" /\ cursor < Asm /\ cursor + 1 \in Prologue
            /\ cursor' = cursor + 2 /\ phase' = phase /\ Len(extra') = Len(extra) + 1
        BY <2>3, <1>a DEF X86CallPop, Scanning, Pairs
      <3>2. cursor \in Nat /\ Prologue = 1..(Asm - 1)
        BY <3>1, <1>t, AtInstruction DEF Prologue, Asm
      <3>3. cursor + 2 \in (cursor + 1)..Asm
        BY <3>1, <3>2, <1>t
      <3> QED BY <3>1, <3>3, <1>t
    <2>4. CASE X86Unsupported
      BY <2>4 DEF X86Unsupported, Panic, Scanning
    <2>5. CASE X86ReachAsm
      BY <2>5 DEF X86ReachAsm, Return, Scanning
    <2>6. CASE X86Encode
      BY <2>6 DEF X86Encode
    <2>7. CASE X86Finish
      BY <2>7 DEF X86Finish, Return
    <2> QED BY <1>1, <2>1, <2>2, <2>3, <2>4, <2>5, <2>6, <2>7 DEF RelocateX86
  <1>2. CASE RelocateAArch64
    <2>0. ASSUME Scanning("a64"), ~A64AtAsm PROVE phase = "scan" /\ cursor < Asm
      <3>1. cursor \in 1..Asm
        BY <2>0 DEF Scanning, JitInv, ScanInv
      <3> QED BY <2>0, <3>1, <1>t DEF Scanning, A64AtAsm
    <2>1. CASE A64ReachAsm
      BY <2>1 DEF A64ReachAsm, Return, relocVars, Scanning
    <2>2. CASE A64Ldr
      BY <2>2, <2>0, <1>s, <1>p, <1>t DEF A64Ldr
    <2>3. CASE A64Adr
      BY <2>3, <2>0, <1>s, <1>p, <1>t DEF A64Adr
    <2>4. CASE A64Branch
      <3>1. CASE Follows(cursor)
        <4>1. Goto(template[cursor].to) /\ phase = "scan" /\ cursor < Asm
          BY <2>0, <2>4, <3>1 DEF A64Branch
        <4>2. template[cursor].to \in 1..Asm /\ template[cursor].to > cursor
          BY <3>1 DEF Follows, Inside
        <4>3. template[cursor].to \in (cursor + 1)..Asm
          BY <4>1, <4>2, <1>t, AtInstruction
        <4> QED BY <4>1, <4>3, <1>g
      <3>2. CASE ~Follows(cursor)
        BY <2>0, <2>4, <3>2 DEF A64Branch, Panic
      <3> QED BY <3>1, <3>2
    <2>5. CASE A64Other
      <3>1. CASE template[cursor].op = "jump"
        BY <2>0, <2>5, <3>1 DEF A64Other, Panic
      <3>2. CASE template[cursor].op = "invalid"
        BY <2>0, <2>5, <3>2 DEF A64Other, Panic
      <3>3. CASE template[cursor].op \in {"plain", "vldr"}
        <4>1. Goto(cursor + 1)
          BY <2>5, <3>3 DEF A64Other
        <4> QED BY <2>0, <2>5, <4>1, <1>s, <1>g DEF A64Other
      <3>4. CASE template[cursor].op \notin {"jump", "invalid", "plain", "vldr"}
        BY <2>5, <3>4 DEF A64Other
      <3> QED BY <3>1, <3>2, <3>3, <3>4
    <2>6. CASE A64Pool
      BY <2>6 DEF A64Pool
    <2>7. CASE A64Literal
      BY <2>7 DEF A64Literal, Panic
    <2>8. CASE A64Finish
      BY <2>8 DEF A64Finish, Return
    <2> QED BY <1>2, <2>1, <2>2, <2>3, <2>4, <2>5, <2>6, <2>7, <2>8 DEF RelocateAArch64
  <1>3. CASE RelocateArm
    <2>0. ASSUME ScanningArm, ~ArmAtAsm PROVE phase = "scan" /\ cursor < Asm
      <3>1. cursor \in 1..Asm
        BY <2>0, ArmScan
      <3> QED BY <2>0, <3>1, <1>t DEF ScanningArm, ArmAtAsm
    <2>1. CASE ArmReachAsm
      BY <2>1 DEF ArmReachAsm, Return, relocVars, ScanningArm
    <2>2. CASE ArmBranch
      <3>1. phase = "scan" /\ cursor < Asm /\ mode \notin {"x86", "a64"} /\ Current.op = "b"
        BY <2>2 DEF ArmBranch, ScanningArm
      <3>2. cursor \in Prologue /\ cursor \in Nat
        BY <3>1, AtInstruction
      <3>3. CASE Inside(cursor)
        <4>1. template[cursor].to \in 1..Asm /\ template[cursor].to > cursor
          BY <3>1, <3>2, <3>3 DEF NeverBack, Inside, Current
        <4>2. template[cursor].to \in (cursor + 1)..Asm
          BY <4>1, <3>2, <1>t
        <4>3. Goto(template[cursor].to)
          BY <2>2, <3>3 DEF ArmBranch, Current
        <4> QED BY <3>1, <4>2, <4>3, <1>g
      <3>4. CASE ~Inside(cursor)
        <4>1. Goto(cursor + 1)
          BY <2>2, <3>4 DEF ArmBranch
        <4> QED BY <3>1, <4>1, <1>s, <1>g
      <3> QED BY ONLY <3>3, <3>4
    <2>3. CASE ArmPlain
      BY <2>3, <1>s, <1>g DEF ArmPlain, ScanningArm
    <2>4. CASE ArmUnsupported
      BY <2>4 DEF ArmUnsupported, Panic, ScanningArm
    <2>5. CASE ArmInvalid
      BY <2>5 DEF ArmInvalid, Panic, ScanningArm
    <2>6. CASE ArmOutOfOrder
      BY <2>6 DEF ArmOutOfOrder, Panic, ScanningArm
    <2>7. CASE ArmAdr
      BY <2>7, <1>s, <1>p, <1>t DEF ArmAdr, ScanningArm
    <2>8. CASE ArmLoad
      BY <2>8, <2>0, <1>s, <1>p, <1>t DEF ArmLoad
    <2>9. CASE ArmPool
      BY <2>9 DEF ArmPool
    <2>10. CASE ArmLiteral
      BY <2>10 DEF ArmLiteral, Panic
    <2>11. CASE ArmFinish
      BY <2>11 DEF ArmFinish, Return
    <2> QED BY <1>3, <2>1, <2>2, <2>3, <2>4, <2>5, <2>6, <2>7, <2>8, <2>9, <2>10, <2>11
            DEF RelocateArm
  <1> QED BY <1>1, <1>2, <1>3 DEF Relocate
(* An upper bound of the steps AllocatedThunk::new still takes.            *)
Literals == IF cursor > Len(extra) THEN 0 ELSE Len(extra) + 1 - cursor

StepsLeft ==
    IF phase = "search" THEN (MagicAt - magic) + 2 * Asm + 5
    ELSE IF phase = "scan" THEN 2 * (Asm - cursor) + Len(extra) + 6
    ELSE IF phase = "pool" THEN Len(extra) + 5
    ELSE IF phase \in {"encode", "literals"} THEN Literals + 3
    ELSE IF phase = "alloc" THEN 2 ELSE 0

LEMMA StepsLeftNat == JitInv => StepsLeft \in Nat
  <1> SUFFICES ASSUME JitInv PROVE StepsLeft \in Nat
    OBVIOUS
  <1>1. Len(extra) \in Nat /\ Asm \in Nat /\ cursor \in Nat
    BY Layout DEF JitInv, TypeOK
  <1>2. CASE phase = "search"
    <2>1. magic \in Nat /\ MagicAt \in Nat /\ magic <= MagicAt
      BY <1>2, MagicAtRight DEF JitInv, SearchInv
    <2> QED BY <1>1, <1>2, <2>1 DEF StepsLeft
  <1>3. CASE phase = "scan"
    <2>1. cursor <= Asm
      BY <1>1, <1>3 DEF JitInv, ScanInv
    <2> QED BY <1>1, <1>3, <2>1 DEF StepsLeft
  <1>4. CASE phase \notin {"search", "scan"}
    <2>1. Literals \in Nat
      BY <1>1 DEF Literals
    <2> QED BY <1>1, <1>4, <2>1 DEF StepsLeft
  <1> QED BY <1>2, <1>3, <1>4

LEMMA SearchComesNearer ==
    ASSUME JitInv, SearchMagic
    PROVE  StepsLeft' < StepsLeft
  <1>1. /\ phase = "search" /\ UNCHANGED <<templateVars, extra, cursor>>
        /\ extra = <<>> /\ cursor = 1 /\ magic \in Nat
    BY DEF SearchMagic, JitInv, SearchInv
  <1>2. Asm \in Nat /\ MagicAt \in Nat /\ MagicAlign[mode] \in {4, 8}
    BY Layout, MagicAtRight DEF JitInv
  <1>3. Asm' = Asm /\ MagicAt' = MagicAt /\ Len(extra)' = 0 /\ cursor' = 1
    BY <1>1, LayoutStays
  <1>4. CASE magic = MagicAt
    <2>1. phase' = "scan"
      BY <1>1, <1>4 DEF SearchMagic
    <2> QED BY <1>1, <1>2, <1>3, <1>4, <2>1 DEF StepsLeft
  <1>5. CASE magic # MagicAt
    <2>1. phase' = "search" /\ magic' = magic + MagicAlign[mode]
      BY <1>1, <1>5 DEF SearchMagic
    <2> QED BY <1>1, <1>2, <1>3, <2>1 DEF StepsLeft
  <1> QED BY <1>4, <1>5

LEMMA RelocatorComesNearer ==
    ASSUME JitInv, JitInv', Relocate, mode \in {"x86", "a64"} \/ NeverBack
    PROVE  StepsLeft' < StepsLeft
  <1> DEFINE n == Len(extra)
  <1>1. phase \in RelocPhases /\ GoesAhead
    BY RelocatorGoesAhead
  <1>2. n \in Nat /\ Asm \in Nat /\ cursor \in Nat /\ cursor > 0 /\ (phase = "scan" => cursor <= Asm)
    <2>1. extra \in Seq(Put) /\ cursor \in Nat \ {0} /\ Asm \in Nat
      BY Layout DEF JitInv, TypeOK, Put
    <2>2. phase = "scan" => cursor \in 1..Asm
      BY DEF JitInv, ScanInv
    <2> QED BY <2>1, <2>2
  <1>3. UNCHANGED templateVars
    BY DEF Relocate, RelocateX86, RelocateAArch64, RelocateArm
  <1>4. Asm' = Asm
    BY <1>3, LayoutStays
  <1>5. CASE phase' \in {"alloc", "panicked"}
    <2>1. StepsLeft' <= 2
      BY <1>5 DEF StepsLeft
    <2>2. Literals \in Nat
      BY <1>2 DEF Literals
    <2>3. StepsLeft \in Nat /\ StepsLeft >= 3
      BY <1>1, <1>2, <2>2 DEF StepsLeft, RelocPhases
    <2>4. StepsLeft' \in {0, 2}
      BY <1>5 DEF StepsLeft
    <2> QED BY <2>3, <2>4
  <1>6. CASE phase' \notin {"alloc", "panicked"}
    <2>1. CASE phase = "scan" /\ phase' = "scan"
      <3>1. /\ cursor' \in (cursor + 1)..Asm
            /\ Len(extra') \in Nat /\ Len(extra') <= n + 1
        BY <2>1, <1>1 DEF GoesAhead
      <3>2. StepsLeft' = 2 * (Asm - cursor') + Len(extra') + 6
        BY <2>1, <1>4 DEF StepsLeft
      <3>3. StepsLeft = 2 * (Asm - cursor) + n + 6
        BY <2>1 DEF StepsLeft
      <3> DEFINE m == Len(extra')
                 a == Asm
                 c == cursor
                 d == cursor'
      <3>4. /\ d \in Int /\ d >= c + 1 /\ m \in Int /\ m <= n + 1
            /\ n \in Int /\ a \in Int /\ c \in Int
        BY <1>2, <3>1
      <3> HIDE DEF n, m, a, c, d
      <3>5. 2 * (a - d) + m + 6 < 2 * (a - c) + n + 6
        BY ONLY <3>4
      <3> QED BY <3>2, <3>3, <3>5 DEF m, n, a, c, d
    <2>2. ASSUME Len(extra') = n PROVE Literals' \in Nat /\ Literals' <= n
      <3>1. Literals' = IF cursor' > n THEN 0 ELSE n + 1 - cursor'
        BY <2>2 DEF Literals
      <3> DEFINE c == cursor'
                 l == Literals'
      <3>2. c \in Nat \ {0}
        BY DEF JitInv, TypeOK
      <3>3. n \in Nat
        BY <1>2
      <3> HIDE DEF n, c, l
      <3>4. l = IF c > n THEN 0 ELSE n + 1 - c
        BY <3>1 DEF l, c
      <3>5. l \in Nat /\ l <= n
        BY ONLY <3>2, <3>3, <3>4
      <3> QED BY <3>5 DEF l
    <2>3. CASE phase = "scan" /\ phase' # "scan"
      <3>1. phase' \in {"pool", "encode"} /\ Len(extra') = n
        BY <2>3, <1>1, <1>6 DEF GoesAhead
      <3>2. StepsLeft' \in Nat /\ StepsLeft' <= n + 5
        BY <1>2, <2>2, <3>1 DEF StepsLeft
      <3>3. StepsLeft = 2 * (Asm - cursor) + n + 6
        BY <2>3 DEF StepsLeft
      <3> HIDE DEF n
      <3>4. n + 5 < 2 * (Asm - cursor) + n + 6
        BY <1>2, <2>3
      <3> QED BY <1>2, <3>2, <3>3, <3>4
    <2>4. CASE phase = "pool"
      <3>1. phase' = "literals" /\ Len(extra') = n
        BY <2>4, <1>1, <1>6 DEF GoesAhead
      <3> QED BY <1>2, <2>2, <2>4, <3>1 DEF StepsLeft
    <2>5. CASE phase \in {"encode", "literals"}
      <3>1. phase' = phase /\ extra' = extra /\ cursor <= n /\ cursor' = cursor + 1
        BY <2>5, <1>1, <1>6 DEF GoesAhead
      <3>2. Literals = n + 1 - cursor /\ Literals' \in {0, n - cursor}
        BY <1>2, <3>1 DEF Literals
      <3> DEFINE k == n - cursor
                 l == Literals
                 m == Literals'
      <3>3. k \in Nat /\ l = k + 1 /\ m \in {0, k}
        BY <1>2, <3>1, <3>2
      <3> HIDE DEF k, l, m
      <3>4. m + 3 < l + 3
        BY ONLY <3>3
      <3>5. StepsLeft = l + 3
        BY <2>5 DEF StepsLeft, l
      <3>6. StepsLeft' = m + 3
        BY <2>5, <3>1 DEF StepsLeft, m
      <3> QED BY ONLY <3>4, <3>5, <3>6
    <2> QED BY <1>1, <2>1, <2>3, <2>4, <2>5 DEF RelocPhases
  <1> QED BY <1>5, <1>6

(* Once begun, AllocatedThunk::new gets by every one of its steps nearer   *)
(* to its end, until the thunk is called: it takes at most MagicAt +       *)
(* 2 * Asm + 5 of them, on x86 and AArch64 whatever the template, on Arm   *)
(* if no branch inside it goes back (aarch64.rs 67-76, arm.rs 47-57).      *)
THEOREM RelocationsAreShort ==
    Spec => /\ [](StepsLeft \in Nat)
            /\ [](phase = "search" => StepsLeft <= MagicAt + 2 * Asm + 5)
            /\ [][/\ phase \notin {"compile", "run"}
                  /\ mode \in {"x86", "a64"} \/ NeverBack
                  => StepsLeft' < StepsLeft]_vars
  <1>1. JitInv => StepsLeft \in Nat
    BY StepsLeftNat
  <1>2. JitInv => (phase = "search" => StepsLeft <= MagicAt + 2 * Asm + 5)
    <2> SUFFICES ASSUME JitInv, phase = "search" PROVE StepsLeft <= MagicAt + 2 * Asm + 5
      OBVIOUS
    <2>1. magic \in Nat /\ MagicAt \in Nat /\ Asm \in Nat
      BY Layout, MagicAtRight DEF JitInv, TypeOK
    <2> QED BY <2>1 DEF StepsLeft
  <1>3. JitInv /\ JitInv' /\ [Next]_vars =>
           [/\ phase \notin {"compile", "run"}
            /\ mode \in {"x86", "a64"} \/ NeverBack
            => StepsLeft' < StepsLeft]_vars
    <2> SUFFICES ASSUME JitInv, JitInv', Next, phase \notin {"compile", "run"},
                        mode \in {"x86", "a64"} \/ NeverBack
                 PROVE  StepsLeft' < StepsLeft
      OBVIOUS
    <2>1. CASE SearchMagic
      BY <2>1, SearchComesNearer
    <2>2. CASE Relocate
      BY <2>2, RelocatorComesNearer
    <2>3. CASE AllocThunk
      <3>1. phase = "alloc" /\ phase' = "run"
        BY <2>3 DEF AllocThunk
      <3> QED BY <3>1 DEF StepsLeft
    <2> QED BY <2>1, <2>2, <2>3 DEF Next, Compile, BeginSearch, Run
  <1> QED BY <1>1, <1>2, <1>3, JitInvariant, PTL DEF Spec
=============================================================================
