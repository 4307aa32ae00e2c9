--------------------------- MODULE RelocX64Proofs ---------------------------
(***************************************************************************)
(* Proofs about the x86_64 relocator, for prologues of any length over any *)
(* registers: jumps over nothing that grows arrive, the copy computes what *)
(* the template computes unless a jump revives a dead register, and a      *)
(* short prologue is refused for a reason only.                            *)
(***************************************************************************)
EXTENDS RelocX64, TLAPS

USE RegistersAssumption, InstructionsAssumption

(* A set of registers that is not empty has a lowest one.                  *)
LEMMA LowestIn ==
    ASSUME NEW s, s \subseteq Registers, s # {}
    PROVE  Lowest(s) \in s
  <1>1. \A r \in s : r \in 0..15
    OBVIOUS
  <1>2. \E r \in s : \A q \in s : r <= q
    <2> SUFFICES ASSUME \A r \in s : \E q \in s : q < r PROVE FALSE
      BY <1>1
    <2>1. 0 \notin s /\ 1 \notin s /\ 2 \notin s /\ 3 \notin s
      BY <1>1
    <2>2. 4 \notin s /\ 5 \notin s /\ 6 \notin s /\ 7 \notin s
      BY <1>1, <2>1
    <2>3. 8 \notin s /\ 9 \notin s /\ 10 \notin s /\ 11 \notin s
      BY <1>1, <2>1, <2>2
    <2>4. 12 \notin s /\ 13 \notin s /\ 14 \notin s /\ 15 \notin s
      BY <1>1, <2>1, <2>2, <2>3
    <2>5. PICK r : r \in s
      OBVIOUS
    <2> QED BY <1>1, <2>1, <2>2, <2>3, <2>4, <2>5
  <1> QED BY <1>2 DEF Lowest

-----------------------------------------------------------------------------
(* A dead register is not read, and stays dead until it is overwritten.    *)
LEMMA DeadStep ==
    ASSUME Len(template) \in Nat, NEW r \in Registers, NEW i \in Prologue, Dead(r, i)
    PROVE  /\ r \notin template[i].reads
           /\ r \notin template[i].writes => Dead(r, i + 1)
  <1>1. PICK j \in i..Asm :
           /\ j = Asm => r = clReg
           /\ j # Asm => r \in template[j].writes \ template[j].reads
           /\ \A k \in i..(j - 1) : r \notin template[k].reads
    BY DEF Dead
  <1>2. CASE j = i
    BY <1>1, <1>2 DEF Prologue, Asm
  <1>3. CASE j # i
    <2>1. j \in (i + 1)..Asm /\ i \in i..(j - 1)
      BY <1>3 DEF Prologue, Asm
    <2>2. \A k \in (i + 1)..(j - 1) : k \in i..(j - 1)
      BY DEF Prologue
    <2> QED BY <1>1, <2>1, <2>2 DEF Dead
  <1> QED BY <1>2, <1>3

(* A register is dead if it is overwritten, or is dead behind and not read.*)
LEMMA DeadBefore ==
    ASSUME Len(template) \in Nat, NEW r \in Registers, NEW i \in Prologue,
           r \notin template[i].reads,
           r \in template[i].writes \/ Dead(r, i + 1)
    PROVE  Dead(r, i)
  <1>1. CASE r \in template[i].writes
    <2>1. i \in i..Asm /\ i # Asm /\ i..(i - 1) = {}
      BY DEF Prologue, Asm
    <2> QED BY <1>1, <2>1 DEF Dead
  <1>2. CASE Dead(r, i + 1)
    <2>1. PICK j \in (i + 1)..Asm :
             /\ j = Asm => r = clReg
             /\ j # Asm => r \in template[j].writes \ template[j].reads
             /\ \A k \in (i + 1)..(j - 1) : r \notin template[k].reads
      BY <1>2 DEF Dead
    <2>2. j \in i..Asm /\ \A k \in i..(j - 1) : k = i \/ k \in (i + 1)..(j - 1)
      BY <2>1 DEF Prologue, Asm
    <2> QED BY <2>1, <2>2 DEF Dead
  <1> QED BY <1>1, <1>2

(* At the _thunk_asm block only the register it overwrites is dead.        *)
LEMMA DeadAtAsm ==
    ASSUME Len(template) \in Nat, NEW r \in Registers
    PROVE  Dead(r, Asm) <=> r = clReg
  <1>1. Asm..Asm = {Asm} /\ Asm..(Asm - 1) = {}
    BY DEF Asm
  <1> QED BY <1>1 DEF Dead

-----------------------------------------------------------------------------
(* Jumps.  Without an instruction that is lengthened between them, two     *)
(* instructions are as far apart in the copy as in the template.           *)
Unchanged(i, j) == \A k \in i..(j - 1) : ~NeedsReloc(k)

AsFarApart(f, n) ==
    \A i, j \in 1..n : i <= j /\ Unchanged(i, j) => f[j] - f[i] = start[j] - start[i]

Spared == \A i \in Prologue : IsJcc(i) => Between(i, template[i].to) \cap Relocations = {}

(* How far the decoder has come.                                           *)
StartInv ==
    /\ phase = "decode" => \A k \in 1..(cursor - 1) : start[k + 1] = start[k] + template[k].len
    /\ phase \in {"scan", "encode"} =>
          \A k \in Prologue : start[k + 1] = start[k] + template[k].len
    /\ start[1] = 0

(* How far the copy has come.                                              *)
PlaceInv ==
    /\ phase \in {"decode", "scan"} => place = <<>> /\ size = 0
    /\ phase = "encode" =>
          /\ Len(place) = cursor - 1
          /\ Append(place, size)[1] = 0
          /\ AsFarApart(Append(place, size), cursor)
    /\ phase = "run" =>
          /\ Len(place) = Asm
          /\ place[1] = 0
          /\ AsFarApart(place, Asm)

(* Where the template and the copy are.                                    *)
JumpInv ==
    /\ phase \in {"scan", "encode", "run"} => \A i \in Prologue : ~Leaves(i)
    /\ phase # "run" => at = 1 /\ ip = 0
    /\ phase = "run" /\ Spared => ip = place[at]

(* What a panic says of the template: until the backward pass, that an     *)
(* instruction is not supported; in it, that no register is dead, as every *)
(* dead one is found.                                                      *)
FoundInv ==
    /\ phase = "decode" => \A i \in 1..(cursor - 1) : Refusal(i) = "none"
    /\ phase # "panicked" => error = "none"
    /\ phase = "scan" =>
          /\ cursor \in Prologue
          /\ Len(template) <= AsmLength + 1 =>
                \A r \in Registers :
                    Dead(r, cursor + 1) => gprOps[r].kind = "Write" /\ gprOps[r].at >= cursor - 1
    /\ ShortRelocated

PlacedInv ==
    /\ TypeOK
    /\ StartInv
    /\ PlaceInv
    /\ JumpInv
    /\ FoundInv

(* A step of the relocator or of the run does not change the template.     *)
LEMMA TemplateKept ==
    ASSUME [Next]_vars
    PROVE  /\ template' = template /\ clReg' = clReg /\ Asm' = Asm /\ Prologue' = Prologue
           /\ \A r, i : Dead(r, i)' <=> Dead(r, i)
           /\ \A i : (Leaves(i)' <=> Leaves(i)) /\ (NeedsReloc(i)' <=> NeedsReloc(i))
           /\ \A i : Refusal(i)' = Refusal(i)
           /\ \A i, j : Unchanged(i, j)' <=> Unchanged(i, j)
           /\ (Spared' <=> Spared) /\ (Relocatable' <=> Relocatable)
           /\ (Overflows' <=> Overflows)
  <1>1. template' = template /\ clReg' = clReg
    BY DEF Next, Decode, ReachAsm, Scan, Encode, AppendAsm, Run, vars
  <1>2. Asm' = Asm /\ Prologue' = Prologue
    BY <1>1 DEF Asm, Prologue
  <1>3. \A r, i : Dead(r, i)' <=> Dead(r, i)
    BY <1>1, <1>2 DEF Dead
  <1>4. \A i : (Leaves(i)' <=> Leaves(i)) /\ (NeedsReloc(i)' <=> NeedsReloc(i))
               /\ (IsJcc(i)' <=> IsJcc(i))
    BY <1>1, <1>2 DEF Leaves, NeedsReloc, IsJcc
  <1>5. \A i : Refusal(i)' = Refusal(i)
    BY <1>1 DEF Refusal
  <1>6. \A i, j : Unchanged(i, j)' <=> Unchanged(i, j)
    BY <1>4 DEF Unchanged
  <1>7. Relocations' = Relocations
    BY <1>2, <1>4 DEF Relocations
  <1>8. Spared' <=> Spared
    BY <1>1, <1>2, <1>4, <1>7 DEF Spared, Between
  <1>9. Relocatable' <=> Relocatable
    BY <1>1, <1>2, <1>3, <1>4, <1>7 DEF Relocatable
  <1>10. Overflows' <=> Overflows
    BY <1>1, <1>2 DEF Overflows
  <1> QED BY <1>1, <1>2, <1>3, <1>4, <1>5, <1>6, <1>8, <1>9, <1>10

(* What the type invariant says of the template.                           *)
LEMMA TemplateTyped ==
    ASSUME TypeOK
    PROVE  /\ Len(template) \in Nat /\ Asm \in Nat /\ Asm = Len(template) + 1
           /\ Prologue = 1..Len(template)
           /\ \A i \in Prologue : template[i] \in Instruction /\ i + 1 \in 1..Asm /\ i \in 1..Asm
  BY DEF TypeOK, Asm, Prologue

LEMMA PlacedInit == Init => PlacedInv
  <1> SUFFICES ASSUME Init PROVE PlacedInv
    OBVIOUS
  <1>1. PICK n \in 0..MaxLength : template \in [1..n -> Instructions]
    BY DEF Init
  <1>2. template \in Seq(Instructions) /\ Len(template) = n
    BY <1>1
  <1>3. Asm \in Nat /\ 1 \in 1..Asm
    BY <1>2 DEF Asm
  <1>4. TypeOK
    BY <1>2, <1>3 DEF Init, TypeOK
  <1>5. StartInv /\ PlaceInv /\ JumpInv
    BY <1>3 DEF Init, StartInv, PlaceInv, JumpInv
  <1>6. FoundInv
    BY DEF Init, FoundInv, ShortRelocated, PanicsOnlyIfBroken
  <1> QED BY <1>4, <1>5, <1>6 DEF PlacedInv

(* One instruction is appended to the copy.                                *)
LEMMA OneFurther ==
    ASSUME TypeOK, cursor \in Prologue, Len(place) = cursor - 1,
           \A k \in Prologue : start[k + 1] = start[k] + template[k].len,
           AsFarApart(Append(place, size), cursor),
           NEW n \in Nat, ~NeedsReloc(cursor) => n = template[cursor].len
    PROVE  AsFarApart(Append(Append(place, size), size + n), cursor + 1)
  <1> DEFINE f == Append(place, size)
             g == Append(f, size + n)
  <1>0. /\ place \in Seq(Nat) /\ size \in Nat /\ start \in [1..Asm -> Nat]
        /\ Asm \in Nat /\ cursor \in Nat /\ cursor >= 1 /\ cursor + 1 <= Asm
    BY TemplateTyped DEF TypeOK
  <1>1. /\ f \in Seq(Nat) /\ Len(f) = cursor /\ f[cursor] = size
        /\ g \in Seq(Nat) /\ Len(g) = cursor + 1 /\ g[cursor + 1] = size + n
        /\ \A i \in 1..cursor : g[i] = f[i] /\ f[i] \in Nat
        /\ cursor \in Nat /\ cursor >= 1
    <2>1. f \in Seq(Nat) /\ Len(f) = cursor /\ f[cursor] = size
      BY <1>0
    <2> HIDE DEF f
    <2>2. g \in Seq(Nat) /\ Len(g) = cursor + 1 /\ g[cursor + 1] = size + n
          /\ \A i \in 1..cursor : g[i] = f[i]
      BY <1>0, <2>1
    <2>3. \A i \in 1..cursor : f[i] \in Nat
      BY <2>1
    <2> HIDE DEF g
    <2> QED BY <1>0, <2>1, <2>2, <2>3
  <1>2. \A i \in 1..(cursor + 1) : i \in 1..Asm /\ start[i] \in Nat
    BY <1>0
  <1> HIDE DEF f, g
  <1> SUFFICES ASSUME NEW i \in 1..(cursor + 1), NEW j \in 1..(cursor + 1), i <= j,
                      Unchanged(i, j)
               PROVE  g[j] - g[i] = start[j] - start[i]
    BY DEF AsFarApart, f, g
  <1>3. CASE j <= cursor
    <2>1. i \in 1..cursor /\ j \in 1..cursor
      BY <1>1, <1>3
    <2>2. f[j] - f[i] = start[j] - start[i]
      BY <2>1 DEF AsFarApart, f
    <2> QED BY <1>1, <2>1, <2>2
  <1>4. CASE j = cursor + 1 /\ i = j
    BY <1>1, <1>2, <1>4
  <1>5. CASE j = cursor + 1 /\ i # j
    <2>1. i \in 1..cursor /\ cursor \in i..(j - 1)
      BY <1>1, <1>5
    <2>2. ~NeedsReloc(cursor) /\ Unchanged(i, cursor)
      BY <1>1, <1>5, <2>1 DEF Unchanged
    <2>3. f[cursor] - f[i] = start[cursor] - start[i]
      BY <1>1, <2>1, <2>2 DEF AsFarApart, f
    <2>4. start[cursor + 1] = start[cursor] + n
      BY <2>2
    <2>5. /\ g[i] = f[i] /\ g[j] = f[cursor] + n /\ j = cursor + 1
          /\ f[i] \in Nat /\ f[cursor] \in Nat
      BY <1>1, <1>5, <2>1
    <2>6. start[i] \in Nat /\ start[cursor] \in Nat
      BY <1>0, <1>2
    <2>7. f[cursor] + n - f[i] = start[cursor] + n - start[i]
      <3>1. /\ f[cursor] \in Int /\ f[i] \in Int /\ start[cursor] \in Int /\ start[i] \in Int
            /\ n \in Int
        BY <2>5, <2>6
      <3>2. f[cursor] - f[i] = start[cursor] - start[i]
        BY <2>3
      <3> QED BY ONLY <3>1, <3>2
    <2>8. g[j] - g[i] = f[cursor] + n - f[i]
      BY <2>5
    <2>9. start[j] - start[i] = start[cursor] + n - start[i]
      BY <2>4, <2>5, <2>6
    <2> QED BY <2>7, <2>8, <2>9
  <1> QED BY <1>1, <1>3, <1>4, <1>5

(* A spared jump is as long in the copy as it is in the template.          *)
LEMMA SparedJump ==
    ASSUME TypeOK, Len(place) = Asm, AsFarApart(place, Asm),
           NEW i \in Prologue, IsJcc(i), ~Leaves(i),
           Between(i, template[i].to) \cap Relocations = {}
    PROVE  place[i + 1] + Target(i) - start[i + 1] = place[template[i].to]
  <1> DEFINE t == template[i].to
  <1>1. /\ t \in 1..Asm /\ i \in Nat /\ i + 1 \in 1..Asm
        /\ place[t] \in Nat /\ place[i + 1] \in Nat /\ start[t] \in Nat /\ start[i + 1] \in Nat
    <2>1. t \in Nat
      BY TemplateTyped DEF Instruction
    <2>2. t # 0 /\ ~(t > Asm)
      BY DEF Leaves
    <2>3. t \in 1..Asm /\ i \in Nat /\ i + 1 \in 1..Asm
      BY <2>1, <2>2, TemplateTyped
    <2>4. place \in Seq(Nat) /\ start \in [1..Asm -> Nat]
      BY DEF TypeOK
    <2> QED BY <2>3, <2>4
  <1>2. \A k \in Between(i, t) : ~NeedsReloc(k)
    BY DEF Relocations, Between
  <1>3. ~NeedsReloc(i) /\ Target(i) = start[t]
    BY <1>1 DEF IsJcc, NeedsReloc, Target
  <1> HIDE DEF t
  <1>4. CASE i + 1 <= t
    <2>1. Unchanged(i + 1, t)
      <3> SUFFICES ASSUME NEW k \in (i + 1)..(t - 1) PROVE ~NeedsReloc(k)
        BY DEF Unchanged
      <3>1. k \in Prologue /\ i < k /\ k < t
        BY <1>1, TemplateTyped
      <3> QED BY <3>1, <1>2 DEF Between
    <2>2. place[t] - place[i + 1] = start[t] - start[i + 1]
      BY <1>1, <1>4, <2>1 DEF AsFarApart
    <2>3. place[i + 1] + Target(i) - start[i + 1] = place[t]
      BY <1>1, <1>3, <2>2
    <2> QED BY <2>3 DEF t
  <1>5. CASE t < i + 1
    <2>1. Unchanged(t, i + 1)
      <3> SUFFICES ASSUME NEW k \in t..i PROVE ~NeedsReloc(k)
        BY <1>1 DEF Unchanged
      <3>1. CASE k = i
        BY <1>3, <3>1
      <3>2. CASE k # i
        <4>1. k \in Prologue /\ t <= k /\ k < i
          BY <1>1, <3>2, TemplateTyped
        <4> QED BY <4>1, <1>2 DEF Between
      <3> QED BY <3>1, <3>2
    <2>2. place[i + 1] - place[t] = start[i + 1] - start[t]
      BY <1>1, <1>5, <2>1 DEF AsFarApart
    <2>3. place[i + 1] + Target(i) - start[i + 1] = place[t]
      BY <1>1, <1>3, <2>2
    <2> QED BY <2>3 DEF t
  <1> QED BY <1>1, <1>4, <1>5

LEMMA DecodePlaced == PlacedInv /\ Decode => PlacedInv'
  <1> SUFFICES ASSUME PlacedInv, Decode PROVE PlacedInv'
    OBVIOUS
  <1>s. [Next]_vars
    BY DEF Next
  <1>1. /\ UNCHANGED <<template, clReg, gprOps, base, place, size, at, ip, dirty>>
        /\ phase = "decode" /\ cursor < Asm /\ place = <<>> /\ size = 0 /\ at = 1 /\ ip = 0
        /\ \A k \in 1..(cursor - 1) : start[k + 1] = start[k] + template[k].len
        /\ start[1] = 0 /\ TypeOK /\ cursor \in Prologue
    <2>1. TypeOK /\ cursor < Asm
      BY DEF PlacedInv, Decode
    <2>2. cursor \in Prologue
      BY <2>1, TemplateTyped DEF TypeOK
    <2> QED BY <2>1, <2>2 DEF PlacedInv, StartInv, PlaceInv, JumpInv, Decode, Panic, runVars
  <1>2. CASE Refusal(cursor) # "none"
    <2>1. UNCHANGED <<cursor, start>> /\ phase' = "panicked" /\ error' = Refusal(cursor)
      BY <1>2 DEF Decode, Panic
    <2>2. error' \in {"InvalidInstruction", "UnsupportedInstruction", "Overflow"}
      BY <1>2, <2>1 DEF Refusal
    <2>3. TypeOK'
      BY <1>1, <2>1, <2>2, TemplateKept, <1>s DEF TypeOK
    <2>4. StartInv' /\ PlaceInv' /\ JumpInv'
      BY <1>1, <2>1, TemplateKept, <1>s DEF StartInv, PlaceInv, JumpInv
    <2>5. ~Overflows => ~Relocatable
      <3>1. template[cursor].op \in {"invalid", "other"} \/ Overflows
        BY <1>1, <1>2 DEF Refusal, Overflows
      <3> QED BY <1>1, <3>1 DEF Relocatable
    <2>6. FoundInv'
      BY <1>1, <2>1, <2>5, TemplateKept, <1>s DEF FoundInv, ShortRelocated, PanicsOnlyIfBroken
    <2> QED BY <2>3, <2>4, <2>6 DEF PlacedInv
  <1>3. CASE Refusal(cursor) = "none"
    <2>1. /\ cursor' = cursor + 1 /\ UNCHANGED <<phase, error>>
          /\ start' = [start EXCEPT ![cursor + 1] = start[cursor] + template[cursor].len]
      BY <1>3 DEF Decode
    <2>2. /\ start \in [1..Asm -> Nat] /\ Asm \in Nat /\ cursor \in Nat /\ cursor >= 1
          /\ cursor + 1 \in 1..Asm /\ template[cursor].len \in Nat
      BY <1>1, TemplateTyped DEF TypeOK, Instruction
    <2>3. /\ start' \in [1..Asm -> Nat]
          /\ start'[cursor + 1] = start[cursor] + template[cursor].len
          /\ \A k \in 1..cursor : start'[k] = start[k]
      <3>1. start[cursor] + template[cursor].len \in Nat
        BY <2>2
      <3> QED BY <2>1, <2>2, <3>1
    <2>4. TypeOK'
      BY <1>1, <2>1, <2>2, <2>3, TemplateKept, <1>s DEF TypeOK
    <2>5. StartInv'
      <3>1. start'[1] = 0
        <4>1. 1 \in 1..cursor
          BY <2>2
        <4> QED BY <4>1, <1>1, <2>3
      <3>2. ASSUME NEW k \in 1..(cursor' - 1) PROVE start'[k + 1] = start'[k] + template[k].len
        <4>1. CASE k = cursor
          BY <2>2, <2>3, <4>1
        <4>2. CASE k # cursor
          <5>1. k \in 1..(cursor - 1) /\ k \in 1..cursor /\ k + 1 \in 1..cursor
            BY <2>1, <2>2, <4>2
          <5> QED BY <5>1, <1>1, <2>3
        <4> QED BY <4>1, <4>2
      <3> QED BY <1>1, <2>1, <3>1, <3>2, TemplateKept, <1>s DEF StartInv
    <2>6. PlaceInv' /\ JumpInv'
      BY <1>1, <2>1, TemplateKept, <1>s DEF PlaceInv, JumpInv
    <2>7. FoundInv'
      <3>1. \A i \in 1..(cursor' - 1) : Refusal(i) = "none"
        <4>1. \A i \in 1..(cursor' - 1) : i = cursor \/ i \in 1..(cursor - 1)
          BY <2>1, <2>2
        <4> QED BY <1>1, <1>3, <4>1 DEF PlacedInv, FoundInv
      <3>2. \A i \in 1..(cursor' - 1) : Refusal(i)' = "none"
        BY <3>1, TemplateKept, <1>s
      <3> QED BY <1>1, <2>1, <3>2 DEF PlacedInv, FoundInv, ShortRelocated, PanicsOnlyIfBroken
    <2> QED BY <2>4, <2>5, <2>6, <2>7 DEF PlacedInv
  <1> QED BY <1>2, <1>3

(* With nothing to relocate, the copy is the template.                     *)
LEMMA ReachAsmPlaced == PlacedInv /\ ReachAsm => PlacedInv'
  <1> SUFFICES ASSUME PlacedInv, ReachAsm PROVE PlacedInv'
    OBVIOUS
  <1>s. [Next]_vars
    BY DEF Next
  <1>1. /\ UNCHANGED <<template, clReg, start, base, at, ip, dirty>>
        /\ phase = "decode" /\ cursor = Asm /\ place = <<>> /\ size = 0 /\ at = 1 /\ ip = 0
        /\ \A k \in 1..(cursor - 1) : start[k + 1] = start[k] + template[k].len
        /\ start[1] = 0 /\ TypeOK /\ error = "none"
    BY DEF PlacedInv, StartInv, PlaceInv, JumpInv, FoundInv, ReachAsm, Panic, runVars
  <1>2. /\ Asm \in Nat /\ Asm = Len(template) + 1 /\ Prologue = 1..Len(template)
        /\ Asm >= 1 /\ Len(template) \in Nat /\ Prologue = 1..(cursor - 1)
        /\ start \in [1..Asm -> Nat] /\ 1 \in 1..Asm /\ Asm \in 1..Asm
    BY <1>1, TemplateTyped DEF TypeOK
  <1>3. StartInv'
    <2>1. phase' # "decode"
      BY DEF ReachAsm, Panic
    <2>2. \A k \in Prologue : start'[k + 1] = start'[k] + template'[k].len
      BY <1>1, <1>2, TemplateKept, <1>s
    <2> QED BY <1>1, <2>1, <2>2, TemplateKept, <1>s DEF StartInv
  <1>4. CASE \E i \in Prologue : Leaves(i)
    <2>1. UNCHANGED <<cursor, gprOps, place, size>> /\ phase' = "panicked"
          /\ error' = "UnsupportedControlFlow"
      BY <1>4 DEF ReachAsm, Panic
    <2>2. TypeOK'
      BY <1>1, <2>1, TemplateKept, <1>s DEF TypeOK
    <2>3. PlaceInv' /\ JumpInv'
      BY <1>1, <2>1, TemplateKept, <1>s DEF PlaceInv, JumpInv
    <2>4. ~Relocatable
      BY <1>4 DEF Relocatable
    <2>5. FoundInv'
      BY <2>1, <2>4, TemplateKept, <1>s DEF FoundInv, ShortRelocated, PanicsOnlyIfBroken
    <2> QED BY <1>3, <2>2, <2>3, <2>5 DEF PlacedInv
  <1>5. CASE ~(\E i \in Prologue : Leaves(i)) /\ Relocations = {}
    <2>1. UNCHANGED <<error, cursor, gprOps>> /\ phase' = "run" /\ place' = start /\ size' = start[Asm]
      BY <1>5 DEF ReachAsm
    <2>2. start \in Seq(Nat) /\ Len(start) = Asm /\ start[Asm] \in Nat
      BY <1>2
    <2>3. TypeOK'
      BY <1>1, <2>1, <2>2, TemplateKept, <1>s DEF TypeOK
    <2>4. PlaceInv'
      BY <1>1, <2>1, <2>2, TemplateKept, <1>s DEF PlaceInv, AsFarApart
    <2>5. JumpInv'
      BY <1>1, <1>5, <2>1, TemplateKept, <1>s DEF JumpInv
    <2>6. FoundInv'
      BY <1>1, <2>1, TemplateKept, <1>s DEF FoundInv, ShortRelocated, PanicsOnlyIfBroken
    <2> QED BY <1>3, <2>3, <2>4, <2>5, <2>6 DEF PlacedInv
  <1>6. CASE ~(\E i \in Prologue : Leaves(i)) /\ Relocations # {}
    <2>1. /\ UNCHANGED <<error, place, size>> /\ phase' = "scan" /\ cursor' = Asm - 1
          /\ gprOps' = [gprOps EXCEPT ![clReg] = [kind |-> "Write", at |-> AsmLength]]
      BY <1>6 DEF ReachAsm
    <2>2. Prologue # {}
      BY <1>6 DEF Relocations
    <2>3. cursor' \in Prologue /\ cursor' \in 1..Asm /\ cursor' + 1 = Asm
          /\ cursor' - 1 = Len(template) - 1
      BY <1>2, <2>1, <2>2
    <2>4. clReg \in Registers /\ gprOps \in [Registers -> [kind : {"None", "Read", "Write"}, at : Nat]]
          /\ AsmLength \in Nat
      BY <1>1 DEF TypeOK
    <2>5. gprOps' \in [Registers -> [kind : {"None", "Read", "Write"}, at : Nat]]
          /\ gprOps'[clReg] = [kind |-> "Write", at |-> AsmLength]
      BY <2>1, <2>4
    <2>6. TypeOK'
      BY <1>1, <2>1, <2>3, <2>5, TemplateKept, <1>s DEF TypeOK
    <2>7. PlaceInv' /\ JumpInv'
      BY <1>1, <1>6, <2>1, TemplateKept, <1>s DEF PlaceInv, JumpInv
    <2>8. FoundInv'
      <3>1. ASSUME Len(template) <= AsmLength + 1, NEW r \in Registers, Dead(r, cursor' + 1)
            PROVE  gprOps'[r].kind = "Write" /\ gprOps'[r].at >= cursor' - 1
        <4>1. r = clReg
          BY <1>2, <2>3, <3>1, DeadAtAsm
        <4> QED BY <1>2, <2>3, <2>4, <2>5, <3>1, <4>1
      <3>2. (cursor \in Prologue)'
        BY <2>3, TemplateKept, <1>s
      <3>3. \A r \in Registers : Dead(r, cursor + 1)' <=> Dead(r, cursor' + 1)
        BY <1>s, TemplateKept DEF Dead
      <3>4. (Len(template) <= AsmLength + 1 =>
               \A r \in Registers :
                  Dead(r, cursor + 1) => gprOps[r].kind = "Write" /\ gprOps[r].at >= cursor - 1)'
        BY <3>1, <3>3, TemplateKept, <1>s
      <3> QED BY <1>1, <2>1, <3>2, <3>4 DEF FoundInv, ShortRelocated, PanicsOnlyIfBroken
    <2> QED BY <1>3, <2>6, <2>7, <2>8 DEF PlacedInv
  <1> QED BY <1>4, <1>5, <1>6

(* The backward pass finds every register that is dead.                    *)
LEMMA DeadFound ==
    ASSUME TypeOK, cursor \in Prologue, NEW r \in Registers, Dead(r, cursor),
           Dead(r, cursor + 1) => gprOps[r].kind = "Write" /\ gprOps[r].at >= cursor - 1
    PROVE  Visit(r).kind = "Write" /\ Visit(r).at >= cursor - 1
  <1>1. r \notin template[cursor].reads /\ (r \notin template[cursor].writes => Dead(r, cursor + 1))
    BY TemplateTyped, DeadStep
  <1>2. cursor \in Nat
    BY TemplateTyped
  <1> QED BY <1>1, <1>2 DEF Visit

LEMMA ScanPlaced == PlacedInv /\ Scan => PlacedInv'
  <1> SUFFICES ASSUME PlacedInv, Scan PROVE PlacedInv'
    OBVIOUS
  <1>s. [Next]_vars
    BY DEF Next
  <1> DEFINE ops == [r \in Registers |-> Visit(r)]
  <1>1. /\ UNCHANGED <<template, clReg, start, place, size, at, ip, dirty>>
        /\ phase = "scan" /\ place = <<>> /\ size = 0 /\ at = 1 /\ ip = 0
        /\ TypeOK /\ error = "none" /\ cursor \in Prologue
        /\ phase' \in {"scan", "encode", "panicked"}
    BY DEF PlacedInv, PlaceInv, JumpInv, FoundInv, Scan, Panic, runVars
  <1>2. /\ Asm \in Nat /\ Asm = Len(template) + 1 /\ Prologue = 1..Len(template)
        /\ Len(template) \in Nat /\ cursor \in Nat /\ cursor >= 1 /\ cursor <= Len(template)
    BY <1>1, TemplateTyped
  <1>3. StartInv'
    BY <1>1, TemplateKept, <1>s DEF PlacedInv, StartInv
  <1>4. ops \in [Registers -> [kind : {"None", "Read", "Write"}, at : Nat]]
    BY <1>1, <1>2 DEF Visit, TypeOK
  <1>5. Len(template) <= AsmLength + 1 =>
           \A r \in Registers : Dead(r, cursor) => ops[r].kind = "Write" /\ ops[r].at >= cursor - 1
    <2> SUFFICES ASSUME Len(template) <= AsmLength + 1, NEW r \in Registers, Dead(r, cursor)
                 PROVE  ops[r].kind = "Write" /\ ops[r].at >= cursor - 1
      OBVIOUS
    <2>1. Dead(r, cursor + 1) => gprOps[r].kind = "Write" /\ gprOps[r].at >= cursor - 1
      BY <1>1 DEF PlacedInv, FoundInv
    <2>2. Visit(r).kind = "Write" /\ Visit(r).at >= cursor - 1
      BY <1>1, <2>1, DeadFound
    <2> QED BY <2>2
  <1>6. CASE NeedsReloc(cursor) /\ Available(ops) = {}
    <2>1. UNCHANGED <<cursor, gprOps, base>> /\ phase' = "panicked" /\ error' = "NoAvailableRegister"
      BY <1>6 DEF Scan, Panic
    <2>2. TypeOK'
      BY <1>1, <2>1, TemplateKept, <1>s DEF TypeOK
    <2>3. PlaceInv' /\ JumpInv'
      BY <1>1, <2>1, TemplateKept, <1>s DEF PlaceInv, JumpInv
    <2>4. Len(template) <= AsmLength + 1 => ~Relocatable
      <3>1. cursor \in Relocations
        BY <1>1, <1>6 DEF Relocations
      <3>2. \A r \in Registers : ~(ops[r].kind = "Write" /\ ops[r].at >= cursor - 1)
        BY <1>6 DEF Available
      <3> QED BY <1>5, <3>1, <3>2 DEF Relocatable
    <2>5. FoundInv'
      BY <2>1, <2>4, TemplateKept, <1>s DEF FoundInv, ShortRelocated, PanicsOnlyIfBroken
    <2> QED BY <1>3, <2>2, <2>3, <2>5 DEF PlacedInv
  <1>7. CASE ~(NeedsReloc(cursor) /\ Available(ops) = {})
    <2>1. /\ gprOps' = ops
          /\ base' = IF NeedsReloc(cursor)
                     THEN [base EXCEPT ![cursor] = Lowest(Available(ops))]
                     ELSE base
          /\ phase' = IF cursor = 1 THEN "encode" ELSE "scan"
          /\ cursor' = IF cursor = 1 THEN 1 ELSE cursor - 1
          /\ error' = error
      BY <1>7 DEF Scan
    <2> HIDE DEF ops
    <2>2. Available(ops) \subseteq Registers
      BY DEF Available
    <2>3. NeedsReloc(cursor) => Lowest(Available(ops)) \in Registers
      BY <1>7, <2>2, LowestIn
    <2>4. base' \in [Prologue -> Registers \cup {NoRegister}]
      BY <1>1, <2>1, <2>3 DEF TypeOK
    <2>5. cursor' \in 1..Asm
      BY <1>2, <2>1
    <2>6. TypeOK'
      BY <1>1, <1>4, <2>1, <2>4, <2>5, TemplateKept, <1>s DEF TypeOK
    <2>7. JumpInv'
      BY <1>1, <2>1, TemplateKept, <1>s DEF PlacedInv, JumpInv
    <2>8. PlaceInv'
      <3>1. CASE cursor = 1
        <4>1. place' = <<>> /\ size' = 0 /\ cursor' = 1 /\ phase' = "encode"
          BY <1>1, <2>1, <3>1
        <4>2. Append(place', size')[1] = 0
          BY <4>1
        <4>3. AsFarApart(Append(place, size), cursor)'
          <5>1. start[1] = 0 /\ start'[1] = 0
            BY <1>1 DEF PlacedInv, StartInv
          <5>2. \A i, j \in 1..1 : i = 1 /\ j = 1
            OBVIOUS
          <5> QED BY <4>1, <4>2, <5>1, <5>2 DEF AsFarApart
        <4> QED BY <4>1, <4>2, <4>3 DEF PlaceInv
      <3>2. CASE cursor # 1
        BY <1>1, <2>1, <3>2 DEF PlaceInv
      <3> QED BY <3>1, <3>2
    <2>9. FoundInv'
      <3>1. CASE cursor = 1
        BY <1>1, <2>1, <3>1, TemplateKept, <1>s DEF FoundInv, ShortRelocated, PanicsOnlyIfBroken
      <3>2. CASE cursor # 1
        <4>1. cursor' \in Prologue /\ cursor' + 1 = cursor /\ cursor' - 1 = cursor - 2
              /\ phase' = "scan"
          BY <1>2, <2>1, <3>2
        <4>2. \A r : Dead(r, cursor + 1)' <=> Dead(r, cursor)
          <5>1. \A r : Dead(r, cursor + 1)' <=> Dead(r, cursor' + 1)
            BY TemplateKept, <1>s DEF Dead
          <5> QED BY <4>1, <5>1
        <4>3. Len(template) <= AsmLength + 1 =>
                 \A r \in Registers :
                    Dead(r, cursor) => gprOps'[r].kind = "Write" /\ gprOps'[r].at >= cursor' - 1
          <5>1. \A r \in Registers : ops[r].at \in Nat
            BY <1>4
          <5> QED BY <5>1, <1>2, <1>5, <2>1, <4>1 DEF ops
        <4>4. (cursor \in Prologue)'
          BY <4>1, TemplateKept, <1>s
        <4>5. (Len(template) <= AsmLength + 1 =>
                 \A r \in Registers :
                    Dead(r, cursor + 1) => gprOps[r].kind = "Write" /\ gprOps[r].at >= cursor - 1)'
          BY <4>2, <4>3, TemplateKept, <1>s
        <4> QED BY <1>1, <2>1, <4>1, <4>4, <4>5 DEF FoundInv, ShortRelocated, PanicsOnlyIfBroken
      <3> QED BY <3>1, <3>2
    <2> QED BY <1>3, <2>6, <2>7, <2>8, <2>9 DEF PlacedInv
  <1> QED BY <1>6, <1>7

LEMMA EncodePlaced == PlacedInv /\ Encode => PlacedInv'
  <1> SUFFICES ASSUME PlacedInv, Encode PROVE PlacedInv'
    OBVIOUS
  <1>s. [Next]_vars
    BY DEF Next
  <1>1. /\ UNCHANGED <<template, clReg, start, gprOps, base, at, ip, dirty>>
        /\ phase = "encode" /\ cursor < Asm /\ at = 1 /\ ip = 0
        /\ TypeOK /\ error = "none" /\ Len(place) = cursor - 1
        /\ Append(place, size)[1] = 0 /\ AsFarApart(Append(place, size), cursor)
        /\ \A k \in Prologue : start[k + 1] = start[k] + template[k].len
    BY DEF PlacedInv, StartInv, PlaceInv, JumpInv, FoundInv, Encode, Panic, runVars
  <1>2. cursor \in Prologue
    BY <1>1, TemplateTyped DEF TypeOK
  <1>3. StartInv'
    BY <1>1, TemplateKept, <1>s DEF Encode, Panic, PlacedInv, StartInv
  <1>4. CASE NeedsReloc(cursor) /\ Panic("EncodingError")
    <2>1. UNCHANGED <<cursor, place, size>> /\ phase' = "panicked" /\ error' = "EncodingError"
      BY <1>4 DEF Panic
    <2>2. TypeOK'
      BY <1>1, <2>1, TemplateKept, <1>s DEF TypeOK
    <2>3. PlaceInv' /\ JumpInv'
      BY <1>1, <2>1, TemplateKept, <1>s DEF PlaceInv, JumpInv
    <2>4. FoundInv'
      BY <2>1 DEF FoundInv, ShortRelocated, PanicsOnlyIfBroken
    <2> QED BY <1>3, <2>2, <2>3, <2>4 DEF PlacedInv
  <1>5. CASE ~(NeedsReloc(cursor) /\ Panic("EncodingError"))
    <2>1. PICK n \in Lengths(cursor) : size' = size + n
      BY <1>5 DEF Encode
    <2>2. place' = Append(place, size) /\ cursor' = cursor + 1 /\ UNCHANGED <<phase, error>>
      BY <1>5 DEF Encode
    <2>3. n \in Nat /\ (~NeedsReloc(cursor) => n = template[cursor].len)
      <3>1. template[cursor].len \in Nat /\ Growth \subseteq Nat
        BY <1>1, <1>2, TemplateTyped DEF Instruction
      <3> QED BY <2>1, <3>1 DEF Lengths
    <2>4. /\ place \in Seq(Nat) /\ size \in Nat /\ Asm \in Nat /\ cursor \in Nat /\ cursor >= 1
      BY <1>1, <1>2, TemplateTyped DEF TypeOK
    <2>5. /\ place' \in Seq(Nat) /\ Len(place') = cursor' - 1 /\ size' \in Nat
          /\ cursor' \in 1..Asm
      BY <1>1, <2>1, <2>2, <2>3, <2>4
    <2>6. TypeOK'
      BY <1>1, <2>2, <2>5, TemplateKept, <1>s DEF TypeOK
    <2>7. JumpInv'
      BY <1>1, <2>2, TemplateKept, <1>s DEF PlacedInv, JumpInv
    <2>8. PlaceInv'
      <3>1. AsFarApart(Append(Append(place, size), size + n), cursor + 1)
        BY <1>1, <1>2, <2>3, OneFurther
      <3>2. AsFarApart(Append(place, size), cursor)'
        BY <1>1, <2>1, <2>2, <3>1, TemplateKept, <1>s DEF AsFarApart
      <3>3. Append(place', size')[1] = 0
        <4>1. place'[1] = 0 /\ Len(place') >= 1
          BY <1>1, <2>2, <2>4, <2>5
        <4>2. ASSUME NEW s \in Seq(Nat), NEW m \in Nat, Len(s) >= 1
              PROVE  Append(s, m)[1] = s[1]
          BY <4>2
        <4> QED BY <4>1, <4>2, <2>5
      <3> QED BY <1>1, <2>2, <2>5, <3>2, <3>3 DEF PlaceInv
    <2>9. FoundInv'
      BY <1>1, <2>2 DEF FoundInv, ShortRelocated, PanicsOnlyIfBroken
    <2> QED BY <1>3, <2>6, <2>7, <2>8, <2>9 DEF PlacedInv
  <1> QED BY <1>4, <1>5

LEMMA AppendAsmPlaced == PlacedInv /\ AppendAsm => PlacedInv'
  <1> SUFFICES ASSUME PlacedInv, AppendAsm PROVE PlacedInv'
    OBVIOUS
  <1>s. [Next]_vars
    BY DEF Next
  <1>1. /\ UNCHANGED <<template, clReg, start, gprOps, base, at, ip, dirty, cursor, error, size>>
        /\ phase = "encode" /\ phase' = "run" /\ cursor = Asm /\ at = 1 /\ ip = 0
        /\ TypeOK /\ error = "none" /\ Len(place) = cursor - 1 /\ place' = Append(place, size)
        /\ Append(place, size)[1] = 0 /\ AsFarApart(Append(place, size), cursor)
    BY DEF PlacedInv, StartInv, PlaceInv, JumpInv, FoundInv, AppendAsm, runVars
  <1>2. place' \in Seq(Nat) /\ Len(place') = Asm
    BY <1>1, TemplateTyped DEF TypeOK
  <1>3. TypeOK'
    BY <1>1, <1>2, TemplateKept, <1>s DEF TypeOK
  <1>4. StartInv' /\ FoundInv'
    BY <1>1 DEF PlacedInv, StartInv, FoundInv, ShortRelocated, PanicsOnlyIfBroken
  <1>5. PlaceInv'
    BY <1>1, <1>2, TemplateKept, <1>s DEF PlaceInv, AsFarApart
  <1>6. JumpInv'
    BY <1>1, TemplateKept, <1>s DEF PlacedInv, JumpInv
  <1> QED BY <1>3, <1>4, <1>5, <1>6 DEF PlacedInv

LEMMA RunPlaced == PlacedInv /\ Run => PlacedInv'
  <1> SUFFICES ASSUME PlacedInv, Run PROVE PlacedInv'
    OBVIOUS
  <1>s. [Next]_vars
    BY DEF Next
  <1>1. /\ UNCHANGED <<template, clReg, relocVars>> /\ phase = "run" /\ at < Asm /\ ip = place[at]
        /\ TypeOK /\ error = "none"
        /\ Len(place) = Asm /\ place[1] = 0 /\ AsFarApart(place, Asm)
        /\ dirty' = DirtyAt(at) \ template[at].writes
    BY DEF PlacedInv, PlaceInv, FoundInv, Run
  <1>2. /\ at \in Prologue /\ at + 1 \in 1..Asm /\ \A i \in Prologue : ~Leaves(i)
        /\ place \in Seq(Nat) /\ start \in [1..Asm -> Nat] /\ Asm \in Nat
    <2>1. at \in 1..Asm /\ place \in Seq(Nat) /\ start \in [1..Asm -> Nat] /\ Asm \in Nat
      BY <1>1, TemplateTyped DEF TypeOK
    <2>2. at \in Prologue
      BY <1>1, <2>1, TemplateTyped
    <2>3. \A i \in Prologue : ~Leaves(i)
      BY <1>1 DEF PlacedInv, JumpInv
    <2> QED BY <1>1, <2>1, <2>2, <2>3, TemplateTyped
  <1>3. \/ at' = at + 1 /\ ip' = place[at + 1]
        \/ /\ IsJcc(at) /\ at' = template[at].to
           /\ ip' = place[at + 1] + Target(at) - start[at + 1]
    BY DEF Run
  <1>4. at' \in 1..Asm /\ ip' \in Int
    <2>1. CASE at' = at + 1 /\ ip' = place[at + 1]
      BY <1>1, <1>2, <2>1
    <2>2. CASE IsJcc(at) /\ at' = template[at].to
               /\ ip' = place[at + 1] + Target(at) - start[at + 1]
      <3>1. template[at].to \in Nat
        BY <1>1, <1>2, TemplateTyped DEF Instruction
      <3>2. template[at].to \in 1..Asm
        BY <1>2, <2>2, <3>1 DEF Leaves
      <3>3. place[at + 1] \in Int /\ Target(at) \in Int /\ start[at + 1] \in Int
        BY <1>1, <1>2, <3>2 DEF Target
      <3> QED BY <2>2, <3>2, <3>3
    <2> QED BY <1>3, <2>1, <2>2
  <1>5. Spared => ip' = place[at']
    BY <1>1, <1>2, <1>3, SparedJump DEF Spared
  <1>6. dirty' \subseteq Registers
    BY <1>1, <1>2 DEF DirtyAt, TypeOK
  <1>7. TypeOK'
    BY <1>1, <1>4, <1>6, TemplateKept, <1>s DEF TypeOK, relocVars
  <1>8. StartInv' /\ FoundInv'
    BY <1>1 DEF PlacedInv, StartInv, FoundInv, ShortRelocated, PanicsOnlyIfBroken, relocVars
  <1>9. PlaceInv' /\ JumpInv'
    BY <1>1, <1>2, <1>5, TemplateKept, <1>s DEF PlaceInv, JumpInv, AsFarApart, relocVars
  <1> QED BY <1>7, <1>8, <1>9 DEF PlacedInv

LEMMA StutterPlaced == PlacedInv /\ UNCHANGED vars => PlacedInv'
  <1> SUFFICES ASSUME PlacedInv, UNCHANGED vars PROVE PlacedInv'
    OBVIOUS
  <1>s. [Next]_vars
    OBVIOUS
  <1>1. TypeOK'
    BY TemplateKept, <1>s DEF PlacedInv, TypeOK, vars, relocVars, runVars
  <1>2. StartInv' /\ PlaceInv' /\ JumpInv'
    BY TemplateKept, <1>s
    DEF PlacedInv, StartInv, PlaceInv, AsFarApart, JumpInv, vars, relocVars, runVars
  <1>3. FoundInv'
    <2>1. \A r : Dead(r, cursor + 1)' <=> Dead(r, cursor + 1)
      BY DEF Dead, Asm, vars, relocVars
    <2>2. ShortRelocated'
      BY TemplateKept, <1>s
      DEF PlacedInv, FoundInv, ShortRelocated, PanicsOnlyIfBroken, vars, relocVars
    <2> QED BY <2>1, <2>2, TemplateKept, <1>s DEF PlacedInv, FoundInv, vars, relocVars
  <1> QED BY <1>1, <1>2, <1>3 DEF PlacedInv

-----------------------------------------------------------------------------
(* Where everything is, through the relocation and the run.                *)
THEOREM PlacedInvariant == Spec => []PlacedInv
  <1>1. PlacedInv /\ [Next]_vars => PlacedInv'
    BY DecodePlaced, ReachAsmPlaced, ScanPlaced, EncodePlaced, AppendAsmPlaced, RunPlaced,
       StutterPlaced DEF Next
  <1> QED BY PlacedInit, <1>1, PTL DEF Spec

(* Every variable of the x86_64 relocator has its type; a jump does not    *)
(* leave the copy (x86_64.rs 63-66).                                       *)
THEOREM RelocTypeCorrect == Spec => []TypeOK
  <1>1. PlacedInv => TypeOK
    BY DEF PlacedInv
  <1> QED BY <1>1, PlacedInvariant, PTL

(* In prologues of any length, a copied jump over instructions that were   *)
(* not lengthened arrives where it does in the template (x86_64.rs 36-43,  *)
(* 63-66, 128).                                                            *)
THEOREM SparedJumpsRight == Spec => []SparedJumpsArrive
  <1>1. PlacedInv => SparedJumpsArrive
    BY DEF PlacedInv, JumpInv, SparedJumpsArrive, Spared, SameInstruction
  <1> QED BY <1>1, PlacedInvariant, PTL

(* The backward pass finds a register if there is one, unless the prologue *)
(* has more instructions than the block's first has bytes, plus one: such  *)
(* a prologue is never refused without a reason (x86_64.rs 50, 92,         *)
(* 115-118).                                                               *)
THEOREM ShortAlwaysRelocated == Spec => []ShortRelocated
  <1>1. PlacedInv => ShortRelocated
    BY DEF PlacedInv, FoundInv
  <1> QED BY <1>1, PlacedInvariant, PTL

-----------------------------------------------------------------------------
(* What the operations tracked by the backward pass say: the registers     *)
(* last seen written are dead behind the cursor.                           *)
OpsInv ==
    /\ gprOps \in [Registers -> [kind : {"None", "Read", "Write"}, at : Nat]]
    /\ phase = "decode" => \A r \in Registers : gprOps[r].kind # "Write"
    /\ phase = "scan" =>
          /\ cursor \in Prologue
          /\ \A r \in Registers : gprOps[r].kind = "Write" => Dead(r, cursor + 1)

(* A register is picked only for an instruction from which on it is dead.  *)
BaseInv ==
    /\ base \in [Prologue -> Registers \cup {NoRegister}]
    /\ \A i \in Prologue : base[i] # NoRegister => Dead(base[i], i)

SafeJumps == \A i \in Prologue : IsJcc(i) => Leaves(i) \/ KeepsDead(i)

(* The registers in which the copy differs from the template are dead.     *)
DirtyInv ==
    /\ phase # "run" => at = 1 /\ dirty = {}
    /\ SafeJumps => \A r \in dirty : Dead(r, at)

DeadInv == OpsInv /\ BaseInv /\ DirtyInv

(* It holds before the first instruction is decoded.                       *)
LEMMA DeadInit == Init => DeadInv
  <1> SUFFICES ASSUME Init PROVE DeadInv
    OBVIOUS
  <1>1. OpsInv
    BY DEF Init, OpsInv
  <1>2. BaseInv
    BY DEF Init, BaseInv
  <1>3. DirtyInv
    BY DEF Init, DirtyInv
  <1> QED BY <1>1, <1>2, <1>3 DEF DeadInv

(* Decoding, the backward pass, the copy and the run all keep it.          *)
LEMMA DeadStays == PlacedInv /\ DeadInv /\ [Next]_vars => DeadInv'
  <1> SUFFICES ASSUME PlacedInv, DeadInv, [Next]_vars PROVE DeadInv'
    OBVIOUS
  <1> USE DEF relocVars, runVars
  <1>0. TypeOK /\ Len(template) \in Nat /\ clReg \in Registers /\ Asm \in Nat
    BY TemplateTyped DEF PlacedInv, TypeOK
  <1>s. template' = template /\ clReg' = clReg
    BY TemplateKept
  <1>d. \A r, i : Dead(r, i)' <=> Dead(r, i)
    BY TemplateKept
  <1>p. Prologue' = Prologue /\ Asm' = Asm /\ (SafeJumps' <=> SafeJumps)
    <2>1. Prologue' = Prologue /\ Asm' = Asm /\ \A i : Leaves(i)' <=> Leaves(i)
      BY TemplateKept
    <2>2. \A i : (KeepsDead(i)' <=> KeepsDead(i)) /\ (IsJcc(i)' <=> IsJcc(i))
      BY <1>s, <1>d DEF KeepsDead, IsJcc
    <2> QED BY <2>1, <2>2 DEF SafeJumps
  <1>i. OpsInv /\ BaseInv /\ DirtyInv
    BY DEF DeadInv
  <1> SUFFICES (OpsInv /\ BaseInv /\ DirtyInv)'
    BY DEF DeadInv
  <1>1. CASE Decode
    <2>1. /\ UNCHANGED <<gprOps, base, at, dirty>>
          /\ phase = "decode" /\ phase' \in {"decode", "panicked"}
          /\ cursor' \in {cursor, cursor + 1}
      BY <1>1 DEF Decode, Panic
    <2> QED BY <2>1, <1>i, <1>d, <1>p DEF OpsInv, BaseInv, DirtyInv
  <1>2. CASE ReachAsm
    <2>1. /\ UNCHANGED <<base, at, dirty>>
          /\ phase = "decode" /\ phase' \in {"run", "scan", "panicked"}
          /\ cursor' \in {cursor, Asm - 1}
          /\ phase' # "scan" => gprOps' = gprOps
      BY <1>2 DEF ReachAsm, Panic
    <2>2. (BaseInv /\ DirtyInv)'
      BY <2>1, <1>0, <1>i, <1>d, <1>p DEF BaseInv, DirtyInv, Asm
    <2>3. CASE phase' = "scan"
      <3>1. /\ cursor' = Asm - 1
            /\ gprOps' = [gprOps EXCEPT ![clReg] = [kind |-> "Write", at |-> AsmLength]]
            /\ Relocations # {}
        BY <1>2, <2>3 DEF ReachAsm, Panic
      <3>2. cursor' \in Prologue /\ cursor' + 1 = Asm
        BY <3>1, <1>0 DEF Relocations, Prologue, Asm
      <3>3. \A r \in Registers : gprOps'[r].kind = "Write" => r = clReg
        BY <3>1, <2>1, <1>i DEF OpsInv
      <3>4. gprOps' \in [Registers -> [kind : {"None", "Read", "Write"}, at : Nat]]
        BY <3>1, <1>i, <1>0 DEF OpsInv
      <3>5. \A r \in Registers : gprOps'[r].kind = "Write" => Dead(r, cursor' + 1)
        BY <3>2, <3>3, <1>0, DeadAtAsm
      <3> QED BY <2>2, <2>3, <3>2, <3>4, <3>5, <1>d, <1>p DEF OpsInv
    <2>4. CASE phase' # "scan"
      BY <2>1, <2>2, <2>4, <1>i DEF OpsInv
    <2> QED BY <2>3, <2>4
  <1>3. CASE Scan
    <2> DEFINE ops == [r \in Registers |-> Visit(r)]
    <2>1. /\ UNCHANGED <<at, dirty>>
          /\ phase = "scan" /\ phase' \in {"scan", "encode", "panicked"}
          /\ cursor \in Prologue
      BY <1>3, <1>i DEF Scan, Panic, OpsInv
    <2>2. DirtyInv'
      BY <2>1, <1>i, <1>d, <1>p DEF DirtyInv
    <2>3. ops \in [Registers -> [kind : {"None", "Read", "Write"}, at : Nat]]
      BY <2>1, <1>i, <1>0 DEF OpsInv, Visit, Prologue
    <2>4. \A r \in Registers : ops[r].kind = "Write" => Dead(r, cursor)
      <3> SUFFICES ASSUME NEW r \in Registers, ops[r].kind = "Write" PROVE Dead(r, cursor)
        OBVIOUS
      <3>1. Visit(r).kind = "Write"
        OBVIOUS
      <3>2. /\ r \notin template[cursor].reads
            /\ r \in template[cursor].writes \/ gprOps[r].kind = "Write"
        BY <3>1 DEF Visit
      <3>3. r \in template[cursor].writes \/ Dead(r, cursor + 1)
        BY <3>2, <2>1, <1>i DEF OpsInv
      <3> QED BY <3>2, <3>3, <2>1, <1>0, DeadBefore
    <2>5. CASE phase' = "panicked"
      <3>1. UNCHANGED <<cursor, gprOps, base>>
        BY <1>3, <2>5 DEF Scan, Panic
      <3> QED BY <3>1, <2>2, <2>5, <1>i, <1>d, <1>p DEF OpsInv, BaseInv
    <2>6. CASE phase' # "panicked"
      <3>1. /\ NeedsReloc(cursor) => Available(ops) # {}
            /\ gprOps' = ops
            /\ base' = IF NeedsReloc(cursor)
                       THEN [base EXCEPT ![cursor] = Lowest(Available(ops))]
                       ELSE base
            /\ phase' = IF cursor = 1 THEN "encode" ELSE "scan"
            /\ cursor' = IF cursor = 1 THEN 1 ELSE cursor - 1
        BY <1>3, <2>6 DEF Scan, Panic
      <3> HIDE DEF ops
      <3>2. Available(ops) \subseteq Registers
            /\ \A r \in Available(ops) : ops[r].kind = "Write"
        BY DEF Available
      <3>3. NeedsReloc(cursor) =>
               /\ Lowest(Available(ops)) \in Registers
               /\ Dead(Lowest(Available(ops)), cursor)
        BY <3>1, <3>2, <2>4, LowestIn
      <3>4. BaseInv'
        BY <3>1, <3>3, <2>1, <1>i, <1>d, <1>p DEF BaseInv
      <3>5. OpsInv'
        <4>1. CASE cursor = 1
          BY <4>1, <3>1, <2>3 DEF OpsInv
        <4>2. CASE cursor # 1
          <5>1. cursor' \in Prologue /\ cursor' + 1 = cursor
            BY <4>2, <3>1, <2>1, <1>0 DEF Prologue
          <5> QED BY <4>2, <5>1, <3>1, <2>3, <2>4, <1>d, <1>p DEF OpsInv
        <4> QED BY <4>1, <4>2
      <3>6. cursor' \in Nat
        BY <3>1, <2>1, <1>0 DEF Prologue
      <3> QED BY <3>4, <3>5, <3>6, <2>2
    <2> QED BY <2>5, <2>6
  <1>4. CASE Encode
    <2>1. /\ UNCHANGED <<gprOps, base, at, dirty>>
          /\ phase = "encode" /\ phase' \in {"encode", "panicked"}
          /\ cursor' \in {cursor, cursor + 1}
      BY <1>4 DEF Encode, Panic
    <2> QED BY <2>1, <1>i, <1>d, <1>p DEF OpsInv, BaseInv, DirtyInv
  <1>5. CASE AppendAsm
    <2>1. /\ UNCHANGED <<cursor, gprOps, base, at, dirty>>
          /\ phase = "encode" /\ phase' = "run"
      BY <1>5 DEF AppendAsm
    <2> QED BY <2>1, <1>i, <1>d, <1>p DEF OpsInv, BaseInv, DirtyInv
  <1>6. CASE Run
    <2>1. /\ UNCHANGED <<cursor, gprOps, base, phase>>
          /\ phase = "run" /\ at < Asm
          /\ dirty' = DirtyAt(at) \ template[at].writes
          /\ at' = at + 1 \/ (IsJcc(at) /\ at' = template[at].to)
      BY <1>6 DEF Run
    <2>2. at \in Prologue
      BY <2>1, <1>0, TemplateTyped DEF TypeOK
    <2>3. ASSUME SafeJumps, NEW r \in dirty' PROVE Dead(r, at')
      <3>1. r \in DirtyAt(at) /\ r \notin template[at].writes /\ r \in Registers
        BY <2>1, <2>2, <2>3, <1>0, <1>i DEF DirtyAt, BaseInv, TypeOK
      <3>2. Dead(r, at)
        BY <3>1, <2>2, <2>3, <1>i DEF DirtyAt, DirtyInv, BaseInv
      <3>3. Dead(r, at + 1)
        BY <3>1, <3>2, <2>2, <1>0, DeadStep
      <3>4. IsJcc(at) => KeepsDead(at)
        BY <2>1, <2>2, <2>3 DEF SafeJumps, PlacedInv, JumpInv
      <3> QED BY <3>1, <3>3, <3>4, <2>1 DEF KeepsDead
    <2>4. DirtyInv'
      BY <2>1, <2>3, <1>d, <1>p DEF DirtyInv
    <2> QED BY <2>1, <2>4, <1>i, <1>d, <1>p DEF OpsInv, BaseInv
  <1>7. CASE UNCHANGED vars
    BY <1>7, <1>i, <1>d, <1>p DEF vars, OpsInv, BaseInv, DirtyInv
  <1> QED BY <1>1, <1>2, <1>3, <1>4, <1>5, <1>6, <1>7 DEF Next

-----------------------------------------------------------------------------
(* What is known of registers during the relocation and the run behind it. *)
THEOREM DeadInvariant == Spec => []DeadInv
  <1> QED BY DeadInit, DeadStays, PlacedInvariant, PTL DEF Spec

(* Whatever registers the backward pass picks, the copy reads the values   *)
(* the template reads, and reaches the _thunk_asm block with them, along   *)
(* every path through jumps that keep dead what is dead behind them        *)
(* (x86_64.rs 96-155).                                                     *)
THEOREM SafeJumpsRight == Spec => []SafeJumpsSameValues
  <1>1. PlacedInv /\ DeadInv => SafeJumpsSameValues
    <2> SUFFICES ASSUME PlacedInv, DeadInv, SafeJumps PROVE SameValues
      BY DEF SafeJumpsSameValues, SafeJumps
    <2>1. TypeOK /\ BaseInv /\ DirtyInv /\ Len(template) \in Nat
      BY TemplateTyped DEF PlacedInv, DeadInv
    <2>2. CASE at = Asm
      BY <2>1, <2>2, DeadAtAsm DEF DirtyInv, SameValues, TypeOK
    <2>3. CASE at # Asm
      <3>1. at \in Prologue
        BY <2>1, <2>3, TemplateTyped DEF TypeOK
      <3>2. \A r \in DirtyAt(at) : r \in Registers /\ Dead(r, at)
        BY <3>1, <2>1 DEF DirtyAt, DirtyInv, BaseInv, TypeOK
      <3>3. \A r \in DirtyAt(at) : r \notin template[at].reads
        BY <3>1, <3>2, <2>1, DeadStep
      <3> QED BY <2>3, <3>3 DEF SameValues
    <2> QED BY <2>2, <2>3
  <1> QED BY <1>1, PlacedInvariant, DeadInvariant, PTL

(* A jump forward over instructions that overwrite no register keeps dead  *)
(* what is dead behind it.                                                 *)
LEMMA SkipKeepsDead ==
    ASSUME TypeOK, NEW i \in Prologue, i < template[i].to, template[i].to <= Asm,
           \A k \in Between(i, template[i].to) : template[k].writes = {}
    PROVE  KeepsDead(i)
  <1> DEFINE t == template[i].to
  <1>1. i \in Nat /\ t \in Nat /\ Asm \in Nat /\ Prologue = 1..Len(template)
        /\ Asm = Len(template) + 1
    BY TemplateTyped DEF Instruction
  <1> SUFFICES ASSUME NEW r \in Registers, Dead(r, i + 1) PROVE Dead(r, t)
    BY DEF KeepsDead
  <1>2. PICK j \in (i + 1)..Asm :
           /\ j = Asm => r = clReg
           /\ j # Asm => r \in template[j].writes \ template[j].reads
           /\ \A k \in (i + 1)..(j - 1) : r \notin template[k].reads
    BY DEF Dead
  <1>3. j >= t
    <2> SUFFICES ASSUME j < t PROVE FALSE
      BY <1>1
    <2>1. j \in Prologue /\ j # Asm /\ i < j
      BY <1>1
    <2>2. j \in Between(i, t)
      BY <2>1 DEF Between
    <2> QED BY <1>2, <2>1, <2>2
  <1>4. j \in t..Asm /\ \A k \in t..(j - 1) : k \in (i + 1)..(j - 1)
    BY <1>1, <1>3
  <1> QED BY <1>2, <1>4 DEF Dead

(* Every jump goes forward, over instructions that stay as they are and    *)
(* overwrite no general purpose register: what the prologues of variadic   *)
(* functions do when they skip the stores of the vector registers.         *)
OverStores ==
    \A i \in Prologue : IsJcc(i) =>
        /\ i < template[i].to
        /\ \A k \in Between(i, template[i].to) : ~NeedsReloc(k) /\ template[k].writes = {}

(* The prologues of variadic functions, for which jumps are allowed, are   *)
(* relocated correctly: the copy is where the template is and reads what   *)
(* it reads, however long they are (x86_64.rs 36-43).                      *)
THEOREM VariadicPrologueRight == Spec => [](OverStores => SameInstruction /\ SameValues)
  <1>1. PlacedInv /\ SafeJumpsSameValues => (OverStores => SameInstruction /\ SameValues)
    <2> SUFFICES ASSUME PlacedInv, SafeJumpsSameValues, OverStores
                 PROVE  SameInstruction /\ SameValues
      OBVIOUS
    <2>1. TypeOK
      BY DEF PlacedInv
    <2>2. Spared
      BY DEF OverStores, Spared, Relocations
    <2>3. SameInstruction
      BY <2>2 DEF PlacedInv, JumpInv, SameInstruction
    <2>4. ASSUME NEW i \in Prologue, IsJcc(i), ~Leaves(i) PROVE KeepsDead(i)
      <3>1. i < template[i].to /\ \A k \in Between(i, template[i].to) : template[k].writes = {}
        BY <2>4 DEF OverStores
      <3>2. template[i].to \in Nat /\ Asm \in Nat
        BY <2>1, TemplateTyped DEF Instruction
      <3>3. template[i].to <= Asm
        BY <2>4, <3>2 DEF Leaves
      <3> QED BY <2>1, <3>1, <3>3, SkipKeepsDead
    <2>5. SameValues
      BY <2>4 DEF SafeJumpsSameValues
    <2> QED BY <2>3, <2>5
  <1> QED BY <1>1, PlacedInvariant, SafeJumpsRight, PTL

-----------------------------------------------------------------------------
(* Which jumps arrive.  Instructions move away from each other in the      *)
(* copy, and do if one between them is lengthened.                         *)
DrivenApart(f, n) ==
    \A i, j \in 1..n : i <= j =>
        /\ f[j] - f[i] >= start[j] - start[i]
        /\ ~Unchanged(i, j) => f[j] - f[i] > start[j] - start[i]

ApartInv ==
    /\ phase = "encode" => DrivenApart(Append(place, size), cursor)
    /\ phase = "run" => DrivenApart(place, Asm)

LEMMA DrivenFurther ==
    ASSUME TypeOK, cursor \in Prologue, Len(place) = cursor - 1,
           \A k \in Prologue : start[k + 1] = start[k] + template[k].len,
           DrivenApart(Append(place, size), cursor), NEW n \in Lengths(cursor)
    PROVE  DrivenApart(Append(Append(place, size), size + n), cursor + 1)
  <1> DEFINE f == Append(place, size)
             g == Append(f, size + n)
  <1>0. /\ place \in Seq(Nat) /\ size \in Nat /\ start \in [1..Asm -> Nat]
        /\ Asm \in Nat /\ cursor \in Nat /\ cursor >= 1 /\ cursor + 1 <= Asm
        /\ template[cursor] \in Instruction
    BY TemplateTyped DEF TypeOK
  <1>1. /\ n \in Nat /\ template[cursor].len \in Nat /\ n >= template[cursor].len
        /\ NeedsReloc(cursor) => n > template[cursor].len
    <2>1. template[cursor].len \in Nat /\ \A m \in Growth : m \in Nat /\ m > 0
      BY <1>0 DEF Instruction
    <2>2. CASE NeedsReloc(cursor)
      <3>1. PICK m \in Growth : n = template[cursor].len + m
        BY <2>2 DEF Lengths
      <3> QED BY <2>1, <3>1
    <2>3. CASE ~NeedsReloc(cursor)
      BY <2>1, <2>3 DEF Lengths
    <2> QED BY <2>2, <2>3
  <1>2. /\ f \in Seq(Nat) /\ Len(f) = cursor /\ f[cursor] = size
        /\ g[cursor + 1] = size + n
        /\ \A i \in 1..cursor : g[i] = f[i] /\ f[i] \in Nat
    <2>1. f \in Seq(Nat) /\ Len(f) = cursor /\ f[cursor] = size
      BY <1>0
    <2> HIDE DEF f
    <2>2. g[cursor + 1] = size + n /\ \A i \in 1..cursor : g[i] = f[i]
      BY <1>0, <1>1, <2>1
    <2>3. \A i \in 1..cursor : f[i] \in Nat
      BY <2>1
    <2> HIDE DEF g
    <2> QED BY <2>1, <2>2, <2>3
  <1>3. \A i \in 1..(cursor + 1) : start[i] \in Nat
    BY <1>0
  <1> HIDE DEF f, g
  <1> SUFFICES ASSUME NEW i \in 1..(cursor + 1), NEW j \in 1..(cursor + 1), i <= j
               PROVE  /\ g[j] - g[i] >= start[j] - start[i]
                      /\ ~Unchanged(i, j) => g[j] - g[i] > start[j] - start[i]
    BY DEF DrivenApart, f, g
  <1>4. CASE j <= cursor
    <2>1. i \in 1..cursor /\ j \in 1..cursor
      BY <1>0, <1>4
    <2> QED BY <1>2, <2>1 DEF DrivenApart, f
  <1>5. CASE i = cursor + 1
    <2>1. i = j /\ i..(j - 1) = {}
      BY <1>0, <1>5
    <2>2. Unchanged(i, j)
      BY <2>1 DEF Unchanged
    <2>3. g[i] \in Int /\ start[i] \in Int
      BY <1>0, <1>1, <1>2, <1>3, <1>5
    <2> QED BY <2>1, <2>2, <2>3
  <1>6. CASE j = cursor + 1 /\ i # cursor + 1
    <2>1. i \in 1..cursor /\ cursor \in 1..cursor /\ i <= cursor
      BY <1>0, <1>6
    <2> DEFINE a == f[i]
               b == f[cursor]
               c == start[i]
               d == start[cursor]
               l == template[cursor].len
    <2>2. /\ a \in Int /\ b \in Int /\ c \in Int /\ d \in Int /\ l \in Int /\ n \in Int
          /\ n >= l /\ (NeedsReloc(cursor) => n > l)
      BY <1>1, <1>2, <1>3, <2>1
    <2>3. b - a >= d - c /\ (~Unchanged(i, cursor) => b - a > d - c)
      BY <2>1 DEF DrivenApart, f
    <2>4. g[i] = a /\ g[j] = b + n /\ start[i] = c /\ start[j] = d + l
      BY <1>2, <1>6, <2>1
    <2>5. ~Unchanged(i, j) => NeedsReloc(cursor) \/ ~Unchanged(i, cursor)
      <3>1. \A k \in i..(j - 1) : k = cursor \/ k \in i..(cursor - 1)
        BY <1>0, <1>6
      <3> QED BY <3>1 DEF Unchanged
    <2> HIDE DEF a, b, c, d, l
    <2>6. /\ (b + n) - a >= (d + l) - c
          /\ ~Unchanged(i, j) => (b + n) - a > (d + l) - c
      BY ONLY <2>2, <2>3, <2>5
    <2> QED BY <2>4, <2>6
  <1> QED BY <1>0, <1>4, <1>5, <1>6

LEMMA ApartInit == Init => ApartInv
  BY DEF Init, ApartInv

LEMMA ApartStays == PlacedInv /\ ApartInv /\ [Next]_vars => ApartInv'
  <1> SUFFICES ASSUME PlacedInv, ApartInv, [Next]_vars PROVE ApartInv'
    OBVIOUS
  <1>s. /\ template' = template /\ Asm' = Asm
        /\ \A i, j : Unchanged(i, j)' <=> Unchanged(i, j)
    BY TemplateKept
  <1>0. TypeOK /\ Asm \in Nat /\ Asm >= 1 /\ Prologue = 1..Len(template) /\ Asm = Len(template) + 1
    BY TemplateTyped DEF PlacedInv, TypeOK
  <1>1. CASE Decode
    BY <1>1 DEF Decode, Panic, ApartInv
  <1>2. CASE ReachAsm
    <2>1. CASE phase' # "run"
      BY <1>2, <2>1 DEF ReachAsm, Panic, ApartInv
    <2>2. CASE phase' = "run"
      <3>1. Relocations = {} /\ place' = start /\ start' = start
        BY <1>2, <2>2 DEF ReachAsm, Panic
      <3>2. \A i \in 1..Asm : start[i] \in Nat
        BY <1>0 DEF TypeOK
      <3>3. \A i, j \in 1..Asm : Unchanged(i, j)
        <4> SUFFICES ASSUME NEW i \in 1..Asm, NEW j \in 1..Asm, NEW k \in i..(j - 1)
                     PROVE  ~NeedsReloc(k)
          BY DEF Unchanged
        <4>1. k \in Prologue
          BY <1>0
        <4> QED BY <4>1, <3>1 DEF Relocations
      <3>4. \A i, j \in 1..Asm : start[j] - start[i] >= start[j] - start[i]
        BY <3>2
      <3>5. DrivenApart(place, Asm)'
        BY <1>s, <3>1, <3>3, <3>4 DEF DrivenApart
      <3> QED BY <2>2, <3>5 DEF ApartInv
    <2> QED BY <2>1, <2>2
  <1>3. CASE Scan
    <2>1. CASE phase' # "encode"
      BY <1>3, <2>1 DEF Scan, Panic, ApartInv
    <2>2. CASE phase' = "encode"
      <3>1. place' = <<>> /\ size' = 0 /\ cursor' = 1
        BY <1>3, <2>2 DEF Scan, Panic, PlacedInv, PlaceInv
      <3>2. start' = start /\ start[1] \in Nat
        BY <1>0, <1>3, <2>2 DEF Scan, Panic, TypeOK
      <3>3. Append(place, size)'[1] = 0
        BY <3>1
      <3>4. \A i, j \in 1..1 : i = 1 /\ j = 1 /\ Unchanged(i, j)
        BY DEF Unchanged
      <3>5. DrivenApart(Append(place, size), cursor)'
        BY <1>s, <3>1, <3>2, <3>3, <3>4 DEF DrivenApart
      <3> QED BY <2>2, <3>5 DEF ApartInv
    <2> QED BY <2>1, <2>2
  <1>4. CASE Encode
    <2>1. CASE phase' = "panicked"
      BY <2>1 DEF ApartInv
    <2>2. CASE phase' # "panicked"
      <3>1. PICK n \in Lengths(cursor) :
               size' = size + n /\ place' = Append(place, size) /\ cursor' = cursor + 1
        BY <1>4, <2>2 DEF Encode, Panic
      <3>2. phase = "encode" /\ phase' = "encode" /\ start' = start /\ cursor < Asm
        BY <1>4, <2>2 DEF Encode, Panic
      <3>3. cursor \in Prologue
        BY <3>2, <1>0 DEF TypeOK
      <3>4. /\ Len(place) = cursor - 1 /\ DrivenApart(Append(place, size), cursor)
            /\ \A k \in Prologue : start[k + 1] = start[k] + template[k].len
        BY <3>2 DEF PlacedInv, PlaceInv, StartInv, ApartInv
      <3>5. DrivenApart(Append(Append(place, size), size + n), cursor + 1)
        BY <1>0, <3>3, <3>4, DrivenFurther
      <3>6. DrivenApart(Append(place, size), cursor)'
        BY <1>s, <3>1, <3>2, <3>5 DEF DrivenApart
      <3> QED BY <3>2, <3>6 DEF ApartInv
    <2> QED BY <2>1, <2>2
  <1>5. CASE AppendAsm
    <2>1. /\ phase = "encode" /\ phase' = "run" /\ cursor = Asm /\ start' = start
          /\ place' = Append(place, size)
      BY <1>5 DEF AppendAsm
    <2>2. DrivenApart(place, Asm)'
      BY <1>s, <2>1 DEF ApartInv, DrivenApart
    <2> QED BY <2>1, <2>2 DEF ApartInv
  <1>6. CASE Run \/ UNCHANGED vars
    <2>1. UNCHANGED <<phase, place, size, cursor, start>>
      BY <1>6 DEF Run, vars, relocVars
    <2> QED BY <1>s, <2>1 DEF ApartInv, DrivenApart
  <1> QED BY <1>1, <1>2, <1>3, <1>4, <1>5, <1>6 DEF Next

(* Lengthening an instruction moves apart all there is on its two sides.   *)
THEOREM ApartInvariant == Spec => []ApartInv
  <1> QED BY ApartInit, ApartStays, PlacedInvariant, PTL DEF Spec

(* A jump over an instruction that was lengthened misses its target.       *)
LEMMA DrivenJump ==
    ASSUME TypeOK, Len(place) = Asm, DrivenApart(place, Asm),
           NEW i \in Prologue, ~Leaves(i), IsJcc(i),
           Between(i, template[i].to) \cap Relocations # {}
    PROVE  place[i + 1] + Target(i) - start[i + 1] # place[template[i].to]
  <1> DEFINE t == template[i].to
  <1>1. /\ t \in 1..Asm /\ i \in Nat /\ i + 1 \in 1..Asm
        /\ place[t] \in Nat /\ place[i + 1] \in Nat /\ start[t] \in Nat /\ start[i + 1] \in Nat
    <2>1. t \in Nat
      BY TemplateTyped DEF Instruction
    <2>2. t # 0 /\ ~(t > Asm)
      BY DEF Leaves
    <2>3. t \in 1..Asm /\ i \in Nat /\ i + 1 \in 1..Asm
      BY <2>1, <2>2, TemplateTyped
    <2>4. place \in Seq(Nat) /\ start \in [1..Asm -> Nat]
      BY DEF TypeOK
    <2> QED BY <2>3, <2>4
  <1>2. Target(i) = start[t]
    BY <1>1 DEF Target
  <1>3. PICK k \in Between(i, t) : NeedsReloc(k)
    BY DEF Relocations
  <1> HIDE DEF t
  <1>4. k \in Nat /\ ((i < k /\ k < t) \/ (t <= k /\ k < i))
    BY <1>3, TemplateTyped DEF Between
  <1>5. CASE i < k /\ k < t
    <2>1. i + 1 <= t /\ k \in (i + 1)..(t - 1)
      BY <1>1, <1>4, <1>5
    <2>2. ~Unchanged(i + 1, t)
      BY <1>3, <2>1 DEF Unchanged
    <2>3. place[t] - place[i + 1] > start[t] - start[i + 1]
      BY <1>1, <2>1, <2>2 DEF DrivenApart
    <2>4. place[i + 1] + Target(i) - start[i + 1] # place[t]
      BY <1>1, <1>2, <2>3
    <2> QED BY <2>4 DEF t
  <1>6. CASE t <= k /\ k < i
    <2>1. t <= i + 1 /\ k \in t..((i + 1) - 1)
      BY <1>1, <1>4, <1>6
    <2>2. ~Unchanged(t, i + 1)
      BY <1>3, <2>1 DEF Unchanged
    <2>3. place[i + 1] - place[t] > start[i + 1] - start[t]
      BY <1>1, <2>1, <2>2 DEF DrivenApart
    <2>4. place[i + 1] + Target(i) - start[i + 1] # place[t]
      BY <1>1, <1>2, <2>3
    <2> QED BY <2>4 DEF t
  <1> QED BY <1>4, <1>5, <1>6

(* A jump taken by the copy arrives if, and only if, nothing it jumps over *)
(* is relocated: the condition of SparedJumpsArrive is exact, and however  *)
(* many bytes an instruction grows by, none makes up for another           *)
(* (x86_64.rs 149-151 copy the bytes of a jump as they are).               *)
THEOREM JumpsExactly ==
    Spec => [][Run /\ at' # at + 1 =>
                  (ip' = place[at'] <=> Between(at, at') \cap Relocations = {})]_vars
  <1>1. PlacedInv /\ ApartInv =>
            (Run /\ at' # at + 1 =>
                (ip' = place[at'] <=> Between(at, at') \cap Relocations = {}))
    <2> SUFFICES ASSUME PlacedInv, ApartInv, Run, at' # at + 1
                 PROVE  ip' = place[at'] <=> Between(at, at') \cap Relocations = {}
      OBVIOUS
    <2>1. /\ phase = "run" /\ at < Asm /\ IsJcc(at) /\ at' = template[at].to
          /\ ip' = place[at + 1] + Target(at) - start[at + 1]
      BY DEF Run
    <2>2. TypeOK /\ Len(place) = Asm /\ AsFarApart(place, Asm) /\ DrivenApart(place, Asm)
      BY <2>1 DEF PlacedInv, PlaceInv, ApartInv
    <2>3. at \in Prologue
      BY <2>1, <2>2, TemplateTyped DEF TypeOK
    <2>4. ~Leaves(at)
      BY <2>1, <2>3 DEF PlacedInv, JumpInv
    <2>5. CASE Between(at, template[at].to) \cap Relocations = {}
      BY <2>1, <2>2, <2>3, <2>4, <2>5, SparedJump
    <2>6. CASE Between(at, template[at].to) \cap Relocations # {}
      BY <2>1, <2>2, <2>3, <2>4, <2>6, DrivenJump
    <2> QED BY <2>1, <2>5, <2>6
  <1> QED BY <1>1, PlacedInvariant, ApartInvariant, PTL
=============================================================================
