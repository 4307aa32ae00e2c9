----------------------------- MODULE SafeJitRuns ----------------------------
(***************************************************************************)
(* Proof that a relocated thunk runs as its template does: on x86,         *)
(* AArch64, Arm and Thumb, for prologues of any length in which no         *)
(* instruction is mistaken, wherever the copy is placed.                   *)
(*                                                                         *)
(* The relocators look at the instructions a run of the template visits,   *)
(* in its order, and at no others.  The invariant follows this trail: it   *)
(* has the visited instructions and for each the offset its code has, or   *)
(* will have, in the copy.                                                 *)
(***************************************************************************)
EXTENDS SafeJitProofs

-----------------------------------------------------------------------------
(* The trail *)

(* The instruction behind i, and how far its code is from that of i.       *)
Succ(i) ==
    IF template[i].op = "b" THEN template[i].to
    ELSE IF Pairs(i) THEN i + 2 ELSE i + 1

NewLen(i) ==
    IF template[i].op = "b" THEN start[template[i].to] - start[i]
    ELSE IF Pairs(i) THEN MovLen
    ELSE IF Loads(i) THEN 4 + template[i].len
    ELSE IF UsesAddress(i) THEN 4
    ELSE template[i].len

(* An instruction that may be anywhere.                                    *)
Free(i) == i # Asm => ~UsesAddress(i) /\ template[i].op \notin {"call", "jump"}

(* It will be in the next slice that is copied, or is in one.              *)
Waiting(i, x) ==
    /\ Free(i)
    /\ cow.copied <= start[i]
    /\ x = cow.len + start[i] - cow.copied

Kept(i, x) == Free(i) /\ CopiesOf(start[i], x) # {}

(* The load of an instruction is a hole yet, and which address it will     *)
(* load is with the loads put aside, of which the first are done.          *)
Holed(i, x, from) ==
    /\ \E p \in cow.pieces : p.kind = "hole" /\ p.at = x /\ p.len = 4 /\ p.src = start[i]
    /\ \E k \in DOMAIN extra : from <= k /\ extra[k].at = x /\ extra[k].addr = Address(i)

(* A load in its final place has the distance to its literal.              *)
Linked(p, l) ==
    IF mode = "a64"
    THEN p.arg = l.at - p.at \/ p.arg < 0
    ELSE p.arg = (pc + l.at) - EffectivePc(pc + p.at)

LoadsLiteral(i, x) ==
    \E p, l \in cow.pieces :
        /\ p.kind = "ldr" /\ p.at = x /\ p.len = 4 /\ p.src = start[i]
        /\ l.kind = "literal" /\ l.arg = Address(i)
        /\ Linked(p, l)

Dereferenced(i, x) ==
    Loads(i) => \E d \in cow.pieces : d.kind = "deref" /\ d.at = x + 4 /\ d.src = start[i]

Moved(i, x) ==
    \E p \in cow.pieces :
        p.kind = "mov" /\ p.at = x /\ p.len = MovLen /\ p.src = start[i] /\ p.arg = Address(i)

Replaced(i, x, from) ==
    /\ i # Asm
    /\ \/ Pairs(i) /\ Moved(i, x)
       \/ /\ UsesAddress(i) /\ template[i].op # "ldrReg" /\ Dereferenced(i, x)
          /\ Holed(i, x, from) \/ LoadsLiteral(i, x)

Settled(i, x, from) == Kept(i, x) \/ Replaced(i, x, from)

(* visited are instructions up to f, each followed by the next.            *)
Follow(visited, pos, f) ==
    /\ visited \subseteq 1..f /\ f \in 1..Asm
    /\ 1 \in visited /\ f \in visited
    /\ pos \in [1..Asm -> Int] /\ pos[1] = 0
    /\ \A i \in visited \ {f} :
          Succ(i) \in visited /\ pos[Succ(i)] = pos[i] + NewLen(i)

(* The trail up to f, where the relocator is.                              *)
ScanTrail(visited, pos, f) ==
    /\ Follow(visited, pos, f)
    /\ cow.copied <= start[f]
    /\ pos[f] = cow.len + start[f] - cow.copied
    /\ \A i \in visited \ {f} : Waiting(i, pos[i]) \/ Settled(i, pos[i], 1)

(* The whole trail, when all has been copied.                              *)
DoneTrail(visited, pos, from) ==
    /\ Follow(visited, pos, Asm)
    /\ \A i \in visited : Settled(i, pos[i], from)

HolesApart(from) ==
    \A k \in DOMAIN extra :
        from <= k =>
            /\ \E p \in cow.pieces : p.kind = "hole" /\ p.at = extra[k].at
            /\ \A j \in DOMAIN extra : from <= j /\ j # k => extra[j].at # extra[k].at

(* The second instruction of a pair.                                       *)
Popped(i) == i > 1 /\ Pairs(i - 1)

IsPair(e, i) ==
    /\ Pairs(i)
    /\ e.at = start[i] /\ e.addr = Address(i)
    /\ e.at + e.len = start[i + 2]

(* The pairs found on x86 in front of instruction f are all there are.     *)
PairsFound(f) ==
    /\ ~Popped(f)
    /\ \A i \in 1..(f - 1) :
          Popped(i) \/ Free(i) \/ \E k \in DOMAIN extra : IsPair(extra[k], i)
    /\ \A k \in DOMAIN extra : \E i \in Prologue : IsPair(extra[k], i)

EncodeTrail ==
    /\ PairsFound(Asm)
    /\ \A k \in DOMAIN extra : k < cursor => extra[k].at + extra[k].len <= cow.copied
    /\ \E visited, pos, f :
          ScanTrail(visited, pos, f) /\ start[f] = cow.copied /\ ~Popped(f)

AllPlausible == \A i \in Prologue : Plausible(i)

TrailInv ==
    /\ phase = "scan" /\ mode # "x86" =>
          HolesApart(1) /\ \E visited, pos : ScanTrail(visited, pos, cursor)
    /\ phase = "scan" /\ mode = "x86" => PairsFound(cursor)
    /\ phase = "encode" => EncodeTrail
    /\ phase = "pool" =>
          HolesApart(1) /\ \E visited, pos : ScanTrail(visited, pos, Asm)
    /\ phase = "literals" =>
          HolesApart(cursor) /\ \E visited, pos : DoneTrail(visited, pos, cursor)
    /\ phase = "alloc" => \E visited, pos : DoneTrail(visited, pos, Len(extra) + 1)
    /\ phase = "run" =>
          \E visited, pos :
              DoneTrail(visited, pos, Len(extra) + 1) /\ at \in visited /\ ip = pos[at]

(* In A32 the constants move by whole instructions.                        *)
ArmInWords ==
    mode = "arm" /\ phase \notin {"compile", "search"} => (newMagic - magic) % 4 = 0

RunInv ==
    /\ JitInv
    /\ start[1] = 0
    /\ phase # "run" => at = 1 /\ ip = 0
    /\ ArmInWords
    /\ AllPlausible => TrailInv

-----------------------------------------------------------------------------
(* What a step carries over *)

(* None of this depends on what a relocation changes.                      *)
LEMMA TemplateStays ==
    ASSUME UNCHANGED templateVars
    PROVE  /\ UNCHANGED <<mode, pc, template, start>>
           /\ Asm' = Asm /\ Prologue' = Prologue /\ MagicAt' = MagicAt
           /\ \A i : (Free(i)' <=> Free(i)) /\ (Pairs(i)' <=> Pairs(i))
           /\ \A i : (UsesAddress(i)' <=> UsesAddress(i)) /\ (Loads(i)' <=> Loads(i))
           /\ \A i : Address(i)' = Address(i) /\ Succ(i)' = Succ(i) /\ NewLen(i)' = NewLen(i)
           /\ \A i : (Popped(i)' <=> Popped(i)) /\ (Plausible(i)' <=> Plausible(i))
           /\ \A a : EffectivePc(a)' = EffectivePc(a)
           /\ AllPlausible' <=> AllPlausible
  <1>1. UNCHANGED <<mode, pc, asmCode, template, start>>
    BY DEF templateVars
  <1>2. Asm' = Asm /\ Prologue' = Prologue /\ MagicAt' = MagicAt
    BY LayoutStays
  <1>3. \A i : (UsesAddress(i)' <=> UsesAddress(i)) /\ (Loads(i)' <=> Loads(i))
    BY <1>1 DEF UsesAddress, Loads
  <1>4. \A i : (Pairs(i)' <=> Pairs(i))
    BY <1>1, <1>2 DEF Pairs
  <1>5. \A i : (Free(i)' <=> Free(i))
    BY <1>1, <1>2, <1>3 DEF Free
  <1>6. \A a : EffectivePc(a)' = EffectivePc(a)
    BY <1>1 DEF EffectivePc
  <1>7. \A i : Address(i)' = Address(i)
    BY <1>1, <1>6 DEF Address
  <1>8. \A i : Succ(i)' = Succ(i)
    BY <1>1, <1>4 DEF Succ
  <1>9. \A i : NewLen(i)' = NewLen(i)
    BY <1>1, <1>3, <1>4 DEF NewLen, MovLen
  <1>10. \A i : (Popped(i)' <=> Popped(i))
    BY <1>4 DEF Popped
  <1>11. \A i : (Plausible(i)' <=> Plausible(i))
    <2>1. \A i : AdrImmediate(i)' = AdrImmediate(i)
      BY <1>1 DEF AdrImmediate, Signed
    <2>2. \A i : (Inside(i)' <=> Inside(i))
      BY <1>1, <1>2 DEF Inside
    <2> QED BY <1>1, <1>2, <1>3, <1>7, <2>1, <2>2 DEF Plausible
  <1>12. AllPlausible' <=> AllPlausible
    BY <1>2, <1>11 DEF AllPlausible
  <1> QED BY <1>1, <1>2, <1>3, <1>4, <1>5, <1>6, <1>7, <1>8, <1>9, <1>10, <1>11, <1>12

(* All pieces and loads put aside stay, and more may come.                 *)
Grown ==
    /\ UNCHANGED templateVars
    /\ cow.pieces \subseteq cow'.pieces
    /\ \A k \in DOMAIN extra : k \in DOMAIN extra' /\ extra'[k] = extra[k]

LEMMA SettledStays ==
    ASSUME Grown, NEW i, NEW x, NEW from, Settled(i, x, from)
    PROVE  Settled(i, x, from)'
  <1>1. Grown /\ UNCHANGED <<mode, pc, template, start>> /\ Asm' = Asm
        /\ (Free(i)' <=> Free(i)) /\ (Pairs(i)' <=> Pairs(i)) /\ Address(i)' = Address(i)
        /\ (UsesAddress(i)' <=> UsesAddress(i)) /\ (Loads(i)' <=> Loads(i))
        /\ \A a : EffectivePc(a)' = EffectivePc(a)
    BY TemplateStays DEF Grown
  <1>2. Kept(i, x) => Kept(i, x)'
    BY <1>1 DEF Kept, CopiesOf, Grown
  <1>3. Moved(i, x) => Moved(i, x)'
    BY <1>1 DEF Moved, MovLen, Grown
  <1>4. Dereferenced(i, x) => Dereferenced(i, x)'
    BY <1>1 DEF Dereferenced, Grown
  <1>5. Holed(i, x, from) => Holed(i, x, from)'
    BY <1>1 DEF Holed, Grown
  <1>6. \A p, l : Linked(p, l)' <=> Linked(p, l)
    BY <1>1 DEF Linked
  <1>7. LoadsLiteral(i, x) => LoadsLiteral(i, x)'
    BY <1>1, <1>6 DEF LoadsLiteral, Grown
  <1> QED BY <1>1, <1>2, <1>3, <1>4, <1>5, <1>7 DEF Settled, Replaced

(* The slice that is copied next.                                          *)
NextSlice(end) ==
    [kind |-> "copy", at |-> cow.len, len |-> end - cow.copied, src |-> cow.copied, arg |-> 0]

LEMMA WaitingIsKept ==
    ASSUME LayoutInv, UNCHANGED templateVars, cow.len \in Nat, cow.copied \in Nat,
           NEW i \in 1..Asm, NEW x, Waiting(i, x),
           NEW end \in Nat, start[i] < end,
           cow.copied < end => NextSlice(end) \in cow'.pieces
    PROVE  Kept(i, x)'
  <1>1. start[i] \in Nat
    BY Layout
  <1>2. Free(i)' /\ start' = start
    BY TemplateStays DEF Waiting
  <1>3. NextSlice(end) \in cow'.pieces
    BY <1>1 DEF Waiting
  <1>4. NextSlice(end) \in CopiesOf(start[i], x)'
    BY <1>1, <1>2, <1>3 DEF CopiesOf, NextSlice, Waiting
  <1> QED BY <1>2, <1>4 DEF Kept

-----------------------------------------------------------------------------
(* How the trail grows *)

(* Code that may be anywhere is as long as it was.                         *)
LEMMA FreeStep ==
    ASSUME LayoutInv, NEW i \in Prologue, Free(i), template[i].op # "b"
    PROVE  /\ Succ(i) = i + 1 /\ NewLen(i) = start[i + 1] - start[i]
           /\ i + 1 \in 1..Asm /\ start[i] \in Nat /\ start[i + 1] \in Nat
           /\ start[i] < start[i + 1]
  <1>1. i \in 1..Asm /\ i + 1 \in 1..Asm /\ i # Asm /\ i \in Nat
    BY Layout DEF Prologue, Asm
  <1>2. start[i] \in Nat /\ start[i + 1] \in Nat /\ start[i] < start[i + 1]
    BY <1>1, Layout DEF LayoutInv
  <1>3. ~UsesAddress(i) /\ ~Loads(i) /\ ~Pairs(i)
    BY <1>1 DEF Free, UsesAddress, Loads, Pairs
  <1>4. start[i] + template[i].len = start[i + 1] /\ template[i].len \in Nat
    BY Layout DEF LayoutInv, Instruction
  <1> QED BY <1>1, <1>2, <1>3, <1>4 DEF Succ, NewLen

(* Instructions in a row that may be anywhere wait to be copied.           *)
LEMMA Stretch ==
    ASSUME LayoutInv, cow.len \in Nat, cow.copied \in Nat,
           NEW visited, NEW pos, NEW f \in 1..Asm, ScanTrail(visited, pos, f),
           NEW g \in 1..Asm, f <= g,
           \A i \in f..(g - 1) : Free(i) /\ template[i].op # "b"
    PROVE  \E w, q : ScanTrail(w, q, g)
  <1> DEFINE w == visited \cup (f..g)
             q == [i \in 1..Asm |-> IF i \in f..g THEN cow.len + start[i] - cow.copied
                                    ELSE pos[i]]
  <1>1. /\ visited \subseteq 1..f /\ 1 \in visited /\ f \in visited
        /\ pos \in [1..Asm -> Int] /\ pos[1] = 0
        /\ cow.copied <= start[f] /\ pos[f] = cow.len + start[f] - cow.copied
        /\ \A i \in visited \ {f} :
              /\ Succ(i) \in visited /\ pos[Succ(i)] = pos[i] + NewLen(i)
              /\ Waiting(i, pos[i]) \/ Settled(i, pos[i], 1)
    BY DEF ScanTrail, Follow
  <1>2. /\ Asm \in Nat /\ f \in Nat /\ g \in Nat /\ f <= Asm /\ g <= Asm
        /\ \A i \in 1..Asm : start[i] \in Nat
        /\ \A i, j \in 1..Asm : i < j => start[i] < start[j]
    BY Layout DEF LayoutInv
  <1>3. w \subseteq 1..g /\ 1 \in w /\ g \in w
    BY <1>1, <1>2
  <1>4. q \in [1..Asm -> Int]
    BY <1>1, <1>2
  <1>5. \A i \in visited : q[i] = pos[i]
    BY <1>1, <1>2
  <1>6. q[1] = 0 /\ q[g] = cow.len + start[g] - cow.copied /\ cow.copied <= start[g]
    <2>1. start[f] <= start[g]
      BY <1>2
    <2> QED BY <1>1, <1>2, <1>5, <2>1
  <1>7. ASSUME NEW i \in w \ {g}
        PROVE  /\ Succ(i) \in w /\ q[Succ(i)] = q[i] + NewLen(i)
               /\ Waiting(i, q[i]) \/ Settled(i, q[i], 1)
    <2>1. CASE i \in visited \ {f}
      <3>1. Succ(i) \in visited /\ pos[Succ(i)] = pos[i] + NewLen(i)
            /\ (Waiting(i, pos[i]) \/ Settled(i, pos[i], 1))
        BY <1>1, <2>1
      <3>2. q[i] = pos[i] /\ q[Succ(i)] = pos[Succ(i)]
        BY <1>5, <2>1, <3>1
      <3> QED BY <3>1, <3>2
    <2>2. CASE i \notin visited \ {f}
      <3>1. i \in f..(g - 1) /\ i \in Prologue /\ i + 1 \in f..g
        BY <1>1, <1>2, <1>7, <2>2, Layout DEF Prologue, Asm
      <3>2. Free(i) /\ Succ(i) = i + 1 /\ NewLen(i) = start[i + 1] - start[i]
        BY <3>1, FreeStep
      <3>3. /\ q[i] = cow.len + start[i] - cow.copied
            /\ q[i + 1] = cow.len + start[i + 1] - cow.copied
            /\ start[i] \in Nat /\ start[i + 1] \in Nat /\ start[f] <= start[i]
        BY <1>2, <3>1
      <3>4. i + 1 \in w /\ start[f] \in Nat
        BY <1>2, <3>1
      <3> HIDE DEF w, q
      <3>5. cow.copied <= start[i]
        BY <1>1, <3>3, <3>4
      <3>6. Waiting(i, q[i])
        BY <3>2, <3>3, <3>5 DEF Waiting
      <3>7. q[i + 1] = q[i] + (start[i + 1] - start[i])
        BY <3>3
      <3> QED BY <3>2, <3>4, <3>6, <3>7
    <2> QED BY <2>1, <2>2
  <1> HIDE DEF w, q
  <1> QED BY <1>3, <1>4, <1>6, <1>7 DEF ScanTrail, Follow

(* A branch within the template goes as far in the copy.                   *)
LEMMA FollowBranch ==
    ASSUME LayoutInv, cow.len \in Nat, cow.copied \in Nat,
           NEW visited, NEW pos, NEW f \in Prologue, ScanTrail(visited, pos, f),
           template[f].op = "b", Inside(f), f < template[f].to
    PROVE  \E w, q : ScanTrail(w, q, template[f].to)
  <1> DEFINE g == template[f].to
             w == visited \cup {g}
             q == [pos EXCEPT ![g] = pos[f] + NewLen(f)]
  <1>1. /\ visited \subseteq 1..f /\ 1 \in visited /\ f \in visited
        /\ pos \in [1..Asm -> Int] /\ pos[1] = 0
        /\ cow.copied <= start[f] /\ pos[f] = cow.len + start[f] - cow.copied
        /\ \A i \in visited \ {f} :
              /\ Succ(i) \in visited /\ pos[Succ(i)] = pos[i] + NewLen(i)
              /\ Waiting(i, pos[i]) \/ Settled(i, pos[i], 1)
    BY DEF ScanTrail, Follow
  <1>2. /\ f \in 1..Asm /\ f \in Nat /\ g \in 1..Asm /\ f < g /\ Asm \in Nat
        /\ start[f] \in Nat /\ start[g] \in Nat /\ start[f] < start[g]
    BY Layout DEF Inside, LayoutInv
  <1>3. Succ(f) = g /\ NewLen(f) = start[g] - start[f] /\ Waiting(f, pos[f])
    <2>1. Free(f)
      BY DEF Free, UsesAddress
    <2> QED BY <1>1, <2>1 DEF Succ, NewLen, Waiting
  <1> HIDE DEF g
  <1>4. /\ w \subseteq 1..g /\ 1 \in w /\ g \in w /\ g \notin visited
        /\ q \in [1..Asm -> Int] /\ q[g] = cow.len + start[g] - cow.copied
        /\ \A i \in visited : q[i] = pos[i]
    <2>1. w \subseteq 1..g /\ 1 \in w /\ g \in w /\ g \notin visited
      BY <1>1, <1>2
    <2>2. pos[f] \in Int /\ NewLen(f) \in Int
      BY <1>1, <1>2, <1>3
    <2>3. q \in [1..Asm -> Int] /\ q[g] = pos[f] + NewLen(f)
      BY <1>1, <1>2, <2>2
    <2>4. \A i \in visited : q[i] = pos[i]
      BY <1>1, <1>2, <2>1
    <2>5. pos[f] + NewLen(f) = cow.len + start[g] - cow.copied
      BY <1>1, <1>2, <1>3
    <2> QED BY <2>1, <2>3, <2>4, <2>5
  <1>5. \A i \in w \ {g} : /\ Succ(i) \in w /\ q[Succ(i)] = q[i] + NewLen(i)
                           /\ Waiting(i, q[i]) \/ Settled(i, q[i], 1)
    <2>1. ASSUME NEW i \in visited \ {f}
          PROVE  /\ Succ(i) \in w /\ q[Succ(i)] = q[i] + NewLen(i)
                 /\ Waiting(i, q[i]) \/ Settled(i, q[i], 1)
      <3>1. Succ(i) \in visited /\ pos[Succ(i)] = pos[i] + NewLen(i)
            /\ (Waiting(i, pos[i]) \/ Settled(i, pos[i], 1))
        BY <1>1, <2>1
      <3>2. q[i] = pos[i] /\ q[Succ(i)] = pos[Succ(i)]
        BY <1>4, <2>1, <3>1
      <3> QED BY <3>1, <3>2
    <2>2. /\ Succ(f) \in w /\ q[Succ(f)] = q[f] + NewLen(f) /\ Waiting(f, q[f])
      <3>1. q[f] = pos[f]
        BY <1>1, <1>4
      <3> QED BY <1>1, <1>2, <1>3, <1>4, <3>1
    <2> QED BY <2>1, <2>2
  <1> HIDE DEF w, q
  <1>6. q[1] = 0 /\ cow.copied <= start[g]
    BY <1>1, <1>2, <1>4
  <1> QED BY <1>2, <1>4, <1>5, <1>6 DEF ScanTrail, Follow, g

LEMMA TrailStays ==
    ASSUME UNCHANGED templateVars, cow' = cow,
           \A k \in DOMAIN extra : k \in DOMAIN extra' /\ extra'[k] = extra[k],
           NEW visited, NEW pos, NEW f, ScanTrail(visited, pos, f)
    PROVE  ScanTrail(visited, pos, f)'
  <1>1. UNCHANGED <<mode, pc, template, start>> /\ Asm' = Asm
        /\ (\A i : (Free(i)' <=> Free(i)) /\ Succ(i)' = Succ(i) /\ NewLen(i)' = NewLen(i))
    BY TemplateStays
  <1>2. Grown
    BY DEF Grown
  <1>3. \A i, x : Settled(i, x, 1) => Settled(i, x, 1)'
    BY <1>2, SettledStays
  <1>4. \A i, x : Waiting(i, x) => Waiting(i, x)'
    BY <1>1 DEF Waiting
  <1> QED BY <1>1, <1>3, <1>4 DEF ScanTrail, Follow

(* The load of an instruction takes its place, behind what waits.          *)
LEMMA ReplacedNext ==
    ASSUME LayoutInv, Grown, cow.len \in Nat, cow.copied \in Nat,
           NEW visited, NEW pos, NEW f \in Prologue, ScanTrail(visited, pos, f),
           NEW g \in 1..Asm, g = Succ(f), f < g, NEW n \in Int, n = NewLen(f),
           NEW x, x = cow.len + start[f] - cow.copied,
           Replaced(f, x, 1)',
           cow.copied < start[f] => NextSlice(start[f]) \in cow'.pieces,
           cow'.copied = start[g], cow'.len = x + n
    PROVE  \E w, q : ScanTrail(w, q, g)'
  <1>1. /\ visited \subseteq 1..f /\ 1 \in visited /\ f \in visited
        /\ pos \in [1..Asm -> Int] /\ pos[1] = 0
        /\ cow.copied <= start[f] /\ pos[f] = x
        /\ \A i \in visited \ {f} :
              /\ Succ(i) \in visited /\ pos[Succ(i)] = pos[i] + NewLen(i)
              /\ Waiting(i, pos[i]) \/ Settled(i, pos[i], 1)
    BY DEF ScanTrail, Follow
  <1>2. /\ f \in 1..Asm /\ f \in Nat /\ g \in Nat /\ Asm \in Nat
        /\ start[f] \in Nat /\ start[g] \in Nat /\ x \in Int /\ 1 \in 1..Asm
    <2>1. Asm \in Nat /\ Asm > 0 /\ f \in 1..Asm
      BY Layout
    <2>2. f \in Nat /\ g \in Nat /\ 1 \in 1..Asm
      BY <2>1
    <2>3. start[f] \in Nat /\ start[g] \in Nat
      BY <2>1, Layout
    <2> QED BY <2>1, <2>2, <2>3
  <1>3. UNCHANGED <<mode, pc, template, start>> /\ Asm' = Asm
        /\ (\A i : Succ(i)' = Succ(i) /\ NewLen(i)' = NewLen(i))
    BY TemplateStays DEF Grown
  <1>4. PICK w : w = visited \cup {g}
    OBVIOUS
  <1>5. PICK y \in Int : y = x + n
    BY <1>2
  <1>6. PICK q : q = [pos EXCEPT ![g] = y]
    OBVIOUS
  <1>7. w \subseteq 1..g /\ 1 \in w /\ g \in w /\ g \notin visited
    <2>1. \A i \in visited : i \in Nat /\ 1 <= i /\ i < g
      BY <1>1, <1>2
    <2>2. \A i \in w : i \in Nat /\ 1 <= i /\ i <= g
      BY <1>2, <1>4, <2>1
    <2>3. w \subseteq 1..g
      BY <1>2, <2>2
    <2>4. 1 \in w /\ g \in w
      BY <1>1, <1>4
    <2>5. g \notin visited
      BY <1>2, <2>1
    <2> QED BY <2>3, <2>4, <2>5
  <1>8. /\ q \in [1..Asm -> Int] /\ q[g] = y
        /\ \A i \in visited : q[i] = pos[i]
    <2>1. pos \in [1..Asm -> Int] /\ visited \subseteq 1..f /\ f < g
      BY <1>1
    <2>2. q \in [1..Asm -> Int] /\ q[g] = y
      BY <1>5, <1>6, <2>1
    <2>3. \A i \in 1..Asm : i # g => q[i] = pos[i]
      BY <1>6, <2>1
    <2>4. \A i \in visited : i \in 1..Asm /\ i # g
      <3>1. \A i \in visited : i \in Nat /\ 1 <= i /\ i <= f
        BY <1>2, <2>1
      <3>2. f <= Asm
        BY <1>2
      <3> QED BY <1>2, <1>7, <3>1, <3>2
    <2> QED BY <2>2, <2>3, <2>4
  <1>9. q[1] = 0
    BY <1>1, <1>8
  <1>10. ASSUME NEW i \in w \ {g}
         PROVE  /\ Succ(i) \in w /\ q[Succ(i)] = q[i] + NewLen(i)
                /\ Settled(i, q[i], 1)'
    <2>1. CASE i = f
      <3>1. q[f] = x /\ q[g] = x + n
        BY <1>1, <1>5, <1>8
      <3>2. Settled(f, x, 1)'
        BY DEF Settled
      <3>3. Settled(f, q[f], 1)'
        BY <3>1, <3>2
      <3> QED BY <1>7, <2>1, <3>1, <3>3
    <2>2. CASE i # f
      <3>1. i \in visited \ {f} /\ i \in 1..Asm /\ i < f
        BY <1>1, <1>2, <1>4, <1>10, <2>2
      <3>2. /\ Succ(i) \in visited /\ pos[Succ(i)] = pos[i] + NewLen(i)
            /\ Waiting(i, pos[i]) \/ Settled(i, pos[i], 1)
        BY <1>1, <3>1
      <3>3. q[i] = pos[i] /\ q[Succ(i)] = pos[Succ(i)] /\ Succ(i) \in w
        BY <1>4, <1>8, <3>1, <3>2
      <3>4. Settled(i, pos[i], 1) => Settled(i, pos[i], 1)'
        BY SettledStays
      <3>5. start[i] < start[f]
        BY <1>2, <3>1 DEF LayoutInv
      <3>6. Waiting(i, pos[i]) => Kept(i, pos[i])'
        BY <1>2, <3>1, <3>5, WaitingIsKept DEF Grown
      <3>7. Settled(i, pos[i], 1)'
        BY <3>2, <3>4, <3>6 DEF Settled
      <3>8. Settled(i, q[i], 1)'
        BY <3>3, <3>7
      <3> QED BY <3>2, <3>3, <3>8
    <2> QED BY <2>1, <2>2
  <1>11. cow'.copied <= start'[g] /\ q[g] = cow'.len + start'[g] - cow'.copied
    BY <1>2, <1>3, <1>5, <1>8
  <1>12. Follow(w, q, g)'
    BY <1>3, <1>7, <1>8, <1>9, <1>10 DEF Follow
  <1> QED BY <1>10, <1>11, <1>12 DEF ScanTrail

(* The rest of the template is copied, with all that waits.                *)
LEMMA AllCopied ==
    ASSUME LayoutInv, Grown, cow.len \in Nat, cow.copied \in Nat,
           NEW visited, NEW pos, ScanTrail(visited, pos, Asm),
           NEW end \in Nat, start[Asm] < end, NextSlice(end) \in cow'.pieces
    PROVE  DoneTrail(visited, pos, 1)'
  <1>1. /\ Follow(visited, pos, Asm) /\ visited \subseteq 1..Asm
        /\ cow.copied <= start[Asm] /\ pos[Asm] = cow.len + start[Asm] - cow.copied
        /\ \A i \in visited \ {Asm} : Waiting(i, pos[i]) \/ Settled(i, pos[i], 1)
    BY DEF ScanTrail, Follow
  <1>2. Asm \in 1..Asm /\ Asm' = Asm
        /\ (\A i : Succ(i)' = Succ(i) /\ NewLen(i)' = NewLen(i))
    BY Layout, TemplateStays DEF Grown
  <1>3. Waiting(Asm, pos[Asm])
    BY <1>1 DEF Waiting, Free
  <1>4. ASSUME NEW i \in visited
        PROVE  Settled(i, pos[i], 1)'
    <2>1. i \in 1..Asm /\ start[i] < end
      <3>1. i \in 1..Asm
        BY <1>1
      <3>2. start[i] \in Nat /\ start[i] <= start[Asm] /\ start[Asm] \in Nat
        BY <1>2, <3>1, Layout
      <3> QED BY <3>1, <3>2
    <2>2. Waiting(i, pos[i]) => Kept(i, pos[i])'
      BY <2>1, WaitingIsKept DEF Grown
    <2>3. Settled(i, pos[i], 1) => Settled(i, pos[i], 1)'
      BY SettledStays
    <2> QED BY <1>1, <1>3, <2>2, <2>3 DEF Settled
  <1>5. Follow(visited, pos, Asm)'
    BY <1>1, <1>2 DEF Follow
  <1> QED BY <1>4, <1>5 DEF DoneTrail

(* What TrailInv asks for in the phase after a step.                       *)
LEMMA ScanNow ==
    ASSUME phase' = "scan", mode' # "x86", HolesApart(1)',
           NEW g, cursor' = g, \E w, q : ScanTrail(w, q, g)'
    PROVE  TrailInv'
  <1>1. PICK w, q : ScanTrail(w, q, g)'
    OBVIOUS
  <1>2. ScanTrail(w, q, cursor)'
    BY <1>1 DEF ScanTrail, Follow
  <1> QED BY <1>2 DEF TrailInv

LEMMA DoneNow ==
    ASSUME phase' = "alloc", NEW visited, NEW pos,
           NEW n, n = Len(extra') + 1, DoneTrail(visited, pos, n)'
    PROVE  TrailInv'
  <1>1. \A i, x : Settled(i, x, n)' => Settled(i, x, Len(extra) + 1)'
    BY DEF Settled, Replaced, Holed
  <1>2. DoneTrail(visited, pos, Len(extra) + 1)'
    BY <1>1 DEF DoneTrail
  <1> QED BY <1>2 DEF TrailInv

-----------------------------------------------------------------------------
(* Loads *)

LEMMA AppendPieces ==
    ASSUME NEW b, Shaped(b), NEW offset \in Nat, b.copied <= offset,
           NEW kind, NEW n, NEW arg, NEW d, d = AppendBytes(b, offset, kind, n, arg)
    PROVE  /\ b.pieces \subseteq d.pieces
           /\ [kind |-> kind, at |-> b.len + offset - b.copied, len |-> n,
               src |-> offset, arg |-> arg] \in d.pieces
           /\ b.copied < offset =>
                 [kind |-> "copy", at |-> b.len, len |-> offset - b.copied,
                  src |-> b.copied, arg |-> 0] \in d.pieces
  <1> DEFINE c == CopyUpTo(b, offset)
  <1>1. /\ c.len = b.len + offset - b.copied /\ b.pieces \subseteq c.pieces
        /\ b.copied < offset =>
              [kind |-> "copy", at |-> b.len, len |-> offset - b.copied,
               src |-> b.copied, arg |-> 0] \in c.pieces
    BY CopyUpToRight
  <1>2. d = Push(c, kind, n, offset, arg)
    BY DEF AppendBytes
  <1> HIDE DEF c
  <1>3. d.pieces = c.pieces \cup {[kind |-> kind, at |-> c.len, len |-> n,
                                  src |-> offset, arg |-> arg]}
    BY <1>2 DEF Push
  <1> QED BY <1>1, <1>3

(* The address of an instruction becomes that of a literal.                *)
LEMMA LoadTrail ==
    ASSUME JitInv, Static, phase = "scan", mode # "x86", cursor < Asm, HolesApart(1),
           NEW visited, NEW pos, ScanTrail(visited, pos, cursor),
           UsesAddress(cursor), template[cursor].op # "ldrReg",
           UNCHANGED phase, cursor' = cursor + 1,
           NEW x, x = cow.len + start[cursor] - cow.copied,
           extra' = PutAside(x, Address(cursor)), Address(cursor) \in Int,
           cow.copied <= start[cursor], cow.pieces \subseteq cow'.pieces,
           cow.copied < start[cursor] => NextSlice(start[cursor]) \in cow'.pieces,
           [kind |-> "hole", at |-> x, len |-> 4, src |-> start[cursor], arg |-> 0] \in cow'.pieces,
           Loads(cursor) =>
               [kind |-> "deref", at |-> x + 4, len |-> template[cursor].len,
                src |-> start[cursor], arg |-> 0] \in cow'.pieces,
           cow'.copied = start[cursor + 1], cow'.len = x + NewLen(cursor)
    PROVE  TrailInv'
  <1> USE DEF RelocPhases
  <1>1. UNCHANGED templateVars /\ UNCHANGED <<mode, pc, template, start>>
    BY DEF Static, templateVars
  <1>2. /\ LayoutInv /\ cow.len \in Nat /\ cow.copied \in Nat /\ extra \in Seq(Put)
        /\ cursor \in Prologue /\ cursor \in Nat /\ cursor + 1 \in 1..Asm
        /\ start[cursor] \in Nat /\ template[cursor].len \in Nat
    BY Known, AtInstruction
  <1>3. x \in Nat /\ cow.len <= x
    BY <1>2
  <1>4. [at |-> x, len |-> 4, addr |-> Address(cursor)] \in Put
    BY <1>3 DEF Put
  <1>5. /\ Len(extra) \in Nat /\ DOMAIN extra = 1..Len(extra)
        /\ DOMAIN extra' = 1..(Len(extra) + 1)
        /\ \A k \in DOMAIN extra : extra'[k] = extra[k]
        /\ extra'[Len(extra) + 1] = [at |-> x, len |-> 4, addr |-> Address(cursor)]
    BY <1>2, <1>4, Appended DEF PutAside
  <1>6. Grown
    BY <1>1, <1>5 DEF Grown
  <1>7. Asm' = Asm /\ cursor # Asm
    BY <1>1, <1>2, Layout, TemplateStays DEF Static
  <1> HIDE DEF Static
  <1>8. PICK f : f = cursor
    OBVIOUS
  <1>9. f \in Prologue /\ f + 1 \in 1..Asm /\ f \in Nat
    BY <1>2, <1>8
  <1>10. Replaced(f, x, 1)'
    <2>1. UsesAddress(f)' /\ template'[f].op # "ldrReg" /\ f # Asm'
      <3>1. UsesAddress(f)' <=> UsesAddress(f)
        BY <1>1, TemplateStays
      <3> QED BY <1>1, <1>7, <1>8, <3>1
    <2>2. Address(f)' = Address(f) /\ (Loads(f)' <=> Loads(f))
      BY <1>1, TemplateStays
    <2>3. Dereferenced(f, x)'
      BY <1>1, <1>8, <2>2 DEF Dereferenced
    <2>4. \E p \in cow'.pieces : p.kind = "hole" /\ p.at = x /\ p.len = 4 /\ p.src = start'[f]
      BY <1>1, <1>8
    <2>5. \E k \in DOMAIN extra' : 1 <= k /\ extra'[k].at = x /\ extra'[k].addr = Address(f)'
      BY <1>5, <1>8, <2>2
    <2>6. Holed(f, x, 1)'
      BY <2>4, <2>5 DEF Holed
    <2> QED BY <2>1, <2>3, <2>6 DEF Replaced
  <1>11. Succ(f) = f + 1
    BY <1>8 DEF Succ, UsesAddress, Pairs
  <1>12. NewLen(f) \in Int
    <2>1. NewLen(cursor) = (IF Loads(cursor) THEN 4 + template[cursor].len ELSE 4)
      BY DEF NewLen, UsesAddress, Pairs
    <2> QED BY <1>2, <1>8, <2>1
  <1>13. \E w, q : ScanTrail(w, q, f + 1)'
    <2>1. PICK g \in 1..Asm : g = f + 1
      BY <1>9
    <2>2. PICK n \in Int : n = NewLen(f)
      BY <1>12
    <2>3. /\ ScanTrail(visited, pos, f) /\ x = cow.len + start[f] - cow.copied
          /\ cow.copied < start[f] => NextSlice(start[f]) \in cow'.pieces
          /\ cow'.copied = start[g] /\ cow'.len = x + n /\ g = Succ(f) /\ f < g
      BY <1>8, <1>9, <1>11, <2>1, <2>2
    <2>4. \E w, q : ScanTrail(w, q, g)'
      BY <1>2, <1>6, <1>9, <1>10, <2>2, <2>3, ReplacedNext
    <2>5. PICK w, q : ScanTrail(w, q, g)'
      BY <2>4
    <2>6. ScanTrail(w, q, f + 1)'
      BY <2>1, <2>5 DEF ScanTrail, Follow
    <2> QED BY <2>6
  <1>14. HolesApart(1)'
    <2>1. \A k \in DOMAIN extra : extra[k].at < cow.len /\ extra[k].at \in Nat
      BY <1>2, PutTyped DEF JitInv, ScanInv
    <2>2. \A k \in DOMAIN extra : extra[k].at # x
      BY <1>2, <1>3, <2>1
    <2>3. \A k \in DOMAIN extra :
             /\ \E p \in cow'.pieces : p.kind = "hole" /\ p.at = extra[k].at
             /\ \A j \in DOMAIN extra : j # k => extra[j].at # extra[k].at
      BY <1>5 DEF HolesApart
    <2>4. \E p \in cow'.pieces : p.kind = "hole" /\ p.at = x
      OBVIOUS
    <2>5. \A k \in DOMAIN extra' : k \in DOMAIN extra \/ k = Len(extra) + 1
      BY <1>5
    <2>6. extra'[Len(extra) + 1].at = x
      BY <1>5
    <2>7. \A k \in DOMAIN extra' :
             /\ \E p \in cow'.pieces : p.kind = "hole" /\ p.at = extra'[k].at
             /\ \A j \in DOMAIN extra' : j # k => extra'[j].at # extra'[k].at
      BY <1>5, <2>2, <2>3, <2>4, <2>5, <2>6
    <2> QED BY <2>7 DEF HolesApart
  <1>15. phase' = "scan" /\ mode' # "x86" /\ cursor' = f + 1
    BY <1>1, <1>8
  <1> QED BY <1>13, <1>14, <1>15, ScanNow

(* What the two loads of AArch64 and Arm leave in the buffer.              *)
LEMMA HoleLeft ==
    ASSUME NEW b, Shaped(b), NEW offset \in Nat, b.copied <= offset, NEW end \in Nat,
           NEW c, c.pieces = AppendBytes(b, offset, "hole", 4, 0).pieces
    PROVE  /\ b.pieces \subseteq c.pieces
           /\ [kind |-> "hole", at |-> b.len + offset - b.copied, len |-> 4,
               src |-> offset, arg |-> 0] \in c.pieces
           /\ b.copied < offset =>
                 [kind |-> "copy", at |-> b.len, len |-> offset - b.copied,
                  src |-> b.copied, arg |-> 0] \in c.pieces
  BY AppendPieces

LEMMA HoleAndDerefLeft ==
    ASSUME NEW b, Shaped(b), NEW offset \in Nat, b.copied <= offset, NEW len \in Nat, len > 0,
           NEW room, room = AppendBytes(b, offset, "hole", 4, 0),
           NEW both, both = AppendBytes(room, offset, "deref", len, 0)
    PROVE  /\ b.pieces \subseteq both.pieces
           /\ [kind |-> "hole", at |-> b.len + offset - b.copied, len |-> 4,
               src |-> offset, arg |-> 0] \in both.pieces
           /\ [kind |-> "deref", at |-> b.len + offset - b.copied + 4, len |-> len,
               src |-> offset, arg |-> 0] \in both.pieces
           /\ b.copied < offset =>
                 [kind |-> "copy", at |-> b.len, len |-> offset - b.copied,
                  src |-> b.copied, arg |-> 0] \in both.pieces
           /\ room.len = b.len + offset - b.copied + 4
           /\ both.len = b.len + offset - b.copied + 4 + len
           /\ both.copied = offset
  <1>1. /\ "hole" \in PieceKinds \ {"copy", "literal"}
        /\ "deref" \in PieceKinds \ {"copy", "literal"}
    BY DEF PieceKinds
  <1>2. b.len \in Nat /\ b.copied \in Nat
    BY DEF Shaped, Buffer
  <1>3. Shaped(room) /\ room.len = b.len + offset - b.copied + 4 /\ room.copied = offset
    BY <1>1, AppendRight
  <1>4. /\ b.pieces \subseteq room.pieces
        /\ [kind |-> "hole", at |-> b.len + offset - b.copied, len |-> 4,
            src |-> offset, arg |-> 0] \in room.pieces
        /\ b.copied < offset =>
              [kind |-> "copy", at |-> b.len, len |-> offset - b.copied,
               src |-> b.copied, arg |-> 0] \in room.pieces
    BY AppendPieces
  <1>5. room.copied <= offset
    BY <1>3
  <1>6. both.len = room.len + offset - room.copied + len /\ both.copied = offset
    BY <1>1, <1>3, <1>5, AppendRight
  <1>7. /\ room.pieces \subseteq both.pieces
        /\ [kind |-> "deref", at |-> room.len + offset - room.copied, len |-> len,
            src |-> offset, arg |-> 0] \in both.pieces
    <2>1. \A d : d = AppendBytes(room, offset, "deref", len, 0) =>
             /\ room.pieces \subseteq d.pieces
             /\ [kind |-> "deref", at |-> room.len + offset - room.copied, len |-> len,
                 src |-> offset, arg |-> 0] \in d.pieces
      BY <1>3, <1>5, AppendPieces
    <2> QED BY <2>1
  <1>8. room.len + offset - room.copied = b.len + offset - b.copied + 4
    BY <1>2, <1>3
  <1>9. both.len = b.len + offset - b.copied + 4 + len
    BY <1>2, <1>6, <1>8
  <1> QED BY <1>3, <1>4, <1>6, <1>7, <1>8, <1>9

(* Where an instruction is not mistaken, the relocators decode its address.*)
LEMMA A64Decoded ==
    ASSUME mode = "a64", NEW i, Plausible(i), template[i].op \in {"adr", "adrp", "ldr"}
    PROVE  A64Target(i) = Address(i)
  BY DEF Plausible, A64Target, Address, EffectivePc

LEMMA ArmDecoded ==
    ASSUME JitInv, mode \in {"arm", "thumb"}, NEW i \in Prologue, Plausible(i)
    PROVE  /\ Loads(i) => LoadTarget(i) = Address(i)
           /\ template[i].op = "adr" => AdrTarget(i) = Address(i)
  <1>1. /\ pc \in Nat /\ start[i] \in Nat /\ template[i].imm \in Int
        /\ EffectivePc(pc + start[i]) \in Nat
    <2>1. pc \in Nat /\ start[i] \in Nat /\ template[i].imm \in Int
      BY Layout DEF JitInv, Instruction
    <2>2. pc + start[i] \in Nat
      BY <2>1
    <2> QED BY <2>1, <2>2, EffectivePcRight
  <1>2. ASSUME Loads(i)
        PROVE  LoadTarget(i) = Address(i)
    <2>1. template[i].op \in {"ldr", "ldrT1", "ldrW", "ldrD"}
      BY <1>2 DEF Loads, Plausible
    <2>2. Address(i) = EffectivePc(pc + start[i]) + template[i].imm
      BY <2>1 DEF Address
    <2> QED BY <1>1, <2>1, <2>2 DEF LoadTarget, Plausible
  <1>3. template[i].op = "adr" => AdrTarget(i) = Address(i)
    BY DEF AdrTarget, Address
  <1> QED BY <1>2, <1>3

(* The block is not mistaken for an instruction in front of it.            *)
LEMMA AtBlock ==
    ASSUME JitInv, phase = "scan", cursor < Asm => Plausible(cursor)
    PROVE  /\ mode = "a64" /\ A64AtAsm => cursor = Asm
           /\ mode \in {"arm", "thumb"} /\ ArmAtAsm => cursor = Asm
  <1>1. magic = MagicAt
    BY Known DEF RelocPhases
  <1>2. cursor < Asm => cursor \in Prologue
    BY AtInstruction
  <1>3. ASSUME mode = "a64", A64AtAsm, cursor # Asm
        PROVE  FALSE
    <2>1. cursor < Asm /\ template[cursor].op = "ldr" /\ A64Target(cursor) = pc + magic
      BY <1>3 DEF A64AtAsm
    <2> QED BY <1>1, <1>3, <2>1, A64Decoded DEF Plausible, Loads
  <1>4. ASSUME mode \in {"arm", "thumb"}, ArmAtAsm, cursor # Asm
        PROVE  FALSE
    <2>1. cursor < Asm /\ Loads(cursor) /\ LoadTarget(cursor) = pc + magic
      BY <1>4 DEF ArmAtAsm
    <2> QED BY <1>1, <1>2, <1>4, <2>1, ArmDecoded DEF Plausible
  <1> QED BY <1>3, <1>4

-----------------------------------------------------------------------------
(* Steps of the loop over the instructions *)

LEMMA A64LdrTrail ==
    ASSUME JitInv, Static, A64Ldr, AllPlausible, TrailInv
    PROVE  TrailInv'
  <1> USE DEF RelocPhases
  <1> DEFINE offset == start[cursor]
             room == AppendBytes(cow, offset, "hole", 4, 0)
             both == AppendBytes(room, offset, "deref", 4, 0)
  <1>1. /\ Scanning("a64") /\ template[cursor].op = "ldr" /\ cursor < Asm
        /\ extra' = PutAside(room.len - 4, A64Target(cursor))
        /\ cow' = SkipTo(both, offset + 4)
        /\ cursor' = cursor + 1 /\ UNCHANGED phase
    <2>1. cursor \in 1..Asm /\ Asm \in Nat
      BY Layout DEF A64Ldr, Scanning, JitInv, ScanInv
    <2> QED BY <2>1 DEF A64Ldr, A64AtAsm, Replace
  <1>2. mode = "a64" /\ phase = "scan" /\ cow.copied <= offset
    BY <1>1, A64Ahead DEF Scanning
  <1>3. /\ cursor \in Prologue /\ offset \in Nat /\ start[cursor + 1] = offset + 4
        /\ template[cursor].len = 4
    <2>1. cursor \in Prologue /\ offset \in Nat /\ offset + template[cursor].len = start[cursor + 1]
      BY <1>1, <1>2, AtInstruction
    <2>2. template[cursor].len = 4
      BY <1>1, <1>2, <2>1, WordLengths
    <2> QED BY <2>1, <2>2
  <1>4. PICK visited, pos : HolesApart(1) /\ ScanTrail(visited, pos, cursor)
    BY <1>2 DEF TrailInv
  <1>5. PICK x : x = cow.len + offset - cow.copied
    OBVIOUS
  <1>6. Shaped(cow) /\ cow.len \in Nat /\ cow.copied \in Nat
    BY <1>2, Known
  <1>7. /\ cow.pieces \subseteq both.pieces
        /\ [kind |-> "hole", at |-> x, len |-> 4, src |-> offset, arg |-> 0] \in both.pieces
        /\ [kind |-> "deref", at |-> x + 4, len |-> 4, src |-> offset, arg |-> 0] \in both.pieces
        /\ cow.copied < offset => NextSlice(offset) \in both.pieces
        /\ room.len = x + 4 /\ both.len = x + 4 + 4 /\ both.copied = offset
    <2> HIDE DEF offset, room, both
    <2>1. 4 \in Nat /\ 4 > 0
      OBVIOUS
    <2> QED BY <1>2, <1>3, <1>5, <1>6, <2>1, HoleAndDerefLeft DEF NextSlice, room, both
  <1>8. cow'.pieces = both.pieces /\ cow'.len = both.len /\ cow'.copied = offset + 4
    BY <1>1 DEF SkipTo
  <1>9. x \in Int /\ room.len - 4 = x
    <2> HIDE DEF room, both, offset
    <2> QED BY <1>3, <1>5, <1>6, <1>7
  <1>10. Plausible(cursor) /\ UsesAddress(cursor) /\ template[cursor].op # "ldrReg"
    BY <1>1, <1>3 DEF AllPlausible, UsesAddress
  <1>11. A64Target(cursor) = Address(cursor) /\ Address(cursor) \in Int
    BY <1>1, <1>2, <1>3, <1>10, A64Decoded, A64TargetInt
  <1>12. NewLen(cursor) = 8
    BY <1>1, <1>3 DEF NewLen, Pairs, Loads
  <1>13. cow'.len = x + NewLen(cursor)
    <2> HIDE DEF room, both, offset
    <2> QED BY <1>7, <1>8, <1>9, <1>12
  <1> HIDE DEF room, both
  <1>14. extra' = PutAside(x, Address(cursor))
    BY <1>1, <1>9, <1>11
  <1> QED BY <1>1, <1>2, <1>3, <1>4, <1>5, <1>7, <1>8, <1>10, <1>11, <1>13, <1>14, LoadTrail

LEMMA A64AdrTrail ==
    ASSUME JitInv, Static, A64Adr, AllPlausible, TrailInv
    PROVE  TrailInv'
  <1> USE DEF RelocPhases
  <1> DEFINE offset == start[cursor]
             room == AppendBytes(cow, offset, "hole", 4, 0)
  <1>1. /\ Scanning("a64") /\ template[cursor].op \in {"adr", "adrp"} /\ cursor < Asm
        /\ extra' = PutAside(cow'.len - 4, A64Target(cursor))
        /\ cow' = SkipTo(room, offset + 4)
        /\ cursor' = cursor + 1 /\ UNCHANGED phase
    <2>1. cursor \in 1..Asm /\ Asm \in Nat
      BY Layout DEF A64Adr, Scanning, JitInv, ScanInv
    <2> QED BY <2>1 DEF A64Adr, A64AtAsm, Replace
  <1>2. mode = "a64" /\ phase = "scan" /\ cow.copied <= offset
    BY <1>1, A64Ahead DEF Scanning
  <1>3. cursor \in Prologue /\ offset \in Nat /\ start[cursor + 1] = offset + 4
    <2>1. cursor \in Prologue /\ offset \in Nat /\ offset + template[cursor].len = start[cursor + 1]
      BY <1>1, <1>2, AtInstruction
    <2>2. template[cursor].len = 4
      BY <1>1, <1>2, <2>1, WordLengths
    <2> QED BY <2>1, <2>2
  <1>4. PICK visited, pos : HolesApart(1) /\ ScanTrail(visited, pos, cursor)
    BY <1>2 DEF TrailInv
  <1>5. PICK x : x = cow.len + offset - cow.copied
    OBVIOUS
  <1>6. Shaped(cow) /\ cow.len \in Nat /\ cow.copied \in Nat
    BY <1>2, Known
  <1>7. cow'.pieces = room.pieces /\ cow'.len = room.len /\ cow'.copied = offset + 4
    BY <1>1 DEF SkipTo
  <1>8. room.len = x + 4
    <2> HIDE DEF offset
    <2>1. "hole" \in PieceKinds \ {"copy", "literal"} /\ 4 \in Nat /\ 4 > 0 /\ 0 \in Int
      BY DEF PieceKinds
    <2> QED BY <1>2, <1>3, <1>5, <1>6, <2>1, AppendRight
  <1>9. /\ cow.pieces \subseteq cow'.pieces
        /\ [kind |-> "hole", at |-> x, len |-> 4, src |-> offset, arg |-> 0] \in cow'.pieces
        /\ cow.copied < offset => NextSlice(offset) \in cow'.pieces
    <2> HIDE DEF offset
    <2>1. \A c : c.pieces = AppendBytes(cow, offset, "hole", 4, 0).pieces =>
             /\ cow.pieces \subseteq c.pieces
             /\ [kind |-> "hole", at |-> cow.len + offset - cow.copied, len |-> 4,
                 src |-> offset, arg |-> 0] \in c.pieces
             /\ cow.copied < offset =>
                   [kind |-> "copy", at |-> cow.len, len |-> offset - cow.copied,
                    src |-> cow.copied, arg |-> 0] \in c.pieces
      BY <1>2, <1>3, <1>6, HoleLeft
    <2> QED BY <1>5, <1>7, <2>1 DEF NextSlice, room
  <1>10. Plausible(cursor) /\ UsesAddress(cursor) /\ template[cursor].op # "ldrReg"
         /\ ~Loads(cursor)
    BY <1>1, <1>3 DEF AllPlausible, UsesAddress, Loads
  <1>11. A64Target(cursor) = Address(cursor) /\ Address(cursor) \in Int
    BY <1>1, <1>2, <1>3, <1>10, A64Decoded, A64TargetInt
  <1>12. NewLen(cursor) = 4
    BY <1>1, <1>10 DEF NewLen, Pairs
  <1> HIDE DEF room
  <1>13. x \in Int /\ cow'.len - 4 = x /\ cow'.len = x + NewLen(cursor)
    <2> HIDE DEF offset
    <2> QED BY <1>3, <1>5, <1>6, <1>7, <1>8, <1>12
  <1>14. extra' = PutAside(x, Address(cursor))
    BY <1>1, <1>11, <1>13
  <1> QED BY <1>1, <1>2, <1>3, <1>4, <1>5, <1>7, <1>9, <1>10, <1>11, <1>13, <1>14, LoadTrail

LEMMA ArmAdrTrail ==
    ASSUME JitInv, Static, ArmAdr, AllPlausible, TrailInv
    PROVE  TrailInv'
  <1> USE DEF RelocPhases
  <1> DEFINE offset == start[cursor]
             len == template[cursor].len
             room == AppendBytes(cow, offset, "hole", 4, 0)
  <1>1. /\ ScanningArm /\ template[cursor].op = "adr" /\ cursor < Asm
        /\ cow.copied <= offset
        /\ extra' = PutAside(room.len - 4, AdrTarget(cursor))
        /\ cow' = Ignore(room, offset, len)
        /\ cursor' = cursor + 1 /\ UNCHANGED phase
    BY DEF ArmAdr, Current, InOrder
  <1>2. mode \in {"arm", "thumb"} /\ phase = "scan"
    BY <1>1 DEF ScanningArm
  <1>3. cursor \in Prologue /\ offset \in Nat /\ start[cursor + 1] = offset + len
    BY <1>1, <1>2, AtInstruction
  <1>4. PICK visited, pos : HolesApart(1) /\ ScanTrail(visited, pos, cursor)
    BY <1>2 DEF TrailInv
  <1>5. PICK x : x = cow.len + offset - cow.copied
    OBVIOUS
  <1>6. Shaped(cow) /\ cow.len \in Nat /\ cow.copied \in Nat
    BY <1>2, Known
  <1>7. room.len = x + 4 /\ room.copied = offset
    <2> HIDE DEF offset
    <2>1. "hole" \in PieceKinds \ {"copy", "literal"} /\ 4 \in Nat /\ 4 > 0 /\ 0 \in Int
      BY DEF PieceKinds
    <2> QED BY <1>1, <1>3, <1>5, <1>6, <2>1, AppendRight
  <1>8. cow'.pieces = room.pieces /\ cow'.len = room.len /\ cow'.copied = offset + len
    BY <1>1, <1>7 DEF Ignore, CopyUpTo, SkipTo
  <1>9. /\ cow.pieces \subseteq cow'.pieces
        /\ [kind |-> "hole", at |-> x, len |-> 4, src |-> offset, arg |-> 0] \in cow'.pieces
        /\ cow.copied < offset => NextSlice(offset) \in cow'.pieces
    <2> HIDE DEF offset
    <2>1. \A c : c.pieces = AppendBytes(cow, offset, "hole", 4, 0).pieces =>
             /\ cow.pieces \subseteq c.pieces
             /\ [kind |-> "hole", at |-> cow.len + offset - cow.copied, len |-> 4,
                 src |-> offset, arg |-> 0] \in c.pieces
             /\ cow.copied < offset =>
                   [kind |-> "copy", at |-> cow.len, len |-> offset - cow.copied,
                    src |-> cow.copied, arg |-> 0] \in c.pieces
      BY <1>1, <1>3, <1>6, HoleLeft
    <2> QED BY <1>5, <1>8, <2>1 DEF NextSlice, room
  <1>10. Plausible(cursor) /\ UsesAddress(cursor) /\ template[cursor].op # "ldrReg"
         /\ ~Loads(cursor)
    BY <1>1, <1>3 DEF AllPlausible, UsesAddress, Loads
  <1>11. AdrTarget(cursor) = Address(cursor) /\ Address(cursor) \in Int
    BY <1>1, <1>2, <1>3, <1>10, ArmDecoded, ArmTargets
  <1>12. NewLen(cursor) = 4
    BY <1>1, <1>10 DEF NewLen, Pairs
  <1> HIDE DEF room
  <1>13. x \in Int /\ room.len - 4 = x /\ cow'.len = x + NewLen(cursor)
    <2> HIDE DEF offset
    <2> QED BY <1>3, <1>5, <1>6, <1>7, <1>8, <1>12
  <1>14. extra' = PutAside(x, Address(cursor))
    BY <1>1, <1>11, <1>13
  <1> QED BY <1>1, <1>2, <1>3, <1>4, <1>5, <1>8, <1>9, <1>10, <1>11, <1>13, <1>14, LoadTrail

LEMMA ArmLoadTrail ==
    ASSUME JitInv, Static, ArmLoad, AllPlausible, TrailInv
    PROVE  TrailInv'
  <1> USE DEF RelocPhases
  <1> DEFINE offset == start[cursor]
             len == template[cursor].len
             room == AppendBytes(cow, offset, "hole", 4, 0)
             both == AppendBytes(room, offset, "deref", len, 0)
  <1>1. /\ ScanningArm /\ cursor < Asm /\ Loads(cursor)
        /\ cow.copied <= offset
        /\ extra' = PutAside(room.len - 4, LoadTarget(cursor))
        /\ cow' = Ignore(both, offset, len)
        /\ cursor' = cursor + 1 /\ UNCHANGED phase
    <2>1. cursor \in 1..Asm /\ Asm \in Nat
      BY ArmScan DEF ArmLoad
    <2> QED BY <2>1 DEF ArmLoad, ArmAtAsm, Current, InOrder
  <1>2. mode \in {"arm", "thumb"} /\ phase = "scan"
    BY <1>1 DEF ScanningArm
  <1>3. /\ cursor \in Prologue /\ offset \in Nat /\ start[cursor + 1] = offset + len
        /\ len \in Nat /\ len > 0
    BY <1>1, <1>2, AtInstruction
  <1>4. PICK visited, pos : HolesApart(1) /\ ScanTrail(visited, pos, cursor)
    BY <1>2 DEF TrailInv
  <1>5. PICK x : x = cow.len + offset - cow.copied
    OBVIOUS
  <1>6. Shaped(cow) /\ cow.len \in Nat /\ cow.copied \in Nat
    BY <1>2, Known
  <1>7. /\ cow.pieces \subseteq both.pieces
        /\ [kind |-> "hole", at |-> x, len |-> 4, src |-> offset, arg |-> 0] \in both.pieces
        /\ [kind |-> "deref", at |-> x + 4, len |-> len, src |-> offset, arg |-> 0] \in both.pieces
        /\ cow.copied < offset => NextSlice(offset) \in both.pieces
        /\ room.len = x + 4 /\ both.len = x + 4 + len /\ both.copied = offset
    <2> HIDE DEF offset, len, room, both
    <2> QED BY <1>1, <1>3, <1>5, <1>6, HoleAndDerefLeft DEF NextSlice, room, both
  <1>8. cow'.pieces = both.pieces /\ cow'.len = both.len /\ cow'.copied = offset + len
    BY <1>1, <1>7 DEF Ignore, CopyUpTo, SkipTo
  <1>9. x \in Int /\ room.len - 4 = x
    <2> HIDE DEF room, both, offset
    <2> QED BY <1>3, <1>5, <1>6, <1>7
  <1>10. Plausible(cursor) /\ UsesAddress(cursor) /\ template[cursor].op # "ldrReg"
    BY <1>1, <1>3 DEF AllPlausible, UsesAddress, Loads, Plausible
  <1>11. LoadTarget(cursor) = Address(cursor) /\ Address(cursor) \in Int
    BY <1>1, <1>2, <1>3, <1>10, ArmDecoded, ArmTargets
  <1>12. NewLen(cursor) = 4 + len
    BY <1>1 DEF NewLen, Pairs, Loads
  <1>13. cow'.len = x + NewLen(cursor)
    <2> HIDE DEF room, both, offset, len
    <2> QED BY <1>3, <1>7, <1>8, <1>9, <1>12
  <1> HIDE DEF room, both
  <1>14. extra' = PutAside(x, Address(cursor))
    BY <1>1, <1>9, <1>11
  <1> QED BY <1>1, <1>2, <1>3, <1>4, <1>5, <1>7, <1>8, <1>10, <1>11, <1>13, <1>14, LoadTrail

(* A step to another instruction leaves a buffer and loads as they were.   *)
LEMMA GotoTrail ==
    ASSUME JitInv, Static, phase = "scan", mode # "x86", NEW g, Goto(g), HolesApart(1),
           \E w, q : ScanTrail(w, q, g)
    PROVE  TrailInv'
  <1>1. PICK w, q : ScanTrail(w, q, g)
    OBVIOUS
  <1>2. /\ UNCHANGED templateVars /\ mode' = mode
        /\ phase' = "scan" /\ cow' = cow /\ extra' = extra /\ cursor' = g
    BY DEF Static, Goto, templateVars
  <1>3. ScanTrail(w, q, g)'
    BY <1>1, <1>2, TrailStays
  <1>4. HolesApart(1)'
    BY <1>2 DEF HolesApart
  <1> QED BY <1>2, <1>3, <1>4, ScanNow

LEMMA PlainTrail ==
    ASSUME JitInv, Static, phase = "scan", mode # "x86", cursor < Asm,
           template[cursor].op = "plain", Goto(cursor + 1), TrailInv
    PROVE  TrailInv'
  <1>1. PICK visited, pos : HolesApart(1) /\ ScanTrail(visited, pos, cursor)
    BY DEF TrailInv
  <1>2. /\ cursor \in 1..Asm /\ cursor + 1 \in 1..Asm /\ cursor \in Nat
        /\ LayoutInv /\ cow.len \in Nat /\ cow.copied \in Nat
    BY AtInstruction, Known, Layout DEF RelocPhases
  <1>3. \A i \in cursor..((cursor + 1) - 1) : Free(i) /\ template[i].op # "b"
    <2>1. \A i \in cursor..((cursor + 1) - 1) : i = cursor
      BY <1>2
    <2> QED BY <2>1 DEF Free, UsesAddress
  <1>4. \E w, q : ScanTrail(w, q, cursor + 1)
    <2>1. PICK g \in 1..Asm : g = cursor + 1
      BY <1>2
    <2>2. cursor <= g /\ \A i \in cursor..(g - 1) : Free(i) /\ template[i].op # "b"
      BY <1>2, <1>3, <2>1
    <2>3. \E w, q : ScanTrail(w, q, g)
      BY <1>1, <1>2, <2>2, Stretch
    <2> QED BY <2>1, <2>3
  <1> QED BY <1>1, <1>4, GotoTrail

LEMMA BranchTrail ==
    ASSUME JitInv, Static, phase = "scan", mode # "x86", cursor < Asm,
           template[cursor].op = "b", Goto(template[cursor].to), AllPlausible, TrailInv
    PROVE  TrailInv'
  <1>1. PICK visited, pos : HolesApart(1) /\ ScanTrail(visited, pos, cursor)
    BY DEF TrailInv
  <1>2. /\ cursor \in Prologue /\ cursor \in Nat
        /\ LayoutInv /\ cow.len \in Nat /\ cow.copied \in Nat
    BY AtInstruction, Known DEF RelocPhases
  <1>3. Inside(cursor) /\ cursor < template[cursor].to
    <2>1. Inside(cursor) /\ template[cursor].to > cursor
      BY <1>2 DEF AllPlausible, Plausible
    <2>2. template[cursor].to \in Nat
      BY <1>2, <2>1, Layout DEF Inside
    <2> QED BY <1>2, <2>1, <2>2
  <1>4. \E w, q : ScanTrail(w, q, template[cursor].to)
    BY <1>1, <1>2, <1>3, FollowBranch
  <1> QED BY <1>1, <1>4, GotoTrail

-----------------------------------------------------------------------------
(* The end of a relocation on AArch64 and Arm *)

(* What is returned holds all the buffer did and the rest of the template. *)
LEMMA Returned ==
    ASSUME JitInv, phase \in RelocPhases, cow.copied <= start[Asm], cow.len = 0 => cow.copied = 0,
           NEW m, Return(cow, m)
    PROVE  cow.pieces \subseteq cow'.pieces /\ NextSlice(TemplateLen) \in cow'.pieces
  <1>1. /\ Shaped(cow) /\ MovesUp(cow) /\ cow.len \in Nat /\ cow.copied \in Nat
        /\ TemplateLen \in Nat /\ cow.copied < TemplateLen /\ cow.copied <= TemplateLen
    BY Known
  <1>2. cow' = IntoBytes(cow, TemplateLen)
    BY DEF Return
  <1>3. NextSlice(TemplateLen) \in cow'.pieces
    BY <1>1, <1>2, IntoBytesRight DEF NextSlice
  <1>4. CASE cow.len = 0
    <2>1. \A p \in cow.pieces : p.at \in Nat /\ p.len \in Nat /\ p.len > 0 /\ p.at + p.len <= 0
      BY <1>1, <1>4 DEF Shaped, Buffer, Piece
    <2>2. cow.pieces = {}
      BY <2>1
    <2> QED BY <1>3, <2>2
  <1>5. CASE cow.len # 0
    BY <1>1, <1>2, <1>3, <1>5, IntoBytesRight
  <1> QED BY <1>4, <1>5

LEMMA ReturnTrail ==
    ASSUME JitInv, Static, phase \in RelocPhases, cow.copied <= start[Asm],
           cow.len = 0 => cow.copied = 0, NEW m, Return(cow, m),
           NEW visited, NEW pos, ScanTrail(visited, pos, Asm)
    PROVE  DoneTrail(visited, pos, 1)'
  <1>1. UNCHANGED templateVars /\ extra' = extra
    BY DEF Static, Return
  <1>2. cow.pieces \subseteq cow'.pieces /\ NextSlice(TemplateLen) \in cow'.pieces
    BY Returned
  <1>3. Grown
    BY <1>1, <1>2 DEF Grown
  <1>4. LayoutInv /\ cow.len \in Nat /\ cow.copied \in Nat /\ TemplateLen \in Nat
        /\ start[Asm] < TemplateLen
    BY Known
  <1> QED BY <1>2, <1>3, <1>4, AllCopied

LEMMA ReachAsmTrail ==
    ASSUME JitInv, Static, phase = "scan", mode # "x86", cursor = Asm, TrailInv,
           IF extra = <<>>
           THEN Return(cow, newMagic)
           ELSE phase' = "pool" /\ UNCHANGED <<error, relocVars>>
    PROVE  TrailInv'
  <1>1. PICK visited, pos : HolesApart(1) /\ ScanTrail(visited, pos, Asm)
    BY DEF TrailInv
  <1>2. cow.copied <= start[Asm] /\ (cow.len = 0 => cow.copied = 0)
    BY DEF JitInv, ScanInv, InStep
  <1>3. CASE extra = <<>>
    <2>1. Return(cow, newMagic)
      BY <1>3
    <2>2. DoneTrail(visited, pos, 1)'
      BY <1>1, <1>2, <2>1, ReturnTrail DEF RelocPhases
    <2>3. phase' = "alloc" /\ extra' = <<>>
      BY <1>3, <2>1 DEF Return
    <2>4. Len(extra') + 1 = 1
      BY <2>3
    <2> QED BY <2>2, <2>3, <2>4, DoneNow
  <1>4. CASE extra # <<>>
    <2>1. phase' = "pool" /\ extra' = extra /\ cow' = cow /\ UNCHANGED templateVars
      BY <1>4 DEF relocVars, Static
    <2>2. Asm' = Asm
      BY <2>1, TemplateStays
    <2>3. PICK g : g = Asm
      OBVIOUS
    <2>4. ScanTrail(visited, pos, g)'
      BY <1>1, <2>1, <2>3, TrailStays
    <2>5. ScanTrail(visited, pos, Asm)'
      BY <2>2, <2>3, <2>4 DEF ScanTrail, Follow
    <2>6. HolesApart(1)'
      BY <1>1, <2>1 DEF HolesApart
    <2> QED BY <2>1, <2>5, <2>6 DEF TrailInv
  <1> QED BY <1>3, <1>4

LEMMA PoolTrail ==
    ASSUME JitInv, Static, phase = "pool", cow' = CopyUpTo(cow, TemplateLen),
           phase' = "literals", cursor' = 1, extra' = extra, TrailInv
    PROVE  TrailInv'
  <1> USE DEF RelocPhases
  <1>1. PICK visited, pos : HolesApart(1) /\ ScanTrail(visited, pos, Asm)
    BY DEF TrailInv
  <1>2. /\ LayoutInv /\ Shaped(cow) /\ cow.len \in Nat /\ cow.copied \in Nat
        /\ TemplateLen \in Nat /\ start[Asm] < TemplateLen /\ start[Asm] \in Nat
    BY Known
  <1>3. cow.copied < TemplateLen /\ cow.copied <= TemplateLen
    BY <1>2 DEF JitInv, PoolInv, InStep
  <1>4. cow.pieces \subseteq cow'.pieces /\ NextSlice(TemplateLen) \in cow'.pieces
    BY <1>2, <1>3, CopyUpToRight DEF NextSlice
  <1>5. Grown
    BY <1>4 DEF Grown, Static
  <1>6. DoneTrail(visited, pos, 1)'
    BY <1>1, <1>2, <1>4, <1>5, AllCopied
  <1>7. HolesApart(1)'
    BY <1>1, <1>4 DEF HolesApart
  <1>8. \A from : from = 1 /\ HolesApart(1)' => HolesApart(cursor)'
    BY DEF HolesApart
  <1>9. DoneTrail(visited, pos, cursor)'
    <2>1. \A i, x : Settled(i, x, 1)' => Settled(i, x, cursor)'
      BY DEF Settled, Replaced, Holed
    <2> QED BY <1>6, <2>1 DEF DoneTrail
  <1> QED BY <1>7, <1>8, <1>9 DEF TrailInv

(* A load that is encoded has the distance to the literal appended to it.  *)
LEMMA LiteralTrail ==
    ASSUME JitInv, Static, phase = "literals", cursor <= Len(extra), NEW arg \in Int,
           cow' = FillHole(Push(cow, "literal", WordSize, TemplateLen, extra[cursor].addr),
                           extra[cursor].at, arg),
           IF mode = "a64" THEN arg = cow.len - extra[cursor].at \/ arg < 0
                           ELSE arg = Displacement(extra[cursor]),
           cursor' = cursor + 1, UNCHANGED <<phase, extra>>, TrailInv
    PROVE  TrailInv'
  <1> USE DEF RelocPhases
  <1>1. PICK visited, pos : HolesApart(cursor) /\ DoneTrail(visited, pos, cursor)
    BY DEF TrailInv
  <1>2. UNCHANGED templateVars /\ UNCHANGED <<mode, pc, template, start>>
    BY DEF Static, templateVars
  <1>3. /\ cursor \in DOMAIN extra /\ cursor \in Nat /\ DOMAIN extra = 1..Len(extra)
        /\ extra[cursor].at \in Nat /\ extra[cursor].addr \in Int
    BY Known, PutTyped
  <1>4. PICK c : c = cursor
    OBVIOUS
  <1>5. PICK put : put = extra[cursor]
    OBVIOUS
  <1>6. PICK literal :
          literal = [kind |-> "literal", at |-> cow.len, len |-> WordSize,
                     src |-> TemplateLen, arg |-> put.addr]
    OBVIOUS
  <1>7. /\ cow'.pieces = {Filled(p, put.at, arg) : p \in cow.pieces \cup {literal}}
        /\ put.at < cow.len /\ put.at \in Nat /\ cow.len \in Nat
    <2>1. cow'.pieces = {Filled(p, put.at, arg) : p \in cow.pieces \cup {literal}}
      BY <1>5, <1>6 DEF FillHole, Push
    <2>2. PICK p \in cow.pieces : put.at < p.at
      BY <1>3, <1>5 DEF JitInv, LiteralsInv
    <2>3. Shaped(cow) /\ p.at \in Nat /\ p.len \in Nat /\ p.at + p.len <= cow.len /\ cow.len \in Nat
      BY Known DEF Shaped, Buffer, Piece
    <2> QED BY <1>3, <1>5, <2>1, <2>2, <2>3
  <1>8. PICK hole \in cow.pieces : hole.kind = "hole" /\ hole.at = put.at
    BY <1>1, <1>3, <1>5 DEF HolesApart
  <1>9. \A p \in cow.pieces : p.at = put.at => p = hole
    <2> TAKE p \in cow.pieces
    <2>1. Shaped(cow)
      BY Known
    <2>2. /\ p.at \in Nat /\ p.len \in Nat /\ p.len > 0
          /\ hole.at \in Nat /\ hole.len \in Nat /\ hole.len > 0
      BY <2>1 DEF Shaped, Buffer, Piece
    <2>3. p # hole => p.at + p.len <= hole.at \/ hole.at + hole.len <= p.at
      BY <2>1 DEF Shaped
    <2> QED BY <1>8, <2>2, <2>3
  (* Only the hole changes.                                                *)
  <1>10. literal \in cow'.pieces /\ \A p \in cow.pieces : p # hole => p \in cow'.pieces
    <2>1. Filled(literal, put.at, arg) = literal
      <3>1. literal.at # put.at
        BY <1>6, <1>7
      <3> QED BY <3>1 DEF Filled
    <2>2. \A p \in cow.pieces : p # hole => Filled(p, put.at, arg) = p
      BY <1>9 DEF Filled
    <2> QED BY <1>7, <2>1, <2>2
  <1>11. PICK ldr : ldr = [kind |-> "ldr", at |-> put.at, len |-> hole.len, src |-> hole.src,
                           arg |-> arg]
    OBVIOUS
  <1>12. ldr \in cow'.pieces
    <2>1. Filled(hole, put.at, arg) = ldr
      BY <1>8, <1>11 DEF Filled
    <2> QED BY <1>7, <2>1
  <1>13. Linked(ldr, literal)'
    <2>1. CASE mode = "a64"
      BY <1>2, <1>5, <1>6, <1>11, <2>1 DEF Linked
    <2>2. CASE mode # "a64"
      <3>1. arg = (pc + cow.len) - EffectivePc(pc + put.at)
        BY <1>5, <2>2 DEF Displacement
      <3>2. \A a : EffectivePc(a)' = EffectivePc(a)
        BY <1>2, TemplateStays
      <3> QED BY <1>2, <1>6, <1>11, <2>2, <3>1, <3>2 DEF Linked
    <2> QED BY <2>1, <2>2
  <1>14. \A i :
            /\ Asm' = Asm /\ (Free(i)' <=> Free(i)) /\ (Pairs(i)' <=> Pairs(i))
            /\ Address(i)' = Address(i) /\ Succ(i)' = Succ(i) /\ NewLen(i)' = NewLen(i)
            /\ (UsesAddress(i)' <=> UsesAddress(i)) /\ (Loads(i)' <=> Loads(i))
    BY <1>2, TemplateStays
  <1>15. ASSUME NEW i, NEW x, Settled(i, x, c)
         PROVE  Settled(i, x, c + 1)'
    <2>1. Kept(i, x) => Kept(i, x)'
      <3>1. CopiesOf(start[i], x) \subseteq CopiesOf(start[i], x)'
        BY <1>2, <1>8, <1>10 DEF CopiesOf
      <3> QED BY <1>14, <3>1 DEF Kept
    <2>2. Moved(i, x) => Moved(i, x)'
      BY <1>2, <1>8, <1>10, <1>14 DEF Moved, MovLen
    <2>3. Dereferenced(i, x) => Dereferenced(i, x)'
      BY <1>2, <1>8, <1>10, <1>14 DEF Dereferenced
    <2>4. LoadsLiteral(i, x) => LoadsLiteral(i, x)'
      <3>1. \A p, l : Linked(p, l) <=> Linked(p, l)'
        <4>1. \A a : EffectivePc(a)' = EffectivePc(a)
          BY <1>2, TemplateStays
        <4> QED BY <1>2, <4>1 DEF Linked
      <3> QED BY <1>2, <1>8, <1>10, <1>14, <3>1 DEF LoadsLiteral
    <2>5. ASSUME Holed(i, x, c)
          PROVE  Holed(i, x, c + 1)' \/ LoadsLiteral(i, x)'
      <3>1. PICK p \in cow.pieces : p.kind = "hole" /\ p.at = x /\ p.len = 4 /\ p.src = start[i]
        BY <2>5 DEF Holed
      <3>2. PICK k \in DOMAIN extra : c <= k /\ extra[k].at = x /\ extra[k].addr = Address(i)
        BY <2>5 DEF Holed
      <3>3. CASE k = c
        <4>1. p = hole /\ put.at = x /\ put.addr = Address(i)
          BY <1>4, <1>5, <1>9, <3>1, <3>2, <3>3
        <4>2. /\ ldr.kind = "ldr" /\ ldr.at = x /\ ldr.len = 4 /\ ldr.src = start[i]
              /\ literal.kind = "literal" /\ literal.arg = Address(i)
          BY <1>6, <1>11, <3>1, <4>1
        <4> QED BY <1>2, <1>10, <1>12, <1>13, <1>14, <4>2 DEF LoadsLiteral
      <3>4. CASE k # c
        <4>1. p # hole
          <5>1. extra[k].at # extra[c].at
            BY <1>1, <1>3, <1>4, <3>2, <3>4 DEF HolesApart
          <5> QED BY <1>4, <1>5, <1>8, <3>1, <3>2, <5>1
        <4>2. p \in cow'.pieces
          BY <1>10, <4>1
        <4>3. c + 1 <= k
          BY <1>3, <1>4, <3>2, <3>4
        <4> QED BY <1>2, <1>14, <3>1, <3>2, <4>2, <4>3 DEF Holed
      <3> QED BY <3>3, <3>4
    <2> QED BY <1>2, <1>14, <1>15, <2>1, <2>2, <2>3, <2>4, <2>5 DEF Settled, Replaced
  <1>16. \A i \in visited : Settled(i, pos[i], c + 1)'
    BY <1>1, <1>4, <1>15 DEF DoneTrail
  <1>17. Follow(visited, pos, Asm)'
    BY <1>1, <1>14 DEF DoneTrail, Follow
  <1>18. cursor' = c + 1
    BY <1>4
  <1>19. DoneTrail(visited, pos, cursor)'
    <2>1. \A i, x : Settled(i, x, c + 1)' => Settled(i, x, cursor)'
      BY <1>18 DEF Settled, Replaced, Holed
    <2> QED BY <1>16, <1>17, <2>1 DEF DoneTrail
  <1>20. HolesApart(cursor)'
    <2>1. ASSUME NEW k \in DOMAIN extra, c + 1 <= k
          PROVE  /\ \E p \in cow'.pieces : p.kind = "hole" /\ p.at = extra[k].at
                 /\ \A j \in DOMAIN extra : c + 1 <= j /\ j # k => extra[j].at # extra[k].at
      <3>1. c <= k /\ k # c /\ \A j \in DOMAIN extra : c + 1 <= j => c <= j
        BY <1>3, <1>4, <2>1
      <3>2. /\ \E p \in cow.pieces : p.kind = "hole" /\ p.at = extra[k].at
            /\ extra[c].at # extra[k].at
            /\ \A j \in DOMAIN extra : c <= j /\ j # k => extra[j].at # extra[k].at
        BY <1>1, <1>3, <1>4, <3>1 DEF HolesApart
      <3> QED BY <1>4, <1>5, <1>8, <1>10, <3>1, <3>2
    <2> QED BY <1>18, <2>1 DEF HolesApart
  <1> QED BY <1>19, <1>20 DEF TrailInv

(* When all loads are encoded no hole is left.                             *)
LEMMA FinishTrail ==
    ASSUME JitInv, Static, phase = "literals", cursor > Len(extra), Return(cow, newMagic), TrailInv
    PROVE  TrailInv'
  <1> USE DEF RelocPhases
  <1>1. PICK visited, pos : DoneTrail(visited, pos, cursor)
    BY DEF TrailInv
  <1>2. /\ extra \in Seq(Put) /\ cursor \in Nat /\ Len(extra) \in Nat /\ DOMAIN extra = 1..Len(extra)
        /\ TemplateLen \in Nat /\ Shaped(cow) /\ MovesUp(cow)
    BY Known, PutTyped
  <1>3. cow.copied = TemplateLen /\ cow.len > 0
    BY DEF JitInv, LiteralsInv
  <1>4. phase' = "alloc" /\ extra' = extra /\ cow' = cow
    <2>1. cow.len # 0
      BY <1>2, <1>3 DEF Shaped, Buffer
    <2> QED BY <1>3, <2>1 DEF Return, IntoBytes, CopyUpTo
  <1>5. PICK n : n = Len(extra) + 1
    OBVIOUS
  <1>6. Grown
    BY <1>4 DEF Grown, Static
  <1>7. \A i, x : Settled(i, x, cursor) => Settled(i, x, n)
    BY <1>2 DEF Settled, Replaced, Holed
  <1>8. \A i, x : Settled(i, x, n) => Settled(i, x, n)'
    BY <1>6, SettledStays
  <1>9. Follow(visited, pos, Asm)'
    <2>1. Asm' = Asm /\ \A i : Succ(i)' = Succ(i) /\ NewLen(i)' = NewLen(i)
      BY TemplateStays DEF Static
    <2> QED BY <1>1, <2>1 DEF DoneTrail, Follow
  <1>10. DoneTrail(visited, pos, n)'
    BY <1>1, <1>7, <1>8, <1>9 DEF DoneTrail
  <1> QED BY <1>4, <1>5, <1>10, DoneNow

-----------------------------------------------------------------------------
(* x86 *)

(* What its instructions are.                                              *)
LEMMA X86Code ==
    ASSUME LayoutInv, mode = "x86", NEW i \in Prologue
    PROVE  /\ template[i].op \in {"plain", "call", "pop", "jump", "invalid"}
           /\ ~UsesAddress(i) /\ ~Loads(i)
           /\ template[i].op \in {"plain", "pop", "invalid"} => Free(i) /\ template[i].op # "b"
           /\ Free(i) => template[i].op # "b" /\ ~Pairs(i)
           /\ Popped(i) => i - 1 \in Prologue /\ ~Popped(i - 1) /\ ~Free(i - 1)
  <1>1. template[i] \in Instructions[mode] /\ mode \in Modes
    BY DEF LayoutInv, Prologue
  <1>2. template[i].op \in {"plain", "call", "pop", "jump", "invalid"}
    BY <1>1, ArchitectureAssumption
  <1>3. i # Asm /\ i \in Nat /\ Len(template) \in Nat
    BY Layout DEF Prologue, Asm
  <1>4. ASSUME Popped(i)
        PROVE  i - 1 \in Prologue /\ ~Popped(i - 1) /\ ~Free(i - 1)
    <2>1. i > 1 /\ template[i - 1].op = "call"
      BY <1>4 DEF Popped, Pairs
    <2>2. i - 1 \in Prologue /\ i - 1 # Asm
      BY <1>3, <2>1 DEF Prologue, Asm
    <2>3. ~Popped(i - 1)
      <3>1. (i - 1) - 1 + 1 = i - 1
        BY <1>3
      <3> QED BY <2>1, <3>1 DEF Popped, Pairs
    <2> QED BY <2>1, <2>2, <2>3 DEF Free
  <1> QED BY <1>2, <1>3, <1>4 DEF UsesAddress, Loads, Free, Pairs

(* Where no pair is left, every instruction may be anywhere.               *)
LEMMA FreeBetween ==
    ASSUME LayoutInv, mode = "x86", PairsFound(Asm),
           NEW f \in 1..Asm, ~Popped(f), NEW g \in 1..Asm,
           \A i \in f..(g - 1) : ~\E k \in DOMAIN extra : IsPair(extra[k], i)
    PROVE  \A i \in f..(g - 1) : Free(i) /\ template[i].op # "b"
  <1>1. ASSUME NEW i \in f..(g - 1)
        PROVE  Free(i) /\ template[i].op # "b"
    <2>1. i \in Prologue /\ i \in 1..(Asm - 1) /\ i \in Nat /\ f \in Nat /\ g \in Nat
      BY Layout DEF Prologue, Asm
    <2>2. Popped(i) \/ Free(i)
      BY <1>1, <2>1 DEF PairsFound
    <2>3. ~Popped(i)
      <3>1. ASSUME Popped(i)
            PROVE  FALSE
        <4>1. i - 1 \in Prologue /\ ~Popped(i - 1) /\ ~Free(i - 1)
          BY <2>1, <3>1, X86Code
        <4>2. i # f
          BY <3>1
        <4>3. i - 1 \in f..(g - 1) /\ i - 1 \in 1..(Asm - 1)
          <5>1. i >= f /\ i <= g - 1
            BY <1>1, <2>1
          <5>2. f > 0 /\ Asm \in Nat
            BY Layout
          <5>3. i <= Asm - 1
            BY <2>1, <5>2
          <5> QED BY <2>1, <4>2, <5>1, <5>2, <5>3
        <4>4. \E k \in DOMAIN extra : IsPair(extra[k], i - 1)
          BY <4>1, <4>3 DEF PairsFound
        <4> QED BY <4>3, <4>4
      <3> QED BY <3>1
    <2> QED BY <2>1, <2>2, <2>3, X86Code
  <1> QED BY <1>1

(* The trail starts at the first instruction.                              *)
LEMMA FirstTrail ==
    ASSUME LayoutInv, cow = NewBuffer, start[1] = 0
    PROVE  \E visited, pos : ScanTrail(visited, pos, 1)
  <1>1. PICK visited : visited = {1}
    OBVIOUS
  <1>2. PICK pos : pos = [i \in 1..Asm |-> 0]
    OBVIOUS
  <1>3. 1 \in 1..Asm /\ visited \subseteq 1..1
    BY <1>1, Layout
  <1>4. pos \in [1..Asm -> Int] /\ pos[1] = 0
    BY <1>2, <1>3
  <1>5. cow.copied <= start[1] /\ pos[1] = cow.len + start[1] - cow.copied
    BY <1>4 DEF NewBuffer
  <1>6. visited \ {1} = {} /\ 1 \in visited
    BY <1>1
  <1> QED BY <1>3, <1>4, <1>5, <1>6 DEF ScanTrail, Follow

LEMMA X86NextTrail ==
    ASSUME JitInv, Static, X86Next, TrailInv
    PROVE  TrailInv'
  <1>1. /\ mode = "x86" /\ phase = "scan" /\ cursor < Asm
        /\ template[cursor].op \notin {"invalid", "call", "jump"}
        /\ phase' = phase /\ cursor' = cursor + 1 /\ extra' = extra
        /\ UNCHANGED templateVars /\ mode' = mode
    BY DEF X86Next, Scanning, Goto, Static, templateVars
  <1>2. PairsFound(cursor) /\ LayoutInv
    BY <1>1 DEF TrailInv, JitInv
  <1>3. cursor \in Prologue /\ cursor \in Nat /\ cursor > 0
    BY <1>1, AtInstruction
  <1>4. Free(cursor) /\ ~Pairs(cursor)
    BY <1>1, <1>2, <1>3, X86Code
  <1>5. PICK f : f = cursor + 1
    OBVIOUS
  <1>6. ~Popped(f)
    <2>1. (cursor + 1) - 1 = cursor
      BY <1>3
    <2> QED BY <1>4, <1>5, <2>1 DEF Popped
  <1>7. \A i \in 1..(f - 1) :
           Popped(i) \/ Free(i) \/ \E k \in DOMAIN extra : IsPair(extra[k], i)
    <2>1. \A i \in 1..(f - 1) : i \in 1..(cursor - 1) \/ i = cursor
      BY <1>3, <1>5
    <2> QED BY <1>2, <1>4, <2>1 DEF PairsFound
  <1>8. PairsFound(f)
    BY <1>2, <1>6, <1>7 DEF PairsFound
  <1>9. PairsFound(f)'
    <2>1. /\ Prologue' = Prologue
          /\ \A i : (Popped(i)' <=> Popped(i)) /\ (Free(i)' <=> Free(i))
                    /\ (Pairs(i)' <=> Pairs(i)) /\ Address(i)' = Address(i)
      BY <1>1, TemplateStays
    <2>2. start' = start
      BY <1>1 DEF templateVars
    <2>3. \A e, i : IsPair(e, i)' <=> IsPair(e, i)
      BY <2>1, <2>2 DEF IsPair
    <2> QED BY <1>1, <1>8, <2>1, <2>3 DEF PairsFound
  <1>10. PairsFound(cursor)'
    BY <1>1, <1>5, <1>9 DEF PairsFound
  <1> QED BY <1>1, <1>10 DEF TrailInv

LEMMA X86CallPopTrail ==
    ASSUME JitInv, Static, X86CallPop, TrailInv
    PROVE  TrailInv'
  <1> USE DEF RelocPhases
  <1> DEFINE e == [at |-> start[cursor],
                   len |-> start[cursor + 1] - start[cursor] + template[cursor + 1].len,
                   addr |-> pc + start[cursor] + template[cursor].len]
  <1>1. /\ mode = "x86" /\ phase = "scan" /\ cursor < Asm /\ Pairs(cursor)
        /\ phase' = phase /\ cursor' = cursor + 2 /\ extra' = Append(extra, e)
        /\ UNCHANGED templateVars /\ mode' = mode
    BY DEF X86CallPop, Scanning, Static, templateVars
  <1>2. PairsFound(cursor) /\ LayoutInv /\ extra \in Seq(Put)
    BY <1>1, Known DEF TrailInv, JitInv
  <1>3. /\ cursor \in Prologue /\ cursor \in Nat /\ cursor > 0 /\ cursor + 1 \in Prologue
        /\ template[cursor].op = "call" /\ template[cursor + 1].op = "pop"
    BY <1>1, AtInstruction DEF Pairs
  <1>4. /\ start[cursor] \in Nat /\ start[cursor + 1] \in Nat /\ template[cursor].len \in Nat
        /\ template[cursor + 1].len \in Nat /\ start[cursor] < start[cursor + 1] /\ pc \in Nat
        /\ start[cursor + 1] + template[cursor + 1].len = start[cursor + 2]
    <2>1. template[cursor + 1] \in Instruction
      BY <1>2, <1>3, Layout
    <2>2. start[cursor + 1] + template[cursor + 1].len = start[(cursor + 1) + 1]
      BY <1>2, <1>3 DEF LayoutInv
    <2>3. (cursor + 1) + 1 = cursor + 2
      BY <1>3
    <2>4. /\ start[cursor] \in Nat /\ start[cursor + 1] \in Nat
          /\ template[cursor].len \in Nat /\ template[cursor].len > 0
          /\ start[cursor] + template[cursor].len = start[cursor + 1]
      BY <1>1, AtInstruction
    <2>5. start[cursor] < start[cursor + 1]
      BY <2>4
    <2>6. pc \in Nat /\ template[cursor + 1].len \in Nat
      BY <1>2, <2>1, Layout DEF Instruction
    <2> QED BY <2>2, <2>3, <2>4, <2>5, <2>6
  <1>5. e \in Put
    BY <1>4 DEF Put
  <1>6. IsPair(e, cursor)
    <2>1. Address(cursor) = pc + start[cursor] + template[cursor].len
      BY <1>3 DEF Address
    <2>2. e.at + e.len = start[cursor + 2]
      BY <1>4
    <2> QED BY <1>1, <2>1, <2>2 DEF IsPair
  <1> HIDE DEF e
  <1>7. /\ Len(extra) \in Nat /\ DOMAIN extra = 1..Len(extra)
        /\ DOMAIN extra' = 1..(Len(extra) + 1)
        /\ \A k \in DOMAIN extra : extra'[k] = extra[k]
        /\ extra'[Len(extra) + 1] = e
    BY <1>1, <1>2, <1>5, Appended
  <1>8. PICK f : f = cursor + 2
    OBVIOUS
  <1>9. ~Popped(f) /\ Popped(cursor + 1)
    <2>1. (cursor + 2) - 1 = cursor + 1 /\ (cursor + 1) - 1 = cursor /\ cursor + 1 > 1
      BY <1>3
    <2>2. ~Pairs(cursor + 1)
      BY <1>3 DEF Pairs
    <2> QED BY <1>1, <1>8, <2>1, <2>2 DEF Popped
  <1>10. \A i \in 1..(f - 1) :
            Popped(i) \/ Free(i) \/ \E k \in DOMAIN extra' : IsPair(extra'[k], i)
    <2> TAKE i \in 1..(f - 1)
    <2>1. i \in 1..(cursor - 1) \/ i = cursor \/ i = cursor + 1
      BY <1>3, <1>8
    <2>2. CASE i \in 1..(cursor - 1)
      <3>1. Popped(i) \/ Free(i) \/ \E k \in DOMAIN extra : IsPair(extra[k], i)
        BY <1>2, <2>2 DEF PairsFound
      <3>2. \A k \in DOMAIN extra : k \in DOMAIN extra' /\ extra'[k] = extra[k]
        BY <1>7
      <3> QED BY <3>1, <3>2
    <2>3. CASE i = cursor
      <3>1. Len(extra) + 1 \in DOMAIN extra'
        BY <1>7
      <3> QED BY <1>6, <1>7, <2>3, <3>1
    <2> QED BY <1>9, <2>1, <2>2, <2>3
  <1>11. \A k \in DOMAIN extra' : \E i \in Prologue : IsPair(extra'[k], i)
    <2> TAKE k \in DOMAIN extra'
    <2>1. CASE k = Len(extra) + 1
      BY <1>3, <1>6, <1>7, <2>1
    <2>2. CASE k # Len(extra) + 1
      <3>1. k \in DOMAIN extra
        BY <1>7, <2>2
      <3> QED BY <1>2, <1>7, <3>1 DEF PairsFound
    <2> QED BY <2>1, <2>2
  <1>12. PairsFound(f)'
    <2>1. /\ Prologue' = Prologue
          /\ \A i : (Popped(i)' <=> Popped(i)) /\ (Free(i)' <=> Free(i))
                    /\ (Pairs(i)' <=> Pairs(i)) /\ Address(i)' = Address(i)
      BY <1>1, TemplateStays
    <2>2. start' = start
      BY <1>1 DEF templateVars
    <2>3. \A d, i : (d.at = start'[i] /\ d.addr = Address(i)' /\ d.at + d.len = start'[i + 2]
                     /\ Pairs(i)') <=> IsPair(d, i)
      BY <2>1, <2>2 DEF IsPair
    <2> QED BY <1>9, <1>10, <1>11, <2>1, <2>3 DEF PairsFound, IsPair
  <1>13. PairsFound(cursor)'
    BY <1>1, <1>8, <1>12 DEF PairsFound
  <1> QED BY <1>1, <1>13 DEF TrailInv

LEMMA PairsStay ==
    ASSUME UNCHANGED templateVars, extra' = extra, PairsFound(Asm)
    PROVE  PairsFound(Asm)'
  <1>1. /\ Prologue' = Prologue /\ Asm' = Asm
        /\ \A i : (Popped(i)' <=> Popped(i)) /\ (Free(i)' <=> Free(i))
                  /\ (Pairs(i)' <=> Pairs(i)) /\ Address(i)' = Address(i)
    BY TemplateStays
  <1>2. start' = start
    BY DEF templateVars
  <1>3. \A e, i : IsPair(e, i)' <=> IsPair(e, i)
    BY <1>1, <1>2 DEF IsPair
  <1>4. PICK n : n = Asm
    OBVIOUS
  <1>5. PairsFound(n)'
    BY <1>1, <1>3, <1>4 DEF PairsFound
  <1> QED BY <1>1, <1>4, <1>5 DEF PairsFound

(* The loop ends: without a pair all is copied, else the pairs are moved.  *)
LEMMA X86ReachAsmTrail ==
    ASSUME JitInv, Static, X86ReachAsm, start[1] = 0, TrailInv
    PROVE  TrailInv'
  <1> USE DEF RelocPhases
  <1>1. mode = "x86" /\ phase = "scan" /\ cursor = Asm /\ UNCHANGED templateVars
    BY DEF X86ReachAsm, Scanning, Static
  <1>2. /\ PairsFound(Asm) /\ LayoutInv /\ cow = NewBuffer
        /\ cow.copied = 0 /\ cow.len = 0 /\ cow.copied <= start[Asm]
    BY <1>1, NewBufferShaped DEF TrailInv, JitInv, ScanInv, InStep
  <1>3. PICK visited, pos : ScanTrail(visited, pos, 1)
    BY <1>2, FirstTrail
  <1>4. 1 \in 1..Asm /\ Asm \in 1..Asm /\ ~Popped(1)
    BY <1>2, Layout DEF Popped
  <1>5. CASE extra = <<>>
    <2>1. Return(cow, magic)
      BY <1>5 DEF X86ReachAsm
    <2>2. \A i \in 1..(Asm - 1) : Free(i) /\ template[i].op # "b"
      <3>1. DOMAIN extra = {}
        BY <1>5
      <3> QED BY <1>1, <1>2, <1>4, <3>1, FreeBetween
    <2>3. PICK w, q : ScanTrail(w, q, Asm)
      BY <1>2, <1>3, <1>4, <2>2, Stretch
    <2>4. DoneTrail(w, q, 1)'
      BY <1>1, <1>2, <2>1, <2>3, ReturnTrail
    <2>5. phase' = "alloc" /\ extra' = <<>>
      BY <1>5, <2>1 DEF Return
    <2>6. Len(extra') + 1 = 1
      BY <2>5
    <2> QED BY <2>4, <2>5, <2>6, DoneNow
  <1>6. CASE extra # <<>>
    <2>1. phase' = "encode" /\ cursor' = 1 /\ extra' = extra /\ cow' = cow
      BY <1>6 DEF X86ReachAsm
    <2>2. PairsFound(Asm)'
      BY <1>1, <1>2, <2>1, PairsStay
    <2>3. ScanTrail(visited, pos, 1)'
      BY <1>1, <1>3, <2>1, TrailStays
    <2>4. start'[1] = cow'.copied /\ ~Popped(1)'
      BY <1>1, <1>2, <2>1 DEF templateVars, Popped
    <2>5. \A k \in DOMAIN extra' : k < cursor' => extra'[k].at + extra'[k].len <= cow'.copied
      <3>1. DOMAIN extra = 1..Len(extra) /\ Len(extra) \in Nat
        BY <1>1, Known, PutTyped
      <3> QED BY <2>1, <3>1
    <2>6. EncodeTrail'
      BY <2>2, <2>3, <2>4, <2>5 DEF EncodeTrail
    <2> QED BY <2>1, <2>6 DEF TrailInv
  <1> QED BY <1>5, <1>6

(* From where the buffer has come to, all is free up to the next pair.     *)
LEMMA FreeAhead ==
    ASSUME JitInv, phase = "encode", PairsFound(Asm),
           NEW f \in 1..Asm, start[f] = cow.copied, ~Popped(f),
           \A k \in DOMAIN extra : k < cursor => extra[k].at + extra[k].len <= cow.copied,
           NEW g \in 1..Asm,
           cursor \in DOMAIN extra => start[g] <= extra[cursor].at
    PROVE  \A i \in f..(g - 1) : Free(i) /\ template[i].op # "b"
  <1> USE DEF RelocPhases
  <1>1. /\ LayoutInv /\ mode = "x86" /\ extra \in Seq(Put) /\ cursor \in Nat
        /\ DOMAIN extra = 1..Len(extra) /\ cow.copied \in Nat
    BY Known, PutTyped DEF JitInv, EncodeInv
  <1>2. ASSUME NEW i \in f..(g - 1), NEW k \in DOMAIN extra, IsPair(extra[k], i)
        PROVE  FALSE
    <2>1. /\ i \in 1..Asm /\ i < g /\ f <= i /\ i \in Nat /\ f \in Nat /\ g \in Nat /\ Asm \in Nat
      BY <1>1, <1>2, Layout
    <2>2. start[f] <= start[i] /\ start[i] < start[g] /\ start[i] \in Nat /\ start[g] \in Nat
          /\ start[f] \in Nat
      <3>1. f = i \/ f < i
        BY <2>1
      <3>2. start[i] \in Nat /\ start[g] \in Nat /\ start[f] \in Nat
        BY <1>1, <2>1, Layout
      <3> QED BY <1>1, <2>1, <3>1, <3>2 DEF LayoutInv
    <2>3. extra[k].at = start[i] /\ extra[k].len \in Nat /\ extra[k].at \in Nat
      BY <1>1, <1>2, PutTyped DEF IsPair
    <2>4. extra[k].len > 0
      <3>1. extra[k].at + extra[k].len = start[i + 2] /\ i \in Prologue /\ i + 1 \in Prologue
        BY <1>1, <1>2, <2>1, Layout DEF IsPair, Pairs, Prologue, Asm
      <3>2. i + 2 \in 1..Asm /\ i < i + 2
        BY <2>1, <3>1 DEF Prologue, Asm
      <3>3. start[i] < start[i + 2] /\ start[i + 2] \in Nat
        BY <1>1, <2>1, <3>2, Layout DEF LayoutInv
      <3> QED BY <2>2, <2>3, <3>1, <3>3
    <2>5. CASE k < cursor
      BY <1>1, <2>2, <2>3, <2>4, <2>5
    <2>6. CASE ~(k < cursor)
      <3>1. cursor \in DOMAIN extra /\ k \in Nat
        <4>1. cursor \in Nat \ {0} /\ Len(extra) \in Nat
          BY Known, PutTyped
        <4> QED BY <1>1, <2>6, <4>1
      <3>2. extra[cursor].at \in Nat /\ extra[cursor].len \in Nat
        BY <1>1, <3>1, PutTyped
      <3>3. cursor < k => extra[cursor].at + extra[cursor].len <= extra[k].at
        BY <1>1, <3>1 DEF JitInv, PairsInv
      <3>4. extra[cursor].at <= extra[k].at
        BY <1>1, <2>3, <2>6, <3>1, <3>2, <3>3
      <3> QED BY <2>2, <2>3, <3>1, <3>2, <3>4
    <2> QED BY <2>5, <2>6
  <1>3. \A i \in f..(g - 1) : ~\E k \in DOMAIN extra : IsPair(extra[k], i)
    BY <1>2
  <1> QED BY <1>1, <1>3, FreeBetween

LEMMA X86EncodeTrail ==
    ASSUME JitInv, Static, X86Encode, TrailInv
    PROVE  TrailInv'
  <1> USE DEF RelocPhases
  <1> DEFINE moved == AppendBytes(cow, extra[cursor].at, "mov", MovLen, extra[cursor].addr)
  <1>1. /\ phase = "encode" /\ cursor <= Len(extra) /\ cursor' = cursor + 1
        /\ cow' = Ignore(moved, extra[cursor].at, extra[cursor].len)
        /\ UNCHANGED <<phase, extra>> /\ UNCHANGED templateVars
    BY DEF X86Encode, Static
  <1>2. /\ LayoutInv /\ extra \in Seq(Put) /\ cursor \in Nat \ {0} /\ Shaped(cow)
        /\ cow.len \in Nat /\ cow.copied \in Nat
        /\ DOMAIN extra = 1..Len(extra) /\ cursor \in DOMAIN extra
        /\ mode = "x86" /\ cow.copied <= extra[cursor].at
    <2>1. /\ LayoutInv /\ extra \in Seq(Put) /\ cursor \in Nat \ {0} /\ Shaped(cow)
          /\ cow.len \in Nat /\ cow.copied \in Nat
      BY <1>1, Known
    <2>2. DOMAIN extra = 1..Len(extra) /\ cursor \in DOMAIN extra
      BY <1>1, <2>1, PutTyped
    <2> QED BY <1>1, <2>1, <2>2 DEF JitInv, EncodeInv
  <1>3. EncodeTrail
    BY <1>1 DEF TrailInv
  <1>4. PICK c : c = cursor
    OBVIOUS
  <1>5. PICK i \in Prologue : IsPair(extra[cursor], i)
    BY <1>2, <1>3 DEF EncodeTrail, PairsFound
  <1>6. PICK e : e = extra[cursor]
    OBVIOUS
  <1>7. /\ e.at = start[i] /\ e.addr = Address(i) /\ e.at + e.len = start[i + 2] /\ Pairs(i)
        /\ e.at \in Nat /\ e.len \in Nat /\ e.addr \in Int
    BY <1>2, <1>5, <1>6, PutTyped DEF IsPair
  <1>8. i \in Nat /\ i \in 1..Asm /\ i + 2 \in 1..Asm /\ start[i] \in Nat /\ start[i + 2] \in Nat
    <2>1. i + 1 \in Prologue /\ i \in 1..Asm /\ Len(template) \in Nat
      BY <1>2, <1>7, Layout DEF Pairs
    <2>2. i \in Nat /\ i + 2 \in 1..Asm
      BY <2>1 DEF Prologue, Asm
    <2> QED BY <1>2, <2>1, <2>2, Layout
  <1>9. PICK visited, pos, f :
           ScanTrail(visited, pos, f) /\ start[f] = cow.copied /\ ~Popped(f)
    BY <1>3 DEF EncodeTrail
  <1>10. f \in 1..Asm /\ f \in Nat /\ f <= i
    <2>1. f \in 1..Asm
      BY <1>9 DEF ScanTrail, Follow
    <2>2. f \in Nat /\ start[f] <= start[i]
      BY <1>2, <1>6, <1>7, <1>9, <2>1, Layout
    <2>3. ~(i < f)
      <3>1. i < f => start[i] < start[f]
        BY <1>2, <1>8, <2>1 DEF LayoutInv
      <3>2. start[f] \in Nat
        BY <1>2, <2>1, Layout
      <3> QED BY <1>8, <2>2, <3>1, <3>2
    <2> QED BY <1>8, <2>1, <2>2, <2>3
  <1>11. \A j \in f..(i - 1) : Free(j) /\ template[j].op # "b"
    <2>1. cursor \in DOMAIN extra => start[i] <= extra[cursor].at
      BY <1>6, <1>7, <1>8
    <2>2. PairsFound(Asm) /\ \A k \in DOMAIN extra :
                                k < cursor => extra[k].at + extra[k].len <= cow.copied
      BY <1>3 DEF EncodeTrail
    <2> QED BY <1>1, <1>8, <1>9, <1>10, <2>1, <2>2, FreeAhead
  <1>12. PICK w, q : ScanTrail(w, q, i)
    BY <1>2, <1>8, <1>9, <1>10, <1>11, Stretch
  <1>13. PICK x : x = cow.len + start[i] - cow.copied
    OBVIOUS
  <1>14. /\ moved.len = x + MovLen /\ moved.copied = start[i]
         /\ cow.pieces \subseteq moved.pieces
         /\ [kind |-> "mov", at |-> x, len |-> MovLen, src |-> start[i],
             arg |-> Address(i)] \in moved.pieces
         /\ cow.copied < start[i] => NextSlice(start[i]) \in moved.pieces
    <2>1. "mov" \in PieceKinds \ {"copy", "literal"} /\ MovLen \in Nat /\ MovLen > 0
      BY DEF PieceKinds, MovLen
    <2>2. moved = AppendBytes(cow, start[i], "mov", MovLen, Address(i))
          /\ Address(i) \in Int /\ cow.copied <= start[i]
      BY <1>2, <1>6, <1>7
    <2> HIDE DEF moved
    <2>3. moved.len = cow.len + start[i] - cow.copied + MovLen /\ moved.copied = start[i]
      <3>1. \A d : d = AppendBytes(cow, start[i], "mov", MovLen, Address(i)) =>
               d.len = cow.len + start[i] - cow.copied + MovLen /\ d.copied = start[i]
        <4>1. /\ Shaped(cow) /\ start[i] \in Nat /\ cow.copied <= start[i]
              /\ Address(i) \in Int
          BY <1>2, <1>8, <2>2
        <4> QED BY <2>1, <4>1, AppendRight
      <3> QED BY <2>2, <3>1
    <2>4. /\ cow.pieces \subseteq moved.pieces
          /\ [kind |-> "mov", at |-> cow.len + start[i] - cow.copied, len |-> MovLen,
              src |-> start[i], arg |-> Address(i)] \in moved.pieces
          /\ cow.copied < start[i] =>
                [kind |-> "copy", at |-> cow.len, len |-> start[i] - cow.copied,
                 src |-> cow.copied, arg |-> 0] \in moved.pieces
      BY <1>2, <1>8, <2>2, AppendPieces
    <2> QED BY <1>13, <2>3, <2>4 DEF NextSlice
  <1>15. cow'.pieces = moved.pieces /\ cow'.len = moved.len /\ cow'.copied = start[i + 2]
    BY <1>1, <1>6, <1>7, <1>14 DEF Ignore, CopyUpTo, SkipTo
  <1> HIDE DEF moved
  <1>16. Grown
    BY <1>1, <1>14, <1>15 DEF Grown
  <1>17. Replaced(i, x, 1)'
    <2>1. Pairs(i)' /\ i # Asm' /\ Address(i)' = Address(i) /\ start' = start
      <3>1. i # Asm
        BY <1>2, Layout DEF Prologue, Asm
      <3> QED BY <1>1, <1>7, <3>1, TemplateStays DEF templateVars
    <2>2. Moved(i, x)'
      BY <1>14, <1>15, <2>1 DEF Moved, MovLen
    <2> QED BY <2>1, <2>2 DEF Replaced
  <1>18. PICK g \in 1..Asm : g = i + 2
    BY <1>8
  <1>19. g = Succ(i) /\ i < g /\ MovLen = NewLen(i) /\ MovLen \in Int
    BY <1>7, <1>8, <1>18 DEF Succ, NewLen, Pairs, MovLen
  <1>20. PICK v, r : ScanTrail(v, r, g)'
    <2>1. cow'.copied = start[g] /\ cow'.len = x + MovLen
      BY <1>14, <1>15, <1>18
    <2>2. cow.copied < start[i] => NextSlice(start[i]) \in cow'.pieces
      BY <1>14, <1>15
    <2> QED BY <1>2, <1>12, <1>13, <1>16, <1>17, <1>19, <2>1, <2>2, ReplacedNext
  <1>21. start'[g] = cow'.copied /\ ~Popped(g)'
    <2>1. ~Pairs(i + 1)
      BY <1>7 DEF Pairs
    <2>2. g - 1 = i + 1
      BY <1>8, <1>18
    <2>3. ~Popped(g)
      BY <2>1, <2>2 DEF Popped
    <2> QED BY <1>1, <1>15, <1>18, <2>3, TemplateStays DEF templateVars
  <1>22. \A k \in DOMAIN extra' : k < cursor' => extra'[k].at + extra'[k].len <= cow'.copied
    <2>1. \A k \in DOMAIN extra : k < c + 1 => k = c \/ k < c
      BY <1>2, <1>4
    <2>2. \A k \in DOMAIN extra : k < c => extra[k].at + extra[k].len <= start[i + 2]
      <3> SUFFICES ASSUME NEW k \in DOMAIN extra, k < c
                   PROVE  extra[k].at + extra[k].len <= start[i + 2]
        OBVIOUS
      <3>1. extra[k].at + extra[k].len <= cow.copied
        BY <1>3, <1>4 DEF EncodeTrail
      <3>2. extra[k].at \in Nat /\ extra[k].len \in Nat
        BY <1>2, PutTyped
      <3>3. cow.copied <= e.at /\ e.at <= e.at + e.len
        BY <1>2, <1>6, <1>7
      <3>4. cow.copied <= start[i + 2]
        BY <1>2, <1>7, <1>8, <3>3
      <3>5. extra[k].at + extra[k].len \in Nat
        BY <3>2
      <3> QED BY <1>2, <1>8, <3>1, <3>4, <3>5
    <2>3. extra[c].at + extra[c].len <= start[i + 2]
      BY <1>4, <1>6, <1>7, <1>8
    <2> QED BY <1>1, <1>4, <1>15, <2>1, <2>2, <2>3
  <1>23. PairsFound(Asm)'
    BY <1>1, <1>3, PairsStay DEF EncodeTrail
  <1>24. EncodeTrail'
    BY <1>20, <1>21, <1>22, <1>23 DEF EncodeTrail
  <1>25. phase' = "encode"
    BY <1>1
  <1> QED BY <1>24, <1>25 DEF TrailInv

LEMMA X86FinishTrail ==
    ASSUME JitInv, Static, X86Finish, TrailInv
    PROVE  TrailInv'
  <1> USE DEF RelocPhases
  <1>1. phase = "encode" /\ cursor > Len(extra) /\ Return(cow, X86Magic(cow))
        /\ UNCHANGED templateVars
    BY DEF X86Finish, Static
  <1>2. /\ LayoutInv /\ extra \in Seq(Put) /\ cursor \in Nat /\ Len(extra) \in Nat
        /\ cow.len \in Nat /\ cow.copied \in Nat /\ DOMAIN extra = 1..Len(extra)
        /\ mode = "x86" /\ cow.copied <= start[Asm] /\ (cow.len = 0 => cow.copied = 0)
    BY <1>1, Known, PutTyped DEF JitInv, EncodeInv
  <1>3. EncodeTrail
    BY <1>1 DEF TrailInv
  <1>4. PICK visited, pos, f :
           ScanTrail(visited, pos, f) /\ start[f] = cow.copied /\ ~Popped(f)
    BY <1>3 DEF EncodeTrail
  <1>5. f \in 1..Asm /\ Asm \in 1..Asm /\ f <= Asm
    BY <1>2, <1>4, Layout DEF ScanTrail, Follow
  <1>6. \A j \in f..(Asm - 1) : Free(j) /\ template[j].op # "b"
    <2>1. cursor \notin DOMAIN extra
      BY <1>1, <1>2
    <2> QED BY <1>1, <1>3, <1>4, <1>5, <2>1, FreeAhead DEF EncodeTrail
  <1>7. PICK w, q : ScanTrail(w, q, Asm)
    BY <1>2, <1>4, <1>5, <1>6, Stretch
  <1>8. DoneTrail(w, q, 1)'
    BY <1>1, <1>2, <1>7, ReturnTrail
  <1>9. PICK n : n = Len(extra') + 1
    OBVIOUS
  (* No instruction of x86 becomes a load of a literal.                    *)
  <1>10. ASSUME NEW i \in 1..Asm, NEW x, Settled(i, x, 1)'
         PROVE  Settled(i, x, n)'
    <2>1. CASE Kept(i, x)'
      BY <2>1 DEF Settled
    <2>2. CASE Replaced(i, x, 1)'
      <3>1. i # Asm' /\ Asm' = Asm
        BY <1>1, <2>2, TemplateStays DEF Replaced
      <3>2. i \in Prologue
        BY <1>2, <3>1, Layout DEF Prologue, Asm
      <3>3. ~UsesAddress(i)'
        BY <1>1, <1>2, <3>2, X86Code, TemplateStays
      <3>4. Replaced(i, x, n)'
        BY <2>2, <3>3 DEF Replaced
      <3> QED BY <3>4 DEF Settled
    <2> QED BY <1>10, <2>1, <2>2 DEF Settled
  <1>11. w \subseteq 1..Asm
    BY <1>7 DEF ScanTrail, Follow
  <1>12. DoneTrail(w, q, n)'
    BY <1>8, <1>10, <1>11 DEF DoneTrail
  <1>13. phase' = "alloc"
    BY <1>1 DEF Return
  <1> QED BY <1>9, <1>12, <1>13, DoneNow

-----------------------------------------------------------------------------
(* A step of a relocation *)

(* Nothing is asked for before a relocation, or when it has panicked.      *)
LEMMA NothingNow ==
    ASSUME phase' \in {"compile", "search", "panicked"}
    PROVE  TrailInv'
  BY DEF TrailInv

LEMMA X86Trail ==
    ASSUME JitInv, RelocateX86, start[1] = 0, TrailInv
    PROVE  TrailInv'
  <1>1. Static
    BY DEF RelocateX86, Static
  <1>2. CASE X86Invalid \/ X86Unsupported
    <2>1. phase' = "panicked"
      BY <1>2 DEF X86Invalid, X86Unsupported, Panic
    <2> QED BY <2>1, NothingNow
  <1> QED BY <1>1, <1>2, X86NextTrail, X86CallPopTrail, X86ReachAsmTrail, X86EncodeTrail,
             X86FinishTrail DEF RelocateX86

LEMMA A64LiteralTrail ==
    ASSUME JitInv, Static, A64Literal, TrailInv
    PROVE  TrailInv'
  <1> DEFINE put == extra[cursor]
             distance == cow.len - put.at
  <1>1. /\ phase = "literals" /\ mode = "a64" /\ cursor <= Len(extra)
        /\ IF distance >= Reach[mode]
           THEN Panic("EncodingError")
           ELSE /\ cow' = FillHole(Push(cow, "literal", 8, TemplateLen, put.addr),
                                   put.at, A64Encoded(distance))
                /\ cursor' = cursor + 1
                /\ UNCHANGED <<phase, error, newMagic, extra>>
    BY DEF A64Literal
  <1>2. CASE distance >= Reach[mode]
    <2>1. phase' = "panicked"
      BY <1>1, <1>2 DEF Panic
    <2> QED BY <2>1, NothingNow
  <1>3. CASE ~(distance >= Reach[mode])
    <2>1. distance \in Int /\ Reach["a64"] \in Nat /\ Reach["a64"] > 0
      <3>1. /\ cow.len \in Nat /\ extra \in Seq(Put) /\ cursor \in Nat \ {0}
            /\ mode \in Modes
        BY <1>1, Known DEF RelocPhases, JitInv, LayoutInv
      <3>2. put.at \in Nat
        BY <1>1, <3>1, PutTyped
      <3>3. Reach["a64"] \in Nat /\ Reach["a64"] > 0
        BY <1>1, <3>1, TemplateAssumption, ArchitectureAssumption
      <3> HIDE DEF put
      <3> QED BY <3>1, <3>2, <3>3
    <2>2. 0 <= distance
      <3>1. PICK p \in cow.pieces : \A k \in DOMAIN extra : extra[k].at < p.at
        BY <1>1 DEF JitInv, LiteralsInv
      <3>2. /\ cursor \in DOMAIN extra /\ put.at \in Nat
            /\ p.at \in Nat /\ p.len \in Nat /\ p.at + p.len <= cow.len /\ cow.len \in Nat
        <4>1. extra \in Seq(Put) /\ cursor \in Nat \ {0} /\ Shaped(cow)
          BY <1>1, Known DEF RelocPhases
        <4>2. cursor \in DOMAIN extra /\ put.at \in Nat
          BY <1>1, <4>1, PutTyped
        <4>3. p.at \in Nat /\ p.len \in Nat /\ p.at + p.len <= cow.len /\ cow.len \in Nat
          BY <4>1 DEF Shaped, Buffer, Piece
        <4> QED BY <4>2, <4>3
      <3>3. put.at < p.at
        BY <3>1, <3>2
      <3> HIDE DEF put
      <3> QED BY <3>2, <3>3
    <2> HIDE DEF put, distance
    <2>3. A64Encoded(distance) = distance \/ A64Encoded(distance) < 0
      <3>1. distance < Reach["a64"]
        BY <1>1, <1>3, <2>1
      <3>2. distance % Reach["a64"] = distance
        BY <2>1, <2>2, <3>1
      <3> QED BY <2>1, <3>1, <3>2 DEF A64Encoded, Signed
    <2>4. A64Encoded(distance) \in Int
      BY <2>1, SignedInt DEF A64Encoded
    <2>5. WordSize = 8
      BY <1>1 DEF WordSize
    <2>6. PICK arg \in Int : arg = A64Encoded(distance)
      BY <2>4
    <2>7. /\ arg = cow.len - extra[cursor].at \/ arg < 0
          /\ cow' = FillHole(Push(cow, "literal", WordSize, TemplateLen, extra[cursor].addr),
                             extra[cursor].at, arg)
          /\ cursor' = cursor + 1 /\ UNCHANGED <<phase, extra>>
      BY <1>1, <1>3, <2>3, <2>5, <2>6 DEF put, distance
    <2> QED BY <1>1, <2>7, LiteralTrail
  <1> QED BY <1>2, <1>3

LEMMA A64Trail ==
    ASSUME JitInv, RelocateAArch64, AllPlausible, TrailInv
    PROVE  TrailInv'
  <1>1. Static
    BY DEF RelocateAArch64, Static
  <1>2. Scanning("a64") /\ ~A64AtAsm => cursor < Asm /\ cursor \in Prologue
    <2>1. Scanning("a64") => cursor \in 1..Asm /\ Asm \in Nat /\ phase = "scan"
      BY Layout DEF Scanning, JitInv, ScanInv
    <2> QED BY <2>1, AtInstruction DEF A64AtAsm
  <1>3. CASE A64ReachAsm
    <2>1. /\ phase = "scan" /\ mode = "a64" /\ A64AtAsm
          /\ IF extra = <<>>
             THEN Return(cow, newMagic)
             ELSE phase' = "pool" /\ UNCHANGED <<error, relocVars>>
      BY <1>3 DEF A64ReachAsm, Scanning
    <2>2. cursor < Asm => Plausible(cursor)
      BY <2>1, AtInstruction DEF AllPlausible
    <2>3. cursor = Asm
      BY <2>1, <2>2, AtBlock
    <2> QED BY <1>1, <2>1, <2>3, ReachAsmTrail
  <1>4. CASE A64Branch
    <2>1. /\ phase = "scan" /\ mode = "a64" /\ cursor < Asm /\ template[cursor].op = "b"
          /\ Goto(template[cursor].to) \/ Panic("UnsupportedInstruction")
      BY <1>2, <1>4 DEF A64Branch, Scanning
    <2>2. Panic("UnsupportedInstruction") => phase' = "panicked"
      BY DEF Panic
    <2> QED BY <1>1, <2>1, <2>2, BranchTrail, NothingNow
  <1>5. CASE A64Other
    <2>1. phase = "scan" /\ mode = "a64" /\ cursor < Asm /\ Plausible(cursor)
      BY <1>2, <1>5 DEF A64Other, Scanning, AllPlausible
    <2>2. template[cursor].op # "vldr"
      BY <2>1 DEF Plausible
    <2>3. CASE template[cursor].op \in {"jump", "invalid"}
      <3>1. phase' = "panicked"
        BY <1>5, <2>3 DEF A64Other, Panic
      <3> QED BY <3>1, NothingNow
    <2>4. CASE template[cursor].op = "plain"
      <3>1. Goto(cursor + 1)
        BY <1>5, <2>4 DEF A64Other
      <3> QED BY <1>1, <2>1, <2>4, <3>1, PlainTrail
    <2>5. CASE template[cursor].op \notin {"jump", "invalid", "plain", "vldr"}
      BY <1>5, <2>5 DEF A64Other
    <2> QED BY <2>2, <2>3, <2>4, <2>5
  <1>6. CASE A64Pool
    <2>1. /\ mode = "a64" /\ phase = "pool" /\ phase' = "literals" /\ cursor' = 1
          /\ extra' = extra
      BY <1>6 DEF A64Pool
    <2>2. (CopyUpTo(cow, TemplateLen).len - newMagic) % 8 = 0
      BY <2>1, PoolAligned DEF WordSize
    <2>3. cow' = CopyUpTo(cow, TemplateLen)
      BY <1>6, <2>2 DEF A64Pool
    <2> QED BY <1>1, <2>1, <2>3, PoolTrail
  <1>7. CASE A64Finish
    <2>1. phase = "literals" /\ cursor > Len(extra) /\ Return(cow, newMagic)
      BY <1>7 DEF A64Finish
    <2> QED BY <1>1, <2>1, FinishTrail
  <1> QED BY <1>1, <1>3, <1>4, <1>5, <1>6, <1>7, A64LdrTrail, A64AdrTrail, A64LiteralTrail
          DEF RelocateAArch64

LEMMA ArmLiteralTrail ==
    ASSUME JitInv, Static, ArmLiteral, TrailInv
    PROVE  TrailInv'
  <1> DEFINE put == extra[cursor]
  <1>1. /\ phase = "literals" /\ mode \in {"arm", "thumb"} /\ cursor <= Len(extra)
        /\ IF Displacement(put) >= Reach[mode]
           THEN Panic("EncodingError")
           ELSE /\ cow' = FillHole(Push(cow, "literal", 4, TemplateLen, put.addr),
                                   put.at, Displacement(put))
                /\ cursor' = cursor + 1
                /\ UNCHANGED <<phase, error, newMagic, extra>>
    BY DEF ArmLiteral
  <1>2. CASE Displacement(put) >= Reach[mode]
    <2>1. phase' = "panicked"
      BY <1>1, <1>2 DEF Panic
    <2> QED BY <2>1, NothingNow
  <1>3. CASE ~(Displacement(put) >= Reach[mode])
    <2>1. Displacement(put) \in Int
      <3>1. /\ cow.len \in Nat /\ extra \in Seq(Put) /\ cursor \in Nat \ {0} /\ pc \in Nat
        BY <1>1, Known, Layout DEF RelocPhases, JitInv
      <3>2. put.at \in Nat
        BY <1>1, <3>1, PutTyped
      <3>3. EffectivePc(pc + put.at) \in Nat
        <4>1. pc + put.at \in Nat
          <5> HIDE DEF put
          <5> QED BY <3>1, <3>2
        <4> QED BY <4>1, EffectivePcRight
      <3> HIDE DEF put
      <3> QED BY <3>1, <3>3 DEF Displacement
    <2>2. WordSize = 4
      BY <1>1 DEF WordSize
    <2> QED BY <1>1, <1>3, <2>1, <2>2, LiteralTrail
  <1> QED BY <1>2, <1>3

LEMMA ArmTrail ==
    ASSUME JitInv, RelocateArm, AllPlausible, TrailInv
    PROVE  TrailInv'
  <1>1. Static
    BY DEF RelocateArm, Static
  <1>2. CASE ArmReachAsm
    <2>1. /\ phase = "scan" /\ mode \in {"arm", "thumb"} /\ ArmAtAsm
          /\ IF extra = <<>>
             THEN Return(cow, newMagic)
             ELSE phase' = "pool" /\ UNCHANGED <<error, relocVars>>
      BY <1>2 DEF ArmReachAsm, ScanningArm
    <2>2. cursor < Asm => Plausible(cursor)
      BY <2>1, AtInstruction DEF AllPlausible
    <2>3. cursor = Asm
      BY <2>1, <2>2, AtBlock
    <2> QED BY <1>1, <2>1, <2>3, ReachAsmTrail
  <1>3. CASE ArmBranch
    <2>1. phase = "scan" /\ mode # "x86" /\ cursor < Asm /\ template[cursor].op = "b"
      BY <1>3 DEF ArmBranch, ScanningArm, Current
    <2>2. Inside(cursor)
      BY <2>1, AtInstruction DEF AllPlausible, Plausible
    <2>3. Goto(template[cursor].to)
      BY <1>3, <2>2 DEF ArmBranch, Current
    <2> QED BY <1>1, <2>1, <2>3, BranchTrail
  <1>4. CASE ArmPlain
    <2>1. /\ phase = "scan" /\ mode # "x86" /\ cursor < Asm /\ template[cursor].op = "plain"
          /\ Goto(cursor + 1)
      BY <1>4 DEF ArmPlain, ScanningArm, Current
    <2> QED BY <1>1, <2>1, PlainTrail
  <1>5. CASE ArmUnsupported \/ ArmInvalid \/ ArmOutOfOrder
    <2>1. phase' = "panicked"
      BY <1>5 DEF ArmUnsupported, ArmInvalid, ArmOutOfOrder, Panic
    <2> QED BY <2>1, NothingNow
  <1>6. CASE ArmPool
    <2>1. /\ mode \in {"arm", "thumb"} /\ phase = "pool" /\ phase' = "literals" /\ cursor' = 1
          /\ extra' = extra
      BY <1>6 DEF ArmPool
    <2>2. (CopyUpTo(cow, TemplateLen).len - newMagic) % 4 = 0
      <3>1. WordSize = 4
        BY <2>1 DEF WordSize
      <3> QED BY <2>1, <3>1, PoolAligned
    <2>3. cow' = CopyUpTo(cow, TemplateLen)
      BY <1>6, <2>2 DEF ArmPool
    <2>4. mode # "x86"
      BY <2>1
    <2> QED BY <1>1, <2>1, <2>3, PoolTrail
  <1>7. CASE ArmFinish
    <2>1. phase = "literals" /\ cursor > Len(extra) /\ Return(cow, newMagic)
      BY <1>7 DEF ArmFinish
    <2> QED BY <1>1, <2>1, FinishTrail
  <1> QED BY <1>1, <1>2, <1>3, <1>4, <1>5, <1>6, <1>7, ArmAdrTrail, ArmLoadTrail, ArmLiteralTrail
          DEF RelocateArm

(* Instructions the AArch64 relocator does nothing about are passed over   *)
(* or refused.                                                             *)
LEMMA OtherGoes ==
    ASSUME A64Other
    PROVE  Panic("UnsupportedInstruction") \/ Panic("NoThunkAsm") \/ Goto(cursor + 1)
  <1>1. template[cursor].op = "jump" => Panic("UnsupportedInstruction")
    BY DEF A64Other
  <1>2. template[cursor].op = "invalid" => Panic("NoThunkAsm")
    BY DEF A64Other
  <1>3. template[cursor].op \in {"plain", "vldr"} => Goto(cursor + 1)
    BY DEF A64Other
  <1>4. template[cursor].op \in {"jump", "invalid", "plain", "vldr"}
    BY DEF A64Other
  <1> QED BY <1>1, <1>2, <1>3, <1>4

(* Each instruction set has a relocator of its own.                        *)
LEMMA OwnRelocator ==
    ASSUME JitInv, Relocate
    PROVE  /\ mode = "x86" => RelocateX86
           /\ mode = "a64" => RelocateAArch64
           /\ mode \in {"arm", "thumb"} => RelocateArm
  <1>1. mode # "x86" => ~RelocateX86
    BY DEF RelocateX86, X86Invalid, X86Next, X86CallPop, X86Unsupported, X86ReachAsm,
           X86Encode, X86Finish, Scanning, JitInv, EncodeInv
  <1>2. mode # "a64" => ~RelocateAArch64
    <2>1. mode # "a64" => ~A64Other
      BY Zenon DEF A64Other, Scanning
    <2> QED BY <2>1 DEF RelocateAArch64, A64ReachAsm, A64Ldr, A64Adr, A64Branch, A64Pool,
                        A64Literal, A64Finish, Scanning
  <1>3. mode \notin {"arm", "thumb"} => ~RelocateArm
    BY DEF RelocateArm, ArmReachAsm, ArmBranch, ArmPlain, ArmUnsupported, ArmInvalid,
           ArmOutOfOrder, ArmAdr, ArmLoad, ArmPool, ArmLiteral, ArmFinish, ScanningArm
  <1> QED BY <1>1, <1>2, <1>3 DEF Relocate

(* On Arm the constants move by the four bytes of a load or, if each ADR   *)
(* has four of its own, not at all.                                        *)
LEMMA MovesByWords ==
    ASSUME JitInv, Relocate, mode \in {"arm", "thumb"},
           \A i \in Prologue : template[i].op = "adr" => template[i].len = 4
    PROVE  newMagic' = newMagic \/ newMagic' = newMagic + 4
  <1>1. RelocateArm
    BY OwnRelocator
  <1>2. CASE ArmAdr
    <2>1. phase = "scan" /\ cursor < Asm /\ template[cursor].op = "adr"
          /\ newMagic' = newMagic + 4 - template[cursor].len
      BY <1>2 DEF ArmAdr, ScanningArm, Current
    <2>2. template[cursor].len = 4 /\ newMagic \in Nat
      BY <2>1, AtInstruction, Known DEF RelocPhases
    <2> QED BY <2>1, <2>2
  <1>3. CASE ~ArmAdr
    BY <1>1, <1>3 DEF RelocateArm, ArmReachAsm, ArmBranch, ArmPlain, ArmUnsupported, ArmInvalid,
         ArmOutOfOrder, ArmLoad, ArmPool, ArmLiteral, ArmFinish, Panic, Goto, Return, relocVars
  <1> QED BY <1>2, <1>3

LEMMA RelocateRight ==
    ASSUME RunInv, Relocate
    PROVE  RunInv'
  <1>1. JitInv /\ JitInv'
    BY X86Right, A64Right, ArmRight DEF RunInv, Relocate
  <1>2. /\ UNCHANGED <<mode, pc, template, start, magic, at, ip>> /\ UNCHANGED templateVars
        /\ phase \in RelocPhases /\ phase' # "run"
    <2>1. UNCHANGED <<templateVars, magic, blockVars, runVars>>
      BY DEF Relocate, RelocateX86, RelocateAArch64, RelocateArm
    <2>2. RelocateX86 => phase \in RelocPhases /\ phase' # "run"
      BY DEF RelocateX86, X86Invalid, X86Next, X86CallPop, X86Unsupported, X86ReachAsm, X86Encode,
             X86Finish, Scanning, Panic, Goto, Return, RelocPhases
    <2>3. RelocateAArch64 => phase \in RelocPhases
      BY DEF RelocateAArch64, A64ReachAsm, A64Ldr, A64Adr, A64Branch, A64Other, A64Pool,
             A64Literal, A64Finish, Scanning, RelocPhases
    <2>4. ~RelocateAArch64 \/ phase' # "run"
      <3>1. A64ReachAsm \/ A64Ldr \/ A64Adr \/ A64Branch \/ A64Pool \/ A64Literal \/ A64Finish
            => phase' # "run"
        BY DEF A64ReachAsm, A64Ldr, A64Adr, A64Branch, A64Pool, A64Literal, A64Finish,
               Scanning, Panic, Goto, Return
      <3>2. A64Other => phase' # "run"
        <4>1. A64Other => phase = "scan"
          BY DEF A64Other, Scanning
        <4> QED BY <4>1, OtherGoes DEF Panic, Goto
      <3> QED BY <3>1, <3>2 DEF RelocateAArch64
    <2>5. RelocateArm => phase \in RelocPhases /\ phase' # "run"
      BY DEF RelocateArm, ArmReachAsm, ArmBranch, ArmPlain, ArmUnsupported, ArmInvalid,
             ArmOutOfOrder, ArmAdr, ArmLoad, ArmPool, ArmLiteral, ArmFinish, ScanningArm,
             Panic, Goto, Return, RelocPhases
    <2> QED BY <2>1, <2>2, <2>3, <2>4, <2>5 DEF Relocate, templateVars, runVars
  <1>3. at' = 1 /\ ip' = 0 /\ start'[1] = 0
    BY <1>2 DEF RunInv, RelocPhases
  <1>4. ArmInWords'
    <2> SUFFICES ASSUME mode = "arm"
                 PROVE  (newMagic' - magic) % 4 = 0
      BY <1>2 DEF ArmInWords
    <2>1. (newMagic - magic) % 4 = 0 /\ newMagic \in Nat /\ magic \in Nat
      BY <1>1, <1>2, Known DEF RunInv, ArmInWords, RelocPhases
    <2>2. \A i \in Prologue : template[i].op = "adr" => template[i].len = 4
      BY <1>1, WordLengths
    <2>3. newMagic' = newMagic \/ newMagic' = newMagic + 4
      BY <1>1, <2>2, MovesByWords
    <2> QED BY <2>1, <2>3
  <1>5. AllPlausible' => TrailInv'
    <2>1. AllPlausible' => AllPlausible
      BY <1>2, TemplateStays
    <2> QED BY <1>1, <2>1, X86Trail, A64Trail, ArmTrail DEF RunInv, Relocate
  <1> QED BY <1>1, <1>3, <1>4, <1>5 DEF RunInv

-----------------------------------------------------------------------------
(* The steps before and after a relocation *)

LEMMA RunInitRight ==
    ASSUME Init
    PROVE  RunInv
  BY InitRight DEF Init, RunInv, TrailInv, ArmInWords

LEMMA RunCompileRight ==
    ASSUME RunInv, Compile
    PROVE  RunInv'
  <1>1. JitInv /\ JitInv'
    BY CompileRight DEF RunInv
  <1>2. phase = "compile" /\ phase' = "compile" /\ UNCHANGED <<at, ip>>
        /\ \E i : start' = Append(start, start[Asm] + i.len)
    BY DEF Compile, runVars
  <1>3. start'[1] = 0
    <2>1. start \in Seq(Nat) /\ Len(start) > 0 /\ start[1] = 0
      BY <1>1, Layout DEF RunInv, JitInv, LayoutInv
    <2>2. \A e : Append(start, e)[1] = start[1]
      BY <2>1
    <2> QED BY <1>2, <2>1, <2>2
  <1> QED BY <1>1, <1>2, <1>3, NothingNow DEF RunInv, ArmInWords

LEMMA RunSearchRight ==
    ASSUME RunInv, BeginSearch \/ SearchMagic
    PROVE  RunInv'
  <1>1. JitInv /\ JitInv'
    BY BeginSearchRight, SearchMagicRight DEF RunInv
  <1>2. /\ UNCHANGED <<mode, template, start, at, ip, extra, cow>> /\ UNCHANGED templateVars
        /\ phase \in {"compile", "search"} /\ phase' \in {"search", "scan"}
    BY DEF BeginSearch, SearchMagic, templateVars, relocVars, runVars
  <1>3. cow' = NewBuffer /\ extra' = <<>> /\ start'[1] = 0
    BY <1>1, <1>2 DEF RunInv, JitInv, SearchInv
  <1>4. ASSUME phase' = "scan"
        PROVE  cursor' = 1 /\ newMagic' = magic' /\ magic' \in Nat
    BY <1>1, <1>2, <1>4 DEF SearchMagic, BeginSearch, JitInv, SearchInv, TypeOK
  <1>5. ArmInWords'
    BY <1>2, <1>4 DEF ArmInWords
  <1>6. TrailInv'
    <2>1. CASE phase' = "search"
      BY <2>1, NothingNow
    <2>2. CASE phase' = "scan" /\ mode # "x86"
      <3>1. LayoutInv
        BY <1>1 DEF JitInv
      <3>2. cow = NewBuffer /\ start[1] = 0
        BY <1>2, <1>3
      <3>3. PICK visited, pos : ScanTrail(visited, pos, 1)
        BY <3>1, <3>2, FirstTrail
      <3>4. ScanTrail(visited, pos, 1)'
        BY <1>2, <3>3, TrailStays
      <3>5. HolesApart(1)'
        <4>1. DOMAIN extra' = {}
          BY <1>3
        <4> QED BY <4>1 DEF HolesApart
      <3> QED BY <1>2, <1>4, <2>2, <3>4, <3>5, ScanNow
    <2>3. CASE phase' = "scan" /\ mode = "x86"
      <3>1. PairsFound(1)'
        <4>1. DOMAIN extra' = {}
          BY <1>3
        <4> QED BY <4>1 DEF PairsFound, Popped
      <3>2. PairsFound(cursor)'
        BY <1>4, <2>3, <3>1 DEF PairsFound
      <3> QED BY <1>2, <2>3, <3>2 DEF TrailInv
    <2> QED BY <1>2, <2>1, <2>2, <2>3
  <1> QED BY <1>1, <1>2, <1>3, <1>5, <1>6 DEF RunInv

(* The trail stays when neither the template nor the copy changes.         *)
LEMMA DoneStays ==
    ASSUME UNCHANGED <<templateVars, extra, cow>>, NEW visited, NEW pos,
           DoneTrail(visited, pos, Len(extra) + 1)
    PROVE  DoneTrail(visited, pos, Len(extra) + 1)'
  <1>1. UNCHANGED templateVars /\ extra' = extra /\ cow' = cow
    OBVIOUS
  <1>2. PICK n : n = Len(extra) + 1
    OBVIOUS
  <1>3. Grown
    BY <1>1 DEF Grown
  <1>4. \A i, x : Settled(i, x, n) => Settled(i, x, n)'
    BY <1>3, SettledStays
  <1>5. Asm' = Asm /\ \A i : Succ(i)' = Succ(i) /\ NewLen(i)' = NewLen(i)
    BY <1>1, TemplateStays
  <1>6. DoneTrail(visited, pos, n)'
    BY <1>2, <1>4, <1>5 DEF DoneTrail, Follow
  <1>7. \A i, x : Settled(i, x, n)' => Settled(i, x, Len(extra) + 1)'
    BY <1>1, <1>2 DEF Settled, Replaced, Holed
  <1> QED BY <1>6, <1>7 DEF DoneTrail

LEMMA RunAllocRight ==
    ASSUME RunInv, AllocThunk
    PROVE  RunInv'
  <1>1. JitInv'
    BY AllocThunkRight DEF RunInv
  <1>2. /\ phase = "alloc" /\ phase' = "run" /\ UNCHANGED templateVars
        /\ UNCHANGED <<mode, start, magic, newMagic, extra, cow, at, ip>>
    BY DEF AllocThunk, templateVars, relocVars, runVars
  <1>3. at' = 1 /\ ip' = 0 /\ start'[1] = 0 /\ ArmInWords'
    BY <1>2 DEF RunInv, ArmInWords
  <1>4. ASSUME AllPlausible'
        PROVE  TrailInv'
    <2>1. AllPlausible
      BY <1>2, <1>4, TemplateStays
    <2>2. PICK visited, pos : DoneTrail(visited, pos, Len(extra) + 1)
      BY <1>2, <2>1 DEF RunInv, TrailInv
    <2>3. DoneTrail(visited, pos, Len(extra) + 1)'
      BY <1>2, <2>2, DoneStays
    <2>4. at' \in visited /\ ip' = pos[at']
      BY <1>3, <2>2 DEF DoneTrail, Follow
    <2> QED BY <1>2, <2>3, <2>4 DEF TrailInv
  <1> QED BY <1>1, <1>2, <1>3, <1>4 DEF RunInv

(* Code at one place of the copy is of one piece.                          *)
LEMMA OnePiece ==
    ASSUME JitInv, NEW p \in cow.pieces, p.kind # "copy", NEW x, p.at = x, NEW o
    PROVE  CopiesOf(o, x) = {}
  <1>1. Shaped(cow)
    BY DEF JitInv
  <1>2. ASSUME NEW r \in CopiesOf(o, x)
        PROVE  FALSE
    <2>1. r \in cow.pieces /\ r.kind = "copy" /\ r.at <= x /\ x < r.at + r.len
      BY DEF CopiesOf
    <2>2. r # p
      BY <2>1
    <2>3. r.at + r.len <= p.at \/ p.at + p.len <= r.at
      BY <1>1, <2>1, <2>2 DEF Shaped
    <2>4. r.at \in Nat /\ r.len \in Nat /\ p.at \in Nat /\ p.len \in Nat /\ p.len > 0
      BY <1>1, <2>1 DEF Shaped, Buffer, Piece
    <2> QED BY <2>1, <2>3, <2>4
  <1> QED BY <1>2

LEMMA CodeLength ==
    ASSUME JitInv, at # Asm, NEW n, Settled(at, ip, n), template[at].op # "b"
    PROVE  CopyLen(at) = NewLen(at)
  <1>1. CASE Kept(at, ip)
    <2>1. ~UsesAddress(at) /\ ~Pairs(at) /\ CopiesOf(start[at], ip) # {}
      BY <1>1 DEF Kept, Free, Pairs
    <2>2. ~Loads(at)
      BY <2>1 DEF Loads, UsesAddress
    <2> QED BY <2>1, <2>2 DEF CopyLen, NewLen
  <1>2. CASE Replaced(at, ip, n)
    <2>1. \E p \in cow.pieces : p.at = ip /\ p.kind # "copy"
      BY <1>2 DEF Replaced, Moved, Holed, LoadsLiteral
    <2>2. CopiesOf(start[at], ip) = {}
      BY <2>1, OnePiece
    <2>3. Pairs(at) \/ UsesAddress(at)
      BY <1>2 DEF Replaced
    <2> QED BY <2>2, <2>3 DEF CopyLen, NewLen
  <1> QED BY <1>1, <1>2 DEF Settled

LEMMA RunRunRight ==
    ASSUME RunInv, Run
    PROVE  RunInv'
  <1>1. JitInv /\ JitInv'
    BY RunRight DEF RunInv
  <1>2. /\ phase = "run" /\ phase' = "run" /\ at < Asm /\ UNCHANGED templateVars
        /\ UNCHANGED <<mode, start, magic, newMagic, extra, cow>>
    BY DEF Run, templateVars, relocVars
  <1>3. start'[1] = 0 /\ ArmInWords'
    BY <1>2 DEF RunInv, ArmInWords
  <1>4. at \in Prologue /\ at # Asm /\ at \in Nat
    <2>1. at \in 1..Asm
      BY <1>1 DEF JitInv, TypeOK
    <2>2. Asm \in Nat /\ Prologue = 1..(Asm - 1)
      BY <1>1, Layout DEF JitInv, Prologue, Asm
    <2> QED BY <1>2, <2>1, <2>2
  <1>5. ASSUME AllPlausible'
        PROVE  TrailInv'
    <2>1. AllPlausible
      BY <1>2, <1>5, TemplateStays
    <2>2. PICK visited, pos :
             DoneTrail(visited, pos, Len(extra) + 1) /\ at \in visited /\ ip = pos[at]
      BY <1>2, <2>1 DEF RunInv, TrailInv
    <2>3. DoneTrail(visited, pos, Len(extra) + 1)'
      BY <1>2, <2>2, DoneStays
    <2>4. Succ(at) \in visited /\ pos[Succ(at)] = ip + NewLen(at) /\ Settled(at, ip, Len(extra) + 1)
      BY <1>4, <2>2 DEF DoneTrail, Follow
    <2>5. at' = Succ(at) /\ ip' = ip + NewLen(at)
      <3>1. CASE template[at].op = "b"
        <4>1. ~template[at].cond /\ Inside(at)
          BY <1>4, <2>1, <3>1 DEF AllPlausible, Plausible
        <4>2. at' = template[at].to /\ ip' = ip + start[template[at].to] - start[at]
          BY <3>1, <4>1 DEF Run
        <4>3. /\ start[template[at].to] \in Nat /\ start[at] \in Nat /\ ip \in Nat
          BY <1>1, <1>4, <4>1, Layout DEF Inside, JitInv, TypeOK
        <4>4. at' = Succ(at)
          BY <3>1, <4>2 DEF Succ
        <4>5. NewLen(at) = start[template[at].to] - start[at]
          BY <3>1 DEF NewLen
        <4> QED BY <4>2, <4>3, <4>4, <4>5
      <3>2. CASE template[at].op # "b"
        <4>1. at' = (IF Pairs(at) THEN at + 2 ELSE at + 1) /\ ip' = ip + CopyLen(at)
          BY <3>2 DEF Run
        <4>2. CopyLen(at) = NewLen(at)
          BY <1>1, <1>4, <2>4, <3>2, CodeLength
        <4> QED BY <3>2, <4>1, <4>2 DEF Succ
      <3> QED BY <3>1, <3>2
    <2>6. at' \in visited /\ ip' = pos[at']
      BY <2>4, <2>5
    <2> QED BY <1>2, <2>3, <2>6 DEF TrailInv
  <1> QED BY <1>1, <1>2, <1>3, <1>5 DEF RunInv

LEMMA RunStutterRight ==
    ASSUME RunInv, UNCHANGED vars
    PROVE  RunInv'
  <1>1. JitInv'
    BY StutterRight DEF RunInv
  <1>2. /\ UNCHANGED <<mode, pc, template, start, phase, magic, newMagic, cursor, extra, cow,
                      at, ip>>
        /\ UNCHANGED templateVars
    BY DEF vars, templateVars, relocVars, runVars
  <1>3. start'[1] = 0 /\ ArmInWords' /\ (phase' # "run" => at' = 1 /\ ip' = 0)
    BY <1>2 DEF RunInv, ArmInWords
  <1>4. ASSUME AllPlausible'
        PROVE  TrailInv'
    <2>1. TrailInv
      BY <1>2, <1>4, TemplateStays DEF RunInv
    <2>2. Asm' = Asm /\ Prologue' = Prologue
      BY <1>2, TemplateStays
    <2>3. \A w, q, f : ScanTrail(w, q, f) => ScanTrail(w, q, f)'
      BY <1>2, TrailStays
    <2>4. Grown
      BY <1>2 DEF Grown
    <2>5. \A i, x, n : Settled(i, x, n) => Settled(i, x, n)'
      BY <2>4, SettledStays
    <2>6. \A n : HolesApart(n) => HolesApart(n)'
      BY <1>2 DEF HolesApart
    <2>7. \A f : PairsFound(f) => PairsFound(f)'
      <3>1. \A i : /\ (Popped(i)' <=> Popped(i)) /\ (Free(i)' <=> Free(i))
                   /\ (Pairs(i)' <=> Pairs(i)) /\ Address(i)' = Address(i)
        BY <1>2, TemplateStays
      <3>2. \A e, i : IsPair(e, i)' <=> IsPair(e, i)
        BY <1>2, <3>1 DEF IsPair
      <3> QED BY <1>2, <2>2, <3>1, <3>2 DEF PairsFound
    <2>8. \A i : Succ(i)' = Succ(i) /\ NewLen(i)' = NewLen(i) /\ (Popped(i)' <=> Popped(i))
      BY <1>2, TemplateStays
    <2>9. \A w, q, n : DoneTrail(w, q, n) => DoneTrail(w, q, n)'
      BY <2>2, <2>5, <2>8 DEF DoneTrail, Follow
    <2>10. CASE phase = "scan"
      BY <1>2, <2>1, <2>3, <2>6, <2>7, <2>10, ScanNow DEF TrailInv, PairsFound
    <2>11. CASE phase = "encode"
      <3>1. EncodeTrail'
        BY <1>2, <2>1, <2>3, <2>8, <2>11, PairsStay DEF TrailInv, EncodeTrail
      <3> QED BY <1>2, <2>11, <3>1 DEF TrailInv
    <2>12. CASE phase = "pool"
      <3>1. PICK w, q : HolesApart(1) /\ ScanTrail(w, q, Asm)
        BY <2>1, <2>12 DEF TrailInv
      <3>2. PICK f : f = Asm
        OBVIOUS
      <3>3. ScanTrail(w, q, f)'
        BY <2>3, <3>1, <3>2
      <3>4. ScanTrail(w, q, Asm)'
        BY <2>2, <3>2, <3>3 DEF ScanTrail, Follow
      <3> QED BY <1>2, <2>6, <2>12, <3>1, <3>4 DEF TrailInv
    <2>13. CASE phase = "literals"
      <3>1. PICK w, q, n : n = cursor /\ HolesApart(n) /\ DoneTrail(w, q, n)
        BY <2>1, <2>13 DEF TrailInv
      <3>2. HolesApart(n)' /\ DoneTrail(w, q, n)'
        BY <2>6, <2>9, <3>1
      <3>3. HolesApart(cursor)'
        BY <1>2, <3>1, <3>2 DEF HolesApart
      <3>4. DoneTrail(w, q, cursor)'
        BY <1>2, <3>1, <3>2 DEF DoneTrail, Settled, Replaced, Holed
      <3> QED BY <1>2, <2>13, <3>3, <3>4 DEF TrailInv
    <2>14. CASE phase \in {"alloc", "run"}
      <3>1. PICK w, q : /\ DoneTrail(w, q, Len(extra) + 1)
                        /\ phase = "run" => at \in w /\ ip = q[at]
        BY <2>1, <2>14 DEF TrailInv
      <3>2. DoneTrail(w, q, Len(extra) + 1)'
        BY <1>2, <3>1, DoneStays
      <3> QED BY <1>2, <2>14, <3>1, <3>2 DEF TrailInv
    <2>15. CASE phase \in {"compile", "search", "panicked"}
      BY <1>2, <2>15, NothingNow
    <2>16. phase \in Phases
      BY DEF RunInv, JitInv, TypeOK, Phases
    <2> QED BY <2>10, <2>11, <2>12, <2>13, <2>14, <2>15, <2>16 DEF Phases
  <1> QED BY <1>1, <1>3, <1>4 DEF RunInv

-----------------------------------------------------------------------------
(* The theorem *)

(* The trail the relocator leaves is the one a run of the template and of  *)
(* the copy follows, unless one of its instructions is mistaken: from the  *)
(* first instruction of the scan (while offset < magic_offset) to the last *)
(* literal, and then wherever the processor is.                            *)
THEOREM TrailInvariant == Spec => []RunInv
  <1>1. Init => RunInv
    BY RunInitRight
  <1>2. RunInv /\ [Next]_vars => RunInv'
    BY RunCompileRight, RunSearchRight, RelocateRight, RunAllocRight, RunRunRight,
       RunStutterRight DEF Next
  <1> QED BY <1>1, <1>2, PTL DEF Spec

(* The instruction the trail has reached is the same in the copy, or loads *)
(* the same address from its literal.                                      *)
LEMMA TrailIsRun ==
    ASSUME RunInv, phase = "run", ~Mistaken
    PROVE  Same(at, ip)
  <1>1. JitInv /\ at \in 1..Asm
    BY DEF RunInv, JitInv, TypeOK
  <1>2. /\ AllPlausible
        /\ ~(mode = "thumb" /\ (newMagic - magic) % 4 # 0)
        /\ mode = "a64" => \A p \in cow.pieces : p.kind = "ldr" => ~(p.arg < 0)
    BY DEF Mistaken, AllPlausible
  <1>3. PICK n : n = Len(extra) + 1
    OBVIOUS
  <1>4. Settled(at, ip, n)
    BY <1>2, <1>3 DEF RunInv, TrailInv, DoneTrail
  <1>5. at # Asm => at \in Prologue /\ Plausible(at)
    <2>1. at # Asm => at \in Prologue
      BY <1>1, Layout DEF JitInv, Prologue, Asm
    <2> QED BY <1>2, <2>1 DEF AllPlausible
  <1>6. CASE Kept(at, ip)
    BY <1>5, <1>6 DEF Kept, Free, Same, Plausible
  <1>7. CASE Replaced(at, ip, n)
    <2>1. CASE Pairs(at) /\ Moved(at, ip)
      <3>1. template[at].op = "call" /\ ~Loads(at) /\ at # Asm
        BY <1>7, <2>1 DEF Pairs, Loads, Replaced
      <3>2. PICK p \in cow.pieces :
               p.kind = "mov" /\ p.at = ip /\ p.src = start[at] /\ p.arg = Address(at)
        BY <2>1 DEF Moved
      <3> QED BY <2>1, <3>1, <3>2 DEF Same, Gives
    <2>2. CASE ~(Pairs(at) /\ Moved(at, ip))
      <3>1. /\ UsesAddress(at) /\ template[at].op # "ldrReg" /\ Dereferenced(at, ip) /\ at # Asm
            /\ Holed(at, ip, n) \/ LoadsLiteral(at, ip)
        BY <1>7, <2>2 DEF Replaced
      <3>2. ~Holed(at, ip, n)
        <4>1. DOMAIN extra = 1..Len(extra) /\ Len(extra) \in Nat
          BY <1>1 DEF JitInv, TypeOK
        <4> QED BY <1>3, <4>1 DEF Holed
      <3>3. PICK p \in cow.pieces, l \in cow.pieces :
               /\ p.kind = "ldr" /\ p.at = ip /\ p.len = 4 /\ p.src = start[at]
               /\ l.kind = "literal" /\ l.arg = Address(at)
               /\ Linked(p, l)
        BY <3>1, <3>2 DEF LoadsLiteral
      <3>4. /\ p.at \in Nat /\ l.at \in Nat /\ p.arg \in Int
            /\ pc \in Nat /\ thunk \in Nat /\ newMagic \in Nat /\ magic \in Nat
            /\ (pc + magic) % MagicAlign[mode] = 0
            /\ (thunk + newMagic) % MagicAlign[mode] = 0
        <4>1. p.at \in Nat /\ l.at \in Nat /\ p.arg \in Int
          BY <1>1 DEF JitInv, Shaped, Buffer, Piece
        <4>2. thunk \in Nat /\ newMagic \in Nat /\ (thunk + newMagic) % MagicAlign[mode] = 0
          BY <1>1, Placed
        <4>3. magic = MagicAt /\ pc \in Nat
          BY <1>1, Layout DEF JitInv, SearchInv
        <4> QED BY <1>1, <4>1, <4>2, <4>3, MagicAtRight DEF JitInv
      <3>5. mode # "x86"
        <4>1. template[at] \in Instructions[mode] /\ mode \in Modes
          BY <1>1, <1>5, <3>1 DEF JitInv, LayoutInv, Prologue
        <4> QED BY <3>1, <4>1, ArchitectureAssumption DEF UsesAddress
      <3>6. thunk + l.at = EffectivePc(thunk + p.at) + p.arg
        <4>1. CASE mode = "a64"
          <5>1. p.arg = l.at - p.at
            BY <1>2, <3>3, <4>1 DEF Linked
          <5> QED BY <3>4, <4>1, <5>1 DEF EffectivePc
        <4>2. CASE mode # "a64"
          <5>1. mode \in {"arm", "thumb"}
            BY <1>1, <3>5, <4>2, Layout DEF JitInv
          <5>2. MagicAlign[mode] = 4
            BY <1>1, <5>1, ArchitectureAssumption DEF JitInv, LayoutInv
          <5>3. (newMagic - magic) % 4 = 0
            BY <1>2, <5>1 DEF RunInv, ArmInWords
          <5> DEFINE x == thunk + p.at
                     y == pc + p.at
          <5>4. (x - y) % 4 = 0
            <6>1. \A a, b, c \in Int : a % 4 = 0 /\ b % 4 = 0 /\ c % 4 = 0 => (a - b - c) % 4 = 0
              OBVIOUS
            <6>2. x - y = (thunk + newMagic) - (pc + magic) - (newMagic - magic)
              BY <3>4
            <6>3. /\ thunk + newMagic \in Int /\ pc + magic \in Int /\ newMagic - magic \in Int
                  /\ (thunk + newMagic) % 4 = 0 /\ (pc + magic) % 4 = 0
              BY <3>4, <5>2
            <6> QED BY <5>3, <6>1, <6>2, <6>3
          <5>5. x \in Nat /\ y \in Nat
            BY <3>4
          <5>6. EffectivePc(x) \in Nat /\ EffectivePc(y) \in Nat
            <6> HIDE DEF x, y
            <6> QED BY <5>5, EffectivePcRight
          <5>7. EffectivePc(x) - EffectivePc(y) = x - y
            <6> HIDE DEF x, y
            <6> QED BY <5>4, <5>5, EffectivePcApart
          <5>8. p.arg = (pc + l.at) - EffectivePc(y)
            BY <3>3, <4>2 DEF Linked
          <5> QED BY <3>4, <5>6, <5>7, <5>8
        <4> QED BY <4>1, <4>2
      <3>7. Gives(p, at)
        BY <3>3, <3>6 DEF Gives, Loaded
      <3>8. Loads(at) => \E d \in cow.pieces :
                            d.kind = "deref" /\ d.at = ip + p.len /\ d.src = start[at]
        BY <3>1, <3>3 DEF Dereferenced
      <3> QED BY <3>1, <3>3, <3>7, <3>8 DEF Same
    <2> QED BY <2>1, <2>2
  <1> QED BY <1>4, <1>6, <1>7 DEF Settled

(* A relocated prologue runs as it did in the template, on x86, AArch64,   *)
(* Arm and Thumb, if none of its instructions is one the relocators        *)
(* mistake: "Panics if the relocation would lead to broken code"           *)
(* (safe_jit/mod.rs 44-45).                                                *)
THEOREM CopyRunsRight == Spec => []PlausibleRunsAlike
  <1>1. RunInv => PlausibleRunsAlike
    BY TrailIsRun DEF PlausibleRunsAlike, CopyRunsAlike
  <1> QED BY <1>1, TrailInvariant, PTL

-----------------------------------------------------------------------------
(* What of Mistaken can be read off the template *)

(* In Thumb, no ADR has two bytes only.                                    *)
WordAdrs == mode = "thumb" => \A i \in Prologue : template[i].op = "adr" => template[i].len = 4

(* On AArch64, the template with a load and a literal for each instruction *)
(* is shorter than half the reach of the loads.                            *)
Near == mode = "a64" => 2 * (MagicAt + ExtraSize + 12 * Len(template)) < Reach[mode]

Ordinary == AllPlausible /\ WordAdrs /\ Near

ThumbInWords ==
    mode = "thumb" /\ WordAdrs /\ phase \notin {"compile", "search"} =>
        (newMagic - magic) % 4 = 0

(* Code grows by at most four bytes for a load put aside, and then by the  *)
(* literals.  A relocation that cannot encode a distance has found one.    *)
Growth ==
    mode = "a64" \/ (mode # "x86" /\ NeverBack) =>
        /\ phase \in {"scan", "pool", "literals"} =>
              newMagic <= magic + 4 * Len(extra) /\ Len(extra) <= Len(template)
        /\ phase = "scan" => Len(extra) < cursor
        /\ phase = "literals" => cow.len <= TemplateLen + 4 * Len(extra) + WordSize * (cursor - 1)
        /\ phase = "panicked" /\ error = "EncodingError" =>
              cow.len + 8 <= TemplateLen + 12 * Len(template)

(* On x86 there is no distance to encode.                                  *)
NoReachOnX86 == mode = "x86" /\ phase = "panicked" => error # "EncodingError"

Ahead(b) == \A p \in b.pieces : p.kind = "ldr" => 0 <= p.arg

OrdinaryInv ==
    /\ JitInv /\ ThumbInWords /\ Growth /\ NoReachOnX86
    /\ mode = "a64" /\ Near => Ahead(cow)

LEMMA OrdinaryStays ==
    ASSUME UNCHANGED templateVars
    PROVE  (WordAdrs' <=> WordAdrs) /\ (Near' <=> Near)
  BY LayoutStays DEF WordAdrs, Near, templateVars

(* Pieces appended while scanning are no loads yet.                        *)
LEMMA NotYetLoads ==
    ASSUME NEW b, Ahead(b), NEW offset, NEW kind, kind # "ldr", NEW n, NEW arg, NEW end
    PROVE  /\ Ahead(CopyUpTo(b, offset)) /\ Ahead(AppendBytes(b, offset, kind, n, arg))
           /\ Ahead(Replace(b, offset, kind, n, arg)) /\ Ahead(Ignore(b, offset, n))
           /\ Ahead(Push(b, kind, n, offset, arg)) /\ Ahead(IntoBytes(b, offset))
  <1>1. \A c, k, m, s, a : Ahead(c) /\ k # "ldr" => Ahead(Push(c, k, m, s, a))
    BY DEF Ahead, Push
  <1>2. \A c, o : Ahead(c) <=> Ahead(SkipTo(c, o))
    BY DEF Ahead, SkipTo
  <1>3. \A c, o : Ahead(c) => Ahead(CopyUpTo(c, o))
    BY <1>1, <1>2 DEF CopyUpTo
  <1>4. Ahead(AppendBytes(b, offset, kind, n, arg))
    BY <1>1, <1>3 DEF AppendBytes
  <1>5. Ahead(NewBuffer)
    BY DEF Ahead, NewBuffer
  <1> QED BY <1>1, <1>2, <1>3, <1>4, <1>5 DEF Replace, Ignore, IntoBytes

(* A literal close enough has its own distance encoded.                    *)
LEMMA NearLiteral ==
    ASSUME OrdinaryInv, A64Literal, Near, UNCHANGED <<templateVars, magic>>
    PROVE  Ahead(cow')
  <1> DEFINE put == extra[cursor]
             distance == cow.len - put.at
  <1>1. /\ phase = "literals" /\ mode = "a64" /\ cursor <= Len(extra)
        /\ IF distance >= Reach[mode]
           THEN Panic("EncodingError")
           ELSE cow' = FillHole(Push(cow, "literal", 8, TemplateLen, put.addr),
                                put.at, A64Encoded(distance))
    BY DEF A64Literal
  <1>2. /\ cursor \in DOMAIN extra /\ put.at \in Nat /\ cow.len \in Nat
        /\ cursor \in Nat /\ Len(extra) \in Nat /\ Len(template) \in Nat
        /\ magic = MagicAt /\ magic \in Nat /\ Reach["a64"] \in Nat
    <2>1. /\ extra \in Seq(Put) /\ cursor \in Nat \ {0} /\ cow.len \in Nat /\ LayoutInv
          /\ magic = MagicAt /\ magic \in Nat
      BY <1>1, Known DEF OrdinaryInv, RelocPhases
    <2>2. cursor \in DOMAIN extra /\ put.at \in Nat /\ Len(extra) \in Nat
      BY <1>1, <2>1, PutTyped
    <2>3. Len(template) \in Nat /\ mode \in Modes
      BY <2>1, Layout
    <2> HIDE DEF put
    <2> QED BY <1>1, <2>1, <2>2, <2>3, TemplateAssumption
  <1>3. 0 < distance
    <2>1. PICK p \in cow.pieces : \A k \in DOMAIN extra : extra[k].at < p.at
      BY <1>1 DEF OrdinaryInv, JitInv, LiteralsInv
    <2>2. p.at \in Nat /\ p.len \in Nat /\ p.at + p.len <= cow.len
      BY DEF OrdinaryInv, JitInv, Shaped, Buffer, Piece
    <2>3. put.at < p.at
      BY <1>2, <2>1
    <2> HIDE DEF put
    <2> QED BY <1>2, <2>2, <2>3
  <1>4. 2 * distance < Reach["a64"]
    <2>1. /\ cow.len <= TemplateLen + 4 * Len(extra) + 8 * (cursor - 1)
          /\ Len(extra) <= Len(template)
      BY <1>1 DEF OrdinaryInv, Growth, WordSize
    <2>2. TemplateLen = magic + 16
      BY <1>1 DEF TemplateLen, ExtraSize
    <2>3. 2 * (magic + 16 + 12 * Len(template)) < Reach["a64"]
      BY <1>1, <1>2 DEF Near, ExtraSize
    <2>4. cursor <= Len(template)
      BY <1>1, <1>2, <2>1
    <2> HIDE DEF put
    <2> QED BY <1>2, <2>1, <2>2, <2>3, <2>4
  <1>5. A64Encoded(distance) = distance /\ distance \in Nat
    <2>1. distance \in Nat
      <3> HIDE DEF put
      <3> QED BY <1>2, <1>3
    <2> HIDE DEF put, distance
    <2>2. distance % Reach["a64"] = distance
      <3>1. distance < Reach["a64"] /\ Reach["a64"] > 0
        BY <1>2, <1>4, <2>1
      <3> QED BY <1>2, <2>1, <3>1
    <2> QED BY <1>2, <1>4, <2>1, <2>2 DEF A64Encoded, Signed
  <1>6. CASE distance >= Reach[mode]
    BY <1>1, <1>6 DEF Panic, OrdinaryInv, relocVars
  <1>7. CASE ~(distance >= Reach[mode])
    <2>1. PICK b : b = Push(cow, "literal", 8, TemplateLen, put.addr)
      OBVIOUS
    <2>2. Ahead(b)
      BY <1>1, <2>1, NotYetLoads DEF OrdinaryInv
    <2> HIDE DEF distance, put
    <2>3. cow' = FillHole(b, put.at, distance)
      BY <1>1, <1>5, <1>7, <2>1
    <2> QED BY <1>5, <2>2, <2>3 DEF Ahead, FillHole, Filled
  <1> QED BY <1>6, <1>7

(* No other step of a relocator encodes a distance.                        *)
LEMMA AheadStays ==
    ASSUME OrdinaryInv, RelocateAArch64, Near, mode = "a64"
    PROVE  Ahead(cow')
  <1>1. Ahead(cow)
    BY DEF OrdinaryInv
  <1>2. UNCHANGED <<templateVars, magic>>
    BY DEF RelocateAArch64
  <1>3. CASE A64ReachAsm
    BY <1>1, <1>3, NotYetLoads DEF A64ReachAsm, Return, relocVars
  <1>4. CASE A64Ldr
    <2>1. PICK room : room = AppendBytes(cow, start[cursor], "hole", 4, 0)
                      /\ cow' = Replace(room, start[cursor], "deref", 4, 0)
      BY <1>4 DEF A64Ldr
    <2>2. Ahead(room)
      BY <1>1, <2>1, NotYetLoads
    <2> QED BY <2>1, <2>2, NotYetLoads
  <1>5. CASE A64Adr
    BY <1>1, <1>5, NotYetLoads DEF A64Adr
  <1>6. CASE A64Branch
    BY <1>1, <1>6 DEF A64Branch, Goto, Panic, relocVars
  <1>7. CASE A64Other
    <2>1. cow' = cow
      BY <1>7, OtherGoes DEF Goto, Panic, relocVars
    <2> QED BY <1>1, <2>1
  <1>8. CASE A64Pool
    <2>1. cow' = CopyUpTo(cow, TemplateLen)
          \/ cow' = Push(CopyUpTo(cow, TemplateLen), "pad", 4, TemplateLen, 0)
      BY <1>8 DEF A64Pool
    <2>2. PICK whole : whole = CopyUpTo(cow, TemplateLen) /\ Ahead(whole)
      BY <1>1, NotYetLoads
    <2> QED BY <2>1, <2>2, NotYetLoads
  <1>9. CASE A64Literal
    BY <1>2, <1>9, NearLiteral
  <1>10. CASE A64Finish
    BY <1>1, <1>10, NotYetLoads DEF A64Finish, Return
  <1> QED BY <1>3, <1>4, <1>5, <1>6, <1>7, <1>8, <1>9, <1>10 DEF RelocateAArch64

LEMMA GrowthKnown ==
    ASSUME JitInv, Static, phase \in RelocPhases, mode # "x86"
    PROVE  /\ UNCHANGED <<magic, mode, template>> /\ (NeverBack' <=> NeverBack)
           /\ TemplateLen' = TemplateLen /\ WordSize' = WordSize /\ WordSize \in {4, 8}
           /\ Len(template) \in Nat /\ Asm = Len(template) + 1
           /\ newMagic \in Nat /\ magic \in Nat /\ cursor \in Nat \ {0} /\ extra \in Seq(Put)
           /\ Len(extra) \in Nat /\ cow.len \in Nat /\ TemplateLen \in Nat
  <1>1. /\ UNCHANGED <<magic, mode, template>> /\ (NeverBack' <=> NeverBack)
        /\ TemplateLen' = TemplateLen /\ WordSize' = WordSize
    BY LayoutStays DEF Static, templateVars, TemplateLen
  <1>2. Len(template) \in Nat /\ Asm = Len(template) + 1
    BY Layout DEF JitInv, Asm
  <1>3. /\ newMagic \in Nat /\ magic \in Nat /\ cursor \in Nat \ {0} /\ extra \in Seq(Put)
        /\ cow.len \in Nat /\ TemplateLen \in Nat
    BY Known
  <1>4. Len(extra) \in Nat
    BY <1>3, PutTyped
  <1>5. WordSize \in {4, 8}
    BY DEF WordSize
  <1> QED BY <1>1, <1>2, <1>3, <1>4, <1>5

LEMMA ScanBefore ==
    ASSUME JitInv, phase = "scan", cursor # Asm
    PROVE  cursor < Asm
  BY Layout DEF JitInv, ScanInv

LEMMA GrowthGoto ==
    ASSUME JitInv, Growth, Static, phase = "scan", mode # "x86", NEW i, Goto(i),
           mode = "a64" \/ NeverBack => i \in Nat /\ cursor < i
    PROVE  Growth'
  <1>1. phase' = "scan" /\ cursor' = i /\ UNCHANGED <<newMagic, extra>>
    BY DEF Goto
  <1> QED BY <1>1, GrowthKnown DEF Growth, RelocPhases

LEMMA GrowthPanic ==
    ASSUME JitInv, Growth, Static, phase \in RelocPhases, NEW e, Panic(e), e # "EncodingError"
    PROVE  Growth'
  BY DEF Growth, Panic

LEMMA GrowthReturn ==
    ASSUME phase' = "alloc"
    PROVE  Growth'
  BY DEF Growth

LEMMA GrowthLoad ==
    ASSUME JitInv, Growth, Static, phase = "scan", mode # "x86", cursor < Asm,
           UNCHANGED phase, cursor' = cursor + 1, NEW n, NEW a, extra' = PutAside(n, a),
           newMagic' \in Int, newMagic' <= newMagic + 4
    PROVE  Growth'
  <1>1. Len(extra') = Len(extra) + 1
    BY GrowthKnown DEF PutAside, RelocPhases
  <1> QED BY <1>1, GrowthKnown DEF Growth, RelocPhases

LEMMA GrowthReachAsm ==
    ASSUME JitInv, Growth, Static, phase = "scan", mode # "x86",
           IF extra = <<>>
           THEN Return(cow, newMagic)
           ELSE phase' = "pool" /\ UNCHANGED <<error, relocVars>>
    PROVE  Growth'
  <1>1. CASE phase' = "alloc"
    BY <1>1, GrowthReturn
  <1>2. CASE phase' = "pool" /\ UNCHANGED relocVars
    <2>1. newMagic' = newMagic /\ extra' = extra
      BY <1>2 DEF relocVars
    <2> QED BY <1>2, <2>1, GrowthKnown DEF Growth, RelocPhases
  <1> QED BY <1>1, <1>2 DEF Return

LEMMA GrowthPool ==
    ASSUME JitInv, Growth, Static, phase = "pool", mode # "x86",
           cow' = CopyUpTo(cow, TemplateLen), phase' = "literals", cursor' = 1,
           UNCHANGED <<newMagic, extra>>
    PROVE  Growth'
  <1>1. newMagic = magic + cow.len - cow.copied /\ cow.copied <= TemplateLen
        /\ cow.copied \in Nat /\ Shaped(cow)
    BY Known DEF JitInv, PoolInv, InStep, RelocPhases
  <1>2. cow'.len = cow.len + TemplateLen - cow.copied
    BY <1>1, CopyUpToRight, GrowthKnown DEF RelocPhases
  <1>3. cow'.len = TemplateLen + newMagic - magic /\ cow'.len \in Int
    BY <1>1, <1>2, GrowthKnown DEF RelocPhases
  <1>4. WordSize' * (cursor' - 1) = 0
    BY GrowthKnown DEF RelocPhases
  <1> QED BY <1>3, <1>4, GrowthKnown DEF Growth, RelocPhases

LEMMA GrowthLiteral ==
    ASSUME JitInv, Growth, Static, phase = "literals", mode # "x86", cursor <= Len(extra),
           \/ Panic("EncodingError")
           \/ /\ cow'.len = cow.len + WordSize /\ cursor' = cursor + 1
              /\ UNCHANGED <<phase, newMagic, extra>>
    PROVE  Growth'
  <1> SUFFICES ASSUME mode = "a64" \/ NeverBack
               PROVE  Growth'
    BY GrowthKnown DEF Growth, RelocPhases
  <1>1. /\ cow.len <= TemplateLen + 4 * Len(extra) + WordSize * (cursor - 1)
        /\ newMagic <= magic + 4 * Len(extra) /\ Len(extra) <= Len(template)
    BY DEF Growth
  <1>2. CASE Panic("EncodingError")
    <2>1. cow.len + 8 <= TemplateLen + 12 * Len(template)
      <3>1. CASE WordSize = 4
        <4>1. cow.len <= TemplateLen + 4 * Len(extra) + 4 * (cursor - 1) /\ 1 <= cursor
          BY <1>1, <3>1, GrowthKnown DEF RelocPhases
        <4> QED BY <1>1, <4>1, GrowthKnown DEF RelocPhases
      <3>2. CASE WordSize = 8
        BY <1>1, <3>2, GrowthKnown DEF RelocPhases
      <3> QED BY <3>1, <3>2, GrowthKnown DEF RelocPhases
    <2>2. phase' = "panicked" /\ cow' = cow
      BY <1>2 DEF Panic, relocVars
    <2> QED BY <2>1, <2>2, GrowthKnown DEF Growth, RelocPhases
  <1>3. CASE cow'.len = cow.len + WordSize /\ cursor' = cursor + 1
             /\ UNCHANGED <<phase, newMagic, extra>>
    <2>1. cow'.len <= TemplateLen + 4 * Len(extra) + WordSize * (cursor' - 1)
      <3>1. \A w \in {4, 8} : \A c \in Nat : w * ((c + 1) - 1) = w * (c - 1) + w
        OBVIOUS
      <3>2. WordSize * ((cursor + 1) - 1) = WordSize * (cursor - 1) + WordSize
        BY <3>1, GrowthKnown DEF RelocPhases
      <3> DEFINE w == WordSize * (cursor - 1)
                 u == WordSize * ((cursor + 1) - 1)
      <3>3. w \in Int /\ u = w + WordSize
        BY <3>2, GrowthKnown DEF RelocPhases
      <3>4. cow.len <= TemplateLen + 4 * Len(extra) + w
        BY <1>1
      <3> HIDE DEF w, u
      <3>5. cow'.len <= TemplateLen + 4 * Len(extra) + u
        <4>1. /\ cow.len \in Nat /\ TemplateLen \in Nat /\ Len(extra) \in Nat
              /\ WordSize \in {4, 8} /\ cow'.len = cow.len + WordSize
          BY <1>3, GrowthKnown DEF RelocPhases
        <4> QED BY ONLY <3>3, <3>4, <4>1
      <3> QED BY <1>3, <3>5 DEF u
    <2> QED BY <1>1, <1>3, <2>1, GrowthKnown DEF Growth, RelocPhases
  <1> QED BY <1>2, <1>3

LEMMA GrowthA64 ==
    ASSUME JitInv, Growth, Static, RelocateAArch64, mode = "a64"
    PROVE  Growth'
  <1>1. CASE A64ReachAsm
    BY <1>1, GrowthReachAsm DEF A64ReachAsm, Scanning
  <1>2. CASE A64Ldr \/ A64Adr
    <2>1. /\ phase = "scan" /\ phase' = phase /\ cursor' = cursor + 1
          /\ \E n, a : extra' = PutAside(n, a)
          /\ newMagic' \in {newMagic, newMagic + 4} /\ ~A64AtAsm
      BY <1>2 DEF A64Ldr, A64Adr, Scanning
    <2>2. cursor < Asm
      BY <2>1, ScanBefore DEF A64AtAsm
    <2>3. newMagic \in Nat
      BY <2>1, Known DEF RelocPhases
    <2> QED BY <2>1, <2>2, <2>3, GrowthLoad
  <1>3. CASE A64Branch
    <2>1. phase = "scan"
      BY <1>3 DEF A64Branch, Scanning
    <2>2. CASE Follows(cursor)
      <3>1. template[cursor].to \in Nat /\ cursor < template[cursor].to
        BY <2>2, GrowthKnown, <2>1 DEF Follows, Inside, RelocPhases
      <3> QED BY <1>3, <2>1, <2>2, <3>1, GrowthGoto DEF A64Branch
    <2>3. CASE ~Follows(cursor)
      BY <1>3, <2>1, <2>3, GrowthPanic DEF A64Branch, RelocPhases
    <2> QED BY <2>2, <2>3
  <1>4. CASE A64Other
    <2>1. phase = "scan"
      BY <1>4 DEF A64Other, Scanning
    <2>2. cursor + 1 \in Nat /\ cursor < cursor + 1
      BY <2>1, GrowthKnown DEF RelocPhases
    <2> QED BY <1>4, <2>1, <2>2, OtherGoes, GrowthGoto, GrowthPanic DEF RelocPhases
  <1>5. CASE A64Pool
    <2>1. phase = "pool" /\ phase' = "literals" /\ cursor' = 1 /\ UNCHANGED <<newMagic, extra>>
      BY <1>5 DEF A64Pool
    <2>2. WordSize = 8
      BY DEF WordSize
    <2>3. cow' = CopyUpTo(cow, TemplateLen)
      BY <1>5, <2>1, <2>2, PoolAligned DEF A64Pool
    <2> QED BY <2>1, <2>3, GrowthPool
  <1>6. CASE A64Literal
    <2>1. /\ phase = "literals" /\ cursor <= Len(extra)
          /\ \/ Panic("EncodingError")
             \/ /\ \E l, p, d : cow' = FillHole(Push(cow, "literal", 8, TemplateLen, l), p, d)
                /\ cursor' = cursor + 1
                /\ UNCHANGED <<phase, newMagic, extra>>
      BY <1>6 DEF A64Literal
    <2>2. WordSize = 8
      BY DEF WordSize
    <2>3. \A l, p, d : FillHole(Push(cow, "literal", 8, TemplateLen, l), p, d).len = cow.len + 8
      BY DEF FillHole, Push
    <2> QED BY <2>1, <2>2, <2>3, GrowthLiteral
  <1>7. CASE A64Finish
    BY <1>7, GrowthReturn DEF A64Finish, Return
  <1> QED BY <1>1, <1>2, <1>3, <1>4, <1>5, <1>6, <1>7 DEF RelocateAArch64

LEMMA GrowthArm ==
    ASSUME JitInv, Growth, Static, RelocateArm, mode \in {"arm", "thumb"}
    PROVE  Growth'
  <1>1. CASE ArmReachAsm
    BY <1>1, GrowthReachAsm DEF ArmReachAsm, ScanningArm
  <1>2. CASE ArmBranch \/ ArmPlain
    <2>1. phase = "scan" /\ cursor < Asm
      BY <1>2 DEF ArmBranch, ArmPlain, ScanningArm
    <2>2. cursor \in Prologue /\ cursor \in Nat
      BY <2>1, AtInstruction
    <2>3. cursor + 1 \in Nat /\ cursor < cursor + 1
      BY <2>2
    <2>4. CASE Goto(cursor + 1)
      BY <2>1, <2>3, <2>4, GrowthGoto
    <2>5. CASE ArmBranch /\ Inside(cursor) /\ Goto(template[cursor].to)
      <3>1. template[cursor].to \in Nat
        BY <2>1, <2>5, GrowthKnown DEF Inside, RelocPhases
      <3>2. NeverBack => cursor < template[cursor].to
        BY <2>2, <2>5 DEF NeverBack, ArmBranch, Current
      <3> QED BY <2>1, <2>5, <3>1, <3>2, GrowthGoto
    <2> QED BY <1>2, <2>4, <2>5 DEF ArmBranch, ArmPlain, Current
  <1>3. CASE ArmUnsupported \/ ArmInvalid \/ ArmOutOfOrder
    <2>1. /\ phase = "scan"
          /\ Panic("UnsupportedInstruction") \/ Panic("NoThunkAsm") \/ Panic("Slice")
      BY <1>3 DEF ArmUnsupported, ArmInvalid, ArmOutOfOrder, ScanningArm
    <2> QED BY <2>1, GrowthPanic DEF RelocPhases
  <1>4. CASE ArmAdr \/ ArmLoad
    <2>1. /\ phase = "scan" /\ phase' = phase /\ cursor' = cursor + 1
          /\ \E n, a : extra' = PutAside(n, a)
          /\ \/ newMagic' = newMagic + 4 - template[cursor].len
             \/ newMagic' = newMagic + 4
          /\ cursor < Asm \/ ~ArmAtAsm
      BY <1>4 DEF ArmAdr, ArmLoad, ScanningArm, Current
    <2>2. cursor < Asm
      BY <2>1, ScanBefore DEF ArmAtAsm
    <2>3. newMagic \in Nat /\ template[cursor].len \in Nat
      BY <2>1, <2>2, Known, AtInstruction DEF RelocPhases
    <2>4. newMagic' \in Int /\ newMagic' <= newMagic + 4
      BY <2>1, <2>3
    <2> QED BY <2>1, <2>2, <2>4, GrowthLoad
  <1>5. CASE ArmPool
    <2>1. phase = "pool" /\ phase' = "literals" /\ cursor' = 1 /\ UNCHANGED <<newMagic, extra>>
      BY <1>5 DEF ArmPool
    <2>2. WordSize = 4
      BY DEF WordSize
    <2>3. cow' = CopyUpTo(cow, TemplateLen)
      BY <1>5, <2>1, <2>2, PoolAligned DEF ArmPool
    <2> QED BY <2>1, <2>3, GrowthPool
  <1>6. CASE ArmLiteral
    <2>1. /\ phase = "literals" /\ cursor <= Len(extra)
          /\ \/ Panic("EncodingError")
             \/ /\ \E l, p, d : cow' = FillHole(Push(cow, "literal", 4, TemplateLen, l), p, d)
                /\ cursor' = cursor + 1
                /\ UNCHANGED <<phase, newMagic, extra>>
      BY <1>6 DEF ArmLiteral
    <2>2. WordSize = 4
      BY DEF WordSize
    <2>3. \A l, p, d : FillHole(Push(cow, "literal", 4, TemplateLen, l), p, d).len = cow.len + 4
      BY DEF FillHole, Push
    <2> QED BY <2>1, <2>2, <2>3, GrowthLiteral
  <1>7. CASE ArmFinish
    BY <1>7, GrowthReturn DEF ArmFinish, Return
  <1> QED BY <1>1, <1>2, <1>3, <1>4, <1>5, <1>6, <1>7 DEF RelocateArm

LEMMA GrowthStays ==
    ASSUME JitInv, Growth, Relocate
    PROVE  Growth'
  <1>1. Static
    BY DEF Relocate, RelocateX86, RelocateAArch64, RelocateArm, Static
  <1>2. mode' = mode /\ mode \in {"x86", "a64", "arm", "thumb"}
    BY <1>1, Layout DEF Static, templateVars, JitInv
  <1>3. CASE mode = "x86"
    BY <1>2, <1>3 DEF Growth
  <1>4. CASE mode = "a64"
    BY <1>1, <1>4, OwnRelocator, GrowthA64
  <1>5. CASE mode \in {"arm", "thumb"}
    BY <1>1, <1>5, OwnRelocator, GrowthArm
  <1> QED BY <1>2, <1>3, <1>4, <1>5

LEMMA OrdinaryRelocate ==
    ASSUME OrdinaryInv, JitInv', Relocate
    PROVE  OrdinaryInv'
  <1>1. JitInv /\ UNCHANGED templateVars /\ UNCHANGED <<mode, template, magic>>
    BY DEF OrdinaryInv, Relocate, RelocateX86, RelocateAArch64, RelocateArm, templateVars
  <1>2. Prologue' = Prologue
    BY <1>1, LayoutStays
  <1>3. ThumbInWords'
    <2> SUFFICES ASSUME mode = "thumb", WordAdrs
                 PROVE  (newMagic' - magic) % 4 = 0
      BY <1>1, OrdinaryStays DEF ThumbInWords
    <2>1. RelocateArm
      BY <1>1, OwnRelocator
    <2>2. phase \in RelocPhases
      BY <2>1 DEF RelocateArm, ArmReachAsm, ArmBranch, ArmPlain, ArmUnsupported, ArmInvalid,
             ArmOutOfOrder, ArmAdr, ArmLoad, ArmPool, ArmLiteral, ArmFinish, ScanningArm,
             RelocPhases
    <2>3. (newMagic - magic) % 4 = 0 /\ newMagic \in Nat /\ magic \in Nat
      BY <1>1, <2>2, Known DEF OrdinaryInv, ThumbInWords, RelocPhases
    <2>4. newMagic' = newMagic \/ newMagic' = newMagic + 4
      BY <1>1, MovesByWords DEF WordAdrs
    <2> QED BY <2>3, <2>4
  <1>4. Growth'
    BY GrowthStays DEF OrdinaryInv
  <1>6. NoReachOnX86'
    <2> SUFFICES ASSUME mode = "x86", phase' = "panicked"
                 PROVE  error' # "EncodingError"
      BY <1>1 DEF NoReachOnX86
    <2>1. RelocateX86
      BY <1>1, OwnRelocator
    <2> QED BY <2>1 DEF OrdinaryInv, RelocateX86, X86Invalid, X86Next, X86CallPop, X86Unsupported,
                        X86ReachAsm, X86Encode, X86Finish, Scanning, Panic, Goto, Return
  <1>5. (mode = "a64" /\ Near => Ahead(cow))'
    BY <1>1, OrdinaryStays, OwnRelocator, AheadStays DEF OrdinaryInv, Ahead
  <1> QED BY <1>3, <1>4, <1>5, <1>6 DEF OrdinaryInv

LEMMA OrdinaryOtherwise ==
    ASSUME OrdinaryInv, JitInv',
           Compile \/ BeginSearch \/ SearchMagic \/ AllocThunk \/ Run \/ UNCHANGED vars
    PROVE  OrdinaryInv'
  <1>1. CASE Compile \/ BeginSearch \/ SearchMagic
    <2>1. /\ JitInv /\ phase \in {"compile", "search"} /\ cow = NewBuffer /\ extra = <<>>
          /\ cow' = cow /\ extra' = extra /\ cursor = 1 /\ cursor' = cursor
      BY <1>1 DEF OrdinaryInv, JitInv, SearchInv, Compile, BeginSearch, SearchMagic, relocVars
    <2>2. phase' \in {"compile", "search"} \/ (phase' = "scan" /\ newMagic' = magic')
      <3>1. Compile \/ BeginSearch => phase' \in {"compile", "search"}
        BY <2>1 DEF Compile, BeginSearch
      <3>2. SearchMagic => phase' = "search" \/ (phase' = "scan" /\ newMagic' = magic')
        BY DEF SearchMagic
      <3> QED BY <1>1, <3>1, <3>2
    <2>3. Ahead(cow')
      BY <2>1 DEF Ahead, NewBuffer
    <2>4. \A m \in Nat : m - m = 0 /\ m <= m + 4 * 0
      OBVIOUS
    <2>5. CASE phase' \in {"compile", "search"}
      BY <2>3, <2>5 DEF OrdinaryInv, ThumbInWords, Growth, NoReachOnX86
    <2>6. CASE phase' = "scan" /\ newMagic' = magic'
      <3>1. /\ newMagic' - magic' = 0 /\ newMagic' <= magic' + 4 * 0
            /\ Len(extra') = 0 /\ cursor' = 1
        <4>1. extra' = <<>> /\ cursor' = 1
          BY <2>1
        <4>2. newMagic' - magic' = 0 /\ newMagic' <= magic' + 4 * 0
          BY <2>4, <2>6 DEF JitInv, TypeOK
        <4>3. Len(extra') = 0
          BY <4>1
        <4> QED BY <4>1, <4>2, <4>3
      <3>2. ThumbInWords'
        BY <3>1 DEF ThumbInWords
      <3>3. Growth'
        <4>1. Len(template)' \in Nat
          BY DEF JitInv, TypeOK
        <4> QED BY <2>6, <3>1, <4>1 DEF Growth
      <3> QED BY <2>3, <2>6, <3>2, <3>3 DEF OrdinaryInv, NoReachOnX86
    <2> QED BY <2>2, <2>5, <2>6
  <1>2. CASE AllocThunk \/ Run \/ UNCHANGED vars
    <2>1. /\ UNCHANGED templateVars
          /\ UNCHANGED <<mode, template, error, magic, newMagic, cursor, extra, cow>>
          /\ phase' = phase \/ (phase = "alloc" /\ phase' = "run")
      <3>1. AllocThunk \/ Run => UNCHANGED <<templateVars, error, magic, relocVars>>
        BY DEF AllocThunk, Run
      <3>2. UNCHANGED vars => UNCHANGED <<templateVars, error, magic, relocVars, phase>>
        BY DEF vars
      <3>3. AllocThunk \/ Run => phase' = phase \/ (phase = "alloc" /\ phase' = "run")
        BY DEF AllocThunk, Run
      <3> QED BY <1>2, <3>1, <3>2, <3>3 DEF templateVars, relocVars
    <2>2. TemplateLen' = TemplateLen /\ (NeverBack' <=> NeverBack)
      BY <2>1, LayoutStays DEF TemplateLen, ExtraSize
    <2>3. Growth'
      <3>1. CASE phase' = phase
        BY <2>1, <2>2, <3>1 DEF OrdinaryInv, Growth, WordSize
      <3>2. CASE phase' = "run"
        BY <3>2 DEF Growth
      <3> QED BY <2>1, <3>1, <3>2
    <2>4. ThumbInWords' /\ NoReachOnX86' /\ (mode = "a64" /\ Near => Ahead(cow))'
      BY <2>1, OrdinaryStays DEF OrdinaryInv, ThumbInWords, NoReachOnX86, Ahead
    <2> QED BY <2>3, <2>4 DEF OrdinaryInv
  <1> QED BY <1>1, <1>2

(* What the growth of the copy and its literals is bounded by.             *)
THEOREM OrdinaryInvariant == Spec => []OrdinaryInv
  <1>1. Init => OrdinaryInv
    BY InitRight DEF Init, OrdinaryInv, ThumbInWords, Growth, NoReachOnX86, Ahead, NewBuffer
  <1>2. JitInv /\ JitInv' /\ OrdinaryInv /\ [Next]_vars => OrdinaryInv'
    BY OrdinaryRelocate, OrdinaryOtherwise DEF Next
  <1> QED BY <1>1, <1>2, JitInvariant, PTL DEF Spec

(* Whether a prologue survives relocation can be read off it: one whose    *)
(* instructions are not mistaken runs as it did wherever it is put, if no  *)
(* ADR of Thumb is short and, on AArch64, thunk and literals have less     *)
(* than half the reach of a load, a megabyte (arm.rs 131, aarch64.rs 102). *)
THEOREM OrdinaryRunsRight == Spec => [](Ordinary => CopyRunsAlike)
  <1>1. RunInv /\ OrdinaryInv => (Ordinary => CopyRunsAlike)
    <2> SUFFICES ASSUME RunInv, OrdinaryInv, Ordinary, phase = "run"
                 PROVE  Same(at, ip)
      BY DEF CopyRunsAlike
    <2>1. mode = "a64" => \A p \in cow.pieces : p.kind = "ldr" => ~(p.arg < 0)
      <3>1. \A p \in cow.pieces : p.arg \in Int
        BY DEF RunInv, JitInv, Shaped, Buffer, Piece
      <3> QED BY <3>1 DEF OrdinaryInv, Ordinary, Ahead
    <2>2. ~Mistaken
      BY <2>1 DEF Mistaken, Ordinary, OrdinaryInv, ThumbInWords, AllPlausible
    <2> QED BY <2>2, TrailIsRun
  <1> QED BY <1>1, TrailInvariant, OrdinaryInvariant, PTL

(* A prologue of supported instructions is never refused, whatever their   *)
(* order and number, as long as loads reach behind the thunk.  As its      *)
(* relocation is short, AllocatedThunk::new returns it (arch.rs 229-247,   *)
(* safe_jit/mod.rs 44-45).                                                 *)
THEOREM SupportedNeverPanics == Spec => []SupportedRelocated
  <1>1. OrdinaryInv => SupportedRelocated
    <2> SUFFICES ASSUME OrdinaryInv, Supported, phase = "panicked"
                 PROVE  FALSE
      BY DEF SupportedRelocated
    <2>1. JitInv /\ error = "EncodingError" /\ cow.len + 8 > Reach[mode]
      BY DEF OrdinaryInv, JitInv, PanicsExplained, Supported
    <2>2. mode # "x86"
      BY <2>1 DEF OrdinaryInv, NoReachOnX86
    <2>3. NeverBack
      <3>1. \A i \in Prologue : i \in Nat /\ template[i].to \in Nat
        BY <2>1, Layout DEF JitInv, Instruction
      <3> QED BY <3>1 DEF Supported, GivenUp, Misjudged, Unsupported, NeverBack
    <2>4. cow.len + 8 <= TemplateLen + 12 * Len(template)
      BY <2>1, <2>2, <2>3 DEF OrdinaryInv, Growth
    <2>5. TemplateLen = MagicAt + ExtraSize
      BY <2>1 DEF JitInv, SearchInv, TemplateLen
    <2>6. MagicAt + ExtraSize + 12 * Len(template) <= Reach[mode]
      BY <2>2 DEF Supported, Reaching
    <2>7. /\ MagicAt \in Nat /\ ExtraSize \in Nat /\ Len(template) \in Nat /\ cow.len \in Nat
          /\ Reach[mode] \in Nat
      BY <2>1, Layout, MagicAtRight, TemplateAssumption DEF JitInv, ExtraSize, Shaped, Buffer
    <2> QED BY <2>1, <2>4, <2>5, <2>6, <2>7
  <1> QED BY <1>1, OrdinaryInvariant, PTL
=============================================================================
