-------------------------- MODULE BareClosureProofs --------------------------
(***************************************************************************)
(* Proofs about BareClosure for any threads, wrappers and blocks.          *)
(***************************************************************************)
EXTENDS BareClosureInv, TLAPS

USE ClosuresAssumption, DepthAssumption, DistinctAssumption

-----------------------------------------------------------------------------
(* Frames pushed and popped. *)

(* Entering adds one frame in front of those the thread has.               *)
LEMMA PushFrame ==
    ASSUME NEW s \in Seq(Frame), NEW fr \in Frame
    PROVE  /\ <<fr>> \o s \in Seq(Frame)
           /\ Len(<<fr>> \o s) = Len(s) + 1
           /\ \A i \in 1..Len(<<fr>> \o s) :
                 (<<fr>> \o s)[i] = IF i = 1 THEN fr ELSE s[i - 1]
  OBVIOUS

(* Leaving removes the first one.                                          *)
LEMMA PopFrame ==
    ASSUME NEW s \in Seq(Frame), s # <<>>
    PROVE  /\ Head(s) = s[1]
           /\ Head(s) \in Frame
           /\ Tail(s) \in Seq(Frame)
           /\ Len(Tail(s)) = Len(s) - 1
           /\ Len(s) > 0
           /\ \A i \in 1..Len(Tail(s)) : Tail(s)[i] = s[i + 1]
  OBVIOUS

(* The frames a thread is inside after a step, in terms of those before.   *)
LEMMA EnterFrames ==
    ASSUME TypeOK, NEW t \in Threads, NEW fr \in Frame, Enter(t, fr)
    PROVE  /\ stack' \in [Threads -> Seq(Frame)]
           /\ \A u \in Threads : Frames(u)' = Frames(u) \cup (IF u = t THEN {fr} ELSE {})
  <1>1. stack[t] \in Seq(Frame) /\ stack' = [stack EXCEPT ![t] = <<fr>> \o stack[t]]
    BY DEF TypeOK, Enter
  <1>2. <<fr>> \o stack[t] \in Seq(Frame)
    BY <1>1, PushFrame
  <1>3. stack' \in [Threads -> Seq(Frame)]
    BY <1>1, <1>2 DEF TypeOK
  <1>4. ASSUME NEW u \in Threads, u # t PROVE Frames(u)' = Frames(u)
    BY <1>1, <1>4 DEF TypeOK, Frames
  <1>5. Frames(t)' = Frames(t) \cup {fr}
    <2>1. stack'[t] = <<fr>> \o stack[t]
      BY <1>1 DEF TypeOK
    <2>2. Frames(t)' = {(<<fr>> \o stack[t])[i] : i \in 1..Len(<<fr>> \o stack[t])}
      BY <2>1 DEF Frames
    <2>3. Len(stack[t]) \in Nat
      BY <1>1
    <2>4. ASSUME NEW x \in Frames(t) \cup {fr} PROVE x \in Frames(t)'
      <3>1. CASE x = fr
        BY <3>1, <2>2, <2>3, <1>1, PushFrame
      <3>2. CASE x \in Frames(t)
        <4>1. PICK i \in 1..Len(stack[t]) : x = stack[t][i]
          BY <3>2 DEF Frames
        <4>2. i + 1 \in 1..Len(<<fr>> \o stack[t]) /\ i + 1 # 1 /\ (i + 1) - 1 = i
          BY <4>1, <2>3, <1>1, PushFrame
        <4>3. (<<fr>> \o stack[t])[i + 1] = stack[t][i]
          BY <4>2, <1>1, PushFrame
        <4> QED BY <4>1, <4>2, <4>3, <2>2
      <3> QED BY <2>4, <3>1, <3>2
    <2>5. ASSUME NEW x \in Frames(t)' PROVE x \in Frames(t) \cup {fr}
      <3>1. PICK i \in 1..Len(<<fr>> \o stack[t]) : x = (<<fr>> \o stack[t])[i]
        BY <2>2, <2>5
      <3>2. CASE i = 1
        BY <3>1, <3>2, <1>1, PushFrame
      <3>3. CASE i # 1
        <4>1. i - 1 \in 1..Len(stack[t]) /\ x = stack[t][i - 1]
          BY <3>1, <3>3, <2>3, <1>1, PushFrame
        <4> QED BY <4>1 DEF Frames
      <3> QED BY <3>2, <3>3
    <2> QED BY <2>4, <2>5
  <1> QED BY <1>3, <1>4, <1>5

(* Leaving takes one frame away and adds none.                             *)
LEMMA LeaveFrames ==
    ASSUME TypeOK, NEW t \in Threads, NEW op, NEW w, Leave(t, op, w)
    PROVE  /\ stack' \in [Threads -> Seq(Frame)]
           /\ \A u \in Threads : Frames(u)' \subseteq Frames(u)
           /\ Head(stack[t]) \in Frames(t)
           /\ Head(stack[t]).op = op /\ Head(stack[t]).w = w
  <1>1. /\ stack[t] \in Seq(Frame) /\ stack[t] # <<>>
        /\ stack' = [stack EXCEPT ![t] = Tail(stack[t])]
        /\ Head(stack[t]).op = op /\ Head(stack[t]).w = w
    BY DEF TypeOK, Leave
  <1>2. Tail(stack[t]) \in Seq(Frame) /\ Len(stack[t]) \in Nat \ {0} /\ Head(stack[t]) = stack[t][1]
    BY <1>1, PopFrame
  <1>3. stack' \in [Threads -> Seq(Frame)]
    BY <1>1, <1>2 DEF TypeOK
  <1>4. Head(stack[t]) \in Frames(t)
    BY <1>2 DEF Frames
  <1>5. ASSUME NEW u \in Threads, NEW x \in Frames(u)' PROVE x \in Frames(u)
    <2>1. CASE u # t
      BY <1>1, <1>5, <2>1 DEF TypeOK, Frames
    <2>2. CASE u = t
      <3>1. PICK i \in 1..Len(Tail(stack[t])) : x = Tail(stack[t])[i]
        BY <1>1, <1>5, <2>2 DEF TypeOK, Frames
      <3>2. i + 1 \in 1..Len(stack[t]) /\ x = stack[t][i + 1]
        BY <3>1, <1>1, <1>2, PopFrame
      <3> QED BY <3>2, <2>2 DEF Frames
    <2> QED BY <2>1, <2>2
  <1> QED BY <1>1, <1>3, <1>4, <1>5

-----------------------------------------------------------------------------
(* Type correctness. *)

(* The initial values have their types.                                    *)
LEMMA TypeInit == Init => TypeOK
  <1> SUFFICES ASSUME Init PROVE TypeOK
    OBVIOUS
  <1>1. stack \in [Threads -> Seq(Frame)]
    BY DEF Init
  <1> QED BY <1>1 DEF Init, TypeOK, Phases, Code

(* A call needs to know that the wrapper has a block: BlockOf.             *)
LEMMA TypeStep ==
    TypeOK /\ (\A w \in Wrappers : BlockOf(w)) /\ [Next]_vars => TypeOK'
  <1> SUFFICES ASSUME TypeOK, \A w \in Wrappers : BlockOf(w), [Next]_vars PROVE TypeOK'
    OBVIOUS
  <1> USE DEF wrapperVars, threadVars, memoryVars, threadSafetyVars
  <1>1. ASSUME NEW t \in Threads, NEW w \in Wrappers, Construct(t, w) PROVE TypeOK'
    <2> USE DEF Phases, ConstructionPhases, Published
    <2>1. CASE UseTemplate(t, w)
      BY <2>1 DEF UseTemplate, TypeOK
    <2>2. CASE Relocate(t, w)
      BY <2>2 DEF Relocate, TypeOK
    <2>3. CASE Fail(t, w)
      BY <2>3 DEF Fail, TypeOK
    <2>4. ASSUME NEW b \in Blocks, Alloc(t, w, b) PROVE TypeOK'
      BY <2>4 DEF Alloc, TypeOK
    <2>5. CASE ProtectReadWrite(t, w)
      BY <2>5 DEF ProtectReadWrite, ProtectJitMemory, TypeOK
    <2>6. CASE CopyTemplate(t, w)
      <3>1. code' \in [Blocks -> Code]
        BY <2>6 DEF CopyTemplate, TypeOK, Code
      <3> QED BY <3>1, <2>6 DEF CopyTemplate, TypeOK
    <2>7. CASE WriteClosurePtr(t, w)
      <3> DEFINE new == [template |-> code[block[w]].template, closure |-> w, return |-> code[block[w]].return]
      <3>1. block[w] \in Blocks
        BY <2>7 DEF WriteClosurePtr, BlockOf, Holding, Writing
      <3>2. code[block[w]] \in Code
        BY <3>1 DEF TypeOK
      <3>3. new \in Code
        BY <3>2 DEF Code
      <3>4. code' = [code EXCEPT ![block[w]] = new]
        BY <2>7 DEF WriteClosurePtr
      <3>5. code' \in [Blocks -> Code]
        BY <3>3, <3>4 DEF TypeOK
      <3> QED BY <3>5, <2>7 DEF WriteClosurePtr, TypeOK
    <2>8. CASE WriteReturn(t, w)
      <3> DEFINE new == [template |-> code[block[w]].template, closure |-> code[block[w]].closure, return |-> w]
      <3>1. block[w] \in Blocks
        BY <2>8 DEF WriteReturn, BlockOf, Holding, Writing
      <3>2. code[block[w]] \in Code
        BY <3>1 DEF TypeOK
      <3>3. new \in Code
        BY <3>2 DEF Code
      <3>4. code' = [code EXCEPT ![block[w]] = new]
        BY <2>8 DEF WriteReturn
      <3>5. code' \in [Blocks -> Code]
        BY <3>3, <3>4 DEF TypeOK
      <3> QED BY <3>5, <2>8 DEF WriteReturn, TypeOK
    <2>9. CASE ProtectReadExecute(t, w)
      BY <2>9 DEF ProtectReadExecute, ProtectJitMemory, TypeOK
    <2>10. CASE Flush(t, w)
      BY <2>10 DEF Flush, FlushInstructionCache, TypeOK
    <2> QED BY <1>1, <2>1, <2>2, <2>3, <2>4, <2>5, <2>6, <2>7, <2>8, <2>9, <2>10 DEF Construct
  <1>2. ASSUME NEW t \in Threads, NEW w \in Wrappers, FinishDrop(t, w) PROVE TypeOK'
    <2> USE DEF Phases, DropPhases
    <2>1. CASE Release(t, w)
      <3>1. arena' \in [Blocks -> Threads \cup {NoThread}]
        BY <2>1 DEF Release, TypeOK
      <3> QED BY <3>1, <2>1 DEF Release, TypeOK
    <2>2. CASE DropHandle(t, w)
      BY <2>2 DEF DropHandle, TypeOK
    <2> QED BY <1>2, <2>1, <2>2 DEF FinishDrop
  <1>3. ASSUME NEW t \in Threads, NEW w \in Wrappers, Use(t, w) PROVE TypeOK'
    <2> USE DEF Phases, ConstructionPhases, DropPhases, Published
    <2>1. CASE Box(t, w)
      BY <2>1 DEF Box, TypeOK
    <2>2. CASE Bare(t, w)
      BY <2>2 DEF Bare, HasBare, Owns, TypeOK
    <2>3. CASE Leak(t, w)
      BY <2>3 DEF Leak, Owns, TypeOK
    <2>4. ASSUME NEW u \in Threads, Move(t, u, w) PROVE TypeOK'
      BY <2>4 DEF Move, Owns, TypeOK
    <2>5. CASE Upcast(t, w)
      BY <2>5 DEF Upcast, Owns, TypeOK
    <2>6. CASE BeginDrop(t, w)
      <3>1. [op |-> "drop", w |-> w, runs |-> Thunk(w)] \in Frame
        BY DEF Frame, Thunk, Code
      <3>2. stack' \in [Threads -> Seq(Frame)]
        BY <3>1, <2>6, EnterFrames DEF BeginDrop, Owns
      <3> QED BY <3>2, <2>6 DEF BeginDrop, Owns, TypeOK
    <2>7. CASE EndDestructor(t, w)
      <3>1. stack' \in [Threads -> Seq(Frame)]
        BY <2>7, LeaveFrames DEF EndDestructor
      <3> QED BY <3>1, <2>7 DEF EndDestructor, TypeOK
    <2>8. CASE Call(t, w)
      <3>1. w \notin ZstClosures => block[w] \in Blocks
        BY <2>8 DEF Call, Consumes, CallContract, BlockOf, Holding
      <3>2. w \notin ZstClosures => Fetched(block[w]) \in Code
        BY <3>1 DEF Fetched, TypeOK
      <3> DEFINE seen == IF w \in ZstClosures THEN Thunk(w) ELSE Fetched(block[w])
      <3>3. seen \in Code
        BY <3>2 DEF Thunk, Code
      <3>4. [op |-> "call", w |-> w, runs |-> seen] \in Frame
        BY <3>3 DEF Frame
      <3>5. stack' \in [Threads -> Seq(Frame)]
        BY <3>4, <2>8, EnterFrames DEF Call, Consumes
      <3>6. icache' \in [Blocks -> Code \cup {NoCode}]
        BY <3>2, <2>8 DEF Call, Consumes, TypeOK
      <3>7. called' \subseteq OnceClosures
        BY <2>8 DEF Call, Consumes, TypeOK
      <3>8. closure' \in [Wrappers -> {"none", "live", "moved", "destroyed"}]
        <4>1. closure' = closure \/ closure' = [closure EXCEPT ![w] = "moved"]
          BY <2>8 DEF Call, Consumes
        <4>2. closure \in [Wrappers -> {"none", "live", "moved", "destroyed"}]
          BY DEF TypeOK
        <4> QED BY <4>1, <4>2
      <3> QED BY <3>5, <3>6, <3>7, <3>8, <2>8 DEF Call, Consumes, TypeOK
    <2>9. CASE Return(t, w)
      <3>1. stack' \in [Threads -> Seq(Frame)]
        BY <2>9, LeaveFrames DEF Return, Consumes
      <3>2. /\ drops' \in [Wrappers -> Nat]
            /\ closure' \in [Wrappers -> {"none", "live", "moved", "destroyed"}]
        <4>1. \/ closure' = closure /\ drops' = drops
              \/ /\ closure' = [closure EXCEPT ![w] = "destroyed"]
                 /\ drops' = [drops EXCEPT ![w] = drops[w] + 1]
          BY <2>9 DEF Return, Consumes
        <4>2. /\ drops \in [Wrappers -> Nat]
              /\ closure \in [Wrappers -> {"none", "live", "moved", "destroyed"}]
          BY DEF TypeOK
        <4> QED BY <4>1, <4>2
      <3> QED BY <3>1, <3>2, <2>9 DEF Return, Consumes, TypeOK
    <2> QED BY <1>3, <2>1, <2>2, <2>3, <2>4, <2>5, <2>6, <2>7, <2>8, <2>9 DEF Use
  <1>4. CASE DropUserHandle
    BY <1>4 DEF DropUserHandle, TypeOK
  <1>5. ASSUME NEW b \in Blocks, Prefetch(b) PROVE TypeOK'
    BY <1>5 DEF Prefetch, TypeOK
  <1>6. CASE UNCHANGED vars
    BY <1>6 DEF TypeOK, vars
  <1> QED BY <1>1, <1>2, <1>3, <1>4, <1>5, <1>6 DEF Next

-----------------------------------------------------------------------------
(* CodeInv, conjunct by conjunct. *)

(* The block of a wrapper is allocated from alloc to release.  Releasing   *)
(* one takes no other wrapper's, since blocks are apart.                   *)
LEMMA BlockStep ==
    ASSUME TypeOK, \A v \in Wrappers : BlockOf(v), BlocksApart, [Next]_vars
    PROVE  \A v \in Wrappers : BlockOf(v)'
  <1> USE DEF wrapperVars, threadVars, memoryVars, threadSafetyVars
  <1> USE DEF ConstructionPhases, DropPhases, Published, Writing, Holding, BeforeAlloc, BlockOf, TypeOK
  <1>1. ASSUME NEW t \in Threads, NEW w \in Wrappers, Construct(t, w) PROVE \A v \in Wrappers : BlockOf(v)'
    <2>1. CASE UseTemplate(t, w)
      BY <2>1 DEF UseTemplate
    <2>2. CASE Relocate(t, w)
      BY <2>2 DEF Relocate
    <2>3. CASE Fail(t, w)
      BY <2>3 DEF Fail
    <2>4. ASSUME NEW b \in Blocks, Alloc(t, w, b) PROVE \A v \in Wrappers : BlockOf(v)'
      BY <2>4 DEF Alloc
    <2>5. CASE ProtectReadWrite(t, w)
      BY <2>5 DEF ProtectReadWrite
    <2>6. CASE CopyTemplate(t, w)
      BY <2>6 DEF CopyTemplate
    <2>7. CASE WriteClosurePtr(t, w)
      BY <2>7 DEF WriteClosurePtr
    <2>8. CASE WriteReturn(t, w)
      BY <2>8 DEF WriteReturn
    <2>9. CASE ProtectReadExecute(t, w)
      BY <2>9 DEF ProtectReadExecute
    <2>10. CASE Flush(t, w)
      BY <2>10 DEF Flush
    <2> QED BY <1>1, <2>1, <2>2, <2>3, <2>4, <2>5, <2>6, <2>7, <2>8, <2>9, <2>10 DEF Construct
  <1>2. ASSUME NEW t \in Threads, NEW w \in Wrappers, FinishDrop(t, w) PROVE \A v \in Wrappers : BlockOf(v)'
    <2>1. CASE Release(t, w)
      <3>1. ASSUME NEW v \in Wrappers PROVE BlockOf(v)'
        <4>1. phase'[v] \in Holding => phase[v] \in Holding /\ v # w
          BY <2>1 DEF Release
        <4>2. phase'[v] \in Holding /\ v \notin ZstClosures =>
                 (HoldsBlock(v) /\ HoldsBlock(w)) \/ block[w] = NoBlock
          BY <4>1, <2>1 DEF Release, HoldsBlock
        <4>3. phase'[v] \in Holding /\ v \notin ZstClosures => arena'[block[v]] = arena[block[v]]
          BY <4>1, <4>2, <2>1 DEF Release, BlocksApart
        <4> QED BY <4>1, <4>3, <2>1 DEF Release
      <3> QED BY <3>1
    <2>2. CASE DropHandle(t, w)
      BY <2>2 DEF DropHandle
    <2> QED BY <1>2, <2>1, <2>2 DEF FinishDrop
  <1>3. ASSUME NEW t \in Threads, NEW w \in Wrappers, Use(t, w) PROVE \A v \in Wrappers : BlockOf(v)'
    <2>1. CASE Box(t, w)
      BY <2>1 DEF Box
    <2>2. CASE Bare(t, w)
      BY <2>2 DEF Bare, HasBare, Owns
    <2>3. CASE Leak(t, w)
      BY <2>3 DEF Leak, Owns
    <2>4. ASSUME NEW u \in Threads, Move(t, u, w) PROVE \A v \in Wrappers : BlockOf(v)'
      BY <2>4 DEF Move, Owns
    <2>5. CASE Upcast(t, w)
      BY <2>5 DEF Upcast, Owns
    <2>6. CASE BeginDrop(t, w)
      BY <2>6 DEF BeginDrop, Owns
    <2>7. CASE EndDestructor(t, w)
      BY <2>7 DEF EndDestructor
    <2>8. CASE Call(t, w)
      BY <2>8 DEF Call, Consumes
    <2>9. CASE Return(t, w)
      BY <2>9 DEF Return, Consumes
    <2> QED BY <1>3, <2>1, <2>2, <2>3, <2>4, <2>5, <2>6, <2>7, <2>8, <2>9 DEF Use
  <1>4. CASE DropUserHandle
    BY <1>4 DEF DropUserHandle
  <1>5. ASSUME NEW b \in Blocks, Prefetch(b) PROVE \A v \in Wrappers : BlockOf(v)'
    BY <1>5 DEF Prefetch
  <1>6. CASE UNCHANGED vars
    BY <1>6 DEF vars
  <1> QED BY <1>1, <1>2, <1>3, <1>4, <1>5, <1>6 DEF Next

(* alloc hands out a free block, and every held block is not free.         *)
LEMMA ApartStep ==
    ASSUME TypeOK, \A v \in Wrappers : BlockOf(v), BlocksApart, [Next]_vars
    PROVE  BlocksApart'
  <1> USE DEF wrapperVars, threadVars, memoryVars, threadSafetyVars
  <1> USE DEF ConstructionPhases, DropPhases, Published, Writing, Holding, BeforeAlloc, BlockOf, BlocksApart, HoldsBlock, TypeOK
  <1>1. ASSUME NEW t \in Threads, NEW w \in Wrappers, Construct(t, w) PROVE BlocksApart'
    <2>1. CASE UseTemplate(t, w)
      BY <2>1 DEF UseTemplate
    <2>2. CASE Relocate(t, w)
      BY <2>2 DEF Relocate
    <2>3. CASE Fail(t, w)
      BY <2>3 DEF Fail
    <2>4. ASSUME NEW b \in Blocks, Alloc(t, w, b) PROVE BlocksApart'
      <3>1. \A v \in Wrappers : HoldsBlock(v) => arena[block[v]] # NoThread
        BY DEF Phases
      <3>2. \A v \in Wrappers : HoldsBlock(v) => block[v] # b
        BY <3>1, <2>4 DEF Alloc
      <3>3. \A v \in Wrappers : block'[v] = IF v = w THEN b ELSE block[v]
        BY <2>4 DEF Alloc
      <3>4. \A v \in Wrappers \ {w} : HoldsBlock(v)' <=> HoldsBlock(v)
        BY <2>4 DEF Alloc
      <3> QED BY <3>2, <3>3, <3>4
    <2>5. CASE ProtectReadWrite(t, w)
      BY <2>5 DEF ProtectReadWrite
    <2>6. CASE CopyTemplate(t, w)
      BY <2>6 DEF CopyTemplate
    <2>7. CASE WriteClosurePtr(t, w)
      BY <2>7 DEF WriteClosurePtr
    <2>8. CASE WriteReturn(t, w)
      BY <2>8 DEF WriteReturn
    <2>9. CASE ProtectReadExecute(t, w)
      BY <2>9 DEF ProtectReadExecute
    <2>10. CASE Flush(t, w)
      BY <2>10 DEF Flush
    <2> QED BY <1>1, <2>1, <2>2, <2>3, <2>4, <2>5, <2>6, <2>7, <2>8, <2>9, <2>10 DEF Construct
  <1>2. ASSUME NEW t \in Threads, NEW w \in Wrappers, FinishDrop(t, w) PROVE BlocksApart'
    <2>1. CASE Release(t, w)
      BY <2>1 DEF Release
    <2>2. CASE DropHandle(t, w)
      BY <2>2 DEF DropHandle
    <2> QED BY <1>2, <2>1, <2>2 DEF FinishDrop
  <1>3. ASSUME NEW t \in Threads, NEW w \in Wrappers, Use(t, w) PROVE BlocksApart'
    <2>1. CASE Box(t, w)
      BY <2>1 DEF Box
    <2>2. CASE Bare(t, w)
      BY <2>2 DEF Bare, HasBare, Owns
    <2>3. CASE Leak(t, w)
      BY <2>3 DEF Leak, Owns
    <2>4. ASSUME NEW u \in Threads, Move(t, u, w) PROVE BlocksApart'
      BY <2>4 DEF Move, Owns
    <2>5. CASE Upcast(t, w)
      BY <2>5 DEF Upcast, Owns
    <2>6. CASE BeginDrop(t, w)
      BY <2>6 DEF BeginDrop, Owns
    <2>7. CASE EndDestructor(t, w)
      BY <2>7 DEF EndDestructor
    <2>8. CASE Call(t, w)
      BY <2>8 DEF Call, Consumes
    <2>9. CASE Return(t, w)
      BY <2>9 DEF Return, Consumes
    <2> QED BY <1>3, <2>1, <2>2, <2>3, <2>4, <2>5, <2>6, <2>7, <2>8, <2>9 DEF Use
  <1>4. CASE DropUserHandle
    BY <1>4 DEF DropUserHandle
  <1>5. ASSUME NEW b \in Blocks, Prefetch(b) PROVE BlocksApart'
    BY <1>5 DEF Prefetch
  <1>6. CASE UNCHANGED vars
    BY <1>6 DEF vars
  <1> QED BY <1>1, <1>2, <1>3, <1>4, <1>5, <1>6 DEF Next

(* Two wrappers that hold blocks hold different ones.                      *)
LEMMA OtherBlock ==
    ASSUME \A v \in Wrappers : BlockOf(v), BlocksApart,
           NEW v \in Wrappers, NEW w \in Wrappers, v # w,
           phase[v] \in Holding, phase[w] \in Holding,
           v \notin ZstClosures, w \notin ZstClosures
    PROVE  block[v] \in Blocks \ {block[w]}
  BY DEF BlockOf, BlocksApart, HoldsBlock, Holding, Writing, Published

(* Each store puts one more part of the thunk in place, and stores and     *)
(* flushes of one wrapper leave the blocks of the others alone.            *)
LEMMA CodeOfStep ==
    ASSUME TypeOK, TypeOK', \A v \in Wrappers : BlockOf(v) /\ CodeOf(v), BlocksApart, [Next]_vars
    PROVE  \A v \in Wrappers : CodeOf(v)'
  <1> USE DEF wrapperVars, threadVars, memoryVars, threadSafetyVars
  <1> USE DEF ConstructionPhases, DropPhases, Published, Writing, Holding, BeforeAlloc, BlockOf, CodeOf, Thunk, TypeOK
  <1>1. ASSUME NEW t \in Threads, NEW w \in Wrappers, Construct(t, w) PROVE \A v \in Wrappers : CodeOf(v)'
    <2>1. CASE UseTemplate(t, w)
      BY <2>1 DEF UseTemplate
    <2>2. CASE Relocate(t, w)
      BY <2>2 DEF Relocate
    <2>3. CASE Fail(t, w)
      BY <2>3 DEF Fail
    <2>4. ASSUME NEW b \in Blocks, Alloc(t, w, b) PROVE \A v \in Wrappers : CodeOf(v)'
      BY <2>4 DEF Alloc
    <2>5. CASE ProtectReadWrite(t, w)
      BY <2>5 DEF ProtectReadWrite
    <2>6. CASE CopyTemplate(t, w)
      <3>1. block[w] \in Blocks /\ w \notin ZstClosures /\ phase[w] \in Holding
        BY <2>6 DEF CopyTemplate
      <3>2. /\ block' = block /\ icache' = icache
            /\ \A v \in Wrappers \ {w} : phase'[v] = phase[v]
            /\ \A b \in Blocks \ {block[w]} : code'[b] = code[b]
        BY <3>1, <2>6 DEF CopyTemplate
      <3>3. code'[block[w]] = [template |-> w, closure |-> Junk, return |-> Junk]
        BY <3>1, <2>6 DEF CopyTemplate
      <3>4. ASSUME NEW v \in Wrappers \ {w} PROVE CodeOf(v)'
        <4>1. v \notin ZstClosures /\ phase[v] \in Holding =>
                 block[v] \in Blocks \ {block[w]}
          BY <3>1, OtherBlock
        <4> QED BY <4>1, <3>2
      <3>5. CodeOf(w)'
        BY <3>1, <3>2, <3>3, <2>6 DEF CopyTemplate
      <3> QED BY <3>4, <3>5
    <2>7. CASE WriteClosurePtr(t, w)
      <3>1. block[w] \in Blocks /\ w \notin ZstClosures /\ phase[w] \in Holding
        BY <2>7 DEF WriteClosurePtr
      <3>2. /\ block' = block /\ icache' = icache
            /\ \A v \in Wrappers \ {w} : phase'[v] = phase[v]
            /\ \A b \in Blocks \ {block[w]} : code'[b] = code[b]
        BY <3>1, <2>7 DEF WriteClosurePtr
      <3>3. code'[block[w]] = [template |-> code[block[w]].template, closure |-> w,
                                return |-> code[block[w]].return]
        BY <3>1, <2>7 DEF WriteClosurePtr
      <3>4. ASSUME NEW v \in Wrappers \ {w} PROVE CodeOf(v)'
        <4>1. v \notin ZstClosures /\ phase[v] \in Holding =>
                 block[v] \in Blocks \ {block[w]}
          BY <3>1, OtherBlock
        <4> QED BY <4>1, <3>2
      <3>5. phase'[w] = "closureWritten" /\ phase[w] = "copied"
        BY <2>7 DEF WriteClosurePtr
      <3>6. code'[block'[w]].template = w /\ code'[block'[w]].closure = w
        <4>1. code[block[w]].template = w
          BY <3>1, <3>5
        <4>2. block'[w] = block[w]
          BY <3>2
        <4>3. code'[block[w]].template = code[block[w]].template
          BY <3>3
        <4>4. code'[block[w]].closure = w
          BY <3>3
        <4> QED BY <4>1, <4>2, <4>3, <4>4
      <3>7. CodeOf(w)'
        BY <3>5, <3>6
      <3> QED BY <3>4, <3>7
    <2>8. CASE WriteReturn(t, w)
      <3>1. block[w] \in Blocks /\ w \notin ZstClosures /\ phase[w] \in Holding
        BY <2>8 DEF WriteReturn
      <3>2. /\ block' = block /\ icache' = icache
            /\ \A v \in Wrappers \ {w} : phase'[v] = phase[v]
            /\ \A b \in Blocks \ {block[w]} : code'[b] = code[b]
        BY <3>1, <2>8 DEF WriteReturn
      <3>3. code'[block[w]] = [template |-> code[block[w]].template,
                                closure |-> code[block[w]].closure, return |-> w]
        BY <3>1, <2>8 DEF WriteReturn
      <3>4. ASSUME NEW v \in Wrappers \ {w} PROVE CodeOf(v)'
        <4>1. v \notin ZstClosures /\ phase[v] \in Holding =>
                 block[v] \in Blocks \ {block[w]}
          BY <3>1, OtherBlock
        <4> QED BY <4>1, <3>2
      <3>5. CodeOf(w)'
        BY <3>1, <3>2, <3>3, <2>8 DEF WriteReturn
      <3> QED BY <3>4, <3>5
    <2>9. CASE ProtectReadExecute(t, w)
      BY <2>9 DEF ProtectReadExecute
    <2>10. CASE Flush(t, w)
      <3>1. block[w] \in Blocks /\ w \notin ZstClosures /\ phase[w] \in Holding
        BY <2>10 DEF Flush
      <3>2. /\ block' = block /\ code' = code
            /\ phase' = [phase EXCEPT ![w] = "owned"]
            /\ icache' = [icache EXCEPT ![block[w]] = NoCode]
        BY <2>10 DEF Flush, FlushInstructionCache
      <3>3. ASSUME NEW v \in Wrappers \ {w} PROVE CodeOf(v)'
        <4>1. v \notin ZstClosures /\ phase[v] \in Holding =>
                 block[v] \in Blocks \ {block[w]}
          BY <3>1, OtherBlock
        <4> QED BY <4>1, <3>2
      <3>4. /\ phase'[w] = "owned"
            /\ code'[block'[w]] = Thunk(w)
            /\ icache'[block'[w]] = NoCode
        <4>1. phase[w] = "sealed" /\ CodeOf(w)
          BY <2>10 DEF Flush
        <4>2. code[block[w]] = Thunk(w)
          BY <4>1, <3>1
        <4>3. phase'[w] = "owned"
          BY <3>2
        <4>4. icache'[block'[w]] = NoCode
          BY <3>1, <3>2
        <4> QED BY <4>2, <4>3, <4>4, <3>2
      <3>5. CodeOf(w)'
        BY <3>4
      <3> QED BY <3>3, <3>5
    <2> QED BY <1>1, <2>1, <2>2, <2>3, <2>4, <2>5, <2>6, <2>7, <2>8, <2>9, <2>10 DEF Construct
  <1>2. ASSUME NEW t \in Threads, NEW w \in Wrappers, FinishDrop(t, w) PROVE \A v \in Wrappers : CodeOf(v)'
    <2>1. CASE Release(t, w)
      BY <2>1 DEF Release
    <2>2. CASE DropHandle(t, w)
      BY <2>2 DEF DropHandle
    <2> QED BY <1>2, <2>1, <2>2 DEF FinishDrop
  <1>3. ASSUME NEW t \in Threads, NEW w \in Wrappers, Use(t, w) PROVE \A v \in Wrappers : CodeOf(v)'
    <2>1. CASE Box(t, w)
      BY <2>1 DEF Box
    <2>2. CASE Bare(t, w)
      BY <2>2 DEF Bare, HasBare, Owns
    <2>3. CASE Leak(t, w)
      BY <2>3 DEF Leak, Owns
    <2>4. ASSUME NEW u \in Threads, Move(t, u, w) PROVE \A v \in Wrappers : CodeOf(v)'
      BY <2>4 DEF Move, Owns
    <2>5. CASE Upcast(t, w)
      BY <2>5 DEF Upcast, Owns
    <2>6. CASE BeginDrop(t, w)
      BY <2>6 DEF BeginDrop, Owns
    <2>7. CASE EndDestructor(t, w)
      BY <2>7 DEF EndDestructor
    <2>8. CASE Call(t, w)
      <3>1. CASE w \in ZstClosures
        BY <3>1, <2>8 DEF Call, Consumes
      <3>2. CASE w \notin ZstClosures
        <4>1. block[w] \in Blocks /\ phase[w] \in Published
          BY <3>2, <2>8 DEF Call, Consumes, CallContract
        <4>2. /\ phase' = phase /\ block' = block /\ code' = code
              /\ icache' = [icache EXCEPT ![block[w]] = Fetched(block[w])]
          BY <3>2, <2>8 DEF Call, Consumes
        <4>3. Fetched(block[w]) = Thunk(w)
          BY <4>1, <3>2 DEF Fetched
        <4>4. ASSUME NEW v \in Wrappers \ {w} PROVE CodeOf(v)'
          <5>1. v \notin ZstClosures /\ phase[v] \in Holding =>
                   block[v] \in Blocks \ {block[w]}
            BY <4>1, <3>2, OtherBlock
          <5> QED BY <5>1, <4>2
        <4>5. CodeOf(w)'
          BY <4>1, <4>2, <4>3
        <4> QED BY <4>4, <4>5
      <3> QED BY <3>1, <3>2
    <2>9. CASE Return(t, w)
      BY <2>9 DEF Return, Consumes
    <2> QED BY <1>3, <2>1, <2>2, <2>3, <2>4, <2>5, <2>6, <2>7, <2>8, <2>9 DEF Use
  <1>4. CASE DropUserHandle
    BY <1>4 DEF DropUserHandle
  <1>5. ASSUME NEW b \in Blocks, Prefetch(b) PROVE \A v \in Wrappers : CodeOf(v)'
    BY <1>5 DEF Prefetch
  <1>6. CASE UNCHANGED vars
    BY <1>6 DEF vars
  <1> QED BY <1>1, <1>2, <1>3, <1>4, <1>5, <1>6 DEF Next

(* A thread enters the crate for a wrapper no thread works on.             *)
LEMMA BusyStep ==
    ASSUME TypeOK, BusyOne, [Next]_vars
    PROVE  BusyOne'
  <1> USE DEF wrapperVars, threadVars, memoryVars, threadSafetyVars
  <1> USE DEF ConstructionPhases, DropPhases, Published, Writing, BusyOne, TypeOK, InUserCode, ProtectJitMemory
  <1>1. ASSUME NEW t \in Threads, NEW w \in Wrappers, Construct(t, w) PROVE BusyOne'
    <2>1. CASE UseTemplate(t, w)
      BY <2>1 DEF UseTemplate
    <2>2. CASE Relocate(t, w)
      BY <2>2 DEF Relocate
    <2>3. CASE Fail(t, w)
      BY <2>3 DEF Fail
    <2>4. ASSUME NEW b \in Blocks, Alloc(t, w, b) PROVE BusyOne'
      BY <2>4 DEF Alloc
    <2>5. CASE ProtectReadWrite(t, w)
      BY <2>5 DEF ProtectReadWrite
    <2>6. CASE CopyTemplate(t, w)
      BY <2>6 DEF CopyTemplate
    <2>7. CASE WriteClosurePtr(t, w)
      BY <2>7 DEF WriteClosurePtr
    <2>8. CASE WriteReturn(t, w)
      BY <2>8 DEF WriteReturn
    <2>9. CASE ProtectReadExecute(t, w)
      BY <2>9 DEF ProtectReadExecute
    <2>10. CASE Flush(t, w)
      BY <2>10 DEF Flush
    <2> QED BY <1>1, <2>1, <2>2, <2>3, <2>4, <2>5, <2>6, <2>7, <2>8, <2>9, <2>10 DEF Construct
  <1>2. ASSUME NEW t \in Threads, NEW w \in Wrappers, FinishDrop(t, w) PROVE BusyOne'
    <2>1. CASE Release(t, w)
      BY <2>1 DEF Release
    <2>2. CASE DropHandle(t, w)
      BY <2>2 DEF DropHandle
    <2> QED BY <1>2, <2>1, <2>2 DEF FinishDrop
  <1>3. ASSUME NEW t \in Threads, NEW w \in Wrappers, Use(t, w) PROVE BusyOne'
    <2>1. CASE Box(t, w)
      <3>1. \A u \in Threads : busy[u] # w
        BY <2>1 DEF Box
      <3>2. \A u \in Threads : busy'[u] = IF u = t THEN w ELSE busy[u]
        BY <2>1 DEF Box
      <3>3. \A v \in Wrappers : phase'[v] = IF v = w THEN "boxed" ELSE phase[v]
        BY <2>1 DEF Box
      <3>4. access' = access /\ access[t] = "RX"
        BY <2>1 DEF Box
      <3>5. ASSUME NEW u \in Threads, busy'[u] # NoWrapper
            PROVE  /\ phase'[busy'[u]] \in ConstructionPhases \cup DropPhases
                   /\ access'[u] = "RW" <=> phase'[busy'[u]] \in Writing
        <4>1. CASE u = t
          BY <4>1, <3>2, <3>3, <3>4
        <4>2. CASE u # t
          BY <4>2, <3>1, <3>2, <3>3, <3>4, <3>5
        <4> QED BY <4>1, <4>2
      <3>6. ASSUME NEW u \in Threads, busy'[u] = NoWrapper PROVE access'[u] # "RW"
        BY <3>2, <3>4, <3>6
      <3>7. ASSUME NEW u \in Threads, NEW x \in Threads,
                   busy'[u] # NoWrapper, busy'[u] = busy'[x], u # x
            PROVE  FALSE
        <4>1. u # t /\ x # t
          BY <3>1, <3>2, <3>7
        <4> QED BY <4>1, <3>2, <3>7
      <3> QED BY <3>5, <3>6, <3>7
    <2>2. CASE Bare(t, w)
      BY <2>2 DEF Bare, HasBare, Owns
    <2>3. CASE Leak(t, w)
      BY <2>3 DEF Leak, Owns
    <2>4. ASSUME NEW u \in Threads, Move(t, u, w) PROVE BusyOne'
      BY <2>4 DEF Move, Owns
    <2>5. CASE Upcast(t, w)
      BY <2>5 DEF Upcast, Owns
    <2>6. CASE BeginDrop(t, w)
      BY <2>6 DEF BeginDrop, Owns
    <2>7. CASE EndDestructor(t, w)
      <3>1. \A u \in Threads : busy[u] # w
        BY <2>7 DEF EndDestructor
      <3>2. \A u \in Threads : busy'[u] = IF u = t THEN w ELSE busy[u]
        BY <2>7 DEF EndDestructor
      <3>3. \A v \in Wrappers : phase'[v] = IF v = w THEN "releasing" ELSE phase[v]
        BY <2>7 DEF EndDestructor
      <3>4. access' = access /\ access[t] = "RX"
        BY <2>7 DEF EndDestructor
      <3>5. ASSUME NEW u \in Threads, busy'[u] # NoWrapper
            PROVE  /\ phase'[busy'[u]] \in ConstructionPhases \cup DropPhases
                   /\ access'[u] = "RW" <=> phase'[busy'[u]] \in Writing
        <4>1. CASE u = t
          BY <4>1, <3>2, <3>3, <3>4
        <4>2. CASE u # t
          BY <4>2, <3>1, <3>2, <3>3, <3>4, <3>5
        <4> QED BY <4>1, <4>2
      <3>6. ASSUME NEW u \in Threads, busy'[u] = NoWrapper PROVE access'[u] # "RW"
        BY <3>2, <3>4, <3>6
      <3>7. ASSUME NEW u \in Threads, NEW x \in Threads,
                   busy'[u] # NoWrapper, busy'[u] = busy'[x], u # x
            PROVE  FALSE
        <4>1. u # t /\ x # t
          BY <3>1, <3>2, <3>7
        <4> QED BY <4>1, <3>2, <3>7
      <3> QED BY <3>5, <3>6, <3>7
    <2>8. CASE Call(t, w)
      BY <2>8 DEF Call, Consumes
    <2>9. CASE Return(t, w)
      BY <2>9 DEF Return, Consumes
    <2> QED BY <1>3, <2>1, <2>2, <2>3, <2>4, <2>5, <2>6, <2>7, <2>8, <2>9 DEF Use
  <1>4. CASE DropUserHandle
    BY <1>4 DEF DropUserHandle
  <1>5. ASSUME NEW b \in Blocks, Prefetch(b) PROVE BusyOne'
    BY <1>5 DEF Prefetch
  <1>6. CASE UNCHANGED vars
    BY <1>6 DEF vars
  <1> QED BY <1>1, <1>2, <1>3, <1>4, <1>5, <1>6 DEF Next

(* The handle goes only with a failed construction or a finished drop.     *)
LEMMA HandleStep ==
    ASSUME TypeOK, HandleKept, [Next]_vars
    PROVE  HandleKept'
  <1> USE DEF wrapperVars, threadVars, memoryVars, threadSafetyVars
  <1> USE DEF ConstructionPhases, DropPhases, Published, HandleKept, TypeOK
  <1>1. ASSUME NEW t \in Threads, NEW w \in Wrappers, Construct(t, w) PROVE HandleKept'
    <2>1. CASE UseTemplate(t, w)
      BY <2>1 DEF UseTemplate
    <2>2. CASE Relocate(t, w)
      BY <2>2 DEF Relocate
    <2>3. CASE Fail(t, w)
      BY <2>3 DEF Fail
    <2>4. ASSUME NEW b \in Blocks, Alloc(t, w, b) PROVE HandleKept'
      BY <2>4 DEF Alloc
    <2>5. CASE ProtectReadWrite(t, w)
      BY <2>5 DEF ProtectReadWrite
    <2>6. CASE CopyTemplate(t, w)
      BY <2>6 DEF CopyTemplate
    <2>7. CASE WriteClosurePtr(t, w)
      BY <2>7 DEF WriteClosurePtr
    <2>8. CASE WriteReturn(t, w)
      BY <2>8 DEF WriteReturn
    <2>9. CASE ProtectReadExecute(t, w)
      BY <2>9 DEF ProtectReadExecute
    <2>10. CASE Flush(t, w)
      BY <2>10 DEF Flush
    <2> QED BY <1>1, <2>1, <2>2, <2>3, <2>4, <2>5, <2>6, <2>7, <2>8, <2>9, <2>10 DEF Construct
  <1>2. ASSUME NEW t \in Threads, NEW w \in Wrappers, FinishDrop(t, w) PROVE HandleKept'
    <2>1. CASE Release(t, w)
      BY <2>1 DEF Release
    <2>2. CASE DropHandle(t, w)
      BY <2>2 DEF DropHandle
    <2> QED BY <1>2, <2>1, <2>2 DEF FinishDrop
  <1>3. ASSUME NEW t \in Threads, NEW w \in Wrappers, Use(t, w) PROVE HandleKept'
    <2>1. CASE Box(t, w)
      BY <2>1 DEF Box
    <2>2. CASE Bare(t, w)
      BY <2>2 DEF Bare, HasBare, Owns
    <2>3. CASE Leak(t, w)
      BY <2>3 DEF Leak, Owns
    <2>4. ASSUME NEW u \in Threads, Move(t, u, w) PROVE HandleKept'
      BY <2>4 DEF Move, Owns
    <2>5. CASE Upcast(t, w)
      BY <2>5 DEF Upcast, Owns
    <2>6. CASE BeginDrop(t, w)
      BY <2>6 DEF BeginDrop, Owns
    <2>7. CASE EndDestructor(t, w)
      BY <2>7 DEF EndDestructor
    <2>8. CASE Call(t, w)
      BY <2>8 DEF Call, Consumes
    <2>9. CASE Return(t, w)
      BY <2>9 DEF Return, Consumes
    <2> QED BY <1>3, <2>1, <2>2, <2>3, <2>4, <2>5, <2>6, <2>7, <2>8, <2>9 DEF Use
  <1>4. CASE DropUserHandle
    BY <1>4 DEF DropUserHandle
  <1>5. ASSUME NEW b \in Blocks, Prefetch(b) PROVE HandleKept'
    BY <1>5 DEF Prefetch
  <1>6. CASE UNCHANGED vars
    BY <1>6 DEF vars
  <1> QED BY <1>1, <1>2, <1>3, <1>4, <1>5, <1>6 DEF Next

(* A call fetches from a block with the whole thunk in it and nothing stale*)
(* in the instruction cache.                                               *)
LEMMA CallsStep ==
    ASSUME TypeOK, \A v \in Wrappers : BlockOf(v) /\ CodeOf(v), CallsRunOwnThunk, [Next]_vars
    PROVE  CallsRunOwnThunk'
  <1> USE DEF wrapperVars, threadVars, memoryVars, threadSafetyVars
  <1> USE DEF CallsRunOwnThunk
  <1>1. ASSUME NEW t \in Threads, NEW w \in Wrappers, Construct(t, w) PROVE CallsRunOwnThunk'
    <2>1. CASE UseTemplate(t, w)
      BY <2>1 DEF UseTemplate, Frames
    <2>2. CASE Relocate(t, w)
      BY <2>2 DEF Relocate, Frames
    <2>3. CASE Fail(t, w)
      BY <2>3 DEF Fail, Frames
    <2>4. ASSUME NEW b \in Blocks, Alloc(t, w, b) PROVE CallsRunOwnThunk'
      BY <2>4 DEF Alloc, Frames
    <2>5. CASE ProtectReadWrite(t, w)
      BY <2>5 DEF ProtectReadWrite, Frames
    <2>6. CASE CopyTemplate(t, w)
      BY <2>6 DEF CopyTemplate, Frames
    <2>7. CASE WriteClosurePtr(t, w)
      BY <2>7 DEF WriteClosurePtr, Frames
    <2>8. CASE WriteReturn(t, w)
      BY <2>8 DEF WriteReturn, Frames
    <2>9. CASE ProtectReadExecute(t, w)
      BY <2>9 DEF ProtectReadExecute, Frames
    <2>10. CASE Flush(t, w)
      BY <2>10 DEF Flush, Frames
    <2> QED BY <1>1, <2>1, <2>2, <2>3, <2>4, <2>5, <2>6, <2>7, <2>8, <2>9, <2>10 DEF Construct
  <1>2. ASSUME NEW t \in Threads, NEW w \in Wrappers, FinishDrop(t, w) PROVE CallsRunOwnThunk'
    <2>1. CASE Release(t, w)
      BY <2>1 DEF Release, Frames
    <2>2. CASE DropHandle(t, w)
      BY <2>2 DEF DropHandle, Frames
    <2> QED BY <1>2, <2>1, <2>2 DEF FinishDrop
  <1>3. ASSUME NEW t \in Threads, NEW w \in Wrappers, Use(t, w) PROVE CallsRunOwnThunk'
    <2>1. CASE Box(t, w)
      BY <2>1 DEF Box, Frames
    <2>2. CASE Bare(t, w)
      BY <2>2 DEF Bare, HasBare, Owns, Frames
    <2>3. CASE Leak(t, w)
      BY <2>3 DEF Leak, Owns, Frames
    <2>4. ASSUME NEW u \in Threads, Move(t, u, w) PROVE CallsRunOwnThunk'
      BY <2>4 DEF Move, Owns, Frames
    <2>5. CASE Upcast(t, w)
      BY <2>5 DEF Upcast, Owns, Frames
    <2>6. CASE BeginDrop(t, w)
      <3> DEFINE fr == [op |-> "drop", w |-> w, runs |-> Thunk(w)]
      <3>1. fr \in Frame
        BY DEF Frame, Thunk, Code
      <3>2. \A u \in Threads : Frames(u)' = Frames(u) \cup (IF u = t THEN {fr} ELSE {})
        BY <3>1, <2>6, EnterFrames DEF BeginDrop, Owns
      <3> QED BY <3>2
    <2>7. CASE EndDestructor(t, w)
      <3>1. \A u \in Threads : Frames(u)' \subseteq Frames(u)
        BY <2>7, LeaveFrames DEF EndDestructor
      <3> QED BY <3>1
    <2>8. CASE Call(t, w)
      <3> DEFINE fr == [op |-> "call", w |-> w,
                     runs |-> IF w \in ZstClosures THEN Thunk(w) ELSE Fetched(block[w])]
      <3>1. w \notin ZstClosures => block[w] \in Blocks /\ phase[w] \in Published
        BY <2>8 DEF Call, Consumes, CallContract, BlockOf, Holding, Published
      <3>2. w \notin ZstClosures => Fetched(block[w]) = Thunk(w)
        BY <3>1 DEF Fetched, CodeOf
      <3>3. fr = [op |-> "call", w |-> w, runs |-> Thunk(w)]
        BY <3>2
      <3>4. fr \in Frame
        BY <3>3 DEF Frame, Thunk, Code
      <3>5. \A u \in Threads : Frames(u)' = Frames(u) \cup (IF u = t THEN {fr} ELSE {})
        BY <3>4, <2>8, EnterFrames DEF Call, Consumes
      <3> QED BY <3>3, <3>5
    <2>9. CASE Return(t, w)
      <3>1. \A u \in Threads : Frames(u)' \subseteq Frames(u)
        BY <2>9, LeaveFrames DEF Return, Consumes
      <3> QED BY <3>1
    <2> QED BY <1>3, <2>1, <2>2, <2>3, <2>4, <2>5, <2>6, <2>7, <2>8, <2>9 DEF Use
  <1>4. CASE DropUserHandle
    BY <1>4 DEF DropUserHandle, Frames
  <1>5. ASSUME NEW b \in Blocks, Prefetch(b) PROVE CallsRunOwnThunk'
    BY <1>5 DEF Prefetch, Frames
  <1>6. CASE UNCHANGED vars
    BY <1>6 DEF vars, Frames
  <1> QED BY <1>1, <1>2, <1>3, <1>4, <1>5, <1>6 DEF Next

-----------------------------------------------------------------------------
(* CodeInv is inductive. *)

(* No wrapper has a block and no thread is inside the crate at the start.  *)
LEMMA CodeInvInit == Init => CodeInv
  <1> SUFFICES ASSUME Init PROVE CodeInv
    OBVIOUS
  <1>1. TypeOK
    BY TypeInit
  <1>2. \A w \in Wrappers : BlockOf(w) /\ CodeOf(w)
    BY DEF Init, BlockOf, CodeOf, BeforeAlloc, Holding, Writing, Published, ConstructionPhases
  <1>3. BlocksApart
    BY DEF Init, BlocksApart, HoldsBlock
  <1>4. BusyOne
    BY DEF Init, BusyOne
  <1>5. HandleKept
    BY DEF Init, HandleKept
  <1>6. CallsRunOwnThunk
    BY DEF Init, CallsRunOwnThunk, Frames
  <1> QED BY <1>1, <1>2, <1>3, <1>4, <1>5, <1>6 DEF CodeInv

(* The step lemmas, put together.                                          *)
LEMMA CodeInvStep == CodeInv /\ [Next]_vars => CodeInv'
  <1> SUFFICES ASSUME CodeInv, [Next]_vars PROVE CodeInv'
    OBVIOUS
  <1>1. TypeOK /\ BlocksApart /\ BusyOne /\ HandleKept /\ CallsRunOwnThunk
    BY DEF CodeInv
  <1>2. \A w \in Wrappers : BlockOf(w) /\ CodeOf(w)
    BY DEF CodeInv
  <1>3. TypeOK'
    BY <1>1, <1>2, TypeStep
  <1>4. \A w \in Wrappers : BlockOf(w)'
    BY <1>1, <1>2, BlockStep
  <1>5. \A w \in Wrappers : CodeOf(w)'
    BY <1>1, <1>2, <1>3, CodeOfStep
  <1>6. BlocksApart'
    BY <1>1, <1>2, ApartStep
  <1>7. BusyOne'
    BY <1>1, BusyStep
  <1>8. HandleKept'
    BY <1>1, HandleStep
  <1>9. CallsRunOwnThunk'
    BY <1>1, <1>2, CallsStep
  <1> QED BY <1>3, <1>4, <1>5, <1>6, <1>7, <1>8, <1>9 DEF CodeInv

(* Every reachable state satisfies CodeInv.                                *)
THEOREM CodeInvariant == Spec => []CodeInv
  <1>1. Init => CodeInv
    BY CodeInvInit
  <1>2. CodeInv /\ [Next]_vars => CodeInv'
    BY CodeInvStep
  <1> QED BY <1>1, <1>2, PTL DEF Spec

(* Every variable keeps its type.                                          *)
THEOREM TypeCorrect == Spec => []TypeOK
  <1>1. CodeInv => TypeOK
    BY DEF CodeInv
  <1> QED BY <1>1, CodeInvariant, PTL

(* For any number of threads, wrappers and blocks, a call that keeps to    *)
(* the contract runs exactly the thunk of its wrapper (arch.rs 251-276).   *)
THEOREM CallsRight == Spec => []CallsRunOwnThunk
  <1>1. CodeInv => CallsRunOwnThunk
    BY DEF CodeInv
  <1> QED BY <1>1, CodeInvariant, PTL

(* JitAlloc::release is only ever called on a block that is handed out and *)
(* belongs to that wrapper alone (arch.rs 172-178).                        *)
THEOREM BlocksSafe == Spec => []BlocksExclusive
  <1>1. CodeInv => BlocksExclusive
    BY DEF CodeInv, TypeOK, BlockOf, BlocksApart, BlocksExclusive, HoldsBlock, Phases,
           BeforeAlloc, Holding, Writing, Published, ConstructionPhases, DropPhases
  <1> QED BY <1>1, CodeInvariant, PTL

(* No thread leaves the crate with JIT memory writable (arch.rs 255-275).  *)
THEOREM UserCodeMayExecute == Spec => []UserCodeExecutable
  <1>1. CodeInv => UserCodeExecutable
    BY DEF CodeInv, TypeOK, BusyOne, UserCodeExecutable, InUserCode
  <1> QED BY <1>1, CodeInvariant, PTL

(* While any wrapper holds a block some handle keeps the allocator alive.  *)
THEOREM AllocatorSafe == Spec => []AllocatorOutlivesCode
  <1>1. CodeInv => AllocatorOutlivesCode
    BY DEF CodeInv, BlockOf, HandleKept, AllocatorOutlivesCode, HoldsBlock, BeforeAlloc
  <1> QED BY <1>1, CodeInvariant, PTL

-----------------------------------------------------------------------------
(* Action properties. *)

(* What one step writes.                                                   *)
Guarded == \A b \in Blocks : code'[b] # code[b] =>
               \E t \in Threads :
                  access[t] = "RW" /\ busy[t] # NoWrapper /\ block[busy[t]] = b

(* Only the three stores of new change code, between its protect calls.    *)
LEMMA WritesStep == CodeInv /\ [Next]_vars => Guarded
  <1> SUFFICES ASSUME CodeInv, [Next]_vars PROVE Guarded
    OBVIOUS
  <1>0. TypeOK /\ BusyOne
    BY DEF CodeInv
  <1> USE DEF wrapperVars, threadVars, memoryVars, threadSafetyVars
  <1>a. ASSUME code' = code PROVE Guarded
    BY <1>a DEF Guarded
  <1>b. ASSUME NEW t \in Threads, NEW w \in Wrappers, busy[t] = w, phase[w] \in Writing,
               NEW c, code' = [code EXCEPT ![block[w]] = c]
        PROVE  Guarded
    <2>1. access[t] = "RW" /\ busy[t] # NoWrapper
      BY <1>0, <1>b DEF BusyOne
    <2>2. \A b \in Blocks : b # block[w] => code'[b] = code[b]
      BY <1>0, <1>b DEF TypeOK
    <2> QED BY <1>b, <2>1, <2>2 DEF Guarded
  <1>1. ASSUME NEW t \in Threads, NEW w \in Wrappers, Construct(t, w) PROVE Guarded
    <2>1. CASE CopyTemplate(t, w)
      <3> DEFINE c == [template |-> w, closure |-> Junk, return |-> Junk]
      <3>1. busy[t] = w /\ phase[w] \in Writing
        BY <2>1 DEF CopyTemplate, Writing
      <3>2. code' = [code EXCEPT ![block[w]] = c]
        BY <2>1 DEF CopyTemplate
      <3> HIDE DEF c
      <3> QED BY <1>b, <3>1, <3>2
    <2>2. CASE WriteClosurePtr(t, w)
      <3> DEFINE old == code[block[w]]
                 c == [template |-> old.template, closure |-> w, return |-> old.return]
      <3>1. busy[t] = w /\ phase[w] \in Writing
        BY <2>2 DEF WriteClosurePtr, Writing
      <3>2. code' = [code EXCEPT ![block[w]] = c]
        BY <2>2 DEF WriteClosurePtr
      <3> HIDE DEF c
      <3> QED BY <1>b, <3>1, <3>2
    <2>3. CASE WriteReturn(t, w)
      <3> DEFINE old == code[block[w]]
                 c == [template |-> old.template, closure |-> old.closure, return |-> w]
      <3>1. busy[t] = w /\ phase[w] \in Writing
        BY <2>3 DEF WriteReturn, Writing
      <3>2. code' = [code EXCEPT ![block[w]] = c]
        BY <2>3 DEF WriteReturn
      <3> HIDE DEF c
      <3> QED BY <1>b, <3>1, <3>2
    <2>4. CASE ~(CopyTemplate(t, w) \/ WriteClosurePtr(t, w) \/ WriteReturn(t, w))
      BY <1>a, <1>1, <2>4 DEF Construct, UseTemplate, Relocate, Fail, Alloc, ProtectReadWrite,
                              ProtectReadExecute, Flush
    <2> QED BY <2>1, <2>2, <2>3, <2>4
  <1>2. ASSUME NEW t \in Threads, NEW w \in Wrappers, FinishDrop(t, w) PROVE Guarded
    BY <1>a, <1>2 DEF FinishDrop, Release, DropHandle
  <1>3. ASSUME NEW t \in Threads, NEW w \in Wrappers, Use(t, w) PROVE Guarded
    BY <1>a, <1>3 DEF Use, Box, Bare, Leak, Move, Upcast, BeginDrop, EndDestructor, Call, Return
  <1>4. CASE DropUserHandle
    BY <1>a, <1>4 DEF DropUserHandle
  <1>5. ASSUME NEW b \in Blocks, Prefetch(b) PROVE Guarded
    BY <1>a, <1>5 DEF Prefetch
  <1>6. CASE UNCHANGED vars
    BY <1>a, <1>6 DEF vars
  <1> QED BY <1>1, <1>2, <1>3, <1>4, <1>5, <1>6 DEF Next

(* No code is written through protection a thread has not lifted, nor into *)
(* a block it is not making a thunk in (arch.rs 255-275).                  *)
THEOREM WritesSafe == Spec => WritesAreUnprotected
  <1>1. CodeInv /\ [Next]_vars =>
          [\A b \in Blocks : code'[b] # code[b] =>
             \E t \in Threads :
                /\ access[t] = "RW"
                /\ busy[t] # NoWrapper /\ block[busy[t]] = b]_vars
    BY WritesStep DEF Guarded
  <1> QED BY <1>1, CodeInvariant, PTL DEF Spec, WritesAreUnprotected

(* No step takes a leaked wrapper on, or its block back.                   *)
LEMMA LeakedStep ==
    ASSUME CodeInv, [Next]_vars, NEW l \in Wrappers, phase[l] = "leaked"
    PROVE  /\ phase'[l] = "leaked"
           /\ block[l] # NoBlock => arena'[block[l]] = arena[block[l]]
  <1> DEFINE Stays == /\ phase'[l] = "leaked"
                      /\ block[l] # NoBlock => arena'[block[l]] = arena[block[l]]
  <1>0. TypeOK /\ BlocksApart /\ \A w \in Wrappers : BlockOf(w)
    BY DEF CodeInv
  <1>a. block[l] # NoBlock => block[l] \in Blocks /\ arena[block[l]] # NoThread
    BY <1>0 DEF BlockOf, Holding, Published
  <1>b. ASSUME NEW w \in Wrappers, phase[w] # "leaked", arena' = arena,
               \E p : phase' = [phase EXCEPT ![w] = p]
        PROVE  Stays
    BY <1>0, <1>b DEF TypeOK
  <1>c. ASSUME phase' = phase, arena' = arena PROVE Stays
    BY <1>c
  <1> USE DEF wrapperVars, threadVars, memoryVars, threadSafetyVars
  <1>1. ASSUME NEW t \in Threads, NEW w \in Wrappers, Construct(t, w) PROVE Stays
    <2>1. CASE UseTemplate(t, w)
      BY <1>b, <2>1 DEF UseTemplate
    <2>2. CASE Relocate(t, w)
      BY <1>b, <2>2 DEF Relocate
    <2>3. CASE Fail(t, w)
      BY <1>b, <2>3 DEF Fail
    <2>4. ASSUME NEW b \in Blocks, Alloc(t, w, b) PROVE Stays
      <3>1. /\ phase[w] = "relocated" /\ phase' = [phase EXCEPT ![w] = "allocated"]
            /\ arena[b] = NoThread /\ arena' = [arena EXCEPT ![b] = t]
        BY <2>4 DEF Alloc
      <3>2. block[l] # NoBlock => block[l] # b
        BY <3>1, <1>a
      <3> QED BY <1>0, <1>a, <3>1, <3>2 DEF TypeOK
    <2>5. CASE ProtectReadWrite(t, w)
      BY <1>b, <2>5 DEF ProtectReadWrite
    <2>6. CASE CopyTemplate(t, w)
      BY <1>b, <2>6 DEF CopyTemplate
    <2>7. CASE WriteClosurePtr(t, w)
      BY <1>b, <2>7 DEF WriteClosurePtr
    <2>8. CASE WriteReturn(t, w)
      BY <1>b, <2>8 DEF WriteReturn
    <2>9. CASE ProtectReadExecute(t, w)
      BY <1>b, <2>9 DEF ProtectReadExecute
    <2>10. CASE Flush(t, w)
      BY <1>b, <2>10 DEF Flush
    <2> HIDE DEF Stays
    <2> QED BY <1>1, <2>1, <2>2, <2>3, <2>4, <2>5, <2>6, <2>7, <2>8, <2>9, <2>10 DEF Construct
  <1>2. ASSUME NEW t \in Threads, NEW w \in Wrappers, FinishDrop(t, w) PROVE Stays
    <2>1. CASE Release(t, w)
      <3>1. /\ phase[w] = "releasing" /\ phase' = [phase EXCEPT ![w] = "released"]
            /\ \/ arena' = arena
               \/ block[w] # NoBlock /\ arena' = [arena EXCEPT ![block[w]] = NoThread]
        BY <2>1 DEF Release
      <3>2. block[l] # NoBlock /\ block[w] # NoBlock => block[l] # block[w]
        BY <1>0, <3>1 DEF BlocksApart, HoldsBlock
      <3> QED BY <1>0, <1>a, <3>1, <3>2 DEF TypeOK
    <2>2. CASE DropHandle(t, w)
      BY <1>b, <2>2 DEF DropHandle
    <2> HIDE DEF Stays
    <2> QED BY <1>2, <2>1, <2>2 DEF FinishDrop
  <1>3. ASSUME NEW t \in Threads, NEW w \in Wrappers, Use(t, w) PROVE Stays
    <2>1. CASE Box(t, w)
      BY <1>b, <2>1 DEF Box
    <2>2. CASE Bare(t, w)
      BY <1>c, <2>2 DEF Bare
    <2>3. CASE Leak(t, w)
      BY <1>b, <2>3 DEF Leak, Owns
    <2>4. ASSUME NEW u \in Threads, Move(t, u, w) PROVE Stays
      BY <1>c, <2>4 DEF Move
    <2>5. CASE Upcast(t, w)
      BY <1>c, <2>5 DEF Upcast
    <2>6. CASE BeginDrop(t, w)
      BY <1>b, <2>6 DEF BeginDrop, Owns
    <2>7. CASE EndDestructor(t, w)
      BY <1>b, <2>7 DEF EndDestructor
    <2>8. CASE Call(t, w)
      BY <1>c, <2>8 DEF Call
    <2>9. CASE Return(t, w)
      BY <1>c, <2>9 DEF Return
    <2> HIDE DEF Stays
    <2> QED BY <1>3, <2>1, <2>2, <2>3, <2>4, <2>5, <2>6, <2>7, <2>8, <2>9 DEF Use
  <1>4. ASSUME DropUserHandle PROVE Stays
    BY <1>c, <1>4 DEF DropUserHandle
  <1>5. ASSUME NEW b \in Blocks, Prefetch(b) PROVE Stays
    BY <1>c, <1>5 DEF Prefetch
  <1>6. ASSUME UNCHANGED vars PROVE Stays
    BY <1>c, <1>6 DEF vars
  <1>7. Stays
    <2> HIDE DEF Stays
    <2> QED BY <1>1, <1>2, <1>3, <1>4, <1>5, <1>6 DEF Next
  <1> QED BY <1>7

(* The thunk of a leaked wrapper is there for ever: no other wrapper's     *)
(* construction or drop frees its block, writes into it or drops its       *)
(* allocator handle (bare_closure.rs 357-373).                             *)
THEOREM LeakedSafe == Spec => LeakedStays
  <1>1. CodeInv /\ [Next]_vars =>
          [\A w \in Wrappers : phase[w] = "leaked" =>
             /\ phase'[w] = "leaked"
             /\ w \in handles'
             /\ block[w] # NoBlock =>
                   /\ arena'[block[w]] = arena[block[w]]
                   /\ code'[block[w]] = code[block[w]]]_vars
    <2> SUFFICES ASSUME CodeInv, [Next]_vars, NEW w \in Wrappers, phase[w] = "leaked"
                 PROVE  /\ phase'[w] = "leaked"
                        /\ w \in handles'
                        /\ block[w] # NoBlock =>
                              /\ arena'[block[w]] = arena[block[w]]
                              /\ code'[block[w]] = code[block[w]]
      OBVIOUS
    <2>1. /\ phase'[w] = "leaked"
          /\ block[w] # NoBlock => arena'[block[w]] = arena[block[w]]
      BY LeakedStep
    <2>2. w \in handles'
      BY <2>1, CodeInvStep DEF CodeInv, HandleKept
    <2>3. ASSUME block[w] # NoBlock, code'[block[w]] # code[block[w]] PROVE FALSE
      <3>1. block[w] \in Blocks
        BY <2>3 DEF CodeInv, TypeOK
      <3>2. PICK t \in Threads :
               access[t] = "RW" /\ busy[t] # NoWrapper /\ block[busy[t]] = block[w]
        BY <2>3, <3>1, WritesStep DEF Guarded
      <3>3. busy[t] \in Wrappers /\ phase[busy[t]] \in Writing
        BY <3>2 DEF CodeInv, TypeOK, BusyOne
      <3>4. HoldsBlock(w) /\ HoldsBlock(busy[t])
        BY <2>3, <3>2, <3>3 DEF HoldsBlock, Writing
      <3>5. busy[t] = w
        BY <3>2, <3>3, <3>4 DEF CodeInv, BlocksApart
      <3> QED BY <3>3, <3>5 DEF Writing
    <2> QED BY <2>1, <2>2, <2>3
  <1> QED BY <1>1, CodeInvariant, PTL DEF Spec, LeakedStays
=============================================================================
