-------------------------- MODULE BareClosureLife ---------------------------
(***************************************************************************)
(* LifeInv is inductive relative to CodeInv: when a closure is alive, who  *)
(* destroys it, and what that means for the calls that run in it; and so   *)
(* is HomeInv relative to both: which threads all that may happen on.      *)
(***************************************************************************)
EXTENDS BareClosureProofs

(* The frame a call adds.                                                  *)
LEMMA CallFrames ==
    ASSUME CodeInv, NEW t \in Threads, NEW w \in Wrappers, Call(t, w)
    PROVE  LET fr == [op |-> "call", w |-> w,
                      runs |-> IF w \in ZstClosures THEN Thunk(w) ELSE Fetched(block[w])]
           IN /\ fr \in Frame
              /\ fr = [op |-> "call", w |-> w, runs |-> Thunk(w)]
              /\ \A u \in Threads : Frames(u)' = Frames(u) \cup (IF u = t THEN {fr} ELSE {})
  <1> DEFINE fr == [op |-> "call", w |-> w,
                    runs |-> IF w \in ZstClosures THEN Thunk(w) ELSE Fetched(block[w])]
  <1>1. TypeOK /\ BlockOf(w) /\ CodeOf(w)
    BY DEF CodeInv
  <1>2. w \notin ZstClosures => phase[w] \in Published
    BY DEF Call, Consumes, CallContract
  <1>3. w \notin ZstClosures => Fetched(block[w]) = Thunk(w)
    BY <1>1, <1>2 DEF Fetched, CodeOf
  <1>4. fr = [op |-> "call", w |-> w, runs |-> Thunk(w)]
    BY <1>3
  <1>5. fr \in Frame
    BY <1>4 DEF Frame, Thunk, Code
  <1>6. \A u \in Threads : Frames(u)' = Frames(u) \cup (IF u = t THEN {fr} ELSE {})
    BY <1>1, <1>5, EnterFrames DEF Call, Consumes
  <1> QED BY <1>4, <1>5, <1>6

(* The frame a destructor adds.                                            *)
LEMMA DropFrames ==
    ASSUME TypeOK, NEW t \in Threads, NEW w \in Wrappers, BeginDrop(t, w)
    PROVE  LET fr == [op |-> "drop", w |-> w, runs |-> Thunk(w)]
           IN /\ fr \in Frame
              /\ \A u \in Threads : Frames(u)' = Frames(u) \cup (IF u = t THEN {fr} ELSE {})
  <1> DEFINE fr == [op |-> "drop", w |-> w, runs |-> Thunk(w)]
  <1>1. fr \in Frame
    BY DEF Frame, Thunk, Code
  <1>2. \A u \in Threads : Frames(u)' = Frames(u) \cup (IF u = t THEN {fr} ELSE {})
    BY <1>1, EnterFrames DEF BeginDrop, Owns
  <1> QED BY <1>1, <1>2

(* A wrapper nobody has published is in nobody's hands: construction hands *)
(* out no pointer, and an FnOnce wrapper has no bare().                    *)
LEMMA UnreachableStep ==
    ASSUME CodeInv, TypeOK, \A v \in Wrappers : Unreachable(v), [Next]_vars
    PROVE  \A v \in Wrappers : Unreachable(v)'
  <1> USE DEF wrapperVars, threadVars, memoryVars, threadSafetyVars
  <1> USE DEF ConstructionPhases, DropPhases, Published, NotYetPublished, Unreachable, TypeOK
  <1>1. ASSUME NEW t \in Threads, NEW w \in Wrappers, Construct(t, w) PROVE \A v \in Wrappers : Unreachable(v)'
    <2>1. CASE UseTemplate(t, w)
      BY <2>1 DEF UseTemplate, Frames
    <2>2. CASE Relocate(t, w)
      BY <2>2 DEF Relocate, Frames
    <2>3. CASE Fail(t, w)
      BY <2>3 DEF Fail, Frames
    <2>4. ASSUME NEW b \in Blocks, Alloc(t, w, b) PROVE \A v \in Wrappers : Unreachable(v)'
      BY <2>4 DEF Alloc, Frames
    <2>5. CASE ProtectReadWrite(t, w)
      BY <2>5 DEF ProtectReadWrite, Frames
    <2>6. CASE CopyTemplate(t, w)
      BY <2>6 DEF CopyTemplate, Frames
    <2>7. CASE WriteClosurePtr(t, w)
      BY <2>7 DEF WriteClosurePtr, Frames
    <2>8. CASE WriteReturn(t, w)
      BY <2>8 DEF WriteReturn, Frames
    <2>9. CASE ProtectReadExecute(t, w)
      BY <2>9 DEF ProtectReadExecute, Frames
    <2>10. CASE Flush(t, w)
      BY <2>10 DEF Flush, Frames
    <2> QED BY <1>1, <2>1, <2>2, <2>3, <2>4, <2>5, <2>6, <2>7, <2>8, <2>9, <2>10 DEF Construct
  <1>2. ASSUME NEW t \in Threads, NEW w \in Wrappers, FinishDrop(t, w) PROVE \A v \in Wrappers : Unreachable(v)'
    <2>1. CASE Release(t, w)
      BY <2>1 DEF Release, Frames
    <2>2. CASE DropHandle(t, w)
      BY <2>2 DEF DropHandle, Frames
    <2> QED BY <1>2, <2>1, <2>2 DEF FinishDrop
  <1>3. ASSUME NEW t \in Threads, NEW w \in Wrappers, Use(t, w) PROVE \A v \in Wrappers : Unreachable(v)'
    <2>1. CASE Box(t, w)
      BY <2>1 DEF Box, Frames
    <2>2. CASE Bare(t, w)
      BY <2>2 DEF Bare, HasBare, Owns, Frames
    <2>3. CASE Leak(t, w)
      BY <2>3 DEF Leak, Owns, Frames
    <2>4. ASSUME NEW u \in Threads, Move(t, u, w) PROVE \A v \in Wrappers : Unreachable(v)'
      BY <2>4 DEF Move, Owns, Frames
    <2>5. CASE Upcast(t, w)
      BY <2>5 DEF Upcast, Owns, Frames
    <2>6. CASE BeginDrop(t, w)
      <3> DEFINE fr == [op |-> "drop", w |-> w, runs |-> Thunk(w)]
      <3>1. \A u \in Threads : Frames(u)' = Frames(u) \cup (IF u = t THEN {fr} ELSE {})
        BY <2>6, DropFrames
      <3> QED BY <3>1, <2>6 DEF BeginDrop, Owns
    <2>7. CASE EndDestructor(t, w)
      <3>1. \A u \in Threads : Frames(u)' \subseteq Frames(u)
        BY <2>7, LeaveFrames DEF EndDestructor
      <3> QED BY <3>1, <2>7 DEF EndDestructor
    <2>8. CASE Call(t, w)
      <3> DEFINE fr == [op |-> "call", w |-> w,
                     runs |-> IF w \in ZstClosures THEN Thunk(w) ELSE Fetched(block[w])]
      <3>1. \A u \in Threads : Frames(u)' = Frames(u) \cup (IF u = t THEN {fr} ELSE {})
        BY <2>8, CallFrames
      <3>2. phase[w] \in Published /\ phase' = phase /\ obtained' = obtained
        BY <2>8 DEF Call, Consumes, CallContract
      <3>3. w \in OnceClosures => phase[w] = "leaked"
        BY <2>8 DEF Call, Consumes, CallContract, OnceContract, HasPointer, PointerShared
      <3>4. \A v \in Wrappers : v # w => (v \in called' <=> v \in called)
        BY <2>8 DEF Call, Consumes, Frames
      <3>5. ASSUME NEW v \in Wrappers PROVE Unreachable(v)'
        <4>1. CASE v = w
          BY <4>1, <3>2, <3>3
        <4>2. CASE v # w
          <5>1. fr.w = w
            OBVIOUS
          <5> QED BY <4>2, <5>1, <3>1, <3>2, <3>4
        <4> QED BY <4>1, <4>2
      <3> QED BY <3>5
    <2>9. CASE Return(t, w)
      <3>1. \A u \in Threads : Frames(u)' \subseteq Frames(u)
        BY <2>9, LeaveFrames DEF Return, Consumes
      <3> QED BY <3>1, <2>9 DEF Return, Consumes
    <2> QED BY <1>3, <2>1, <2>2, <2>3, <2>4, <2>5, <2>6, <2>7, <2>8, <2>9 DEF Use
  <1>4. CASE DropUserHandle
    <2>1. stack' = stack /\ phase' = phase /\ obtained' = obtained /\ called' = called
      BY <1>4 DEF DropUserHandle
    <2>2. \A u \in Threads : Frames(u)' = Frames(u)
      BY <2>1 DEF Frames
    <2> QED BY <2>1, <2>2
  <1>5. ASSUME NEW b \in Blocks, Prefetch(b) PROVE \A v \in Wrappers : Unreachable(v)'
    BY <1>5 DEF Prefetch, Frames
  <1>6. CASE UNCHANGED vars
    BY <1>6 DEF vars, Frames
  <1> QED BY <1>1, <1>2, <1>3, <1>4, <1>5, <1>6 DEF Next

(* The drop of the wrapper and the return of an FnOnce call each destroy the*)
(* closure, and exclude one another: after leak() there is no drop.        *)
LEMMA ClosureStep ==
    ASSUME TypeOK, \A v \in Wrappers : Unreachable(v) /\ ClosureOf(v), OnceCounted, [Next]_vars
    PROVE  \A v \in Wrappers : ClosureOf(v)'
  <1> USE DEF wrapperVars, threadVars, memoryVars, threadSafetyVars
  <1> USE DEF ConstructionPhases, DropPhases, Published, NotYetPublished, Unreachable, ClosureOf, OnceCounted, Phases, TypeOK
  <1>1. ASSUME NEW t \in Threads, NEW w \in Wrappers, Construct(t, w) PROVE \A v \in Wrappers : ClosureOf(v)'
    <2>1. CASE UseTemplate(t, w)
      BY <2>1 DEF UseTemplate
    <2>2. CASE Relocate(t, w)
      BY <2>2 DEF Relocate
    <2>3. CASE Fail(t, w)
      BY <2>3 DEF Fail
    <2>4. ASSUME NEW b \in Blocks, Alloc(t, w, b) PROVE \A v \in Wrappers : ClosureOf(v)'
      BY <2>4 DEF Alloc
    <2>5. CASE ProtectReadWrite(t, w)
      BY <2>5 DEF ProtectReadWrite
    <2>6. CASE CopyTemplate(t, w)
      BY <2>6 DEF CopyTemplate
    <2>7. CASE WriteClosurePtr(t, w)
      BY <2>7 DEF WriteClosurePtr
    <2>8. CASE WriteReturn(t, w)
      BY <2>8 DEF WriteReturn
    <2>9. CASE ProtectReadExecute(t, w)
      BY <2>9 DEF ProtectReadExecute
    <2>10. CASE Flush(t, w)
      BY <2>10 DEF Flush
    <2> QED BY <1>1, <2>1, <2>2, <2>3, <2>4, <2>5, <2>6, <2>7, <2>8, <2>9, <2>10 DEF Construct
  <1>2. ASSUME NEW t \in Threads, NEW w \in Wrappers, FinishDrop(t, w) PROVE \A v \in Wrappers : ClosureOf(v)'
    <2>1. CASE Release(t, w)
      BY <2>1 DEF Release
    <2>2. CASE DropHandle(t, w)
      BY <2>2 DEF DropHandle
    <2> QED BY <1>2, <2>1, <2>2 DEF FinishDrop
  <1>3. ASSUME NEW t \in Threads, NEW w \in Wrappers, Use(t, w) PROVE \A v \in Wrappers : ClosureOf(v)'
    <2>1. CASE Box(t, w)
      BY <2>1 DEF Box
    <2>2. CASE Bare(t, w)
      BY <2>2 DEF Bare, HasBare, Owns
    <2>3. CASE Leak(t, w)
      BY <2>3 DEF Leak, Owns
    <2>4. ASSUME NEW u \in Threads, Move(t, u, w) PROVE \A v \in Wrappers : ClosureOf(v)'
      BY <2>4 DEF Move, Owns
    <2>5. CASE Upcast(t, w)
      BY <2>5 DEF Upcast, Owns
    <2>6. CASE BeginDrop(t, w)
      BY <2>6 DEF BeginDrop, Owns
    <2>7. CASE EndDestructor(t, w)
      BY <2>7 DEF EndDestructor
    <2>8. CASE Call(t, w)
      <3>1. w \in OnceClosures => w \notin called /\ phase[w] = "leaked"
        BY <2>8 DEF Call, Consumes, CallContract, OnceContract, HasPointer, PointerShared
      <3> QED BY <3>1, <2>8 DEF Call, Consumes
    <2>9. CASE Return(t, w)
      <3>1. w \in OnceClosures => w \in called /\ closure[w] = "moved"
        <4>1. Head(stack[t]) \in Frames(t) /\ Head(stack[t]).op = "call" /\ Head(stack[t]).w = w
          BY <2>9, LeaveFrames DEF Return, Consumes
        <4> QED BY <4>1
      <3>2. w \in OnceClosures => phase[w] = "leaked" /\ drops[w] = 0
        BY <3>1
      <3> QED BY <3>1, <3>2, <2>9 DEF Return, Consumes
    <2> QED BY <1>3, <2>1, <2>2, <2>3, <2>4, <2>5, <2>6, <2>7, <2>8, <2>9 DEF Use
  <1>4. CASE DropUserHandle
    BY <1>4 DEF DropUserHandle
  <1>5. ASSUME NEW b \in Blocks, Prefetch(b) PROVE \A v \in Wrappers : ClosureOf(v)'
    BY <1>5 DEF Prefetch
  <1>6. CASE UNCHANGED vars
    BY <1>6 DEF vars
  <1> QED BY <1>1, <1>2, <1>3, <1>4, <1>5, <1>6 DEF Next

(* Positions on the stacks after a frame is pushed or popped.              *)
LEMMA EnterPositions ==
    ASSUME TypeOK, NEW t \in Threads, NEW fr \in Frame, Enter(t, fr)
    PROVE  \A u \in Threads : \A i \in 1..Len(stack'[u]) :
              \/ u = t /\ i = 1 /\ stack'[u][i] = fr
              \/ u = t /\ i - 1 \in 1..Len(stack[u]) /\ stack'[u][i] = stack[u][i - 1]
              \/ u # t /\ i \in 1..Len(stack[u]) /\ stack'[u][i] = stack[u][i]
  <1>1. stack[t] \in Seq(Frame) /\ stack' = [stack EXCEPT ![t] = <<fr>> \o stack[t]]
    BY DEF TypeOK, Enter
  <1>2. ASSUME NEW u \in Threads, NEW i \in 1..Len(stack'[u]), u = t
        PROVE  \/ i = 1 /\ stack'[u][i] = fr
               \/ i - 1 \in 1..Len(stack[u]) /\ stack'[u][i] = stack[u][i - 1]
    <2>1. stack'[u] = <<fr>> \o stack[t]
      BY <1>1, <1>2 DEF TypeOK
    <2>2. Len(stack'[u]) = Len(stack[t]) + 1 /\ Len(stack[t]) \in Nat
      BY <2>1, <1>1, PushFrame
    <2>3. stack'[u][i] = IF i = 1 THEN fr ELSE stack[t][i - 1]
      BY <2>1, <1>1, PushFrame
    <2> QED BY <1>2, <2>2, <2>3
  <1>3. ASSUME NEW u \in Threads, u # t PROVE stack'[u] = stack[u]
    BY <1>1, <1>3 DEF TypeOK
  <1> QED BY <1>2, <1>3

(* Leaving shifts the positions of one thread down by one.                 *)
LEMMA LeavePositions ==
    ASSUME TypeOK, NEW t \in Threads, NEW op, NEW w, Leave(t, op, w)
    PROVE  /\ 1 \in 1..Len(stack[t]) /\ stack[t][1].op = op /\ stack[t][1].w = w
           /\ \A u \in Threads : \A i \in 1..Len(stack'[u]) :
                 \/ u = t /\ i + 1 \in 1..Len(stack[u]) /\ stack'[u][i] = stack[u][i + 1]
                 \/ u # t /\ i \in 1..Len(stack[u]) /\ stack'[u][i] = stack[u][i]
  <1>1. /\ stack[t] \in Seq(Frame) /\ stack[t] # <<>>
        /\ stack' = [stack EXCEPT ![t] = Tail(stack[t])]
        /\ Head(stack[t]).op = op /\ Head(stack[t]).w = w
    BY DEF TypeOK, Leave
  <1>2. Len(stack[t]) \in Nat \ {0} /\ Head(stack[t]) = stack[t][1]
    BY <1>1, PopFrame
  <1>3. ASSUME NEW u \in Threads, NEW i \in 1..Len(stack'[u]), u = t
        PROVE  i + 1 \in 1..Len(stack[u]) /\ stack'[u][i] = stack[u][i + 1]
    <2>1. stack'[u] = Tail(stack[t])
      BY <1>1, <1>3 DEF TypeOK
    <2>2. Len(stack'[u]) = Len(stack[t]) - 1
      BY <2>1, <1>1, PopFrame
    <2>3. stack'[u][i] = stack[t][i + 1]
      BY <2>1, <1>1, PopFrame
    <2> QED BY <1>3, <1>2, <2>2, <2>3
  <1>4. ASSUME NEW u \in Threads, u # t PROVE stack'[u] = stack[u]
    BY <1>1, <1>4 DEF TypeOK
  <1>5. 1 \in 1..Len(stack[t])
    BY <1>2
  <1>6. stack[t][1].op = op /\ stack[t][1].w = w
    BY <1>1, <1>2
  <1>7. ASSUME NEW u \in Threads, NEW i \in 1..Len(stack'[u])
        PROVE  \/ u = t /\ i + 1 \in 1..Len(stack[u]) /\ stack'[u][i] = stack[u][i + 1]
               \/ u # t /\ i \in 1..Len(stack[u]) /\ stack'[u][i] = stack[u][i]
    <2>1. CASE u = t
      BY <1>3, <2>1
    <2>2. CASE u # t
      BY <1>4, <2>2
    <2> QED BY <2>1, <2>2
  <1> QED BY <1>5, <1>6, <1>7

(* A new frame of an FnOnce closure that has none keeps them unique.       *)
LEMMA OnceUniqueEnter ==
    ASSUME TypeOK, NEW t \in Threads, NEW fr \in Frame, Enter(t, fr), OnceUnique,
           \A u \in Threads : \A f \in Frames(u) :
              ~(/\ fr.op = "call" /\ f.op = "call"
                /\ fr.w = f.w /\ fr.w \in OnceClosures)
    PROVE  OnceUnique'
  <1> SUFFICES ASSUME NEW u \in Threads, NEW x \in Threads,
                      NEW i \in 1..Len(stack'[u]), NEW j \in 1..Len(stack'[x]),
                      stack'[u][i].op = "call", stack'[x][j].op = "call",
                      stack'[u][i].w = stack'[x][j].w, stack'[u][i].w \in OnceClosures
               PROVE  u = x /\ i = j
    BY DEF OnceUnique
  <1> DEFINE New(y, k) == y = t /\ k = 1 /\ stack'[y][k] = fr
             At(y, k) == IF y = t THEN k - 1 ELSE k
             Old(y, k) == At(y, k) \in 1..Len(stack[y]) /\ stack'[y][k] = stack[y][At(y, k)]
  <1>1. /\ New(u, i) \/ Old(u, i)
        /\ New(x, j) \/ Old(x, j)
    BY EnterPositions
  <1>2. \A y \in Threads : \A k : Old(y, k) => stack'[y][k] \in Frames(y)
    BY DEF Frames
  <1>3. CASE New(u, i) /\ New(x, j)
    BY <1>3
  <1>4. CASE New(u, i) /\ Old(x, j)
    BY <1>4, <1>2
  <1>5. CASE Old(u, i) /\ New(x, j)
    BY <1>5, <1>2
  <1>6. CASE Old(u, i) /\ Old(x, j)
    <2>1. u = x /\ At(u, i) = At(x, j)
      BY <1>6 DEF OnceUnique
    <2> QED BY <2>1
  <1> QED BY <1>1, <1>3, <1>4, <1>5, <1>6

(* Leaving keeps them unique, and leaves none of the closure left.         *)
LEMMA OnceUniqueLeave ==
    ASSUME TypeOK, NEW t \in Threads, NEW op, NEW w, Leave(t, op, w), OnceUnique
    PROVE  /\ OnceUnique'
           /\ op = "call" /\ w \in OnceClosures =>
                 \A u \in Threads : \A f \in Frames(u)' : ~(f.op = "call" /\ f.w = w)
  <1> DEFINE At(y, k) == IF y = t THEN k + 1 ELSE k
  <1>1. /\ 1 \in 1..Len(stack[t]) /\ stack[t][1].op = op /\ stack[t][1].w = w
        /\ \A u \in Threads : \A i \in 1..Len(stack'[u]) :
              At(u, i) \in 1..Len(stack[u]) /\ stack'[u][i] = stack[u][At(u, i)]
    BY LeavePositions
  <1>2. ASSUME NEW u \in Threads, NEW x \in Threads,
               NEW i \in 1..Len(stack'[u]), NEW j \in 1..Len(stack'[x]),
               stack'[u][i].op = "call", stack'[x][j].op = "call",
               stack'[u][i].w = stack'[x][j].w, stack'[u][i].w \in OnceClosures
        PROVE  u = x /\ i = j
    <2>1. /\ At(u, i) \in 1..Len(stack[u]) /\ stack[u][At(u, i)] = stack'[u][i]
          /\ At(x, j) \in 1..Len(stack[x]) /\ stack[x][At(x, j)] = stack'[x][j]
      BY <1>1, <1>2
    <2>2. \A p \in 1..Len(stack[u]), q \in 1..Len(stack[x]) :
             stack[u][p] = stack'[u][i] /\ stack[x][q] = stack'[x][j] => u = x /\ p = q
      <3> SUFFICES ASSUME NEW p \in 1..Len(stack[u]), NEW q \in 1..Len(stack[x]),
                          stack[u][p] = stack'[u][i], stack[x][q] = stack'[x][j]
                   PROVE  u = x /\ p = q
        OBVIOUS
      <3>1. stack[u][p].op = "call" /\ stack[x][q].op = "call"
        BY <1>2
      <3>2. stack[u][p].w = stack[x][q].w /\ stack[u][p].w \in OnceClosures
        BY <1>2
      <3> QED BY <3>1, <3>2 DEF OnceUnique
    <2>3. u = x /\ At(u, i) = At(x, j)
      BY <2>1, <2>2
    <2> QED BY <2>3
  <1>3. ASSUME op = "call", w \in OnceClosures,
               NEW u \in Threads, NEW f \in Frames(u)', f.op = "call", f.w = w
        PROVE  FALSE
    <2>1. PICK i \in 1..Len(stack'[u]) : f = stack'[u][i]
      BY <1>3 DEF Frames
    <2>2. At(u, i) \in 1..Len(stack[u]) /\ stack[u][At(u, i)] = f
      BY <1>1, <2>1
    <2>3. u = t /\ At(u, i) = 1
      BY <1>1, <1>3, <2>2 DEF OnceUnique
    <2> QED BY <2>3
  <1> QED BY <1>2, <1>3 DEF OnceUnique

(* The thunk of an FnOnce closure is called at most once, so its frame is  *)
(* the only one.                                                           *)
LEMMA OnceUniqueStep ==
    ASSUME CodeInv, TypeOK, OnceCounted, OnceUnique, [Next]_vars
    PROVE  OnceUnique'
  <1> USE DEF wrapperVars, threadVars, memoryVars, threadSafetyVars
  <1> USE DEF OnceUnique
  <1>1. ASSUME NEW t \in Threads, NEW w \in Wrappers, Construct(t, w) PROVE OnceUnique'
    <2>1. CASE UseTemplate(t, w)
      BY <2>1 DEF UseTemplate
    <2>2. CASE Relocate(t, w)
      BY <2>2 DEF Relocate
    <2>3. CASE Fail(t, w)
      BY <2>3 DEF Fail
    <2>4. ASSUME NEW b \in Blocks, Alloc(t, w, b) PROVE OnceUnique'
      BY <2>4 DEF Alloc
    <2>5. CASE ProtectReadWrite(t, w)
      BY <2>5 DEF ProtectReadWrite
    <2>6. CASE CopyTemplate(t, w)
      BY <2>6 DEF CopyTemplate
    <2>7. CASE WriteClosurePtr(t, w)
      BY <2>7 DEF WriteClosurePtr
    <2>8. CASE WriteReturn(t, w)
      BY <2>8 DEF WriteReturn
    <2>9. CASE ProtectReadExecute(t, w)
      BY <2>9 DEF ProtectReadExecute
    <2>10. CASE Flush(t, w)
      BY <2>10 DEF Flush
    <2> QED BY <1>1, <2>1, <2>2, <2>3, <2>4, <2>5, <2>6, <2>7, <2>8, <2>9, <2>10 DEF Construct
  <1>2. ASSUME NEW t \in Threads, NEW w \in Wrappers, FinishDrop(t, w) PROVE OnceUnique'
    <2>1. CASE Release(t, w)
      BY <2>1 DEF Release
    <2>2. CASE DropHandle(t, w)
      BY <2>2 DEF DropHandle
    <2> QED BY <1>2, <2>1, <2>2 DEF FinishDrop
  <1>3. ASSUME NEW t \in Threads, NEW w \in Wrappers, Use(t, w) PROVE OnceUnique'
    <2>1. CASE Box(t, w)
      BY <2>1 DEF Box
    <2>2. CASE Bare(t, w)
      BY <2>2 DEF Bare, HasBare, Owns
    <2>3. CASE Leak(t, w)
      BY <2>3 DEF Leak, Owns
    <2>4. ASSUME NEW u \in Threads, Move(t, u, w) PROVE OnceUnique'
      BY <2>4 DEF Move, Owns
    <2>5. CASE Upcast(t, w)
      BY <2>5 DEF Upcast, Owns
    <2>6. CASE BeginDrop(t, w)
      <3> DEFINE fr == [op |-> "drop", w |-> w, runs |-> Thunk(w)]
      <3>1. fr \in Frame /\ Enter(t, fr)
        BY <2>6, DropFrames DEF BeginDrop, Owns
      <3>2. fr.op # "call"
        OBVIOUS
      <3> QED BY <3>1, <3>2, OnceUniqueEnter
    <2>7. CASE EndDestructor(t, w)
      BY <2>7, OnceUniqueLeave DEF EndDestructor
    <2>8. CASE Call(t, w)
      <3> DEFINE fr == [op |-> "call", w |-> w,
                     runs |-> IF w \in ZstClosures THEN Thunk(w) ELSE Fetched(block[w])]
      <3>1. fr \in Frame /\ Enter(t, fr)
        BY <2>8, CallFrames DEF Call, Consumes
      <3>2. w \in OnceClosures => w \notin called
        BY <2>8 DEF Call, Consumes, CallContract, OnceContract
      <3>3. fr.w = w
        OBVIOUS
      <3>4. \A u \in Threads : \A f \in Frames(u) :
               ~(fr.op = "call" /\ f.op = "call" /\ fr.w = f.w /\ fr.w \in OnceClosures)
        BY <3>2, <3>3 DEF OnceCounted
      <3> QED BY <3>1, <3>4, OnceUniqueEnter
    <2>9. CASE Return(t, w)
      BY <2>9, OnceUniqueLeave DEF Return, Consumes
    <2> QED BY <1>3, <2>1, <2>2, <2>3, <2>4, <2>5, <2>6, <2>7, <2>8, <2>9 DEF Use
  <1>4. CASE DropUserHandle
    BY <1>4 DEF DropUserHandle
  <1>5. ASSUME NEW b \in Blocks, Prefetch(b) PROVE OnceUnique'
    BY <1>5 DEF Prefetch
  <1>6. CASE UNCHANGED vars
    BY <1>6 DEF vars
  <1> QED BY <1>1, <1>2, <1>3, <1>4, <1>5, <1>6 DEF Next

(* The one call of an FnOnce closure owns the closure until it returns.    *)
LEMMA OnceCountedStep ==
    ASSUME CodeInv, TypeOK, \A v \in Wrappers : Unreachable(v), OnceCounted, OnceUnique, [Next]_vars
    PROVE  OnceCounted'
  <1> USE DEF wrapperVars, threadVars, memoryVars, threadSafetyVars
  <1> USE DEF OnceCounted
  <1>1. ASSUME NEW t \in Threads, NEW w \in Wrappers, Construct(t, w) PROVE OnceCounted'
    <2>1. CASE UseTemplate(t, w)
      BY <2>1 DEF UseTemplate, Frames
    <2>2. CASE Relocate(t, w)
      BY <2>2 DEF Relocate, Frames
    <2>3. CASE Fail(t, w)
      BY <2>3 DEF Fail, Frames
    <2>4. ASSUME NEW b \in Blocks, Alloc(t, w, b) PROVE OnceCounted'
      BY <2>4 DEF Alloc, Frames
    <2>5. CASE ProtectReadWrite(t, w)
      BY <2>5 DEF ProtectReadWrite, Frames
    <2>6. CASE CopyTemplate(t, w)
      BY <2>6 DEF CopyTemplate, Frames
    <2>7. CASE WriteClosurePtr(t, w)
      BY <2>7 DEF WriteClosurePtr, Frames
    <2>8. CASE WriteReturn(t, w)
      BY <2>8 DEF WriteReturn, Frames
    <2>9. CASE ProtectReadExecute(t, w)
      BY <2>9 DEF ProtectReadExecute, Frames
    <2>10. CASE Flush(t, w)
      BY <2>10 DEF Flush, Frames
    <2> QED BY <1>1, <2>1, <2>2, <2>3, <2>4, <2>5, <2>6, <2>7, <2>8, <2>9, <2>10 DEF Construct
  <1>2. ASSUME NEW t \in Threads, NEW w \in Wrappers, FinishDrop(t, w) PROVE OnceCounted'
    <2>1. CASE Release(t, w)
      BY <2>1 DEF Release, Frames
    <2>2. CASE DropHandle(t, w)
      BY <2>2 DEF DropHandle, Frames
    <2> QED BY <1>2, <2>1, <2>2 DEF FinishDrop
  <1>3. ASSUME NEW t \in Threads, NEW w \in Wrappers, Use(t, w) PROVE OnceCounted'
    <2>1. CASE Box(t, w)
      <3>1. \A u \in Threads : Frames(u)' = Frames(u)
        BY <2>1 DEF Box, Frames
      <3>2. \A u \in Threads : \A f \in Frames(u) : f.w # w
        BY <2>1 DEF Box, Unreachable, NotYetPublished
      <3>3. called' = called /\ \A v \in Wrappers : v # w => closure'[v] = closure[v]
        BY <2>1 DEF Box, TypeOK
      <3>4. OnceClosures \subseteq Wrappers
        BY ClosuresAssumption
      <3> QED BY <3>1, <3>2, <3>3, <3>4
    <2>2. CASE Bare(t, w)
      BY <2>2 DEF Bare, HasBare, Owns, Frames
    <2>3. CASE Leak(t, w)
      BY <2>3 DEF Leak, Owns, Frames
    <2>4. ASSUME NEW u \in Threads, Move(t, u, w) PROVE OnceCounted'
      BY <2>4 DEF Move, Owns, Frames
    <2>5. CASE Upcast(t, w)
      BY <2>5 DEF Upcast, Owns, Frames
    <2>6. CASE BeginDrop(t, w)
      <3> DEFINE fr == [op |-> "drop", w |-> w, runs |-> Thunk(w)]
      <3>1. \A u \in Threads : Frames(u)' = Frames(u) \cup (IF u = t THEN {fr} ELSE {})
        BY <2>6, DropFrames
      <3>2. fr.op # "call" /\ closure' = closure /\ called' = called
        BY <2>6 DEF BeginDrop, Owns, Frames
      <3> QED BY <3>1, <3>2
    <2>7. CASE EndDestructor(t, w)
      <3>1. \A u \in Threads : Frames(u)' \subseteq Frames(u)
        BY <2>7, LeaveFrames DEF EndDestructor
      <3>2. w \in OnceClosures => w \notin called
        BY <2>7 DEF EndDestructor, Unreachable
      <3>3. called' = called /\ \A v \in Wrappers : v # w => closure'[v] = closure[v]
        BY <2>7 DEF EndDestructor, TypeOK
      <3>4. OnceClosures \subseteq Wrappers
        BY ClosuresAssumption
      <3> QED BY <3>1, <3>2, <3>3, <3>4
    <2>8. CASE Call(t, w)
      <3> DEFINE fr == [op |-> "call", w |-> w,
                     runs |-> IF w \in ZstClosures THEN Thunk(w) ELSE Fetched(block[w])]
      <3>1. \A u \in Threads : Frames(u)' = Frames(u) \cup (IF u = t THEN {fr} ELSE {})
        BY <2>8, CallFrames
      <3>2. fr.w = w
        OBVIOUS
      <3>3. w \in OnceClosures =>
               w \notin called /\ called' = called \cup {w} /\ closure' = [closure EXCEPT ![w] = "moved"]
        BY <2>8 DEF Call, Consumes, CallContract, OnceContract
      <3>4. w \notin OnceClosures => called' = called /\ closure' = closure
        BY <2>8 DEF Call, Consumes, Frames
      <3>5. closure \in [Wrappers -> {"none", "live", "moved", "destroyed"}] /\ OnceClosures \subseteq Wrappers
        BY ClosuresAssumption DEF TypeOK
      <3>6. ASSUME NEW u \in Threads, NEW f \in Frames(u)', f.op = "call", f.w \in OnceClosures
            PROVE  f.w \in called' /\ closure'[f.w] = "moved"
        <4>1. CASE f.w = w
          BY <4>1, <3>3, <3>5, <3>6
        <4>2. CASE f.w # w
          <5>1. f \in Frames(u)
            BY <4>2, <3>1, <3>2, <3>6
          <5>2. f.w \in called /\ closure[f.w] = "moved"
            BY <5>1, <3>6
          <5> QED BY <5>2, <4>2, <3>3, <3>4, <3>5, <3>6
        <4> QED BY <4>1, <4>2
      <3> QED BY <3>6
    <2>9. CASE Return(t, w)
      <3>1. \A u \in Threads : Frames(u)' \subseteq Frames(u)
        BY <2>9, LeaveFrames DEF Return, Consumes
      <3>2. w \in OnceClosures =>
               \A u \in Threads : \A f \in Frames(u)' : ~(f.op = "call" /\ f.w = w)
        BY <2>9, OnceUniqueLeave DEF Return, Consumes
      <3>3. called' = called /\ \A v \in Wrappers : v # w => closure'[v] = closure[v]
        BY <2>9 DEF Return, Consumes, TypeOK
      <3>4. OnceClosures \subseteq Wrappers
        BY ClosuresAssumption
      <3> QED BY <3>1, <3>2, <3>3, <3>4
    <2> QED BY <1>3, <2>1, <2>2, <2>3, <2>4, <2>5, <2>6, <2>7, <2>8, <2>9 DEF Use
  <1>4. CASE DropUserHandle
    BY <1>4 DEF DropUserHandle, Frames
  <1>5. ASSUME NEW b \in Blocks, Prefetch(b) PROVE OnceCounted'
    BY <1>5 DEF Prefetch, Frames
  <1>6. CASE UNCHANGED vars
    BY <1>6 DEF vars, Frames
  <1> QED BY <1>1, <1>2, <1>3, <1>4, <1>5, <1>6 DEF Next

-----------------------------------------------------------------------------
(* LifeInv is inductive. *)

(* Nothing is published and no closure exists at the start.                *)
LEMMA LifeInvInit == Init => LifeInv
  <1> SUFFICES ASSUME Init PROVE LifeInv
    OBVIOUS
  <1>1. \A w \in Wrappers : Unreachable(w)
    BY DEF Init, Unreachable, Frames
  <1>2. \A w \in Wrappers : ClosureOf(w)
    BY DEF Init, ClosureOf, ConstructionPhases, DropPhases
  <1>3. OnceCounted /\ OnceUnique
    BY DEF Init, OnceCounted, OnceUnique, Frames
  <1> QED BY <1>1, <1>2, <1>3 DEF LifeInv

(* Every step keeps it, given CodeInv.                                     *)
LEMMA LifeInvStep == CodeInv /\ LifeInv /\ [Next]_vars => LifeInv'
  <1> SUFFICES ASSUME CodeInv, LifeInv, [Next]_vars PROVE LifeInv'
    OBVIOUS
  <1>1. TypeOK /\ OnceCounted /\ OnceUnique
    BY DEF CodeInv, LifeInv
  <1>2. \A w \in Wrappers : Unreachable(w) /\ ClosureOf(w)
    BY DEF LifeInv
  <1>3. \A w \in Wrappers : Unreachable(w)'
    BY <1>1, <1>2, UnreachableStep
  <1>4. \A w \in Wrappers : ClosureOf(w)'
    BY <1>1, <1>2, ClosureStep
  <1>5. OnceCounted'
    BY <1>1, <1>2, OnceCountedStep
  <1>6. OnceUnique'
    BY <1>1, OnceUniqueStep
  <1> QED BY <1>3, <1>4, <1>5, <1>6 DEF LifeInv

(* Every reachable state satisfies CodeInv and LifeInv.                    *)
THEOREM LifeInvariant == Spec => [](CodeInv /\ LifeInv)
  <1>1. Init => CodeInv /\ LifeInv
    BY CodeInvInit, LifeInvInit
  <1>2. (CodeInv /\ LifeInv) /\ [Next]_vars => (CodeInv /\ LifeInv)'
    BY CodeInvStep, LifeInvStep
  <1> QED BY <1>1, <1>2, PTL DEF Spec

(* The closure of a wrapper is destroyed at most once, a leaked FnMut or   *)
(* Fn closure never, whatever the program does within the type system and  *)
(* the call contract (bare_closure.rs 368-373, 400-408; cc.rs 60-88).      *)
THEOREM DestroyedOnce == Spec => []DestroyedAtMostOnce
  <1>1. CodeInv /\ LifeInv => DestroyedAtMostOnce
    <2> SUFFICES ASSUME CodeInv, LifeInv, NEW w \in Wrappers
                 PROVE  drops[w] <= 1 /\ (phase[w] = "leaked" /\ w \notin OnceClosures => drops[w] = 0)
      BY DEF DestroyedAtMostOnce
    <2>1. ClosureOf(w)
      BY DEF LifeInv
    <2>2. phase[w] \in Phases
      BY DEF CodeInv, TypeOK
    <2> QED BY <2>1, <2>2 DEF ClosureOf, Phases, Published
  <1> QED BY <1>1, LifeInvariant, PTL

(* Whatever the threads do with a wrapper while a call runs in it, only    *)
(* the end of its drop frees the closure under the call; an FnOnce closure *)
(* is the call's own until it returns (bare_closure.rs 368-389, cc.rs      *)
(* 60-88).                                                                 *)
THEOREM OnlyDropFrees == Spec => []DropAloneFrees
  <1>1. CodeInv /\ LifeInv => DropAloneFrees
    <2> SUFFICES ASSUME CodeInv, LifeInv,
                        NEW t \in Threads, NEW fr \in Frames(t), fr.op = "call"
                 PROVE  \/ HasClosure(fr)
                        \/ fr.w \notin OnceClosures /\ phase[fr.w] \in DropPhases \cup {"gone"}
      BY DEF DropAloneFrees
    <2>1. fr.w \in Wrappers /\ phase[fr.w] \in Phases
      <3>1. PICK i \in 1..Len(stack[t]) : fr = stack[t][i]
        BY DEF Frames
      <3>2. stack[t] \in Seq(Frame) /\ phase \in [Wrappers -> Phases]
        BY DEF CodeInv, TypeOK
      <3>3. fr \in Frame
        BY <3>1, <3>2
      <3> QED BY <3>2, <3>3 DEF Frame
    <2>2. fr.w \in OnceClosures => closure[fr.w] = "moved"
      BY DEF LifeInv, OnceCounted
    <2>3. phase[fr.w] \notin NotYetPublished
      BY <2>1 DEF LifeInv, Unreachable
    <2>4. phase[fr.w] \in {"owned", "leaked", "destructing"} \cup DropPhases \cup {"gone"}
      BY <2>1, <2>3 DEF Phases, NotYetPublished, Published
    <2>5. fr.w \notin OnceClosures /\ phase[fr.w] \in {"owned", "leaked", "destructing"}
             => closure[fr.w] = "live"
      BY <2>1 DEF LifeInv, ClosureOf
    <2> QED BY <2>2, <2>4, <2>5 DEF HasClosure
  <1> QED BY <1>1, LifeInvariant, PTL

-----------------------------------------------------------------------------
(* HomeInv is inductive relative to CodeInv and LifeInv: which threads can *)
(* own, call and destroy a wrapper, and where its block was allocated.     *)

USE ClosuresAssumption, DepthAssumption, DistinctAssumption

(* The frames of a thread are frames.                                      *)
LEMMA FrameTypes ==
    ASSUME TypeOK
    PROVE  \A t \in Threads : \A fr \in Frames(t) : fr \in Frame /\ fr.w \in Wrappers
  <1> SUFFICES ASSUME NEW t \in Threads, NEW i \in 1..Len(stack[t])
               PROVE  stack[t][i] \in Frame /\ stack[t][i].w \in Wrappers
    BY DEF Frames
  <1>1. stack[t] \in Seq(Frame)
    BY DEF TypeOK
  <1>2. stack[t][i] \in Frame
    BY <1>1
  <1> QED BY <1>2 DEF Frame

(* A step that starts and ends no call and makes no wrapper.               *)
LEMMA HomeFramesSame ==
    ASSUME HomeFrames, stack' = stack, maker' = maker
    PROVE  HomeFrames'
  <1>1. \A t \in Threads : Frames(t)' = Frames(t)
    BY DEF Frames
  <1> QED BY <1>1 DEF HomeFrames, NonSendStaysHome, StaysHome

(* Only a wrapper whose S and A are Send leaves its maker, and S never has *)
(* a marker the closure lacks: Box bounds it, upcast only weakens it.      *)
LEMMA HomeWrappersStep ==
    ASSUME TypeOK, HomeWrappers, [Next]_vars
    PROVE  HomeWrappers'
  <1> USE DEF wrapperVars, threadVars, memoryVars, threadSafetyVars
  <1> USE DEF HomeWrappers, TypeOK, IsSend
  <1>1. ASSUME NEW t \in Threads, NEW w \in Wrappers, Construct(t, w) PROVE HomeWrappers'
    <2>1. CASE UseTemplate(t, w)
      BY <2>1 DEF UseTemplate
    <2>2. CASE Relocate(t, w)
      BY <2>2 DEF Relocate
    <2>3. CASE Fail(t, w)
      BY <2>3 DEF Fail
    <2>4. ASSUME NEW b \in Blocks, Alloc(t, w, b) PROVE HomeWrappers'
      BY <2>4 DEF Alloc
    <2>5. CASE ProtectReadWrite(t, w)
      BY <2>5 DEF ProtectReadWrite
    <2>6. CASE CopyTemplate(t, w)
      BY <2>6 DEF CopyTemplate
    <2>7. CASE WriteClosurePtr(t, w)
      BY <2>7 DEF WriteClosurePtr
    <2>8. CASE WriteReturn(t, w)
      BY <2>8 DEF WriteReturn
    <2>9. CASE ProtectReadExecute(t, w)
      BY <2>9 DEF ProtectReadExecute
    <2>10. CASE Flush(t, w)
      BY <2>10 DEF Flush
    <2> QED BY <1>1, <2>1, <2>2, <2>3, <2>4, <2>5, <2>6, <2>7, <2>8, <2>9, <2>10 DEF Construct
  <1>2. ASSUME NEW t \in Threads, NEW w \in Wrappers, FinishDrop(t, w) PROVE HomeWrappers'
    <2>1. CASE Release(t, w)
      BY <2>1 DEF Release
    <2>2. CASE DropHandle(t, w)
      BY <2>2 DEF DropHandle
    <2> QED BY <1>2, <2>1, <2>2 DEF FinishDrop
  <1>3. ASSUME NEW t \in Threads, NEW w \in Wrappers, Use(t, w) PROVE HomeWrappers'
    <2>1. CASE Box(t, w)
      <3>1. PICK s \in StorageTypes : s \subseteq Shown(w) /\ storage' = [storage EXCEPT ![w] = s]
        BY <2>1 DEF Box
      <3>2. maker' = [maker EXCEPT ![w] = t] /\ holder' = [holder EXCEPT ![w] = t]
        BY <2>1 DEF Box
      <3>3. ASSUME FactoriesKeepMarkers, NEW v \in Wrappers PROVE storage'[v] \subseteq Markers(v)
        <4>1. storage[v] \subseteq Markers(v) /\ Shown(w) \subseteq Markers(w)
          BY <3>3 DEF FactoriesKeepMarkers, Shown, Markers
        <4>2. storage'[v] = IF v = w THEN s ELSE storage[v]
          BY <3>1
        <4>3. CASE v = w
          BY <4>1, <4>2, <4>3, <3>1
        <4>4. CASE v # w
          BY <4>1, <4>2, <4>4
        <4> QED BY <4>3, <4>4
      <3> QED BY <3>2, <3>3
    <2>2. CASE Bare(t, w)
      BY <2>2 DEF Bare, HasBare, Owns
    <2>3. CASE Leak(t, w)
      BY <2>3 DEF Leak, Owns
    <2>4. ASSUME NEW u \in Threads, Move(t, u, w) PROVE HomeWrappers'
      <3>1. w \in SendHandles /\ (FactoriesKeepMarkers => "Send" \in Markers(w))
        BY <2>4 DEF Move, Owns
      <3>2. FactoriesKeepMarkers => w \in SendClosures
        BY <3>1 DEF Markers
      <3> QED BY <3>1, <3>2, <2>4 DEF Move, Owns
    <2>5. CASE Upcast(t, w)
      <3>1. PICK s \in StorageTypes : s \subseteq storage[w] /\ storage' = [storage EXCEPT ![w] = s]
        BY <2>5 DEF Upcast, Owns
      <3>2. ASSUME FactoriesKeepMarkers, NEW v \in Wrappers PROVE storage'[v] \subseteq Markers(v)
        <4>1. storage[v] \subseteq Markers(v) /\ storage[w] \subseteq Markers(w)
          BY <3>2
        <4>2. storage'[v] = IF v = w THEN s ELSE storage[v]
          BY <3>1
        <4>3. CASE v = w
          BY <4>1, <4>2, <4>3, <3>1
        <4>4. CASE v # w
          BY <4>1, <4>2, <4>4
        <4> QED BY <4>3, <4>4
      <3>3. maker' = maker /\ holder' = holder
        BY <2>5 DEF Upcast, Owns
      <3> QED BY <3>2, <3>3
    <2>6. CASE BeginDrop(t, w)
      BY <2>6 DEF BeginDrop, Owns
    <2>7. CASE EndDestructor(t, w)
      BY <2>7 DEF EndDestructor
    <2>8. CASE Call(t, w)
      BY <2>8 DEF Call, Consumes
    <2>9. CASE Return(t, w)
      BY <2>9 DEF Return, Consumes
    <2> QED BY <1>3, <2>1, <2>2, <2>3, <2>4, <2>5, <2>6, <2>7, <2>8, <2>9 DEF Use
  <1>4. CASE DropUserHandle
    BY <1>4 DEF DropUserHandle
  <1>5. ASSUME NEW b \in Blocks, Prefetch(b) PROVE HomeWrappers'
    BY <1>5 DEF Prefetch
  <1>6. CASE UNCHANGED vars
    BY <1>6 DEF vars
  <1> QED BY <1>1, <1>2, <1>3, <1>4, <1>5, <1>6 DEF Next

(* Constructors run on the maker; the drop glue does too when the allocator*)
(* handle, and so the wrapper, is not Send.                                *)
LEMMA HomeBusyStep ==
    ASSUME CodeInv, TypeOK, BusyOne, HomeWrappers, HomeBusy, HomeFrames, [Next]_vars
    PROVE  HomeBusy'
  <1> USE DEF wrapperVars, threadVars, memoryVars, threadSafetyVars
  <1> USE DEF HomeBusy, BusyOne, InUserCode, ConstructionPhases, DropPhases, TypeOK
  <1>1. ASSUME NEW t \in Threads, NEW w \in Wrappers, Construct(t, w) PROVE HomeBusy'
    <2>1. CASE UseTemplate(t, w)
      BY <2>1 DEF UseTemplate
    <2>2. CASE Relocate(t, w)
      BY <2>2 DEF Relocate
    <2>3. CASE Fail(t, w)
      BY <2>3 DEF Fail
    <2>4. ASSUME NEW b \in Blocks, Alloc(t, w, b) PROVE HomeBusy'
      BY <2>4 DEF Alloc
    <2>5. CASE ProtectReadWrite(t, w)
      BY <2>5 DEF ProtectReadWrite
    <2>6. CASE CopyTemplate(t, w)
      BY <2>6 DEF CopyTemplate
    <2>7. CASE WriteClosurePtr(t, w)
      BY <2>7 DEF WriteClosurePtr
    <2>8. CASE WriteReturn(t, w)
      BY <2>8 DEF WriteReturn
    <2>9. CASE ProtectReadExecute(t, w)
      BY <2>9 DEF ProtectReadExecute
    <2>10. CASE Flush(t, w)
      BY <2>10 DEF Flush
    <2> QED BY <1>1, <2>1, <2>2, <2>3, <2>4, <2>5, <2>6, <2>7, <2>8, <2>9, <2>10 DEF Construct
  <1>2. ASSUME NEW t \in Threads, NEW w \in Wrappers, FinishDrop(t, w) PROVE HomeBusy'
    <2>1. CASE Release(t, w)
      BY <2>1 DEF Release
    <2>2. CASE DropHandle(t, w)
      BY <2>2 DEF DropHandle
    <2> QED BY <1>2, <2>1, <2>2 DEF FinishDrop
  <1>3. ASSUME NEW t \in Threads, NEW w \in Wrappers, Use(t, w) PROVE HomeBusy'
    <2>1. CASE Box(t, w)
      <3>1. \A u \in Threads : busy[u] # w
        BY <2>1 DEF Box
      <3>2. \A u \in Threads : busy'[u] = IF u = t THEN w ELSE busy[u]
        BY <2>1 DEF Box
      <3>3. /\ \A v \in Wrappers : maker'[v] = IF v = w THEN t ELSE maker[v]
            /\ \A v \in Wrappers : v # w => phase'[v] = phase[v]
        BY <2>1 DEF Box
      <3>4. ASSUME NEW u \in Threads, busy'[u] # NoWrapper, u # t
            PROVE  /\ busy'[u] \notin SendHandles => u = maker'[busy'[u]]
                   /\ phase'[busy'[u]] \in ConstructionPhases => u = maker'[busy'[u]]
        <4>1. busy'[u] = busy[u] /\ busy[u] \in Wrappers \ {w}
          BY <3>1, <3>2, <3>4
        <4>2. maker'[busy[u]] = maker[busy[u]] /\ phase'[busy[u]] = phase[busy[u]]
          BY <3>3, <4>1
        <4>3. /\ busy[u] \notin SendHandles => u = maker[busy[u]]
              /\ phase[busy[u]] \in ConstructionPhases => u = maker[busy[u]]
          BY <4>1
        <4> QED BY <4>1, <4>2, <4>3
      <3>5. maker'[busy'[t]] = t
        <4>1. busy'[t] = w
          BY <3>2
        <4>2. maker'[w] = t
          BY <3>3
        <4> QED BY <4>1, <4>2
      <3> QED BY <3>4, <3>5
    <2>2. CASE Bare(t, w)
      BY <2>2 DEF Bare, HasBare, Owns
    <2>3. CASE Leak(t, w)
      BY <2>3 DEF Leak, Owns
    <2>4. ASSUME NEW u \in Threads, Move(t, u, w) PROVE HomeBusy'
      BY <2>4 DEF Move, Owns
    <2>5. CASE Upcast(t, w)
      BY <2>5 DEF Upcast, Owns
    <2>6. CASE BeginDrop(t, w)
      BY <2>6 DEF BeginDrop, Owns
    <2>7. CASE EndDestructor(t, w)
      <3>1. Head(stack[t]) \in Frames(t) /\ Head(stack[t]).op = "drop" /\ Head(stack[t]).w = w
        BY <2>7, LeaveFrames DEF EndDestructor
      <3>2. w \notin SendHandles => t = maker[w]
        BY <3>1 DEF HomeFrames
      <3> QED BY <3>2, <2>7 DEF EndDestructor
    <2>8. CASE Call(t, w)
      BY <2>8 DEF Call, Consumes
    <2>9. CASE Return(t, w)
      BY <2>9 DEF Return, Consumes
    <2> QED BY <1>3, <2>1, <2>2, <2>3, <2>4, <2>5, <2>6, <2>7, <2>8, <2>9 DEF Use
  <1>4. CASE DropUserHandle
    BY <1>4 DEF DropUserHandle
  <1>5. ASSUME NEW b \in Blocks, Prefetch(b) PROVE HomeBusy'
    BY <1>5 DEF Prefetch
  <1>6. CASE UNCHANGED vars
    BY <1>6 DEF vars
  <1> QED BY <1>1, <1>2, <1>3, <1>4, <1>5, <1>6 DEF Next

(* alloc runs on the maker, and no other wrapper's release frees the block.*)
LEMMA HomeBlocksStep ==
    ASSUME CodeInv, TypeOK, BusyOne, \A v \in Wrappers : BlockOf(v), BlocksApart, HomeBusy, HomeBlocks, [Next]_vars
    PROVE  HomeBlocks'
  <1> USE DEF wrapperVars, threadVars, memoryVars, threadSafetyVars
  <1> USE DEF HomeBlocks, Holding, Writing, Published, TypeOK
  <1>1. ASSUME NEW t \in Threads, NEW w \in Wrappers, Construct(t, w) PROVE HomeBlocks'
    <2>1. CASE UseTemplate(t, w)
      BY <2>1 DEF UseTemplate
    <2>2. CASE Relocate(t, w)
      BY <2>2 DEF Relocate
    <2>3. CASE Fail(t, w)
      BY <2>3 DEF Fail
    <2>4. ASSUME NEW b \in Blocks, Alloc(t, w, b) PROVE HomeBlocks'
      <3>1. t = maker[w]
        BY <2>4 DEF Alloc, HomeBusy, ConstructionPhases
      <3>2. \A v \in Wrappers \ ZstClosures : phase[v] \in Holding => arena[block[v]] # NoThread
        BY DEF BlockOf
      <3> QED BY <3>1, <3>2, <2>4 DEF Alloc
    <2>5. CASE ProtectReadWrite(t, w)
      BY <2>5 DEF ProtectReadWrite
    <2>6. CASE CopyTemplate(t, w)
      BY <2>6 DEF CopyTemplate
    <2>7. CASE WriteClosurePtr(t, w)
      BY <2>7 DEF WriteClosurePtr
    <2>8. CASE WriteReturn(t, w)
      BY <2>8 DEF WriteReturn
    <2>9. CASE ProtectReadExecute(t, w)
      BY <2>9 DEF ProtectReadExecute
    <2>10. CASE Flush(t, w)
      BY <2>10 DEF Flush
    <2> QED BY <1>1, <2>1, <2>2, <2>3, <2>4, <2>5, <2>6, <2>7, <2>8, <2>9, <2>10 DEF Construct
  <1>2. ASSUME NEW t \in Threads, NEW w \in Wrappers, FinishDrop(t, w) PROVE HomeBlocks'
    <2>1. CASE Release(t, w)
      <3>1. \A v \in Wrappers \ ZstClosures : v # w /\ phase[v] \in Holding /\ w \notin ZstClosures
               => block[v] \in Blocks \ {block[w]}
        BY <2>1, OtherBlock DEF Release
      <3>2. w \in ZstClosures => block[w] = NoBlock
        BY DEF BlockOf
      <3> QED BY <3>1, <3>2, <2>1 DEF Release
    <2>2. CASE DropHandle(t, w)
      BY <2>2 DEF DropHandle
    <2> QED BY <1>2, <2>1, <2>2 DEF FinishDrop
  <1>3. ASSUME NEW t \in Threads, NEW w \in Wrappers, Use(t, w) PROVE HomeBlocks'
    <2>1. CASE Box(t, w)
      <3>1. phase' = [phase EXCEPT ![w] = "boxed"] /\ maker' = [maker EXCEPT ![w] = t]
        BY <2>1 DEF Box
      <3>2. arena' = arena /\ block' = block
        BY <2>1 DEF Box
      <3> QED BY <3>1, <3>2
    <2>2. CASE Bare(t, w)
      BY <2>2 DEF Bare, HasBare, Owns
    <2>3. CASE Leak(t, w)
      BY <2>3 DEF Leak, Owns
    <2>4. ASSUME NEW u \in Threads, Move(t, u, w) PROVE HomeBlocks'
      BY <2>4 DEF Move, Owns
    <2>5. CASE Upcast(t, w)
      BY <2>5 DEF Upcast, Owns
    <2>6. CASE BeginDrop(t, w)
      BY <2>6 DEF BeginDrop, Owns
    <2>7. CASE EndDestructor(t, w)
      BY <2>7 DEF EndDestructor
    <2>8. CASE Call(t, w)
      BY <2>8 DEF Call, Consumes
    <2>9. CASE Return(t, w)
      BY <2>9 DEF Return, Consumes
    <2> QED BY <1>3, <2>1, <2>2, <2>3, <2>4, <2>5, <2>6, <2>7, <2>8, <2>9 DEF Use
  <1>4. CASE DropUserHandle
    BY <1>4 DEF DropUserHandle
  <1>5. ASSUME NEW b \in Blocks, Prefetch(b) PROVE HomeBlocks'
    BY <1>5 DEF Prefetch
  <1>6. CASE UNCHANGED vars
    BY <1>6 DEF vars
  <1> QED BY <1>1, <1>2, <1>3, <1>4, <1>5, <1>6 DEF Next

(* bare() needs the owner or a Sync wrapper, which only a Sync Fn closure or*)
(* a Send FnMut closure gives; leak() needs the owner.                     *)
LEMMA HomePointersStep ==
    ASSUME TypeOK, \A v \in Wrappers : Unreachable(v), HomeWrappers, HomePointers, [Next]_vars
    PROVE  HomePointers'
  <1> USE DEF wrapperVars, threadVars, memoryVars, threadSafetyVars
  <1> USE DEF HomePointers, HomeWrappers, Shareable, Markers, FnClosures, IsSync, TypeOK
  <1>1. ASSUME NEW t \in Threads, NEW w \in Wrappers, Construct(t, w) PROVE HomePointers'
    <2>1. CASE UseTemplate(t, w)
      BY <2>1 DEF UseTemplate
    <2>2. CASE Relocate(t, w)
      BY <2>2 DEF Relocate
    <2>3. CASE Fail(t, w)
      BY <2>3 DEF Fail
    <2>4. ASSUME NEW b \in Blocks, Alloc(t, w, b) PROVE HomePointers'
      BY <2>4 DEF Alloc
    <2>5. CASE ProtectReadWrite(t, w)
      BY <2>5 DEF ProtectReadWrite
    <2>6. CASE CopyTemplate(t, w)
      BY <2>6 DEF CopyTemplate
    <2>7. CASE WriteClosurePtr(t, w)
      BY <2>7 DEF WriteClosurePtr
    <2>8. CASE WriteReturn(t, w)
      BY <2>8 DEF WriteReturn
    <2>9. CASE ProtectReadExecute(t, w)
      BY <2>9 DEF ProtectReadExecute
    <2>10. CASE Flush(t, w)
      BY <2>10 DEF Flush
    <2> QED BY <1>1, <2>1, <2>2, <2>3, <2>4, <2>5, <2>6, <2>7, <2>8, <2>9, <2>10 DEF Construct
  <1>2. ASSUME NEW t \in Threads, NEW w \in Wrappers, FinishDrop(t, w) PROVE HomePointers'
    <2>1. CASE Release(t, w)
      BY <2>1 DEF Release
    <2>2. CASE DropHandle(t, w)
      BY <2>2 DEF DropHandle
    <2> QED BY <1>2, <2>1, <2>2 DEF FinishDrop
  <1>3. ASSUME NEW t \in Threads, NEW w \in Wrappers, Use(t, w) PROVE HomePointers'
    <2>1. CASE Box(t, w)
      <3>1. obtained' = obtained /\ \A v \in Wrappers : v # w => maker'[v] = maker[v]
        BY <2>1 DEF Box
      <3>2. \A u \in Threads : <<u, w>> \notin obtained
        BY <2>1 DEF Box, Unreachable, NotYetPublished
      <3> QED BY <3>1, <3>2
    <2>2. CASE Bare(t, w)
      BY <2>2 DEF Bare, HasBare, Owns
    <2>3. CASE Leak(t, w)
      BY <2>3 DEF Leak, Owns
    <2>4. ASSUME NEW u \in Threads, Move(t, u, w) PROVE HomePointers'
      BY <2>4 DEF Move, Owns
    <2>5. CASE Upcast(t, w)
      BY <2>5 DEF Upcast, Owns
    <2>6. CASE BeginDrop(t, w)
      BY <2>6 DEF BeginDrop, Owns
    <2>7. CASE EndDestructor(t, w)
      BY <2>7 DEF EndDestructor
    <2>8. CASE Call(t, w)
      BY <2>8 DEF Call, Consumes
    <2>9. CASE Return(t, w)
      BY <2>9 DEF Return, Consumes
    <2> QED BY <1>3, <2>1, <2>2, <2>3, <2>4, <2>5, <2>6, <2>7, <2>8, <2>9 DEF Use
  <1>4. CASE DropUserHandle
    BY <1>4 DEF DropUserHandle
  <1>5. ASSUME NEW b \in Blocks, Prefetch(b) PROVE HomePointers'
    BY <1>5 DEF Prefetch
  <1>6. CASE UNCHANGED vars
    BY <1>6 DEF vars
  <1> QED BY <1>1, <1>2, <1>3, <1>4, <1>5, <1>6 DEF Next

(* Calls and destructors start on threads that have the pointer or the     *)
(* wrapper.                                                                *)
LEMMA HomeFramesStep ==
    ASSUME CodeInv, TypeOK, \A v \in Wrappers : Unreachable(v), HomeWrappers, HomePointers, HomeFrames, [Next]_vars
    PROVE  HomeFrames'
  <1> USE DEF wrapperVars, threadVars, memoryVars, threadSafetyVars
  <1> USE DEF TypeOK
  <1>1. ASSUME NEW t \in Threads, NEW w \in Wrappers, Construct(t, w) PROVE HomeFrames'
    <2>1. CASE UseTemplate(t, w)
      BY <2>1, HomeFramesSame DEF UseTemplate
    <2>2. CASE Relocate(t, w)
      BY <2>2, HomeFramesSame DEF Relocate
    <2>3. CASE Fail(t, w)
      BY <2>3, HomeFramesSame DEF Fail
    <2>4. ASSUME NEW b \in Blocks, Alloc(t, w, b) PROVE HomeFrames'
      BY <2>4, HomeFramesSame DEF Alloc
    <2>5. CASE ProtectReadWrite(t, w)
      BY <2>5, HomeFramesSame DEF ProtectReadWrite
    <2>6. CASE CopyTemplate(t, w)
      BY <2>6, HomeFramesSame DEF CopyTemplate
    <2>7. CASE WriteClosurePtr(t, w)
      BY <2>7, HomeFramesSame DEF WriteClosurePtr
    <2>8. CASE WriteReturn(t, w)
      BY <2>8, HomeFramesSame DEF WriteReturn
    <2>9. CASE ProtectReadExecute(t, w)
      BY <2>9, HomeFramesSame DEF ProtectReadExecute
    <2>10. CASE Flush(t, w)
      BY <2>10, HomeFramesSame DEF Flush
    <2> QED BY <1>1, <2>1, <2>2, <2>3, <2>4, <2>5, <2>6, <2>7, <2>8, <2>9, <2>10 DEF Construct
  <1>2. ASSUME NEW t \in Threads, NEW w \in Wrappers, FinishDrop(t, w) PROVE HomeFrames'
    <2>1. CASE Release(t, w)
      BY <2>1, HomeFramesSame DEF Release
    <2>2. CASE DropHandle(t, w)
      BY <2>2, HomeFramesSame DEF DropHandle
    <2> QED BY <1>2, <2>1, <2>2 DEF FinishDrop
  <1>3. ASSUME NEW t \in Threads, NEW w \in Wrappers, Use(t, w) PROVE HomeFrames'
    <2>1. CASE Box(t, w)
      <3>1. \A u \in Threads : Frames(u)' = Frames(u)
        BY <2>1 DEF Box, Frames
      <3>2. \A u \in Threads : \A f \in Frames(u) : f.w # w
        BY <2>1 DEF Box, Unreachable, NotYetPublished
      <3>3. \A v \in Wrappers : v # w => maker'[v] = maker[v]
        BY <2>1, HomeFramesSame DEF Box
      <3>4. \A u \in Threads : \A f \in Frames(u) : f.w \in Wrappers
        BY FrameTypes
      <3> QED BY <3>1, <3>2, <3>3, <3>4 DEF HomeFrames, NonSendStaysHome, StaysHome
    <2>2. CASE Bare(t, w)
      BY <2>2, HomeFramesSame DEF Bare, HasBare, Owns
    <2>3. CASE Leak(t, w)
      BY <2>3, HomeFramesSame DEF Leak, Owns
    <2>4. ASSUME NEW u \in Threads, Move(t, u, w) PROVE HomeFrames'
      BY <2>4, HomeFramesSame DEF Move, Owns
    <2>5. CASE Upcast(t, w)
      BY <2>5, HomeFramesSame DEF Upcast, Owns
    <2>6. CASE BeginDrop(t, w)
      <3> DEFINE fr == [op |-> "drop", w |-> w, runs |-> Thunk(w)]
      <3>1. \A u \in Threads : Frames(u)' = Frames(u) \cup (IF u = t THEN {fr} ELSE {})
        BY <2>6, DropFrames
      <3>2. t = maker[w] \/ (w \in SendHandles /\ (FactoriesKeepMarkers => w \in SendClosures))
        BY <2>6 DEF BeginDrop, Owns, HomeWrappers
      <3>3. maker' = maker /\ fr.w = w
        BY <2>6, HomeFramesSame DEF BeginDrop, Owns
      <3> QED BY <3>1, <3>2, <3>3 DEF HomeFrames, NonSendStaysHome, StaysHome
    <2>7. CASE EndDestructor(t, w)
      <3>1. \A u \in Threads : Frames(u)' \subseteq Frames(u)
        BY <2>7, LeaveFrames DEF EndDestructor
      <3>2. maker' = maker
        BY <2>7, HomeFramesSame DEF EndDestructor
      <3> QED BY <3>1, <3>2 DEF HomeFrames, NonSendStaysHome, StaysHome
    <2>8. CASE Call(t, w)
      <3> DEFINE fr == [op |-> "call", w |-> w,
                     runs |-> IF w \in ZstClosures THEN Thunk(w) ELSE Fetched(block[w])]
      <3>1. \A u \in Threads : Frames(u)' = Frames(u) \cup (IF u = t THEN {fr} ELSE {})
        BY <2>8, CallFrames
      <3>2. FactoriesKeepMarkers =>
               t = maker[w] \/ w \in SendClosures \/ w \in FnClosures \cap SyncClosures
        BY <2>8 DEF Call, Consumes, CallContract, OnceContract, MutContract, FnContract, HasPointer,
                 FnClosures, HomePointers, Shareable
      <3>3. maker' = maker /\ fr.w = w /\ fr.op = "call"
        BY <2>8, HomeFramesSame DEF Call, Consumes
      <3> QED BY <3>1, <3>2, <3>3 DEF HomeFrames, NonSendStaysHome, StaysHome
    <2>9. CASE Return(t, w)
      <3>1. \A u \in Threads : Frames(u)' \subseteq Frames(u)
        BY <2>9, LeaveFrames DEF Return, Consumes
      <3>2. maker' = maker
        BY <2>9, HomeFramesSame DEF Return, Consumes
      <3> QED BY <3>1, <3>2 DEF HomeFrames, NonSendStaysHome, StaysHome
    <2> QED BY <1>3, <2>1, <2>2, <2>3, <2>4, <2>5, <2>6, <2>7, <2>8, <2>9 DEF Use
  <1>4. CASE DropUserHandle
    BY <1>4, HomeFramesSame DEF DropUserHandle
  <1>5. ASSUME NEW b \in Blocks, Prefetch(b) PROVE HomeFrames'
    BY <1>5, HomeFramesSame DEF Prefetch
  <1>6. CASE UNCHANGED vars
    BY <1>6, HomeFramesSame DEF vars
  <1> QED BY <1>1, <1>2, <1>3, <1>4, <1>5, <1>6 DEF Next

-----------------------------------------------------------------------------
(* HomeInv is inductive. *)

(* There is no wrapper, pointer or call at the start.                      *)
LEMMA HomeInvInit == Init => HomeInv
  <1> SUFFICES ASSUME Init PROVE HomeInv
    OBVIOUS
  <1>1. HomeWrappers
    BY DEF Init, HomeWrappers
  <1>2. HomeBusy
    BY DEF Init, HomeBusy
  <1>3. HomeBlocks
    BY DEF Init, HomeBlocks, Holding, Writing, Published
  <1>4. HomePointers
    BY DEF Init, HomePointers
  <1>5. HomeFrames
    BY DEF Init, HomeFrames, NonSendStaysHome, StaysHome, Frames
  <1> QED BY <1>1, <1>2, <1>3, <1>4, <1>5 DEF HomeInv

(* Every step keeps it, given CodeInv and LifeInv.                         *)
LEMMA HomeInvStep == CodeInv /\ LifeInv /\ HomeInv /\ [Next]_vars => HomeInv'
  <1> SUFFICES ASSUME CodeInv, LifeInv, HomeInv, [Next]_vars PROVE HomeInv'
    OBVIOUS
  <1>1. TypeOK /\ BlocksApart /\ BusyOne /\ \A v \in Wrappers : BlockOf(v)
    BY DEF CodeInv
  <1>2. \A v \in Wrappers : Unreachable(v)
    BY DEF LifeInv
  <1>3. HomeWrappers /\ HomeBusy /\ HomeBlocks /\ HomePointers /\ HomeFrames
    BY DEF HomeInv
  <1>4. HomeWrappers'
    BY <1>1, <1>3, HomeWrappersStep
  <1>5. HomeBusy'
    BY <1>1, <1>3, HomeBusyStep
  <1>6. HomeBlocks'
    BY <1>1, <1>3, HomeBlocksStep
  <1>7. HomePointers'
    BY <1>1, <1>2, <1>3, HomePointersStep
  <1>8. HomeFrames'
    BY <1>1, <1>2, <1>3, HomeFramesStep
  <1> QED BY <1>4, <1>5, <1>6, <1>7, <1>8 DEF HomeInv

(* Every reachable state satisfies the three invariants.                   *)
THEOREM HomeInvariant == Spec => [](CodeInv /\ LifeInv /\ HomeInv)
  <1>1. Init => CodeInv /\ LifeInv /\ HomeInv
    BY CodeInvInit, LifeInvInit, HomeInvInit
  <1>2. (CodeInv /\ LifeInv /\ HomeInv) /\ [Next]_vars => (CodeInv /\ LifeInv /\ HomeInv)'
    BY CodeInvStep, LifeInvStep, HomeInvStep
  <1> QED BY <1>1, <1>2, PTL DEF Spec

(* A closure that is not Send is destroyed where it was made, and runs     *)
(* elsewhere only as a Sync Fn closure, under every use of move, share,    *)
(* bare, leak and upcast (bare_closure.rs 338-340, 380-389).               *)
THEOREM NonSendHome == Spec => []NonSendStaysHome
  <1>1. HomeInv => NonSendStaysHome
    BY DEF HomeInv, HomeFrames
  <1> QED BY <1>1, HomeInvariant, PTL

(* A handle type that is not Send keeps each block with the thread-local   *)
(* allocator it came from (jit_alloc.rs 168-217).                          *)
THEOREM ReleasedHome == Spec => []ReleasedWhereAllocated
  <1>1. CodeInv /\ HomeInv => ReleasedWhereAllocated
    <2> SUFFICES ASSUME CodeInv, HomeInv, NEW t \in Threads, NEW w \in Wrappers \ SendHandles,
                        busy[t] = w, phase[w] = "releasing", block[w] # NoBlock
                 PROVE  arena[block[w]] = t
      BY DEF ReleasedWhereAllocated
    <2>1. w \notin ZstClosures
      BY DEF CodeInv, BlockOf
    <2>2. arena[block[w]] = maker[w]
      BY <2>1 DEF HomeInv, HomeBlocks, Holding
    <2>3. t = maker[w]
      BY DEF HomeInv, HomeBusy
    <2> QED BY <2>2, <2>3
  <1> QED BY <1>1, HomeInvariant, PTL
-----------------------------------------------------------------------------
(* What is left of a construction that failed.  A handle is gone before a  *)
(* construction, after a failed one and after a drop.                      *)
HandleGone ==
    \A w \in Wrappers : phase[w] \in {"unborn", "failed", "gone"} => w \notin handles

(* A block is taken for a wrapper, which remembers it.                     *)
Accounted ==
    \A b \in Blocks : arena[b] # NoThread => \E w \in Wrappers : block[w] = b

(* The handle of a wrapper goes with it, whether its construction fails or *)
(* it is dropped.                                                          *)
LEMMA HandleGoneStep ==
    ASSUME TypeOK, HandleGone, [Next]_vars
    PROVE  HandleGone'
  <1> USE DEF wrapperVars, threadVars, memoryVars, threadSafetyVars
  <1> USE DEF ConstructionPhases, DropPhases, Published, HandleGone, TypeOK
  <1>1. ASSUME NEW t \in Threads, NEW w \in Wrappers, Construct(t, w) PROVE HandleGone'
    <2>1. CASE UseTemplate(t, w)
      BY <2>1 DEF UseTemplate
    <2>2. CASE Relocate(t, w)
      BY <2>2 DEF Relocate
    <2>3. CASE Fail(t, w)
      BY <2>3 DEF Fail
    <2>4. ASSUME NEW b \in Blocks, Alloc(t, w, b) PROVE HandleGone'
      BY <2>4 DEF Alloc
    <2>5. CASE ProtectReadWrite(t, w)
      BY <2>5 DEF ProtectReadWrite
    <2>6. CASE CopyTemplate(t, w)
      BY <2>6 DEF CopyTemplate
    <2>7. CASE WriteClosurePtr(t, w)
      BY <2>7 DEF WriteClosurePtr
    <2>8. CASE WriteReturn(t, w)
      BY <2>8 DEF WriteReturn
    <2>9. CASE ProtectReadExecute(t, w)
      BY <2>9 DEF ProtectReadExecute
    <2>10. CASE Flush(t, w)
      BY <2>10 DEF Flush
    <2> QED BY <1>1, <2>1, <2>2, <2>3, <2>4, <2>5, <2>6, <2>7, <2>8, <2>9, <2>10 DEF Construct
  <1>2. ASSUME NEW t \in Threads, NEW w \in Wrappers, FinishDrop(t, w) PROVE HandleGone'
    <2>1. CASE Release(t, w)
      BY <2>1 DEF Release
    <2>2. CASE DropHandle(t, w)
      BY <2>2 DEF DropHandle
    <2> QED BY <1>2, <2>1, <2>2 DEF FinishDrop
  <1>3. ASSUME NEW t \in Threads, NEW w \in Wrappers, Use(t, w) PROVE HandleGone'
    <2>1. CASE Box(t, w)
      BY <2>1 DEF Box
    <2>2. CASE Bare(t, w)
      BY <2>2 DEF Bare, HasBare, Owns
    <2>3. CASE Leak(t, w)
      BY <2>3 DEF Leak, Owns
    <2>4. ASSUME NEW u \in Threads, Move(t, u, w) PROVE HandleGone'
      BY <2>4 DEF Move, Owns
    <2>5. CASE Upcast(t, w)
      BY <2>5 DEF Upcast, Owns
    <2>6. CASE BeginDrop(t, w)
      BY <2>6 DEF BeginDrop, Owns
    <2>7. CASE EndDestructor(t, w)
      BY <2>7 DEF EndDestructor
    <2>8. CASE Call(t, w)
      BY <2>8 DEF Call, Consumes
    <2>9. CASE Return(t, w)
      BY <2>9 DEF Return, Consumes
    <2> QED BY <1>3, <2>1, <2>2, <2>3, <2>4, <2>5, <2>6, <2>7, <2>8, <2>9 DEF Use
  <1>4. CASE DropUserHandle
    BY <1>4 DEF DropUserHandle
  <1>5. ASSUME NEW b \in Blocks, Prefetch(b) PROVE HandleGone'
    BY <1>5 DEF Prefetch
  <1>6. CASE UNCHANGED vars
    BY <1>6 DEF vars
  <1> QED BY <1>1, <1>2, <1>3, <1>4, <1>5, <1>6 DEF Next

(* alloc is called for the wrapper whose block it then is.                 *)
LEMMA AccountedStep ==
    ASSUME TypeOK, \A v \in Wrappers : BlockOf(v), Accounted, [Next]_vars
    PROVE  Accounted'
  <1> USE DEF wrapperVars, threadVars, memoryVars, threadSafetyVars
  <1> USE DEF ConstructionPhases, DropPhases, Published, Accounted, TypeOK
  <1>1. ASSUME NEW t \in Threads, NEW w \in Wrappers, Construct(t, w) PROVE Accounted'
    <2>1. CASE UseTemplate(t, w)
      BY <2>1 DEF UseTemplate
    <2>2. CASE Relocate(t, w)
      BY <2>2 DEF Relocate
    <2>3. CASE Fail(t, w)
      BY <2>3 DEF Fail
    <2>4. ASSUME NEW b \in Blocks, Alloc(t, w, b) PROVE Accounted'
      <3>1. block[w] = NoBlock
        BY <2>4 DEF Alloc, BlockOf, BeforeAlloc
      <3>2. \A a \in Blocks : a # b => arena'[a] = arena[a]
        BY <2>4 DEF Alloc
      <3>3. \A v \in Wrappers : block'[v] = IF v = w THEN b ELSE block[v]
        BY <2>4 DEF Alloc
      <3>4. ASSUME NEW a \in Blocks, arena'[a] # NoThread PROVE \E v \in Wrappers : block'[v] = a
        <4>1. CASE a = b
          BY <4>1, <3>3
        <4>2. CASE a # b
          <5>1. PICK v \in Wrappers : block[v] = a
            BY <4>2, <3>2, <3>4
          <5>2. v # w
            BY <5>1, <3>1, DistinctAssumption
          <5> QED BY <5>1, <5>2, <3>3
        <4> QED BY <4>1, <4>2
      <3> QED BY <3>4
    <2>5. CASE ProtectReadWrite(t, w)
      BY <2>5 DEF ProtectReadWrite
    <2>6. CASE CopyTemplate(t, w)
      BY <2>6 DEF CopyTemplate
    <2>7. CASE WriteClosurePtr(t, w)
      BY <2>7 DEF WriteClosurePtr
    <2>8. CASE WriteReturn(t, w)
      BY <2>8 DEF WriteReturn
    <2>9. CASE ProtectReadExecute(t, w)
      BY <2>9 DEF ProtectReadExecute
    <2>10. CASE Flush(t, w)
      BY <2>10 DEF Flush
    <2> QED BY <1>1, <2>1, <2>2, <2>3, <2>4, <2>5, <2>6, <2>7, <2>8, <2>9, <2>10 DEF Construct
  <1>2. ASSUME NEW t \in Threads, NEW w \in Wrappers, FinishDrop(t, w) PROVE Accounted'
    <2>1. CASE Release(t, w)
      BY <2>1 DEF Release
    <2>2. CASE DropHandle(t, w)
      BY <2>2 DEF DropHandle
    <2> QED BY <1>2, <2>1, <2>2 DEF FinishDrop
  <1>3. ASSUME NEW t \in Threads, NEW w \in Wrappers, Use(t, w) PROVE Accounted'
    <2>1. CASE Box(t, w)
      BY <2>1 DEF Box
    <2>2. CASE Bare(t, w)
      BY <2>2 DEF Bare, HasBare, Owns
    <2>3. CASE Leak(t, w)
      BY <2>3 DEF Leak, Owns
    <2>4. ASSUME NEW u \in Threads, Move(t, u, w) PROVE Accounted'
      BY <2>4 DEF Move, Owns
    <2>5. CASE Upcast(t, w)
      BY <2>5 DEF Upcast, Owns
    <2>6. CASE BeginDrop(t, w)
      BY <2>6 DEF BeginDrop, Owns
    <2>7. CASE EndDestructor(t, w)
      BY <2>7 DEF EndDestructor
    <2>8. CASE Call(t, w)
      BY <2>8 DEF Call, Consumes
    <2>9. CASE Return(t, w)
      BY <2>9 DEF Return, Consumes
    <2> QED BY <1>3, <2>1, <2>2, <2>3, <2>4, <2>5, <2>6, <2>7, <2>8, <2>9 DEF Use
  <1>4. CASE DropUserHandle
    BY <1>4 DEF DropUserHandle
  <1>5. ASSUME NEW b \in Blocks, Prefetch(b) PROVE Accounted'
    BY <1>5 DEF Prefetch
  <1>6. CASE UNCHANGED vars
    BY <1>6 DEF vars
  <1> QED BY <1>1, <1>2, <1>3, <1>4, <1>5, <1>6 DEF Next

(* When new fails, by a relocation that panics or an alloc that returns an *)
(* error, the boxed closure is all that is left behind: it is not          *)
(* destroyed, not then and not later, and nobody can call it; no block was *)
(* taken for it, and the clone of the allocator handle is gone.            *)
FailedLeavesTheBox ==
    /\ \A w \in Wrappers : phase[w] = "failed" =>
          /\ closure[w] = "live" /\ drops[w] = 0
          /\ block[w] = NoBlock /\ w \notin handles
          /\ \A t \in Threads : <<t, w>> \notin obtained /\ \A fr \in Frames(t) : fr.w # w
    /\ \A b \in Blocks : arena[b] # NoThread =>
          \E w \in Wrappers : block[w] = b /\ phase[w] \notin {"unborn", "failed"}

(* Error paths of construction leak the box of the closure and nothing     *)
(* else: no executable memory and no allocator handle (bare_closure.rs     *)
(* 594-606, arch.rs 212-252).                                              *)
THEOREM FailureLeavesTheBox == Spec => []FailedLeavesTheBox
  <1>1. Init => HandleGone /\ Accounted
    <2>1. Init => Accounted
      BY DEF Init, Accounted
    <2>2. Init => HandleGone
      BY DistinctAssumption DEF Init, HandleGone
    <2> QED BY <2>1, <2>2
  <1>2. CodeInv /\ HandleGone /\ Accounted /\ [Next]_vars => (HandleGone /\ Accounted)'
    BY HandleGoneStep, AccountedStep DEF CodeInv
  <1>3. CodeInv /\ LifeInv /\ HandleGone /\ Accounted => FailedLeavesTheBox
    <2> SUFFICES ASSUME CodeInv, LifeInv, HandleGone, Accounted PROVE FailedLeavesTheBox
      OBVIOUS
    <2>1. \A w \in Wrappers : BlockOf(w) /\ ClosureOf(w) /\ Unreachable(w)
      BY DEF CodeInv, LifeInv
    <2>2. ASSUME NEW w \in Wrappers, phase[w] = "failed"
          PROVE  /\ closure[w] = "live" /\ drops[w] = 0
                 /\ block[w] = NoBlock /\ w \notin handles
                 /\ \A t \in Threads :
                       <<t, w>> \notin obtained /\ \A fr \in Frames(t) : fr.w # w
      <3>1. closure[w] = "live" /\ drops[w] = 0
        BY <2>1, <2>2 DEF ClosureOf
      <3>2. block[w] = NoBlock
        BY <2>1, <2>2 DEF BlockOf, BeforeAlloc
      <3>3. w \notin handles
        BY <2>2 DEF HandleGone
      <3> QED BY <3>1, <3>2, <3>3, <2>1, <2>2 DEF Unreachable, NotYetPublished
    <2>3. ASSUME NEW b \in Blocks, arena[b] # NoThread
          PROVE  \E w \in Wrappers : block[w] = b /\ phase[w] \notin {"unborn", "failed"}
      <3>1. PICK w \in Wrappers : block[w] = b
        BY <2>3 DEF Accounted
      <3>2. phase[w] \notin {"unborn", "failed"}
        BY <3>1, <2>1, DistinctAssumption DEF BlockOf, BeforeAlloc
      <3> QED BY <3>1, <3>2
    <2> QED BY <2>2, <2>3 DEF FailedLeavesTheBox
  <1> QED BY <1>1, <1>2, <1>3, LifeInvariant, PTL DEF Spec
=============================================================================
