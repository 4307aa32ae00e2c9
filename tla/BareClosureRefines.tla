------------------------- MODULE BareClosureRefines -------------------------
(***************************************************************************)
(* Proof that BareClosure implements BareFn: the initial states map to     *)
(* initial states, and a step of the crate maps to a step of BareFn or     *)
(* leaves the mapped state alone.  The stack of a thread is mapped frame   *)
(* by frame, so the first lemmas are about mapped sequences.               *)
(***************************************************************************)
EXTENDS BareClosureLife, SequenceTheorems

(* What a frame is mapped to.                                              *)
Activities == {"call", "drop"} \X (Wrappers \cup {Junk})

(* A stack, mapped frame by frame.                                         *)
Mapped(s) == [i \in 1..Len(s) |-> ActivityOf(s[i])]

(* A frame maps to an activity.                                            *)
LEMMA ActivityType ==
    ASSUME NEW fr \in Frame
    PROVE  ActivityOf(fr) \in Activities
  <1>1. fr.op \in {"call", "drop"} /\ fr.w \in Wrappers /\ fr.runs \in Code
    BY DEF Frame
  <1>2. fr.runs.closure \in Wrappers \cup {Junk}
    BY <1>1 DEF Code
  <1> QED BY <1>1, <1>2 DEF ActivityOf, Entered, Activities

(* The mapped stack is as long as the stack.                               *)
LEMMA MappedSeq ==
    ASSUME NEW s \in Seq(Frame)
    PROVE  /\ Mapped(s) \in Seq(Activities)
           /\ Len(Mapped(s)) = Len(s)
           /\ \A i \in 1..Len(s) : Mapped(s)[i] = ActivityOf(s[i])
  <1> DEFINE n == Len(s)
  <1>1. n \in Nat /\ \A i \in 1..n : s[i] \in Frame
    OBVIOUS
  <1>2. \A i \in 1..n : ActivityOf(s[i]) \in Activities
    BY <1>1, ActivityType
  <1>3. Mapped(s) \in [1..n -> Activities]
    BY <1>1, <1>2 DEF Mapped
  <1>4. Mapped(s) \in Seq(Activities)
    BY <1>1, <1>3
  <1>5. Len(Mapped(s)) = n
    BY <1>1, <1>3, <1>4, LenProperties
  <1> QED BY <1>4, <1>5 DEF Mapped

(* Mapping commutes with pushing a frame.                                  *)
LEMMA MappedPush ==
    ASSUME NEW s \in Seq(Frame), NEW fr \in Frame
    PROVE  Mapped(<<fr>> \o s) = <<ActivityOf(fr)>> \o Mapped(s)
  <1> DEFINE a == ActivityOf(fr)
             l == Mapped(<<fr>> \o s)
             r == <<a>> \o Mapped(s)
  <1>1. /\ <<fr>> \o s \in Seq(Frame)
        /\ Len(<<fr>> \o s) = Len(s) + 1
        /\ \A i \in 1..Len(s) + 1 : (<<fr>> \o s)[i] = IF i = 1 THEN fr ELSE s[i - 1]
    BY PushFrame
  <1>2. /\ l \in Seq(Activities) /\ Len(l) = Len(s) + 1
        /\ \A i \in 1..Len(s) + 1 : l[i] = ActivityOf((<<fr>> \o s)[i])
    BY <1>1, MappedSeq
  <1>3. a \in Activities
    BY ActivityType
  <1>4. <<a>> \in Seq(Activities) /\ Len(<<a>>) = 1 /\ <<a>>[1] = a
    BY <1>3
  <1>5. Mapped(s) \in Seq(Activities) /\ Len(Mapped(s)) = Len(s) /\ Len(s) \in Nat
        /\ \A i \in 1..Len(s) : Mapped(s)[i] = ActivityOf(s[i])
    BY MappedSeq
  <1>6. /\ r \in Seq(Activities) /\ Len(r) = Len(s) + 1
        /\ \A i \in 1..Len(s) + 1 : r[i] = IF i <= 1 THEN <<a>>[i] ELSE Mapped(s)[i - 1]
    BY <1>4, <1>5, ConcatProperties
  <1>7. ASSUME NEW i \in 1..Len(s) + 1 PROVE l[i] = r[i]
    <2>1. CASE i = 1
      BY <2>1, <1>1, <1>2, <1>4, <1>6
    <2>2. CASE i # 1
      <3>1. i - 1 \in 1..Len(s)
        BY <2>2, <1>5
      <3>2. l[i] = ActivityOf(s[i - 1])
        BY <2>2, <1>1, <1>2
      <3>3. r[i] = Mapped(s)[i - 1]
        BY <2>2, <1>5, <1>6
      <3> QED BY <3>1, <3>2, <3>3, <1>5
    <2> QED BY <2>1, <2>2
  <1> HIDE DEF l, r
  <1>8. l = r
    BY <1>2, <1>6, <1>7, SeqEqual
  <1> QED BY <1>8 DEF l, r

(* Mapping commutes with popping a frame.                                  *)
LEMMA MappedPop ==
    ASSUME NEW s \in Seq(Frame), s # <<>>
    PROVE  /\ Mapped(s) # <<>>
           /\ Head(Mapped(s)) = ActivityOf(Head(s))
           /\ Mapped(Tail(s)) = Tail(Mapped(s))
  <1> DEFINE l == Mapped(Tail(s))
             m == Mapped(s)
  <1>1. /\ Head(s) = s[1] /\ Len(s) > 0 /\ Len(s) \in Nat
        /\ Tail(s) \in Seq(Frame) /\ Len(Tail(s)) = Len(s) - 1
        /\ \A i \in 1..Len(s) - 1 : Tail(s)[i] = s[i + 1]
    BY PopFrame
  <1>2. /\ l \in Seq(Activities) /\ Len(l) = Len(s) - 1
        /\ \A i \in 1..Len(s) - 1 : l[i] = ActivityOf(Tail(s)[i])
    BY <1>1, MappedSeq
  <1>3. /\ m \in Seq(Activities) /\ Len(m) = Len(s)
        /\ \A i \in 1..Len(s) : m[i] = ActivityOf(s[i])
    BY MappedSeq
  <1> HIDE DEF l, m
  <1>4. m # <<>>
    BY <1>1, <1>3
  <1>5. Head(m) = m[1]
    BY <1>3, <1>4
  <1>6. /\ Tail(m) \in Seq(Activities) /\ Len(Tail(m)) = Len(s) - 1
        /\ \A i \in 1..Len(s) - 1 : Tail(m)[i] = m[i + 1]
    BY <1>3, <1>4, HeadTailProperties
  <1>7. \A i \in 1..Len(s) - 1 : l[i] = Tail(m)[i]
    BY <1>1, <1>2, <1>3, <1>6
  <1>8. l = Tail(m)
    BY <1>2, <1>6, <1>7, SeqEqual
  <1>9. Head(m) = ActivityOf(Head(s))
    BY <1>1, <1>3, <1>5
  <1> QED BY <1>4, <1>8, <1>9 DEF l, m

-----------------------------------------------------------------------------
(* A call frame is mapped to the call of its own wrapper.                  *)
LEMMA ActivityIs ==
    ASSUME TypeOK, CallsRunOwnThunk, NEW t \in Threads, NEW fr \in Frames(t)
    PROVE  ActivityOf(fr) = <<fr.op, fr.w>> /\ fr.w \in Wrappers
  <1>1. fr \in Frame
    <2>1. PICK i \in 1..Len(stack[t]) : fr = stack[t][i]
      BY DEF Frames
    <2>2. stack[t] \in Seq(Frame)
      BY DEF TypeOK
    <2> QED BY <2>1, <2>2
  <1>2. fr.op \in {"call", "drop"} /\ fr.w \in Wrappers
    BY <1>1 DEF Frame
  <1>3. CASE fr.op = "call"
    <2>1. fr.runs = Thunk(fr.w)
      BY <1>3 DEF CallsRunOwnThunk
    <2>2. Entered(fr) = fr.w
      BY <2>1 DEF Entered, Thunk
    <2> QED BY <1>2, <1>3, <2>2 DEF ActivityOf
  <1>4. CASE fr.op = "drop"
    BY <1>2, <1>4 DEF ActivityOf
  <1> QED BY <1>2, <1>3, <1>4

(* Whoever is active for BareFn is really inside a call.                   *)
LEMMA ActiveInFlight ==
    ASSUME TypeOK, CallsRunOwnThunk, NEW w \in Wrappers, Promise!Active(w)
    PROVE  InFlight(w)
  <1> DEFINE run(t) == [i \in 1..Len(stack[t]) |-> ActivityOf(stack[t][i])]
  <1>1. PICK t \in Threads : \E i \in 1..Len(run(t)) : run(t)[i] = <<"call", w>>
    BY DEF Promise!Active
  <1>2. stack[t] \in Seq(Frame) /\ run(t) = Mapped(stack[t])
    BY DEF TypeOK, Mapped
  <1>3. PICK i \in 1..Len(stack[t]) : ActivityOf(stack[t][i]) = <<"call", w>>
    BY <1>1, <1>2, MappedSeq
  <1>4. stack[t][i] \in Frames(t)
    BY DEF Frames
  <1>5. stack[t][i].op = "call" /\ stack[t][i].w = w
    BY <1>3, <1>4, ActivityIs
  <1> QED BY <1>4, <1>5 DEF InFlight, Calling

(* Entering and leaving map to Enter and Exit.                             *)
LEMMA RunningEnter ==
    ASSUME TypeOK, NEW t \in Threads, NEW fr \in Frame, Enter(t, fr),
           NEW op, NEW w, ActivityOf(fr) = <<op, w>>
    PROVE  Promise!Enter(t, op, w)
  <1> DEFINE run == [u \in Threads |-> [i \in 1..Len(stack[u]) |-> ActivityOf(stack[u][i])]]
  <1>1. stack' = [stack EXCEPT ![t] = <<fr>> \o stack[t]] /\ stack \in [Threads -> Seq(Frame)]
    BY DEF Enter, TypeOK
  <1>2. \A u \in Threads : run[u] = Mapped(stack[u]) /\ run'[u] = Mapped(stack'[u])
    BY DEF Mapped
  <1>3. Mapped(stack'[t]) = <<<<op, w>>>> \o Mapped(stack[t])
    BY <1>1, MappedPush
  <1>4. \A u \in Threads \ {t} : Mapped(stack'[u]) = Mapped(stack[u])
    BY <1>1
  <1>5. run' = [run EXCEPT ![t] = <<<<op, w>>>> \o run[t]]
    <2>1. /\ DOMAIN run = Threads /\ DOMAIN run' = Threads
          /\ run = [u \in Threads |-> run[u]] /\ run' = [u \in Threads |-> run'[u]]
      OBVIOUS
    <2> HIDE DEF run
    <2> QED BY <1>2, <1>3, <1>4, <2>1
  <1> QED BY <1>5 DEF Promise!Enter

(* Leaving a frame pops its activity, and only on that thread.             *)
LEMMA RunningExit ==
    ASSUME TypeOK, CallsRunOwnThunk, NEW t \in Threads, NEW op, NEW w, Leave(t, op, w)
    PROVE  Promise!Exit(t, op, w)
  <1> DEFINE run == [u \in Threads |-> [i \in 1..Len(stack[u]) |-> ActivityOf(stack[u][i])]]
  <1>1. /\ stack' = [stack EXCEPT ![t] = Tail(stack[t])] /\ stack \in [Threads -> Seq(Frame)]
        /\ stack[t] # <<>> /\ Head(stack[t]).op = op /\ Head(stack[t]).w = w
    BY DEF Leave, TypeOK
  <1>2. \A u \in Threads : run[u] = Mapped(stack[u]) /\ run'[u] = Mapped(stack'[u])
    BY DEF Mapped
  <1>3. /\ Mapped(stack[t]) # <<>>
        /\ Head(Mapped(stack[t])) = ActivityOf(Head(stack[t]))
        /\ Mapped(stack'[t]) = Tail(Mapped(stack[t]))
    BY <1>1, MappedPop
  <1>4. ActivityOf(Head(stack[t])) = <<op, w>>
    BY <1>1, LeaveFrames, ActivityIs
  <1>5. \A u \in Threads \ {t} : Mapped(stack'[u]) = Mapped(stack[u])
    BY <1>1
  <1>6. run' = [run EXCEPT ![t] = Tail(run[t])]
    <2>1. /\ DOMAIN run = Threads /\ DOMAIN run' = Threads
          /\ run = [u \in Threads |-> run[u]] /\ run' = [u \in Threads |-> run'[u]]
      OBVIOUS
    <2> HIDE DEF run
    <2> QED BY <1>2, <1>3, <1>5, <2>1
  <1>7. run[t] # <<>> /\ Head(run[t]) = <<op, w>>
    BY <1>2, <1>3, <1>4
  <1> QED BY <1>6, <1>7 DEF Promise!Exit

-----------------------------------------------------------------------------
(* What becomes of a wrapper when its phase changes.                       *)
LEMMA StateMoves ==
    ASSUME TypeOK, NEW w \in Wrappers, NEW p, phase' = [phase EXCEPT ![w] = p]
    PROVE  /\ [v \in Wrappers |-> StateOf(v)]' =
                 [[v \in Wrappers |-> StateOf(v)] EXCEPT ![w] = StateOf(w)']
           /\ phase'[w] = p
  <1>1. phase'[w] = p /\ \A v \in Wrappers \ {w} : phase'[v] = phase[v]
    BY DEF TypeOK
  <1>2. \A v \in Wrappers \ {w} : StateOf(v)' = StateOf(v)
    BY <1>1 DEF StateOf
  <1> QED BY <1>1, <1>2

(* A phase that looks the same to the program.                             *)
LEMMA StateStays ==
    ASSUME TypeOK, NEW w \in Wrappers, NEW p, phase' = [phase EXCEPT ![w] = p],
           StateOf(w)' = StateOf(w)
    PROVE  [v \in Wrappers |-> StateOf(v)]' = [v \in Wrappers |-> StateOf(v)]
  <1> DEFINE state == [v \in Wrappers |-> StateOf(v)]
  <1>1. state' = [state EXCEPT ![w] = StateOf(w)'] /\ state[w] = StateOf(w)
    BY StateMoves
  <1> QED BY <1>1

(* The initial states are initial states of BareFn.                        *)
LEMMA PromiseInit == Init => Promise!Init
  <1> SUFFICES ASSUME Init PROVE Promise!Init
    OBVIOUS
  <1>1. \A w \in Wrappers : StateOf(w) = "none"
    BY DEF Init, StateOf
  <1>2. \A t \in Threads : [i \in 1..Len(stack[t]) |-> ActivityOf(stack[t][i])] = <<>>
    <2> TAKE t \in Threads
    <2>1. stack[t] = <<>> /\ <<>> \in Seq(Frame) /\ Len(<<>>) = 0
      BY DEF Init
    <2>2. Mapped(stack[t]) \in Seq(Activities) /\ Len(Mapped(stack[t])) = 0
      BY <2>1, MappedSeq
    <2>3. Mapped(stack[t]) = <<>>
      BY <2>2, EmptySeq
    <2> QED BY <2>3 DEF Mapped
  <1>3. called = {}
    BY DEF Init
  <1> QED BY <1>1, <1>2, <1>3 DEF Promise!Init

(* All of construction but its beginning and its end is invisible.         *)
LEMMA ConstructRefines ==
    ASSUME TypeOK, NEW t \in Threads, NEW w \in Wrappers, Construct(t, w)
    PROVE  Promise!Make(w) \/ UNCHANGED Promise!vars
  <1> DEFINE state == [v \in Wrappers |-> StateOf(v)]
             run == [u \in Threads |-> [i \in 1..Len(stack[u]) |-> ActivityOf(stack[u][i])]]
  <1> USE DEF wrapperVars, threadVars, memoryVars, threadSafetyVars
  <1>1. stack' = stack /\ called' = called
    BY DEF Construct, UseTemplate, Relocate, Fail, Alloc, ProtectReadWrite, CopyTemplate,
           WriteClosurePtr, WriteReturn, ProtectReadExecute, Flush
  <1>2. run' = run
    BY <1>1
  <1>a. ASSUME NEW p \in {"owned", "failed"}, phase' = [phase EXCEPT ![w] = p],
               phase[w] \in ConstructionPhases
        PROVE  Promise!Make(w)
    <2>1. StateOf(w) = "building"
      BY <1>a DEF StateOf, ConstructionPhases
    <2>2. state' = [state EXCEPT ![w] = StateOf(w)'] /\ phase'[w] = p
      BY <1>a, StateMoves
    <2>3. StateOf(w)' = IF p = "owned" THEN "live" ELSE "failed"
      BY <2>2 DEF StateOf, ConstructionPhases, DropPhases
    <2> QED BY <1>1, <1>2, <2>1, <2>2, <2>3 DEF Promise!Make, Promise!Become
  <1>b. ASSUME NEW p \in ConstructionPhases, phase' = [phase EXCEPT ![w] = p],
               phase[w] \in ConstructionPhases
        PROVE  UNCHANGED Promise!vars
    <2>1. phase'[w] = p
      BY <1>b, StateMoves
    <2>2. StateOf(w) = "building" /\ StateOf(w)' = "building"
      BY <1>b, <2>1 DEF StateOf, ConstructionPhases
    <2>3. state' = state
      BY <1>b, <2>2, StateStays
    <2> QED BY <1>1, <1>2, <2>3 DEF Promise!vars
  <1> HIDE DEF state, run
  <1> USE DEF ConstructionPhases
  <1>3. CASE UseTemplate(t, w)
    BY <1>3, <1>a DEF UseTemplate
  <1>4. CASE Relocate(t, w)
    BY <1>4, <1>b DEF Relocate
  <1>5. CASE Fail(t, w)
    BY <1>5, <1>a DEF Fail
  <1>6. ASSUME NEW b \in Blocks, Alloc(t, w, b) PROVE UNCHANGED Promise!vars
    BY <1>6, <1>b DEF Alloc
  <1>7. CASE ProtectReadWrite(t, w)
    BY <1>7, <1>b DEF ProtectReadWrite
  <1>8. CASE CopyTemplate(t, w)
    BY <1>8, <1>b DEF CopyTemplate
  <1>9. CASE WriteClosurePtr(t, w)
    BY <1>9, <1>b DEF WriteClosurePtr
  <1>10. CASE WriteReturn(t, w)
    BY <1>10, <1>b DEF WriteReturn
  <1>11. CASE ProtectReadExecute(t, w)
    BY <1>11, <1>b DEF ProtectReadExecute
  <1>12. CASE Flush(t, w)
    BY <1>12, <1>a DEF Flush
  <1> QED BY <1>3, <1>4, <1>5, <1>6, <1>7, <1>8, <1>9, <1>10, <1>11, <1>12 DEF Construct

(* The program's own steps map to the actions of BareFn of that name, or   *)
(* are invisible: bare() and moving or upcasting a wrapper.                *)
LEMMA UseRefines ==
    ASSUME CodeInv, LifeInv, NEW t \in Threads, NEW w \in Wrappers, Use(t, w)
    PROVE  [Promise!Next]_(Promise!vars)
  <1> DEFINE state == [v \in Wrappers |-> StateOf(v)]
             run == [u \in Threads |-> [i \in 1..Len(stack[u]) |-> ActivityOf(stack[u][i])]]
  <1> USE DEF wrapperVars, threadVars, memoryVars, threadSafetyVars
  <1>0. TypeOK /\ CallsRunOwnThunk
    BY DEF CodeInv
  <1>a. ASSUME stack' = stack, phase' = phase, called' = called PROVE UNCHANGED Promise!vars
    BY <1>a DEF Promise!vars, StateOf
  <1>1. CASE Box(t, w)
    <2>1. phase' = [phase EXCEPT ![w] = "boxed"] /\ phase[w] = "unborn"
          /\ stack' = stack /\ called' = called
      BY <1>1 DEF Box
    <2>2. state' = [state EXCEPT ![w] = StateOf(w)'] /\ phase'[w] = "boxed"
      BY <1>0, <2>1, StateMoves
    <2>3. StateOf(w) = "none" /\ StateOf(w)' = "building"
      BY <2>1, <2>2 DEF StateOf, ConstructionPhases
    <2>4. run' = run
      BY <2>1
    <2>5. Promise!Make(w)
      BY <2>1, <2>2, <2>3, <2>4 DEF Promise!Make, Promise!Become
    <2> QED BY <2>5 DEF Promise!Next
  <1>2. CASE Bare(t, w)
    BY <1>2, <1>a DEF Bare
  <1>3. CASE Leak(t, w)
    <2>1. phase' = [phase EXCEPT ![w] = "leaked"] /\ phase[w] = "owned"
          /\ stack' = stack /\ called' = called
      BY <1>3 DEF Leak, Owns
    <2>2. state' = [state EXCEPT ![w] = StateOf(w)'] /\ phase'[w] = "leaked"
      BY <1>0, <2>1, StateMoves
    <2>3. StateOf(w) = "live" /\ StateOf(w)' = "leaked"
      BY <2>1, <2>2 DEF StateOf, ConstructionPhases, DropPhases
    <2>4. run' = run
      BY <2>1
    <2>5. Promise!Leak(w)
      BY <2>1, <2>2, <2>3, <2>4 DEF Promise!Leak, Promise!Become
    <2> QED BY <2>5 DEF Promise!Next
  <1>4. ASSUME NEW u \in Threads, Move(t, u, w) PROVE [Promise!Next]_(Promise!vars)
    BY <1>4, <1>a DEF Move
  <1>5. CASE Upcast(t, w)
    BY <1>5, <1>a DEF Upcast
  <1>6. CASE BeginDrop(t, w)
    <2> DEFINE fr == [op |-> "drop", w |-> w, runs |-> Thunk(w)]
    <2>1. phase' = [phase EXCEPT ![w] = "destructing"] /\ phase[w] = "owned"
          /\ Enter(t, fr) /\ called' = called
      BY <1>6 DEF BeginDrop, Owns
    <2>2. state' = [state EXCEPT ![w] = StateOf(w)'] /\ phase'[w] = "destructing"
      BY <1>0, <2>1, StateMoves
    <2>3. StateOf(w) = "live" /\ StateOf(w)' = "dropping"
      BY <2>1, <2>2 DEF StateOf, ConstructionPhases, DropPhases
    <2>4. fr \in Frame /\ ActivityOf(fr) = <<"drop", w>>
      BY DEF Frame, Thunk, Code, ActivityOf
    <2>5. Promise!Enter(t, "drop", w)
      BY <1>0, <2>1, <2>4, RunningEnter
    <2>6. Promise!Drop(t, w)
      BY <2>1, <2>2, <2>3, <2>5 DEF Promise!Drop, Promise!Become
    <2> QED BY <2>6 DEF Promise!Next
  <1>7. CASE EndDestructor(t, w)
    <2>1. phase' = [phase EXCEPT ![w] = "releasing"] /\ phase[w] = "destructing"
          /\ Leave(t, "drop", w) /\ called' = called
      BY <1>7 DEF EndDestructor
    <2>2. state' = [state EXCEPT ![w] = StateOf(w)'] /\ phase'[w] = "releasing"
      BY <1>0, <2>1, StateMoves
    <2>3. StateOf(w) = "dropping" /\ StateOf(w)' = "gone"
      BY <2>1, <2>2 DEF StateOf, ConstructionPhases, DropPhases
    <2>4. Promise!Exit(t, "drop", w)
      BY <1>0, <2>1, RunningExit
    <2>5. Promise!Dropped(t, w)
      BY <2>1, <2>2, <2>3, <2>4 DEF Promise!Dropped, Promise!Become
    <2> QED BY <2>5 DEF Promise!Next
  <1>8. CASE Call(t, w)
    <2> DEFINE fr == [op |-> "call", w |-> w,
                      runs |-> IF w \in ZstClosures THEN Thunk(w) ELSE Fetched(block[w])]
    <2>1. Enter(t, fr) /\ CallContract(t, w) /\ phase' = phase
      BY <1>8 DEF Call
    <2>2. fr \in Frame /\ fr = [op |-> "call", w |-> w, runs |-> Thunk(w)]
      BY <1>8, CallFrames
    <2>3. ActivityOf(fr) = <<"call", w>>
      BY <2>2 DEF ActivityOf, Entered, Thunk
    <2>4. Promise!Enter(t, "call", w)
      BY <1>0, <2>1, <2>2, <2>3, RunningEnter
    <2>5. state' = state
      BY <2>1 DEF StateOf
    <2>6. state[w] \in {"live", "leaked"} /\ (phase[w] = "leaked" => state[w] = "leaked")
      BY <2>1 DEF CallContract, Published, StateOf, ConstructionPhases, DropPhases
    <2>7. w \in MutClosures => ~Promise!Active(w)
      BY <1>0, <2>1, ActiveInFlight DEF CallContract, MutContract
    <2>8. w \in OnceClosures => phase[w] = "leaked" /\ w \notin called
      BY <2>1 DEF CallContract, OnceContract, HasPointer, PointerShared, LifeInv, Unreachable
    <2>9. called' = IF w \in OnceClosures THEN called \cup {w} ELSE called
      BY <1>8 DEF Call, Consumes
    <2> HIDE DEF state, fr
    <2>10. Promise!Call(t, w)
      <3>1. state[w] = StateOf(w)
        BY DEF state
      <3> QED BY <2>4, <2>5, <2>6, <2>7, <2>8, <2>9, <3>1 DEF Promise!Call, state
    <2> QED BY <2>10 DEF Promise!Next
  <1>9. CASE Return(t, w)
    <2>1. phase' = phase /\ Leave(t, "call", w) /\ called' = called
      BY <1>9 DEF Return
    <2>2. Promise!Exit(t, "call", w)
      BY <1>0, <2>1, RunningExit
    <2>3. state' = state
      BY <2>1 DEF StateOf
    <2>4. Promise!Return(t, w)
      BY <2>1, <2>2, <2>3 DEF Promise!Return
    <2> QED BY <2>4 DEF Promise!Next
  <1> QED BY <1>1, <1>2, <1>3, <1>4, <1>5, <1>6, <1>7, <1>8, <1>9 DEF Use

(* Every step is a step of BareFn or invisible to it.                      *)
LEMMA PromiseStep ==
    ASSUME CodeInv, LifeInv, [Next]_vars
    PROVE  [Promise!Next]_(Promise!vars)
  <1> USE DEF wrapperVars, threadVars, memoryVars, threadSafetyVars
  <1>0. TypeOK
    BY DEF CodeInv
  <1>a. ASSUME stack' = stack, phase' = phase, called' = called PROVE UNCHANGED Promise!vars
    BY <1>a DEF Promise!vars, StateOf
  <1>1. ASSUME NEW t \in Threads, NEW w \in Wrappers, Construct(t, w)
        PROVE  [Promise!Next]_(Promise!vars)
    BY <1>0, <1>1, ConstructRefines DEF Promise!Next
  <1>2. ASSUME NEW t \in Threads, NEW w \in Wrappers, FinishDrop(t, w)
        PROVE  UNCHANGED Promise!vars
    <2> DEFINE state == [v \in Wrappers |-> StateOf(v)]
    <2>1. PICK p \in {"released", "gone"} : phase' = [phase EXCEPT ![w] = p]
      BY <1>2 DEF FinishDrop, Release, DropHandle
    <2>2. phase[w] \in DropPhases /\ stack' = stack /\ called' = called
      BY <1>2 DEF FinishDrop, Release, DropHandle, DropPhases
    <2>3. StateOf(w)' = "gone" /\ StateOf(w) = "gone"
      BY <1>0, <2>1, <2>2, StateMoves DEF StateOf, ConstructionPhases, DropPhases
    <2>4. state' = state
      BY <1>0, <2>1, <2>3, StateStays
    <2> QED BY <2>2, <2>4 DEF Promise!vars
  <1>3. ASSUME NEW t \in Threads, NEW w \in Wrappers, Use(t, w)
        PROVE  [Promise!Next]_(Promise!vars)
    BY <1>3, UseRefines
  <1>4. CASE DropUserHandle
    BY <1>4, <1>a DEF DropUserHandle
  <1>5. ASSUME NEW b \in Blocks, Prefetch(b) PROVE UNCHANGED Promise!vars
    BY <1>5, <1>a DEF Prefetch
  <1>6. CASE UNCHANGED vars
    BY <1>6, <1>a DEF vars
  <1> QED BY <1>1, <1>2, <1>3, <1>4, <1>5, <1>6 DEF Next

(* To a program that calls within the contract the crate behaves like      *)
(* BareFn: however threads, blocks, writes and instruction caches          *)
(* interleave, and whatever is dropped under a call, calling the bare      *)
(* pointer of w runs w (arch.rs 190-284, bare_closure.rs 366-408).         *)
THEOREM BareClosureImplements == Spec => ImplementsBareFn
  <1>1. CodeInv /\ LifeInv /\ [Next]_vars => [Promise!Next]_(Promise!vars)
    BY PromiseStep
  <1> QED BY <1>1, PromiseInit, LifeInvariant, PTL DEF Spec, ImplementsBareFn, Promise!Spec
=============================================================================
