------------------------- MODULE GlobalJitAllocProofs -------------------------
(***************************************************************************)
(* AllocInv is inductive and GlobalJitAlloc implements JitAlloc, for any   *)
(* threads, memory and number of calls.                                    *)
(***************************************************************************)
EXTENDS GlobalJitAlloc, TLAPS

USE ConstantsAssumption DEF ConstantsAssumption

(* An extent is never apart from itself.                                   *)
LEMMA NotApartFromItself ==
    ASSUME NEW e \in Extents
    PROVE  ~Apart(e, e)
  <1>1. e \in [from : 0..Top, size : Sizes]
    BY DEF Extents
  <1>2. e.from \in 0..Top /\ e.size \in Sizes
    BY <1>1
  <1>3. e.from \in Nat
    BY <1>2
  <1>4. e.size \in Nat \ {0}
    BY <1>2
  <1> QED BY <1>3, <1>4 DEF Apart

(* Apart does not depend on the order.                                     *)
LEMMA ApartSymmetric ==
    ASSUME NEW e, NEW f, Apart(e, f)
    PROVE  Apart(f, e)
  BY DEF Apart

-----------------------------------------------------------------------------
(* AllocInv holds at the start: nothing is locked, made or handed out.     *)
LEMMA AllocInvInit == Init => AllocInv
  <1> SUFFICES ASSUME Init PROVE AllocInv
    OBVIOUS
  <1>1. TypeOK
    <2>1. begun \in 0..MaxCalls
      BY DEF Init
    <2>2. pc \in [Threads -> Locations] /\ op \in [Threads -> {"alloc", "release"}]
      BY DEF Init, Locations
    <2>3. want \in [Threads -> Sizes]
      BY DEF Init
    <2>4. /\ found \in [Threads -> Extents \cup {NoExtent}]
          /\ extent \in [Threads -> Extents \cup {NoExtent}]
      BY DEF Init
    <2> QED BY <2>1, <2>2, <2>3, <2>4 DEF Init, TypeOK
  <1>2. TakenApart /\ FoundFree
    BY DEF Init, TakenApart, FoundFree
  <1>3. LockHeld
    BY DEF Init, LockHeld, InUseAlloc
  <1>4. ClaimsApart
    BY DEF Init, ClaimsApart, Claim
  <1> QED BY <1>1, <1>2, <1>3, <1>4 DEF AllocInv

(* Types are kept: what Search finds is an extent.                         *)
LEMMA TypeStep ==
    ASSUME AllocInv, [Next]_vars
    PROVE  TypeOK'
  <1> USE DEF TypeOK, Locations, Begin, Goto, allocatorVars, callVars
  <1>1. TypeOK /\ FoundFree
    BY DEF AllocInv
  <1>2. ASSUME NEW t \in Threads, CallAlloc(t) PROVE TypeOK'
    BY <1>1, <1>2 DEF CallAlloc
  <1>3. ASSUME NEW t \in Threads, CallRelease(t) PROVE TypeOK'
    BY <1>1, <1>3 DEF CallRelease
  <1>4. ASSUME NEW t \in Threads, UseAlloc(t) PROVE TypeOK'
    <2>1. CASE Lock(t)
      BY <1>1, <2>1 DEF Lock
    <2>2. CASE Unwrap(t)
      BY <1>1, <2>2 DEF Unwrap
    <2>3. CASE GetOrInsert(t)
      BY <1>1, <2>3 DEF GetOrInsert
    <2>4. CASE Search(t)
      BY <1>1, <2>4 DEF Search
    <2>5. CASE Mark(t)
      <3>1. found[t] \in Extents
        BY <1>1, <2>5 DEF Mark, FoundFree
      <3> QED BY <1>1, <2>5, <3>1 DEF Mark
    <2>6. CASE Refuse(t)
      BY <1>1, <2>6 DEF Refuse
    <2>7. CASE Release(t)
      BY <1>1, <2>7 DEF Release
    <2>8. CASE Panic(t)
      BY <1>1, <2>8 DEF Panic
    <2>9. CASE UnlockAndReturn(t)
      <3>1. pc[t] = "granted" => extent[t] \in Extents
        BY <1>1 DEF AllocInv, ClaimsApart, Claim
      <3> QED BY <1>1, <2>9, <3>1 DEF UnlockAndReturn
    <2> QED BY <1>4, <2>1, <2>2, <2>3, <2>4, <2>5, <2>6, <2>7, <2>8, <2>9 DEF UseAlloc
  <1>5. CASE UNCHANGED vars
    BY <1>1, <1>5 DEF vars
  <1> QED BY <1>2, <1>3, <1>4, <1>5 DEF Next

(* The lock is taken and given back exactly where a thread goes in and     *)
(* out, panics included.                                                   *)
LEMMA LockStep ==
    ASSUME AllocInv, [Next]_vars
    PROVE  LockHeld'
  <1> USE DEF TypeOK, Locations, Begin, Goto, LockHeld, InUseAlloc, allocatorVars, callVars
  <1>1. TypeOK /\ LockHeld /\ FoundFree
    BY DEF AllocInv
  <1>2. ASSUME NEW t \in Threads, CallAlloc(t) PROVE LockHeld'
    BY <1>1, <1>2 DEF CallAlloc
  <1>3. ASSUME NEW t \in Threads, CallRelease(t) PROVE LockHeld'
    BY <1>1, <1>3 DEF CallRelease
  <1>4. ASSUME NEW t \in Threads, UseAlloc(t) PROVE LockHeld'
    <2>1. CASE Lock(t)
      BY <1>1, <2>1 DEF Lock, CanLock
    <2>2. CASE Unwrap(t)
      BY <1>1, <2>2 DEF Unwrap
    <2>3. CASE GetOrInsert(t)
      BY <1>1, <2>3 DEF GetOrInsert
    <2>4. CASE Search(t)
      BY <1>1, <2>4 DEF Search
    <2>5. CASE Mark(t)
      BY <1>1, <2>5 DEF Mark, FoundFree
    <2>6. CASE Refuse(t)
      BY <1>1, <2>6 DEF Refuse
    <2>7. CASE Release(t)
      BY <1>1, <2>7 DEF Release
    <2>8. CASE Panic(t)
      BY <1>1, <2>8 DEF Panic
    <2>9. CASE UnlockAndReturn(t)
      BY <1>1, <2>9 DEF UnlockAndReturn
    <2> QED BY <1>4, <2>1, <2>2, <2>3, <2>4, <2>5, <2>6, <2>7, <2>8, <2>9 DEF UseAlloc
  <1>5. CASE UNCHANGED vars
    BY <1>1, <1>5 DEF vars
  <1> QED BY <1>2, <1>3, <1>4, <1>5 DEF Next

(* Only one thread is past the lock, so nobody else changes what is taken  *)
(* between a search and its mark.                                          *)
LEMMA TakenStep ==
    ASSUME AllocInv, [Next]_vars
    PROVE  TakenApart' /\ FoundFree'
  <1> USE DEF TypeOK, Locations, Begin, Goto, TakenApart, FoundFree, allocatorVars, callVars
  <1>1. TypeOK /\ TakenApart /\ FoundFree
    BY DEF AllocInv
  <1>a. ASSUME NEW t \in Threads, NEW u \in Threads, InUseAlloc(t), InUseAlloc(u) PROVE t = u
    BY <1>a DEF AllocInv, LockHeld
  <1>2. ASSUME NEW t \in Threads, CallAlloc(t) PROVE TakenApart' /\ FoundFree'
    BY <1>1, <1>2 DEF CallAlloc
  <1>3. ASSUME NEW t \in Threads, CallRelease(t) PROVE TakenApart' /\ FoundFree'
    BY <1>1, <1>3 DEF CallRelease
  <1>4. ASSUME NEW t \in Threads, UseAlloc(t) PROVE TakenApart' /\ FoundFree'
    <2>1. CASE Lock(t)
      BY <1>1, <2>1 DEF Lock
    <2>2. CASE Unwrap(t)
      BY <1>1, <2>2 DEF Unwrap
    <2>3. CASE GetOrInsert(t)
      <3>1. taken' = taken
        BY <1>1, <2>3 DEF GetOrInsert
      <3> QED BY <1>1, <2>3, <3>1 DEF GetOrInsert
    <2>4. CASE Search(t)
      <3>1. PICK e \in Extents : e.size = want[t] /\ Free(e, taken) /\ found' = [found EXCEPT ![t] = e]
        BY <2>4 DEF Search
      <3> QED BY <1>1, <2>4, <3>1 DEF Search
    <2>5. CASE Mark(t)
      <3>1. Free(found[t], taken) /\ found[t] \in Extents
        BY <1>1, <2>5 DEF Mark
      <3>2. taken' = taken \cup {found[t]} /\ made' = made
        BY <2>5 DEF Mark
      <3>3. made
        BY <1>1, <2>5 DEF Mark
      <3>4. \A e, f \in taken' : e # f => Apart(e, f)
        BY <1>1, <3>1, <3>2, ApartSymmetric DEF Free
      <3>5. \A u \in Threads : pc'[u] # "found"
        BY <1>1, <1>a, <2>5 DEF Mark, InUseAlloc
      <3> QED BY <3>2, <3>3, <3>4, <3>5
    <2>6. CASE Refuse(t)
      BY <1>1, <2>6 DEF Refuse
    <2>7. CASE Release(t)
      <3>1. \A u \in Threads : pc'[u] # "found"
        BY <1>1, <1>a, <2>7 DEF Release, InUseAlloc
      <3>2. taken' \subseteq taken /\ made' = made
        BY <2>7 DEF Release
      <3> QED BY <1>1, <2>7, <3>1, <3>2 DEF Release
    <2>8. CASE Panic(t)
      BY <1>1, <2>8 DEF Panic
    <2>9. CASE UnlockAndReturn(t)
      BY <1>1, <2>9 DEF UnlockAndReturn
    <2> QED BY <1>4, <2>1, <2>2, <2>3, <2>4, <2>5, <2>6, <2>7, <2>8, <2>9 DEF UseAlloc
  <1>5. CASE UNCHANGED vars
    BY <1>1, <1>5 DEF vars
  <1> QED BY <1>2, <1>3, <1>4, <1>5 DEF Next

(* An extent has one claimant: the program, the caller that releases it or *)
(* the one that is being told.                                             *)
LEMMA ClaimsStep ==
    ASSUME AllocInv, [Next]_vars
    PROVE  ClaimsApart'
  <1> USE DEF TypeOK, Locations, Begin, Goto, ClaimsApart, Claim, allocatorVars, callVars
  <1>1. TypeOK /\ ClaimsApart /\ FoundFree /\ TakenApart
    BY DEF AllocInv
  <1>a. ASSUME NEW t \in Threads, NEW u \in Threads, InUseAlloc(t), InUseAlloc(u) PROVE t = u
    BY <1>a DEF AllocInv, LockHeld
  <1>2. ASSUME NEW t \in Threads, CallAlloc(t) PROVE ClaimsApart'
    BY <1>1, <1>2 DEF CallAlloc
  <1>3. ASSUME NEW t \in Threads, CallRelease(t) PROVE ClaimsApart'
    BY <1>1, <1>3 DEF CallRelease
  <1>4. ASSUME NEW t \in Threads, UseAlloc(t) PROVE ClaimsApart'
    <2>1. CASE Lock(t)
      BY <1>1, <2>1 DEF Lock
    <2>2. CASE Unwrap(t)
      BY <1>1, <2>2 DEF Unwrap
    <2>3. CASE GetOrInsert(t)
      <3>1. taken' = taken
        BY <1>1, <2>3 DEF GetOrInsert, TakenApart
      <3> QED BY <1>1, <2>3, <3>1 DEF GetOrInsert
    <2>4. CASE Search(t)
      BY <1>1, <2>4 DEF Search
    <2>5. CASE Mark(t)
      <3>1. found[t] \notin taken
        BY <1>1, <2>5, NotApartFromItself DEF Mark, FoundFree, Free
      <3>2. Claim(t)' = {found[t]}
        BY <1>1, <2>5 DEF Mark
      <3>3. \A u \in Threads \ {t} : Claim(u)' = Claim(u)
        BY <1>1, <2>5 DEF Mark
      <3>4. taken' = taken \cup {found[t]} /\ held' = held
        BY <2>5 DEF Mark
      <3> HIDE DEF Claim
      <3> QED BY <1>1, <3>1, <3>2, <3>3, <3>4
    <2>6. CASE Refuse(t)
      BY <1>1, <2>6 DEF Refuse
    <2>7. CASE Release(t)
      <3>1. Claim(t) = {extent[t]} /\ Claim(t)' = {}
        BY <1>1, <2>7 DEF Release
      <3>2. \A u \in Threads \ {t} : Claim(u)' = Claim(u)
        BY <1>1, <2>7 DEF Release
      <3>3. taken' \in {taken, taken \ {extent[t]}} /\ held' = held
        BY <2>7 DEF Release
      <3> HIDE DEF Claim
      <3> QED BY <1>1, <3>1, <3>2, <3>3
    <2>8. CASE Panic(t)
      BY <1>1, <2>8 DEF Panic
    <2>9. CASE UnlockAndReturn(t)
      <3>1. Claim(t)' = {} /\ (pc[t] = "granted" => Claim(t) = {extent[t]})
        BY <1>1, <2>9 DEF UnlockAndReturn
      <3>2. \A u \in Threads \ {t} : Claim(u)' = Claim(u)
        BY <1>1, <2>9 DEF UnlockAndReturn
      <3>3. /\ taken' = taken
            /\ held' = IF pc[t] = "granted" THEN held \cup {extent[t]} ELSE held
        BY <2>9 DEF UnlockAndReturn
      <3> HIDE DEF Claim
      <3> QED BY <1>1, <3>1, <3>2, <3>3
    <2> QED BY <1>4, <2>1, <2>2, <2>3, <2>4, <2>5, <2>6, <2>7, <2>8, <2>9 DEF UseAlloc
  <1>5. CASE UNCHANGED vars
    BY <1>1, <1>5 DEF vars
  <1> QED BY <1>2, <1>3, <1>4, <1>5 DEF Next

(* The step lemmas, put together.                                          *)
LEMMA AllocInvStep == AllocInv /\ [Next]_vars => AllocInv'
  <1> SUFFICES ASSUME AllocInv, [Next]_vars PROVE AllocInv'
    OBVIOUS
  <1> QED BY TypeStep, LockStep, TakenStep, ClaimsStep DEF AllocInv

(* Every reachable state satisfies AllocInv.                               *)
THEOREM AllocInvariant == Spec => []AllocInv
  <1> QED BY AllocInvInit, AllocInvStep, PTL DEF Spec

(* However calls interleave and wherever one panics, the extents the       *)
(* program holds never overlap and stay handed out (jit_alloc.rs 130-150). *)
THEOREM HeldSafe == Spec => []HeldApart
  <1>1. AllocInv => HeldApart
    BY DEF AllocInv, ClaimsApart, TakenApart, HeldApart
  <1> QED BY <1>1, AllocInvariant, PTL

(* After a panic under the guard of the std mutex the JitAllocator is left *)
(* as it is for ever (jit_alloc.rs 133-138).                               *)
THEOREM PoisonSafe == Spec => PoisonStops
  <1>1. AllocInv /\ [Next]_vars => (poisoned => poisoned' /\ taken' = taken)
    <2> SUFFICES ASSUME AllocInv, [Next]_vars, poisoned PROVE poisoned' /\ taken' = taken
      OBVIOUS
    <2>1. \A t \in Threads : pc[t] \in {"idle", "locking", "locked"}
      BY DEF AllocInv, LockHeld
    <2> USE DEF allocatorVars
    <2>2. ASSUME NEW t \in Threads, CallAlloc(t) \/ CallRelease(t) PROVE poisoned' /\ taken' = taken
      BY <2>2 DEF CallAlloc, CallRelease
    <2>3. ASSUME NEW t \in Threads, UseAlloc(t) PROVE poisoned' /\ taken' = taken
      BY <2>1, <2>3 DEF UseAlloc, Lock, Unwrap, GetOrInsert, Search, Mark, Refuse, Release,
                        Panic, UnlockAndReturn
    <2>4. CASE UNCHANGED vars
      BY <2>4 DEF vars
    <2> QED BY <2>2, <2>3, <2>4 DEF Next
  <1>2. AllocInv /\ [Next]_vars => [poisoned => poisoned' /\ taken' = taken]_vars
    BY <1>1
  <1> QED BY <1>2, AllocInvariant, PTL DEF Spec, PoisonStops

-----------------------------------------------------------------------------
(* Refinement. *)

(* The mapped variables of one thread that moves from one call state to    *)
(* another.                                                                *)
LEMMA CallMoves ==
    ASSUME TypeOK, NEW t \in Threads, NEW l \in Locations, Goto(t, l),
           \A u \in Threads \ {t} : op'[u] = op[u]
    PROVE  [u \in Threads |-> CallOf(u)]' =
              [[u \in Threads |-> CallOf(u)] EXCEPT ![t] = CallOf(t)']
  <1>1. pc' = [pc EXCEPT ![t] = l] /\ pc \in [Threads -> Locations]
    BY DEF Goto, TypeOK
  <1>2. \A u \in Threads \ {t} : CallOf(u)' = CallOf(u)
    BY <1>1 DEF CallOf
  <1> QED BY <1>2

(* The initial states are initial states of the contract.                  *)
LEMMA ContractInit == Init => Contract!Init
  BY DEF Init, Contract!Init, CallOf

(* Lock, Unwrap of a sound mutex, GetOrInsert and Search are invisible;    *)
(* the call takes effect where the JitAllocator marks or frees, and a      *)
(* panic is a call without effect.                                         *)
LEMMA ContractStep ==
    ASSUME AllocInv, [Next]_vars
    PROVE  [Contract!Next]_(Contract!vars)
  <1> DEFINE call == [u \in Threads |-> CallOf(u)]
  <1> USE DEF allocatorVars, callVars
  <1>1. TypeOK /\ FoundFree /\ TakenApart
    BY DEF AllocInv
  <1>2. ASSUME NEW t \in Threads, CallAlloc(t) PROVE Contract!CallAlloc(t)
    <2>1. Goto(t, "locking") /\ pc[t] = "idle" /\ op' = [op EXCEPT ![t] = "alloc"]
      BY <1>2 DEF CallAlloc, Begin
    <2>2. CallOf(t) = "idle" /\ CallOf(t)' = "alloc"
      BY <1>1, <2>1 DEF CallOf, Goto, TypeOK
    <2>3. call' = [call EXCEPT ![t] = "alloc"]
      BY <1>1, <2>1, <2>2, CallMoves DEF Locations, TypeOK
    <2> QED BY <1>2, <2>2, <2>3 DEF CallAlloc, Contract!CallAlloc
  <1>3. ASSUME NEW t \in Threads, CallRelease(t) PROVE Contract!CallRelease(t)
    <2>1. Goto(t, "locking") /\ pc[t] = "idle" /\ op' = [op EXCEPT ![t] = "release"]
      BY <1>3 DEF CallRelease, Begin
    <2>2. CallOf(t) = "idle" /\ CallOf(t)' = "release"
      BY <1>1, <2>1 DEF CallOf, Goto, TypeOK
    <2>3. call' = [call EXCEPT ![t] = "release"]
      BY <1>1, <2>1, <2>2, CallMoves DEF Locations, TypeOK
    <2> QED BY <1>3, <2>2, <2>3 DEF CallRelease, Contract!CallRelease
  <1>4. ASSUME NEW t \in Threads, UseAlloc(t) PROVE [Contract!Next]_(Contract!vars)
    <2>a. ASSUME NEW l \in {"locked", "unwrapped", "acting", "found"}, Goto(t, l), op' = op,
                 CallOf(t) = op[t]
          PROVE  call' = call
      <3>1. CallOf(t)' = op[t]
        BY <1>1, <2>a DEF Goto, CallOf, TypeOK
      <3>2. call' = [call EXCEPT ![t] = op[t]]
        BY <1>1, <2>a, <3>1, CallMoves DEF Locations
      <3> QED BY <2>a, <3>2
    <2>b. ASSUME NEW l \in {"idle", "granted", "refused", "released"}, Goto(t, l), op' = op
          PROVE  call' = [call EXCEPT ![t] = l]
      <3>1. CallOf(t)' = l
        BY <1>1, <2>b DEF Goto, CallOf, TypeOK
      <3> QED BY <1>1, <2>b, <3>1, CallMoves DEF Locations
    <2>1. CASE Lock(t)
      <3>1. call' = call
        BY <2>1, <2>a DEF Lock, CallOf
      <3> QED BY <2>1, <3>1 DEF Lock, Contract!vars
    <2>2. CASE Unwrap(t)
      <3>1. CASE poisoned
        <4>1. call' = [call EXCEPT ![t] = "idle"]
          BY <2>2, <2>b, <3>1 DEF Unwrap
        <4>2. call[t] \in {"alloc", "release"}
          BY <1>1, <2>2 DEF Unwrap, CallOf, TypeOK
        <4>3. Contract!Abort(t)
          BY <2>2, <4>1, <4>2 DEF Unwrap, Contract!Abort
        <4> QED BY <4>3 DEF Contract!Next
      <3>2. CASE ~poisoned
        <4>1. call' = call
          BY <2>2, <2>a, <3>2 DEF Unwrap, CallOf
        <4> QED BY <2>2, <4>1 DEF Unwrap, Contract!vars
      <3> QED BY <3>1, <3>2
    <2>3. CASE GetOrInsert(t)
      <3>1. call' = call
        BY <2>3, <2>a DEF GetOrInsert, CallOf
      <3>2. taken' = taken
        BY <1>1, <2>3 DEF GetOrInsert, TakenApart
      <3> QED BY <2>3, <3>1, <3>2 DEF GetOrInsert, Contract!vars
    <2>4. CASE Search(t)
      <3>1. call' = call
        BY <2>4, <2>a DEF Search, CallOf
      <3> QED BY <2>4, <3>1 DEF Search, Contract!vars
    <2>5. CASE Mark(t)
      <3>1. call' = [call EXCEPT ![t] = "granted"]
        BY <2>5, <2>b DEF Mark
      <3>2. call[t] = "alloc"
        BY <1>1, <2>5 DEF Mark, FoundFree, CallOf
      <3>3. /\ found[t] \in Contract!Extents /\ found[t].size = want[t]
            /\ Contract!Free(found[t], taken)
        BY <1>1, <2>5 DEF Mark, FoundFree, Free, Apart, Extents,
                          Contract!Free, Contract!Apart, Contract!Extents
      <3>4. Contract!Grant(t)
        BY <2>5, <3>1, <3>2, <3>3 DEF Mark, Contract!Grant
      <3> QED BY <3>4 DEF Contract!Next
    <2>6. CASE Refuse(t)
      <3>1. call' = [call EXCEPT ![t] = "refused"]
        BY <2>6, <2>b DEF Refuse
      <3>2. call[t] = "alloc"
        BY <2>6 DEF Refuse, CallOf
      <3>3. Contract!Refuse(t)
        BY <2>6, <3>1, <3>2 DEF Refuse, Contract!Refuse
      <3> QED BY <3>3 DEF Contract!Next
    <2>7. CASE Release(t)
      <3>1. call' = [call EXCEPT ![t] = "released"]
        BY <2>7, <2>b DEF Release
      <3>2. call[t] = "release"
        BY <2>7 DEF Release, CallOf
      <3>3. Contract!Release(t)
        BY <2>7, <3>1, <3>2 DEF Release, Contract!Release
      <3> QED BY <3>3 DEF Contract!Next
    <2>8. CASE Panic(t)
      <3>1. call' = [call EXCEPT ![t] = "idle"]
        BY <2>8, <2>b DEF Panic
      <3>2. call[t] \in {"alloc", "release"}
        BY <1>1, <2>8 DEF Panic, CallOf, TypeOK
      <3>3. Contract!Abort(t)
        BY <2>8, <3>1, <3>2 DEF Panic, Contract!Abort
      <3> QED BY <3>3 DEF Contract!Next
    <2>9. CASE UnlockAndReturn(t)
      <3>1. call' = [call EXCEPT ![t] = "idle"]
        BY <2>9, <2>b DEF UnlockAndReturn
      <3>2. call[t] = pc[t]
        BY <2>9 DEF UnlockAndReturn, CallOf
      <3>3. Contract!Return(t)
        BY <2>9, <3>1, <3>2 DEF UnlockAndReturn, Contract!Return
      <3> QED BY <3>3 DEF Contract!Next
    <2> QED BY <1>4, <2>1, <2>2, <2>3, <2>4, <2>5, <2>6, <2>7, <2>8, <2>9 DEF UseAlloc
  <1>5. CASE UNCHANGED vars
    BY <1>5 DEF vars, Contract!vars, CallOf
  <1> QED BY <1>2, <1>3, <1>4, <1>5 DEF Next, Contract!Next

(* The mutex makes alloc and release atomic: GlobalJitAlloc keeps the      *)
(* contract of JitAlloc, which BareClosure relies on.                      *)
THEOREM GlobalJitAllocImplements == Spec => ImplementsJitAlloc
  <1> QED BY ContractInit, ContractStep, AllocInvariant, PTL
          DEF Spec, ImplementsJitAlloc, Contract!Spec
=============================================================================
