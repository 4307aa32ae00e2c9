--------------------------- MODULE SlabAllocProofs ---------------------------
(***************************************************************************)
(* SlabInv is inductive and SlabAlloc implements JitAlloc, for any threads *)
(* and any slab.                                                           *)
(***************************************************************************)
EXTENDS SlabAlloc, TLAPS

USE ConstantsAssumption DEF ConstantsAssumption

(* The slab is empty at the start.                                         *)
LEMMA SlabInvInit == Init => SlabInv
  <1> SUFFICES ASSUME Init PROVE SlabInv
    OBVIOUS
  <1>1. TypeOK
    <2>1. offset \in 0..Top /\ history \subseteq 0..Top /\ begun \in 0..MaxCalls
      BY DEF Init
    <2>2. seen \in [Threads -> 0..Top] /\ prev \in [Threads -> 0..Top]
      BY DEF Init
    <2> QED BY <2>1, <2>2 DEF Init, TypeOK
  <1> QED BY <1>1 DEF Init, SlabInv, RefusedMeansFull

(* The offset only grows, and alloc puts the next extent right above the   *)
(* old one.                                                                *)
LEMMA SlabInvStep == SlabInv /\ [Next]_vars => SlabInv'
  <1> SUFFICES ASSUME SlabInv, [Next]_vars PROVE SlabInv'
    OBVIOUS
  <1> USE DEF SlabInv, TypeOK, RefusedMeansFull, atomicVars, Begin, Goto, See, Fits
  <1>0. \A t \in Threads : want[t] \in Nat \ {0} /\ prev[t] \in Nat /\ offset \in Nat
    <2> TAKE t \in Threads
    <2>1. want[t] \in Sizes /\ prev[t] \in 0..Top /\ offset \in 0..Top
      OBVIOUS
    <2>2. want[t] \in Nat \ {0}
      BY <2>1
    <2> QED BY <2>1, <2>2
  <1>1. ASSUME NEW t \in Threads, CallAlloc(t) PROVE SlabInv'
    BY <1>1 DEF CallAlloc
  <1>2. ASSUME NEW t \in Threads, Load(t) PROVE SlabInv'
    BY <1>2 DEF Load
  <1>3. ASSUME NEW t \in Threads, Refuse(t) PROVE SlabInv'
    BY <1>0, <1>3 DEF Refuse
  <1>4. ASSUME NEW t \in Threads, Exchange(t) PROVE SlabInv'
    <2> DEFINE new == want[t] + prev[t]
               e == [from |-> prev[t], size |-> want[t]]
    <2>1. /\ pc[t] = "update" /\ new <= Top /\ offset = prev[t]
          /\ offset' = new
          /\ history' = history \cup {new}
          /\ seen' = [seen EXCEPT ![t] = new]
          /\ extent' = [extent EXCEPT ![t] = e]
          /\ given' = given \cup {e}
          /\ pc' = [pc EXCEPT ![t] = "granted"]
          /\ prev' = prev /\ held' = held /\ want' = want /\ begun' = begun
      BY <1>4 DEF Exchange, Expected
    <2>2. new \in 0..Top /\ new > offset
      BY <1>0, <2>1
    <2>3. e \in Extents /\ e.from + e.size = new
      BY <1>0, <2>1 DEF Extents
    <2>4. TypeOK'
      BY <2>1, <2>2, <2>3
    <2>5. \A v \in history' : v <= offset'
      BY <2>1, <2>2
    <2>6. \A u \in Threads : prev'[u] <= offset'
      BY <1>0, <2>1, <2>2
    <2>7. \A f \in given' : f.from + f.size <= offset'
      <3>1. \A f \in given : f.from + f.size \in Nat
        <4> TAKE f \in given
        <4>1. f \in [from : 0..Top, size : Sizes]
          BY DEF Extents
        <4>2. f.from \in 0..Top /\ f.size \in Sizes
          BY <4>1
        <4>3. f.size \in Nat
          BY <4>2
        <4> QED BY <4>2, <4>3
      <3> QED BY <2>1, <2>2, <2>3, <3>1
    <2>8. \A u \in Threads : pc'[u] = "granted" => extent'[u] \in given'
      BY <2>1
    <2>9. RefusedMeansFull'
      BY <1>0, <2>1, <2>2
    <2> QED BY <2>4, <2>5, <2>6, <2>7, <2>8, <2>9
  <1>5. ASSUME NEW t \in Threads, Retry(t) PROVE SlabInv'
    BY <1>5 DEF Retry
  <1>6. ASSUME NEW t \in Threads, CallRelease(t) PROVE SlabInv'
    BY <1>6 DEF CallRelease
  <1>7. ASSUME NEW t \in Threads, Release(t) PROVE SlabInv'
    BY <1>7 DEF Release
  <1>8. ASSUME NEW t \in Threads, Return(t) PROVE SlabInv'
    BY <1>8 DEF Return
  <1>9. CASE UNCHANGED vars
    BY <1>9 DEF vars
  <1> QED BY <1>1, <1>2, <1>3, <1>4, <1>5, <1>6, <1>7, <1>8, <1>9 DEF Next

(* Every reachable state satisfies SlabInv.                                *)
THEOREM SlabInvariant == Spec => []SlabInv
  <1> QED BY SlabInvInit, SlabInvStep, PTL DEF Spec

(* A stale value of the offset never makes alloc fail with room left       *)
(* (slab_alloc/mod.rs 39-44).                                              *)
THEOREM RefusedFull == Spec => []RefusedMeansFull
  <1>1. SlabInv => RefusedMeansFull
    BY DEF SlabInv
  <1> QED BY <1>1, SlabInvariant, PTL

-----------------------------------------------------------------------------
(* Refinement. *)

(* The mapped calls when one thread moves.                                 *)
LEMMA CallMoves ==
    ASSUME TypeOK, NEW t \in Threads, NEW l, Goto(t, l)
    PROVE  [u \in Threads |-> CallOf(u)]' =
              [[u \in Threads |-> CallOf(u)] EXCEPT
                  ![t] = IF l \in {"load", "update"} THEN "alloc" ELSE l]
  <1>1. pc' = [pc EXCEPT ![t] = l] /\ t \in DOMAIN pc
    BY DEF Goto, TypeOK
  <1>2. \A u \in Threads \ {t} : CallOf(u)' = CallOf(u)
    BY <1>1 DEF CallOf
  <1>3. CallOf(t)' = IF l \in {"load", "update"} THEN "alloc" ELSE l
    BY <1>1 DEF CallOf
  <1> QED BY <1>2, <1>3

(* The initial states are initial states of the contract.                  *)
LEMMA ContractInit == Init => Contract!Init
  BY DEF Init, Contract!Init, CallOf

(* A call of alloc takes effect at the compare-exchange that succeeds:     *)
(* everything handed out before lies below the offset it expected.         *)
LEMMA ContractStep ==
    ASSUME SlabInv, [Next]_vars
    PROVE  [Contract!Next]_(Contract!vars)
  <1> DEFINE call == [u \in Threads |-> CallOf(u)]
  <1> USE DEF atomicVars, Begin
  <1>0. TypeOK
    BY DEF SlabInv
  <1>1. ASSUME NEW t \in Threads, CallAlloc(t) PROVE Contract!CallAlloc(t)
    <2>1. call' = [call EXCEPT ![t] = "alloc"]
      BY <1>0, <1>1, CallMoves DEF CallAlloc
    <2> QED BY <1>1, <2>1 DEF CallAlloc, Contract!CallAlloc, CallOf
  <1>2. ASSUME NEW t \in Threads, Load(t) PROVE UNCHANGED Contract!vars
    <2>1. call' = [call EXCEPT ![t] = "alloc"] /\ call[t] = "alloc"
      BY <1>0, <1>2, CallMoves DEF Load, CallOf
    <2>2. call' = call
      BY <2>1
    <2> QED BY <1>2, <2>2 DEF Load, Contract!vars
  <1>3. ASSUME NEW t \in Threads, Refuse(t) PROVE Contract!Refuse(t)
    <2>1. call' = [call EXCEPT ![t] = "refused"] /\ call[t] = "alloc"
      BY <1>0, <1>3, CallMoves DEF Refuse, CallOf
    <2> QED BY <1>3, <2>1 DEF Refuse, Contract!Refuse
  <1>4. ASSUME NEW t \in Threads, Exchange(t) PROVE Contract!Grant(t)
    <2> DEFINE e == [from |-> prev[t], size |-> want[t]]
    <2>1. call' = [call EXCEPT ![t] = "granted"] /\ call[t] = "alloc"
      BY <1>0, <1>4, CallMoves DEF Exchange, CallOf
    <2>2. /\ given' = given \cup {e} /\ extent' = [extent EXCEPT ![t] = e]
          /\ held' = held /\ want' = want
          /\ want[t] + prev[t] <= Top /\ offset = prev[t]
      BY <1>4 DEF Exchange, Expected, Fits
    <2>a. want[t] \in Sizes /\ prev[t] \in 0..Top
      BY <1>0 DEF TypeOK
    <2>b. want[t] \in Nat \ {0}
      BY <2>a
    <2>3. want[t] \in Nat /\ prev[t] \in Nat /\ want[t] \in Sizes /\ prev[t] \in 0..Top
      BY <2>a, <2>b
    <2>4. e \in Contract!Extents
      BY <2>2, <2>3 DEF Contract!Extents
    <2>5. Contract!Free(e, given)
      BY <2>2, <2>3 DEF SlabInv, Contract!Free, Contract!Apart
    <2> QED BY <2>1, <2>2, <2>4, <2>5 DEF Contract!Grant
  <1>5. ASSUME NEW t \in Threads, Retry(t) PROVE UNCHANGED Contract!vars
    BY <1>5 DEF Retry, Contract!vars, CallOf
  <1>6. ASSUME NEW t \in Threads, CallRelease(t) PROVE Contract!CallRelease(t)
    <2>1. call' = [call EXCEPT ![t] = "release"] /\ call[t] = "idle"
      BY <1>0, <1>6, CallMoves DEF CallRelease, CallOf
    <2> QED BY <1>6, <2>1 DEF CallRelease, Contract!CallRelease
  <1>7. ASSUME NEW t \in Threads, Release(t) PROVE Contract!Release(t)
    <2>1. call' = [call EXCEPT ![t] = "released"] /\ call[t] = "release"
      BY <1>0, <1>7, CallMoves DEF Release, CallOf
    <2> QED BY <1>7, <2>1 DEF Release, Contract!Release
  <1>8. ASSUME NEW t \in Threads, Return(t) PROVE Contract!Return(t)
    <2>1. call' = [call EXCEPT ![t] = "idle"] /\ call[t] = pc[t]
      BY <1>0, <1>8, CallMoves DEF Return, CallOf
    <2> QED BY <1>8, <2>1 DEF Return, Contract!Return
  <1>9. CASE UNCHANGED vars
    BY <1>9 DEF vars, Contract!vars, CallOf
  <1> QED BY <1>1, <1>2, <1>3, <1>4, <1>5, <1>6, <1>7, <1>8, <1>9 DEF Next, Contract!Next

(* SlabAlloc keeps the contract of JitAlloc without a lock.                *)
THEOREM SlabAllocImplements == Spec => ImplementsJitAlloc
  <1> QED BY ContractInit, ContractStep, SlabInvariant, PTL
          DEF Spec, ImplementsJitAlloc, Contract!Spec
-----------------------------------------------------------------------------
(* What the contract is worth. *)

LEMMA ContractInvInit == Contract!Init => Contract!ContractInv
  BY DEF Contract!Init, Contract!ContractInv, Contract!HeldApart, Contract!OneOwner, Contract!Claim

LEMMA ContractInvStep ==
    ASSUME Contract!ContractInv, [Contract!Next]_(Contract!vars)
    PROVE  Contract!ContractInv'
  <1> DEFINE call == [u \in Threads |-> CallOf(u)]
             Calls == {"idle", "alloc", "granted", "refused", "release", "released"}
             Typed == /\ call \in [Threads -> Calls]
                      /\ extent \in [Threads -> Contract!Extents \cup {NoExtent}]
                      /\ given \subseteq Contract!Extents
  <1>0. /\ Typed /\ held \subseteq given
        /\ \A e, f \in given : e # f => Contract!Apart(e, f)
        /\ \A u \in Threads : Contract!Claim(u) \subseteq given \ held
        /\ \A u, v \in Threads : u # v => Contract!Claim(u) \cap Contract!Claim(v) = {}
    BY DEF Contract!ContractInv, Contract!HeldApart, Contract!OneOwner
  <1>g. ASSUME Typed', Contract!HeldApart', Contract!OneOwner' PROVE Contract!ContractInv'
    BY <1>g DEF Contract!ContractInv
  <1>c. \A u \in Threads :
           Contract!Claim(u) = IF call[u] \in {"release", "granted"} THEN {extent[u]} ELSE {}
    BY DEF Contract!Claim
  <1>d. \A u \in Threads :
           Contract!Claim(u)' = IF call'[u] \in {"release", "granted"} THEN {extent'[u]} ELSE {}
    BY DEF Contract!Claim
  <1>1. ASSUME NEW t \in Threads, Contract!CallAlloc(t) PROVE Contract!ContractInv'
    <2>1. /\ call' = [call EXCEPT ![t] = "alloc"] /\ given' = given /\ held' = held
          /\ extent' = [extent EXCEPT ![t] = NoExtent]
      BY <1>1 DEF Contract!CallAlloc
    <2> HIDE DEF call
    <2>2. \A u \in Threads : Contract!Claim(u)' \subseteq Contract!Claim(u)
      BY <1>0, <1>c, <1>d, <2>1
    <2> QED BY <1>0, <1>g, <2>1, <2>2 DEF Contract!HeldApart, Contract!OneOwner
  <1>2. ASSUME NEW t \in Threads, Contract!Grant(t) PROVE Contract!ContractInv'
    <2>1. PICK e \in Contract!Extents :
             /\ Contract!Free(e, given)
             /\ given' = given \cup {e}
             /\ extent' = [extent EXCEPT ![t] = e]
      BY <1>2 DEF Contract!Grant
    <2>2. call[t] = "alloc" /\ call' = [call EXCEPT ![t] = "granted"] /\ held' = held
      BY <1>2 DEF Contract!Grant
    <2> HIDE DEF call
    <2>3. e \notin given /\ \A f \in given : Contract!Apart(e, f) /\ Contract!Apart(f, e)
      <3>0. e.from \in 0..Top /\ e.size \in Sizes
        BY DEF Contract!Extents
      <3>a. e.from \in Nat
        BY <3>0
      <3>b. e.size \in Nat \ {0}
        BY <3>0
      <3>1. e.from \in Nat /\ e.size \in Nat /\ e.size > 0
        BY <3>a, <3>b
      <3>2. ~Contract!Apart(e, e)
        BY <3>1 DEF Contract!Apart
      <3> QED BY <2>1, <3>2 DEF Contract!Free, Contract!Apart
    <2>4. Contract!HeldApart'
      BY <1>0, <2>1, <2>2, <2>3 DEF Contract!HeldApart
    <2>5. \A u \in Threads : Contract!Claim(u)' = IF u = t THEN {e} ELSE Contract!Claim(u)
      BY <1>0, <1>c, <1>d, <2>1, <2>2
    <2>6. Contract!OneOwner'
      BY <1>0, <2>1, <2>2, <2>3, <2>5 DEF Contract!OneOwner
    <2> QED BY <1>0, <1>g, <2>1, <2>2, <2>4, <2>6
  <1>3. ASSUME NEW t \in Threads, Contract!Refuse(t) PROVE Contract!ContractInv'
    <2>1. /\ call' = [call EXCEPT ![t] = "refused"] /\ given' = given /\ held' = held
          /\ extent' = extent
      BY <1>3 DEF Contract!Refuse
    <2> HIDE DEF call
    <2>2. \A u \in Threads : Contract!Claim(u)' \subseteq Contract!Claim(u)
      BY <1>0, <1>c, <1>d, <2>1
    <2> QED BY <1>0, <1>g, <2>1, <2>2 DEF Contract!HeldApart, Contract!OneOwner
  <1>4. ASSUME NEW t \in Threads, Contract!CallRelease(t) PROVE Contract!ContractInv'
    <2>1. PICK e \in held : held' = held \ {e} /\ extent' = [extent EXCEPT ![t] = e]
      BY <1>4 DEF Contract!CallRelease
    <2>2. call[t] = "idle" /\ call' = [call EXCEPT ![t] = "release"] /\ given' = given
      BY <1>4 DEF Contract!CallRelease
    <2> HIDE DEF call
    <2>3. \A u \in Threads : Contract!Claim(u)' = IF u = t THEN {e} ELSE Contract!Claim(u)
      BY <1>0, <1>c, <1>d, <2>1, <2>2
    <2>4. Contract!OneOwner'
      BY <1>0, <2>1, <2>2, <2>3 DEF Contract!OneOwner
    <2>5. Contract!HeldApart'
      BY <1>0, <2>1, <2>2 DEF Contract!HeldApart
    <2> QED BY <1>0, <1>g, <2>1, <2>2, <2>4, <2>5
  <1>5. ASSUME NEW t \in Threads, Contract!Release(t) PROVE Contract!ContractInv'
    <2>1. /\ call[t] = "release" /\ call' = [call EXCEPT ![t] = "released"]
          /\ held' = held /\ extent' = extent /\ given' \in {given, given \ {extent[t]}}
      BY <1>5 DEF Contract!Release
    <2> HIDE DEF call
    <2>2. \A u \in Threads : Contract!Claim(u)' = IF u = t THEN {} ELSE Contract!Claim(u)
      BY <1>0, <1>c, <1>d, <2>1
    <2>3. Contract!Claim(t) = {extent[t]}
      BY <1>c, <2>1
    <2>4. Contract!OneOwner'
      BY <1>0, <2>1, <2>2, <2>3 DEF Contract!OneOwner
    <2>5. Contract!HeldApart'
      BY <1>0, <2>1, <2>3 DEF Contract!HeldApart
    <2> QED BY <1>0, <1>g, <2>1, <2>4, <2>5
  <1>6. ASSUME NEW t \in Threads, Contract!Abort(t) PROVE Contract!ContractInv'
    <2>1. /\ call' = [call EXCEPT ![t] = "idle"] /\ given' = given /\ held' = held
          /\ extent' = extent
      BY <1>6 DEF Contract!Abort
    <2> HIDE DEF call
    <2>2. \A u \in Threads : Contract!Claim(u)' \subseteq Contract!Claim(u)
      BY <1>0, <1>c, <1>d, <2>1
    <2> QED BY <1>0, <1>g, <2>1, <2>2 DEF Contract!HeldApart, Contract!OneOwner
  <1>7. ASSUME NEW t \in Threads, Contract!Return(t) PROVE Contract!ContractInv'
    <2>1. /\ call' = [call EXCEPT ![t] = "idle"] /\ given' = given /\ extent' = extent
          /\ held' = IF call[t] = "granted" THEN held \cup {extent[t]} ELSE held
      BY <1>7 DEF Contract!Return
    <2> HIDE DEF call
    <2>2. \A u \in Threads : Contract!Claim(u)' = IF u = t THEN {} ELSE Contract!Claim(u)
      BY <1>0, <1>c, <1>d, <2>1
    <2>3. held' \subseteq held \cup Contract!Claim(t)
      BY <1>c, <2>1
    <2>4. Contract!OneOwner'
      BY <1>0, <2>1, <2>2, <2>3 DEF Contract!OneOwner
    <2>5. Contract!HeldApart'
      BY <1>0, <2>1, <2>3 DEF Contract!HeldApart
    <2> QED BY <1>0, <1>g, <2>1, <2>4, <2>5
  <1>8. CASE UNCHANGED Contract!vars
    BY <1>8 DEF Contract!vars, Contract!ContractInv, Contract!HeldApart, Contract!OneOwner,
                Contract!Claim
  <1> QED BY <1>1, <1>2, <1>3, <1>4, <1>5, <1>6, <1>7, <1>8 DEF Contract!Next

(* Whoever keeps the contract of JitAlloc never hands out memory that      *)
(* overlaps memory in use, however calls interleave or panic, as long as   *)
(* its callers release what they were given, once (jit_alloc.rs 39-47).    *)
THEOREM ContractSafe == Contract!Spec => []Contract!HeldApart
  <1>1. Contract!ContractInv => Contract!HeldApart
    BY DEF Contract!ContractInv
  <1> QED BY <1>1, ContractInvInit, ContractInvStep, PTL DEF Contract!Spec

(* The slab allocator, without a lock and with loads that may be stale,    *)
(* keeps what it has handed out apart.                                     *)
THEOREM SlabHeldApart == Spec => []Contract!HeldApart
  <1> QED BY SlabAllocImplements, ContractSafe, PTL DEF ImplementsJitAlloc
=============================================================================
