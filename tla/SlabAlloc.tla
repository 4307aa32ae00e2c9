------------------------------ MODULE SlabAlloc ------------------------------
(***************************************************************************)
(* The lock-free SlabAlloc of tests/slab_alloc/mod.rs, a JitAlloc that     *)
(* bumps an atomic offset and never takes memory back.  fetch_update is a  *)
(* load and a loop of weak compare-exchanges, all Relaxed: a load may see  *)
(* any value of the offset not older than the last one its thread saw.     *)
(***************************************************************************)
EXTENDS Naturals

CONSTANTS
    Threads,
    Top, Sizes, NoExtent,   \* as in JitAlloc; Top is buf.len()
    MaxCalls                \* bound: calls begun by all threads together

ASSUME ConstantsAssumption ==
    /\ Top \in Nat
    /\ Sizes \subseteq Nat \ {0}
    /\ MaxCalls \in Nat

VARIABLES
    offset,     \* the newest value of SlabAlloc::offset
    history,    \* all values it has had
    seen,       \* the newest of them each thread has seen
    prev,       \* the argument of fetch_update's closure
    given,      \* the extents alloc has returned
    held,       \* those the program has not released
    pc,
    want,
    extent,
    begun       \* the number of calls so far

atomicVars == <<offset, history>>
vars == <<atomicVars, seen, prev, given, held, pc, want, extent, begun>>

Extents == {e \in [from : 0..Top, size : Sizes] : e.from + e.size <= Top}

Goto(t, l) == pc' = [pc EXCEPT ![t] = l]

Init ==
    /\ offset = 0
    /\ history = {0}
    /\ seen = [t \in Threads |-> 0]
    /\ prev = [t \in Threads |-> 0]
    /\ given = {}
    /\ held = {}
    /\ pc = [t \in Threads |-> "idle"]
    /\ want \in [Threads -> Sizes]
    /\ extent = [t \in Threads |-> NoExtent]
    /\ begun = 0

Begin(t, what) ==
    /\ pc[t] = "idle"
    /\ begun < MaxCalls
    /\ begun' = begun + 1
    /\ Goto(t, what)

CallAlloc(t) ==
    /\ Begin(t, "load")
    /\ \E n \in Sizes : want' = [want EXCEPT ![t] = n]
    /\ extent' = [extent EXCEPT ![t] = NoExtent]
    /\ UNCHANGED <<atomicVars, seen, prev, given, held>>

(* The thread reads the offset without changing it.                        *)
See(t, v) ==
    /\ v \in history
    /\ v >= seen[t]
    /\ seen' = [seen EXCEPT ![t] = v]
    /\ prev' = [prev EXCEPT ![t] = v]

Load(t) ==
    /\ pc[t] = "load"
    /\ \E v \in history : See(t, v)
    /\ Goto(t, "update")
    /\ UNCHANGED <<atomicVars, given, held, want, extent, begun>>

Fits(t) == want[t] + prev[t] <= Top

\* Faulty: room that is just enough is refused.
RefuseExact(t) ==
    /\ pc[t] = "update"
    /\ want[t] + prev[t] >= Top
    /\ Goto(t, "refused")
    /\ UNCHANGED <<atomicVars, seen, prev, given, held, want, extent, begun>>

(* The closure of fetch_update gives None: there is not enough room.       *)
Refuse(t) ==
    /\ pc[t] = "update"
    /\ ~Fits(t)
    /\ Goto(t, "refused")
    /\ UNCHANGED <<atomicVars, seen, prev, given, held, want, extent, begun>>

\* Faulty: a load and a store in place of the compare-exchange.
ExpectedAny(t) == prev[t] \in history
(* compare_exchange_weak finds the expected value and stores the new one.  *)
Expected(t) == offset = prev[t]

Exchange(t) ==
    /\ pc[t] = "update"
    /\ Fits(t)
    /\ Expected(t)
    /\ LET new == want[t] + prev[t]
           e == [from |-> prev[t], size |-> want[t]]
       IN /\ offset' = new
          /\ history' = history \cup {new}
          /\ seen' = [seen EXCEPT ![t] = new]
          /\ extent' = [extent EXCEPT ![t] = e]
          /\ given' = given \cup {e}
    /\ Goto(t, "granted")
    /\ UNCHANGED <<prev, held, want, begun>>

(* It fails, because the offset differs or for no reason, and the value it *)
(* has read is tried next.                                                 *)
Retry(t) ==
    /\ pc[t] = "update"
    /\ Fits(t)
    /\ \E v \in history : See(t, v)
    /\ UNCHANGED <<atomicVars, given, held, pc, want, extent, begun>>

CallRelease(t) ==
    /\ Begin(t, "release")
    /\ \E e \in held :
          /\ held' = held \ {e}
          /\ extent' = [extent EXCEPT ![t] = e]
    /\ UNCHANGED <<atomicVars, seen, prev, given, want>>

(* release does nothing.                                                   *)
Release(t) ==
    /\ pc[t] = "release"
    /\ Goto(t, "released")
    /\ UNCHANGED <<atomicVars, seen, prev, given, held, want, extent, begun>>

Return(t) ==
    /\ pc[t] \in {"granted", "refused", "released"}
    /\ held' = IF pc[t] = "granted" THEN held \cup {extent[t]} ELSE held
    /\ Goto(t, "idle")
    /\ UNCHANGED <<atomicVars, seen, prev, given, want, extent, begun>>

Next ==
    \E t \in Threads :
        \/ CallAlloc(t) \/ Load(t) \/ Refuse(t) \/ Exchange(t) \/ Retry(t)
        \/ CallRelease(t) \/ Release(t) \/ Return(t)

Spec == Init /\ [][Next]_vars

-----------------------------------------------------------------------------
(* Properties *)

(* Every variable has its type.                                            *)
TypeOK ==
    /\ offset \in 0..Top
    /\ history \subseteq 0..Top
    /\ seen \in [Threads -> 0..Top]
    /\ prev \in [Threads -> 0..Top]
    /\ given \subseteq Extents
    /\ held \subseteq given
    /\ pc \in [Threads -> {"idle", "load", "update", "granted", "refused",
                           "release", "released"}]
    /\ want \in [Threads -> Sizes]
    /\ extent \in [Threads -> Extents \cup {NoExtent}]
    /\ begun \in 0..MaxCalls

(* alloc fails only when the slab has no room left for the request, even   *)
(* though it decides on a value of the offset that may be out of date      *)
(* (slab_alloc/mod.rs 39-44).                                              *)
RefusedMeansFull ==
    \A t \in Threads : pc[t] = "refused" => want[t] + offset > Top

(* What the threads have seen is not newer than the offset, and all memory *)
(* handed out lies below it.                                               *)
SlabInv ==
    /\ TypeOK
    /\ \A v \in history : v <= offset
    /\ \A t \in Threads : prev[t] <= offset
    /\ \A e \in given : e.from + e.size <= offset
    /\ \A t \in Threads : pc[t] = "granted" => extent[t] \in given
    /\ RefusedMeansFull

-----------------------------------------------------------------------------
(* The refinement mapping *)

CallOf(t) == IF pc[t] \in {"load", "update"} THEN "alloc" ELSE pc[t]

Contract == INSTANCE JitAlloc WITH
    live <- given,
    call <- [t \in Threads |-> CallOf(t)]

(* Without a lock, alloc is atomic to its callers and never hands out the  *)
(* same memory twice.                                                      *)
ImplementsJitAlloc == Contract!Spec
=============================================================================
