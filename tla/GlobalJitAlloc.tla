---------------------------- MODULE GlobalJitAlloc ----------------------------
(***************************************************************************)
(* The default GlobalJitAlloc of src/jit_alloc.rs: one JitAllocator, made  *)
(* on first use, behind a static mutex every alloc and release locks.      *)
(* What happens between lock and unlock takes several steps here, and the  *)
(* guard may be dropped by a panic.                                        *)
(***************************************************************************)
EXTENDS Naturals, FiniteSets

CONSTANTS
    Threads,
    Top, Sizes, NoExtent,   \* as in JitAlloc
    Std,        \* TRUE: std::sync::Mutex, which poisons; FALSE: spin::Mutex
    MayPanic,   \* TRUE iff the JitAllocator may panic
    MaxCalls,   \* bound: calls begun by all threads together
    NoThread

ASSUME ConstantsAssumption ==
    /\ Top \in Nat
    /\ Sizes \subseteq Nat \ {0}
    /\ Std \in BOOLEAN
    /\ MayPanic \in BOOLEAN
    /\ MaxCalls \in Nat
    /\ NoThread \notin Threads

VARIABLES
    lock,       \* the thread that has the guard of GLOBAL_JIT_ALLOC
    poisoned,   \* the mutex is poisoned
    made,       \* the Option is Some
    taken,      \* the extents the JitAllocator regards as handed out
    found,      \* the free extent its search has picked for a thread
    held,       \* the extents the program has and has not released
    pc,         \* where each thread is in use_alloc
    op,         \* the closure it passed to use_alloc
    want,       \* the size it asks for
    extent,     \* the extent it releases or was given
    begun       \* the number of calls so far

allocatorVars == <<made, taken, found>>
callVars == <<op, want, extent>>
vars == <<lock, poisoned, allocatorVars, held, pc, callVars, begun>>

Extents == {e \in [from : 0..Top, size : Sizes] : e.from + e.size <= Top}

Apart(e, f) == e.from + e.size <= f.from \/ f.from + f.size <= e.from

Free(e, s) == \A f \in s : Apart(e, f)

Goto(t, l) == pc' = [pc EXCEPT ![t] = l]

Init ==
    /\ lock = NoThread
    /\ poisoned = FALSE
    /\ made = FALSE
    /\ taken = {}
    /\ found = [t \in Threads |-> NoExtent]
    /\ held = {}
    /\ pc = [t \in Threads |-> "idle"]
    /\ op = [t \in Threads |-> "alloc"]
    /\ want \in [Threads -> Sizes]
    /\ extent = [t \in Threads |-> NoExtent]
    /\ begun = 0

(***************************************************************************)
(* The program calls alloc, or release as its safety section asks.         *)
(***************************************************************************)

Begin(t) ==
    /\ pc[t] = "idle"
    /\ begun < MaxCalls
    /\ begun' = begun + 1
    /\ Goto(t, "locking")

CallAlloc(t) ==
    /\ Begin(t)
    /\ op' = [op EXCEPT ![t] = "alloc"]
    /\ \E n \in Sizes : want' = [want EXCEPT ![t] = n]
    /\ extent' = [extent EXCEPT ![t] = NoExtent]
    /\ UNCHANGED <<lock, poisoned, allocatorVars, held>>

CallRelease(t) ==
    /\ Begin(t)
    /\ op' = [op EXCEPT ![t] = "release"]
    /\ \E e \in held :
          /\ held' = held \ {e}
          /\ extent' = [extent EXCEPT ![t] = e]
    /\ UNCHANGED <<lock, poisoned, allocatorVars, want>>

(***************************************************************************)
(* use_alloc                                                               *)
(***************************************************************************)

\* Faulty: no mutex.
CanEnter == TRUE
CanLock == lock = NoThread

(* GLOBAL_JIT_ALLOC.lock()                                                 *)
Lock(t) ==
    /\ pc[t] = "locking"
    /\ CanLock
    /\ lock' = t
    /\ Goto(t, "locked")
    /\ UNCHANGED <<poisoned, allocatorVars, held, callVars, begun>>

\* Faulty: into_inner() in place of unwrap().
UnwrapAnyway(t) ==
    /\ pc[t] = "locked"
    /\ Goto(t, "unwrapped")
    /\ UNCHANGED <<lock, poisoned, allocatorVars, held, callVars, begun>>

(* unwrap() of the lock's result: a poisoned mutex gives an error, whose   *)
(* guard the panic drops.                                                  *)
Unwrap(t) ==
    /\ pc[t] = "locked"
    /\ IF poisoned
       THEN lock' = NoThread /\ Goto(t, "idle")
       ELSE lock' = lock /\ Goto(t, "unwrapped")
    /\ UNCHANGED <<poisoned, allocatorVars, held, callVars, begun>>

(* get_or_insert_with(|| JitAllocator::new(..)): a new one has no extents. *)
\* Faulty: insert() in place of get_or_insert_with().
Insert(t) ==
    /\ pc[t] = "unwrapped"
    /\ made' = TRUE
    /\ taken' = {}
    /\ Goto(t, "acting")
    /\ UNCHANGED <<lock, poisoned, found, held, callVars, begun>>
GetOrInsert(t) ==
    /\ pc[t] = "unwrapped"
    /\ made' = TRUE
    /\ taken' = IF made THEN taken ELSE {}
    /\ Goto(t, "acting")
    /\ UNCHANGED <<lock, poisoned, found, held, callVars, begun>>

(* The JitAllocator looks for free memory ...                              *)
Search(t) ==
    /\ pc[t] = "acting"
    /\ op[t] = "alloc"
    /\ \E e \in Extents :
          /\ e.size = want[t]
          /\ Free(e, taken)
          /\ found' = [found EXCEPT ![t] = e]
    /\ Goto(t, "found")
    /\ UNCHANGED <<lock, poisoned, made, taken, held, callVars, begun>>

(* ... and marks it.                                                       *)
Mark(t) ==
    /\ pc[t] = "found"
    /\ taken' = taken \cup {found[t]}
    /\ extent' = [extent EXCEPT ![t] = found[t]]
    /\ Goto(t, "granted")
    /\ UNCHANGED <<lock, poisoned, made, found, held, op, want, begun>>

(* It has no memory for the request.                                       *)
Refuse(t) ==
    /\ pc[t] = "acting"
    /\ op[t] = "alloc"
    /\ Goto(t, "refused")
    /\ UNCHANGED <<lock, poisoned, allocatorVars, held, callVars, begun>>

(* It takes the extent back, or reports an error.                          *)
Release(t) ==
    /\ pc[t] = "acting"
    /\ op[t] = "release"
    /\ taken' \in {taken, taken \ {extent[t]}}
    /\ Goto(t, "released")
    /\ UNCHANGED <<lock, poisoned, made, found, held, callVars, begun>>

(* It panics, in new() or in the action, until it has taken effect:        *)
(* unwinding drops the guard.                                              *)
Panic(t) ==
    /\ MayPanic
    /\ pc[t] \in {"unwrapped", "acting", "found"}
    /\ poisoned' = (poisoned \/ Std)
    /\ lock' = NoThread
    /\ Goto(t, "idle")
    /\ UNCHANGED <<allocatorVars, held, callVars, begun>>

\* Faulty: the guard is leaked with an error result.
UnlockOnSuccess(t) ==
    /\ pc[t] \in {"granted", "refused", "released"}
    /\ lock' = IF pc[t] = "refused" THEN lock ELSE NoThread
    /\ held' = IF pc[t] = "granted" THEN held \cup {extent[t]} ELSE held
    /\ Goto(t, "idle")
    /\ UNCHANGED <<poisoned, allocatorVars, callVars, begun>>

(* The guard is dropped at the end of use_alloc and the result returned.   *)
UnlockAndReturn(t) ==
    /\ pc[t] \in {"granted", "refused", "released"}
    /\ lock' = NoThread
    /\ held' = IF pc[t] = "granted" THEN held \cup {extent[t]} ELSE held
    /\ Goto(t, "idle")
    /\ UNCHANGED <<poisoned, allocatorVars, callVars, begun>>

-----------------------------------------------------------------------------
UseAlloc(t) ==
    \/ Lock(t) \/ Unwrap(t) \/ GetOrInsert(t)
    \/ Search(t) \/ Mark(t) \/ Refuse(t) \/ Release(t)
    \/ Panic(t) \/ UnlockAndReturn(t)

Next == \E t \in Threads : CallAlloc(t) \/ CallRelease(t) \/ UseAlloc(t)

Spec == Init /\ [][Next]_vars

(* A thread inside use_alloc runs on when it can.  The mutex is not fair:  *)
(* nothing says which waiting thread gets it.                              *)
FairSpec == Spec /\ \A t \in Threads : WF_vars(UseAlloc(t))

-----------------------------------------------------------------------------
(* Properties *)

Locations ==
    {"idle", "locking", "locked", "unwrapped", "acting", "found",
     "granted", "refused", "released"}

(* Every variable has its type.                                            *)
TypeOK ==
    /\ lock \in Threads \cup {NoThread}
    /\ poisoned \in BOOLEAN
    /\ made \in BOOLEAN
    /\ taken \subseteq Extents
    /\ found \in [Threads -> Extents \cup {NoExtent}]
    /\ held \subseteq Extents
    /\ pc \in [Threads -> Locations]
    /\ op \in [Threads -> {"alloc", "release"}]
    /\ want \in [Threads -> Sizes]
    /\ extent \in [Threads -> Extents \cup {NoExtent}]
    /\ begun \in 0..MaxCalls

(* No two extents the program has been given overlap, and the allocator    *)
(* regards each of them as handed out, whatever panicked in between.       *)
HeldApart ==
    /\ held \subseteq taken
    /\ \A e, f \in held : e # f => Apart(e, f)

(* Nobody touches the JitAllocator after a panic under its guard: every    *)
(* later call panics at unwrap() (jit_alloc.rs 133-135).                   *)
PoisonStops == [][poisoned => poisoned' /\ taken' = taken]_vars

(* The guard is always dropped again, so a waiting thread is not stuck.    *)
GuardDropped == \A t \in Threads : lock = t ~> lock # t

Pending == {t \in Threads : pc[t] # "idle"}

Ended == begun - Cardinality(Pending)

(* While calls are pending one of them ends: the static mutex never blocks *)
(* them all.                                                               *)
SomeCallEnds ==
    \A n \in 0..MaxCalls : Pending # {} /\ Ended = n ~> Ended > n

-----------------------------------------------------------------------------
(* The inductive invariant *)

InUseAlloc(t) == pc[t] \notin {"idle", "locking"}

(* The extents a thread is about to give back, or to be given.             *)
Claim(t) ==
    IF \/ pc[t] \in {"locking", "locked", "unwrapped", "acting"} /\ op[t] = "release"
       \/ pc[t] = "granted"
    THEN {extent[t]} ELSE {}

TakenApart ==
    /\ ~made => taken = {} /\ \A t \in Threads : pc[t] \notin {"acting", "found"}
    /\ \A e, f \in taken : e # f => Apart(e, f)

LockHeld ==
    /\ \A t \in Threads : lock = t <=> InUseAlloc(t)
    /\ \A t \in Threads : pc[t] = "granted" => op[t] = "alloc"
    /\ poisoned => \A t \in Threads : pc[t] \in {"idle", "locking", "locked"}

FoundFree ==
    \A t \in Threads : pc[t] = "found" =>
        /\ op[t] = "alloc"
        /\ found[t] \in Extents
        /\ found[t].size = want[t]
        /\ Free(found[t], taken)

ClaimsApart ==
    /\ held \subseteq taken
    /\ \A t \in Threads : Claim(t) \subseteq taken \ held
    /\ \A t, u \in Threads : t # u => Claim(t) \cap Claim(u) = {}

(* One thread at a time is past the lock, what its search found is still   *)
(* free when it marks it, and no extent has two claimants.                 *)
AllocInv == TypeOK /\ TakenApart /\ LockHeld /\ FoundFree /\ ClaimsApart

-----------------------------------------------------------------------------
(* The refinement mapping *)

CallOf(t) ==
    IF pc[t] \in {"idle", "granted", "refused", "released"} THEN pc[t] ELSE op[t]

Contract == INSTANCE JitAlloc WITH
    live <- taken,
    call <- [t \in Threads |-> CallOf(t)]

(* With the mutex, alloc and release are atomic to their callers.          *)
ImplementsJitAlloc == Contract!Spec
=============================================================================
