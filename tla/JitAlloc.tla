------------------------------- MODULE JitAlloc -------------------------------
(***************************************************************************)
(* What an implementation of the JitAlloc trait promises its callers: each *)
(* alloc and each release takes effect at one moment between call and      *)
(* return, and memory handed out is not handed out again before it was     *)
(* released.  BareClosure uses the allocator through this promise;         *)
(* GlobalJitAlloc and SlabAlloc keep it.                                   *)
(***************************************************************************)
EXTENDS Naturals

CONSTANTS
    Threads,
    Top,       \* the executable memory is the addresses 0 .. Top - 1
    Sizes,     \* the sizes asked for
    NoExtent

VARIABLES
    live,      \* the extents that are handed out
    held,      \* those of them the program has and has not released
    call,      \* what each thread waits for, or is about to be told
    want,      \* the size it asked for
    extent     \* the extent it was given, or gives back

vars == <<live, held, call, want, extent>>

Extents == {e \in [from : 0..Top, size : Sizes] : e.from + e.size <= Top}

Apart(e, f) == e.from + e.size <= f.from \/ f.from + f.size <= e.from

Free(e, taken) == \A f \in taken : Apart(e, f)

Init ==
    /\ live = {}
    /\ held = {}
    /\ call = [t \in Threads |-> "idle"]
    /\ want \in [Threads -> Sizes]
    /\ extent = [t \in Threads |-> NoExtent]

CallAlloc(t) ==
    /\ call[t] = "idle"
    /\ call' = [call EXCEPT ![t] = "alloc"]
    /\ \E n \in Sizes : want' = [want EXCEPT ![t] = n]
    /\ extent' = [extent EXCEPT ![t] = NoExtent]
    /\ UNCHANGED <<live, held>>

(* alloc succeeds with any memory nobody has.                              *)
Grant(t) ==
    /\ call[t] = "alloc"
    /\ \E e \in Extents :
          /\ e.size = want[t]
          /\ Free(e, live)
          /\ live' = live \cup {e}
          /\ extent' = [extent EXCEPT ![t] = e]
    /\ call' = [call EXCEPT ![t] = "granted"]
    /\ UNCHANGED <<held, want>>

(* alloc may fail at any time.                                             *)
Refuse(t) ==
    /\ call[t] = "alloc"
    /\ call' = [call EXCEPT ![t] = "refused"]
    /\ UNCHANGED <<live, held, want, extent>>

(* The safety section of release: a pointer from alloc, released once.     *)
CallRelease(t) ==
    /\ call[t] = "idle"
    /\ \E e \in held :
          /\ held' = held \ {e}
          /\ extent' = [extent EXCEPT ![t] = e]
    /\ call' = [call EXCEPT ![t] = "release"]
    /\ UNCHANGED <<live, want>>

(* The extent is free again, or the allocator keeps it.                    *)
Release(t) ==
    /\ call[t] = "release"
    /\ live' \in {live, live \ {extent[t]}}
    /\ call' = [call EXCEPT ![t] = "released"]
    /\ UNCHANGED <<held, want, extent>>

(* The call panics, without an effect.                                     *)
Abort(t) ==
    /\ call[t] \in {"alloc", "release"}
    /\ call' = [call EXCEPT ![t] = "idle"]
    /\ UNCHANGED <<live, held, want, extent>>

Return(t) ==
    /\ call[t] \in {"granted", "refused", "released"}
    /\ call' = [call EXCEPT ![t] = "idle"]
    /\ held' = IF call[t] = "granted" THEN held \cup {extent[t]} ELSE held
    /\ UNCHANGED <<live, want, extent>>

Next ==
    \E t \in Threads :
        \/ CallAlloc(t) \/ Grant(t) \/ Refuse(t)
        \/ CallRelease(t) \/ Release(t)
        \/ Abort(t) \/ Return(t)

Spec == Init /\ [][Next]_vars
-----------------------------------------------------------------------------
(* What callers may rely on, whichever allocator it is.                    *)

(* The extents the program has are handed out, and no two extents that are *)
(* handed out overlap.                                                     *)
HeldApart ==
    /\ held \subseteq live
    /\ \A e, f \in live : e # f => Apart(e, f)

(* The extent a thread is about to give back, or to be given.              *)
Claim(t) == IF call[t] \in {"release", "granted"} THEN {extent[t]} ELSE {}

(* Each extent has one owner: the program, or a call.                      *)
OneOwner ==
    /\ \A t \in Threads : Claim(t) \subseteq live \ held
    /\ \A t, u \in Threads : t # u => Claim(t) \cap Claim(u) = {}

ContractInv ==
    /\ call \in [Threads -> {"idle", "alloc", "granted", "refused", "release", "released"}]
    /\ extent \in [Threads -> Extents \cup {NoExtent}]
    /\ live \subseteq Extents
    /\ HeldApart
    /\ OneOwner
=============================================================================
