------------------------------- MODULE BareFn -------------------------------
(***************************************************************************)
(* What a bare closure promises to the program that uses it, with no word  *)
(* about blocks, code or caches: calling the bare pointer of w runs w, and *)
(* w exists then, an FnOnce closure runs at most once and only leaked, and *)
(* a wrapper is either dropped or leaked, never both.  Not promised is     *)
(* that it exists until the call returns: Drop waits for nobody.           *)
(* BareClosure.tla implements it.                                          *)
(***************************************************************************)
EXTENDS Naturals, Sequences

CONSTANTS Threads, Wrappers, OnceClosures, MutClosures

VARIABLES
    state,    \* what has become of each wrapper
    consumed, \* the FnOnce closures that have been called
    running   \* per thread, the closures and the destructors it is inside

vars == <<state, consumed, running>>

Activity == {"call", "drop"} \X Wrappers

States == {"none", "building", "failed", "live", "leaked", "dropping", "gone"}

TypeOK ==
    /\ state \in [Wrappers -> States]
    /\ consumed \subseteq OnceClosures
    /\ running \in [Threads -> Seq(Activity)]

Active(w) ==
    \E t \in Threads : \E i \in 1..Len(running[t]) : running[t][i] = <<"call", w>>

Enter(t, what, w) == running' = [running EXCEPT ![t] = <<<<what, w>>>> \o @]

Exit(t, what, w) ==
    /\ running[t] # <<>>
    /\ Head(running[t]) = <<what, w>>
    /\ running' = [running EXCEPT ![t] = Tail(@)]

Become(w, from, to) ==
    /\ state[w] \in from
    /\ state' = [state EXCEPT ![w] = to]

Init ==
    /\ state = [w \in Wrappers |-> "none"]
    /\ consumed = {}
    /\ running = [t \in Threads |-> <<>>]

(* The wrapper is made, or making it fails.                                *)
Make(w) ==
    /\ \/ Become(w, {"none"}, "building")
       \/ Become(w, {"building"}, "live")
       \/ Become(w, {"building"}, "failed")
    /\ UNCHANGED <<consumed, running>>

Leak(w) == Become(w, {"live"}, "leaked") /\ UNCHANGED <<consumed, running>>

Call(t, w) ==
    /\ state[w] \in {"live", "leaked"}
    /\ w \in MutClosures => ~Active(w)
    /\ IF w \in OnceClosures
       THEN /\ state[w] = "leaked"
            /\ w \notin consumed
            /\ consumed' = consumed \cup {w}
       ELSE consumed' = consumed
    /\ Enter(t, "call", w)
    /\ UNCHANGED state

Return(t, w) == Exit(t, "call", w) /\ UNCHANGED <<state, consumed>>

Drop(t, w) ==
    /\ Become(w, {"live"}, "dropping")
    /\ Enter(t, "drop", w)
    /\ UNCHANGED consumed

Dropped(t, w) ==
    /\ Become(w, {"dropping"}, "gone")
    /\ Exit(t, "drop", w)
    /\ UNCHANGED consumed

Next ==
    \E w \in Wrappers :
        \/ Make(w) \/ Leak(w)
        \/ \E t \in Threads :
              Call(t, w) \/ Return(t, w) \/ Drop(t, w) \/ Dropped(t, w)

Spec == Init /\ [][Next]_vars
=============================================================================
