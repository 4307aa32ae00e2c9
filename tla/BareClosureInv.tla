--------------------------- MODULE BareClosureInv ---------------------------
(***************************************************************************)
(* The inductive invariants behind the safety properties of BareClosure.   *)
(* MCBareClosure checks them on small instances, BareClosureProofs proves  *)
(* them inductive.                                                         *)
(***************************************************************************)
EXTENDS BareClosure

BeforeAlloc == {"unborn", "boxed", "relocated", "failed"}

(* Between the two protect_jit_memory calls.                               *)
Writing == {"writable", "copied", "closureWritten", "returnWritten"}

(* The block belongs to the wrapper from alloc to release.                 *)
Holding ==
    {"allocated", "sealed", "destructing", "releasing"} \cup Writing \cup Published

BlockOf(w) ==
    /\ w \in ZstClosures => block[w] = NoBlock
    /\ phase[w] \in BeforeAlloc => block[w] = NoBlock
    /\ phase[w] \in Holding /\ w \notin ZstClosures =>
          block[w] \in Blocks /\ arena[block[w]] # NoThread
    /\ phase[w] \in ConstructionPhases \ {"boxed"} => w \notin ZstClosures

(* What the block of a wrapper under construction, or published, contains. *)
CodeOf(w) ==
    w \notin ZstClosures =>
        /\ phase[w] = "copied" => code[block[w]].template = w
        /\ phase[w] = "closureWritten" =>
              code[block[w]].template = w /\ code[block[w]].closure = w
        /\ phase[w] \in {"returnWritten", "sealed"} \cup Published =>
              code[block[w]] = Thunk(w)
        /\ phase[w] \in Published => icache[block[w]] \in {NoCode, Thunk(w)}

BlocksApart ==
    \A v, w \in Wrappers :
        HoldsBlock(v) /\ HoldsBlock(w) /\ block[v] = block[w] => v = w

(* A thread inside the crate works on one wrapper, which no other thread   *)
(* works on, and has write access exactly while it writes code.            *)
BusyOne ==
    /\ \A t \in Threads : busy[t] # NoWrapper =>
          phase[busy[t]] \in ConstructionPhases \cup DropPhases
    /\ \A t, u \in Threads : busy[t] # NoWrapper /\ busy[t] = busy[u] => t = u
    /\ \A t \in Threads :
          access[t] = "RW" <=> (busy[t] # NoWrapper /\ phase[busy[t]] \in Writing)

HandleKept ==
    \A w \in Wrappers : phase[w] \notin {"unborn", "failed", "gone"} => w \in handles

(* The invariant of the memory side: who has which block, what is in it,   *)
(* who may write it and what calls have found there.                       *)
CodeInv ==
    /\ TypeOK
    /\ \A w \in Wrappers : BlockOf(w) /\ CodeOf(w)
    /\ BlocksApart
    /\ BusyOne
    /\ HandleKept
    /\ CallsRunOwnThunk

-----------------------------------------------------------------------------
NotYetPublished == {"unborn", "failed"} \cup ConstructionPhases

(* Before it exists nobody has a pointer to the wrapper or is inside it,   *)
(* and an FnOnce one stays so until it is leaked: it has no bare().        *)
Unreachable(w) ==
    /\ phase[w] \in NotYetPublished =>
          \A t \in Threads :
             <<t, w>> \notin obtained /\ \A fr \in Frames(t) : fr.w # w
    /\ w \in OnceClosures /\ phase[w] # "leaked" =>
          w \notin called /\ \A t \in Threads : <<t, w>> \notin obtained

(* The closure is destroyed by its drop or, FnOnce, by its one call.       *)
ClosureOf(w) ==
    /\ phase[w] = "unborn" => drops[w] = 0
    /\ phase[w] \in ConstructionPhases \cup {"failed", "owned", "destructing"} =>
          closure[w] = "live" /\ drops[w] = 0
    /\ phase[w] \in DropPhases \cup {"gone"} => drops[w] = 1
    /\ phase[w] = "leaked" /\ w \notin OnceClosures => closure[w] = "live" /\ drops[w] = 0
    /\ phase[w] = "leaked" /\ w \in OnceClosures =>
          /\ w \notin called => closure[w] = "live"
          /\ closure[w] \in {"live", "moved"} => drops[w] = 0
          /\ drops[w] <= 1

(* An FnOnce call is counted and owns the closure.                         *)
OnceCounted ==
    \A t \in Threads : \A fr \in Frames(t) :
        fr.op = "call" /\ fr.w \in OnceClosures =>
            fr.w \in called /\ closure[fr.w] = "moved"

(* It is the only call of its closure.                                     *)
OnceUnique ==
    \A t, u \in Threads : \A i \in 1..Len(stack[t]), j \in 1..Len(stack[u]) :
        /\ stack[t][i].op = "call" /\ stack[u][j].op = "call"
        /\ stack[t][i].w = stack[u][j].w
        /\ stack[t][i].w \in OnceClosures
        => t = u /\ i = j

LifeInv ==
    /\ \A w \in Wrappers : Unreachable(w) /\ ClosureOf(w)
    /\ OnceCounted
    /\ OnceUnique

-----------------------------------------------------------------------------
(* Pointers and owners away from the maker of a wrapper.                   *)
Shareable(w) == w \in SendClosures \/ w \in FnClosures \cap SyncClosures

HomeWrappers ==
    \A w \in Wrappers :
        /\ FactoriesKeepMarkers => storage[w] \subseteq Markers(w)
        /\ holder[w] # maker[w] =>
              w \in SendHandles /\ (FactoriesKeepMarkers => w \in SendClosures)

HomeBusy ==
    \A t \in Threads : busy[t] # NoWrapper =>
        /\ busy[t] \notin SendHandles => t = maker[busy[t]]
        /\ phase[busy[t]] \in ConstructionPhases => t = maker[busy[t]]

HomeBlocks ==
    \A w \in Wrappers \ ZstClosures :
        phase[w] \in Holding => arena[block[w]] = maker[w]

HomePointers ==
    FactoriesKeepMarkers =>
        \A t \in Threads, w \in Wrappers :
            <<t, w>> \in obtained => t = maker[w] \/ Shareable(w)

HomeFrames ==
    /\ \A t \in Threads : \A fr \in Frames(t) :
          fr.op = "drop" /\ fr.w \notin SendHandles => t = maker[fr.w]
    /\ NonSendStaysHome

HomeInv ==
    /\ HomeWrappers
    /\ HomeBusy
    /\ HomeBlocks
    /\ HomePointers
    /\ HomeFrames
=============================================================================
