----------------------------- MODULE BareClosure -----------------------------
(***************************************************************************)
(* The life of the BareFn* wrappers of src/bare_closure.rs and of the      *)
(* AllocatedThunk of src/arch.rs each of them owns: construction, the bare *)
(* pointers, calls through the thunk, leaking and dropping, by several     *)
(* threads.                                                                *)
(*                                                                         *)
(* A wrapper is named by the closure it wraps.  The allocators are used    *)
(* through the JitAlloc trait, whose alloc and release are one step each   *)
(* here; GlobalJitAlloc.tla shows that the default allocator behaves so.   *)
(* A handle that is not Send leads to an allocator of its thread.          *)
(***************************************************************************)
EXTENDS Naturals, Sequences

CONSTANTS
    Threads,        \* the threads of the program
    Wrappers,       \* the wrappers it creates, each at most once
    Blocks,         \* the executable blocks the allocator can hand out
    OnceClosures,   \* the wrappers that are a BareFnOnceAny
    MutClosures,    \* the wrappers that are a BareFnMutAny; the rest: BareFnAny
    ZstClosures,    \* the closures of size zero
    SendClosures,   \* the closures that are Send
    SyncClosures,   \* the closures that are Sync
    FactoryClosures,\* those wrapped by a make_*_send or make_*_sync function
    StorageTypes,   \* the storage types S in use, each the set of its markers
    StaticClosures, \* the wrappers that are 'static
    SendHandles,    \* the wrappers whose allocator handle type A is Send
    MaxDepth,       \* bound: calls and destructors nested on one thread
    NoWrapper, NoBlock, NoThread, NoCode, Junk, User

ASSUME ClosuresAssumption ==
    /\ OnceClosures \subseteq Wrappers
    /\ MutClosures \subseteq Wrappers \ OnceClosures
    /\ ZstClosures \subseteq Wrappers
    /\ SendClosures \subseteq Wrappers
    /\ SyncClosures \subseteq Wrappers
    /\ FactoryClosures \subseteq SendClosures \cup SyncClosures
    /\ StaticClosures \subseteq Wrappers
    /\ SendHandles \subseteq Wrappers
    /\ StorageTypes \subseteq SUBSET {"Send", "Sync"}

ASSUME DepthAssumption == MaxDepth \in Nat

ASSUME DistinctAssumption ==
    /\ NoWrapper \notin Wrappers
    /\ Junk \notin Wrappers
    /\ User \notin Wrappers
    /\ NoBlock \notin Blocks
    /\ NoThread \notin Threads

VARIABLES
    phase,    \* where each wrapper is between new and the end of its drop
    closure,  \* the boxed closure behind the storage pointer
    drops,    \* how often the closure has been destroyed
    block,    \* AllocatedThunk::alloc_base, NoBlock for null
    handles,  \* the live clones of the allocator handle, User the program's own
    maker,    \* the thread that constructed the wrapper
    holder,   \* the thread that owns the wrapper
    storage,  \* the wrapper's current S
    obtained, \* <<t, w>>: thread t got the bare pointer of w
    called,   \* the FnOnce closures whose thunk has been called
    busy,     \* the wrapper whose constructor or drop glue a thread is inside
    stack,    \* the closure calls and closure destructors a thread is inside
    arena,    \* the thread that allocated a block, NoThread if it is free
    code,     \* the bytes of a block, seen through the RW view
    icache,   \* what instruction fetch may still see of a block
    access    \* per-thread protection of JIT memory

threadSafetyVars == <<maker, holder, storage>>
wrapperVars == <<phase, closure, drops, block, handles, obtained, called,
                 threadSafetyVars>>
threadVars == <<busy, stack, access>>
memoryVars == <<arena, code, icache>>
vars == <<wrapperVars, threadVars, memoryVars>>

-----------------------------------------------------------------------------
(* Data.  A definition marked "Faulty" is a variant of the next one that   *)
(* no action uses: it is there to show which property would catch it.      *)

FnClosures == Wrappers \ (OnceClosures \cup MutClosures)

(* What a thunk copied into a block consists of, each part tagged with the *)
(* wrapper it was written for: the relocated template, the closure pointer *)
(* the _thunk_asm block loads, and the address it jumps back to.           *)
Code == [template : Wrappers \cup {Junk},
         closure  : Wrappers \cup {Junk},
         return   : Wrappers \cup {Junk}]

Thunk(w) == [template |-> w, closure |-> w, return |-> w]

(* The marker traits a closure really has, and those its thunk shows to    *)
(* the bounds of a constructor: SendSyncWrapper has both, and the opaque   *)
(* type a factory function returns does not hide them.                     *)
Markers(w) == {m \in {"Send", "Sync"} :
                 (m = "Send" /\ w \in SendClosures) \/ (m = "Sync" /\ w \in SyncClosures)}

Shown(w) == IF w \in FactoryClosures THEN {"Send", "Sync"} ELSE Markers(w)

Frame == [op : {"call", "drop"}, w : Wrappers, runs : Code]

ConstructionPhases ==
    {"boxed", "relocated", "allocated", "writable", "copied",
     "closureWritten", "returnWritten", "sealed"}

DropPhases == {"releasing", "released"}

Published == {"owned", "leaked"}

Phases == {"unborn", "failed", "destructing", "gone"}
            \cup ConstructionPhases \cup DropPhases \cup Published

(* A thread runs the program's code, as opposed to this crate's.           *)
InUserCode(t) == busy[t] = NoWrapper

CanNest(t) == InUserCode(t) /\ Len(stack[t]) < MaxDepth

Frames(t) == {stack[t][i] : i \in 1..Len(stack[t])}

Calling(t, w) == \E fr \in Frames(t) : fr.op = "call" /\ fr.w = w

InFlight(w) == \E t \in Threads : Calling(t, w)

Enter(t, frame) == stack' = [stack EXCEPT ![t] = <<frame>> \o @]

(* The innermost activity of the thread is op on w, and ends.              *)
Leave(t, op, w) ==
    /\ stack[t] # <<>>
    /\ Head(stack[t]).op = op
    /\ Head(stack[t]).w = w
    /\ stack' = [stack EXCEPT ![t] = Tail(@)]

(* The thread owns the wrapper: it can move it, or move out of it.         *)
\* Faulty: leak() without ManuallyDrop keeps a wrapper to drop.
OwnsLeaked(t, w) == phase[w] \in Published /\ holder[w] = t
Owns(t, w) == phase[w] = "owned" /\ holder[w] = t

(* The wrapper type has a bare(); BareFnOnceAny has none.                  *)
\* Faulty: BareFnOnceAny gets a bare() like the others.
HasBareAlways(w) == w \in Wrappers
HasBare(w) == w \notin OnceClosures

(* The thunk body reads the closure out of its box to call it.             *)
\* Faulty: the FnMut thunk body reads the closure out too.
ConsumesMut(w) == w \in OnceClosures \cup MutClosures
Consumes(w) == w \in OnceClosures

(* The two calls of the JitAlloc trait that report nothing.                *)
\* Faulty: the protection is never changed.
ProtectNothing(t, mode) == access' = access
\* Faulty: the second call asks for read-write again.
ProtectForEver(t, mode) == access' = [access EXCEPT ![t] = "RW"]
\* Faulty: no flush.
FlushNothing(b) == icache' = icache
ProtectJitMemory(t, mode) == access' = [access EXCEPT ![t] = mode]
FlushInstructionCache(b) == icache' = [icache EXCEPT ![b] = NoCode]

-----------------------------------------------------------------------------
Init ==
    /\ phase = [w \in Wrappers |-> "unborn"]
    /\ closure = [w \in Wrappers |-> "none"]
    /\ drops = [w \in Wrappers |-> 0]
    /\ block = [w \in Wrappers |-> NoBlock]
    /\ handles = {User}
    /\ maker = [w \in Wrappers |-> NoThread]
    /\ holder = [w \in Wrappers |-> NoThread]
    /\ storage = [w \in Wrappers |-> {}]
    /\ obtained = {}
    /\ called = {}
    /\ busy = [t \in Threads |-> NoWrapper]
    /\ stack = [t \in Threads |-> <<>>]
    /\ arena = [b \in Blocks |-> NoThread]
    /\ code = [b \in Blocks |-> [template |-> Junk, closure |-> Junk, return |-> Junk]]
    /\ icache = [b \in Blocks |-> NoCode]
    /\ access = [t \in Threads |-> "RX"]

(***************************************************************************)
(* Construction: try_with_cc_in or try_with_thunk_in, with the body of     *)
(* AllocatedThunk::new.                                                    *)
(***************************************************************************)

(* The closure is boxed and its pointer taken out of the box.  The handle  *)
(* is a clone of the program's, or the program's own one moved in.  S is   *)
(* any type F: ToBoxedDyn<S> allows.                                       *)
Box(t, w) ==
    /\ InUserCode(t)
    /\ phase[w] = "unborn"
    /\ User \in handles
    /\ handles' \in {handles \cup {w}, (handles \ {User}) \cup {w}}
    /\ phase' = [phase EXCEPT ![w] = "boxed"]
    /\ closure' = [closure EXCEPT ![w] = "live"]
    /\ maker' = [maker EXCEPT ![w] = t]
    /\ holder' = [holder EXCEPT ![w] = t]
    /\ \E s \in StorageTypes :
          s \subseteq Shown(w) /\ storage' = [storage EXCEPT ![w] = s]
    /\ busy' = [busy EXCEPT ![t] = w]
    /\ UNCHANGED <<drops, block, obtained, called, stack, access, memoryVars>>

\* Faulty: a ZST thunk is scanned for the magic constants too.
ScanTemplate(t, w) ==
    /\ busy[t] = w /\ phase[w] = "boxed" /\ w \in ZstClosures
    /\ UNCHANGED vars

(* A closure of size zero: the template itself is the thunk, alloc_base is *)
(* null.                                                                   *)
UseTemplate(t, w) ==
    /\ busy[t] = w
    /\ phase[w] = "boxed"
    /\ w \in ZstClosures
    /\ phase' = [phase EXCEPT ![w] = "owned"]
    /\ busy' = [busy EXCEPT ![t] = NoWrapper]
    /\ UNCHANGED <<closure, drops, block, handles, threadSafetyVars, obtained, called,
                   stack, access, memoryVars>>

(* reloc_thunk_template succeeds; without safe_jit it always does.         *)
Relocate(t, w) ==
    /\ busy[t] = w
    /\ phase[w] = "boxed"
    /\ w \notin ZstClosures
    /\ phase' = [phase EXCEPT ![w] = "relocated"]
    /\ UNCHANGED <<closure, drops, block, handles, threadSafetyVars, obtained, called,
                   threadVars, memoryVars>>

(* reloc_thunk_template panics, or alloc returns an error that leaves new  *)
(* through ?: the jit argument is dropped, the box has no owner.           *)
Fail(t, w) ==
    /\ busy[t] = w
    /\ \/ phase[w] = "boxed" /\ w \notin ZstClosures
       \/ phase[w] = "relocated"
    /\ phase' = [phase EXCEPT ![w] = "failed"]
    /\ handles' = handles \ {w}
    /\ busy' = [busy EXCEPT ![t] = NoWrapper]
    /\ UNCHANGED <<closure, drops, block, threadSafetyVars, obtained, called, stack,
                   access, memoryVars>>

Alloc(t, w, b) ==
    /\ busy[t] = w
    /\ phase[w] = "relocated"
    /\ arena[b] = NoThread
    /\ arena' = [arena EXCEPT ![b] = t]
    /\ block' = [block EXCEPT ![w] = b]
    /\ phase' = [phase EXCEPT ![w] = "allocated"]
    /\ UNCHANGED <<closure, drops, handles, threadSafetyVars, obtained, called,
                   threadVars, code, icache>>

ProtectReadWrite(t, w) ==
    /\ busy[t] = w
    /\ phase[w] = "allocated"
    /\ ProtectJitMemory(t, "RW")
    /\ phase' = [phase EXCEPT ![w] = "writable"]
    /\ UNCHANGED <<closure, drops, block, handles, threadSafetyVars, obtained, called,
                   busy, stack, memoryVars>>

(* The copy brings the magic constants of the template along.              *)
CopyTemplate(t, w) ==
    /\ busy[t] = w
    /\ phase[w] = "writable"
    /\ code' = [code EXCEPT ![block[w]] =
                   [template |-> w, closure |-> Junk, return |-> Junk]]
    /\ phase' = [phase EXCEPT ![w] = "copied"]
    /\ UNCHANGED <<closure, drops, block, handles, threadSafetyVars, obtained, called,
                   threadVars, arena, icache>>

WriteClosurePtr(t, w) ==
    /\ busy[t] = w
    /\ phase[w] = "copied"
    /\ code' = [code EXCEPT ![block[w]] =
                   [template |-> @.template, closure |-> w, return |-> @.return]]
    /\ phase' = [phase EXCEPT ![w] = "closureWritten"]
    /\ UNCHANGED <<closure, drops, block, handles, threadSafetyVars, obtained, called,
                   threadVars, arena, icache>>

WriteReturn(t, w) ==
    /\ busy[t] = w
    /\ phase[w] = "closureWritten"
    /\ code' = [code EXCEPT ![block[w]] =
                   [template |-> @.template, closure |-> @.closure, return |-> w]]
    /\ phase' = [phase EXCEPT ![w] = "returnWritten"]
    /\ UNCHANGED <<closure, drops, block, handles, threadSafetyVars, obtained, called,
                   threadVars, arena, icache>>

ProtectReadExecute(t, w) ==
    /\ busy[t] = w
    /\ phase[w] = "returnWritten"
    /\ ProtectJitMemory(t, "RX")
    /\ phase' = [phase EXCEPT ![w] = "sealed"]
    /\ UNCHANGED <<closure, drops, block, handles, threadSafetyVars, obtained, called,
                   busy, stack, memoryVars>>

(* The flush, after which new returns and the wrapper exists.              *)
Flush(t, w) ==
    /\ busy[t] = w
    /\ phase[w] = "sealed"
    /\ FlushInstructionCache(block[w])
    /\ phase' = [phase EXCEPT ![w] = "owned"]
    /\ busy' = [busy EXCEPT ![t] = NoWrapper]
    /\ UNCHANGED <<closure, drops, block, handles, threadSafetyVars, obtained, called,
                   stack, access, arena, code>>

(***************************************************************************)
(* What the owner of a wrapper can do with it.                             *)
(***************************************************************************)

(* The Send and Sync impls of the wrapper types: Send takes a Send S and a *)
(* Send allocator handle.                                                  *)
\* Faulty: the Send impl without S: Send.
IsSendAnyClosure(w) == w \in SendHandles
\* Faulty: the Send impl without A: Send.
IsSendAnyAlloc(w) == "Send" \in storage[w]
IsSend(w) == "Send" \in storage[w] /\ w \in SendHandles
IsSync(w) == IF w \in FnClosures THEN "Sync" \in storage[w] ELSE "Send" \in storage[w]

(* bare() through a reference to the wrapper, which only its owner has     *)
(* unless the wrapper is Sync.                                             *)
Bare(t, w) ==
    /\ InUserCode(t)
    /\ HasBare(w)
    /\ Owns(t, w) \/ (phase[w] = "owned" /\ IsSync(w))
    /\ obtained' = obtained \cup {<<t, w>>}
    /\ UNCHANGED <<phase, closure, drops, block, handles, threadSafetyVars, called,
                   threadVars, memoryVars>>

\* Faulty: leak() keeps the AllocatedThunk only, and frees the closure.
LeakUnboxed(t, w) ==
    /\ InUserCode(t) /\ Owns(t, w) /\ w \in StaticClosures
    /\ phase' = [phase EXCEPT ![w] = "leaked"]
    /\ obtained' = obtained \cup {<<t, w>>}
    /\ closure' = [closure EXCEPT ![w] = "destroyed"]
    /\ UNCHANGED <<drops, block, handles, threadSafetyVars, called, threadVars, memoryVars>>
\* Faulty: leak() drops the AllocatedThunk.
LeakReleasing(t, w) ==
    /\ InUserCode(t) /\ Owns(t, w) /\ w \in StaticClosures /\ w \notin ZstClosures
    /\ phase' = [phase EXCEPT ![w] = "leaked"]
    /\ obtained' = obtained \cup {<<t, w>>}
    /\ arena' = [arena EXCEPT ![block[w]] = NoThread]
    /\ UNCHANGED <<closure, drops, block, handles, threadSafetyVars, called, threadVars,
                   code, icache>>

(* leak(): the wrapper goes into a ManuallyDrop, its thunk is never freed. *)
Leak(t, w) ==
    /\ InUserCode(t)
    /\ Owns(t, w)
    /\ w \in StaticClosures
    /\ phase' = [phase EXCEPT ![w] = "leaked"]
    /\ obtained' = obtained \cup {<<t, w>>}
    /\ UNCHANGED <<closure, drops, block, handles, threadSafetyVars, called, threadVars,
                   memoryVars>>

(* The wrapper is moved to another thread.                                 *)
Move(t, u, w) ==
    /\ InUserCode(t)
    /\ Owns(t, w)
    /\ IsSend(w)
    /\ holder' = [holder EXCEPT ![w] = u]
    /\ UNCHANGED <<maker, storage, phase, closure, drops, block, handles, obtained, called,
                   threadVars, memoryVars>>

(* upcast(), with or without into_untyped() before it: the same bits under *)
(* a weaker S.  The old wrapper is in a ManuallyDrop, so nothing is freed. *)
Upcast(t, w) ==
    /\ InUserCode(t)
    /\ Owns(t, w)
    /\ \E s \in StorageTypes :
          s \subseteq storage[w] /\ storage' = [storage EXCEPT ![w] = s]
    /\ UNCHANGED <<maker, holder, phase, closure, drops, block, handles, obtained,
                   called, threadVars, memoryVars>>

(* Drop begins: Box::from_raw takes the closure back and runs its          *)
(* destructor, which is the program's code.  Nothing makes it wait for the *)
(* calls that run in the closure.                                          *)
BeginDrop(t, w) ==
    /\ CanNest(t)
    /\ Owns(t, w)
    /\ phase' = [phase EXCEPT ![w] = "destructing"]
    /\ Enter(t, [op |-> "drop", w |-> w, runs |-> Thunk(w)])
    /\ UNCHANGED <<closure, drops, block, handles, threadSafetyVars, obtained, called,
                   busy, access, memoryVars>>

\* Faulty: the jit field is dropped first.
EndDestructorJitFirst(t, w) ==
    /\ InUserCode(t) /\ phase[w] = "destructing" /\ Leave(t, "drop", w)
    /\ busy' = [busy EXCEPT ![t] = w]
    /\ closure' = [closure EXCEPT ![w] = "destroyed"]
    /\ drops' = [drops EXCEPT ![w] = @ + 1]
    /\ phase' = [phase EXCEPT ![w] = "releasing"]
    /\ handles' = handles \ {w}
    /\ UNCHANGED <<block, threadSafetyVars, obtained, called, access, memoryVars>>

(* The destructor has run and the box is freed; the fields of the wrapper  *)
(* are dropped next.                                                       *)
EndDestructor(t, w) ==
    /\ InUserCode(t)
    /\ phase[w] = "destructing"
    /\ Leave(t, "drop", w)
    /\ busy' = [busy EXCEPT ![t] = w]
    /\ closure' = [closure EXCEPT ![w] = "destroyed"]
    /\ drops' = [drops EXCEPT ![w] = @ + 1]
    /\ phase' = [phase EXCEPT ![w] = "releasing"]
    /\ UNCHANGED <<block, handles, threadSafetyVars, obtained, called, access, memoryVars>>

\* Faulty: a null alloc_base is not expected.
ReleaseUnwrapped(t, w) ==
    /\ busy[t] = w /\ phase[w] = "releasing" /\ block[w] # NoBlock
    /\ arena' = [arena EXCEPT ![block[w]] = NoThread]
    /\ phase' = [phase EXCEPT ![w] = "released"]
    /\ UNCHANGED <<closure, drops, block, handles, threadSafetyVars, obtained, called,
                   threadVars, code, icache>>

(* AllocatedThunk::drop: nothing to release when alloc_base is null.  The  *)
(* result is ignored, so a refused release only leaks the block.           *)
Release(t, w) ==
    /\ busy[t] = w
    /\ phase[w] = "releasing"
    /\ IF block[w] = NoBlock
       THEN arena' = arena
       ELSE arena' \in {arena, [arena EXCEPT ![block[w]] = NoThread]}
    /\ phase' = [phase EXCEPT ![w] = "released"]
    /\ UNCHANGED <<closure, drops, block, handles, threadSafetyVars, obtained, called,
                   threadVars, code, icache>>

(* The jit field is dropped after AllocatedThunk::drop.                    *)
DropHandle(t, w) ==
    /\ busy[t] = w
    /\ phase[w] = "released"
    /\ handles' = handles \ {w}
    /\ phase' = [phase EXCEPT ![w] = "gone"]
    /\ busy' = [busy EXCEPT ![t] = NoWrapper]
    /\ UNCHANGED <<closure, drops, block, threadSafetyVars, obtained, called, stack,
                   access, memoryVars>>

(***************************************************************************)
(* Calls through a bare pointer, made by callers that keep to the safety   *)
(* section of bare() and leak().                                           *)
(***************************************************************************)

HasPointer(t, w) == <<t, w>> \in obtained

PointerShared(w) == \E u \in Threads : HasPointer(u, w)

OnceContract(t, w) ==
    /\ w \notin called
    /\ HasPointer(t, w) \/ (PointerShared(w) /\ w \in SendClosures)

MutContract(t, w) ==
    /\ ~InFlight(w)
    /\ HasPointer(t, w) \/ (PointerShared(w) /\ w \in SendClosures)

FnContract(t, w) ==
    HasPointer(t, w) \/ (PointerShared(w) /\ w \in SyncClosures)

CallContract(t, w) ==
    /\ phase[w] \in Published
    /\ w \in OnceClosures => OnceContract(t, w)
    /\ w \in MutClosures => MutContract(t, w)
    /\ w \in FnClosures => FnContract(t, w)

(* What instruction fetch reads at a block.                                *)
Fetched(b) == IF icache[b] = NoCode THEN code[b] ELSE icache[b]

(* The thunk runs: what it does depends on the code that is fetched.       *)
Call(t, w) ==
    /\ CanNest(t)
    /\ CallContract(t, w)
    /\ Enter(t, [op |-> "call", w |-> w,
                 runs |-> IF w \in ZstClosures THEN Thunk(w) ELSE Fetched(block[w])])
    /\ icache' = IF w \in ZstClosures THEN icache
                 ELSE [icache EXCEPT ![block[w]] = Fetched(block[w])]
    /\ IF Consumes(w)
       THEN /\ called' = called \cup {w}
            /\ closure' = [closure EXCEPT ![w] = "moved"]
       ELSE called' = called /\ closure' = closure
    /\ UNCHANGED <<phase, drops, block, handles, threadSafetyVars, obtained, busy,
                   access, arena, code>>

(* The closure returns; an FnOnce closure, owned by the frame, is dropped. *)
Return(t, w) ==
    /\ InUserCode(t)
    /\ Leave(t, "call", w)
    /\ IF Consumes(w)
       THEN /\ closure' = [closure EXCEPT ![w] = "destroyed"]
            /\ drops' = [drops EXCEPT ![w] = @ + 1]
       ELSE closure' = closure /\ drops' = drops
    /\ UNCHANGED <<phase, block, handles, threadSafetyVars, obtained, called, busy,
                   access, memoryVars>>

(***************************************************************************)
(* The environment.                                                        *)
(***************************************************************************)

(* The program drops its own allocator handle.                             *)
DropUserHandle ==
    /\ User \in handles
    /\ handles' = handles \ {User}
    /\ UNCHANGED <<phase, closure, drops, block, threadSafetyVars, obtained, called,
                   threadVars, memoryVars>>

(* A core may fetch or speculate over any executable bytes at any time.    *)
Prefetch(b) ==
    /\ icache[b] = NoCode
    /\ icache' = [icache EXCEPT ![b] = code[b]]
    /\ UNCHANGED <<wrapperVars, threadVars, arena, code>>

-----------------------------------------------------------------------------
Construct(t, w) ==
    \/ UseTemplate(t, w) \/ Relocate(t, w) \/ Fail(t, w)
    \/ \E b \in Blocks : Alloc(t, w, b)
    \/ ProtectReadWrite(t, w) \/ CopyTemplate(t, w)
    \/ WriteClosurePtr(t, w) \/ WriteReturn(t, w)
    \/ ProtectReadExecute(t, w) \/ Flush(t, w)

FinishDrop(t, w) == Release(t, w) \/ DropHandle(t, w)

Use(t, w) ==
    \/ Box(t, w) \/ Bare(t, w) \/ Leak(t, w)
    \/ \E u \in Threads : Move(t, u, w)
    \/ Upcast(t, w) \/ BeginDrop(t, w) \/ EndDestructor(t, w)
    \/ Call(t, w) \/ Return(t, w)

Next ==
    \/ \E t \in Threads, w \in Wrappers :
          Construct(t, w) \/ FinishDrop(t, w) \/ Use(t, w)
    \/ DropUserHandle
    \/ \E b \in Blocks : Prefetch(b)

Spec == Init /\ [][Next]_vars

(* Once inside the crate a thread keeps running: the code has no wait of   *)
(* its own.  Nothing is assumed of the program's own steps.                *)
Fairness ==
    \A t \in Threads : WF_vars(\E w \in Wrappers : Construct(t, w) \/ FinishDrop(t, w))

FairSpec == Spec /\ Fairness

-----------------------------------------------------------------------------
(* Properties *)

(* Every variable has its type; a wrapper has a block exactly when it was  *)
(* given one.                                                              *)
TypeOK ==
    /\ phase \in [Wrappers -> Phases]
    /\ closure \in [Wrappers -> {"none", "live", "moved", "destroyed"}]
    /\ drops \in [Wrappers -> Nat]
    /\ block \in [Wrappers -> Blocks \cup {NoBlock}]
    /\ handles \subseteq Wrappers \cup {User}
    /\ maker \in [Wrappers -> Threads \cup {NoThread}]
    /\ holder \in [Wrappers -> Threads \cup {NoThread}]
    /\ storage \in [Wrappers -> SUBSET {"Send", "Sync"}]
    /\ obtained \subseteq Threads \X Wrappers
    /\ called \subseteq OnceClosures
    /\ busy \in [Threads -> Wrappers \cup {NoWrapper}]
    /\ stack \in [Threads -> Seq(Frame)]
    /\ arena \in [Blocks -> Threads \cup {NoThread}]
    /\ code \in [Blocks -> Code]
    /\ icache \in [Blocks -> Code \cup {NoCode}]
    /\ access \in [Threads -> {"RW", "RX"}]

(* A call through the bare pointer of w that respects the contract runs    *)
(* the complete thunk of w: never bytes of an earlier owner of the block,  *)
(* never a half-written thunk (arch.rs 251-276).                           *)
CallsRunOwnThunk ==
    \A t \in Threads : \A fr \in Frames(t) :
        fr.op = "call" => fr.runs = Thunk(fr.w)

(* The closure a call runs in: the box's, or the one moved out of it.      *)
HasClosure(fr) ==
    closure[fr.w] = IF fr.w \in OnceClosures THEN "moved" ELSE "live"

(* "No borrow on closure exists", says the SAFETY comment of Drop, when it *)
(* frees the box (bare_closure.rs 404-406): no call runs in the closure.   *)
ClosureAliveDuringCall ==
    \A t \in Threads : \A fr \in Frames(t) : fr.op = "call" => HasClosure(fr)

(* Nothing else takes the closure away from under a call: not another call *)
(* of it, nor leaking, moving or upcasting the wrapper in the meantime; an *)
(* FnOnce closure is safe even from Drop (bare_closure.rs 368-389).        *)
DropAloneFrees ==
    \A t \in Threads : \A fr \in Frames(t) :
        fr.op = "call" =>
            \/ HasClosure(fr)
            \/ fr.w \notin OnceClosures /\ phase[fr.w] \in DropPhases \cup {"gone"}

(* A closure is destroyed at most once over construction, calls, leak and  *)
(* drop, and a leaked FnMut or Fn closure never (bare_closure.rs 368-373,  *)
(* 400-408; the TODO at 914-920 is about the FnOnce case).                 *)
DestroyedAtMostOnce ==
    \A w \in Wrappers :
        /\ drops[w] <= 1
        /\ phase[w] = "leaked" /\ w \notin OnceClosures => drops[w] = 0

(* A wrapper that can still be called or released has a block the          *)
(* allocator regards as handed out, and no other wrapper has the same one: *)
(* the contract of JitAlloc::release holds when drop calls it              *)
(* (jit_alloc.rs 39-47).                                                   *)
HoldsBlock(w) ==
    block[w] # NoBlock /\ phase[w] \notin {"released", "gone"}

BlocksExclusive ==
    \A w \in Wrappers : HoldsBlock(w) =>
        /\ arena[block[w]] # NoThread
        /\ \A v \in Wrappers \ {w} : HoldsBlock(v) => block[v] # block[w]

(* A thread that runs the program's code may execute JIT memory: no path   *)
(* leaves new between its two protect_jit_memory calls (arch.rs 255-275).  *)
UserCodeExecutable ==
    \A t \in Threads : InUserCode(t) => access[t] = "RX"

(* A block is written only by a thread that made JIT memory writable for   *)
(* itself and that is constructing the wrapper the block belongs to.       *)
WritesAreUnprotected ==
    [][\A b \in Blocks : code'[b] # code[b] =>
          \E t \in Threads :
             /\ access[t] = "RW"
             /\ busy[t] # NoWrapper /\ block[busy[t]] = b]_vars

(* The allocator behind a counted handle outlives the code it holds: drop  *)
(* releases the block before the wrapper's handle goes, leak keeps it, and *)
(* that of the program may go any time (arch.rs 165-178, bare_closure.rs   *)
(* 368-373).                                                               *)
AllocatorOutlivesCode ==
    \A w \in Wrappers : HoldsBlock(w) => w \in handles

(* With an allocator handle that is not Send, ThreadJitAlloc, a block goes *)
(* back to the allocator of the thread that took it (bare_closure.rs 338,  *)
(* jit_alloc.rs 190-205).                                                  *)
ReleasedWhereAllocated ==
    \A t \in Threads, w \in Wrappers \ SendHandles :
        busy[t] = w /\ phase[w] = "releasing" /\ block[w] # NoBlock
            => arena[block[w]] = t

(* A closure that is not Send is destroyed by the thread that made it, and *)
(* one that is neither Send nor shareable runs only there: moving, sharing *)
(* and upcasting wrappers cannot carry it away (bare_closure.rs 338-340,   *)
(* 380-389).                                                               *)
StaysHome ==
    \A t \in Threads : \A fr \in Frames(t) :
        \/ t = maker[fr.w]
        \/ fr.w \in SendClosures
        \/ fr.op = "call" /\ fr.w \in FnClosures \cap SyncClosures

(* The factory functions are used for closures that are both Send and Sync.*)
FactoriesKeepMarkers == FactoryClosures \subseteq SendClosures \cap SyncClosures

(* So it is for thunks that show the markers of their closures.            *)
NonSendStaysHome == FactoriesKeepMarkers => StaysHome

(* For all thunks, as thunk_factory.rs says of the factory functions.      *)
FactoriesStayHome == StaysHome

(* Once leaked, a thunk stays: its block, its code and its handle.         *)
LeakedStays ==
    [][\A w \in Wrappers : phase[w] = "leaked" =>
          /\ phase'[w] = "leaked"
          /\ w \in handles'
          /\ block[w] # NoBlock =>
                /\ arena'[block[w]] = arena[block[w]]
                /\ code'[block[w]] = code[block[w]]]_vars

(* A constructor that has begun returns or fails.                          *)
ConstructionEnds ==
    \A w \in Wrappers :
        phase[w] \in ConstructionPhases ~> phase[w] \notin ConstructionPhases

(* After the destructor the rest of the drop completes.                    *)
DropEnds == \A w \in Wrappers : phase[w] = "releasing" ~> phase[w] = "gone"

-----------------------------------------------------------------------------
(* The refinement mapping *)

StateOf(w) ==
    IF phase[w] = "unborn" THEN "none"
    ELSE IF phase[w] \in ConstructionPhases THEN "building"
    ELSE IF phase[w] = "owned" THEN "live"
    ELSE IF phase[w] = "destructing" THEN "dropping"
    ELSE IF phase[w] \in DropPhases THEN "gone"
    ELSE phase[w]

(* The closure a call frame has really entered: none, unless the fetched   *)
(* code is the complete thunk of one wrapper.                              *)
Entered(frame) ==
    IF frame.runs = Thunk(frame.runs.closure) THEN frame.runs.closure ELSE Junk

ActivityOf(frame) ==
    IF frame.op = "call" THEN <<"call", Entered(frame)>> ELSE <<"drop", frame.w>>

Promise == INSTANCE BareFn WITH
    state <- [w \in Wrappers |-> StateOf(w)],
    consumed <- called,
    running <- [t \in Threads |-> [i \in 1..Len(stack[t]) |-> ActivityOf(stack[t][i])]]

(* Blocks, code bytes, caches and the allocator never show: every step of  *)
(* the crate is a step of BareFn or invisible to the program.              *)
ImplementsBareFn == Promise!Spec
=============================================================================
