# closure-ffi in TLA+

closure-ffi turns a Rust closure into a bare `extern` function pointer. It
copies the compiler's prologue of a *thunk template* into executable memory,
writes the address of the boxed closure and a jump back into the copy, and hands
out a pointer to it. This directory holds a specification of that machinery, the
TLC models that check it on small instances, and TLAPS proofs of the parts that
matter most. Line numbers refer to the crate's sources under `src/`.

* [The system](#the-system)
* [Modules](#modules)
* [From code to model](#from-code-to-model)
* [Runs](#runs)
* [Proofs](#proofs)
* [What the models found](#what-the-models-found)
* [Not modelled](#not-modelled)
* [Plan](#plan)

## The system

| component | state | operations | how it interacts |
|---|---|---|---|
| **BareFn wrappers** (`src/bare_closure.rs`): `BareFnOnceAny`, `BareFnMutAny`, `BareFnAny` and their `Untyped…` forms | an `AllocatedThunk`, the raw pointer of the boxed closure, the storage type `S` | `new…`, `with_cc…`, `with_thunk…`, `bare`, `leak`, `upcast`, `into_untyped`, moves, `Drop` | builds and drops an `AllocatedThunk`; the program calls the pointer |
| **Allocated thunks** (`src/arch.rs`) | `alloc_base`, `thunk`, the allocator handle `jit` | `new`, `thunk_ptr`, `Drop` | calls the relocator, then `alloc`, `protect_jit_memory`, `flush_instruction_cache`, `release` |
| **Thunk templates** (`src/cc.rs`, `src/traits.rs`, `proc_macros/`) | none | the bodies of the three kinds of thunk; `ToBoxedDyn` and its marker bounds | run when the program calls a bare pointer |
| **Thunk factories** (`src/thunk_factory.rs`) | none | `make_once*`, `make_mut*`, `make*` | their thunks go into the constructors |
| **Allocators** (`src/jit_alloc.rs`, `tests/slab_alloc/`) | the static mutex with an optional `JitAllocator`; one `JitAllocator` per thread; an atomic offset | the four methods of `JitAlloc` | shared by all threads |
| **Relocators** (`src/safe_jit/`) | none between calls | `reloc_thunk_template` for x86_64, x86, Arm, AArch64 | called by `AllocatedThunk::new` |
| **bare_hrtb** (`proc_macros/`), **calling conventions** (`src/cc.rs`), **build.rs** | none | code generation | compile time only |

What is hard here, and hard to test:

* *Reuse of memory.* A dropped thunk's block goes to the next closure. What a
  processor has fetched from it before, and what a pointer that outlived its
  wrapper finds there, depends on the order of eight steps in `new` and three in
  the drop.
* *Lifetimes the compiler does not see.* A bare pointer does not borrow. Calls
  may run in a closure, recursively or on another thread, while the program
  drops, leaks, moves or upcasts its wrapper; destructors of closures are the
  program's code and may call or drop others.
* *Threads.* `Send` and `Sync` are implemented by hand; the protection of JIT
  memory is per thread on hardened systems; the default allocator is one mutex,
  the alternative a lock-free slab; a panic may come in the middle.
* *Errors.* An allocation may fail and a relocation may panic after the closure
  has been boxed.
* *Machine code.* The x86_64 relocator must find registers nobody needs, in code
  with conditional jumps whose distances change. The others replace instructions by
  longer or shorter ones in front of a block that addresses its constants relative to
  itself, and add literals behind it, all of which must stay aligned in memory the
  allocator chooses later.

What makes each part correct: a call runs the complete thunk of its own closure,
which exists meanwhile; a closure is destroyed at most once and where it may be;
a block has one owner, is written only while it is being constructed, and goes
back to its allocator while that still exists; `alloc` and `release` are atomic
and never hand out memory twice; a relocated prologue does what the template
does, and one that could be relocated is not refused. `PROJECT.json` lists the
hazards one by one, each with the properties that watch it.

## Modules

| module | about | uses |
|---|---|---|
| `BareFn` | abstract: what wrappers and pointers promise to a program | |
| `BareClosure` | the wrappers and their allocated thunks, on several threads | implements `BareFn` |
| `BareClosureInv` | the inductive invariants of `BareClosure` | extends it |
| `BareClosureProofs`, `BareClosureLife`, `BareClosureRefines` | proofs | extend `BareClosureInv` |
| `JitAlloc` | abstract: what an allocator promises | |
| `GlobalJitAlloc`, `GlobalJitAllocProofs` | the default allocator behind its mutex | implements `JitAlloc` |
| `SlabAlloc`, `SlabAllocProofs` | the lock-free allocator of the tests | implements `JitAlloc` |
| `RelocX64`, `RelocX64Proofs` | the x86_64 relocator, and a run of its result | |
| `CowBuffer` | the copy-on-write buffer of `arm_util.rs`, as a value | |
| `ThunkTemplate` | a template as the other relocators see it, and the state they share | extends `CowBuffer` |
| `RelocX86`, `RelocAArch64`, `RelocArm` | their steps, one module per source file | extend `ThunkTemplate` |
| `SafeJit` | `AllocatedThunk::new` around them: search, placement, and a run of the result | extends the three |
| `SafeJitInv`, `SafeJitProofs`, `SafeJitRuns` | the inductive invariant, and proofs | extend `SafeJit` |
| `MC…` | small instances for TLC: symmetry sets, the instructions of the prologues | |

`BareClosure` has one step for `alloc` and one for `release`. It may, because
`GlobalJitAlloc` and `SlabAlloc` are shown to implement `JitAlloc`, in which each
call takes effect at one moment. `Relocate` in `BareClosure` stands for a
successful `reloc_thunk_template`; what it does to the code is `RelocX64` and `SafeJit`.
Conversely `SafeJit` ends where the copy is placed; the writes that follow are steps
of `BareClosure`, and in `SafeJit` the offsets they go to.

Definitions marked *Faulty* are never used by an action. Each is a plausible
mistake in the definition below it, and `PROJECT.json` says which property
notices when it takes that definition's place.

## From code to model

### BareClosure

A wrapper is identified by its closure and goes through `phase`:

    unborn → boxed → relocated → allocated → writable → copied → closureWritten
           → returnWritten → sealed → owned → destructing → releasing → released → gone
                                          ↘ leaked         (failed, from boxed or relocated)

| actions | code |
|---|---|
| `Box` | `try_with_cc_in`, `try_with_thunk_in` up to the call of `AllocatedThunk::new` |
| `UseTemplate`, `Relocate`, `Fail`, `Alloc`, `ProtectReadWrite`, `CopyTemplate`, `WriteClosurePtr`, `WriteReturn`, `ProtectReadExecute`, `Flush` | `AllocatedThunk::new`, statement by statement |
| `Bare`, `Leak`, `Move`, `Upcast` | the methods of the wrapper, and what its `Send` impl allows |
| `BeginDrop`, `EndDestructor`, `Release`, `DropHandle` | `Drop` of the wrapper, of the closure, of `AllocatedThunk`, and of its field `jit`, in Rust's order |
| `Call`, `Return` | the thunk bodies of `cc.rs`, and the same ones in `bare_hrtb` |
| `Prefetch`, `DropUserHandle` | the processor; the program's own use of its allocator |

`code` and `icache` are what the block contains and what a processor may still
see of it, each part (template, closure pointer, return address) tagged with the
wrapper it was written for. `stack` holds, per thread, the calls and destructors
it is inside: while these run the program is in control and may do anything
safe Rust lets it do with wrappers and whatever the `# Safety` sections of `bare`
and `leak` let it do with pointers (`CallContract`). While `busy` names a wrapper,
the thread is inside the crate's code, which calls nobody.

A storage type `S` is the set of its marker traits. `Box` chooses any that
`ToBoxedDyn` accepts (`Shown`), `Upcast` any weaker one.

`BeginDrop` does not wait for calls: the documentation of `bare` forbids calls after the drop and says nothing of
those that have begun. So a call may run in a closure that `Drop` has freed (`DropDuringCall`, see
[below](#what-the-models-found)), and what holds of it is `DropAloneFrees`: nothing else takes the closure away. The thunk
of such a call keeps running, as the model has it fetched (`Entered`), and nothing is claimed of the freed closure.

`SendHandles` are the wrappers whose allocator handle is Send. The handle of `ThreadJitAlloc` is not. `HasBare` is false for FnOnce: the macro compiles
`bare` out of those types, so their only pointer comes from `leak`.

### GlobalJitAlloc and SlabAlloc

`GlobalJitAlloc` follows `use_alloc`: `Lock`, `Unwrap` (with the std mutex, which
poisons; the spin mutex does not), `GetOrInsert`, then the action, which takes two
steps for an allocation (`Search`, `Mark`) so that a broken lock would show, and the
drop of the guard. `Panic` can strike in any of these steps up to the moment `Mark` or `Release` takes
effect; nothing behind it, in `use_alloc`, can panic. The `JitAllocator`
itself belongs to another crate; it is assumed to pick free memory or to fail.

`SlabAlloc` follows `fetch_update`: a relaxed load, the closure, a weak
compare-exchange. A relaxed load may give any value the thread has not yet seen
to be overwritten; a weak exchange may fail without reason.

### RelocX64

The template is a sequence of instructions, and an instruction is what the code
asks iced_x86 about it: flow control, registers read and overwritten, length,
whether it has a rip-relative operand and on which side of the template. `Decode`,
`ReachAsm`, `Scan`, `Encode` and `AppendAsm` are the loops and the code between them in
`try_reloc_thunk_template`. When it has succeeded, `Run` steps through the template and
the copy together: `at` is the place in the template, `ip` the byte the copy is at,
`dirty` the registers in which the two differ.

Templates without a `_thunk_asm` block (`NoThunkAsm`) do not occur, as
`AllocatedThunk::new` has found the magic constants before.

### SafeJit

One state machine for x86, AArch64, Arm and Thumb; `mode` says which. The compiler
writes a prologue (`Compile`), then:

| phase | actions | code |
|---|---|---|
| `search` | `BeginSearch`, `SearchMagic` | `arch.rs` 218-227 |
| `scan` | `X86Next`, `X86CallPop`, …; `A64Ldr`, `A64Adr`, `A64Branch`, …; `ArmLoad`, `ArmAdr`, `ArmBranch`, … | one per way through the body of the `while` over the instructions; the `…Unsupported`, `…Invalid` ones are its early returns |
| `encode` | `X86Encode`, `X86Finish` | the loop over `call_pops` |
| `pool`, `literals` | `A64Pool`, `A64Literal`, `A64Finish`; `ArmPool`, `ArmLiteral`, `ArmFinish` | the code behind `if !extra_ldrs.is_empty()` |
| `alloc` | `AllocThunk` | `alloc` and `align_offset`, `arch.rs` 251-253 |
| `run` | `Run` | the processor, in template and copy at once |

An instruction is how it uses its own address (`Operations`), its length, the
distance it adds and, for a branch, the instruction it goes to. Addresses are
numbers, since what can go wrong is arithmetic: where the search starts, what the program
counter reads as (`EffectivePc`), which bits of a distance are kept (`AdrImmediate`,
`A64Encoded`, `LoadTarget`). The bytes of the copy are a set of pieces (`CowBuffer`), each a slice of the
template or what was put in place of one of its instructions. That is what `Same` needs to
tell whether the copy at offset `ip` does what the template does at instruction
`at`: the same instruction, if it does not depend on its place, or a load that gives the
address the processor would have computed.

On x86, which needs no copy-on-write buffer, the `Vec` the code fills is modelled by the same pieces.
Where the code slices beyond what it has copied, the model panics (`ArmOutOfOrder`).

## Runs

Fairness is used where a liveness property is checked, and nowhere else.
Deadlock checking is off in all runs: programs may stop, wrappers are constructed
only once each, and calls are bounded.

| run | instance | checks | shows |
|---|---|---|---|
| `Lifecycle` | FnMut and Fn wrapper, the second with a handle that is not Send, 2 threads, 2 blocks, depth 2 | `TypeOK`, `CallsRunOwnThunk`, `DropAloneFrees`, `BlocksExclusive`, `UserCodeExecutable`, `AllocatorOutlivesCode`, `ReleasedWhereAllocated`, `WritesAreUnprotected`, `LeakedStays`, `ImplementsBareFn` | calls run complete thunks, and only `Drop` takes their closures away; blocks have one owner and return to the thread they are from, protections come in pairs, leaked thunks stay; with blocks changing hands and wrappers dropped under calls, nothing of blocks, code and caches shows |
| `Owners` | an FnOnce closure that is Send and Sync, an FnMut one of size zero that is neither, all four storages, 1 block, with fairness | `CodeInv`, `LifeInv`, `HomeInv`, `DestroyedAtMostOnce`, `NonSendStaysHome`, `ConstructionEnds`, `DropEnds`, `ImplementsBareFn` | no double drop, the hand-written marker impls, what the proofs rest on; no path of constructor or drop hangs, with a block or without |
| `GlobalAlloc` | 2 threads, 3 units of memory, 4 calls, std mutex, panics, with fairness | `HeldApart`, `AllocInv`, `PoisonStops`, `ImplementsJitAlloc`, `GuardDropped`, `SomeCallEnds` | the lock makes calls atomic; poison stops them; the guard is always dropped |
| `SlabAlloc` | 3 threads, 4 units, 5 calls | `SlabInv`, `RefusedMeansFull`, `ImplementsJitAlloc` | stale loads do no harm |
| `RelocSafe` | prologues of ≤ 3 instructions, 2 registers | `TypeOK`, `SafeJumpsSameValues`, `SparedJumpsArrive`, `ShortRelocated` | what the relocator gets right: the values along every path, if no jump goes where a register is read that was dead behind it, and the jumps that spare what it lengthens. It refuses nothing short it could relocate |
| `SafeJit` | four instruction sets, prologues of ≤ 3 instructions out of up to 18 kinds, 2 addresses, 3 blocks, with fairness | `JitInv` (with `TypeOK`), `SearchInside`, `BlockFollows`, `CopyFits`, `BlockFindsPointers`, `PlausibleRunsAlike`, `LiteralsAligned`, `SupportedRelocated`, `RelocationEnds` | what is copied is whole, aligned, inside its allocation and, apart from the cases found, does what the template does; a prologue of supported instructions is never refused |

Six further runs each end in a violation; see below.

**Bounds.** Two wrappers are what it takes for one to be constructed on what
another has left, and two threads for any of the races: each property speaks of at
most two wrappers or two threads at a time. A depth of 2 has recursion, a drop in
a call, a call in a destructor. Two blocks allow a wrapper to
live beside another, and to be made on what the other left: either may take either block. In `Owners` only
the FnOnce wrapper has a block, since the other closure's size is zero. For the global allocator, one thread is inside the lock while the other
waits, and four calls have both of them come back after a panic; the slab has three
threads, so that one can change the offset twice between another's load and exchange.
Memory of three or four units with sizes 1 and 2 has fragments, an exact fit and a refusal. Prologues of three instructions have a
jump, an instruction it spares and one it does not, in all orders. `AsmLength` is 7
in the code (`mov r64, [rip + d]`); `RelocSafe` makes it 2, so that three instructions
are the longest `ShortRelocated` speaks of.

`SafeJit` scales some numbers of the architectures down, so that the ends of their ranges
are within a prologue of three: a literal load reaches 96 bytes on AArch64, 40 on Arm (2 MB, the upper half of which the field means as negative, and 4 KB in
the code, `Reach`; 4 KB in Thumb as in the code), an immediate of `ADR` has 64 values instead of 2^21
(`AdrCodes`), a page 256 bytes instead of 4096 (`PageSize`). A "plain" instruction of 40 bytes stands for ten
of 4, which reach no state the loop over instructions distinguishes. Template addresses are 0 and 4
modulo 8 (2 modulo 4 in Thumb, 3 modulo 4 on x86), blocks 0, 1 and 6 modulo 8, so every shift by alignment occurs that
makes a difference. Instructions include distances on both sides of each sign and of each scaled reach,
conditional forms, and branches to each instruction, past the block and back. `JitInv` is proved without these bounds.

`GlobalAlloc` has the mutex that poisons, in which more can happen; the theorems are
about both, and remove the bounds for the safety properties.

**Fairness.** `BareClosure` assumes that a thread inside the crate's constructor or drop
glue keeps running (`WF` of `Construct` and `FinishDrop`, per thread). These have no loop that
waits and no lock of their own, so this is the scheduler's promise, and that the
allocator's two methods return to each caller. Nothing
is assumed of the program: it need not return from a closure, drop a wrapper or
use one. `GlobalJitAlloc` assumes weak fairness of each thread inside `use_alloc`. Neither
mutex is fair, so it is not claimed that a given thread gets the lock, only that
some pending call ends. `SafeJit` assumes that `AllocatedThunk::new`, once called, keeps running; it is
sequential code. Nothing is assumed of the compiler or of the thunk.

## Proofs

TLAPS proves, for all values of the constants that satisfy the `ASSUME`s of the
modules:

| module | theorems |
|---|---|
| `BareClosureProofs` | `CodeInvariant`, and from it `TypeCorrect`, `CallsRight`, `BlocksSafe`, `UserCodeMayExecute`, `AllocatorSafe`, `WritesSafe`, `LeakedSafe` |
| `BareClosureLife` | `LifeInvariant`, `DestroyedOnce`, `OnlyDropFrees`, `FailureLeavesTheBox`; `HomeInvariant`, `NonSendHome`, `ReleasedHome` |
| `BareClosureRefines` | `BareClosureImplements` |
| `GlobalJitAllocProofs` | `AllocInvariant`, `HeldSafe`, `PoisonSafe`, `GlobalJitAllocImplements` |
| `SlabAllocProofs` | `SlabInvariant`, `RefusedFull`, `SlabAllocImplements`; `ContractSafe` of every `JitAlloc`, and from these two `SlabHeldApart` |
| `RelocX64Proofs` | `PlacedInvariant`, and from it `RelocTypeCorrect`, `SparedJumpsRight`, `ShortAlwaysRelocated`; `DeadInvariant`, and from it `SafeJumpsRight`, `VariadicPrologueRight`; `ApartInvariant`, `JumpsExactly` |
| `SafeJitProofs` | `JitInvariant`, and from it `JitTypeCorrect`, `SearchNeverPasses`, `BlockKeepsUp`, `CopyNeverOverruns`, `BlockFindsItsPointers`, `LiteralsStayAligned`; `RelocationsAreShort` |
| `SafeJitRuns` | `TrailInvariant`, `CopyRunsRight`; `OrdinaryInvariant`, `OrdinaryRunsRight`, `SupportedNeverPanics` |

The properties of `BareClosure` are not inductive. That a call runs its own thunk
needs to know that the block of a published wrapper contains that thunk and
nothing else is cached (`CodeOf`), which needs to know that nobody else writes the
block (`BlocksApart`, `BusyOne`) and which steps of the construction are done. `CodeInv`
is the conjunction; its proof has a step per action and under it one per conjunct.
Two more invariants are proved on top of it:

* `LifeInv` counts destructions. Its heart is `Unreachable`: an FnOnce wrapper has no
  pointer until it is leaked, and a leaked one is never dropped, so that the thunk
  that moves the closure out and the `Drop` that frees it exclude each other. From it `OnlyDropFrees`: what a call
  runs in is only ever taken away by the drop of its wrapper.
* `HomeInv` follows wrappers, pointers and blocks from thread to thread: a wrapper away
  from its maker has a Send closure and a Send handle, and so has every pointer or
  block that follows from it.

`FailureLeavesTheBox` is about the constructions that do not end in a wrapper. `Accounted` says that every block the allocator
has given belongs to a wrapper being made or made, `HandleGone` that a constructor that failed has dropped its
handle; what is left of it is the closure's box.

`BareClosureImplements` has no hypothesis: `BareFn` allows a drop during calls too, and promises nothing of the closure
afterwards. It maps every action to one step of `BareFn` or to none. `Entered` makes it
an honest mapping: a call that fetched anything but a complete thunk would map to
a call of nothing, which `BareFn` does not have.

`AllocInv` says that one thread at a time is past the lock, that what its search found is
still free, and that no extent has two claimants. `SlabInv` says that all values seen are
at most the offset and all memory given lies below it; monotonicity is what makes
a decision on a stale value right. `JitAlloc` itself promises that memory held is not given again
(`HeldApart`): `ContractSafe` proves it of the contract, from the invariant that every extent has one owner
(`OneOwner`), and whatever implements the contract inherits it, as `SlabHeldApart` shows of the slab.

In `RelocX64Proofs` the registers marked as written behind the cursor are *dead* there, a register is
picked only where it is dead, and while running only dead registers differ (`DeadInv`). The code looks at a prologue as if it
had no jumps. That is right if each jump that stays in it keeps what is dead behind it dead at
its target (`KeepsDead`): the condition of `SafeJumpsRight`, with no other bound on the prologue. `VariadicPrologueRight`
applies it to the jumps the code has in mind, those of variadic functions, which skip instructions that write no register and need no relocation.
`PlacedInv` is about the same relocator with jumps: any two instructions with nothing lengthened between them are as
far apart in the copy as in the template (`AsFarApart`), so that a jump from one to the other can be copied; and in the
backward pass every dead register is known to be free (`FoundInv`), as long as the index that stands for the
block, which is a length in the code, is not below that of the last instruction. `DrivenApart` is the converse:
what has been lengthened is further apart than it was, and nothing ever comes closer. So `JumpsExactly` can say when a jump of the copy
arrives: if, and only if, nothing it passes over was relocated.

`JitInv` follows the buffer through a relocation. `InStep` is its heart: at every step of
the scan, the new offset of the constants is their old one plus what the buffer has
gained, `newMagic = magic + cow.len - cow.copied`. From it the copy of the
block, made in one piece because `cow.copied <= start[Asm]`, ends up where `newMagic`
says (`IsBlock`). `Spaced` keeps each literal a multiple of the alignment away from the
constants; as `Place` aligns those in memory, the literals are aligned too. A lemma on the way
(`PoolAligned`) shows that the length of the copy is aligned against `newMagic` already, so the
padding of `aarch64.rs` 94 and `arm.rs` 123 is never needed, and `LiteralsAligned` does not exercise it. That no slice of the buffer ends before it begins needs
`cow.copied <= start[cursor]`, which a branch back in Arm code breaks (`NeverBack`): there the
model panics. The conjunct `PanicsExplained` records the reason of every panic: an instruction `GivenUp`, or a literal
out of reach. By itself it says little more than the guards of the panicking actions; `SupportedRelocated` follows from it with the
growth of the copy. The theorems need of the
architectures what `ArchitectureAssumption` says: the lengths of their instructions and the alignment
of their constants.

`CopyRunsRight` says that the copy runs as the template does (`PlausibleRunsAlike`). A run visits some of the
instructions only, since branches are followed, and those are the ones the relocator has looked at. `RunInv`
therefore adds to `JitInv` a *trail*: a set `visited` of instructions, each followed by the next (`Follow`), and a
function `pos` from them to the offset the code of each has, or will have, in the copy. Behind the
relocator's cursor an instruction is `Waiting` for the next slice, `Kept` in one, or `Replaced`; at the cursor
`pos` agrees with the length of the buffer. A replaced one starts as a hole whose address is with the
loads put aside (`Holed`) and becomes a load in step with the literal pushed for it (`LoadsLiteral`). `HolesApart` says that no two of
these have the same hole, so that filling one leaves the others. On x86 the pairs are found first
and encoded afterwards; `PairsFound` says the scan missed none, and `EncodeTrail` that each is encoded once, in
order. In the end the trail is complete, at every step of the run `ip = pos[at]`, and a literal is where its load looks for it
(`Linked`) although the block has been shifted in memory: by whole words on Arm (`ArmInWords`), while in Thumb a shift by half
a word is what `Mistaken` excludes. The assumption is in the property: `Mistaken` names the
instructions for which it fails, and says nothing of any other.

`Mistaken` speaks of the copy. `OrdinaryRunsRight` has a condition one can read off the prologue alone: no
instruction is of a kind the relocator takes for another, no `ADR` of Thumb is short, and on AArch64 thunk and literals
have half the reach of a load (`Ordinary`). `OrdinaryInv` bounds the copy for it: an instruction grows it by 4 bytes
at most, and adds one literal. `SupportedNeverPanics` is the other side, a prologue that has only
instructions the relocator supports is never refused, if its loads reach the literals behind it (`SupportedRelocated`). "Supported" leaves out the wide `ADR`
of Thumb, which the code means to relocate and does not (`Misjudged`).

Relocation ends, as far as safety goes, by `RelocationsAreShort`: `StepsLeft`, a natural number
that is at most `MagicAt + 2 * Asm + 5` at first, is lower after each step from the search to the call. That such
a step is taken is what fairness is for (`RelocationEnds`). The measure holds on x86 and AArch64 always; on Arm
only without a branch back (`NeverBack`), since with one the relocator may never end.

Left to TLC: liveness (`ConstructionEnds`, `DropEnds`, `GuardDropped`, `SomeCallEnds`, `RelocationEnds`), which the
prover cannot do with fairness. Every safety property of a passing run is a theorem. That the measure of
`RelocationsAreShort` is lowered is proved; that it therefore reaches its end needs ENABLED.

## What the models found

Each of these is a run that ends in a violation. The trace TLC prints is short.

| run | what happens | said otherwise |
|---|---|---|
| `RelocJump` | a conditional jump over a relocated instruction is copied unchanged and misses its target; it always does, by `JumpsExactly` | `safe_jit/mod.rs` 44: panics "If the relocation would lead to broken code." |
| `RelocBranch` | the register picked for an address is read at the target of a jump | the same, and `x86_64.rs` 113 |
| `AdrFar` | the sign of the 21-bit immediate of `ADR` and `ADRP` is extended by shifts of 12 (`encoding_aarch64.rs` 107): an address in the outer half of the reach becomes another one | the same |
| `ThumbPool` | a 2-byte `ADR` becomes a 4-byte load, the copy is placed half a word further on, and the distance to the literal, computed for the template's place (`arm.rs` 131), misses it | the same, and `arm.rs` 121-122 |
| `DropDuringCall` | a wrapper is dropped, on the other thread or further down the stack, while a call begun before runs in its closure: `Drop` frees it under the call | `bare_closure.rs` 404-406: "The caller of `bare()` promised not to call through the thunk after the lifetime of self expires, so no borrow on closure exists"; 529-531 ask only for no call once `self` "has been dropped" |
| `Factory` | `make_sync` makes a closure that is not Send pass for Send | `thunk_factory.rs` 2 and 9 |

The relocators' four need `safe_jit` and a prologue with such an instruction. Prologues
with jumps exist: the code mentions variadic functions.

Further, the models show without a run of their own:

* Contracts on unsafe calls. After a move, the pointers both threads got from `bare()` are "the current one" for a closure that is not Sync
  (987). A program that takes
  this contract, and that of `DropDuringCall`, more strictly than they are written is safe.
* `x86_64.rs` 92 enters a byte length where an index belongs, so that a template of nine stores is refused although a
  register is free: `ShortRelocated` speaks of the prologues up to that bound and excepts the longer ones.
* `Mistaken` in `SafeJit` lists the instructions the Arm relocators take for others, which `PlausibleRunsAlike` excepts and the scan
  translates as the code does: a wide load in Thumb of a lower address (`encoding_thumb.rs` 169 leaves out the sign), an
  `LDRD` at any distance but 0 (the sign is applied twice, 173), a load plus a register on Arm (its number is taken for a distance), a vector literal on
  AArch64 (copied unchanged), a literal on AArch64 further away than half the field's range, which is encoded with a negative distance (`aarch64.rs` 102), and conditional branches, of which only the taken side is relocated. A branch out of the template is
copied unchanged on Arm, and a branch back that is relocated at all may end up at the wrong place, because code it
passes over has grown (this takes four instructions); the exception covers both, and loads of the
block's own constants, which a compiler does not write. Prologues with these
  instructions are unusual; the copies would be wrong without a panic.
* A 32-bit `ADR` in Thumb is always refused, although `encoding_thumb.rs` 209-276 and `arm.rs` 75-86 are written to
  relocate it: bits 5 and 7 are equal in both of its forms, and the comparison
  `s1 != s2` at 250 asks for the contrary. `Misjudged` names it in `SafeJit`, apart from what is `Unsupported`, and `SupportedRelocated` excepts it.
* A branch back in Arm code makes the relocator loop for ever, or panic in a slice (`RelocationEnds` excepts the first).

In a build with overflow
checks, an operand below the template panics at `x86_64.rs` 50; `ShortRelocated` excepts it
(`Overflows`). A constructor whose allocation fails leaves through `?` with the closure's
box a raw pointer nobody owns (`bare_closure.rs` 595–606): `Fail` keeps the closure
"live" for ever, a leak and, by `FailureLeavesTheBox`, no more.

## Not modelled

* The bit fields of the Arm encodings and the masks by which their kinds are
  recognised (`encoding_*.rs`): what they compute of addresses is modelled, what registers they name is not.
* What the `_thunk_asm` blocks do beyond finding their two words.
* The end of a thread: `ThreadJitAlloc` after its thread-local has been destroyed.
* A hooked function that the allocator itself calls under the lock.
* The insides of `jit_allocator2` and iced_x86, which are other crates.
* Code that runs at compile time: the macros of `cc.rs`, `bare_hrtb`, `build.rs`.
* Panics of closures: a thunk is `extern`, and unwinding out of it is the
  calling convention's business.

## Plan

The order was, and is, from what every user of the crate depends on outwards.

1. Done: `BareFn`, `BareClosure` with its invariants, runs and proofs; `JitAlloc`, `GlobalJitAlloc` and `SlabAlloc`
   with theirs; `RelocX64` for straight and branching prologues.
2. Done: the other relocators and the layout of the thunk in its block (`SafeJit`), with `JitInv` and its proof.
3. `System`: `BareClosure` over `GlobalJitAlloc` without the detour of `JitAlloc`, with poisoned drops and with
   closures that are called under the lock; the end of threads for `ThreadJitAlloc`.
4. Done: proofs of all safety properties of the runs, then what follows from their invariants with conditions a reader
   can check on a prologue (`SafeJumpsRight`, `JumpsExactly`, `OrdinaryRunsRight`, `SupportedNeverPanics`), the bound on the
   steps of a relocation, what a failed construction leaves, and the contract of `JitAlloc`.
