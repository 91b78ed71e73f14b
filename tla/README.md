# A TLA+ model of SymQEMU

SymQEMU is QEMU's user-mode emulator (linux-user, TCG) with a symbolic
executor built into its code generator. Every TCG temporary is paired with a
second one that holds the symbolic expression of its value, every TCG operation
is emitted together with a call of a `sym_*` helper that computes the expression
of the result, and a backend (the SymCC runtime) keeps the expressions, a shadow
of memory and the path constraints. Around this sits QEMU's machinery for running
many guest threads: exclusive sections, the translation cache, signals, RCU.

The project models seven parts of this system: the protocol that stops all vCPU
threads for an exclusive section; the correctness of the symbolic shadow under
arbitrary sequences of TCG operations; the bit-field operations, whose expansions
and expressions are both built by hand; the bookkeeping of temporaries and their
expression temporaries; the cache of translated blocks with chaining, invalidation
and flush; guest signals and restartable system calls; and RCU grace periods. All
are model-checked with TLC, and every safety property the runs check is also proved with
TLAPS, for every value of the parameters.

## 1. Inventory

| Component | State | Operations | Interacts with | What is hard | What makes it correct |
|---|---|---|---|---|---|
| Exclusive sections (`cpu-common.c`) | `running`, `has_waiter`, `exclusive_context_count` per vCPU; `pending_cpus`, a mutex, two condition variables | `cpu_exec_start/end`, `start/end_exclusive`, list add and remove | `cpu_exec_step_atomic`, `fork_start/fork_end`, TB flush through safe work | flags read and written without the lock; lost or spurious wakeups; nesting; fork in a section | exclusion, exact count, no counted sleeper, every claim is granted |
| TCG operations and `sym_*` helpers (`tcg/tcg-op.c`, `tcg/tcg-op-ldst.c`, `accel/tcg/tcg-runtime-sym*.c`) | temporaries, their expressions, memory, shadow memory, path constraints | one emitter and one helper per operation | backend; front ends emit any sequence | order of helper and operation, aliasing, partial words, concretization | expression equals value on the run's input and predicts the others |
| Bit fields (same files) | the temporaries an expansion uses | deposit, extract, sextract, extract2, rotates, extensions, bswap | host capabilities `TCG_TARGET_HAS_*` | field ends, aliasing, dozens of expansions | expansion and expression both compute the documented result |
| Vector operations (`tcg/tcg-op-vec.c`, `tcg-runtime-sym-vec.c`) | vector expressions | element-wise helpers | gvec expansions | widths, element order | as above |
| Temporaries (`tcg/tcg.c`) | `temps`, free bitmaps, constant tables, homes of globals | register, allocate, free, intern, start a translation | everything above | reuse, 128-bit values and overflow must keep the pairing | a value's expression temporary is its own |
| Work queue (`cpu-common.c`) | list per vCPU, `wi->done` | `run_on_cpu`, `async_run_on_cpu`, `async_safe_run_on_cpu`, `process_queued_cpu_work` | exclusive sections, BQL | queue unlocked while work runs | order kept, safe work excluded from guest code, waiters woken |
| TB cache (`accel/tcg/cpu-exec.c`, `tb-maint.c`, `translate-all.c`) | hash table, jump caches, jump lists, native jumps, flush count | lookup, generate, chain, invalidate, flush | exclusive sections, work queue, regions | chaining races invalidation of either block; flush races invalidation | the block that runs translates the pc; no reference to a flushed block; no jump from valid code to invalidated code |
| Code regions (`tcg/region.c`) | current region per context | alloc, reset | TB flush | exhaustion | no two contexts share a region |
| Signals (`linux-user/signal.c`, `safe-syscall.inc.S`) | `signal_pending`, `sigtab`, forced signal, masks, actions | host handler, delivery, mask and action changes, blocking calls | kernel, `cpu_loop` | the handler interrupts everything, a blocking call included | no signal forgotten, no call sleeps on one or is done twice |
| RCU (`util/rcu.c`) | reader counters, two lists, an event | read lock and unlock, register, `synchronize_rcu`, fork | TB cache, vCPU list | lock-free readers, truncated counter, lost wakeups | sections outlive no grace period; grace periods end |
| QHT (`util/qht.c`) | buckets with seqlocks | lookups, insert, remove, resize | TB cache | lock-free readers | no torn read |
| SymCC runtime | expressions, solver, shadow pages | `_sym_*` | helpers | — | external (empty submodule) |
| Front ends, optimizer, host back ends, system calls, loader, gdbstub, plugins, system emulation, accelerators, bsd-user | | | | | not modelled, see section 8 |

`PROJECT.json` lists the components with their status and the hazards of the code
at the line where each bites.

## 2. Modules

| Module | Models | Role |
|---|---|---|
| `CpuExclusiveAbs` | what the sections promise | abstract shared/exclusive discipline |
| `CpuExclusive` | `cpu-common.c` 28-319, `cpu_exec_step_atomic`, fork | the protocol, refines `CpuExclusiveAbs` |
| `CpuExclusiveProofs` | | inductive invariant, theorems, refinement |
| `MCCpuExclusive` | | instance |
| `SymShadow` | emitters and helpers of the scalar TCG operations | what an operation does to value and expression |
| `SymShadowOps` | | two-bit arithmetic for model checking |
| `SymShadowProofs` | | theorems of `SymShadow` |
| `SymShadowGaps` | movcond, signed load, aliased operands | operations whose symbolic side does not follow |
| `MCSymShadow`, `MCSymShadowGaps` | | bounds and constants |
| `SymBits` | expansions in `tcg-op.c`, helpers in `tcg-runtime-sym.c` | bit-exact bit-field operations |
| `SymBitsProofs` | | one lemma per operator, theorems |
| `MCSymBits` | | bounds; the byte swaps by the host that sign-extend |
| `TcgTemps`, `TcgTempsProofs`, `MCTcgTemps` | allocation in `tcg/tcg.c`, `temp_expr` | temporaries and their expression temporaries |
| `Rcu`, `RcuProofs`, `MCRcu` | `util/rcu.c`, `qemu/rcu.h`, `QemuEvent` | grace periods |
| `Signals`, `SignalsProofs`, `MCSignals` | `linux-user/signal.c`, `safe_syscall_base`, `cpu_loop` | guest signals of a thread |
| `TbCache`, `TbCacheProofs`, `MCTbCache` | `cpu-exec.c`, `tb-maint.c`, `tb_gen_code`, safe work | translated blocks |

How they fit together: `TbCache` uses an exclusive section as `CpuExclusiveAbs`
specifies it (its `Exclusive` is what a section guarantees, which `CpuExclusive` is
shown to implement). `SymShadow` takes for granted that a temporary has an expression
temporary of its own, which is `TcgTemps!ExprPrivate`, and that helpers build
expressions with the operation's meaning, which `SymBits` shows for bit fields.

### 2.1 CpuExclusive

One thread per vCPU. `pc[c]` is the position of the thread in the protocol; the
other variables are the fields and statics of the C code. A step is what happens
between two points where another thread can be observed: `cpu->running` is stored
and `pending_cpus` loaded outside the lock, so each is a step (`cpu_exec_start`,
`StartRead`, `cpu_exec_end`, `EndRead`). What is done under `qemu_cpu_list_lock`
is one step, with one exception: the `CPU_FOREACH` loop of `start_exclusive`
reads `running` flags that other threads store without the lock, so it holds
`lock` over one step per vCPU (`ExclLock`, `ExclVisit`, `ExclPublish`). The
`smp_mb()` pairs justify the interleaving semantics. `qemu_cond_wait` releases the
lock, may return spuriously (`SpuriousWakeup`) and takes the lock again before the
`while` condition is evaluated (`StartIdle`, `ExclLock` again, `ExclDrained`).

`cpu_exec_step_atomic` sets `running` inside a section (`StepAtomic`) and clears
it before leaving. `ForkChild` continues as the child process: the other vCPUs are
gone, `qemu_init_cpu_list` resets the globals and `end_exclusive` is called. The
parent's side is an ordinary `end_exclusive`; that it holds the list lock during
the fork only delays others.

### 2.2 SymShadow

An expression is modelled by its meaning: a function from the inputs the program
might be given to words. Values are modelled the same way: `val[t][i]` is what `t`
would hold, along the same instructions, on input `i`; the run that happens is
the one on `seed`, and a helper, which is passed concrete values, sees
`val[t][seed]` only. So what a concolic executor must satisfy are state
predicates: expressions agree with the values on the seed, and they predict the
values on every input that satisfies the path constraints.

An operation is one action because the helper and the operation are emitted next
to each other and nothing can be scheduled between them that touches the same
temporaries; the order of the two is kept, because it decides which values the
helper reads (`Op2Before`, `Op2After` and their argument `now`). `NULL`
expressions are kept: helpers return early when all operands are concrete and
otherwise replace a missing expression by the constant they were passed
(`Ensure`). Memory is byte-wise: a load builds a word from symbolic and concrete
bytes and extends it with zeros, a store splits a word; accesses through a
symbolic address pin the address with a constraint. A call of a QEMU helper
concretizes its result; `exact` records whether a symbolic operand was lost so.

Parameters: word and byte size, the memory map `Cell`, the operations and what
they compute. `HelperAssumption` says that the expression a helper builds has the
operation's meaning; for bit fields this is what `SymBits` establishes.

The next-state relation leaves out what `SymShadowGaps` shows not to follow the
value, and guards with `AliasSafe` the operations whose helper runs after them:
with the destination equal to a concrete operand the helper reads the wrong value
(section 6). Composite expansions get a destination distinct from the operands.

### 2.3 SymBits

Words are sets of bit positions below `n`, where `n` is four or eight bytes of
`B` bits. `host` is the set of instructions the host has (`TCG_TARGET_HAS_*`;
the extension instructions of all widths are one member), chosen in `Init` from the
constant `Hosts`, of which the proofs assume nothing but that its members are such sets. `m` is a machine, with values `v` and expressions `e`, and
each `tcg_gen_*` operator is the sequence of operations the C function emits,
scratch temporaries included. `spec` is what the documentation of the operation
(`docs/devel/tcg-ops.rst`) says the temporaries should hold. Operands may be
aliased in every way. A concrete operand is one whose expression is its value,
which is how the helpers treat it.

Byte swaps take the flags `TCG_BSWAP_IZ`, `OZ` and `OS` in every combination the code
allows (`Bswaps`); where neither `OZ` nor `OS` is given, the documented result leaves
the high bits open, and `spec` takes over what the expansion left there. When the host has
the swap, `sym_bswap` is told the length and not the flags, so its expression is right
only for a zero-extended result and, of two bytes, a zero-extended input. The guard
`Followed` keeps the other swaps by the host out of `Next`. It is not a condition of the
code: `HelpersExact` does not hold of them, which the run `bswap_sign` shows for the
sign-extending ones (section 6). Expansions, on a host without the swap, are not restricted.

### 2.4 TcgTemps

`temps` is `s->temps` with the fields that allocation reads or writes, on a 64-bit
host. The model makes the same positions: the parts of a value, then one expression
temporary per part, and `temp_expr` is the same arithmetic. `Alloc(n, fill)` is a run
of calls of `tcg_temp_alloc`; the one that finds the array full leaves `nb_temps`
beyond it and abandons the translation (`stage = "overflow"`), after which the only
thing that happens is `tcg_func_start`. `held` is what the front end was given and has
not freed; a front end uses nothing else. The reuse of a freed temporary marks the
temporary after it as the expression, whatever the type, as the code does, and then
checks the assertions at `tcg.c:1708-1715`. The one on the type of that temporary does not
hold for a 128-bit value, whose second half it is. `debug`, chosen in `Init`, says whether
`tcg_debug_assert` is an assertion: if so the program stops (`stage = "abort"`); if not, it is
`__builtin_unreachable()`, and the outcome modelled is the code without the test, since
nothing after it depends on what it says. `ExprPrivate` states all three assertions of
`temp_expr` (`tcg.h:646-648`) with the one exception this leaves: in a build without
assertions the second half of a reused 128-bit value is marked as an expression itself.

### 2.5 Rcu

Every access to a reader's `ctr` and `waiting`, to `rcu_gp_ctr` and to the event's value
is a step. `wide` selects the counter (64-bit longs) or the phase bit with two waits.
The reader's local copy is an `unsigned`: `UIntMod` values. `qsreaders`, a local of
`wait_for_readers`, is a variable because unregistration may take a thread out of it.
`QLIST` operations under `rcu_registry_lock` are atomic; the two loops of
`wait_for_readers` visit the readers one by one in any order. `owed[w]` is a history
variable: the readers that were in a section when `w` called `synchronize_rcu` and have
not left it. The kernel's futex is its contract: sleep if the value is the expected one,
atomically.

### 2.6 Signals

One guest thread, an i386 guest on an x86_64 host. `pc` is the thread's position: guest
code, the instructions of `safe_syscall_base`, the kernel, `process_pending_signals`. A
host signal is sent at any time and `host_signal_handler` runs between any two steps at
which the host mask lets it. In a blocking call the kernel either fails it with `EINTR`
or, if the call is one it restarts, leaves the program counter at the syscall
instruction; the handler's `rewind_if_in_safe_syscall` decides where the thread goes on.
Signals are numbers because the scan goes upwards; `sigtab` is the set of pending ones (the code
keeps one record for each number). `done` (the host performed the call, the guest was
not told) and `owe` (a call was interrupted, nothing was handled since) are history
variables. `WideMasks` says whether a suspend mask may block more than the guest's
mask; `BadFrames` whether a frame can fault.

### 2.7 TbCache

A block is a slot of the code buffer; a page holds the code of one pc, and `Succ` says
where its direct exits go. `target[t][n]` is where the native jump really goes, apart
from `jmp_dest` (pointer and mark) and the lists, which is what the code has to keep in
step with it. The locks are the program positions at which a vCPU holds them
(`MemLocked`, `JmpLocked`); a step is what is done under one acquisition or one atomic
operation. `user` selects one `mmap_lock` for everything or a lock per page. Queued
flushes carry the count read when they were asked for (`tb_flush_count`, modulo
`CountMod`). A thread that is not executing guest code can invalidate too (`munmap`, a
device), and an exclusive section does not stop it. A vCPU leaves the loop at any
lookup and then serves its queue. The room of an abandoned translation stays
taken until the next flush.

## 3. Runs

| Run | Configuration | Bounds | Result |
|---|---|---|---|
| `exclusive` | `MCCpuExclusive.cfg` | 3 vCPUs, nesting 2, fairness | `TypeOK`, `Exclusion`, `PendingExact`, `CountedNeverSleeps`, `ImplementsAbs`, `ClaimEnters`, `SleepersResume` hold |
| `shadow` | `MCSymShadow.cfg` | 2 temporaries, 2 cells, 3 inputs, words of 2 one-bit bytes, 6 operations | `TypeOK`, `ShadowSound`, `SeedOnPath`, `Replay`, `PathComplete` hold |
| `bits` | `MCSymBits.cfg` | one-bit bytes (words of 4 and 8 bits), 2 temporaries, 2 operations, 6 hosts from none to all instructions, starting words with no, one or all bits set | `TypeOK`, `ExpansionExact`, `HelpersExact` hold; 150 216 states |
| `temps` | `MCTcgTemps.cfg` | 10 temporaries, 3 types, 2 constants, with and without debug assertions | `TypeOK`, `ExprPrivate`, `FreeUnused`, `ConstWhole`, `HomesDistinct` hold; 719 894 states |
| `rcu` | `MCRcu.cfg` | 2 readers, 2 writers, counter up to 5, nesting 2, fairness | `TypeOK`, `GracePeriod`, `OneList`, `GracePeriodEnds` hold; about 631 000 states |
| `signals` | `MCSignals.cfg` | 3 signals (ignored by default, SIGSEGV, SIGBUS), 2 masks, 2 actions, frames may fault, suspend masks no wider than the guest's, fairness | `TypeOK`, `NothingForgotten`, `SleepsUnsignalled`, `PerformedOnce`, `InterruptionHandled`, `SignalHandled` hold; about 775 000 states |
| `tbcache` | `MCTbCache.cfg` | 2 vCPUs, 2 pages, 2 blocks, 2 exits, flush count modulo 3, symmetric | `TypeOK`, `RunsItsPc`, `NoDangling`, `RemovalSound`, `ListsExact`, `NoStaleJump` hold; about 710 000 states |
| `movcond`, `aliased_operands`, `signed_load` | `MCSymShadow*.cfg` | as `shadow`, one more operation each | violated, see section 6 |
| `bswap_sign` | `MCSymBitsSigned.cfg` | as `bits`, one operation, sign-extending swaps by the host too | `SignedSwapFollowed` violated, see section 6 |
| `signals_mask` | `MCSignalsMask.cfg` | as `signals`, any suspend mask, frames do not fault | `PendingFlagTrue` violated, see section 6 |

Why the bounds are enough. Three vCPUs allow a section's owner, a second claimant and
a vCPU that is counted or arrives during the scan; four (217 800 states, a minute and a
half) give the same result, and the proofs hold for any number. Nesting 2 has both the
early return and the last `end_exclusive`. Six operations allow a symbolic byte
to be read, loaded, combined, stored over part of a word, reloaded and branched on;
two temporaries include every aliasing of a binary operation's destination, and
two cells make words overlap and wrap. Two operations on bit fields make an
aliased result the operand of the next; one-bit bytes keep all field positions and
lengths of a four- and an eight-byte word. Every result bit is a copy of one operand bit
or zero, so words with a single one tell any two wirings apart; the proofs are for any
byte size, word and host. Ten temporaries hold env, the frame or a global (direct or
indirect), a 128-bit value with its expressions and one more value, and every allocation
can be the one that overflows. Two readers and two writers let a reader that copied the
counter in one grace period publish it in the next. In `signals`, 1 is a signal that can be masked,
ignored or caught, 2 is forced, 3 cannot be masked on the host. In `tbcache` each block
can be chained to itself, to the other one and by both exits, while the other vCPU
invalidates either end or the buffer is flushed; instances with three blocks
(8.5 million states), with three blocks and one exit (0.8 million) and with three vCPUs
and one exit (3.1 million) give the same result, in up to three minutes each.
`CHECK_DEADLOCK FALSE` is used where the operation count, a bound of the check,
ends every behaviour, and in `temps`, where a failed assertion ends the program.

Fairness. In `exclusive` each thread keeps executing its own code (weak
fairness of `Proceed(c)`, which has no choice points in it but the order of the
loop), and a vCPU that was counted leaves guest code: `start_exclusive` kicks it
(`qemu_cpu_kick`, `cpu_exit`), which makes the running block exit at its next
check of the exit request. Nothing is assumed of entering guest code, of starting or
ending sections or of spurious wakeups. `SleepersResume` therefore has the
premise that sections stop: with sections for ever, a thread may be overtaken at
every broadcast, which the code allows. In `rcu` threads keep executing the library's
code (weak fairness), and critical sections end (strong fairness of the outermost
`rcu_read_unlock`, because nested sections switch it off and on); nothing is assumed about
how soon a section is entered again. In `signals` the thread keeps executing QEMU's code,
and guest code reaches its next check of the exit request or a system call; a system call
that sleeps need not return.

## 4. Properties

* `Exclusion`, `ImplementsAbs`: while a thread is in a section nobody else is in
  one or in guest code; every step is an entry or exit the abstract discipline
  allows. Both sides read the other's flag without a lock.
* `PendingExact`: `pending_cpus` is one plus the number of vCPUs that still owe a
  decrement. `CountedNeverSleeps`: those vCPUs are on their way to it.
* `ClaimEnters`, `SleepersResume`: the signal and the broadcast are not lost.
* `ShadowSound`: on the run's input, expressions equal values, in temporaries and
  memory. `SeedOnPath`: the constraints are satisfied by the run's own input.
* `Replay`: without concretization, expressions predict the values on every input
  of the path, and what has no expression does not depend on the input.
  `PathComplete`: every input of the path takes the run's branches.
* `ExpansionExact`, `HelpersExact`: expansion = documented result = expression.
* `ExprPrivate`, `FreeUnused`: whatever was allocated, freed and reused, `temp_expr` leads
  from every value in use to an expression temporary that is nobody else's, with its
  assertions true but for the exception of section 2.4. `ConstWhole`:
  interned constants are whole although translations are abandoned half way.
  `HomesDistinct`: no two globals keep their expression in the same place.
* `GracePeriod`: when `synchronize_rcu` has returned, no section it found is still open.
  `OneList`: no registered thread is ever forgotten by it. `GracePeriodEnds`: no wakeup of
  the event is lost.
* `NothingForgotten`: when `signal_pending` is zero, nothing that the guest does not block
  is recorded in `sigtab`, and the masks agree (the forced signal is not part of it). `SleepsUnsignalled`, `PerformedOnce`: whichever
  instruction a signal interrupts, the call neither sleeps on it nor is done twice.
  `InterruptionHandled`: a call a signal has ended returns after a signal was handled.
  `SignalHandled`: recorded and unblocked signals are handled.
* `RunsItsPc`: a vCPU runs a translation of its pc, over cache, table and chains, across
  flushes. `NoDangling`: nothing refers to a flushed block. `RemovalSound`: the assertions of
  `tb_remove_from_jmp_list`. `ListsExact`: lists, claims and native jumps agree.
  `NoStaleJump`: no valid block jumps to a block whose invalidation has ended.

Every property of a passing run has a mutant in `PROJECT.json`: a changed form of a
modelled definition under which TLC finds the property violated.

## 5. Proofs

All proofs are checked by `tlapm` down to the last leaf; nothing is assumed but the
named `ASSUME`s of the constants, which TLC evaluates in the runs.

**CpuExclusiveProofs** — for any finite `Cpus` and any `MaxNest`. `Exclusion` is not
inductive: that nobody is in guest code when a section is entered follows from the
counter being 1, which means nothing unless the counter is known to count. `IInv`
adds: `running` is exactly the announcement (`RunningAgrees`), the nesting count is
positive exactly in the section (`ContextAgrees`), only the scan keeps the lock
(`LockAgrees`), there is one claim and `pending_cpus` shows it from its first step
(`OneClaim`), the loop's count is the number of flags it has set (`CountAgrees`), and
`GuestCounted`, the heart of it: under a claim, a vCPU in guest code that the loop has
passed was counted. Theorems `TypeCorrect`, `MutualExclusion`, `PendingCounts`,
`NoCountedSleeper` follow; `Refinement` shows that every step is a step of
`CpuExclusiveAbs` or a stutter.

**SymShadowProofs** — for every word and byte size, memory map, set of operations and
inputs satisfying the assumptions. `IInv` says that every expression *tracks* its
value (a missing one standing for the seed's value) on the set `Where`: the path, as
long as nothing was concretized, and the seed alone afterwards. `ShadowSound` alone is
not inductive, because a load through a symbolic address is right on other inputs only
on the path that pins the address. Theorems `TypeCorrect`, `Soundness`, `Satisfiable`,
`Prediction`, `PathExplains`.

**SymBitsProofs** — for every byte size `B`, every host, any set of temporaries. One
lemma per helper states that it computes the reference operation, one per expansion
that it leaves value and expression at the reference result and the other temporaries
alone; a byte swap has one lemma per length, for every flag. `TypeCorrect`, `Expansions` and
`Helpers` follow from the invariant `TypeOK /\ ExpansionExact /\ HelpersExact`. `Helpers` is
about the operations of `Next`, that is, with the guard `Followed`.

**TcgTempsProofs** — for every capacity `MaxTemps`, every set of constants and every offset
of `env_exprs`. `ExprPrivate` speaks of values in use only and is not inductive: freed
temporaries and interned constants come back into use as they were left. `IInv` therefore
gives every temporary that is held, free, interned or global (`Heads`) a block of the array
that starts at it: its parts, then their expressions (`BlocksWhole`). The blocks do not
overlap (`BlocksApart`), those of globals lie below those of the translation
(`GlobalsFirst`, which is why `tcg_func_start` may reset `nb_temps` and forget the rest),
freed temporaries keep type and shape (`ShapesKept`), and the home of a global's expression
is a function of the global's number (`HomesPlaced`). Whether a temporary found the array
full, was reused or is 128 bits wide, its block is one of these. Which parts of a block are
marked as expressions is part of its being whole, the second half of a 128-bit EBB value in a
build without assertions being the one that may be marked either way (`Marked`). `Invariance` is the
inductive step; `TypeCorrect`, `ExpressionsPrivate`, `FreeIsUnused`, `ConstantsWhole` and
`GlobalHomesDistinct` follow from it without a further look at the actions.

**TbCacheProofs** — for any sets of vCPUs, blocks and pages, any number of exits, any guest
code (`Succ`), any range of the flush count, in user and in system mode. The properties
support each other, so they are proved together. `IInv` adds to them:

* what the locals of a vCPU are at its position (`LocalsFit`): one that comes from an exit of
  `last_tb` is where the exit goes, what it translates is nobody else's, and no block is
  invalidated by two;
* what is found is published, at its pc (`FoundLive`), and a jump leads where its exit goes
  (`JumpsLead`); `RunsItsPc` needs both, because a block is reached over either;
* `PatchHeld`, `MarkedOnce`, `RemovalReady`: the state of a jump while one vCPU patches it,
  another resets it and a third removes it. A removal is sound only because a mark is set
  once, by the vCPU that took the block out of the table, and because a jump missing
  from the list is either being patched under the lock the removal waits for or was let go by
  a destination that is invalid;
* `JumpsListed` and `Published`: a native jump of a valid block is on its destination's list,
  and a block out of the table has an empty list unless its invalidation is under way. These
  two give `NoStaleJump`;
* `FlushAlone`, `RequestsFit`: during the flush the tables are empty and the others are out of the
  loop; in user mode they are not invalidating either, while in system mode they may be, and
  the reset has to wait for their page locks. `NoDangling` is false without it.

The proof has one lemma per action. Actions inside the loop share `LoopStep` (what a step
that only moves a vCPU along must satisfy), the steps of chaining and invalidation share the
lemmas on lists and removals of the vCPUs that do not move (`ListsKept`, `RemovalKept`).
Theorems `Invariance`, `TypeCorrect`, `VcpusRunTheirPc`, `JumpListsExact`, `RemovalAsserted`,
`NothingDangles`, `StaleCodeUnreachable`.

Both inductive invariants were checked with TLC on the instances of the runs `temps` and
`tbcache` before they were proved.

**RcuProofs** — for any finite sets of readers and writers, both widths and every
`UIntMod`. `GracePeriod` alone says nothing about a writer that is still waiting. `IInv`
adds who holds the locks (`LocksAgree`), that published counters are odd and were the
counter once (`CountersAgree`), and `OwedWaitedFor`: in the last phase a reader that is
owed a wait is still in `registry` and its counter differs from `rcu_gp_ctr`, so it cannot
be set aside; in the first of two phases it may have been set aside only if it published
the new value, which the second change makes old. Theorems `Invariance`, `TypeCorrect`,
`GracePeriodHolds`, `OneListHolds`.

**SignalsProofs** — for any signals, masks and actions. `IInv` says where signals are
blocked and what the flag is there (`FlagAt`), when a call is under way (`CallAt`), that the
scan left only blocked signals (`Scanned`) and that the signal that interrupted a call is
recorded and not blocked by the mask the scan will use (`OweRecorded`). Theorems
`TypeCorrect`, `PerformedOnceHolds` and `InterruptionHandledHolds` hold for all masks;
`NothingForgottenHolds` and `SleepsUnsignalledHolds` assume that suspend masks are not wider than
the guest's (`~WideMasks`), without which they are false (section 6).

Only model-checked: the four liveness properties (`ClaimEnters`, `SleepersResume`,
`GracePeriodEnds`, `SignalHandled`; fairness and `ENABLED` are out of the prover's reach) and
the five violations.

## 6. Where the code and its documents disagree

Five runs end in a counterexample; `PROJECT.json` quotes both sides.

* `movcond`: `sym_movcond_internal` masks both alternatives with the same condition.
* `aliased_operands`: `andc`, `eqv`, `nand`, `nor`, `orc`, the divisions and `setcond`
  call their helper after the operation, when a concrete operand that is also the
  destination is gone. In the counterexample the destination is the second operand of
  `andc`, as in x86's `andn`; with the first operand `andc` happens to come out right.
* `signed_load`: loads with sign extension get a zero-extended expression.
* `bswap_sign`: a 16- or 32-bit swap by the host with `TCG_BSWAP_OS` sign-extends the value
  and gets the zero-extended expression; the expansions for other hosts, which the helper
  says it follows, get the right one. Signed byte-swapped loads and RISC-V's `rev8` emit it.
* `signals_mask`: after a `pselect`, `ppoll` or `epoll_pwait` with a mask wider than the
  guest's own, a signal that arrives before the scan is taken for blocked by that mask;
  `signal_pending` is cleared and the signal stays recorded until another one comes.

Met while modelling, without a run of its own:

* A block that is chained to itself keeps its native jump when it is invalidated:
  `tb_remove_from_jmp_list` takes the jump off the block's own list without resetting it, and
  `tb_jmp_unlink`, which resets what is on the list, no longer sees it. In system mode
  two blocks chained to each other and invalidated at the same time keep both jumps in
  the same way. The comments at `tb-maint.c:860` ("remove any jumps to the TB") and `:938` say
  otherwise. `NoStaleJump` therefore speaks of jumps out of valid blocks; a vCPU that is
  inside such a loop stays in stale code until something else makes it leave.
* `tcg_gen_callN` sets the expression of the low half of a 128-bit result to NULL, not that
  of the high half (`tcg.c:2351`).
* A reused 128-bit temporary marks its own second half as an expression (`tcg.c:1711`); debug
  builds abort at the assertion after it (`tcg.c:1714`, the state `"abort"` of `TcgTemps`), and
  without that one `tcg.h:647` would fail for the second half (the exception in `ExprPrivate`).
* A 16-bit swap by the host of an input that is not zero-extended, as byte-swapped stores
  make, gets an expression with the input's third byte in it.
* A SIGSEGV forced while the synchronous signal is being handled (`signal.c:1298`) is not
  looked at again by that scan: the flag is cleared with the signal left in `sync_signal`. No
  run shows it, since `NothingForgotten` speaks of `sigtab` and `PendingFlagTrue` is run with
  frames that do not fault. A suspending call may sleep although a signal that its mask
  lets in is recorded already. A thread started with SIGSEGV blocked on the host keeps it
  blocked until the first scan.
* After 2^31 grace periods the copy of the counter in `rcu_read_lock` no longer equals it:
  grace periods stay correct and readers that re-enter can delay them for ever.

Met while reading, not modelled: `tcg_gen_remu_i64` calls the signed remainder's helper;
`negsetcond`, `clz`, `ctz` and `ctpop` leave the destination's old expression;
`mulu2_i64` overwrites one half's expression; byte-swapping loads on a host with `movbe` do not swap the
expression.
QEMU helpers and system calls that write `env` or guest memory, such as the atomic operations
under `CF_PARALLEL`, leave the shadow of what they wrote as it was; the code promises no more
than that the helper's result is concretized.

## 7. Plan

Done: the exclusive sections; the scalar symbolic shadow; bit fields; temporaries; RCU grace
periods; guest signals; the translation cache; proofs of the safety properties of all of them.

1. `CpuWork`: the rest of the per-CPU work queue composed with `CpuExclusive` — items run in
   order and once, `run_on_cpu` returns.
2. `SymVec`: vector helpers against element-wise reference definitions.
3. `Regions`: allocation per context; the `call_rcu` queue on top of `Rcu`; QHT's seqlocks.

## 8. Not modelled

The front ends, the optimizer, the register allocator and the host back ends: sequential
and far too large; the models take the documented meaning of a TCG operation for the
host code and any sequence of operations for the front end. The SymCC runtime: not in
this tree, modelled as external from its use. System calls, the ELF loader and `mmap`:
conversions around host calls (the symbolic `read` is in `SymShadow`). Garbage collection
of expressions: reachability inside the runtime. System emulation, accelerators,
bsd-user, gdbstub, plugins: not part of symbolic execution.

Limits of what is modelled: a 64-bit host; one guest thread in `SymShadow`; `add2`-like
double-word operations, 128-bit, atomic and byte-swapped accesses are left out; division by zero,
which traps, is not an operation of the model. `Signals` has one thread, no siginfo, no debugger that
changes a signal and no `SIG_ERR` action (`signal.c:1197-1200`, `1222-1223`); `Rcu`
has no callbacks; `TbCache` has no page tables, icount or blocks over two pages, and no flush
in a serial context, which is done at once (`tb-maint.c:793-794`).
