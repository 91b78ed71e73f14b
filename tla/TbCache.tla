-------------------------------- MODULE TbCache --------------------------------
(***************************************************************************)
(* Translation blocks shared by the vCPUs: lookup in the jump cache and    *)
(* the hash table, translation, direct chaining of blocks, invalidation of *)
(* one block and the flush of the whole code buffer                        *)
(* (accel/tcg/cpu-exec.c, tb-maint.c, translate-all.c, cpu-common.c).      *)
(*                                                                         *)
(* A page holds the code of one guest pc.  User mode has one memory lock   *)
(* (mmap_lock); system mode has one per page.  The spin lock of a block    *)
(* and the memory locks are not variables: a vCPU holds them exactly in    *)
(* the locations that Holds and Spins name.  vCPUs run in parallel         *)
(* (CF_PARALLEL).  A thread that invalidates from outside the loop (a      *)
(* system call, a device) is a vCPU at "out".                              *)
(***************************************************************************)
EXTENDS Naturals, Sequences, FiniteSets

CONSTANTS Cpu, Slot,       \* vCPUs; room in the code buffer
          Pc,              \* guest code
          MaxExit,         \* a block has the goto_tb exits 0 .. MaxExit
          Succ(_, _),      \* where exit n of the code at a pc goes
          None,
          CountMod         \* values of the unsigned tb_flush_count

ASSUME TbCacheAssumption ==
    /\ None \notin Cpu \cup Slot \cup Pc
    /\ MaxExit \in Nat
    /\ \A p \in Pc, n \in 0 .. MaxExit : Succ(p, n) \in Pc
    /\ CountMod \in Nat \ {0, 1}

VARIABLES
    user,                        \* CONFIG_USER_ONLY
    alloc,                       \* blocks tcg_tb_alloc has handed out
    tbpc, invalid,               \* tb->pc, tb->cflags & CF_INVALID
    jmp_dest,                    \* [d, m]: the pointer and its LSB
    jmp_list,                    \* jmp_list_head and what it links
    target,                      \* where the native jump goes, None: to exit_tb
    htable, jmp_cache,
    tb_flush_count, work_list,
    loc, pc, tb,                 \* of a vCPU: position, and the locals of
    last_tb, tb_exit,            \* cpu_exec_loop
    work,                        \* the flush request being served
    inv, idx, ptr, ent           \* locals of do_tb_phys_invalidate

block == <<alloc, tbpc, invalid, jmp_dest, jmp_list, target>>
flush == <<tb_flush_count, work_list, work>>
invloc == <<inv, idx, ptr, ent>>
run == <<pc, tb, last_tb, tb_exit>>
vars == <<user, block, htable, jmp_cache, flush, loc, run, invloc>>

Exit == 0 .. MaxExit

Unset == [d |-> None, m |-> FALSE]

Invalidating == {"unhash", "uncache", "detach", "remove", "unlink",
                 "reset", "clear"}
Loc == {"out", "work", "safe", "flush", "loop", "gen", "trans", "cache", "chain",
        "patch", "exec"} \cup Invalidating

Goto(c, l) == loc' = [loc EXCEPT ![c] = l]

(* The memory lock for page p is held: by a translation, an invalidation   *)
(* or, in user mode, a flush.                                              *)
MemLocked(p) ==
    \E c \in Cpu :
        \/ loc[c] = "trans" /\ (user \/ pc[c] = p)
        \/ loc[c] \in Invalidating /\ (user \/ tbpc[inv[c]] = p)
        \/ loc[c] = "flush" /\ user

(* jmp_lock of block t is held across steps: by tb_add_jump or by          *)
(* tb_jmp_unlink.                                                          *)
JmpLocked(t) ==
    \E c \in Cpu : \/ loc[c] = "patch" /\ tb[c] = t
                   \/ loc[c] \in {"reset", "clear"} /\ inv[c] = t

Init ==
    /\ user \in BOOLEAN
    /\ alloc = {} /\ htable = {}
    /\ tbpc = [t \in Slot |-> None]
    /\ invalid = [t \in Slot |-> FALSE]
    /\ jmp_dest = [t \in Slot |-> [n \in Exit |-> Unset]]
    /\ jmp_list = [t \in Slot |-> {}]
    /\ target = [t \in Slot |-> [n \in Exit |-> None]]
    /\ jmp_cache = [c \in Cpu |-> [p \in Pc |-> None]]
    /\ tb_flush_count = 0
    /\ work_list = [c \in Cpu |-> <<>>]
    /\ work = [c \in Cpu |-> 0]
    /\ loc = [c \in Cpu |-> "out"]
    /\ pc = [c \in Cpu |-> None]
    /\ tb = [c \in Cpu |-> None]
    /\ last_tb = [c \in Cpu |-> None]
    /\ tb_exit = [c \in Cpu |-> 0]
    /\ inv = [c \in Cpu |-> None]
    /\ idx = [c \in Cpu |-> 0]
    /\ ptr = [c \in Cpu |-> None]
    /\ ent = [c \in Cpu |-> <<>>]

-------------------------------------------------------------------------------
(* The execution loop.  cpu_exec_start waits while another vCPU is in an   *)
(* exclusive section.                                                      *)
EnterLoop(c) ==
    /\ loc[c] = "out"
    /\ \A o \in Cpu : loc[o] # "flush"
    /\ \E p \in Pc : pc' = [pc EXCEPT ![c] = p]
    /\ Goto(c, "loop")
    /\ UNCHANGED <<user, block, htable, jmp_cache, flush, tb, last_tb, tb_exit,
                   invloc>>

(* Leaving the loop forgets its locals.  Both main loops then process the  *)
(* queued work.                                                            *)
LeaveLoop(c) ==
    /\ pc' = [pc EXCEPT ![c] = None]
    /\ last_tb' = [last_tb EXCEPT ![c] = None]
    /\ tb' = [tb EXCEPT ![c] = None]
    /\ tb_exit' = [tb_exit EXCEPT ![c] = 0]
    /\ Goto(c, "work")

ExitLoop(c) ==
    /\ loc[c] = "loop"
    /\ LeaveLoop(c)
    /\ UNCHANGED <<user, block, htable, jmp_cache, flush, invloc>>

(* An interrupt or exception of a system guest goes to a handler; a user   *)
(* program sees them only outside the loop.                                *)
NewPc(c) == \E p \in IF user THEN {pc[c]} ELSE Pc : pc' = [pc EXCEPT ![c] = p]

(* Mutated form: last_tb survives the change of the program flow.          *)
cpu_handle_interruptKeep(c) ==
    /\ loc[c] = "loop"
    /\ NewPc(c)
    /\ UNCHANGED <<user, block, htable, jmp_cache, flush, loc, tb, last_tb,
                   tb_exit, invloc>>

(* cpu_handle_interrupt took an interrupt or was told that the program     *)
(* flow changed: no last_tb.                                               *)
cpu_handle_interrupt(c) ==
    /\ loc[c] = "loop"
    /\ NewPc(c)
    /\ last_tb' = [last_tb EXCEPT ![c] = None]
    /\ tb_exit' = [tb_exit EXCEPT ![c] = 0]
    /\ UNCHANGED <<user, block, htable, jmp_cache, flush, loc, tb, invloc>>

(* What the comparison of cflags accepts: an invalidated block has         *)
(* CF_INVALID in its cflags and no lookup asks for it.                     *)
Matches(t, p) == tbpc[t] = p /\ ~invalid[t]

CacheHit(c) ==
    jmp_cache[c][pc[c]] # None /\ ~invalid[jmp_cache[c][pc[c]]]

(* tb_lookup, first half: the vCPU's own cache is indexed by pc and holds  *)
(* the pc beside the block; only the cflags are read from the block.       *)
LookupCache(c) ==
    /\ loc[c] = "loop" /\ CacheHit(c)
    /\ tb' = [tb EXCEPT ![c] = jmp_cache[c][pc[c]]]
    /\ Goto(c, "chain")
    /\ UNCHANGED <<user, block, htable, jmp_cache, flush, pc, last_tb, tb_exit,
                   invloc>>

(* tb_lookup, second half: the hash table.                                 *)
tb_htable_lookup(c) ==
    /\ loc[c] = "loop" /\ ~CacheHit(c)
    /\ \/ \E t \in htable : /\ Matches(t, pc[c])
                            /\ tb' = [tb EXCEPT ![c] = t]
                            /\ Goto(c, "cache")
       \/ /\ \A t \in htable : ~Matches(t, pc[c])
          /\ tb' = [tb EXCEPT ![c] = None]
          /\ Goto(c, "gen")
    /\ UNCHANGED <<user, block, htable, jmp_cache, flush, pc, last_tb, tb_exit,
                   invloc>>

(* The entry is written after the block was found or made: the block may   *)
(* have been invalidated since.                                            *)
CacheWrite(c) ==
    /\ loc[c] = "cache"
    /\ jmp_cache' = [jmp_cache EXCEPT ![c][pc[c]] = tb[c]]
    /\ Goto(c, "chain")
    /\ UNCHANGED <<user, block, htable, flush, run, invloc>>

-------------------------------------------------------------------------------
(* tb_gen_code.  The block is taken from the buffer and its page locked.   *)
GenStart(c) ==
    /\ loc[c] = "gen" /\ ~MemLocked(pc[c])
    /\ \E t \in Slot \ alloc :
           /\ alloc' = alloc \cup {t}
           /\ tb' = [tb EXCEPT ![c] = t]
    /\ Goto(c, "trans")
    /\ UNCHANGED <<user, tbpc, invalid, jmp_dest, jmp_list, target, htable,
                   jmp_cache, flush, pc, last_tb, tb_exit, invloc>>

(* The buffer is full: tb_flush queues a request with the count it read    *)
(* and the vCPU leaves the loop.  (A thread in a serial context, which is  *)
(* alone or has a section, would flush at once: not modelled.)             *)
tb_flush(c) ==
    /\ work_list' = [work_list EXCEPT ![c] = Append(@, tb_flush_count)]
    /\ UNCHANGED <<tb_flush_count, work>>

GenFull(c) ==
    /\ loc[c] = "gen" /\ alloc = Slot
    /\ user => ~MemLocked(pc[c])
    /\ tb_flush(c)
    /\ LeaveLoop(c)
    /\ UNCHANGED <<user, block, htable, jmp_cache, invloc>>

(* Other callers of tb_flush, outside the loop: shmat and fork of a user   *)
(* program, the debugger, plugins.  queue_work_on_cpu kicks the vCPU: it   *)
(* enters the loop and leaves it again before it runs a block.             *)
RequestFlush(c) ==
    /\ loc[c] = "out"
    /\ tb_flush(c)
    /\ Goto(c, "work")
    /\ UNCHANGED <<user, block, htable, jmp_cache, run, invloc>>

(* The rest of tb_gen_code with tb_link_page: the block is initialised and *)
(* published, unless another vCPU was first; then it is given back.        *)
tb_link_page(c) ==
    LET t == tb[c]
        same == {u \in htable : Matches(u, pc[c])}
    IN  /\ loc[c] = "trans"
        /\ \/ /\ same = {}
              /\ tbpc' = [tbpc EXCEPT ![t] = pc[c]]
              /\ invalid' = [invalid EXCEPT ![t] = FALSE]
              /\ jmp_dest' = [jmp_dest EXCEPT ![t] = [n \in Exit |-> Unset]]
              /\ jmp_list' = [jmp_list EXCEPT ![t] = {}]
              /\ target' = [target EXCEPT ![t] = [n \in Exit |-> None]]
              /\ htable' = htable \cup {t}
              /\ UNCHANGED <<alloc, tb>>
           \/ /\ \E u \in same : tb' = [tb EXCEPT ![c] = u]
              /\ alloc' = alloc \ {t}
              /\ UNCHANGED <<tbpc, invalid, jmp_dest, jmp_list, target, htable>>
        /\ Goto(c, "cache")
        /\ UNCHANGED <<user, jmp_cache, flush, pc, last_tb, tb_exit, invloc>>

(* The translation does not fit in what is left of the buffer: its room is *)
(* lost until the next flush and another block is taken.  (User mode keeps *)
(* mmap_lock meanwhile; nothing it protects is used in between.)           *)
GenOverflow(c) ==
    /\ loc[c] = "trans"
    /\ tb' = [tb EXCEPT ![c] = None]
    /\ Goto(c, "gen")
    /\ UNCHANGED <<user, block, htable, jmp_cache, flush, pc, last_tb, tb_exit,
                   invloc>>

(* A guest fetch faults while translating: the longjmp to cpu_exec_setjmp  *)
(* releases the locks, and the room of the block is lost.                  *)
cpu_exec_longjmp_cleanup(c) ==
    /\ loc[c] = "trans"
    /\ \/ user /\ LeaveLoop(c)
       \/ /\ ~user
          /\ NewPc(c)
          /\ last_tb' = [last_tb EXCEPT ![c] = None]
          /\ tb' = [tb EXCEPT ![c] = None]
          /\ tb_exit' = [tb_exit EXCEPT ![c] = 0]
          /\ Goto(c, "loop")
    /\ UNCHANGED <<user, block, htable, jmp_cache, flush, invloc>>

-------------------------------------------------------------------------------
(* Chaining.  last_tb is dropped when the block spans two pages of a       *)
(* system guest.                                                           *)
NoChain(c) ==
    /\ loc[c] = "chain"
    /\ last_tb[c] = None \/ ~user
    /\ last_tb' = [last_tb EXCEPT ![c] = None]
    /\ tb_exit' = [tb_exit EXCEPT ![c] = 0]
    /\ Goto(c, "exec")
    /\ UNCHANGED <<user, block, htable, jmp_cache, flush, pc, tb, invloc>>

(* Mutated form: the destination's cflags are not looked at.               *)
MayClaimInvalid(c) == jmp_dest[last_tb[c]][tb_exit[c]] = Unset

(* tb_add_jump under the destination's jmp_lock: refuse an invalid         *)
(* destination, claim the slot of the jump if it is null, then patch.      *)
MayClaim(c) ==
    /\ ~invalid[tb[c]]
    /\ jmp_dest[last_tb[c]][tb_exit[c]] = Unset

AddJumpClaim(c) ==
    /\ loc[c] = "chain" /\ last_tb[c] # None
    /\ ~JmpLocked(tb[c])
    /\ MayClaim(c)
    /\ jmp_dest' = [jmp_dest EXCEPT ![last_tb[c]][tb_exit[c]].d = tb[c]]
    /\ Goto(c, "patch")
    /\ UNCHANGED <<user, alloc, tbpc, invalid, jmp_list, target, htable,
                   jmp_cache, flush, run, invloc>>

AddJumpRefused(c) ==
    /\ loc[c] = "chain" /\ last_tb[c] # None
    /\ ~JmpLocked(tb[c])
    /\ ~MayClaim(c)
    /\ last_tb' = [last_tb EXCEPT ![c] = None]
    /\ tb_exit' = [tb_exit EXCEPT ![c] = 0]
    /\ Goto(c, "exec")
    /\ UNCHANGED <<user, block, htable, jmp_cache, flush, pc, tb, invloc>>

AddJumpPatch(c) ==
    /\ loc[c] = "patch"
    /\ target' = [target EXCEPT ![last_tb[c]][tb_exit[c]] = tb[c]]
    /\ jmp_list' = [jmp_list EXCEPT ![tb[c]] = @ \cup {<<last_tb[c], tb_exit[c]>>}]
    /\ last_tb' = [last_tb EXCEPT ![c] = None]
    /\ tb_exit' = [tb_exit EXCEPT ![c] = 0]
    /\ Goto(c, "exec")
    /\ UNCHANGED <<user, alloc, tbpc, invalid, jmp_dest, htable, jmp_cache,
                   flush, pc, tb, invloc>>

-------------------------------------------------------------------------------
(* Generated code.  A goto_tb exit goes where its native jump goes; an     *)
(* unpatched one returns the block and the exit number to the loop.        *)
FollowJump(c, n) ==
    /\ loc[c] = "exec" /\ target[tb[c]][n] # None
    /\ pc' = [pc EXCEPT ![c] = Succ(@, n)]
    /\ tb' = [tb EXCEPT ![c] = target[tb[c]][n]]
    /\ UNCHANGED <<user, block, htable, jmp_cache, flush, loc, last_tb, tb_exit,
                   invloc>>

ExitTb(c, n) ==
    /\ loc[c] = "exec" /\ target[tb[c]][n] = None
    /\ pc' = [pc EXCEPT ![c] = Succ(@, n)]
    /\ last_tb' = [last_tb EXCEPT ![c] = tb[c]]
    /\ tb_exit' = [tb_exit EXCEPT ![c] = n]
    /\ tb' = [tb EXCEPT ![c] = None]
    /\ Goto(c, "loop")
    /\ UNCHANGED <<user, block, htable, jmp_cache, flush, invloc>>

(* Indirect jumps, exceptions, TB_EXIT_REQUESTED: no last_tb.              *)
ExitOther(c) ==
    /\ loc[c] = "exec"
    /\ \E p \in Pc : pc' = [pc EXCEPT ![c] = p]
    /\ tb' = [tb EXCEPT ![c] = None]
    /\ Goto(c, "loop")
    /\ UNCHANGED <<user, block, htable, jmp_cache, flush, last_tb, tb_exit,
                   invloc>>

-------------------------------------------------------------------------------
(* Invalidation.  The block is found in the list of a page (a store to     *)
(* code, munmap, a device), or is the running block (a watchpoint), which  *)
(* may have been invalidated before.  CF_INVALID is set under jmp_lock.    *)
InvalidateStart(c) ==
    /\ loc[c] \in {"out", "exec"}
    /\ \E t \in alloc :
           /\ tbpc[t] # None
           /\ ~invalid[t] \/ t = tb[c]
           /\ ~MemLocked(tbpc[t]) /\ ~JmpLocked(t)
           /\ inv' = [inv EXCEPT ![c] = t]
           /\ invalid' = [invalid EXCEPT ![t] = TRUE]
    /\ Goto(c, "unhash")
    /\ UNCHANGED <<user, alloc, tbpc, jmp_dest, jmp_list, target, htable,
                   jmp_cache, flush, run, idx, ptr, ent>>

(* Back to the caller.  A vCPU that invalidated the block it runs goes     *)
(* back to the loop (precise self-modifying code, a watchpoint) or, on     *)
(* targets that tolerate it, runs on.                                      *)
EndInvalidate(c) ==
    /\ inv' = [inv EXCEPT ![c] = None]
    /\ idx' = [idx EXCEPT ![c] = 0]
    /\ ptr' = [ptr EXCEPT ![c] = None]
    /\ ent' = [ent EXCEPT ![c] = <<>>]
    /\ \/ /\ tb[c] = None
          /\ Goto(c, "out") /\ UNCHANGED tb
       \/ /\ tb[c] # None
          /\ Goto(c, "exec") /\ UNCHANGED tb
       \/ /\ tb[c] # None /\ inv[c] = tb[c]
          /\ Goto(c, "loop") /\ tb' = [tb EXCEPT ![c] = None]
    /\ UNCHANGED <<pc, last_tb, tb_exit>>

(* qht_remove fails when somebody has removed the block before.            *)
RemoveFromHtable(c) ==
    /\ loc[c] = "unhash"
    /\ \/ /\ inv[c] \in htable
          /\ htable' = htable \ {inv[c]}
          /\ Goto(c, "uncache")
          /\ UNCHANGED <<run, invloc>>
       \/ /\ inv[c] \notin htable
          /\ EndInvalidate(c)
          /\ UNCHANGED htable
    /\ UNCHANGED <<user, block, jmp_cache, flush>>

tb_jmp_cache_inval_tb(c) ==
    /\ loc[c] = "uncache"
    /\ jmp_cache' = [o \in Cpu |-> [p \in Pc |->
                        IF jmp_cache[o][p] = inv[c] THEN None
                                                    ELSE jmp_cache[o][p]]]
    /\ Goto(c, "detach")
    /\ UNCHANGED <<user, block, htable, flush, run, invloc>>

(* tb_remove_from_jmp_list: the LSB of jmp_dest is set so that nobody      *)
(* claims the jump again, and the destination read with it is locked.      *)
NextExit(c) ==
    IF idx[c] < MaxExit
    THEN idx' = [idx EXCEPT ![c] = @ + 1] /\ Goto(c, "detach")
    ELSE idx' = [idx EXCEPT ![c] = 0] /\ Goto(c, "unlink")

MarkDest(c) ==
    LET old == jmp_dest[inv[c]][idx[c]]
    IN  /\ loc[c] = "detach"
        /\ jmp_dest' = [jmp_dest EXCEPT ![inv[c]][idx[c]].m = TRUE]
        /\ \/ old.d = None /\ NextExit(c) /\ UNCHANGED ptr
           \/ /\ old.d # None
              /\ ptr' = [ptr EXCEPT ![c] = old.d]
              /\ Goto(c, "remove") /\ UNCHANGED idx
        /\ UNCHANGED <<user, alloc, tbpc, invalid, jmp_list, target, htable,
                       jmp_cache, flush, run, inv, ent>>

(* Under the lock of the destination: out of its list, if it is still the  *)
(* destination.  The native jump is not reset.                             *)
RemoveFromList(c) ==
    /\ loc[c] = "remove" /\ ~JmpLocked(ptr[c])
    /\ jmp_list' = IF jmp_dest[inv[c]][idx[c]].d = ptr[c]
                   THEN [jmp_list EXCEPT ![ptr[c]] = @ \ {<<inv[c], idx[c]>>}]
                   ELSE jmp_list
    /\ ptr' = [ptr EXCEPT ![c] = None]
    /\ NextExit(c)
    /\ UNCHANGED <<user, alloc, tbpc, invalid, jmp_dest, target, htable,
                   jmp_cache, flush, run, inv, ent>>

(* tb_jmp_unlink holds jmp_lock while it resets every jump in the list and *)
(* clears its destination, keeping the LSB.                                *)
UnlinkStart(c) ==
    /\ loc[c] = "unlink" /\ ~JmpLocked(inv[c])
    /\ Goto(c, "reset")
    /\ UNCHANGED <<user, block, htable, jmp_cache, flush, run, invloc>>

UnlinkReset(c) ==
    /\ loc[c] = "reset"
    /\ \E e \in jmp_list[inv[c]] :
           /\ target' = [target EXCEPT ![e[1]][e[2]] = None]
           /\ ent' = [ent EXCEPT ![c] = e]
    /\ Goto(c, "clear")
    /\ UNCHANGED <<user, alloc, tbpc, invalid, jmp_dest, jmp_list, htable,
                   jmp_cache, flush, run, inv, idx, ptr>>

(* Mutated form: the destination of the jump is left in place.             *)
UnlinkClearKeep(c) ==
    /\ loc[c] = "clear"
    /\ jmp_list' = [jmp_list EXCEPT ![inv[c]] = @ \ {ent[c]}]
    /\ ent' = [ent EXCEPT ![c] = <<>>]
    /\ Goto(c, "reset")
    /\ UNCHANGED <<user, alloc, tbpc, invalid, jmp_dest, target, htable, jmp_cache,
                   flush, run, inv, idx, ptr>>

(* Mutated form: the LSB goes with the pointer.                            *)
UnlinkClearAll(c) ==
    /\ loc[c] = "clear"
    /\ jmp_dest' = [jmp_dest EXCEPT ![ent[c][1]][ent[c][2]] = Unset]
    /\ jmp_list' = [jmp_list EXCEPT ![inv[c]] = @ \ {ent[c]}]
    /\ ent' = [ent EXCEPT ![c] = <<>>]
    /\ Goto(c, "reset")
    /\ UNCHANGED <<user, alloc, tbpc, invalid, target, htable, jmp_cache, flush,
                   run, inv, idx, ptr>>

UnlinkClear(c) ==
    /\ loc[c] = "clear"
    /\ jmp_dest' = [jmp_dest EXCEPT ![ent[c][1]][ent[c][2]].d = None]
    /\ jmp_list' = [jmp_list EXCEPT ![inv[c]] = @ \ {ent[c]}]
    /\ ent' = [ent EXCEPT ![c] = <<>>]
    /\ Goto(c, "reset")
    /\ UNCHANGED <<user, alloc, tbpc, invalid, target, htable, jmp_cache, flush,
                   run, inv, idx, ptr>>

UnlinkEnd(c) ==
    /\ loc[c] = "reset" /\ jmp_list[inv[c]] = {}
    /\ EndInvalidate(c)
    /\ UNCHANGED <<user, block, htable, jmp_cache, flush>>

-------------------------------------------------------------------------------
(* process_queued_cpu_work takes one item after the other off the list and *)
(* starts an exclusive section for each.                                   *)
process_queued_cpu_work(c) ==
    /\ loc[c] = "work"
    /\ \/ /\ work_list[c] # <<>>
          /\ work' = [work EXCEPT ![c] = Head(work_list[c])]
          /\ work_list' = [work_list EXCEPT ![c] = Tail(@)]
          /\ Goto(c, "safe")
       \/ /\ work_list[c] = <<>>
          /\ Goto(c, "out")
          /\ UNCHANGED <<work, work_list>>
    /\ UNCHANGED <<user, block, htable, jmp_cache, tb_flush_count, run, invloc>>

(* Exclusive: no other vCPU is in the loop.  One may be outside it, in the *)
(* middle of an invalidation.                                              *)
Exclusive(c) ==
    \A o \in Cpu \ {c} :
        \/ loc[o] \in {"out", "work", "safe"}
        \/ loc[o] \in Invalidating /\ tb[o] = None

(* Mutated form: mmap_lock is not taken.                                   *)
FlushStartNoLock(c) ==
    /\ loc[c] = "safe" /\ Exclusive(c)
    /\ work' = [work EXCEPT ![c] = 0]
    /\ \/ /\ work[c] # tb_flush_count
          /\ Goto(c, "work")
          /\ UNCHANGED <<jmp_cache, htable>>
       \/ /\ work[c] = tb_flush_count
          /\ jmp_cache' = [o \in Cpu |-> [p \in Pc |-> None]]
          /\ htable' = {}
          /\ Goto(c, "flush")
    /\ UNCHANGED <<user, block, tb_flush_count, work_list, run, invloc>>

(* do_tb_flush: mmap_lock (user mode), the count, and everything through   *)
(* which a block can be found.                                             *)
FlushStart(c) ==
    /\ loc[c] = "safe" /\ Exclusive(c)
    /\ user => \A p \in Pc : ~MemLocked(p)
    /\ work' = [work EXCEPT ![c] = 0]
    /\ \/ /\ work[c] # tb_flush_count
          /\ Goto(c, "work")
          /\ UNCHANGED <<jmp_cache, htable>>
       \/ /\ work[c] = tb_flush_count
          /\ jmp_cache' = [o \in Cpu |-> [p \in Pc |-> None]]
          /\ htable' = {}
          /\ Goto(c, "flush")
    /\ UNCHANGED <<user, block, tb_flush_count, work_list, run, invloc>>

(* Mutated form: a counter wider than the request that carries it.         *)
FlushResetWide(c) ==
    /\ loc[c] = "flush"
    /\ user \/ \A p \in Pc : ~MemLocked(p)
    /\ alloc' = {}
    /\ tbpc' = [t \in Slot |-> None]
    /\ invalid' = [t \in Slot |-> FALSE]
    /\ jmp_dest' = [t \in Slot |-> [n \in Exit |-> Unset]]
    /\ jmp_list' = [t \in Slot |-> {}]
    /\ target' = [t \in Slot |-> [n \in Exit |-> None]]
    /\ tb_flush_count' = tb_flush_count + 1
    /\ Goto(c, "work")
    /\ UNCHANGED <<user, htable, jmp_cache, work_list, work, run, invloc>>

(* tb_remove_all takes every page lock of a system guest in turn; then     *)
(* the whole buffer is free again.                                         *)
FlushReset(c) ==
    /\ loc[c] = "flush"
    /\ user \/ \A p \in Pc : ~MemLocked(p)
    /\ alloc' = {}
    /\ tbpc' = [t \in Slot |-> None]
    /\ invalid' = [t \in Slot |-> FALSE]
    /\ jmp_dest' = [t \in Slot |-> [n \in Exit |-> Unset]]
    /\ jmp_list' = [t \in Slot |-> {}]
    /\ target' = [t \in Slot |-> [n \in Exit |-> None]]
    /\ tb_flush_count' = (tb_flush_count + 1) % CountMod
    /\ Goto(c, "work")
    /\ UNCHANGED <<user, htable, jmp_cache, work_list, work, run, invloc>>

-------------------------------------------------------------------------------
Loop(c) ==
    \/ EnterLoop(c) \/ ExitLoop(c) \/ cpu_handle_interrupt(c)
    \/ LookupCache(c) \/ tb_htable_lookup(c) \/ CacheWrite(c)
    \/ GenStart(c) \/ GenFull(c) \/ tb_link_page(c)
    \/ GenOverflow(c) \/ cpu_exec_longjmp_cleanup(c)
    \/ NoChain(c) \/ AddJumpClaim(c) \/ AddJumpRefused(c) \/ AddJumpPatch(c)
    \/ \E n \in Exit : FollowJump(c, n) \/ ExitTb(c, n)
    \/ ExitOther(c)

do_tb_phys_invalidate(c) ==
    \/ InvalidateStart(c) \/ RemoveFromHtable(c)
    \/ tb_jmp_cache_inval_tb(c) \/ MarkDest(c) \/ RemoveFromList(c)
    \/ UnlinkStart(c) \/ UnlinkReset(c) \/ UnlinkClear(c) \/ UnlinkEnd(c)

do_tb_flush(c) ==
    \/ RequestFlush(c) \/ process_queued_cpu_work(c)
    \/ FlushStart(c) \/ FlushReset(c)

Next == \E c \in Cpu : Loop(c) \/ do_tb_phys_invalidate(c) \/ do_tb_flush(c)

Spec == Init /\ [][Next]_vars

-------------------------------------------------------------------------------
Jump == Slot \X Exit

(* Types.  tb_flush_count is an unsigned that a request carries whole.     *)
TypeOK ==
    /\ user \in BOOLEAN
    /\ alloc \subseteq Slot /\ htable \subseteq Slot
    /\ tbpc \in [Slot -> Pc \cup {None}]
    /\ invalid \in [Slot -> BOOLEAN]
    /\ jmp_dest \in [Slot -> [Exit -> [d : Slot \cup {None}, m : BOOLEAN]]]
    /\ jmp_list \in [Slot -> SUBSET Jump]
    /\ target \in [Slot -> [Exit -> Slot \cup {None}]]
    /\ jmp_cache \in [Cpu -> [Pc -> Slot \cup {None}]]
    /\ tb_flush_count \in 0 .. CountMod - 1
    /\ \A c \in Cpu : /\ Len(work_list[c]) <= 1
                      /\ \A i \in 1 .. Len(work_list[c]) :
                             work_list[c][i] \in 0 .. CountMod - 1
    /\ work \in [Cpu -> 0 .. CountMod - 1]
    /\ loc \in [Cpu -> Loc]
    /\ pc \in [Cpu -> Pc \cup {None}]
    /\ tb \in [Cpu -> Slot \cup {None}]
    /\ last_tb \in [Cpu -> Slot \cup {None}]
    /\ tb_exit \in [Cpu -> Exit]
    /\ inv \in [Cpu -> Slot \cup {None}]
    /\ idx \in [Cpu -> Exit]
    /\ ptr \in [Cpu -> Slot \cup {None}]
    /\ ent \in [Cpu -> Jump \cup {<<>>}]

(* A block that is published, and so has a pc of its own.                  *)
Live(t) == t \in alloc /\ tbpc[t] # None

(* The block a vCPU is about to run or runs is a translation of its guest  *)
(* pc, however it was reached: from a cache entry, from the table, freshly *)
(* translated or over a chain of patched jumps, and whatever was flushed   *)
(* and translated anew meanwhile (the assert at the end of tb_lookup).     *)
RunsItsPc ==
    \A c \in Cpu :
        loc[c] \in {"cache", "chain", "patch", "exec"} =>
            tb[c] # None /\ Live(tb[c]) /\ tbpc[tb[c]] = pc[c]

(* After a flush nothing refers to a block that is no longer there: no     *)
(* cache, table, list, jump or local of a vCPU.                            *)
NoDangling ==
    LET used == htable
                \cup {jmp_cache[c][p] : c \in Cpu, p \in Pc}
                \cup {last_tb[c] : c \in Cpu} \cup {inv[c] : c \in Cpu}
                \cup {ptr[c] : c \in Cpu}
                \cup {jmp_dest[j[1]][j[2]].d : j \in Jump}
                \cup {target[j[1]][j[2]] : j \in Jump}
                \cup UNION {{j[1] : j \in jmp_list[t]} : t \in Slot}
    IN  \A t \in used \ {None} : Live(t)

(* The two assertions of tb_remove_from_jmp_list: once the lock of the     *)
(* destination is taken, the jump is in its list, or the destination was   *)
(* invalidated and has unlinked it, leaving the LSB alone.                 *)
RemovalSound ==
    \A c \in Cpu :
        loc[c] = "remove" /\ ~JmpLocked(ptr[c]) =>
            LET dest == jmp_dest[inv[c]][idx[c]]
            IN  \/ dest.d = ptr[c] /\ <<inv[c], idx[c]>> \in jmp_list[ptr[c]]
                \/ dest = [d |-> None, m |-> TRUE] /\ invalid[ptr[c]]

(* The lists are exact: a listed jump is claimed for the list's block and  *)
(* its native jump goes there, and a jump that is claimed and not marked   *)
(* is listed.  The exceptions are the jump a vCPU is patching and the one  *)
(* it is unlinking.                                                        *)
ListsExact ==
    /\ \A t \in Slot : \A j \in jmp_list[t] :
           /\ jmp_dest[j[1]][j[2]].d = t
           /\ \/ target[j[1]][j[2]] = t
              \/ \E c \in Cpu : loc[c] = "clear" /\ inv[c] = t /\ ent[c] = j
    /\ \A j \in Jump :
           LET dest == jmp_dest[j[1]][j[2]]
           IN  dest.d # None /\ ~dest.m =>
                   \/ j \in jmp_list[dest.d]
                   \/ \E c \in Cpu : /\ loc[c] = "patch" /\ tb[c] = dest.d
                                     /\ <<last_tb[c], tb_exit[c]>> = j

Flushing == \E c \in Cpu : loc[c] = "flush"

(* Once the invalidation of a block has ended, no valid block jumps to it: *)
(* stale code is not entered from code that can still be found.            *)
NoStaleJump ==
    ~Flushing =>
        \A j \in Jump :
            LET t == target[j[1]][j[2]]
            IN  t # None /\ ~invalid[j[1]] /\ invalid[t] =>
                    \E c \in Cpu : inv[c] = t

-------------------------------------------------------------------------------
(* The inductive invariant.  A vCPU has a request only on its way out of   *)
(* the loop.                                                               *)
RequestsFit ==
    /\ work_list \in [Cpu -> {<<>>} \cup {<<k>> : k \in 0 .. CountMod - 1}]
    /\ \A c \in Cpu : loc[c] # "work" => work_list[c] = <<>>

Idle == {"out", "work", "safe", "flush"}

InLoop(c) ==
    \/ loc[c] \in {"loop", "gen", "trans", "cache", "chain", "patch", "exec"}
    \/ loc[c] \in Invalidating /\ tb[c] # None

(* The locals of the loop: a vCPU that comes from an exit of last_tb is    *)
(* where that exit goes; what it translates is not published yet and       *)
(* nobody else's.                                                          *)
LoopFit(c) ==
    /\ InLoop(c) => pc[c] \in Pc
    /\ loc[c] \in Idle \cup {"loop", "gen"} => tb[c] = None
    /\ loc[c] \in Invalidating /\ tb[c] # None =>
          Live(tb[c]) /\ tbpc[tb[c]] = pc[c]
    /\ loc[c] = "trans" =>
          /\ tb[c] \in alloc /\ tbpc[tb[c]] = None
          /\ \A o \in Cpu : loc[o] = "trans" /\ tb[o] = tb[c] => o = c
    /\ last_tb[c] # None =>
          /\ loc[c] \in {"loop", "gen", "trans", "cache", "chain", "patch"}
          /\ Live(last_tb[c])
          /\ pc[c] = Succ(tbpc[last_tb[c]], tb_exit[c])

(* The locals of an invalidation; no block is invalidated by two at once.  *)
InvalidationFit(c) ==
    /\ inv[c] # None <=> loc[c] \in Invalidating
    /\ inv[c] # None =>
          /\ Live(inv[c]) /\ invalid[inv[c]]
          /\ \A o \in Cpu : inv[o] = inv[c] => o = c
    /\ ptr[c] # None <=> loc[c] = "remove"
    /\ ptr[c] # None => Live(ptr[c])
    /\ ent[c] # <<>> <=> loc[c] = "clear"
    /\ loc[c] \notin {"detach", "remove"} => idx[c] = 0

LocalsFit == \A c \in Cpu : LoopFit(c) /\ InvalidationFit(c)

(* What is found in the table or in a cache is published, at its pc.       *)
FoundLive ==
    /\ \A t \in Slot : tbpc[t] # None => t \in alloc
    /\ \A t \in htable : Live(t)
    /\ \A c \in Cpu, p \in Pc :
          jmp_cache[c][p] # None =>
              Live(jmp_cache[c][p]) /\ tbpc[jmp_cache[c][p]] = p

(* A jump that is claimed or patched leads from a published block to the   *)
(* one its exit goes to.                                                   *)
JumpsLead ==
    \A s \in Slot, n \in Exit :
        /\ jmp_dest[s][n].d # None =>
              /\ Live(s) /\ Live(jmp_dest[s][n].d)
              /\ tbpc[jmp_dest[s][n].d] = Succ(tbpc[s], n)
        /\ target[s][n] # None =>
              /\ Live(s) /\ Live(target[s][n])
              /\ tbpc[target[s][n]] = Succ(tbpc[s], n)

(* A native jump of a valid block is in the list of its destination.       *)
JumpsListed ==
    \A s \in Slot, n \in Exit :
        target[s][n] # None /\ ~invalid[s] => <<s, n>> \in jmp_list[target[s][n]]

(* The jump being patched is claimed, for a block that is still valid; the *)
(* one being cleared is still listed and was reset.                        *)
PatchHeld ==
    \A c \in Cpu :
        /\ loc[c] = "patch" =>
              /\ last_tb[c] # None /\ ~invalid[tb[c]]
              /\ jmp_dest[last_tb[c]][tb_exit[c]].d = tb[c]
        /\ loc[c] = "clear" =>
              /\ ent[c] \in jmp_list[inv[c]]
              /\ target[ent[c][1]][ent[c][2]] = None

(* Marks are set once, by the one vCPU that took the block from the table. *)
MarkedOnce ==
    /\ \A t \in htable, n \in Exit : ~jmp_dest[t][n].m
    /\ \A c \in Cpu, n \in Exit :
          (\/ loc[c] \in {"uncache", "detach"} /\ n >= idx[c]
           \/ loc[c] = "remove" /\ n > idx[c]) => ~jmp_dest[inv[c]][n].m

(* The marked jump is in the list of ptr, or about to be, unless ptr was   *)
(* invalidated and has let go of it.                                       *)
RemovalReady ==
    \A c \in Cpu :
        loc[c] = "remove" =>
            LET dest == jmp_dest[inv[c]][idx[c]]
            IN  /\ dest.m
                /\ \/ /\ dest.d = ptr[c]
                      /\ \/ <<inv[c], idx[c]>> \in jmp_list[ptr[c]]
                         \/ \E o \in Cpu :
                               /\ loc[o] = "patch" /\ tb[o] = ptr[c]
                               /\ last_tb[o] = inv[c] /\ tb_exit[o] = idx[c]
                   \/ dest.d = None /\ invalid[ptr[c]]

(* During a flush nothing can be found and nobody is in the loop.          *)
FlushAlone ==
    \A c \in Cpu :
        loc[c] = "flush" =>
            /\ htable = {} /\ \A o \in Cpu, p \in Pc : jmp_cache[o][p] = None
            /\ \A o \in Cpu \ {c} :
                  /\ loc[o] # "flush" /\ ~InLoop(o)
                  /\ user => loc[o] \notin Invalidating

(* Without one, valid blocks are in the table, invalid ones on their way   *)
(* out of it, and those that are through have no jumps left in their list. *)
Published ==
    ~Flushing =>
        \A t \in Slot : Live(t) =>
            /\ t \notin htable => invalid[t]
            /\ t \in htable /\ invalid[t] =>
                  \E c \in Cpu : loc[c] = "unhash" /\ inv[c] = t
            /\ t \notin htable /\ jmp_list[t] # {} =>
                  \E c \in Cpu : inv[c] = t /\ loc[c] # "unhash"

IInv ==
    /\ TypeOK /\ RequestsFit /\ LocalsFit /\ FoundLive
    /\ JumpsLead /\ JumpsListed /\ PatchHeld /\ MarkedOnce /\ RemovalReady
    /\ FlushAlone /\ Published /\ RunsItsPc /\ ListsExact
================================================================================
