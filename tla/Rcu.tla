---------------------------------- MODULE Rcu ----------------------------------
(***************************************************************************)
(* Grace periods of util/rcu.c.  Readers enter and leave critical sections *)
(* with plain stores to their own ctr; synchronize_rcu changes rcu_gp_ctr  *)
(* and waits until it has seen every registered reader outside a section   *)
(* or in one that began after the change.  A host with 64-bit longs counts *)
(* grace periods; one with 32-bit longs flips one bit and therefore waits  *)
(* twice.                                                                  *)
(*                                                                         *)
(* Every access to ctr, waiting, rcu_gp_ctr and the value of rcu_gp_event  *)
(* is a step of its own; the barriers (smp_mb_global against               *)
(* smp_mb_placeholder) make the interleaving of such steps the right       *)
(* semantics.  What is done to the registry under rcu_registry_lock is one *)
(* step where no other thread can see inside.                              *)
(***************************************************************************)
EXTENDS Integers, FiniteSets

CONSTANTS Readers,   \* threads that may register
          Writers,   \* threads that call synchronize_rcu
          None,      \* "nobody"
          MaxCtr,    \* bound on rcu_gp_ctr when it counts
          UIntMod,   \* values of the unsigned in which rcu_read_lock copies it
          MaxDepth   \* bound on the nesting of sections

ASSUME RcuAssumption ==
    /\ IsFiniteSet(Readers) /\ IsFiniteSet(Writers)
    /\ None \notin Readers \cup Writers
    /\ MaxCtr \in Nat /\ MaxDepth \in Nat \ {0}
    /\ UIntMod \in Nat /\ UIntMod >= 4 /\ UIntMod % 2 = 0

VARIABLES
    wide,                  \* sizeof(rcu_gp_ctr) >= 8
    rcu_gp_ctr,
    ctr, waiting, depth,   \* struct rcu_reader_data of every reader
    rpc, seen,             \* position of a reader, its local ctr
    registry, qsreaders,
    ev,                    \* rcu_gp_event.value
    sync_lock, reg_lock,   \* holders of rcu_sync_lock and rcu_registry_lock
    wpc,                   \* position of a writer
    last,                  \* the current wait_for_readers is the last one
    todo, moved,           \* the loops of wait_for_readers
    owed                   \* readers a writer found in a section and that have
                           \* not left it since

rdata == <<ctr, waiting, depth, rpc, seen>>
wdata == <<sync_lock, reg_lock, wpc, last, todo, moved>>
vars == <<wide, rcu_gp_ctr, rdata, registry, qsreaders, ev, wdata, owed>>

EV_SET == 0
EV_FREE == 1
EV_BUSY == -1

RPC == {"off", "out", "lock_store", "in", "unlock_read", "unlock_clear",
        "set_read", "set_xchg", "set_wake"}
WPC == {"idle", "sync", "registry", "reset", "mark", "check", "wait_load",
        "wait_cas", "wait_futex", "asleep", "relock"}

GotoR(r, l) == rpc' = [rpc EXCEPT ![r] = l]
GotoW(w, l) == wpc' = [wpc EXCEPT ![w] = l]

Init ==
    /\ wide \in BOOLEAN
    /\ rcu_gp_ctr = 1
    /\ ctr = [r \in Readers |-> 0]
    /\ waiting = [r \in Readers |-> FALSE]
    /\ depth = [r \in Readers |-> 0]
    /\ rpc = [r \in Readers |-> "off"]
    /\ seen = [r \in Readers |-> 0]
    /\ registry = {} /\ qsreaders = {}
    /\ ev = EV_SET
    /\ sync_lock = None /\ reg_lock = None
    /\ wpc = [w \in Writers |-> "idle"]
    /\ last = FALSE /\ todo = {} /\ moved = None
    /\ owed = [w \in Writers |-> {}]

-------------------------------------------------------------------------------
(* Registration, under rcu_registry_lock.  The thread may be in the list   *)
(* of a synchronize_rcu that sleeps.                                       *)
rcu_register_thread(r) ==
    /\ rpc[r] = "off" /\ reg_lock = None
    /\ registry' = registry \cup {r}
    /\ GotoR(r, "out")
    /\ UNCHANGED <<wide, rcu_gp_ctr, ctr, waiting, depth, seen, qsreaders, ev,
                   wdata, owed>>

(* Mutated form: the thread is looked for in registry only.                *)
rcu_unregister_threadOneList(r) ==
    /\ rpc[r] = "out" /\ reg_lock = None
    /\ registry' = registry \ {r}
    /\ GotoR(r, "off")
    /\ UNCHANGED <<wide, rcu_gp_ctr, ctr, waiting, depth, seen, qsreaders, ev,
                   wdata, owed>>

rcu_unregister_thread(r) ==
    /\ rpc[r] = "out" /\ reg_lock = None
    /\ registry' = registry \ {r} /\ qsreaders' = qsreaders \ {r}
    /\ GotoR(r, "off")
    /\ UNCHANGED <<wide, rcu_gp_ctr, ctr, waiting, depth, seen, ev, wdata, owed>>

(* The child of a fork: rcu_init_lock took both locks, rcu_init_child      *)
(* empties the registry and registers the only thread that is left.        *)
ForkChild(r) ==
    /\ rpc[r] = "out" /\ sync_lock = None /\ reg_lock = None
    /\ registry' = {r} /\ qsreaders' = {}
    /\ ev' = EV_SET
    /\ rpc' = [q \in Readers |-> IF q = r THEN "out" ELSE "off"]
    /\ ctr' = [q \in Readers |-> 0] /\ depth' = [q \in Readers |-> 0]
    /\ seen' = [q \in Readers |-> 0]
    /\ waiting' = [q \in Readers |-> q = r /\ waiting[q]]
    /\ wpc' = [w \in Writers |-> "idle"]
    /\ owed' = [w \in Writers |-> {}]
    /\ UNCHANGED <<wide, rcu_gp_ctr, sync_lock, reg_lock, last, todo, moved>>

-------------------------------------------------------------------------------
(* rcu_read_lock: nested sections only count; the outermost one copies     *)
(* rcu_gp_ctr through a local unsigned.                                    *)
rcu_read_lock(r) ==
    /\ rpc[r] = "out"
    /\ depth' = [depth EXCEPT ![r] = 1]
    /\ seen' = [seen EXCEPT ![r] = rcu_gp_ctr % UIntMod]
    /\ GotoR(r, "lock_store")
    /\ UNCHANGED <<wide, rcu_gp_ctr, ctr, waiting, registry, qsreaders, ev, wdata,
                   owed>>

LockStore(r) ==
    /\ rpc[r] = "lock_store"
    /\ ctr' = [ctr EXCEPT ![r] = seen[r]]
    /\ GotoR(r, "in")
    /\ UNCHANGED <<wide, rcu_gp_ctr, waiting, depth, seen, registry, qsreaders,
                   ev, wdata, owed>>

NestedLock(r) ==
    /\ rpc[r] = "in" /\ depth[r] < MaxDepth
    /\ depth' = [depth EXCEPT ![r] = @ + 1]
    /\ UNCHANGED <<wide, rcu_gp_ctr, ctr, waiting, rpc, seen, registry, qsreaders,
                   ev, wdata, owed>>

(* Mutated form: rcu_read_unlock of the outermost section returns early.   *)
NestedUnlockOuter(r) ==
    /\ rpc[r] = "in"
    /\ depth' = [depth EXCEPT ![r] = @ - 1]
    /\ UNCHANGED <<wide, rcu_gp_ctr, ctr, waiting, rpc, seen, registry, qsreaders,
                   ev, wdata, owed>>

NestedUnlock(r) ==
    /\ rpc[r] = "in" /\ depth[r] > 1
    /\ depth' = [depth EXCEPT ![r] = @ - 1]
    /\ UNCHANGED <<wide, rcu_gp_ctr, ctr, waiting, rpc, seen, registry, qsreaders,
                   ev, wdata, owed>>

(* rcu_read_unlock of the outermost section: clear ctr, then look at       *)
(* waiting, and set rcu_gp_event if a writer waits.                        *)
rcu_read_unlock(r) ==
    /\ rpc[r] = "in" /\ depth[r] = 1
    /\ depth' = [depth EXCEPT ![r] = 0]
    /\ ctr' = [ctr EXCEPT ![r] = 0]
    /\ owed' = [w \in Writers |-> owed[w] \ {r}]
    /\ GotoR(r, "unlock_read")
    /\ UNCHANGED <<wide, rcu_gp_ctr, waiting, seen, registry, qsreaders, ev,
                   wdata>>

UnlockRead(r) ==
    /\ rpc[r] = "unlock_read"
    /\ GotoR(r, IF waiting[r] THEN "unlock_clear" ELSE "out")
    /\ UNCHANGED <<wide, rcu_gp_ctr, ctr, waiting, depth, seen, registry,
                   qsreaders, ev, wdata, owed>>

UnlockClear(r) ==
    /\ rpc[r] = "unlock_clear"
    /\ waiting' = [waiting EXCEPT ![r] = FALSE]
    /\ GotoR(r, "set_read")
    /\ UNCHANGED <<wide, rcu_gp_ctr, ctr, depth, seen, registry, qsreaders, ev,
                   wdata, owed>>

(* qemu_event_set(&rcu_gp_event).                                          *)
SetRead(r) ==
    /\ rpc[r] = "set_read"
    /\ GotoR(r, IF ev = EV_SET THEN "out" ELSE "set_xchg")
    /\ UNCHANGED <<wide, rcu_gp_ctr, ctr, waiting, depth, seen, registry,
                   qsreaders, ev, wdata, owed>>

(* Mutated form: sleepers are woken when the event was free, not busy.     *)
SetXchgFree(r) ==
    /\ rpc[r] = "set_xchg"
    /\ ev' = EV_SET
    /\ GotoR(r, IF ev = EV_FREE THEN "set_wake" ELSE "out")
    /\ UNCHANGED <<wide, rcu_gp_ctr, ctr, waiting, depth, seen, registry,
                   qsreaders, wdata, owed>>

SetXchg(r) ==
    /\ rpc[r] = "set_xchg"
    /\ ev' = EV_SET
    /\ GotoR(r, IF ev = EV_BUSY THEN "set_wake" ELSE "out")
    /\ UNCHANGED <<wide, rcu_gp_ctr, ctr, waiting, depth, seen, registry,
                   qsreaders, wdata, owed>>

SetWake(r) ==
    /\ rpc[r] = "set_wake"
    /\ wpc' = [w \in Writers |-> IF wpc[w] = "asleep" THEN "relock" ELSE wpc[w]]
    /\ GotoR(r, "out")
    /\ UNCHANGED <<wide, rcu_gp_ctr, ctr, waiting, depth, seen, registry,
                   qsreaders, ev, sync_lock, reg_lock, last, todo, moved, owed>>

-------------------------------------------------------------------------------
(* synchronize_rcu.  The call is bounded so that a counter does not pass   *)
(* MaxCtr.                                                                 *)
InSection == {r \in Readers : rpc[r] = "in"}
Started == {w \in Writers : wpc[w] # "idle"}

synchronize_rcu(w) ==
    /\ wpc[w] = "idle"
    /\ wide => rcu_gp_ctr + 2 * (Cardinality(Started) + 1) <= MaxCtr
    /\ owed' = [owed EXCEPT ![w] = InSection]
    /\ GotoW(w, "sync")
    /\ UNCHANGED <<wide, rcu_gp_ctr, rdata, registry, qsreaders, ev, sync_lock,
                   reg_lock, last, todo, moved>>

SyncLock(w) ==
    /\ wpc[w] = "sync" /\ sync_lock = None
    /\ sync_lock' = w
    /\ GotoW(w, "registry")
    /\ UNCHANGED <<wide, rcu_gp_ctr, rdata, registry, qsreaders, ev, reg_lock,
                   last, todo, moved, owed>>

(* RCU_GP_CTR is bit 1.                                                    *)
Flip(c) == IF c = 1 THEN 3 ELSE 1

NextCtr == IF wide THEN rcu_gp_ctr + 2 ELSE Flip(rcu_gp_ctr)

(* Take rcu_registry_lock; nothing to wait for if nobody is registered.    *)
(* Mutated form: one phase is taken to be enough for 32-bit longs as well. *)
RegistryLockOnePhase(w) ==
    /\ wpc[w] = "registry" /\ reg_lock = None
    /\ IF registry = {}
       THEN /\ sync_lock' = None
            /\ GotoW(w, "idle")
            /\ UNCHANGED <<rcu_gp_ctr, reg_lock, last>>
       ELSE /\ rcu_gp_ctr' = NextCtr
            /\ reg_lock' = w
            /\ last' = TRUE
            /\ GotoW(w, "reset")
            /\ UNCHANGED sync_lock
    /\ UNCHANGED <<wide, rdata, registry, qsreaders, ev, todo, moved, owed>>

RegistryLock(w) ==
    /\ wpc[w] = "registry" /\ reg_lock = None
    /\ IF registry = {}
       THEN /\ sync_lock' = None
            /\ GotoW(w, "idle")
            /\ UNCHANGED <<rcu_gp_ctr, reg_lock, last>>
       ELSE /\ rcu_gp_ctr' = NextCtr
            /\ reg_lock' = w
            /\ last' = wide
            /\ GotoW(w, "reset")
            /\ UNCHANGED sync_lock
    /\ UNCHANGED <<wide, rdata, registry, qsreaders, ev, todo, moved, owed>>

(* wait_for_readers: qemu_event_reset, then mark every reader, then look   *)
(* at every reader.                                                        *)
EventReset(w) ==
    /\ wpc[w] = "reset"
    /\ ev' = IF ev = EV_SET THEN EV_FREE ELSE ev
    /\ todo' = registry
    /\ GotoW(w, "mark")
    /\ UNCHANGED <<wide, rcu_gp_ctr, rdata, registry, qsreaders, sync_lock,
                   reg_lock, last, moved, owed>>

Mark(w, r) ==
    /\ wpc[w] = "mark" /\ r \in todo
    /\ waiting' = [waiting EXCEPT ![r] = TRUE]
    /\ todo' = todo \ {r}
    /\ UNCHANGED <<wide, rcu_gp_ctr, ctr, depth, rpc, seen, registry, qsreaders,
                   ev, sync_lock, reg_lock, wpc, last, moved, owed>>

MarkDone(w) ==
    /\ wpc[w] = "mark" /\ todo = {}
    /\ todo' = registry
    /\ GotoW(w, "check")
    /\ UNCHANGED <<wide, rcu_gp_ctr, rdata, registry, qsreaders, ev, sync_lock,
                   reg_lock, last, moved, owed>>

rcu_gp_ongoing(r) == ctr[r] # 0 /\ ctr[r] # rcu_gp_ctr

Check(w, r) ==
    /\ wpc[w] = "check" /\ moved = None /\ r \in todo
    /\ todo' = todo \ {r}
    /\ IF rcu_gp_ongoing(r)
       THEN UNCHANGED <<registry, qsreaders, moved>>
       ELSE /\ registry' = registry \ {r} /\ qsreaders' = qsreaders \cup {r}
            /\ moved' = r
    /\ UNCHANGED <<wide, rcu_gp_ctr, rdata, ev, sync_lock, reg_lock, wpc, last,
                   owed>>

(* The reader that was moved need not set the event any more.              *)
Unmark(w) ==
    /\ wpc[w] = "check" /\ moved # None
    /\ waiting' = [waiting EXCEPT ![moved] = FALSE]
    /\ moved' = None
    /\ UNCHANGED <<wide, rcu_gp_ctr, ctr, depth, rpc, seen, registry, qsreaders,
                   ev, sync_lock, reg_lock, wpc, last, todo, owed>>

(* Everybody has been looked at: sleep if some are left, otherwise put the *)
(* list back and go on to the second phase, or return.                     *)
CheckSleep(w) ==
    /\ wpc[w] = "check" /\ moved = None /\ todo = {} /\ registry # {}
    /\ reg_lock' = None
    /\ GotoW(w, "wait_load")
    /\ UNCHANGED <<wide, rcu_gp_ctr, rdata, registry, qsreaders, ev, sync_lock,
                   last, todo, moved, owed>>

CheckDone(w) ==
    /\ wpc[w] = "check" /\ moved = None /\ todo = {} /\ registry = {}
    /\ registry' = qsreaders /\ qsreaders' = {}
    /\ IF last
       THEN /\ sync_lock' = None /\ reg_lock' = None
            /\ GotoW(w, "idle")
            /\ UNCHANGED <<rcu_gp_ctr, last>>
       ELSE /\ rcu_gp_ctr' = NextCtr
            /\ last' = TRUE
            /\ GotoW(w, "reset")
            /\ UNCHANGED <<sync_lock, reg_lock>>
    /\ UNCHANGED <<wide, rdata, ev, todo, moved, owed>>

(* qemu_event_wait(&rcu_gp_event), then rcu_registry_lock again.           *)
WaitLoad(w) ==
    /\ wpc[w] = "wait_load"
    /\ GotoW(w, CASE ev = EV_SET  -> "relock"
                  [] ev = EV_FREE -> "wait_cas"
                  [] ev = EV_BUSY -> "wait_futex")
    /\ UNCHANGED <<wide, rcu_gp_ctr, rdata, registry, qsreaders, ev, sync_lock,
                   reg_lock, last, todo, moved, owed>>

WaitCas(w) ==
    /\ wpc[w] = "wait_cas"
    /\ ev' = IF ev = EV_FREE THEN EV_BUSY ELSE ev
    /\ GotoW(w, IF ev = EV_SET THEN "relock" ELSE "wait_futex")
    /\ UNCHANGED <<wide, rcu_gp_ctr, rdata, registry, qsreaders, sync_lock,
                   reg_lock, last, todo, moved, owed>>

WaitFutex(w) ==
    /\ wpc[w] = "wait_futex"
    /\ GotoW(w, IF ev = EV_BUSY THEN "asleep" ELSE "relock")
    /\ UNCHANGED <<wide, rcu_gp_ctr, rdata, registry, qsreaders, ev, sync_lock,
                   reg_lock, last, todo, moved, owed>>

Relock(w) ==
    /\ wpc[w] = "relock" /\ reg_lock = None
    /\ reg_lock' = w
    /\ GotoW(w, "reset")
    /\ UNCHANGED <<wide, rcu_gp_ctr, rdata, registry, qsreaders, ev, sync_lock,
                   last, todo, moved, owed>>

-------------------------------------------------------------------------------
ReaderStep(r) ==
    \/ LockStore(r) \/ UnlockRead(r) \/ UnlockClear(r)
    \/ SetRead(r) \/ SetXchg(r) \/ SetWake(r)

WriterStep(w) ==
    \/ SyncLock(w) \/ RegistryLock(w) \/ EventReset(w)
    \/ (\E r \in Readers : Mark(w, r) \/ Check(w, r))
    \/ MarkDone(w) \/ Unmark(w) \/ CheckSleep(w) \/ CheckDone(w)
    \/ WaitLoad(w) \/ WaitCas(w) \/ WaitFutex(w) \/ Relock(w)

Next ==
    \/ \E r \in Readers :
          \/ rcu_register_thread(r) \/ rcu_unregister_thread(r) \/ ForkChild(r)
          \/ rcu_read_lock(r) \/ NestedLock(r) \/ NestedUnlock(r)
          \/ rcu_read_unlock(r) \/ ReaderStep(r)
    \/ \E w \in Writers : synchronize_rcu(w) \/ WriterStep(w)

Spec == Init /\ [][Next]_vars

(* Threads keep executing their own code and critical sections end; they   *)
(* may be entered again at once, for ever.                                 *)
Fairness ==
    /\ \A r \in Readers : WF_vars(ReaderStep(r)) /\ SF_vars(rcu_read_unlock(r))
                          /\ WF_vars(NestedUnlock(r))
    /\ \A w \in Writers : WF_vars(WriterStep(w))

FairSpec == Spec /\ Fairness

-------------------------------------------------------------------------------
(* Type invariant.                                                         *)
TypeOK ==
    /\ wide \in BOOLEAN
    /\ rcu_gp_ctr \in Nat \ {0}
    /\ ctr \in [Readers -> Nat] /\ seen \in [Readers -> Nat]
    /\ waiting \in [Readers -> BOOLEAN]
    /\ depth \in [Readers -> 0..MaxDepth]
    /\ rpc \in [Readers -> RPC]
    /\ registry \in SUBSET Readers /\ qsreaders \in SUBSET Readers
    /\ ev \in {EV_SET, EV_FREE, EV_BUSY}
    /\ sync_lock \in Writers \cup {None} /\ reg_lock \in Writers \cup {None}
    /\ wpc \in [Writers -> WPC]
    /\ last \in BOOLEAN
    /\ todo \in SUBSET Readers /\ moved \in Readers \cup {None}
    /\ owed \in [Writers -> SUBSET Readers]

(* synchronize_rcu "blocks until all pre-existing RCU read-side critical   *)
(* sections on all threads have completed": when it has returned, no       *)
(* reader is left in a section it was in when synchronize_rcu was called,  *)
(* although readers copy rcu_gp_ctr at one moment and publish it at        *)
(* another, any number of grace periods later.                             *)
GracePeriod == \A w \in Writers : wpc[w] = "idle" => owed[w] = {}

(* "The node is part of one list when rcu_registry_lock is released":      *)
(* every registered reader is in exactly one of the two lists, so none is  *)
(* ever forgotten by a grace period, whenever it comes or goes.            *)
OneList ==
    /\ registry \cap qsreaders = {}
    /\ registry \cup qsreaders = {r \in Readers : rpc[r] # "off"}

-------------------------------------------------------------------------------
(* The inductive invariant behind the safety properties, in parts.         *)

(* Positions of a writer after its first change of rcu_gp_ctr.             *)
Waiting == {"reset", "mark", "check", "wait_load", "wait_cas", "wait_futex",
            "asleep", "relock"}

(* Who holds the locks; the loops run under rcu_registry_lock.             *)
LocksAgree ==
    \A w \in Writers :
        /\ sync_lock = w <=> wpc[w] \in Waiting \cup {"registry"}
        /\ reg_lock = w <=> wpc[w] \in {"reset", "mark", "check"}
        /\ wpc[w] \in {"mark", "check"} => todo \subseteq registry

(* What a reader in a section has published is odd, hence not 0, and was   *)
(* the (truncated) counter at some time.                                   *)
CountersAgree ==
    /\ rcu_gp_ctr % 2 = 1
    /\ ~wide => rcu_gp_ctr \in {1, 3}
    /\ \A r \in Readers :
          /\ seen[r] <= IF wide THEN rcu_gp_ctr ELSE 3
          /\ rpc[r] \in {"lock_store", "in"} => seen[r] % 2 = 1
          /\ rpc[r] = "in" => ctr[r] = seen[r]

(* The readers a writer owes a wait are in their sections.                 *)
OwedInside == \A w \in Writers : owed[w] \subseteq InSection

(* Readers are set aside only while a writer waits.                        *)
AsideWhileWaiting ==
    (\A w \in Writers : wpc[w] \notin Waiting) => qsreaders = {}

(* The heart of the argument.  In the last phase a reader that is owed a   *)
(* wait has not been set aside and cannot be: what it published differs    *)
(* from rcu_gp_ctr.  In the first phase (32-bit longs) it may be set aside *)
(* if it published the value that rcu_gp_ctr has just become, and then the *)
(* second change makes it differ.                                          *)
OwedWaitedFor ==
    \A w \in Writers :
        wpc[w] \in Waiting =>
            /\ last => \A r \in owed[w] : r \in registry /\ ctr[r] # rcu_gp_ctr
            /\ ~last => /\ ~wide
                        /\ \A r \in owed[w] :
                              r \in qsreaders => ctr[r] = rcu_gp_ctr

IInv ==
    /\ TypeOK /\ OneList /\ LocksAgree /\ CountersAgree /\ OwedInside
    /\ AsideWhileWaiting /\ OwedWaitedFor /\ GracePeriod

-------------------------------------------------------------------------------
(* A grace period that has begun ends, although readers may re-enter       *)
(* sections faster than the writer looks and although the event is reset   *)
(* and set from different threads: no wakeup is lost.                      *)
GracePeriodEnds == sync_lock # None ~> sync_lock = None
===============================================================================
