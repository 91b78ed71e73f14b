----------------------------- MODULE CpuExclusive -----------------------------
(***************************************************************************)
(* The exclusive-section protocol of cpu-common.c, which stops every vCPU  *)
(* thread so that one of them may flush translations, emulate an atomic    *)
(* instruction (cpu_exec_step_atomic) or fork.                             *)
(*                                                                         *)
(* Each thread is the thread of its own vCPU (current_cpu); pc says where  *)
(* in the protocol it stands.  cpu->running is written without the lock    *)
(* and pending_cpus is read without it, so each such access is a step of   *)
(* its own; what a thread does under qemu_cpu_list_lock is one step except *)
(* the CPU_FOREACH loop of start_exclusive, which reads the running flags  *)
(* that other threads write meanwhile and therefore takes one step per     *)
(* vCPU.  The smp_mb() barriers make this interleaving semantics the right *)
(* one.                                                                    *)
(*                                                                         *)
(* A thread in cond_wait has pc "start_wait" or "excl_wait" (waiting for   *)
(* exclusive_resume) or "excl_drain" (waiting for exclusive_cond).         *)
(***************************************************************************)
EXTENDS Naturals, FiniteSets

CONSTANTS Cpus,      \* the vCPUs that may ever exist
          NoCpu,     \* "nobody holds qemu_cpu_list_lock"
          MaxNest    \* bound on exclusive_context_count

ASSUME CpusAssumption == IsFiniteSet(Cpus) /\ NoCpu \notin Cpus
ASSUME NestAssumption == MaxNest \in Nat \ {0}

VARIABLES
    pc,                       \* position of every thread
    running,                  \* cpu->running
    has_waiter,               \* cpu->has_waiter
    exclusive_context_count,  \* cpu->exclusive_context_count
    pending_cpus,             \* the static counter
    lock,                     \* holder of qemu_cpu_list_lock
    scan,                     \* vCPUs the CPU_FOREACH loop has still to visit
    running_cpus              \* the local count of start_exclusive

vars == <<pc, running, has_waiter, exclusive_context_count, pending_cpus,
          lock, scan, running_cpus>>

loop == <<scan, running_cpus>>

PC == {"off",                                                \* not in cpus_queue
       "idle",                                               \* in cpu_loop
       "start_read", "start_lock", "start_wait", "start_idle", \* cpu_exec_start
       "guest",                                              \* inside cpu_exec
       "end_read", "end_lock",                               \* cpu_exec_end
       "excl_lock", "excl_wait", "excl_scan",                \* start_exclusive
       "excl_drain", "excl_drained",
       "exclusive", "atomic",                                \* exclusive section
       "resume_lock"}                                        \* end_exclusive

Goto(c, l) == pc' = [pc EXCEPT ![c] = l]

(* Broadcast on exclusive_resume: every sleeper is woken and has to take   *)
(* the lock again before it re-evaluates its while condition.              *)
Woken(p) == CASE p = "start_wait" -> "start_idle"
              [] p = "excl_wait"  -> "excl_lock"
              [] OTHER            -> p

Init ==
    /\ pc \in {f \in [Cpus -> {"off", "idle"}] : \E c \in Cpus : f[c] = "idle"}
    /\ running = [c \in Cpus |-> FALSE]
    /\ has_waiter = [c \in Cpus |-> FALSE]
    /\ exclusive_context_count = [c \in Cpus |-> 0]
    /\ pending_cpus = 0
    /\ lock = NoCpu
    /\ scan = {}
    /\ running_cpus = 0

-------------------------------------------------------------------------------
(* The vCPU list.  A CPUState enters the list when its thread is created   *)
(* and leaves it when the thread exits; the thread is outside cpu_exec.    *)
cpu_list_add(c) ==
    /\ pc[c] = "off" /\ lock = NoCpu
    /\ Goto(c, "idle")
    /\ UNCHANGED <<running, has_waiter, exclusive_context_count, pending_cpus,
                   lock, loop>>

cpu_list_remove(c) ==
    /\ pc[c] = "idle" /\ lock = NoCpu
    /\ Goto(c, "off")
    /\ UNCHANGED <<running, has_waiter, exclusive_context_count, pending_cpus,
                   lock, loop>>

-------------------------------------------------------------------------------
(* cpu_exec_start: announce, then look for a pending exclusive section.    *)
cpu_exec_start(c) ==
    /\ pc[c] = "idle"
    /\ running' = [running EXCEPT ![c] = TRUE]
    /\ Goto(c, "start_read")
    /\ UNCHANGED <<has_waiter, exclusive_context_count, pending_cpus, lock,
                   loop>>

StartRead(c) ==
    /\ pc[c] = "start_read"
    /\ Goto(c, IF pending_cpus = 0 THEN "guest" ELSE "start_lock")
    /\ UNCHANGED <<running, has_waiter, exclusive_context_count, pending_cpus,
                   lock, loop>>

(* exclusive_idle as cpu_exec_start calls it, with running already false:  *)
(* sleep while pending_cpus, otherwise set running again under the lock.   *)
StartExclusiveIdle(c) ==
    IF pending_cpus # 0
    THEN Goto(c, "start_wait") /\ running' = [running EXCEPT ![c] = FALSE]
    ELSE Goto(c, "guest") /\ running' = [running EXCEPT ![c] = TRUE]

(* Mutated form: the has_waiter test of cpu_exec_start is dropped.         *)
StartLockUntested(c) ==
    /\ pc[c] = "start_lock" /\ lock = NoCpu
    /\ StartExclusiveIdle(c)
    /\ UNCHANGED <<has_waiter, exclusive_context_count, pending_cpus, lock,
                   loop>>

StartLock(c) ==
    /\ pc[c] = "start_lock" /\ lock = NoCpu
    /\ IF has_waiter[c]
       THEN Goto(c, "guest") /\ UNCHANGED running
       ELSE StartExclusiveIdle(c)
    /\ UNCHANGED <<has_waiter, exclusive_context_count, pending_cpus, lock,
                   loop>>

StartIdle(c) ==
    /\ pc[c] = "start_idle" /\ lock = NoCpu
    /\ StartExclusiveIdle(c)
    /\ UNCHANGED <<has_waiter, exclusive_context_count, pending_cpus, lock,
                   loop>>

-------------------------------------------------------------------------------
(* cpu_exec_end: retract the announcement, then release a waiter that      *)
(* counted on us.                                                          *)
cpu_exec_end(c) ==
    /\ pc[c] = "guest"
    /\ running' = [running EXCEPT ![c] = FALSE]
    /\ Goto(c, "end_read")
    /\ UNCHANGED <<has_waiter, exclusive_context_count, pending_cpus, lock,
                   loop>>

EndRead(c) ==
    /\ pc[c] = "end_read"
    /\ Goto(c, IF pending_cpus = 0 THEN "idle" ELSE "end_lock")
    /\ UNCHANGED <<running, has_waiter, exclusive_context_count, pending_cpus,
                   lock, loop>>

(* Signal on exclusive_cond wakes the one thread that may be waiting.      *)
SignalDrained(c) ==
    pc' = [d \in Cpus |-> IF d = c THEN "idle"
                          ELSE IF pc[d] = "excl_drain" THEN "excl_drained"
                          ELSE pc[d]]

(* Mutated form: pending_cpus is decremented without testing has_waiter.   *)
EndLockUntested(c) ==
    /\ pc[c] = "end_lock" /\ lock = NoCpu
    /\ has_waiter' = [has_waiter EXCEPT ![c] = FALSE]
    /\ pending_cpus' = pending_cpus - 1
    /\ IF pending_cpus' = 1 THEN SignalDrained(c) ELSE Goto(c, "idle")
    /\ UNCHANGED <<running, exclusive_context_count, lock, loop>>

(* Mutated form: has_waiter is not reset.                                  *)
EndLockNoReset(c) ==
    /\ pc[c] = "end_lock" /\ lock = NoCpu
    /\ IF has_waiter[c]
       THEN /\ pending_cpus' = pending_cpus - 1
            /\ IF pending_cpus' = 1 THEN SignalDrained(c) ELSE Goto(c, "idle")
       ELSE Goto(c, "idle") /\ UNCHANGED pending_cpus
    /\ UNCHANGED <<running, has_waiter, exclusive_context_count, lock, loop>>

(* Mutated form: exclusive_cond is signalled one decrement too late.       *)
EndLockLateSignal(c) ==
    /\ pc[c] = "end_lock" /\ lock = NoCpu
    /\ IF has_waiter[c]
       THEN /\ has_waiter' = [has_waiter EXCEPT ![c] = FALSE]
            /\ pending_cpus' = pending_cpus - 1
            /\ IF pending_cpus' = 0 THEN SignalDrained(c) ELSE Goto(c, "idle")
       ELSE Goto(c, "idle") /\ UNCHANGED <<has_waiter, pending_cpus>>
    /\ UNCHANGED <<running, exclusive_context_count, lock, loop>>

EndLock(c) ==
    /\ pc[c] = "end_lock" /\ lock = NoCpu
    /\ IF has_waiter[c]
       THEN /\ has_waiter' = [has_waiter EXCEPT ![c] = FALSE]
            /\ pending_cpus' = pending_cpus - 1
            /\ IF pending_cpus' = 1 THEN SignalDrained(c) ELSE Goto(c, "idle")
       ELSE Goto(c, "idle") /\ UNCHANGED <<has_waiter, pending_cpus>>
    /\ UNCHANGED <<running, exclusive_context_count, lock, loop>>

-------------------------------------------------------------------------------
(* start_exclusive.  A thread that already is in an exclusive section only *)
(* counts the nesting.                                                     *)
NestExclusive(c) ==
    /\ pc[c] = "exclusive" /\ exclusive_context_count[c] < MaxNest
    /\ exclusive_context_count' = [exclusive_context_count EXCEPT ![c] = @ + 1]
    /\ UNCHANGED <<pc, running, has_waiter, pending_cpus, lock, loop>>

start_exclusive(c) ==
    /\ pc[c] = "idle"
    /\ Goto(c, "excl_lock")
    /\ UNCHANGED <<running, has_waiter, exclusive_context_count, pending_cpus,
                   lock, loop>>

(* Mutated form: pending_cpus stays 0 while the running flags are read.    *)
ExclLockUnannounced(c) ==
    /\ pc[c] = "excl_lock" /\ lock = NoCpu
    /\ IF pending_cpus # 0
       THEN Goto(c, "excl_wait") /\ UNCHANGED <<lock, loop>>
       ELSE /\ lock' = c
            /\ scan' = {d \in Cpus : pc[d] # "off"}
            /\ running_cpus' = 0
            /\ Goto(c, "excl_scan")
    /\ UNCHANGED <<running, has_waiter, exclusive_context_count, pending_cpus>>

(* exclusive_idle, then claim: pending_cpus is set to 1 and the lock kept  *)
(* while the running flags are read.                                       *)
ExclLock(c) ==
    /\ pc[c] = "excl_lock" /\ lock = NoCpu
    /\ IF pending_cpus # 0
       THEN Goto(c, "excl_wait") /\ UNCHANGED <<pending_cpus, lock, loop>>
       ELSE /\ pending_cpus' = 1
            /\ lock' = c
            /\ scan' = {d \in Cpus : pc[d] # "off"}
            /\ running_cpus' = 0
            /\ Goto(c, "excl_scan")
    /\ UNCHANGED <<running, has_waiter, exclusive_context_count>>

(* One iteration of CPU_FOREACH: a vCPU that is running is counted and     *)
(* kicked.                                                                 *)
ExclVisit(c, d) ==
    /\ pc[c] = "excl_scan" /\ d \in scan
    /\ scan' = scan \ {d}
    /\ has_waiter' = [has_waiter EXCEPT ![d] = @ \/ running[d]]
    /\ running_cpus' = running_cpus + (IF running[d] THEN 1 ELSE 0)
    /\ UNCHANGED <<pc, running, exclusive_context_count, pending_cpus, lock>>

(* The section is entered at once when nobody was running; otherwise the   *)
(* thread waits for exclusive_cond.                                        *)
EnterExclusive(c) ==
    /\ Goto(c, "exclusive")
    /\ exclusive_context_count' = [exclusive_context_count EXCEPT ![c] = 1]

ExclPublish(c) ==
    /\ pc[c] = "excl_scan" /\ scan = {}
    /\ pending_cpus' = running_cpus + 1
    /\ lock' = NoCpu
    /\ IF pending_cpus' > 1
       THEN Goto(c, "excl_drain") /\ UNCHANGED exclusive_context_count
       ELSE EnterExclusive(c)
    /\ UNCHANGED <<running, has_waiter, loop>>

(* Mutated form: the wait for exclusive_cond is an if, not a while.        *)
ExclDrainedOnce(c) ==
    /\ pc[c] = "excl_drained" /\ lock = NoCpu
    /\ EnterExclusive(c)
    /\ UNCHANGED <<running, has_waiter, pending_cpus, lock, loop>>

ExclDrained(c) ==
    /\ pc[c] = "excl_drained" /\ lock = NoCpu
    /\ IF pending_cpus > 1
       THEN Goto(c, "excl_drain") /\ UNCHANGED exclusive_context_count
       ELSE EnterExclusive(c)
    /\ UNCHANGED <<running, has_waiter, pending_cpus, lock, loop>>

-------------------------------------------------------------------------------
(* cpu_exec_step_atomic runs one guest instruction inside the section,     *)
(* with cpu->running set.                                                  *)
StepAtomic(c) ==
    /\ pc[c] = "exclusive"
    /\ running' = [running EXCEPT ![c] = TRUE]
    /\ Goto(c, "atomic")
    /\ UNCHANGED <<has_waiter, exclusive_context_count, pending_cpus, lock,
                   loop>>

StepAtomicDone(c) ==
    /\ pc[c] = "atomic"
    /\ running' = [running EXCEPT ![c] = FALSE]
    /\ Goto(c, "exclusive")
    /\ UNCHANGED <<has_waiter, exclusive_context_count, pending_cpus, lock,
                   loop>>

(* end_exclusive: leave one nesting level; the last one goes on to take    *)
(* the lock, clear pending_cpus and wake every sleeper.                    *)
end_exclusive(c) ==
    /\ pc[c] = "exclusive"
    /\ exclusive_context_count' = [exclusive_context_count EXCEPT ![c] = @ - 1]
    /\ Goto(c, IF exclusive_context_count[c] = 1 THEN "resume_lock"
                                                 ELSE "exclusive")
    /\ UNCHANGED <<running, has_waiter, pending_cpus, lock, loop>>

(* Mutated form: end_exclusive does not broadcast exclusive_resume.        *)
ResumeLockSilent(c) ==
    /\ pc[c] = "resume_lock" /\ lock = NoCpu
    /\ pending_cpus' = 0
    /\ Goto(c, "idle")
    /\ UNCHANGED <<running, has_waiter, exclusive_context_count, lock, loop>>

ResumeLock(c) ==
    /\ pc[c] = "resume_lock" /\ lock = NoCpu
    /\ pending_cpus' = 0
    /\ pc' = [d \in Cpus |-> IF d = c THEN "idle" ELSE Woken(pc[d])]
    /\ UNCHANGED <<running, has_waiter, exclusive_context_count, lock, loop>>

(* The child's side of a fork made in an exclusive section (fork_start,    *)
(* fork_end): every other vCPU is discarded, qemu_init_cpu_list resets the *)
(* protocol's globals and end_exclusive is called.  The model goes on as   *)
(* the child process.                                                      *)
ForkChild(c) ==
    /\ pc[c] = "exclusive" /\ exclusive_context_count[c] = 1 /\ lock = NoCpu
    /\ pc' = [d \in Cpus |-> IF d = c THEN "idle" ELSE "off"]
    /\ running' = [d \in Cpus |-> FALSE]
    /\ has_waiter' = [d \in Cpus |-> FALSE]
    /\ exclusive_context_count' = [d \in Cpus |-> 0]
    /\ pending_cpus' = 0
    /\ UNCHANGED <<lock, loop>>

(* qemu_cond_wait may return without a signal.                             *)
SpuriousWakeup(c) ==
    /\ pc[c] \in {"start_wait", "excl_wait", "excl_drain"}
    /\ Goto(c, IF pc[c] = "excl_drain" THEN "excl_drained" ELSE Woken(pc[c]))
    /\ UNCHANGED <<running, has_waiter, exclusive_context_count, pending_cpus,
                   lock, loop>>

-------------------------------------------------------------------------------
(* Steps that a thread takes on its own once they are enabled.             *)
Proceed(c) ==
    \/ StartRead(c) \/ StartLock(c) \/ StartIdle(c)
    \/ EndRead(c)   \/ EndLock(c)
    \/ ExclLock(c)  \/ (\E d \in Cpus : ExclVisit(c, d))
    \/ ExclPublish(c) \/ ExclDrained(c)
    \/ StepAtomicDone(c) \/ ResumeLock(c)

Step(c) ==
    \/ cpu_list_add(c) \/ cpu_list_remove(c)
    \/ cpu_exec_start(c) \/ cpu_exec_end(c)
    \/ start_exclusive(c) \/ NestExclusive(c) \/ StepAtomic(c)
    \/ end_exclusive(c) \/ ForkChild(c) \/ SpuriousWakeup(c)
    \/ Proceed(c)

Next == \E c \in Cpus : Step(c)

Spec == Init /\ [][Next]_vars

(* A thread keeps executing its own code, and a vCPU that was counted and  *)
(* kicked leaves guest code.  Nothing makes a thread enter guest code or   *)
(* enter or end an exclusive section, and no wakeup is spurious for ever.  *)
Fairness ==
    \A c \in Cpus :
        /\ WF_vars(Proceed(c))
        /\ WF_vars(cpu_exec_end(c) /\ has_waiter[c])

FairSpec == Spec /\ Fairness

-------------------------------------------------------------------------------
(* Type invariant.                                                         *)
TypeOK ==
    /\ pc \in [Cpus -> PC]
    /\ running \in [Cpus -> BOOLEAN]
    /\ has_waiter \in [Cpus -> BOOLEAN]
    /\ exclusive_context_count \in [Cpus -> 0..MaxNest]
    /\ pending_cpus \in Nat
    /\ lock \in Cpus \cup {NoCpu}
    /\ scan \in SUBSET Cpus
    /\ running_cpus \in Nat

(* vCPUs whose decrement a waiting start_exclusive counts on.              *)
Waiters == {c \in Cpus : has_waiter[c]}

(* The thread that set pending_cpus and has not cleared it again.          *)
Claimed == {c \in Cpus : pc[c] \in {"excl_scan", "excl_drain", "excl_drained",
                                    "exclusive", "atomic", "resume_lock"}}

(* The point of start_exclusive ("Make all other cpus stop executing"):    *)
(* while a thread is in an exclusive section no other thread is in one and *)
(* none is inside cpu_exec, although both sides read the other's flag      *)
(* without a lock.                                                         *)
Exclusion ==
    \A c, d \in Cpus :
        pc[c] \in {"exclusive", "atomic"} /\ c # d =>
            pc[d] \notin {"exclusive", "atomic", "guest"}

(* pending_cpus, once published, is one plus the number of vCPUs that will *)
(* still decrement it in cpu_exec_end: it is never decremented twice for a *)
(* vCPU, nor left standing for one that is gone.                           *)
PendingExact ==
    lock = NoCpu =>
        pending_cpus = IF Claimed = {} THEN 0 ELSE 1 + Cardinality(Waiters)

(* Case 1 of the comment in cpu_exec_start: a vCPU that start_exclusive    *)
(* counted never goes to sleep in exclusive_idle and is never back in      *)
(* cpu_loop before it has decremented pending_cpus; otherwise the two      *)
(* threads would wait for each other.                                      *)
CountedNeverSleeps ==
    \A c \in Waiters :
        pc[c] \in {"start_read", "start_lock", "guest", "end_read", "end_lock"}

-------------------------------------------------------------------------------
(* The inductive invariant behind these, in parts.                         *)

(* cpu->running is exactly the announcement of cpu_exec_start, or of       *)
(* cpu_exec_step_atomic.                                                   *)
RunningAgrees ==
    \A c \in Cpus :
        running[c] <=> pc[c] \in {"start_read", "start_lock", "guest", "atomic"}

(* exclusive_context_count is positive exactly in the exclusive section,   *)
(* so the early return of start_exclusive is taken by the owner only.      *)
ContextAgrees ==
    \A c \in Cpus :
        exclusive_context_count[c] > 0 <=> pc[c] \in {"exclusive", "atomic"}

(* Between two steps only the CPU_FOREACH loop holds the lock.             *)
LockAgrees ==
    /\ \A c \in Cpus : pc[c] = "excl_scan" <=> lock = c
    /\ lock = NoCpu => scan = {}

(* At most one thread claims the section, and pending_cpus says whether    *)
(* one does: the lock-free readers see a claim as soon as it is made.      *)
OneClaim ==
    /\ \A c, d \in Claimed : c = d
    /\ pending_cpus = 0 <=> Claimed = {}

(* What pending_cpus and the loop's count are worth in every phase.        *)
CountAgrees ==
    /\ lock # NoCpu => /\ pending_cpus = 1
                       /\ running_cpus = Cardinality(Waiters)
                       /\ Waiters \cap scan = {}
    /\ Claimed = {} => Waiters = {}
    /\ \A c \in Cpus :
          pc[c] \in {"exclusive", "atomic", "resume_lock"} => Waiters = {}

(* The heart of the argument: under a claim, a vCPU in guest code that the *)
(* loop has passed is one that was counted.                                *)
GuestCounted ==
    \A c \in Cpus :
        Claimed # {} /\ pc[c] = "guest" /\ c \notin scan => has_waiter[c]

IInv ==
    /\ TypeOK /\ RunningAgrees /\ ContextAgrees /\ LockAgrees /\ OneClaim
    /\ CountAgrees /\ PendingExact /\ CountedNeverSleeps /\ GuestCounted

-------------------------------------------------------------------------------
(* Once start_exclusive has claimed the section it does enter it: the      *)
(* signal on exclusive_cond is not lost and every counted vCPU decrements. *)
ClaimEnters ==
    \A c \in Cpus :
        pc[c] \in {"excl_scan", "excl_drain", "excl_drained"}
            ~> pc[c] = "exclusive"

(* A thread held in cpu_exec_start by an exclusive section runs once the   *)
(* exclusive sections stop: the broadcast of end_exclusive reaches it.     *)
SleepersResume ==
    <>[](pending_cpus = 0) =>
        \A c \in Cpus : pc[c] \in {"start_lock", "start_wait", "start_idle"}
                            ~> pc[c] \in {"guest", "off"}

(* Where a thread stands in the abstract discipline.                       *)
ModeOf(p) == CASE p = "guest" -> "guest"
               [] p \in {"exclusive", "atomic"} -> "exclusive"
               [] OTHER -> "out"

AbsMode == [c \in Cpus |-> ModeOf(pc[c])]

Abs == INSTANCE CpuExclusiveAbs WITH mode <- AbsMode

(* The protocol implements the shared/exclusive discipline: every step of  *)
(* a thread is one legal entry or exit of the abstract lock, or invisible. *)
ImplementsAbs == Abs!Spec
===============================================================================
