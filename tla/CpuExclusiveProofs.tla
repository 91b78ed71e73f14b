------------------------- MODULE CpuExclusiveProofs -------------------------
(***************************************************************************)
(* For any finite set of vCPUs: the exclusive-section protocol keeps its   *)
(* inductive invariant, hence mutual exclusion, the meaning of             *)
(* pending_cpus and the absence of counted sleepers; and it implements the *)
(* abstract shared/exclusive discipline.                                   *)
(***************************************************************************)
EXTENDS CpuExclusive, FiniteSetTheorems, TLAPS

(* The vCPUs that start_exclusive counts are finitely many.                *)
LEMMA WaitersFinite ==
    IsFiniteSet(Waiters) /\ Cardinality(Waiters) \in Nat
<1>1. Waiters \subseteq Cpus  BY DEF Waiters
<1> QED  BY <1>1, CpusAssumption, FS_Subset, FS_CardinalityType

(* The same for the next state.                                            *)
LEMMA WaitersFinitePrime ==
    IsFiniteSet(Waiters') /\ Cardinality(Waiters') \in Nat
<1>1. Waiters' \subseteq Cpus  BY DEF Waiters
<1> QED  BY <1>1, CpusAssumption, FS_Subset, FS_CardinalityType

(* The initial states of the protocol satisfy the invariant.               *)
LEMMA InitInv == Init => IInv
<1> SUFFICES ASSUME Init PROVE IInv  OBVIOUS
<1>1. Waiters = {} /\ Claimed = {}
  BY DEF Init, Waiters, Claimed
<1>2. TypeOK
  BY NestAssumption DEF Init, TypeOK, PC
<1> QED
  BY <1>1, <1>2, CpusAssumption
  DEF Init, IInv, RunningAgrees, ContextAgrees, LockAgrees, OneClaim, CountAgrees,
      PendingExact, CountedNeverSleeps, GuestCounted

(* A vCPU that enters or leaves cpus_queue is outside cpu_exec. *)
LEMMA ListStep ==
    ASSUME IInv, NEW c \in Cpus,
           cpu_list_add(c) \/ cpu_list_remove(c)
    PROVE  IInv'
<1> USE DEF cpu_list_add, cpu_list_remove, Goto, loop
<1>1. TypeOK'
  BY DEF IInv, TypeOK, PC
<1>2. Waiters' = Waiters /\ Claimed' = Claimed
  BY DEF IInv, TypeOK, Waiters, Claimed
<1>3. UNCHANGED <<pending_cpus, lock, scan, running_cpus, has_waiter>>
  OBVIOUS
<1>4. RunningAgrees'
  BY <1>2, <1>3, NestAssumption DEF IInv, TypeOK, RunningAgrees
<1>5. ContextAgrees'
  BY <1>2, <1>3, NestAssumption DEF IInv, TypeOK, ContextAgrees
<1>6. LockAgrees'
  BY <1>2, <1>3, NestAssumption DEF IInv, TypeOK, LockAgrees
<1>7. OneClaim'
  BY <1>2, <1>3 DEF IInv, OneClaim
<1>8. CountAgrees'
  BY <1>2, <1>3, NestAssumption DEF IInv, TypeOK, CountAgrees
<1>9. PendingExact'
  BY <1>2, <1>3 DEF IInv, PendingExact
<1>10. CountedNeverSleeps'
  BY <1>2, <1>3, NestAssumption DEF IInv, TypeOK, CountedNeverSleeps, Waiters
<1>11. GuestCounted'
  BY <1>2, <1>3, NestAssumption DEF IInv, TypeOK, GuestCounted, OneClaim
<1> QED  BY <1>1, <1>4, <1>5, <1>6, <1>7, <1>8, <1>9, <1>10, <1>11 DEF IInv

(* The lock-free steps of cpu_exec_start: guest code is entered only when no
   claim was visible. *)
LEMMA ExecStartStep ==
    ASSUME IInv, NEW c \in Cpus,
           cpu_exec_start(c) \/ StartRead(c)
    PROVE  IInv'
<1> USE DEF cpu_exec_start, StartRead, Goto, loop
<1>1. TypeOK'
  BY DEF IInv, TypeOK, PC
<1>2. Waiters' = Waiters /\ Claimed' = Claimed
  BY DEF IInv, TypeOK, Waiters, Claimed
<1>3. UNCHANGED <<pending_cpus, lock, scan, running_cpus, has_waiter>>
  OBVIOUS
<1>4. RunningAgrees'
  BY <1>2, <1>3, NestAssumption DEF IInv, TypeOK, RunningAgrees
<1>5. ContextAgrees'
  BY <1>2, <1>3, NestAssumption DEF IInv, TypeOK, ContextAgrees
<1>6. LockAgrees'
  BY <1>2, <1>3, NestAssumption DEF IInv, TypeOK, LockAgrees
<1>7. OneClaim'
  BY <1>2, <1>3 DEF IInv, OneClaim
<1>8. CountAgrees'
  BY <1>2, <1>3, NestAssumption DEF IInv, TypeOK, CountAgrees
<1>9. PendingExact'
  BY <1>2, <1>3 DEF IInv, PendingExact
<1>10. CountedNeverSleeps'
  BY <1>2, <1>3, NestAssumption DEF IInv, TypeOK, CountedNeverSleeps, Waiters
<1>11. GuestCounted'
  BY <1>2, <1>3, NestAssumption DEF IInv, TypeOK, GuestCounted, OneClaim
<1> QED  BY <1>1, <1>4, <1>5, <1>6, <1>7, <1>8, <1>9, <1>10, <1>11 DEF IInv

(* The locked part of cpu_exec_start: a counted vCPU goes on, another sleeps
   while a claim stands. *)
LEMMA StartLockStep ==
    ASSUME IInv, NEW c \in Cpus,
           StartLock(c) \/ StartIdle(c)
    PROVE  IInv'
<1> USE DEF StartLock, StartIdle, StartExclusiveIdle, Goto, loop
<1>1. TypeOK'
  BY DEF IInv, TypeOK, PC
<1>2. Waiters' = Waiters /\ Claimed' = Claimed
  BY DEF IInv, TypeOK, Waiters, Claimed
<1>3. UNCHANGED <<pending_cpus, lock, scan, running_cpus, has_waiter>>
  OBVIOUS
<1>4. RunningAgrees'
  BY <1>2, <1>3, NestAssumption DEF IInv, TypeOK, RunningAgrees
<1>5. ContextAgrees'
  BY <1>2, <1>3, NestAssumption DEF IInv, TypeOK, ContextAgrees
<1>6. LockAgrees'
  BY <1>2, <1>3, NestAssumption DEF IInv, TypeOK, LockAgrees
<1>7. OneClaim'
  BY <1>2, <1>3 DEF IInv, OneClaim
<1>8. CountAgrees'
  BY <1>2, <1>3, NestAssumption DEF IInv, TypeOK, CountAgrees
<1>9. PendingExact'
  BY <1>2, <1>3 DEF IInv, PendingExact
<1>10. CountedNeverSleeps'
  BY <1>2, <1>3, NestAssumption DEF IInv, TypeOK, CountedNeverSleeps, Waiters
<1>11. GuestCounted'
  BY <1>2, <1>3, NestAssumption DEF IInv, TypeOK, GuestCounted, OneClaim
<1> QED  BY <1>1, <1>4, <1>5, <1>6, <1>7, <1>8, <1>9, <1>10, <1>11 DEF IInv

(* The lock-free steps of cpu_exec_end. *)
LEMMA ExecEndStep ==
    ASSUME IInv, NEW c \in Cpus,
           cpu_exec_end(c) \/ EndRead(c)
    PROVE  IInv'
<1> USE DEF cpu_exec_end, EndRead, Goto, loop
<1>1. TypeOK'
  BY DEF IInv, TypeOK, PC
<1>2. Waiters' = Waiters /\ Claimed' = Claimed
  BY DEF IInv, TypeOK, Waiters, Claimed
<1>3. UNCHANGED <<pending_cpus, lock, scan, running_cpus, has_waiter>>
  OBVIOUS
<1>4. RunningAgrees'
  BY <1>2, <1>3, NestAssumption DEF IInv, TypeOK, RunningAgrees
<1>5. ContextAgrees'
  BY <1>2, <1>3, NestAssumption DEF IInv, TypeOK, ContextAgrees
<1>6. LockAgrees'
  BY <1>2, <1>3, NestAssumption DEF IInv, TypeOK, LockAgrees
<1>7. OneClaim'
  BY <1>2, <1>3 DEF IInv, OneClaim
<1>8. CountAgrees'
  BY <1>2, <1>3, NestAssumption DEF IInv, TypeOK, CountAgrees
<1>9. PendingExact'
  BY <1>2, <1>3 DEF IInv, PendingExact
<1>10. CountedNeverSleeps'
  <2>1. pending_cpus = 0 => Waiters = {}
    BY DEF IInv, OneClaim, CountAgrees
  <2> QED  BY <1>2, <2>1 DEF IInv, TypeOK, CountedNeverSleeps, Waiters
<1>11. GuestCounted'
  BY <1>2, <1>3, NestAssumption DEF IInv, TypeOK, GuestCounted, OneClaim
<1> QED  BY <1>1, <1>4, <1>5, <1>6, <1>7, <1>8, <1>9, <1>10, <1>11 DEF IInv

(* Asking for an exclusive section, and waking without a signal. *)
LEMMA RequestStep ==
    ASSUME IInv, NEW c \in Cpus,
           start_exclusive(c) \/ SpuriousWakeup(c)
    PROVE  IInv'
<1> USE DEF start_exclusive, SpuriousWakeup, Woken, Goto, loop
<1>1. TypeOK'
  BY DEF IInv, TypeOK, PC
<1>2. Waiters' = Waiters /\ Claimed' = Claimed
  BY DEF IInv, TypeOK, Waiters, Claimed
<1>3. UNCHANGED <<pending_cpus, lock, scan, running_cpus, has_waiter>>
  OBVIOUS
<1>4. RunningAgrees'
  BY <1>2, <1>3, NestAssumption DEF IInv, TypeOK, RunningAgrees
<1>5. ContextAgrees'
  BY <1>2, <1>3, NestAssumption DEF IInv, TypeOK, ContextAgrees
<1>6. LockAgrees'
  BY <1>2, <1>3, NestAssumption DEF IInv, TypeOK, LockAgrees
<1>7. OneClaim'
  BY <1>2, <1>3 DEF IInv, OneClaim
<1>8. CountAgrees'
  BY <1>2, <1>3, NestAssumption DEF IInv, TypeOK, CountAgrees
<1>9. PendingExact'
  BY <1>2, <1>3 DEF IInv, PendingExact
<1>10. CountedNeverSleeps'
  BY <1>2, <1>3, NestAssumption DEF IInv, TypeOK, CountedNeverSleeps, Waiters
<1>11. GuestCounted'
  BY <1>2, <1>3, NestAssumption DEF IInv, TypeOK, GuestCounted, OneClaim
<1> QED  BY <1>1, <1>4, <1>5, <1>6, <1>7, <1>8, <1>9, <1>10, <1>11 DEF IInv

(* Steps inside the exclusive section. *)
LEMMA SectionStep ==
    ASSUME IInv, NEW c \in Cpus,
           NestExclusive(c) \/ StepAtomic(c) \/ StepAtomicDone(c) \/ end_exclusive(c)
    PROVE  IInv'
<1> USE DEF NestExclusive, StepAtomic, StepAtomicDone, end_exclusive, Goto, loop
<1>1. TypeOK'
  <2>1. exclusive_context_count' \in [Cpus -> 0..MaxNest]
    <3>1. exclusive_context_count \in [Cpus -> 0..MaxNest] /\ MaxNest \in Nat
      BY NestAssumption DEF IInv, TypeOK
    <3>2. CASE NestExclusive(c)
      BY <3>1, <3>2
    <3>3. CASE end_exclusive(c)
      <4>1. exclusive_context_count[c] > 0
        BY <3>3 DEF IInv, ContextAgrees
      <4> QED  BY <3>1, <3>3, <4>1
    <3> QED  BY <3>1, <3>2, <3>3
  <2> QED  BY <2>1 DEF IInv, TypeOK, PC
<1>2. Waiters' = Waiters /\ Claimed' = Claimed
  BY DEF IInv, TypeOK, Waiters, Claimed
<1>3. UNCHANGED <<pending_cpus, lock, scan, running_cpus, has_waiter>>
  OBVIOUS
<1>4. RunningAgrees'
  BY <1>2, <1>3, NestAssumption DEF IInv, TypeOK, RunningAgrees
<1>5. ContextAgrees'
  BY <1>2, <1>3, NestAssumption DEF IInv, TypeOK, ContextAgrees
<1>6. LockAgrees'
  BY <1>2, <1>3, NestAssumption DEF IInv, TypeOK, LockAgrees
<1>7. OneClaim'
  BY <1>2, <1>3 DEF IInv, OneClaim
<1>8. CountAgrees'
  BY <1>2, <1>3, NestAssumption DEF IInv, TypeOK, CountAgrees
<1>9. PendingExact'
  BY <1>2, <1>3 DEF IInv, PendingExact
<1>10. CountedNeverSleeps'
  BY <1>2, <1>3, NestAssumption DEF IInv, TypeOK, CountedNeverSleeps, Waiters
<1>11. GuestCounted'
  BY <1>2, <1>3, NestAssumption DEF IInv, TypeOK, GuestCounted, OneClaim
<1> QED  BY <1>1, <1>4, <1>5, <1>6, <1>7, <1>8, <1>9, <1>10, <1>11 DEF IInv

(* A waiting start_exclusive wakes up: it goes on only when every counted  *)
(* vCPU has decremented.                                                   *)
LEMMA ExclDrainedStep ==
    ASSUME IInv, NEW c \in Cpus, ExclDrained(c)
    PROVE  IInv'
<1> USE DEF ExclDrained, EnterExclusive, Goto, loop
<1>1. TypeOK'
  BY NestAssumption DEF IInv, TypeOK, PC
<1>2. Waiters' = Waiters /\ Claimed' = Claimed
  BY DEF IInv, TypeOK, Waiters, Claimed
<1>3. UNCHANGED <<pending_cpus, lock, scan, running_cpus, has_waiter, running>>
  OBVIOUS
<1>4. pending_cpus = 1 + Cardinality(Waiters)
  BY DEF IInv, PendingExact, Claimed
<1>5. pc'[c] = "exclusive" => Waiters = {}
  BY <1>4, WaitersFinite, FS_EmptySet DEF IInv, TypeOK
<1>6. RunningAgrees' /\ ContextAgrees' /\ LockAgrees'
  BY NestAssumption DEF IInv, TypeOK, RunningAgrees, ContextAgrees, LockAgrees
<1>7. OneClaim' /\ PendingExact'
  BY <1>2, <1>3 DEF IInv, OneClaim, PendingExact
<1>8. CountAgrees'
  BY <1>2, <1>3, <1>5 DEF IInv, TypeOK, CountAgrees
<1>9. CountedNeverSleeps'
  BY <1>2, <1>3 DEF IInv, TypeOK, CountedNeverSleeps, Waiters
<1>10. GuestCounted'
  BY <1>2, <1>3 DEF IInv, TypeOK, GuestCounted
<1> QED  BY <1>1, <1>6, <1>7, <1>8, <1>9, <1>10 DEF IInv

(* start_exclusive finds the section claimed and sleeps, or claims it.     *)
LEMMA ExclLockStep ==
    ASSUME IInv, NEW c \in Cpus, ExclLock(c)
    PROVE  IInv'
<1> USE DEF ExclLock, Goto, loop
<1>1. TypeOK'
  BY DEF IInv, TypeOK, PC
<1>2. Waiters' = Waiters
  BY DEF Waiters
<1>3. RunningAgrees' /\ ContextAgrees' /\ CountedNeverSleeps'
  BY <1>2 DEF IInv, TypeOK, RunningAgrees, ContextAgrees, CountedNeverSleeps,
              Waiters
<1>4. CASE pending_cpus # 0
  <2>1. Claimed' = Claimed
    BY <1>4 DEF IInv, TypeOK, Claimed
  <2>2. LockAgrees' /\ OneClaim' /\ PendingExact'
    BY <1>2, <1>4, <2>1 DEF IInv, TypeOK, LockAgrees, OneClaim, PendingExact
  <2>3. CountAgrees' /\ GuestCounted'
    BY <1>2, <1>4, <2>1 DEF IInv, TypeOK, CountAgrees, GuestCounted
  <2> QED  BY <1>1, <1>3, <2>2, <2>3 DEF IInv
<1>5. CASE pending_cpus = 0
  <2>1. Claimed = {} /\ Waiters = {}
    BY <1>5 DEF IInv, OneClaim, CountAgrees
  <2>2. Claimed' = {c}
    BY <1>5, <2>1 DEF IInv, TypeOK, Claimed
  <2>3. LockAgrees'
    BY <1>5, <2>1, CpusAssumption DEF IInv, TypeOK, LockAgrees, Claimed
  <2>4. OneClaim' /\ PendingExact'
    BY <1>5, <2>2, CpusAssumption DEF OneClaim, PendingExact
  <2>5. CountAgrees'
    <3>1. \A d \in Cpus : pc'[d] \notin {"exclusive", "atomic", "resume_lock"}
      BY <1>5, <2>1 DEF IInv, TypeOK, Claimed
    <3> QED  BY <1>2, <1>5, <2>1, <2>2, <3>1, FS_EmptySet DEF CountAgrees
  <2>6. GuestCounted'
    BY <1>5 DEF IInv, TypeOK, GuestCounted
  <2> QED  BY <1>1, <1>3, <2>3, <2>4, <2>5, <2>6 DEF IInv
<1> QED  BY <1>4, <1>5

(* One iteration of the CPU_FOREACH loop: the vCPU visited has not been    *)
(* counted before, and it is counted exactly when its announcement is seen *)
(* in time.                                                                *)
LEMMA ExclVisitStep ==
    ASSUME IInv, NEW c \in Cpus, NEW d \in Cpus, ExclVisit(c, d)
    PROVE  IInv'
<1> USE DEF ExclVisit
<1>1. TypeOK'
  BY DEF IInv, TypeOK
<1>2. lock = c /\ lock # NoCpu /\ Claimed' = Claimed /\ c \in Claimed
  BY CpusAssumption DEF IInv, TypeOK, LockAgrees, Claimed
<1>3. ~has_waiter[d]
  BY <1>2 DEF IInv, CountAgrees, Waiters
<1>4. Waiters' = IF running[d] THEN Waiters \cup {d} ELSE Waiters
  BY <1>3 DEF IInv, TypeOK, Waiters
<1>5. running_cpus' = Cardinality(Waiters')
  <2>1. d \notin Waiters /\ running_cpus = Cardinality(Waiters)
    BY <1>2, <1>3 DEF IInv, CountAgrees, Waiters
  <2>2. CASE running[d]
    BY <1>4, <2>1, <2>2, WaitersFinite, FS_AddElement
  <2>3. CASE ~running[d]
    BY <1>4, <2>1, <2>3, WaitersFinite
  <2> QED  BY <2>2, <2>3
<1>6. RunningAgrees' /\ ContextAgrees' /\ LockAgrees' /\ OneClaim'
  BY <1>2 DEF IInv, RunningAgrees, ContextAgrees, LockAgrees, OneClaim
<1>7. PendingExact'
  BY <1>2 DEF PendingExact
<1>8. CountAgrees'
  <2>1. pending_cpus' = 1 /\ Waiters' \cap scan' = {}
    BY <1>2, <1>4 DEF IInv, CountAgrees
  <2>2. \A e \in Cpus : pc'[e] \notin {"exclusive", "atomic", "resume_lock"}
    BY <1>2 DEF IInv, OneClaim, Claimed
  <2> QED  BY <1>2, <1>5, <2>1, <2>2 DEF CountAgrees
<1>9. CountedNeverSleeps'
  <2>1. pc[d] # "atomic"
    BY <1>2 DEF IInv, OneClaim, Claimed
  <2> QED  BY <1>4, <2>1 DEF IInv, CountedNeverSleeps, RunningAgrees
<1>10. GuestCounted'
  BY <1>2 DEF IInv, TypeOK, GuestCounted, RunningAgrees
<1> QED  BY <1>1, <1>6, <1>7, <1>8, <1>9, <1>10 DEF IInv

(* The loop is done: the count is published, and with nobody counted the   *)
(* section is entered.                                                     *)
LEMMA ExclPublishStep ==
    ASSUME IInv, NEW c \in Cpus, ExclPublish(c)
    PROVE  IInv'
<1> USE DEF ExclPublish, EnterExclusive, Goto, loop
<1>1. TypeOK'
  BY NestAssumption DEF IInv, TypeOK, PC
<1>2. lock = c /\ lock # NoCpu /\ running_cpus = Cardinality(Waiters)
  BY CpusAssumption DEF IInv, LockAgrees, CountAgrees
<1>3. Waiters' = Waiters /\ Claimed' = Claimed /\ c \in Claimed
  BY DEF IInv, TypeOK, Waiters, Claimed
<1>4. pc'[c] = "exclusive" => Waiters = {}
  BY <1>2, WaitersFinite, FS_EmptySet DEF IInv, TypeOK
<1>5. \A d \in Cpus : pc[d] \in {"excl_scan", "exclusive", "atomic", "resume_lock"}
                          => d = c
  BY <1>3 DEF IInv, OneClaim, Claimed
<1>6. RunningAgrees' /\ ContextAgrees' /\ CountedNeverSleeps'
  BY <1>3, NestAssumption
  DEF IInv, TypeOK, RunningAgrees, ContextAgrees, CountedNeverSleeps, Waiters
<1>7. LockAgrees'
  BY <1>5, CpusAssumption DEF IInv, TypeOK, LockAgrees
<1>8. OneClaim' /\ PendingExact'
  BY <1>2, <1>3, WaitersFinite DEF IInv, OneClaim, PendingExact
<1>9. CountAgrees'
  BY <1>3, <1>4, <1>5 DEF IInv, TypeOK, CountAgrees
<1>10. GuestCounted'
  BY <1>3 DEF IInv, TypeOK, GuestCounted
<1> QED  BY <1>1, <1>6, <1>7, <1>8, <1>9, <1>10 DEF IInv

(* The locked part of cpu_exec_end: a counted vCPU decrements exactly once *)
(* and the last one signals.                                               *)
LEMMA EndLockStep ==
    ASSUME IInv, NEW c \in Cpus, EndLock(c)
    PROVE  IInv'
<1> USE DEF EndLock, SignalDrained, Goto, loop
<1>1. scan = {} /\ lock = NoCpu /\ lock' = NoCpu /\ scan' = {}
  BY DEF IInv, LockAgrees
<1>2. Claimed' = Claimed
  BY DEF IInv, TypeOK, Claimed
<1>3. \A d \in Cpus : pc'[d] = IF d = c THEN "idle"
                               ELSE IF pc[d] = "excl_drain" THEN pc'[d]
                               ELSE pc[d]
  BY DEF IInv, TypeOK
<1>4. \A d \in Cpus : pc[d] = "excl_drain" => pc'[d] \in {"excl_drain", "excl_drained"}
  BY DEF IInv, TypeOK
<1>5. has_waiter[c] => Claimed # {} /\ pending_cpus = 1 + Cardinality(Waiters)
  BY <1>1 DEF IInv, CountAgrees, PendingExact, Waiters
<1>6. Waiters' = Waiters \ {c}
  BY DEF IInv, TypeOK, Waiters
<1>7. pending_cpus' \in Nat /\ (pending_cpus' = IF Claimed = {} THEN 0
                                               ELSE 1 + Cardinality(Waiters'))
  <2>1. CASE has_waiter[c]
    <3>1. c \in Waiters
      BY <2>1 DEF Waiters
    <3>2. Cardinality(Waiters') = Cardinality(Waiters) - 1
      BY <1>6, <3>1, WaitersFinite, FS_RemoveElement
    <3>3. pending_cpus' = pending_cpus - 1
      BY <2>1
    <3> QED  BY <1>5, <2>1, <3>2, <3>3, WaitersFinite, WaitersFinitePrime
  <2>2. CASE ~has_waiter[c]
    <3>1. Waiters' = Waiters
      BY <1>6, <2>2 DEF Waiters
    <3> QED  BY <1>1, <2>2, <3>1 DEF IInv, TypeOK, PendingExact
  <2> QED  BY <2>1, <2>2
<1>8. TypeOK'
  <2>1. pc' \in [Cpus -> PC]
    BY DEF IInv, TypeOK, PC
  <2> QED  BY <1>7, <2>1 DEF IInv, TypeOK
<1>9. RunningAgrees' /\ ContextAgrees'
  BY <1>3, <1>4 DEF IInv, TypeOK, RunningAgrees, ContextAgrees
<1>10. LockAgrees'
  BY <1>1, <1>3, <1>4, CpusAssumption DEF IInv, LockAgrees
<1>11. OneClaim'
  <2>1. pending_cpus' = 0 <=> Claimed = {}
    BY <1>7, WaitersFinitePrime
  <2> QED  BY <1>2, <2>1 DEF IInv, OneClaim
<1>12. CountAgrees'
  BY <1>1, <1>2, <1>3, <1>4, <1>6 DEF IInv, CountAgrees
<1>13. PendingExact'
  BY <1>2, <1>7 DEF PendingExact
<1>14. CountedNeverSleeps'
  BY <1>3, <1>6 DEF IInv, CountedNeverSleeps, Waiters
<1>15. GuestCounted'
  BY <1>1, <1>2, <1>3, <1>4 DEF IInv, TypeOK, GuestCounted
<1> QED
  BY <1>8, <1>9, <1>10, <1>11, <1>12, <1>13, <1>14, <1>15 DEF IInv

(* The last end_exclusive clears the claim and wakes every sleeper.        *)
LEMMA ResumeLockStep ==
    ASSUME IInv, NEW c \in Cpus, ResumeLock(c)
    PROVE  IInv'
<1> USE DEF ResumeLock, Woken, loop
<1>1. TypeOK'
  BY DEF IInv, TypeOK, PC
<1>2. Waiters = {} /\ Waiters' = {}
  BY DEF IInv, CountAgrees, Waiters
<1>3. Claimed' = {}
  BY DEF IInv, TypeOK, OneClaim, Claimed
<1>4. RunningAgrees' /\ ContextAgrees'
  BY DEF IInv, TypeOK, RunningAgrees, ContextAgrees
<1>5. LockAgrees'
  BY CpusAssumption DEF IInv, TypeOK, LockAgrees
<1>6. OneClaim' /\ CountAgrees' /\ PendingExact' /\ CountedNeverSleeps'
      /\ GuestCounted'
  BY <1>2, <1>3 DEF OneClaim, CountAgrees, PendingExact, CountedNeverSleeps,
                    GuestCounted
<1> QED  BY <1>1, <1>4, <1>5, <1>6 DEF IInv

(* The child of a fork starts over as the only vCPU.                       *)
LEMMA ForkChildStep ==
    ASSUME IInv, NEW c \in Cpus, ForkChild(c)
    PROVE  IInv'
<1> USE DEF ForkChild, loop
<1>1. TypeOK'
  BY NestAssumption DEF IInv, TypeOK, PC
<1>2. Waiters' = {} /\ Claimed' = {}
  BY DEF Waiters, Claimed
<1>3. RunningAgrees' /\ ContextAgrees'
  BY DEF RunningAgrees, ContextAgrees
<1>4. LockAgrees'
  BY CpusAssumption DEF IInv, LockAgrees
<1>5. OneClaim' /\ CountAgrees' /\ PendingExact' /\ CountedNeverSleeps'
      /\ GuestCounted'
  BY <1>2 DEF OneClaim, CountAgrees, PendingExact, CountedNeverSleeps,
              GuestCounted
<1> QED  BY <1>1, <1>3, <1>4, <1>5 DEF IInv

(* The invariant is inductive.                                             *)
LEMMA NextInv == IInv /\ [Next]_vars => IInv'
<1> SUFFICES ASSUME IInv, [Next]_vars PROVE IInv'
  OBVIOUS
<1>1. CASE UNCHANGED vars
  BY <1>1
  DEF IInv, vars, loop, TypeOK, RunningAgrees, ContextAgrees, LockAgrees, OneClaim,
      CountAgrees, PendingExact, CountedNeverSleeps, GuestCounted, Waiters,
      Claimed
<1>2. ASSUME NEW c \in Cpus, Step(c) PROVE IInv'
  <2>1. CASE Proceed(c)
    BY <2>1, ExecStartStep, StartLockStep, ExecEndStep, EndLockStep,
       ExclLockStep, ExclVisitStep, ExclPublishStep, ExclDrainedStep,
       SectionStep, ResumeLockStep
    DEF Proceed
  <2>2. CASE ~Proceed(c)
    BY <1>2, <2>2, ListStep, ExecStartStep, ExecEndStep, RequestStep,
       SectionStep, ForkChildStep
    DEF Step
  <2> QED  BY <2>1, <2>2
<1> QED  BY <1>1, <1>2 DEF Next

(* Every reachable state satisfies the inductive invariant.                *)
THEOREM Invariant == Spec => []IInv
<1> QED  BY InitInv, NextInv, PTL DEF Spec

(* TypeOK for any number of vCPUs: in particular pending_cpus is never     *)
(* decremented below zero.                                                 *)
THEOREM TypeCorrect == Spec => []TypeOK
<1>1. IInv => TypeOK  BY DEF IInv
<1> QED  BY Invariant, <1>1, PTL

(* The invariant implies mutual exclusion.                                 *)
LEMMA InvExclusion == IInv => Exclusion
<1> SUFFICES ASSUME IInv, NEW c \in Cpus, NEW d \in Cpus, c # d,
                    pc[c] \in {"exclusive", "atomic"}
             PROVE  pc[d] \notin {"exclusive", "atomic", "guest"}
  BY DEF Exclusion
<1>1. Claimed # {} /\ d \notin Claimed
  BY DEF IInv, OneClaim, Claimed
<1>2. Waiters = {}
  BY DEF IInv, CountAgrees
<1>3. scan = {}
  BY <1>1 DEF IInv, TypeOK, LockAgrees, OneClaim, Claimed
<1>4. pc[d] # "guest"
  BY <1>1, <1>2, <1>3 DEF IInv, GuestCounted, Waiters
<1> QED  BY <1>1, <1>4 DEF Claimed

(* The mutual exclusion start_exclusive promises, for any number of vCPUs. *)
THEOREM MutualExclusion == Spec => []Exclusion
<1> QED  BY Invariant, InvExclusion, PTL

(* pending_cpus counts exactly the vCPUs still to be waited for.           *)
THEOREM PendingCounts == Spec => []PendingExact
<1>1. IInv => PendingExact  BY DEF IInv
<1> QED  BY Invariant, <1>1, PTL

(* No counted vCPU ever sleeps in exclusive_idle.                          *)
THEOREM NoCountedSleeper == Spec => []CountedNeverSleeps
<1>1. IInv => CountedNeverSleeps  BY DEF IInv
<1> QED  BY Invariant, <1>1, PTL

-----------------------------------------------------------------------------
(* A step of one thread leaves the abstract mode of every other unchanged, *)
(* be it woken, signalled or discarded in the child of a fork.             *)
LEMMA OthersKeepMode ==
    ASSUME IInv, NEW c \in Cpus, Step(c), NEW d \in Cpus, d # c
    PROVE  ModeOf(pc'[d]) = ModeOf(pc[d])
<1> USE DEF ModeOf
<1>1. pc \in [Cpus -> PC]
  BY DEF IInv, TypeOK
<1>2. CASE ForkChild(c)
  <2>1. pc[d] \notin {"exclusive", "atomic", "guest"}
    BY <1>2, InvExclusion DEF Exclusion, ForkChild
  <2> QED  BY <1>2, <2>1 DEF ForkChild
<1>3. CASE EndLock(c) \/ ResumeLock(c)
  BY <1>1, <1>3 DEF EndLock, ResumeLock, SignalDrained, Woken, Goto
<1>4. CASE ~(ForkChild(c) \/ EndLock(c) \/ ResumeLock(c))
  <2>1. pc'[d] = pc[d]
    BY <1>1, <1>4
    DEF Step, Proceed, Goto, cpu_list_add, cpu_list_remove, cpu_exec_start,
        cpu_exec_end, start_exclusive, NestExclusive, StepAtomic, end_exclusive,
        SpuriousWakeup, StartRead, StartLock, StartIdle, StartExclusiveIdle,
        EndRead, ExclLock, ExclVisit, ExclPublish, ExclDrained, EnterExclusive,
        StepAtomicDone
  <2> QED  BY <2>1
<1> QED  BY <1>2, <1>3, <1>4

(* A thread passes through the outside between guest code and the section. *)
LEMMA OwnModeChange ==
    ASSUME IInv, NEW c \in Cpus, Step(c), ModeOf(pc'[c]) # ModeOf(pc[c])
    PROVE  \/ ModeOf(pc[c]) = "out"
           \/ ModeOf(pc'[c]) = "out"
<1>1. pc \in [Cpus -> PC]
  BY DEF IInv, TypeOK
<1> QED
  BY <1>1
  DEF ModeOf, PC, Step, Proceed, Goto, cpu_list_add, cpu_list_remove,
      cpu_exec_start, cpu_exec_end, start_exclusive, NestExclusive, StepAtomic,
      end_exclusive, SpuriousWakeup, StartRead, StartLock, StartIdle,
      StartExclusiveIdle, EndRead, ExclLock, ExclVisit, ExclPublish, ExclDrained,
      EnterExclusive, StepAtomicDone, ForkChild, EndLock, ResumeLock,
      SignalDrained, Woken

(* Every step of the protocol is a step of the abstract discipline or      *)
(* leaves it unchanged.                                                    *)
LEMMA StepSimulates ==
    ASSUME IInv, Exclusion', [Next]_vars
    PROVE  [Abs!Next]_AbsMode
<1>1. CASE UNCHANGED vars
  BY <1>1 DEF vars, AbsMode
<1>2. ASSUME NEW c \in Cpus, Step(c) PROVE [Abs!Next]_AbsMode
  <2> DEFINE old == ModeOf(pc[c])
             new == ModeOf(pc'[c])
  <2>1. \A d \in Cpus : d # c => ModeOf(pc'[d]) = ModeOf(pc[d])
    BY <1>2, OthersKeepMode
  <2>2. AbsMode' = [AbsMode EXCEPT ![c] = new] /\ AbsMode[c] = old
    BY <2>1 DEF AbsMode
  <2>3. old \in {"out", "guest", "exclusive"} /\ new \in {"out", "guest", "exclusive"}
    BY DEF ModeOf
  <2>4. CASE old = new
    <3>1. AbsMode' = AbsMode
      BY <2>1, <2>4 DEF AbsMode
    <3> QED  BY <3>1
  <2>5. CASE old # new
    <3>1. old = "out" \/ new = "out"
      BY <1>2, <2>5, OwnModeChange
    <3>2. CASE new = "out"
      BY <2>2, <2>3, <2>5, <3>2
      DEF Abs!Next, Abs!LeaveGuest, Abs!LeaveExclusive
    <3>3. CASE old = "out" /\ new # "out"
      <4>1. \A d \in Cpus : AbsMode[d] # "exclusive"
        BY <2>1, <2>3, <3>3 DEF Exclusion, AbsMode, ModeOf
      <4>2. new = "exclusive" => \A d \in Cpus : AbsMode[d] # "guest"
        BY <2>1, <3>3 DEF Exclusion, AbsMode, ModeOf
      <4> QED
        BY <2>2, <2>3, <3>3, <4>1, <4>2
        DEF Abs!Next, Abs!EnterGuest, Abs!EnterExclusive, Abs!Nobody
    <3> QED  BY <3>1, <3>2, <3>3
  <2> QED  BY <2>4, <2>5
<1> QED  BY <1>1, <1>2 DEF Next

(* The protocol of cpu-common.c implements the shared/exclusive discipline *)
(* for any number of vCPUs.                                                *)
THEOREM Refinement == Spec => ImplementsAbs
<1>1. Init => Abs!Init
  BY DEF Init, Abs!Init, AbsMode, ModeOf
<1>2. IInv /\ Exclusion' /\ [Next]_vars => [Abs!Next]_AbsMode
  BY StepSimulates
<1> QED  BY <1>1, <1>2, Invariant, MutualExclusion, PTL
         DEF Spec, ImplementsAbs, Abs!Spec

=============================================================================
