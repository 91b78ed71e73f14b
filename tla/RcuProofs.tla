------------------------------ MODULE RcuProofs ------------------------------
(***************************************************************************)
(* For any finite sets of readers and writers, with 32-bit and 64-bit      *)
(* longs: synchronize_rcu returns only after every critical section that   *)
(* it found has ended, and no registered reader is ever in no list or two. *)
(***************************************************************************)
EXTENDS Rcu, TLAPS

(* Truncating an odd number to an even modulus leaves it odd and no larger.*)
LEMMA OddTruncates ==
    ASSUME NEW n \in Nat, n % 2 = 1
    PROVE  /\ n % UIntMod \in Nat /\ n % UIntMod <= n /\ (n % UIntMod) % 2 = 1
           /\ n \in {1, 3} => n % UIntMod = n
<1>1. UIntMod \in Nat /\ UIntMod >= 4 /\ UIntMod % 2 = 0
  BY RcuAssumption
<1> DEFINE half == UIntMod \div 2
           q == n \div UIntMod
           m == n % UIntMod
<1>2. half \in Nat /\ UIntMod = 2 * half
  BY <1>1
<1>3. q \in Nat /\ m \in Nat /\ m < UIntMod /\ n = UIntMod * q + m
  BY <1>1
<1>4. m <= n
  <2>1. UIntMod * q \in Nat
    BY <1>1, <1>3
  <2> QED  BY <1>3, <2>1
<1>5. m % 2 = 1
  <2> DEFINE y == half * q
  <2>1. y \in Nat /\ UIntMod * q = 2 * y
    BY <1>2, <1>3
  <2>2. n = 2 * y + m
    BY <1>3, <2>1
  <2> HIDE DEF m, y
  <2> QED  BY <1>3, <2>1, <2>2
<1>6. n \in {1, 3} => m = n
  BY <1>1
<1> QED  BY <1>3, <1>4, <1>5, <1>6

(* The initial state satisfies the invariant.                              *)
LEMMA InitInv == Init => IInv
<1> SUFFICES ASSUME Init PROVE IInv  OBVIOUS
<1> USE RcuAssumption DEF Init
<1>1. TypeOK
  <2>1. wide \in BOOLEAN  BY Zenon
  <2>2. waiting \in [Readers -> BOOLEAN]  OBVIOUS
  <2>3. depth \in [Readers -> 0..MaxDepth]  OBVIOUS
  <2>4. rpc \in [Readers -> RPC] /\ wpc \in [Writers -> WPC]  BY DEF RPC, WPC
  <2>5. owed \in [Writers -> SUBSET Readers]  OBVIOUS
  <2>6. last \in BOOLEAN  BY Zenon
  <2>7. ctr \in [Readers -> Nat] /\ seen \in [Readers -> Nat]  OBVIOUS
  <2> HIDE DEF Init
  <2>8. /\ rcu_gp_ctr \in Nat \ {0} /\ ev = EV_SET
        /\ registry = {} /\ qsreaders = {} /\ todo = {}
        /\ sync_lock = None /\ reg_lock = None /\ moved = None
    BY DEF Init
  <2> QED  BY <2>1, <2>2, <2>3, <2>4, <2>5, <2>6, <2>7, <2>8 DEF TypeOK
<1>2. OneList /\ LocksAgree /\ AsideWhileWaiting
  BY DEF OneList, LocksAgree, AsideWhileWaiting, Waiting
<1>3. CountersAgree
  <2>1. 1 % 2 = 1  OBVIOUS
  <2> QED  BY <2>1 DEF CountersAgree
<1>4. OwedInside /\ OwedWaitedFor /\ GracePeriod
  BY DEF OwedInside, OwedWaitedFor, GracePeriod, Waiting
<1> QED  BY <1>1, <1>2, <1>3, <1>4 DEF IInv

(* Threads come and go outside sections; one that goes leaves whichever    *)
(* list it is in.                                                          *)
LEMMA RegisterStep ==
    ASSUME IInv, NEW r \in Readers,
           rcu_register_thread(r) \/ rcu_unregister_thread(r)
    PROVE  IInv'
<1> USE RcuAssumption DEF rcu_register_thread, rcu_unregister_thread, GotoR,
    GotoW, rdata, wdata
<1>1. TypeOK'
  BY DEF IInv, TypeOK, RPC, WPC, EV_SET, EV_FREE, EV_BUSY
<1>2. OneList'
  BY DEF IInv, TypeOK, OneList, LocksAgree, Waiting
<1>3. LocksAgree'
  BY DEF IInv, TypeOK, LocksAgree, Waiting
<1>4. CountersAgree'
  BY DEF IInv, TypeOK, CountersAgree
<1>5. OwedInside'
  BY DEF IInv, TypeOK, OwedInside, InSection, CountersAgree
<1>6. AsideWhileWaiting'
  BY DEF IInv, TypeOK, AsideWhileWaiting, Waiting, LocksAgree
<1>7. OwedWaitedFor'
  BY DEF IInv, TypeOK, OwedWaitedFor, Waiting, CountersAgree, OwedInside,
      AsideWhileWaiting, LocksAgree, OneList, InSection
<1>8. GracePeriod'
  BY DEF IInv, TypeOK, GracePeriod, Waiting, OwedWaitedFor, OwedInside,
      InSection, OneList, AsideWhileWaiting, LocksAgree
<1> QED  BY <1>1, <1>2, <1>3, <1>4, <1>5, <1>6, <1>7, <1>8 DEF IInv

(* The child of a fork has no grace period under way.                      *)
LEMMA ForkStep ==
    ASSUME IInv, NEW r \in Readers,
           ForkChild(r)
    PROVE  IInv'
<1> USE RcuAssumption DEF ForkChild, GotoR, GotoW, rdata, wdata
<1>1. TypeOK'
  BY DEF IInv, TypeOK, RPC, WPC, EV_SET, EV_FREE, EV_BUSY
<1>2. OneList'
  BY DEF IInv, TypeOK, OneList, LocksAgree, Waiting
<1>3. LocksAgree'
  BY DEF IInv, TypeOK, LocksAgree, Waiting
<1>4. CountersAgree'
  BY DEF IInv, TypeOK, CountersAgree
<1>5. OwedInside'
  BY DEF IInv, TypeOK, OwedInside, InSection, CountersAgree
<1>6. AsideWhileWaiting'
  BY DEF IInv, TypeOK, AsideWhileWaiting, Waiting, LocksAgree
<1>7. OwedWaitedFor'
  BY DEF IInv, TypeOK, OwedWaitedFor, Waiting, CountersAgree, OwedInside,
      AsideWhileWaiting, LocksAgree, OneList, InSection
<1>8. GracePeriod'
  BY DEF IInv, TypeOK, GracePeriod, Waiting, OwedWaitedFor, OwedInside,
      InSection, OneList, AsideWhileWaiting, LocksAgree
<1> QED  BY <1>1, <1>2, <1>3, <1>4, <1>5, <1>6, <1>7, <1>8 DEF IInv

(* The local copy of the counter is odd and not above the counter,         *)
(* truncated or not.                                                       *)
LEMMA EnterStep ==
    ASSUME IInv, NEW r \in Readers,
           rcu_read_lock(r)
    PROVE  IInv'
<1> USE RcuAssumption DEF rcu_read_lock, GotoR, GotoW, rdata, wdata
<1>1. TypeOK'
  BY OddTruncates DEF IInv, TypeOK, RPC, WPC, EV_SET, EV_FREE, EV_BUSY
<1>2. OneList'
  BY DEF IInv, TypeOK, OneList, LocksAgree, Waiting
<1>3. LocksAgree'
  BY DEF IInv, TypeOK, LocksAgree, Waiting
<1>4. CountersAgree'
  BY OddTruncates DEF IInv, TypeOK, CountersAgree
<1>5. OwedInside'
  BY DEF IInv, TypeOK, OwedInside, InSection, CountersAgree
<1>6. AsideWhileWaiting'
  BY DEF IInv, TypeOK, AsideWhileWaiting, Waiting, LocksAgree
<1>7. OwedWaitedFor'
  BY DEF IInv, TypeOK, OwedWaitedFor, Waiting, CountersAgree, OwedInside,
      AsideWhileWaiting, LocksAgree, OneList, InSection
<1>8. GracePeriod'
  BY DEF IInv, TypeOK, GracePeriod, Waiting, OwedWaitedFor, OwedInside,
      InSection, OneList, AsideWhileWaiting, LocksAgree
<1> QED  BY <1>1, <1>2, <1>3, <1>4, <1>5, <1>6, <1>7, <1>8 DEF IInv

(* A reader enters its section with a value it may have read long ago;     *)
(* nobody owes it a wait yet.                                              *)
LEMMA StoreStep ==
    ASSUME IInv, NEW r \in Readers,
           LockStore(r)
    PROVE  IInv'
<1> USE RcuAssumption DEF LockStore, GotoR, GotoW, rdata, wdata
<1>1. TypeOK'
  BY DEF IInv, TypeOK, RPC, WPC, EV_SET, EV_FREE, EV_BUSY
<1>2. OneList'
  BY DEF IInv, TypeOK, OneList, LocksAgree, Waiting
<1>3. LocksAgree'
  BY DEF IInv, TypeOK, LocksAgree, Waiting
<1>4. CountersAgree'
  BY DEF IInv, TypeOK, CountersAgree
<1>5. OwedInside'
  BY DEF IInv, TypeOK, OwedInside, InSection, CountersAgree
<1>6. AsideWhileWaiting'
  BY DEF IInv, TypeOK, AsideWhileWaiting, Waiting, LocksAgree
<1>7. OwedWaitedFor'
  BY DEF IInv, TypeOK, OwedWaitedFor, Waiting, CountersAgree, OwedInside,
      AsideWhileWaiting, LocksAgree, OneList, InSection
<1>8. GracePeriod'
  BY DEF IInv, TypeOK, GracePeriod, Waiting, OwedWaitedFor, OwedInside,
      InSection, OneList, AsideWhileWaiting, LocksAgree
<1> QED  BY <1>1, <1>2, <1>3, <1>4, <1>5, <1>6, <1>7, <1>8 DEF IInv

(* Nested sections only count.                                             *)
LEMMA NestStep ==
    ASSUME IInv, NEW r \in Readers,
           NestedLock(r) \/ NestedUnlock(r)
    PROVE  IInv'
<1> USE RcuAssumption DEF NestedLock, NestedUnlock, GotoR, GotoW, rdata, wdata
<1>1. TypeOK'
  BY DEF IInv, TypeOK, RPC, WPC, EV_SET, EV_FREE, EV_BUSY
<1>2. OneList'
  BY DEF IInv, TypeOK, OneList, LocksAgree, Waiting
<1>3. LocksAgree'
  BY DEF IInv, TypeOK, LocksAgree, Waiting
<1>4. CountersAgree'
  BY DEF IInv, TypeOK, CountersAgree
<1>5. OwedInside'
  BY DEF IInv, TypeOK, OwedInside, InSection, CountersAgree
<1>6. AsideWhileWaiting'
  BY DEF IInv, TypeOK, AsideWhileWaiting, Waiting, LocksAgree
<1>7. OwedWaitedFor'
  BY DEF IInv, TypeOK, OwedWaitedFor, Waiting, CountersAgree, OwedInside,
      AsideWhileWaiting, LocksAgree, OneList, InSection
<1>8. GracePeriod'
  BY DEF IInv, TypeOK, GracePeriod, Waiting, OwedWaitedFor, OwedInside,
      InSection, OneList, AsideWhileWaiting, LocksAgree
<1> QED  BY <1>1, <1>2, <1>3, <1>4, <1>5, <1>6, <1>7, <1>8 DEF IInv

(* A reader that leaves its section is owed nothing any more.              *)
LEMMA LeaveStep ==
    ASSUME IInv, NEW r \in Readers,
           rcu_read_unlock(r)
    PROVE  IInv'
<1> USE RcuAssumption DEF rcu_read_unlock, GotoR, GotoW, rdata, wdata
<1>1. TypeOK'
  BY DEF IInv, TypeOK, RPC, WPC, EV_SET, EV_FREE, EV_BUSY
<1>2. OneList'
  BY DEF IInv, TypeOK, OneList, LocksAgree, Waiting
<1>3. LocksAgree'
  BY DEF IInv, TypeOK, LocksAgree, Waiting
<1>4. CountersAgree'
  BY DEF IInv, TypeOK, CountersAgree
<1>5. OwedInside'
  BY DEF IInv, TypeOK, OwedInside, InSection, CountersAgree
<1>6. AsideWhileWaiting'
  BY DEF IInv, TypeOK, AsideWhileWaiting, Waiting, LocksAgree
<1>7. OwedWaitedFor'
  BY DEF IInv, TypeOK, OwedWaitedFor, Waiting, CountersAgree, OwedInside,
      AsideWhileWaiting, LocksAgree, OneList, InSection
<1>8. GracePeriod'
  BY DEF IInv, TypeOK, GracePeriod, Waiting, OwedWaitedFor, OwedInside,
      InSection, OneList, AsideWhileWaiting, LocksAgree
<1> QED  BY <1>1, <1>2, <1>3, <1>4, <1>5, <1>6, <1>7, <1>8 DEF IInv

(* What follows in rcu_read_unlock touches the flags and the event only.   *)
LEMMA ReportStep ==
    ASSUME IInv, NEW r \in Readers,
           UnlockRead(r) \/ UnlockClear(r) \/ SetRead(r) \/ SetXchg(r) \/ SetWake(r)
    PROVE  IInv'
<1> USE RcuAssumption DEF UnlockRead, UnlockClear, SetRead, SetXchg, SetWake,
    GotoR, GotoW, rdata, wdata
<1>1. TypeOK'
  <2>1. rpc' \in [Readers -> RPC]
    BY DEF IInv, TypeOK, RPC
  <2>2. wpc' \in [Writers -> WPC]
    BY DEF IInv, TypeOK, WPC
  <2>3. waiting' \in [Readers -> BOOLEAN]
    BY DEF IInv, TypeOK
  <2>4. ev' \in {EV_SET, EV_FREE, EV_BUSY}
    BY DEF IInv, TypeOK
  <2> QED  BY <2>1, <2>2, <2>3, <2>4 DEF IInv, TypeOK
<1>2. OneList'
  BY DEF IInv, TypeOK, OneList, LocksAgree, Waiting
<1>3. LocksAgree'
  BY DEF IInv, TypeOK, LocksAgree, Waiting
<1>4. CountersAgree'
  BY DEF IInv, TypeOK, CountersAgree
<1>5. OwedInside'
  BY DEF IInv, TypeOK, OwedInside, InSection, CountersAgree
<1>6. AsideWhileWaiting'
  BY DEF IInv, TypeOK, AsideWhileWaiting, Waiting, LocksAgree
<1>7. OwedWaitedFor'
  BY DEF IInv, TypeOK, OwedWaitedFor, Waiting, CountersAgree, OwedInside,
      AsideWhileWaiting, LocksAgree, OneList, InSection
<1>8. GracePeriod'
  BY DEF IInv, TypeOK, GracePeriod, Waiting, OwedWaitedFor, OwedInside,
      InSection, OneList, AsideWhileWaiting, LocksAgree
<1> QED  BY <1>1, <1>2, <1>3, <1>4, <1>5, <1>6, <1>7, <1>8 DEF IInv

(* A call of synchronize_rcu begins to owe the readers that are in         *)
(* sections.                                                               *)
LEMMA CallStep ==
    ASSUME IInv, NEW w \in Writers,
           synchronize_rcu(w) \/ SyncLock(w)
    PROVE  IInv'
<1> USE RcuAssumption DEF synchronize_rcu, SyncLock, GotoR, GotoW, rdata, wdata
<1>1. TypeOK'
  <2>1. InSection \in SUBSET Readers
    BY DEF InSection
  <2>2. owed' \in [Writers -> SUBSET Readers]
    BY <2>1 DEF IInv, TypeOK
  <2>3. wpc' \in [Writers -> WPC]
    BY DEF IInv, TypeOK, WPC
  <2>4. sync_lock' \in Writers \cup {None}
    BY DEF IInv, TypeOK
  <2> QED  BY <2>2, <2>3, <2>4 DEF IInv, TypeOK
<1>2. OneList'
  BY DEF IInv, TypeOK, OneList, LocksAgree, Waiting
<1>3. LocksAgree'
  BY DEF IInv, TypeOK, LocksAgree, Waiting
<1>4. CountersAgree'
  BY DEF IInv, TypeOK, CountersAgree
<1>5. OwedInside'
  BY DEF IInv, TypeOK, OwedInside, InSection, CountersAgree
<1>6. AsideWhileWaiting'
  BY DEF IInv, TypeOK, AsideWhileWaiting, Waiting, LocksAgree
<1>7. OwedWaitedFor'
  BY DEF IInv, TypeOK, OwedWaitedFor, Waiting, CountersAgree, OwedInside,
      AsideWhileWaiting, LocksAgree, OneList, InSection
<1>8. GracePeriod'
  BY DEF IInv, TypeOK, GracePeriod, Waiting, OwedWaitedFor, OwedInside,
      InSection, OneList, AsideWhileWaiting, LocksAgree
<1> QED  BY <1>1, <1>2, <1>3, <1>4, <1>5, <1>6, <1>7, <1>8 DEF IInv

(* The first change of rcu_gp_ctr.                                         *)
LEMMA ChangeStep ==
    ASSUME IInv, NEW w \in Writers,
           RegistryLock(w)
    PROVE  IInv'
<1> USE RcuAssumption DEF RegistryLock, NextCtr, Flip, GotoR, GotoW, rdata,
    wdata
<1>1. TypeOK'
  <2>1. rcu_gp_ctr' \in Nat \ {0}
    BY DEF IInv, TypeOK, CountersAgree
  <2>2. last' \in BOOLEAN
    BY Zenon DEF IInv, TypeOK
  <2>3. wpc' \in [Writers -> WPC]
    BY DEF IInv, TypeOK, WPC
  <2>4. /\ registry' \in SUBSET Readers /\ qsreaders' \in SUBSET Readers
        /\ sync_lock' \in Writers \cup {None} /\ reg_lock' \in Writers \cup {None}
    BY DEF IInv, TypeOK
  <2> QED  BY <2>1, <2>2, <2>3, <2>4 DEF IInv, TypeOK
<1>2. OneList'
  BY DEF IInv, TypeOK, OneList, LocksAgree, Waiting
<1>3. LocksAgree'
  BY DEF IInv, TypeOK, LocksAgree, Waiting
<1>4. CountersAgree'
  BY DEF IInv, TypeOK, CountersAgree
<1>5. OwedInside'
  BY DEF IInv, TypeOK, OwedInside, InSection, CountersAgree
<1>6. AsideWhileWaiting'
  BY DEF IInv, TypeOK, AsideWhileWaiting, Waiting, LocksAgree
<1>7. OwedWaitedFor'
  BY DEF IInv, TypeOK, OwedWaitedFor, Waiting, CountersAgree, OwedInside,
      AsideWhileWaiting, LocksAgree, OneList, InSection
<1>8. GracePeriod'
  BY DEF IInv, TypeOK, GracePeriod, Waiting, OwedWaitedFor, OwedInside,
      InSection, OneList, AsideWhileWaiting, LocksAgree
<1> QED  BY <1>1, <1>2, <1>3, <1>4, <1>5, <1>6, <1>7, <1>8 DEF IInv

(* Between the loops of wait_for_readers.                                  *)
LEMMA MarkStep ==
    ASSUME IInv, NEW w \in Writers,
           EventReset(w) \/ MarkDone(w)
    PROVE  IInv'
<1> USE RcuAssumption DEF EventReset, MarkDone, GotoR, GotoW, rdata, wdata
<1>1. TypeOK'
  BY DEF IInv, TypeOK, RPC, WPC, EV_SET, EV_FREE, EV_BUSY
<1>2. OneList'
  BY DEF IInv, TypeOK, OneList, LocksAgree, Waiting
<1>3. LocksAgree'
  BY DEF IInv, TypeOK, LocksAgree, Waiting
<1>4. CountersAgree'
  BY DEF IInv, TypeOK, CountersAgree
<1>5. OwedInside'
  BY DEF IInv, TypeOK, OwedInside, InSection, CountersAgree
<1>6. AsideWhileWaiting'
  BY DEF IInv, TypeOK, AsideWhileWaiting, Waiting, LocksAgree
<1>7. OwedWaitedFor'
  BY DEF IInv, TypeOK, OwedWaitedFor, Waiting, CountersAgree, OwedInside,
      AsideWhileWaiting, LocksAgree, OneList, InSection
<1>8. GracePeriod'
  BY DEF IInv, TypeOK, GracePeriod, Waiting, OwedWaitedFor, OwedInside,
      InSection, OneList, AsideWhileWaiting, LocksAgree
<1> QED  BY <1>1, <1>2, <1>3, <1>4, <1>5, <1>6, <1>7, <1>8 DEF IInv

(* Looking at one reader.                                                  *)
LEMMA CheckStep ==
    ASSUME IInv, NEW w \in Writers, NEW r \in Readers,
           Mark(w, r) \/ Check(w, r)
    PROVE  IInv'
<1> USE RcuAssumption DEF Mark, Check, rcu_gp_ongoing, GotoR, GotoW, rdata,
    wdata
<1>1. TypeOK'
  BY DEF IInv, TypeOK, RPC, WPC, EV_SET, EV_FREE, EV_BUSY
<1>2. OneList'
  BY DEF IInv, TypeOK, OneList, LocksAgree, Waiting
<1>3. LocksAgree'
  BY DEF IInv, TypeOK, LocksAgree, Waiting
<1>4. CountersAgree'
  BY DEF IInv, TypeOK, CountersAgree
<1>5. OwedInside'
  BY DEF IInv, TypeOK, OwedInside, InSection, CountersAgree
<1>6. AsideWhileWaiting'
  BY DEF IInv, TypeOK, AsideWhileWaiting, Waiting, LocksAgree
<1>7. OwedWaitedFor'
  BY DEF IInv, TypeOK, OwedWaitedFor, Waiting, CountersAgree, OwedInside,
      AsideWhileWaiting, LocksAgree, OneList, InSection
<1>8. GracePeriod'
  BY DEF IInv, TypeOK, GracePeriod, Waiting, OwedWaitedFor, OwedInside,
      InSection, OneList, AsideWhileWaiting, LocksAgree
<1> QED  BY <1>1, <1>2, <1>3, <1>4, <1>5, <1>6, <1>7, <1>8 DEF IInv

(* The end of a round.                                                     *)
LEMMA UnmarkStep ==
    ASSUME IInv, NEW w \in Writers,
           Unmark(w) \/ CheckSleep(w)
    PROVE  IInv'
<1> USE RcuAssumption DEF Unmark, CheckSleep, GotoR, GotoW, rdata, wdata
<1>1. TypeOK'
  BY DEF IInv, TypeOK, RPC, WPC, EV_SET, EV_FREE, EV_BUSY
<1>2. OneList'
  BY DEF IInv, TypeOK, OneList, LocksAgree, Waiting
<1>3. LocksAgree'
  BY DEF IInv, TypeOK, LocksAgree, Waiting
<1>4. CountersAgree'
  BY DEF IInv, TypeOK, CountersAgree
<1>5. OwedInside'
  BY DEF IInv, TypeOK, OwedInside, InSection, CountersAgree
<1>6. AsideWhileWaiting'
  BY DEF IInv, TypeOK, AsideWhileWaiting, Waiting, LocksAgree
<1>7. OwedWaitedFor'
  BY DEF IInv, TypeOK, OwedWaitedFor, Waiting, CountersAgree, OwedInside,
      AsideWhileWaiting, LocksAgree, OneList, InSection
<1>8. GracePeriod'
  BY DEF IInv, TypeOK, GracePeriod, Waiting, OwedWaitedFor, OwedInside,
      InSection, OneList, AsideWhileWaiting, LocksAgree
<1> QED  BY <1>1, <1>2, <1>3, <1>4, <1>5, <1>6, <1>7, <1>8 DEF IInv

(* All readers are set aside: the second change, or the end of the grace   *)
(* period.                                                                 *)
LEMMA DoneStep ==
    ASSUME IInv, NEW w \in Writers,
           CheckDone(w)
    PROVE  IInv'
<1> USE RcuAssumption DEF CheckDone, NextCtr, Flip, GotoR, GotoW, rdata, wdata
<1>1. TypeOK'
  <2>1. rcu_gp_ctr' \in Nat \ {0}
    BY DEF IInv, TypeOK, CountersAgree
  <2>2. last' \in BOOLEAN
    BY Zenon DEF IInv, TypeOK
  <2>3. wpc' \in [Writers -> WPC]
    BY DEF IInv, TypeOK, WPC
  <2>4. /\ registry' \in SUBSET Readers /\ qsreaders' \in SUBSET Readers
        /\ sync_lock' \in Writers \cup {None} /\ reg_lock' \in Writers \cup {None}
    BY DEF IInv, TypeOK
  <2> QED  BY <2>1, <2>2, <2>3, <2>4 DEF IInv, TypeOK
<1>2. OneList'
  BY DEF IInv, TypeOK, OneList, LocksAgree, Waiting
<1>3. LocksAgree'
  BY DEF IInv, TypeOK, LocksAgree, Waiting
<1>4. CountersAgree'
  BY DEF IInv, TypeOK, CountersAgree
<1>5. OwedInside'
  BY DEF IInv, TypeOK, OwedInside, InSection, CountersAgree
<1>6. AsideWhileWaiting'
  BY DEF IInv, TypeOK, AsideWhileWaiting, Waiting, LocksAgree
<1>7. OwedWaitedFor'
  BY DEF IInv, TypeOK, OwedWaitedFor, Waiting, CountersAgree, OwedInside,
      AsideWhileWaiting, LocksAgree, OneList, InSection
<1>8. GracePeriod'
  BY DEF IInv, TypeOK, GracePeriod, Waiting, OwedWaitedFor, OwedInside,
      InSection, OneList, AsideWhileWaiting, LocksAgree
<1> QED  BY <1>1, <1>2, <1>3, <1>4, <1>5, <1>6, <1>7, <1>8 DEF IInv

(* Waiting for the event.                                                  *)
LEMMA WaitStep ==
    ASSUME IInv, NEW w \in Writers,
           WaitLoad(w) \/ WaitCas(w) \/ WaitFutex(w) \/ Relock(w)
    PROVE  IInv'
<1> USE RcuAssumption DEF WaitLoad, WaitCas, WaitFutex, Relock, GotoR, GotoW,
    rdata, wdata
<1>1. TypeOK'
  BY DEF IInv, TypeOK, RPC, WPC, EV_SET, EV_FREE, EV_BUSY
<1>2. OneList'
  BY DEF IInv, TypeOK, OneList, LocksAgree, Waiting
<1>3. LocksAgree'
  BY DEF IInv, TypeOK, LocksAgree, Waiting
<1>4. CountersAgree'
  BY DEF IInv, TypeOK, CountersAgree
<1>5. OwedInside'
  BY DEF IInv, TypeOK, OwedInside, InSection, CountersAgree
<1>6. AsideWhileWaiting'
  BY DEF IInv, TypeOK, AsideWhileWaiting, Waiting, LocksAgree
<1>7. OwedWaitedFor'
  BY DEF IInv, TypeOK, OwedWaitedFor, Waiting, CountersAgree, OwedInside,
      AsideWhileWaiting, LocksAgree, OneList, InSection
<1>8. GracePeriod'
  BY DEF IInv, TypeOK, GracePeriod, Waiting, OwedWaitedFor, OwedInside,
      InSection, OneList, AsideWhileWaiting, LocksAgree
<1> QED  BY <1>1, <1>2, <1>3, <1>4, <1>5, <1>6, <1>7, <1>8 DEF IInv

(* Every step preserves the invariant.                                     *)
LEMMA StepInv == IInv /\ [Next]_vars => IInv'
<1> SUFFICES ASSUME IInv, [Next]_vars PROVE IInv'  OBVIOUS
<1>1. CASE UNCHANGED vars
  BY <1>1 DEF vars, rdata, wdata, IInv, TypeOK, OneList, LocksAgree, CountersAgree,
      OwedInside, AsideWhileWaiting, OwedWaitedFor, GracePeriod, InSection, Waiting
<1>2. CASE Next
  <2>1. ASSUME NEW r \in Readers,
               \/ rcu_register_thread(r) \/ rcu_unregister_thread(r) \/ ForkChild(r)
               \/ rcu_read_lock(r) \/ NestedLock(r) \/ NestedUnlock(r)
               \/ rcu_read_unlock(r) \/ ReaderStep(r)
        PROVE  IInv'
    BY <2>1, RegisterStep, ForkStep, EnterStep, StoreStep, NestStep, LeaveStep,
       ReportStep DEF ReaderStep
  <2>2. ASSUME NEW w \in Writers, synchronize_rcu(w) \/ WriterStep(w)
        PROVE  IInv'
    BY <2>2, CallStep, ChangeStep, MarkStep, CheckStep, UnmarkStep, DoneStep, WaitStep
    DEF WriterStep
  <2> QED  BY <1>2, <2>1, <2>2 DEF Next
<1> QED  BY <1>1, <1>2

(* The invariant holds throughout.                                         *)
THEOREM Invariance == Spec => []IInv
<1>1. Init => IInv  BY InitInv
<1>2. IInv /\ [Next]_vars => IInv'  BY StepInv
<1> QED  BY <1>1, <1>2, PTL DEF Spec

(* Type correctness of the RCU state.                                      *)
THEOREM TypeCorrect == Spec => []TypeOK
<1>1. IInv => TypeOK  BY DEF IInv
<1> QED  BY <1>1, Invariance, PTL

(* synchronize_rcu waits for every critical section that had begun before  *)
(* it was called, with one phase or with two.                              *)
THEOREM GracePeriodHolds == Spec => []GracePeriod
<1>1. IInv => GracePeriod  BY DEF IInv
<1> QED  BY <1>1, Invariance, PTL

(* wait_for_readers and (un)registration keep every reader in one list.    *)
THEOREM OneListHolds == Spec => []OneList
<1>1. IInv => OneList  BY DEF IInv
<1> QED  BY <1>1, Invariance, PTL
==============================================================================
