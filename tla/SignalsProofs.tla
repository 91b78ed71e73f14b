---------------------------- MODULE SignalsProofs ----------------------------
(***************************************************************************)
(* For any set of signals, actions and masks: the handler, the blocking of *)
(* host signals and the rewinding of safe_syscall_base together lose no    *)
(* signal, sleep on none and repeat no system call.                        *)
(***************************************************************************)
EXTENDS Signals, TLAPS

Action == [h : {"dfl", "ign", "fn"}, mask : SUBSET SIG,
           nodefer : BOOLEAN, resethand : BOOLEAN]

(* Setting the handler of one entry keeps a table of actions one.          *)
LEMMA SetHandler ==
    ASSUME NEW t \in [SIG -> Action], NEW s \in SIG
    PROVE  /\ [t EXCEPT ![s].h = "dfl"] \in [SIG -> Action]
           /\ [t EXCEPT ![s].h = "dfl"][s].h = "dfl"
<1>1. [t[s] EXCEPT !.h = "dfl"] \in Action
  BY DEF Action
<1> QED  BY <1>1 DEF Action

(* The initial state satisfies the invariant.                              *)
LEMMA InitInv == Init => IInv
<1> SUFFICES ASSUME Init PROVE IInv  OBVIOUS
<1> USE SignalsAssumption DEF Init
<1>1. act \in [SIG -> Action]
  <2>1. Plain("dfl") \in Action /\ Plain("ign") \in Action
    BY DEF Plain, Action
  <2> QED  BY <2>1
<1>2. /\ in_sigsuspend \in BOOLEAN /\ signal_pending \in BOOLEAN
      /\ done \in BOOLEAN /\ owe \in BOOLEAN
  BY Zenon
<1>3. TypeOK
  BY <1>1, <1>2 DEF TypeOK, PC, None, Action
<1>4. FlagAt /\ CallAt /\ MasksOrdered /\ Scanned /\ OweRecorded /\ NothingForgotten
  BY DEF FlagAt, CallAt, MasksOrdered, Scanned, OweRecorded, NothingForgotten, Inside
<1> QED  BY <1>3, <1>4 DEF IInv

(* What the kernel does without the handler.                               *)
LEMMA KernelStep ==
    ASSUME IInv, NEW s \in SIG,
           Send(s) \/ HostDefault(s)
    PROVE  IInv'
<1> USE SignalsAssumption DEF Send, HostDefault, guest, tables, call
<1>1. TypeOK'
  <2>1. /\ in_sigsuspend' \in BOOLEAN /\ signal_pending' \in BOOLEAN
        /\ done' \in BOOLEAN /\ owe' \in BOOLEAN
    BY Zenon DEF IInv, TypeOK
  <2>2. pc' \in PC /\ sys' \in {"plain", "suspend"} /\ res' \in {"ok", "eintr", "restart"}
    BY DEF IInv, TypeOK, PC, Inside
  <2>3. /\ signal_mask' \in SUBSET SIG /\ sigsuspend_mask' \in SUBSET SIG
        /\ sigtab' \in SUBSET SIG /\ sync_signal' \in Sync \cup {None}
        /\ hostact' \in SUBSET SIG
        /\ host_mask' \in SUBSET SIG /\ host_pending' \in SUBSET SIG
    BY DEF IInv, TypeOK, None
  <2>4. act' \in [SIG -> Action]
    BY DEF IInv, TypeOK, Action
  <2> QED  BY <2>1, <2>2, <2>3, <2>4 DEF TypeOK, Action
<1>0. Blocked(signal_mask)' = Blocked(signal_mask)
  BY DEF Blocked
<1>2. FlagAt'
  BY DEF IInv, TypeOK, FlagAt, Inside
<1>3. CallAt'
  BY DEF IInv, TypeOK, CallAt, Inside, FlagAt
<1>4. MasksOrdered'
  BY DEF IInv, TypeOK, MasksOrdered, CallAt, Inside
<1>5. Scanned'
  BY <1>0 DEF IInv, Scanned
<1>6. OweRecorded'
  <2>1. CASE pc' = pc
    <3>1. UNCHANGED <<pc, owe, sys, res, signal_pending, sigtab, sigsuspend_mask>>
      BY <2>1
    <3> HIDE DEF Send, HostDefault
    <3> QED  BY <1>0, <3>1 DEF IInv, OweRecorded
  <2>2. CASE pc' = "dead"
    BY <2>2 DEF OweRecorded
  <2> QED  BY <2>1, <2>2
<1>7. ~WideMasks => NothingForgotten'
  BY DEF IInv, TypeOK, NothingForgotten, FlagAt, CallAt, Scanned, MasksOrdered,
      Blocked, Inside
<1> QED  BY <1>1, <1>2, <1>3, <1>4, <1>5, <1>6, <1>7 DEF IInv

(* The handler: wherever it interrupts the thread, the flag is up when the *)
(* thread goes on, and the thread is not left before a syscall instruction.*)
LEMMA HandlerStep ==
    ASSUME IInv, NEW s \in SIG, host_signal_handler(s)
    PROVE  IInv'
<1> USE SignalsAssumption
<1>1. /\ s \in host_pending \ Effective /\ pc # "dead"
      /\ host_pending' = host_pending \ {s} /\ sigtab' = sigtab \cup {s}
      /\ signal_pending' = TRUE /\ host_mask' = SIG \ Unblockable
      /\ owe' = (owe \/ pc = "pause" \/ (pc = "kernel" /\ sys = "suspend"))
      /\ UNCHANGED <<sys, done, guest, sync_signal, tables>>
  BY DEF host_signal_handler
<1>2. TypeOK /\ pc \in PC \ {"dead", "scan", "for", "unblock"}
  BY <1>1 DEF IInv, TypeOK, FlagAt, Effective
<1>3. /\ pc \in {"guest", "start", "end", "ret", "loop"} => pc' = pc
      /\ pc \in Inside => pc' = "start"
      /\ pc = "pause" => pc' = "loop"
      /\ pc = "kernel" => \/ pc' = "end" /\ res' = "eintr"
                          \/ pc' = "start" /\ res' = res /\ sys = "plain"
      /\ pc # "kernel" => res' = res
  <2>1. PICK p \in CASE pc = "kernel" /\ sys = "plain"   -> {"syscall", "end"}
                      [] pc = "kernel" /\ sys = "suspend" -> {"end"}
                      [] pc = "pause"                     -> {"loop"}
                      [] OTHER                            -> {pc} :
           /\ pc' = rewind_if_in_safe_syscall(p)
           /\ res' = IF pc = "kernel" /\ p = "end" THEN "eintr" ELSE res
    BY DEF host_signal_handler
  <2>2. sys \in {"plain", "suspend"}
    BY <1>2 DEF TypeOK
  <2>3. CASE pc = "kernel"
    <3>1. p = "end" \/ (p = "syscall" /\ sys = "plain")
      BY <2>1, <2>2, <2>3
    <3> QED  BY <2>1, <2>3, <3>1 DEF rewind_if_in_safe_syscall, Inside
  <2>4. CASE pc = "pause"
    <3>1. p = "loop"
      BY <2>1, <2>4
    <3> QED  BY <2>1, <2>4, <3>1 DEF rewind_if_in_safe_syscall, Inside
  <2>5. CASE pc \notin {"kernel", "pause"}
    <3>1. p = pc
      BY <2>1, <2>5
    <3> QED  BY <2>1, <2>5, <3>1 DEF rewind_if_in_safe_syscall, Inside
  <2> QED  BY <2>3, <2>4, <2>5
<1>4. /\ pc' \in {"guest", "start", "end", "ret", "loop"}
      /\ res' \in {"ok", "eintr", "restart"}
  BY <1>2, <1>3 DEF PC, Inside, TypeOK
<1>5. TypeOK'
  <2>1. owe' \in BOOLEAN /\ signal_pending' \in BOOLEAN
    BY <1>1
  <2>2. /\ host_mask' \in SUBSET SIG /\ sigtab' \in SUBSET SIG
        /\ host_pending' \in SUBSET SIG
    BY <1>1, <1>2 DEF TypeOK
  <2> QED  BY <1>1, <1>2, <1>4, <2>1, <2>2 DEF TypeOK, PC, guest, tables
<1>6. FlagAt' /\ Scanned' /\ NothingForgotten'
  BY <1>1, <1>4 DEF FlagAt, Scanned, NothingForgotten, Inside
<1>7. CallAt'
  BY <1>1, <1>2, <1>3 DEF IInv, CallAt, guest, PC, Inside
<1>8. MasksOrdered'
  BY <1>1, <1>4 DEF IInv, MasksOrdered, guest
<1>9. OweRecorded'
  <2>1. Blocked(signal_mask)' = Blocked(signal_mask)
    BY <1>1 DEF guest, Blocked
  <2>2. CASE owe
    BY <1>1, <1>2, <1>3, <2>1, <2>2 DEF IInv, OweRecorded, guest, Inside, PC
  <2>3. CASE pc = "pause"
    <3>1. s \notin signal_mask /\ ~in_sigsuspend
      BY <1>1, <2>3 DEF IInv, CallAt, Effective
    <3>2. s \notin Blocked(signal_mask)
      BY <3>1 DEF Blocked
    <3> QED  BY <1>1, <1>3, <2>1, <2>3, <3>2 DEF OweRecorded
  <2>4. CASE pc = "kernel" /\ sys = "suspend"
    <3>1. s \notin sigsuspend_mask
      BY <1>1, <2>4 DEF Effective
    <3>2. pc' = "end" /\ res' = "eintr"
      BY <1>3, <2>4
    <3> QED  BY <1>1, <2>4, <3>1, <3>2 DEF OweRecorded, guest
  <2> QED  BY <1>1, <2>2, <2>3, <2>4 DEF OweRecorded
<1> QED  BY <1>5, <1>6, <1>7, <1>8, <1>9 DEF IInv

(* Guest code stops, or raises an exception.                               *)
LEMMA ExceptionStep ==
    ASSUME IInv, NEW s \in SIG,
           cpu_exit \/ queue_signal(s) \/ host_sigbus_handler(s)
    PROVE  IInv'
<1> USE SignalsAssumption DEF cpu_exit, queue_signal, host_sigbus_handler,
    guest, tables, call
<1>1. TypeOK'
  <2>1. /\ in_sigsuspend' \in BOOLEAN /\ signal_pending' \in BOOLEAN
        /\ done' \in BOOLEAN /\ owe' \in BOOLEAN
    BY Zenon DEF IInv, TypeOK
  <2>2. pc' \in PC /\ sys' \in {"plain", "suspend"} /\ res' \in {"ok", "eintr", "restart"}
    BY DEF IInv, TypeOK, PC, Inside
  <2>3. /\ signal_mask' \in SUBSET SIG /\ sigsuspend_mask' \in SUBSET SIG
        /\ sigtab' \in SUBSET SIG /\ sync_signal' \in Sync \cup {None}
        /\ hostact' \in SUBSET SIG
        /\ host_mask' \in SUBSET SIG /\ host_pending' \in SUBSET SIG
    BY DEF IInv, TypeOK, None
  <2>4. act' \in [SIG -> Action]
    BY DEF IInv, TypeOK, Action
  <2> QED  BY <2>1, <2>2, <2>3, <2>4 DEF TypeOK, Action
<1>2. FlagAt'
  BY DEF IInv, TypeOK, FlagAt, Inside
<1>3. CallAt'
  BY DEF IInv, TypeOK, CallAt, Inside, FlagAt
<1>4. MasksOrdered'
  BY DEF IInv, TypeOK, MasksOrdered, CallAt, Inside
<1>5. Scanned'
  BY DEF IInv, TypeOK, Scanned, Blocked, FlagAt, CallAt, Inside,
      NothingForgotten
<1>6. OweRecorded'
  BY DEF IInv, TypeOK, OweRecorded, Blocked, FlagAt, CallAt, Inside, Effective,
      NothingForgotten
<1>7. ~WideMasks => NothingForgotten'
  BY DEF IInv, TypeOK, NothingForgotten, FlagAt, CallAt, Scanned, MasksOrdered,
      Blocked, Inside
<1> QED  BY <1>1, <1>2, <1>3, <1>4, <1>5, <1>6, <1>7 DEF IInv

(* The guest changes its mask: every signal is blocked until the next      *)
(* scan.                                                                   *)
LEMMA ProcmaskStep ==
    ASSUME IInv, NEW m \in Masks,
           do_sigprocmask(m)
    PROVE  IInv'
<1> USE SignalsAssumption DEF do_sigprocmask, block_signals, Restart, guest,
    tables, call
<1>1. TypeOK'
  <2>1. /\ in_sigsuspend' \in BOOLEAN /\ signal_pending' \in BOOLEAN
        /\ done' \in BOOLEAN /\ owe' \in BOOLEAN
    BY Zenon DEF IInv, TypeOK
  <2>2. pc' \in PC /\ sys' \in {"plain", "suspend"} /\ res' \in {"ok", "eintr", "restart"}
    BY DEF IInv, TypeOK, PC, Inside
  <2>3. /\ signal_mask' \in SUBSET SIG /\ sigsuspend_mask' \in SUBSET SIG
        /\ sigtab' \in SUBSET SIG /\ sync_signal' \in Sync \cup {None}
        /\ hostact' \in SUBSET SIG
        /\ host_mask' \in SUBSET SIG /\ host_pending' \in SUBSET SIG
    <3>1. m \in SUBSET SIG
      OBVIOUS
    <3>2. signal_mask' \in {signal_mask, signal_mask \cup m, signal_mask \ m, m}
      OBVIOUS
    <3>3. signal_mask' \in SUBSET SIG
      BY <3>1, <3>2 DEF IInv, TypeOK
    <3> QED  BY <3>3 DEF IInv, TypeOK, None
  <2>4. act' \in [SIG -> Action]
    BY DEF IInv, TypeOK, Action
  <2> QED  BY <2>1, <2>2, <2>3, <2>4 DEF TypeOK, Action
<1>2. FlagAt'
  BY DEF IInv, TypeOK, FlagAt, Inside
<1>3. CallAt'
  BY DEF IInv, TypeOK, CallAt, Inside, FlagAt
<1>4. MasksOrdered'
  BY DEF IInv, TypeOK, MasksOrdered, CallAt, Inside
<1>5. Scanned'
  BY DEF IInv, TypeOK, Scanned, Blocked, FlagAt, CallAt, Inside,
      NothingForgotten
<1>6. OweRecorded'
  BY DEF IInv, TypeOK, OweRecorded, Blocked, FlagAt, CallAt, Inside, Effective,
      NothingForgotten
<1>7. ~WideMasks => NothingForgotten'
  BY DEF IInv, TypeOK, NothingForgotten, FlagAt, CallAt, Scanned, MasksOrdered,
      Blocked, Inside
<1> QED  BY <1>1, <1>2, <1>3, <1>4, <1>5, <1>6, <1>7 DEF IInv

(* The guest installs an action.                                           *)
LEMMA SigactionStep ==
    ASSUME IInv, NEW s \in SIG, NEW a \in Actions,
           do_sigaction(s, a)
    PROVE  IInv'
<1> USE SignalsAssumption DEF do_sigaction, block_signals, Restart, guest,
    tables, call
<1>1. TypeOK'
  <2>1. /\ in_sigsuspend' \in BOOLEAN /\ signal_pending' \in BOOLEAN
        /\ done' \in BOOLEAN /\ owe' \in BOOLEAN
    BY Zenon DEF IInv, TypeOK
  <2>2. pc' \in PC /\ sys' \in {"plain", "suspend"} /\ res' \in {"ok", "eintr", "restart"}
    BY DEF IInv, TypeOK, PC, Inside
  <2>3. /\ signal_mask' \in SUBSET SIG /\ sigsuspend_mask' \in SUBSET SIG
        /\ sigtab' \in SUBSET SIG /\ sync_signal' \in Sync \cup {None}
        /\ host_mask' \in SUBSET SIG
    BY DEF IInv, TypeOK, None
  <2>5. hostact' \in {hostact, hostact \cup {s}, hostact \ {s}}
    OBVIOUS
  <2>6. host_pending' \in {host_pending, host_pending \ {s}}
    OBVIOUS
  <2>7. hostact' \in SUBSET SIG /\ host_pending' \in SUBSET SIG
    BY <2>5, <2>6 DEF IInv, TypeOK
  <2>4. act' \in [SIG -> Action]
    BY DEF IInv, TypeOK, Action
  <2> QED  BY <2>1, <2>2, <2>3, <2>4, <2>7 DEF TypeOK, Action
<1>2. FlagAt'
  BY DEF IInv, TypeOK, FlagAt, Inside
<1>3. CallAt'
  BY DEF IInv, TypeOK, CallAt, Inside, FlagAt
<1>4. MasksOrdered'
  BY DEF IInv, TypeOK, MasksOrdered, CallAt, Inside
<1>5. Scanned'
  BY DEF IInv, TypeOK, Scanned, Blocked, FlagAt, CallAt, Inside,
      NothingForgotten
<1>6. OweRecorded'
  BY DEF IInv, TypeOK, OweRecorded, Blocked, FlagAt, CallAt, Inside, Effective,
      NothingForgotten
<1>7. ~WideMasks => NothingForgotten'
  BY DEF IInv, TypeOK, NothingForgotten, FlagAt, CallAt, Scanned, MasksOrdered,
      Blocked, Inside
<1> QED  BY <1>1, <1>2, <1>3, <1>4, <1>5, <1>6, <1>7 DEF IInv

(* The guest returns from a handler.                                       *)
LEMMA SigreturnStep ==
    ASSUME IInv, NEW m \in Masks,
           do_rt_sigreturn(m)
    PROVE  IInv'
<1> USE SignalsAssumption DEF do_rt_sigreturn, block_signals, Restart, guest,
    tables, call
<1>1. TypeOK'
  <2>1. /\ in_sigsuspend' \in BOOLEAN /\ signal_pending' \in BOOLEAN
        /\ done' \in BOOLEAN /\ owe' \in BOOLEAN
    BY Zenon DEF IInv, TypeOK
  <2>2. pc' \in PC /\ sys' \in {"plain", "suspend"} /\ res' \in {"ok", "eintr", "restart"}
    BY DEF IInv, TypeOK, PC, Inside
  <2>3. /\ signal_mask' \in SUBSET SIG /\ sigsuspend_mask' \in SUBSET SIG
        /\ sigtab' \in SUBSET SIG /\ sync_signal' \in Sync \cup {None}
        /\ hostact' \in SUBSET SIG
        /\ host_mask' \in SUBSET SIG /\ host_pending' \in SUBSET SIG
    BY DEF IInv, TypeOK, None
  <2>4. act' \in [SIG -> Action]
    BY DEF IInv, TypeOK, Action
  <2> QED  BY <2>1, <2>2, <2>3, <2>4 DEF TypeOK, Action
<1>2. FlagAt'
  BY DEF IInv, TypeOK, FlagAt, Inside
<1>3. CallAt'
  BY DEF IInv, TypeOK, CallAt, Inside, FlagAt
<1>4. MasksOrdered'
  BY DEF IInv, TypeOK, MasksOrdered, CallAt, Inside
<1>5. Scanned'
  BY DEF IInv, TypeOK, Scanned, Blocked, FlagAt, CallAt, Inside,
      NothingForgotten
<1>6. OweRecorded'
  BY DEF IInv, TypeOK, OweRecorded, Blocked, FlagAt, CallAt, Inside, Effective,
      NothingForgotten
<1>7. ~WideMasks => NothingForgotten'
  BY DEF IInv, TypeOK, NothingForgotten, FlagAt, CallAt, Scanned, MasksOrdered,
      Blocked, Inside
<1> QED  BY <1>1, <1>2, <1>3, <1>4, <1>5, <1>6, <1>7 DEF IInv

(* The guest makes a call that may block.                                  *)
LEMMA CallStep ==
    ASSUME IInv, Pause \/ Syscall
    PROVE  IInv'
<1> USE SignalsAssumption DEF Pause, Syscall, guest, tables, call
<1>1. TypeOK'
  <2>1. /\ in_sigsuspend' \in BOOLEAN /\ signal_pending' \in BOOLEAN
        /\ done' \in BOOLEAN /\ owe' \in BOOLEAN
    BY Zenon DEF IInv, TypeOK
  <2>2. pc' \in PC /\ sys' \in {"plain", "suspend"} /\ res' \in {"ok", "eintr", "restart"}
    BY DEF IInv, TypeOK, PC, Inside
  <2>3. /\ signal_mask' \in SUBSET SIG /\ sigsuspend_mask' \in SUBSET SIG
        /\ sigtab' \in SUBSET SIG /\ sync_signal' \in Sync \cup {None}
        /\ hostact' \in SUBSET SIG
        /\ host_mask' \in SUBSET SIG /\ host_pending' \in SUBSET SIG
    BY DEF IInv, TypeOK, None
  <2>4. act' \in [SIG -> Action]
    BY DEF IInv, TypeOK, Action
  <2> QED  BY <2>1, <2>2, <2>3, <2>4 DEF TypeOK, Action
<1>2. FlagAt'
  BY DEF IInv, TypeOK, FlagAt, Inside
<1>3. CallAt'
  BY DEF IInv, TypeOK, CallAt, Inside, FlagAt
<1>4. MasksOrdered'
  BY DEF IInv, TypeOK, MasksOrdered, CallAt, Inside
<1>5. Scanned'
  BY DEF IInv, TypeOK, Scanned, Blocked, FlagAt, CallAt, Inside,
      NothingForgotten
<1>6. OweRecorded'
  BY DEF IInv, TypeOK, OweRecorded, Blocked, FlagAt, CallAt, Inside, Effective,
      NothingForgotten
<1>7. ~WideMasks => NothingForgotten'
  BY DEF IInv, TypeOK, NothingForgotten, FlagAt, CallAt, Scanned, MasksOrdered,
      Blocked, Inside
<1> QED  BY <1>1, <1>2, <1>3, <1>4, <1>5, <1>6, <1>7 DEF IInv

(* The guest makes a call with a mask of its own.                          *)
LEMMA SuspendStep ==
    ASSUME IInv, NEW m \in Masks,
           process_sigsuspend_mask(m)
    PROVE  IInv'
<1> USE SignalsAssumption DEF process_sigsuspend_mask, guest, tables, call
<1>1. TypeOK'
  <2>1. /\ in_sigsuspend' \in BOOLEAN /\ signal_pending' \in BOOLEAN
        /\ done' \in BOOLEAN /\ owe' \in BOOLEAN
    BY Zenon DEF IInv, TypeOK
  <2>2. pc' \in PC /\ sys' \in {"plain", "suspend"} /\ res' \in {"ok", "eintr", "restart"}
    BY DEF IInv, TypeOK, PC, Inside
  <2>3. /\ signal_mask' \in SUBSET SIG /\ sigsuspend_mask' \in SUBSET SIG
        /\ sigtab' \in SUBSET SIG /\ sync_signal' \in Sync \cup {None}
        /\ hostact' \in SUBSET SIG
        /\ host_mask' \in SUBSET SIG /\ host_pending' \in SUBSET SIG
    BY DEF IInv, TypeOK, None
  <2>4. act' \in [SIG -> Action]
    BY DEF IInv, TypeOK, Action
  <2> QED  BY <2>1, <2>2, <2>3, <2>4 DEF TypeOK, Action
<1>2. FlagAt'
  BY DEF IInv, TypeOK, FlagAt, Inside
<1>3. CallAt'
  BY DEF IInv, TypeOK, CallAt, Inside, FlagAt
<1>4. MasksOrdered'
  BY DEF IInv, TypeOK, MasksOrdered, CallAt, Inside
<1>5. Scanned'
  BY DEF IInv, TypeOK, Scanned, Blocked, FlagAt, CallAt, Inside,
      NothingForgotten
<1>6. OweRecorded'
  BY DEF IInv, TypeOK, OweRecorded, Blocked, FlagAt, CallAt, Inside, Effective,
      NothingForgotten
<1>7. ~WideMasks => NothingForgotten'
  BY DEF IInv, TypeOK, NothingForgotten, FlagAt, CallAt, Scanned, MasksOrdered,
      Blocked, Inside
<1> QED  BY <1>1, <1>2, <1>3, <1>4, <1>5, <1>6, <1>7 DEF IInv

(* safe_syscall_base.                                                      *)
LEMMA SafeStep ==
    ASSUME IInv, SafeStart \/ SafeEnter \/ HostCompletes \/ SafeEnd
    PROVE  IInv'
<1> USE SignalsAssumption DEF SafeStart, SafeEnter, HostCompletes, SafeEnd,
    guest, tables, call
<1>1. TypeOK'
  <2>1. /\ in_sigsuspend' \in BOOLEAN /\ signal_pending' \in BOOLEAN
        /\ done' \in BOOLEAN /\ owe' \in BOOLEAN
    BY Zenon DEF IInv, TypeOK
  <2>2. pc' \in PC /\ sys' \in {"plain", "suspend"} /\ res' \in {"ok", "eintr", "restart"}
    BY DEF IInv, TypeOK, PC, Inside
  <2>3. /\ signal_mask' \in SUBSET SIG /\ sigsuspend_mask' \in SUBSET SIG
        /\ sigtab' \in SUBSET SIG /\ sync_signal' \in Sync \cup {None}
        /\ hostact' \in SUBSET SIG
        /\ host_mask' \in SUBSET SIG /\ host_pending' \in SUBSET SIG
    BY DEF IInv, TypeOK, None
  <2>4. act' \in [SIG -> Action]
    BY DEF IInv, TypeOK, Action
  <2> QED  BY <2>1, <2>2, <2>3, <2>4 DEF TypeOK, Action
<1>2. FlagAt'
  BY DEF IInv, TypeOK, FlagAt, Inside
<1>3. CallAt'
  BY DEF IInv, TypeOK, CallAt, Inside, FlagAt
<1>4. MasksOrdered'
  BY DEF IInv, TypeOK, MasksOrdered, CallAt, Inside
<1>5. Scanned'
  BY DEF IInv, TypeOK, Scanned, Blocked, FlagAt, CallAt, Inside,
      NothingForgotten
<1>6. OweRecorded'
  BY DEF IInv, TypeOK, OweRecorded, Blocked, FlagAt, CallAt, Inside, Effective,
      NothingForgotten
<1>7. ~WideMasks => NothingForgotten'
  BY DEF IInv, TypeOK, NothingForgotten, FlagAt, CallAt, Scanned, MasksOrdered,
      Blocked, Inside
<1> QED  BY <1>1, <1>2, <1>3, <1>4, <1>5, <1>6, <1>7 DEF IInv

(* The call returns to cpu_loop.                                           *)
LEMMA FinishStep ==
    ASSUME IInv, finish_sigsuspend_mask
    PROVE  IInv'
<1> USE SignalsAssumption DEF finish_sigsuspend_mask, guest, tables, call
<1>1. TypeOK'
  <2>1. /\ in_sigsuspend' \in BOOLEAN /\ signal_pending' \in BOOLEAN
        /\ done' \in BOOLEAN /\ owe' \in BOOLEAN
    BY Zenon DEF IInv, TypeOK
  <2>2. pc' \in PC /\ sys' \in {"plain", "suspend"} /\ res' \in {"ok", "eintr", "restart"}
    BY DEF IInv, TypeOK, PC, Inside
  <2>3. /\ signal_mask' \in SUBSET SIG /\ sigsuspend_mask' \in SUBSET SIG
        /\ sigtab' \in SUBSET SIG /\ sync_signal' \in Sync \cup {None}
        /\ hostact' \in SUBSET SIG
        /\ host_mask' \in SUBSET SIG /\ host_pending' \in SUBSET SIG
    BY DEF IInv, TypeOK, None
  <2>4. act' \in [SIG -> Action]
    BY DEF IInv, TypeOK, Action
  <2> QED  BY <2>1, <2>2, <2>3, <2>4 DEF TypeOK, Action
<1>2. FlagAt'
  BY DEF IInv, TypeOK, FlagAt, Inside
<1>3. CallAt'
  BY DEF IInv, TypeOK, CallAt, Inside, FlagAt
<1>4. MasksOrdered'
  BY DEF IInv, TypeOK, MasksOrdered, CallAt, Inside
<1>5. Scanned'
  BY DEF IInv, TypeOK, Scanned, Blocked, FlagAt, CallAt, Inside,
      NothingForgotten
<1>6. OweRecorded'
  BY DEF IInv, TypeOK, OweRecorded, Blocked, FlagAt, CallAt, Inside, Effective,
      NothingForgotten
<1>7. ~WideMasks => NothingForgotten'
  BY DEF IInv, TypeOK, NothingForgotten, FlagAt, CallAt, Scanned, MasksOrdered,
      Blocked, Inside
<1> QED  BY <1>1, <1>2, <1>3, <1>4, <1>5, <1>6, <1>7 DEF IInv

(* The loop of process_pending_signals.                                    *)
LEMMA LoopStep ==
    ASSUME IInv, LoopEnter \/ ScanDone \/ Unblock \/ LoopExit
    PROVE  IInv'
<1> USE SignalsAssumption DEF LoopEnter, ScanDone, Unblock, LoopExit,
    Deliverable, guest, tables, call
<1>1. TypeOK'
  <2>1. /\ in_sigsuspend' \in BOOLEAN /\ signal_pending' \in BOOLEAN
        /\ done' \in BOOLEAN /\ owe' \in BOOLEAN
    BY Zenon DEF IInv, TypeOK
  <2>2. pc' \in PC /\ sys' \in {"plain", "suspend"} /\ res' \in {"ok", "eintr", "restart"}
    BY DEF IInv, TypeOK, PC, Inside
  <2>3. /\ signal_mask' \in SUBSET SIG /\ sigsuspend_mask' \in SUBSET SIG
        /\ sigtab' \in SUBSET SIG /\ sync_signal' \in Sync \cup {None}
        /\ hostact' \in SUBSET SIG
        /\ host_mask' \in SUBSET SIG /\ host_pending' \in SUBSET SIG
    BY DEF IInv, TypeOK, None
  <2>4. act' \in [SIG -> Action]
    BY DEF IInv, TypeOK, Action
  <2> QED  BY <2>1, <2>2, <2>3, <2>4 DEF TypeOK, Action
<1>2. FlagAt'
  BY DEF IInv, TypeOK, FlagAt, Inside
<1>3. CallAt'
  BY DEF IInv, TypeOK, CallAt, Inside, FlagAt
<1>4. MasksOrdered'
  BY DEF IInv, TypeOK, MasksOrdered, CallAt, Inside
<1>5. Scanned'
  <2>1. CASE ScanDone
    <3>1. sigtab \subseteq Blocked(signal_mask) /\ Blocked(signal_mask)' = Blocked(signal_mask)
      BY <2>1 DEF Blocked
    <3> QED  BY <2>1, <3>1 DEF Scanned
  <2>2. CASE ~ScanDone
    BY <2>2 DEF Scanned
  <2> QED  BY <2>1, <2>2
<1>6. OweRecorded'
  <2>1. CASE LoopEnter
    <3>1. Blocked(signal_mask)' = Blocked(signal_mask)
      BY <2>1 DEF Blocked
    <3> QED  BY <2>1, <3>1 DEF IInv, OweRecorded
  <2>2. CASE ~LoopEnter
    <3>1. ~owe
      <4>1. CASE ScanDone
        BY <4>1 DEF IInv, OweRecorded
      <4>2. CASE Unblock
        BY <4>2 DEF IInv, OweRecorded
      <4>3. CASE LoopExit
        BY <4>3 DEF IInv, OweRecorded
      <4> QED  BY <2>2, <4>1, <4>2, <4>3
    <3> QED  BY <3>1 DEF OweRecorded
  <2> QED  BY <2>1, <2>2
<1>7. ~WideMasks => NothingForgotten'
  BY DEF IInv, TypeOK, NothingForgotten, FlagAt, CallAt, Scanned, MasksOrdered,
      Blocked, Inside
<1> QED  BY <1>1, <1>2, <1>3, <1>4, <1>5, <1>6, <1>7 DEF IInv

(* What handle_pending_signal may do, whichever branch it takes.           *)
LEMMA HandleEffect ==
    ASSUME TypeOK, NEW s \in SIG, NEW m \in SUBSET SIG, NEW acts \in [SIG -> Action],
           NEW next \in PC, handle_pending_signal(s, m, acts, next)
    PROVE  /\ owe' = FALSE
           /\ pc' \in {next, "dead"}
           /\ signal_mask' \in SUBSET SIG /\ act' \in [SIG -> Action]
           /\ in_sigsuspend' \in BOOLEAN /\ sync_signal' \in Sync \cup {None}
           /\ in_sigsuspend' => in_sigsuspend /\ signal_mask' = m
           /\ acts[s].h = "dfl" /\ s \notin IgnoredSigs => pc' = "dead"
<1> USE SignalsAssumption
<1>1. in_sigsuspend \in BOOLEAN /\ sync_signal \in Sync \cup {None}
  BY DEF TypeOK
<1>2. CASE acts[s].h = "fn"
  <2>1. /\ pc' = next /\ in_sigsuspend' = FALSE /\ owe' = FALSE
        /\ signal_mask' = Blocked(m) \cup acts[s].mask
                          \cup (IF acts[s].nodefer THEN {} ELSE {s})
        /\ SetupFrame(s, acts)
    BY <1>2 DEF handle_pending_signal, Ignores
  <2>2. signal_mask' \in SUBSET SIG
    <3>1. Blocked(m) \in SUBSET SIG  BY DEF Blocked, TypeOK
    <3>2. acts[s].mask \in SUBSET SIG  BY DEF Action
    <3> QED  BY <2>1, <3>1, <3>2
  <2>3. act' \in [SIG -> Action] /\ sync_signal' \in Sync \cup {None}
    <3> DEFINE t1 == [acts EXCEPT ![s].h = "dfl"]
               t2 == [t1 EXCEPT ![s].h = "dfl"]
    <3>1. act' \in {acts, t1, t2} /\ sync_signal' \in {None, sync_signal, SIGSEGV}
      BY <2>1 DEF SetupFrame, force_sigsegv
    <3>2. t1 \in [SIG -> Action]
      BY SetHandler
    <3> HIDE DEF t1
    <3>3. t2 \in [SIG -> Action]
      BY <3>2, SetHandler
    <3> HIDE DEF t2
    <3> QED  BY <1>1, <3>1, <3>2, <3>3
  <2> QED  BY <1>2, <2>1, <2>2, <2>3
<1>3. CASE acts[s].h # "fn"
  <2>1. /\ owe' = FALSE /\ act' = acts /\ signal_mask' = m
        /\ in_sigsuspend' = in_sigsuspend
        /\ sync_signal' = IF pc = "scan" THEN None ELSE sync_signal
        /\ pc' \in {next, "dead"}
    BY <1>3 DEF handle_pending_signal
  <2>2. acts[s].h = "dfl" /\ s \notin IgnoredSigs => pc' = "dead"
    BY <1>3 DEF handle_pending_signal, Ignores
  <2> QED  BY <1>1, <2>1, <2>2
<1> QED  BY <1>2, <1>3

(* A synchronous signal: forcing it kills the thread, so that the order of *)
(* the masks is kept.                                                      *)
LEMMA SyncStep ==
    ASSUME IInv, ScanSync
    PROVE  IInv'
<1> USE SignalsAssumption
<1>1. /\ pc = "scan"
      /\ UNCHANGED <<sys, res, done, sigsuspend_mask, signal_pending, sigtab,
                     hostact, host_mask, host_pending>>
  BY DEF ScanSync
<1>2. TypeOK /\ act \in [SIG -> Action]
  BY DEF IInv, TypeOK, Action
<1>3. CASE sync_signal = None
  <2>1. pc' = "for" /\ UNCHANGED <<owe, signal_mask, in_sigsuspend, sync_signal, act>>
    BY <1>3 DEF ScanSync
  <2> QED
    BY <1>1, <2>1 DEF IInv, TypeOK, PC, Inside, FlagAt, CallAt, MasksOrdered, Scanned,
       OweRecorded, NothingForgotten, Blocked
<1>4. CASE sync_signal # None
  <2> DEFINE s == sync_signal
             forced == s \in signal_mask \/ act[s].h = "ign"
             m == IF forced THEN signal_mask \ {s} ELSE signal_mask
             acts == IF forced THEN [act EXCEPT ![s].h = "dfl"] ELSE act
  <2>1. s \in SIG /\ s \notin IgnoredSigs
    BY <1>2, <1>4 DEF TypeOK
  <2>2. m \in SUBSET SIG /\ acts \in [SIG -> Action] /\ (forced => acts[s].h = "dfl")
    BY <1>2, <2>1, SetHandler DEF TypeOK
  <2>3. handle_pending_signal(s, m, acts, "for")
    BY <1>4 DEF ScanSync
  <2>4. "for" \in PC
    BY DEF PC
  <2> HIDE DEF m, acts, forced
  <2>5. /\ owe' = FALSE /\ pc' \in {"for", "dead"}
        /\ signal_mask' \in SUBSET SIG /\ act' \in [SIG -> Action]
        /\ in_sigsuspend' \in BOOLEAN /\ sync_signal' \in Sync \cup {None}
        /\ in_sigsuspend' => in_sigsuspend /\ signal_mask' = m
        /\ acts[s].h = "dfl" => pc' = "dead"
    BY <1>2, <2>1, <2>2, <2>3, <2>4, HandleEffect
  <2>6. in_sigsuspend' /\ pc' # "dead" => in_sigsuspend /\ signal_mask' = signal_mask
    BY <2>2, <2>5 DEF m, forced
  <2>7. TypeOK'
    BY <1>1, <1>2, <2>5 DEF TypeOK, PC, Action
  <2>8. FlagAt' /\ CallAt' /\ Scanned' /\ OweRecorded' /\ NothingForgotten'
    BY <1>1, <2>5 DEF IInv, FlagAt, CallAt, Scanned, OweRecorded, NothingForgotten, Inside
  <2>9. MasksOrdered'
    BY <1>1, <2>5, <2>6 DEF IInv, MasksOrdered, CallAt, Inside
  <2> QED  BY <2>7, <2>8, <2>9 DEF IInv
<1> QED  BY <1>3, <1>4

(* A recorded signal; a handler's mask is in force at once, and the scan   *)
(* is repeated.                                                            *)
LEMMA DeliverStep ==
    ASSUME IInv, ScanDeliver
    PROVE  IInv'
<1> USE SignalsAssumption
<1>1. PICK s \in Deliverable :
         /\ sigtab' = sigtab \ {s}
         /\ handle_pending_signal(s, signal_mask, act, "scan")
  BY DEF ScanDeliver
<1>2. /\ pc = "for"
      /\ UNCHANGED <<sys, res, done, sigsuspend_mask, signal_pending, hostact,
                     host_mask, host_pending>>
  BY DEF ScanDeliver
<1>3. TypeOK /\ act \in [SIG -> Action] /\ s \in SIG /\ signal_mask \in SUBSET SIG
  BY <1>1 DEF IInv, TypeOK, Action, Deliverable
<1>4. "scan" \in PC
  BY DEF PC
<1>5. /\ owe' = FALSE /\ pc' \in {"scan", "dead"}
      /\ signal_mask' \in SUBSET SIG /\ act' \in [SIG -> Action]
      /\ in_sigsuspend' \in BOOLEAN /\ sync_signal' \in Sync \cup {None}
      /\ in_sigsuspend' => in_sigsuspend /\ signal_mask' = signal_mask
  BY <1>1, <1>3, <1>4, HandleEffect
<1>6. TypeOK'
  BY <1>1, <1>2, <1>3, <1>5 DEF TypeOK, PC, Action
<1>7. FlagAt' /\ CallAt' /\ Scanned' /\ OweRecorded' /\ NothingForgotten'
  BY <1>2, <1>5 DEF IInv, FlagAt, CallAt, Scanned, OweRecorded, NothingForgotten, Inside
<1>8. MasksOrdered'
  BY <1>2, <1>5 DEF IInv, MasksOrdered, CallAt, Inside
<1> QED  BY <1>6, <1>7, <1>8 DEF IInv

(* Every step preserves the invariant.                                     *)
LEMMA StepInv == IInv /\ [Next]_vars => IInv'
<1> SUFFICES ASSUME IInv, [Next]_vars PROVE IInv'  OBVIOUS
<1>1. CASE UNCHANGED vars
  BY <1>1 DEF vars, guest, tables, call, IInv, TypeOK, FlagAt, CallAt, MasksOrdered,
      Scanned, OweRecorded, NothingForgotten, Blocked
<1>2. CASE ThreadStep
  BY <1>2, SafeStep, FinishStep, LoopStep, SyncStep, DeliverStep DEF ThreadStep
<1>3. CASE GuestStep
  BY <1>3, ExceptionStep, ProcmaskStep, SigactionStep, SigreturnStep, CallStep,
     SuspendStep DEF GuestStep
<1>4. CASE cpu_exit \/ HostCompletes \/ Exited
  BY <1>1, <1>4, ExceptionStep, SafeStep, SignalsAssumption DEF Exited
<1>5. CASE \E s \in SIG : Send(s) \/ HostDefault(s) \/ host_signal_handler(s)
  BY <1>5, KernelStep, HandlerStep
<1> QED  BY <1>1, <1>2, <1>3, <1>4, <1>5 DEF Next

(* The invariant holds throughout.                                         *)
THEOREM Invariance == Spec => []IInv
<1>1. Init => IInv  BY InitInv
<1>2. IInv /\ [Next]_vars => IInv'  BY StepInv
<1> QED  BY <1>1, <1>2, PTL DEF Spec

(* Type correctness of the signal state.                                   *)
THEOREM TypeCorrect == Spec => []TypeOK
<1>1. IInv => TypeOK  BY DEF IInv
<1> QED  BY <1>1, Invariance, PTL

(* signal_pending is down only when nothing is left to do, provided guests *)
(* suspend with masks that block no more than their own.                   *)
THEOREM NothingForgottenHolds ==
    ASSUME ~WideMasks PROVE Spec => []NothingForgotten
<1>1. IInv => NothingForgotten  BY DEF IInv
<1> QED  BY <1>1, Invariance, PTL

(* A thread does not sleep on a signal that came before the system call.   *)
THEOREM SleepsUnsignalledHolds ==
    ASSUME ~WideMasks PROVE Spec => []SleepsUnsignalled
<1>1. IInv => SleepsUnsignalled
  BY DEF IInv, SleepsUnsignalled, NothingForgotten, FlagAt, Scanned
<1> QED  BY <1>1, Invariance, PTL

(* A system call that was performed is not restarted.                      *)
THEOREM PerformedOnceHolds == Spec => []PerformedOnce
<1>1. IInv => PerformedOnce  BY DEF IInv, CallAt, PerformedOnce
<1> QED  BY <1>1, Invariance, PTL

(* A call that a signal interrupts returns after the signal is handled,    *)
(* whatever the masks.                                                     *)
THEOREM InterruptionHandledHolds == Spec => []InterruptionHandled
<1>1. IInv => InterruptionHandled  BY DEF IInv, OweRecorded, InterruptionHandled
<1> QED  BY <1>1, Invariance, PTL
==============================================================================
