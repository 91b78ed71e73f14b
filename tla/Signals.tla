-------------------------------- MODULE Signals --------------------------------
(***************************************************************************)
(* Guest signals of one linux-user thread.  A host signal is caught by     *)
(* host_signal_handler at any instruction at which the host mask lets it   *)
(* in; the handler only records it in sigtab and raises signal_pending,    *)
(* and process_pending_signals, which cpu_loop calls after every exit from *)
(* guest code, turns it into a guest handler's frame.  Nothing is locked:  *)
(* the thread protects itself from its own handler by blocking all host    *)
(* signals, and blocking system calls by a piece of assembly the handler   *)
(* knows how to rewind.                                                    *)
(*                                                                         *)
(* The kernel is external: it keeps the host mask, the signals sent and    *)
(* not yet taken, and runs the handler with every signal blocked.          *)
(***************************************************************************)
EXTENDS Naturals

CONSTANTS SIG,          \* signal numbers
          SIGSEGV,
          Unblockable,  \* SIGSEGV and SIGBUS
          Sync,         \* signals guest instructions raise
          CoreSigs,     \* core_dump_signal
          IgnoredSigs,  \* signals whose default action leaves the thread running
          Masks,        \* signal sets the guest uses
          Actions,      \* struct target_sigaction it installs
          WideMasks,    \* it may suspend with a mask that blocks more signals
          BadFrames     \* setting up a signal frame may fault

ASSUME SignalsAssumption ==
    /\ SIG \subseteq Nat \ {0}
    /\ SIGSEGV \in Unblockable /\ Unblockable \subseteq CoreSigs
    /\ CoreSigs \subseteq SIG /\ IgnoredSigs \subseteq SIG \ CoreSigs
    /\ SIGSEGV \in Sync /\ Sync \subseteq CoreSigs
    /\ Masks \subseteq SUBSET SIG
    /\ Actions \subseteq [h : {"dfl", "ign", "fn"}, mask : SUBSET SIG,
                          nodefer : BOOLEAN, resethand : BOOLEAN]
    /\ WideMasks \in BOOLEAN /\ BadFrames \in BOOLEAN

VARIABLES
    pc, sys,            \* where the thread is, the safe system call it makes
    res,                \* the result of that call
    signal_mask, sigsuspend_mask, in_sigsuspend,   \* TaskState
    signal_pending, sigtab, sync_signal,
    act,                \* sigact_table
    hostact,            \* signals for which host_signal_handler is installed
    host_mask, host_pending,
    done,               \* the host has performed the call, the guest is not told
    owe                 \* a call was interrupted, no signal was handled since

guest == <<signal_mask, sigsuspend_mask, in_sigsuspend>>
tables == <<act, hostact>>
call == <<sys, res, done, owe>>
vars == <<pc, call, guest, signal_pending, sigtab, sync_signal, tables,
          host_mask, host_pending>>

None == 0
Inside == {"jnz", "syscall"}    \* after safe_syscall_start, before safe_syscall_end
PC == Inside \cup {"guest", "start", "kernel", "end", "ret", "pause", "loop",
                   "scan", "for", "unblock", "dead"}

Plain(k) == [h |-> k, mask |-> {}, nodefer |-> FALSE, resethand |-> FALSE]

(* signal_init: the mask and the ignored signals are inherited; the host   *)
(* handler is installed for the signals that dump core.                    *)
Init ==
    /\ pc = "guest" /\ sys = "plain" /\ res = "ok"
    /\ signal_mask \in Masks /\ host_mask = signal_mask
    /\ sigsuspend_mask = {} /\ in_sigsuspend = FALSE
    /\ signal_pending = FALSE /\ sigtab = {} /\ sync_signal = None
    /\ act \in [SIG -> {Plain("dfl"), Plain("ign")}]
    /\ hostact = CoreSigs
    /\ host_pending = {}
    /\ done = FALSE /\ owe = FALSE

-------------------------------------------------------------------------------
(* The kernel.                                                             *)

(* The mask in force: a suspending call replaces it while it sleeps.       *)
Effective ==
    IF pc = "kernel" /\ sys = "suspend" THEN sigsuspend_mask
    ELSE IF pc = "pause" THEN signal_mask ELSE host_mask

HostIgnored(s) == s \notin hostact /\ act[s].h = "ign"

Send(s) ==
    /\ pc # "dead" /\ ~HostIgnored(s)
    /\ host_pending' = host_pending \cup {s}
    /\ UNCHANGED <<pc, call, guest, signal_pending, sigtab, sync_signal, tables,
                   host_mask>>

(* A signal whose host action is the default one.                          *)
HostDefault(s) ==
    /\ pc # "dead" /\ s \in host_pending \ Effective /\ s \notin hostact
    /\ host_pending' = host_pending \ {s}
    /\ pc' = IF s \in IgnoredSigs THEN pc ELSE "dead"
    /\ UNCHANGED <<call, guest, signal_pending, sigtab, sync_signal, tables,
                   host_mask>>

(* Where the interrupted thread continues.  A system call that the kernel  *)
(* wants to restart is left at the syscall instruction.                    *)
(* Mutated forms: the rewind forgets an instruction, or includes the end.  *)
rewind_if_in_safe_syscallLate(p) == IF p = "syscall" THEN "start" ELSE p
rewind_if_in_safe_syscallEnd(p) == IF p \in Inside \cup {"end"} THEN "start" ELSE p

rewind_if_in_safe_syscall(p) == IF p \in Inside THEN "start" ELSE p

(* host_signal_handler, for a signal that was sent.  It runs with all      *)
(* signals blocked and leaves all blocked but the unblockable ones.        *)
host_signal_handler(s) ==
    /\ pc # "dead" /\ s \in host_pending \ Effective /\ s \in hostact
    /\ host_pending' = host_pending \ {s}
    /\ sigtab' = sigtab \cup {s}
    /\ signal_pending' = TRUE
    /\ \E p \in CASE pc = "kernel" /\ sys = "plain"   -> {"syscall", "end"}
                  [] pc = "kernel" /\ sys = "suspend" -> {"end"}
                  [] pc = "pause"                     -> {"loop"}
                  [] OTHER                            -> {pc} :
          /\ pc' = rewind_if_in_safe_syscall(p)
          /\ res' = IF pc = "kernel" /\ p = "end" THEN "eintr" ELSE res
    /\ owe' = (owe \/ pc = "pause" \/ (pc = "kernel" /\ sys = "suspend"))
    /\ host_mask' = SIG \ Unblockable
    /\ UNCHANGED <<sys, done, guest, sync_signal, tables>>

-------------------------------------------------------------------------------
(* cpu_loop: the guest runs until an exception, a system call, or until    *)
(* cpu_exit, which the handler calls, stops it.                            *)
cpu_exit ==
    /\ pc = "guest" /\ signal_pending
    /\ pc' = "loop"
    /\ UNCHANGED <<call, guest, signal_pending, sigtab, sync_signal, tables,
                   host_mask, host_pending>>

(* A guest exception (a fault in generated code included).                 *)
queue_signal(s) ==
    /\ pc = "guest" /\ s \in Sync
    /\ sync_signal' = s
    /\ signal_pending' = TRUE
    /\ pc' = "loop"
    /\ UNCHANGED <<call, guest, sigtab, tables, host_mask, host_pending>>

(* SIGBUS for a hardware error: recorded like a signal that was sent, and  *)
(* the handler jumps out of the generated code with all signals blocked.   *)
host_sigbus_handler(s) ==
    /\ pc = "guest" /\ s \in Unblockable \ {SIGSEGV} /\ s \notin host_mask
    /\ sigtab' = sigtab \cup {s}
    /\ signal_pending' = TRUE
    /\ host_mask' = SIG
    /\ pc' = "loop"
    /\ UNCHANGED <<call, guest, sync_signal, tables, host_pending>>

(* block_signals: every host signal is blocked, and process_pending_signals*)
(* is made to unblock them.  The call restarts (-QEMU_ERESTARTSYS) if a    *)
(* signal was pending.                                                     *)
block_signals ==
    /\ host_mask' = SIG
    /\ signal_pending' = TRUE
    /\ pc' = "loop"

Restart == UNCHANGED <<signal_mask, sync_signal, tables, host_pending>>

(* Mutated form: the mask is changed without block_signals.                *)
do_sigprocmaskUnblocked(set) ==
    /\ pc = "guest" /\ ~signal_pending
    /\ pc' = "loop"
    /\ signal_mask' = set
    /\ UNCHANGED <<call, sigsuspend_mask, in_sigsuspend, signal_pending, sigtab,
                   sync_signal, tables, host_mask, host_pending>>

do_sigprocmask(set) ==
    /\ pc = "guest"
    /\ block_signals
    /\ \/ signal_pending /\ Restart
       \/ /\ ~signal_pending
          /\ \E m \in {signal_mask \cup set, signal_mask \ set, set} :
                signal_mask' = m
          /\ UNCHANGED <<sync_signal, tables, host_pending>>
    /\ UNCHANGED <<call, sigsuspend_mask, in_sigsuspend, sigtab>>

(* The host ignores what the guest ignores, so that its calls are not      *)
(* interrupted; the kernel then drops what is pending.                     *)
do_sigaction(s, a) ==
    /\ pc = "guest"
    /\ block_signals
    /\ \/ signal_pending /\ Restart
       \/ /\ ~signal_pending
          /\ act' = [act EXCEPT ![s] = a]
          /\ hostact' = IF s \in Unblockable THEN hostact
                        ELSE IF a.h = "fn" \/ (a.h = "dfl" /\ s \in CoreSigs)
                        THEN hostact \cup {s} ELSE hostact \ {s}
          /\ host_pending' = IF a.h = "ign" /\ s \notin Unblockable
                             THEN host_pending \ {s} ELSE host_pending
          /\ UNCHANGED <<signal_mask, sync_signal>>
    /\ UNCHANGED <<call, sigsuspend_mask, in_sigsuspend, sigtab>>

(* The mask comes from the frame, which the guest may have changed; a bad  *)
(* frame raises SIGSEGV.                                                   *)
do_rt_sigreturn(m) ==
    /\ pc = "guest"
    /\ block_signals
    /\ \/ signal_pending /\ Restart
       \/ /\ ~signal_pending
          /\ \/ signal_mask' = m /\ UNCHANGED sync_signal
             \/ BadFrames /\ signal_mask' \in {m, signal_mask} /\ sync_signal' = SIGSEGV
          /\ UNCHANGED <<tables, host_pending>>
    /\ UNCHANGED <<call, sigsuspend_mask, in_sigsuspend, sigtab>>

(* pause(2) sleeps with the guest's mask, other host signals being blocked *)
(* before and after.                                                       *)
Pause ==
    /\ pc = "guest"
    /\ host_mask' = SIG
    /\ signal_pending' = TRUE
    /\ pc' = IF signal_pending THEN "loop" ELSE "pause"
    /\ UNCHANGED <<call, guest, sigtab, sync_signal, tables, host_pending>>

-------------------------------------------------------------------------------
(* Blocking calls, through safe_syscall_base.  rt_sigsuspend, pselect,     *)
(* ppoll and epoll_pwait come with a mask.                                 *)
Syscall ==
    /\ pc = "guest"
    /\ pc' = "start" /\ sys' = "plain"
    /\ UNCHANGED <<res, done, owe, guest, signal_pending, sigtab, sync_signal,
                   tables, host_mask, host_pending>>

process_sigsuspend_mask(m) ==
    /\ pc = "guest"
    /\ WideMasks \/ m \subseteq signal_mask
    /\ pc' = "start" /\ sys' = "suspend"
    /\ sigsuspend_mask' = m
    /\ UNCHANGED <<res, done, owe, signal_mask, in_sigsuspend, signal_pending,
                   sigtab, sync_signal, tables, host_mask, host_pending>>

(* cmpl $0, (%rbp); jnz 2f; syscall                                        *)
SafeStart ==
    /\ pc = "start"
    /\ IF signal_pending
       THEN pc' = "ret" /\ res' = "restart"
       ELSE pc' = "jnz" /\ UNCHANGED res
    /\ UNCHANGED <<sys, done, owe, guest, signal_pending, sigtab, sync_signal,
                   tables, host_mask, host_pending>>

SafeEnter ==
    /\ pc \in Inside
    /\ pc' = IF pc = "jnz" THEN "syscall" ELSE "kernel"
    /\ UNCHANGED <<call, guest, signal_pending, sigtab, sync_signal, tables,
                   host_mask, host_pending>>

(* The host performs the call.                                             *)
HostCompletes ==
    /\ pc = "kernel"
    /\ pc' = "end" /\ res' = "ok" /\ done' = TRUE
    /\ UNCHANGED <<sys, owe, guest, signal_pending, sigtab, sync_signal, tables,
                   host_mask, host_pending>>

SafeEnd ==
    /\ pc = "end"
    /\ pc' = "ret"
    /\ UNCHANGED <<call, guest, signal_pending, sigtab, sync_signal, tables,
                   host_mask, host_pending>>

(* finish_sigsuspend_mask; the guest gets the result, or its program       *)
(* counter is put back.                                                    *)
(* Mutated form: the suspend mask is forgotten.                            *)
finish_sigsuspend_maskNever ==
    /\ pc = "ret"
    /\ pc' = "loop" /\ sys' = "plain" /\ res' = "ok"
    /\ done' = (done /\ res = "restart")
    /\ UNCHANGED <<owe, guest, signal_pending, sigtab, sync_signal,
                   tables, host_mask, host_pending>>

finish_sigsuspend_mask ==
    /\ pc = "ret"
    /\ pc' = "loop" /\ sys' = "plain" /\ res' = "ok"
    /\ in_sigsuspend' = (in_sigsuspend \/ (sys = "suspend" /\ res # "restart"))
    /\ done' = (done /\ res = "restart")
    /\ UNCHANGED <<owe, signal_mask, sigsuspend_mask, signal_pending, sigtab,
                   sync_signal, tables, host_mask, host_pending>>

-------------------------------------------------------------------------------
(* handle_pending_signal(s): m and acts are the mask and the table it      *)
(* starts from, next the position after it.  No debugger is attached       *)
(* (gdb_handlesig returns the signal), no action is SIG_ERR.               *)
Blocked(m) == IF in_sigsuspend THEN sigsuspend_mask ELSE m

Ignores(a, s) == a.h = "ign" \/ (a.h = "dfl" /\ s \in IgnoredSigs)

(* Mutated form: the signal that could not be delivered is forced again,   *)
(* instead of SIGSEGV.                                                     *)
force_sigsegvOld(s) == s

(* The signal that force_sigsegv queues in place of s.                     *)
force_sigsegv(s) == SIGSEGV

(* setup_rt_frame, which may fault, then SA_RESETHAND.                     *)
SetupFrame(s, acts) ==
    LET reset(t) == IF acts[s].resethand THEN [t EXCEPT ![s].h = "dfl"] ELSE t
    IN  \/ /\ act' = reset(acts)
           /\ sync_signal' = IF pc = "scan" THEN None ELSE sync_signal
        \/ /\ BadFrames
           /\ act' = reset(IF s = SIGSEGV THEN [acts EXCEPT ![s].h = "dfl"]
                           ELSE acts)
           /\ sync_signal' = force_sigsegv(s)

handle_pending_signal(s, m, acts, next) ==
    LET a == acts[s]
    IN  /\ owe' = FALSE
        /\ \/ /\ a.h = "dfl" /\ s \notin IgnoredSigs
              /\ pc' = "dead"
              /\ act' = acts /\ signal_mask' = m
              /\ sync_signal' = IF pc = "scan" THEN None ELSE sync_signal
              /\ UNCHANGED in_sigsuspend
           \/ /\ Ignores(a, s)
              /\ pc' = next
              /\ act' = acts /\ signal_mask' = m
              /\ sync_signal' = IF pc = "scan" THEN None ELSE sync_signal
              /\ UNCHANGED in_sigsuspend
           \/ /\ a.h = "fn"
              /\ pc' = next
              /\ signal_mask' = Blocked(m) \cup a.mask
                                \cup (IF a.nodefer THEN {} ELSE {s})
              /\ in_sigsuspend' = FALSE
              /\ SetupFrame(s, acts)

(* process_pending_signals.                                                *)
LoopEnter ==
    /\ pc = "loop" /\ signal_pending
    /\ host_mask' = SIG
    /\ pc' = "scan"
    /\ UNCHANGED <<call, guest, signal_pending, sigtab, sync_signal, tables,
                   host_pending>>

(* A synchronous signal is forced: not blocked, not ignored.               *)
ScanSync ==
    /\ pc = "scan"
    /\ LET s == sync_signal
           forced == s \in signal_mask \/ act[s].h = "ign"
       IN  \/ /\ s = None
              /\ pc' = "for"
              /\ UNCHANGED <<owe, signal_mask, in_sigsuspend, sync_signal, act>>
           \/ /\ s # None
              /\ handle_pending_signal(s,
                    IF forced THEN signal_mask \ {s} ELSE signal_mask,
                    IF forced THEN [act EXCEPT ![s].h = "dfl"] ELSE act, "for")
    /\ UNCHANGED <<sys, res, done, sigsuspend_mask, signal_pending, sigtab,
                   hostact, host_mask, host_pending>>

Deliverable == sigtab \ Blocked(signal_mask)

(* The lowest pending signal that is not blocked; then scan again.         *)
(* Mutated form: the signal is not dequeued.                               *)
ScanDeliverKeep ==
    /\ pc = "for"
    /\ \E s \in Deliverable :
          /\ \A t \in Deliverable : s <= t
          /\ handle_pending_signal(s, signal_mask, act, "scan")
    /\ UNCHANGED <<sys, res, done, sigsuspend_mask, signal_pending, sigtab,
                   hostact, host_mask, host_pending>>

ScanDeliver ==
    /\ pc = "for"
    /\ \E s \in Deliverable :
          /\ \A t \in Deliverable : s <= t
          /\ sigtab' = sigtab \ {s}
          /\ handle_pending_signal(s, signal_mask, act, "scan")
    /\ UNCHANGED <<sys, res, done, sigsuspend_mask, signal_pending, hostact,
                   host_mask, host_pending>>

ScanDone ==
    /\ pc = "for" /\ Deliverable = {}
    /\ signal_pending' = FALSE
    /\ pc' = "unblock"
    /\ UNCHANGED <<call, guest, sigtab, sync_signal, tables, host_mask,
                   host_pending>>

Unblock ==
    /\ pc = "unblock"
    /\ in_sigsuspend' = FALSE
    /\ host_mask' = signal_mask \ Unblockable
    /\ pc' = "loop"
    /\ UNCHANGED <<call, signal_mask, sigsuspend_mask, signal_pending, sigtab,
                   sync_signal, tables, host_pending>>

LoopExit ==
    /\ pc = "loop" /\ ~signal_pending
    /\ in_sigsuspend' = FALSE
    /\ pc' = "guest"
    /\ UNCHANGED <<call, signal_mask, sigsuspend_mask, signal_pending, sigtab,
                   sync_signal, tables, host_mask, host_pending>>

-------------------------------------------------------------------------------
(* The thread's own steps outside guest code and the kernel.               *)
ThreadStep ==
    \/ SafeStart \/ SafeEnter \/ SafeEnd \/ finish_sigsuspend_mask
    \/ LoopEnter \/ ScanSync \/ ScanDeliver \/ ScanDone \/ Unblock \/ LoopExit

GuestStep ==
    \/ \E s \in SIG : queue_signal(s) \/ host_sigbus_handler(s)
    \/ \E m \in Masks : \/ do_sigprocmask(m) \/ do_rt_sigreturn(m)
                        \/ process_sigsuspend_mask(m)
    \/ \E s \in SIG, a \in Actions : do_sigaction(s, a)
    \/ Pause \/ Syscall

Exited == pc = "dead" /\ UNCHANGED vars

Next ==
    \/ ThreadStep \/ GuestStep \/ cpu_exit \/ HostCompletes \/ Exited
    \/ \E s \in SIG : Send(s) \/ HostDefault(s) \/ host_signal_handler(s)

Spec == Init /\ [][Next]_vars

(* The thread keeps running, and generated code notices cpu_exit: it tests *)
(* for it at the start of every block.                                     *)
FairSpec == Spec /\ WF_vars(ThreadStep) /\ WF_vars(cpu_exit \/ GuestStep)

-------------------------------------------------------------------------------
(* Type invariant: in particular only synchronous signals are forced.      *)
TypeOK ==
    /\ pc \in PC /\ sys \in {"plain", "suspend"} /\ res \in {"ok", "eintr", "restart"}
    /\ signal_mask \in SUBSET SIG /\ sigsuspend_mask \in SUBSET SIG
    /\ in_sigsuspend \in BOOLEAN /\ signal_pending \in BOOLEAN
    /\ sigtab \in SUBSET SIG /\ sync_signal \in Sync \cup {None}
    /\ act \in [SIG -> [h : {"dfl", "ign", "fn"}, mask : SUBSET SIG,
                        nodefer : BOOLEAN, resethand : BOOLEAN]]
    /\ hostact \in SUBSET SIG
    /\ host_mask \in SUBSET SIG /\ host_pending \in SUBSET SIG
    /\ done \in BOOLEAN /\ owe \in BOOLEAN

(* "Nonzero if process_pending_signals() needs to do something (either     *)
(* handle a pending signal or unblock signals)" (TaskState): while it is   *)
(* zero the thread is about to unblock signals, or the host's mask is the  *)
(* guest's and every signal in sigtab is blocked by the guest, so nothing  *)
(* waits for a signal that may never come.                                 *)
NothingForgotten ==
    ~signal_pending /\ pc \notin {"unblock", "dead"} =>
        /\ host_mask \ Unblockable = signal_mask \ Unblockable
        /\ sigtab \subseteq signal_mask

(* The whole of that comment, synchronous signals included.                *)
PendingFlagTrue == NothingForgotten /\ (~signal_pending /\ pc = "guest"
                                            => sync_signal = None)

(* A thread sleeps in a system call only if no signal waits that should    *)
(* interrupt it, whichever instruction of safe_syscall_base it had reached *)
(* when the signal came.  (A suspending call may also sleep on a signal    *)
(* that was recorded, found blocked by the guest's own mask, and that the  *)
(* suspend mask lets in: only the host's pending signals end its sleep.)   *)
SleepsUnsignalled ==
    /\ pc = "kernel" => ~signal_pending
    /\ pc \in {"kernel", "pause"} => sigtab \subseteq signal_mask

(* A system call that the host has performed is never restarted: the       *)
(* guest gets the result of every call exactly once.                       *)
PerformedOnce == pc = "ret" => (done <=> res = "ok")

(* A call that a signal has interrupted (sigsuspend, pselect, ppoll, pause)*)
(* does not return to the guest before a signal is handled, although the   *)
(* one that came may be blocked by the guest's own mask.                   *)
InterruptionHandled == pc = "guest" => ~owe

-------------------------------------------------------------------------------
(* The inductive invariant behind the safety properties, in parts.         *)

(* Where all signals are blocked, and what the flag is there.              *)
FlagAt ==
    /\ pc \in {"scan", "for", "unblock", "pause"} => host_mask = SIG
    /\ pc \in {"scan", "for", "pause"} => signal_pending
    /\ pc \in Inside \cup {"kernel", "unblock"} => ~signal_pending

(* A call is under way only between its start and its return, and the      *)
(* suspend mask counts only from there to the end of the scan.             *)
CallAt ==
    /\ sys = "suspend" => pc \in Inside \cup {"start", "kernel", "end", "ret", "dead"}
    /\ in_sigsuspend => pc \in {"loop", "scan", "for", "unblock", "dead"}
    /\ done => pc \in {"end", "ret", "dead"}
    /\ pc \in {"end", "ret"} => (done <=> res = "ok")

(* Suspend masks block no more than the guest's mask does.                 *)
MasksOrdered ==
    ~WideMasks /\ pc # "dead" /\ (in_sigsuspend \/ sys = "suspend")
        => sigsuspend_mask \subseteq signal_mask

(* The scan is over when everything left is blocked.                       *)
Scanned ==
    /\ pc = "unblock" => sigtab \subseteq Blocked(signal_mask)
    /\ pc = "pause" /\ ~WideMasks => sigtab \subseteq signal_mask

(* The signal that interrupted a call is still recorded and will be found. *)
OweRecorded ==
    owe => /\ pc # "dead" => signal_pending
           /\ \/ pc \in {"end", "ret"} /\ sys = "suspend" /\ res = "eintr"
                 /\ ~(sigtab \subseteq sigsuspend_mask)
              \/ pc \in {"loop", "scan", "for"} /\ ~(sigtab \subseteq Blocked(signal_mask))
              \/ pc = "dead"

IInv ==
    /\ TypeOK /\ FlagAt /\ CallAt /\ MasksOrdered /\ Scanned /\ OweRecorded
    /\ ~WideMasks => NothingForgotten

-------------------------------------------------------------------------------
(* A recorded signal that the guest does not block is handled, whatever    *)
(* the guest does in the meantime, unless the guest blocks it first.       *)
SignalHandled ==
    \A s \in SIG : (s \in sigtab /\ s \notin signal_mask)
                        ~> (s \notin sigtab \/ s \in signal_mask \/ pc = "dead")
===============================================================================
