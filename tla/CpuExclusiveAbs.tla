--------------------------- MODULE CpuExclusiveAbs ---------------------------
(***************************************************************************)
(* What cpu-common.c promises to the rest of QEMU, without a word about    *)
(* how: a vCPU thread is out of guest code, in guest code (between         *)
(* cpu_exec_start and cpu_exec_end), or in an exclusive section (between   *)
(* start_exclusive and end_exclusive).  Any number of threads may be in    *)
(* guest code together, but whoever is in an exclusive section is there    *)
(* alone.                                                                  *)
(***************************************************************************)
CONSTANT Cpus

VARIABLE mode

Mode == {"out", "guest", "exclusive"}

Init == mode = [c \in Cpus |-> "out"]

Nobody(m) == \A c \in Cpus : mode[c] # m

EnterGuest(c) ==
    /\ mode[c] = "out"
    /\ Nobody("exclusive")
    /\ mode' = [mode EXCEPT ![c] = "guest"]

LeaveGuest(c) ==
    /\ mode[c] = "guest"
    /\ mode' = [mode EXCEPT ![c] = "out"]

EnterExclusive(c) ==
    /\ mode[c] = "out"
    /\ Nobody("exclusive") /\ Nobody("guest")
    /\ mode' = [mode EXCEPT ![c] = "exclusive"]

LeaveExclusive(c) ==
    /\ mode[c] = "exclusive"
    /\ mode' = [mode EXCEPT ![c] = "out"]

Next == \E c \in Cpus : \/ EnterGuest(c)     \/ LeaveGuest(c)
                        \/ EnterExclusive(c) \/ LeaveExclusive(c)

Spec == Init /\ [][Next]_mode
==============================================================================
