------------------------------- MODULE MCSignals -------------------------------
(* Instances of guest signals for TLC: 1 is ignored by default (SIGCHLD),  *)
(* 2 stands for SIGSEGV and 3 for SIGBUS or an ordinary signal.            *)
EXTENDS Signals

Sa(k, m, nd, rh) == [h |-> k, mask |-> m, nodefer |-> nd, resethand |-> rh]

MCActions == {Sa("ign", {}, FALSE, FALSE), Sa("fn", {1}, FALSE, TRUE)}
MCMasks == {{}, {1, 2}}
================================================================================
