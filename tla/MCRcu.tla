--------------------------------- MODULE MCRcu ---------------------------------
(* Instances of RCU for TLC.                                               *)
EXTENDS Rcu
================================================================================
