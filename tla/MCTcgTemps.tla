------------------------------ MODULE MCTcgTemps ------------------------------
(* Instances of the temporaries for TLC: room for env, a frame or a global *)
(* and a handful of temporaries, so that translations overflow early.      *)
EXTENDS TcgTemps
===============================================================================
