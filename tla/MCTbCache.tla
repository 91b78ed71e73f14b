------------------------------- MODULE MCTbCache -------------------------------
(* Instances of the translation-block cache for TLC: code that calls the   *)
(* other page by exit 0 and loops to itself by exit 1.                     *)
EXTENDS TbCache, TLC

MCSucc(p, n) == IF n = 0 THEN CHOOSE q \in Pc : q # p ELSE p

Sym == Permutations(Cpu) \cup Permutations(Slot) \cup Permutations(Pc)
================================================================================
