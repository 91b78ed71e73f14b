----------------------------- MODULE MCSymShadow -----------------------------
(***************************************************************************)
(* SymShadow on the words of SymShadowOps, for runs of MaxOps operations.  *)
(***************************************************************************)
EXTENDS SymShadow, SymShadowOps, TLC

CONSTANT MaxOps   \* bound on the number of operations executed

VARIABLE executed

MCInit == Init /\ executed = 0
MCNext == executed < MaxOps /\ executed' = executed + 1 /\ Next
MCSpec == MCInit /\ [][MCNext]_<<vars, executed>>

Symmetry == Permutations(Temps)
=============================================================================
