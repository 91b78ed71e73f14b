--------------------------- MODULE MCSymShadowGaps ---------------------------
(***************************************************************************)
(* SymShadowGaps on the words of MCSymShadow.                              *)
(***************************************************************************)
EXTENDS SymShadowGaps, SymShadowOps

MCXor(v, w) == [k \in 0..1 |-> (v[k] + w[k]) % 2]
MCSignFill(b) == b
=============================================================================
