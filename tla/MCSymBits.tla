------------------------------ MODULE MCSymBits ------------------------------
(***************************************************************************)
(* SymBits with one-bit bytes.  Every result bit of an operation is a copy *)
(* of one operand bit or zero, so that words with a single one tell any    *)
(* two wirings apart.                                                      *)
(***************************************************************************)
EXTENDS SymBits

CONSTANT MaxOps   \* bound on the number of operations executed

VARIABLE executed

MCWords(w) == {{}, 0..(w - 1)} \cup {{i} : i \in 0..(w - 1)}

(* Nothing, what x86-64 has for a field it supports and for one it does    *)
(* not, two hosts between, and everything.                                 *)
MCHosts == {{}, Host \ {"sextract"}, Host \ {"deposit", "extract", "sextract"},
            {"ext", "sextract"}, {"extract2"}, Host}

MCInit == Init /\ executed = 0
MCNext == executed < MaxOps /\ executed' = executed + 1 /\ Next
MCSpec == MCInit /\ [][MCNext]_<<vars, executed>>

(* With the swaps that sign-extend their result, of a zero-extended input. *)
MCNextSigned ==
    /\ executed < MaxOps /\ executed' = executed + 1
    /\ \/ Next
       \/ \E r, a \in Temps, len \in {2, 4} : Bswaps(r, a, len, {"IZ", "OS"})
MCSpecSigned == MCInit /\ [][MCNextSigned]_<<vars, executed>>

(* A byte swap by the host with TCG_BSWAP_OS gets the expression that its  *)
(* alternative implementation, on a host without it, gets: sym_bswap       *)
(* follows tcg_gen_bswap16 and tcg_gen_bswap32.                            *)
SignedSwapFollowed == expr = val
=============================================================================
