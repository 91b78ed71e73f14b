----------------------------- MODULE SymShadowGaps -----------------------------
(***************************************************************************)
(* Operations whose symbolic side, as coded, does not follow the value.    *)
(* SymShadow leaves them out of its next-state relation (or, for aliased   *)
(* operands, guards them); here each is added to it on its own.            *)
(***************************************************************************)
EXTENDS SymShadow

CONSTANTS Xor(_, _),      \* bitwise exclusive or of two words
          SignFill(_)     \* the byte that extends the sign of a byte

(* movcond_i64 on a 64-bit host.  The helper is called first: it masks     *)
(* both alternatives with the condition, and is told ret, the old value of *)
(* the destination, as the outcome of the comparison, of which             *)
(* build_and_push_path_constraint keeps the low byte.  With c1 and c2 both *)
(* concrete the helper returns NULL or dereferences it.                    *)
MovCond(c, r, c1, c2, v1, v2) ==
    LET sym == Condition(c, c1, c2, val)
        e1 == Ensure(val[v1][seed], expr[v1])
        e2 == Ensure(val[v2][seed], expr[v2])
    IN  /\ expr[c1] # Null \/ expr[c2] # Null
        /\ path' = Push(sym, val[r][seed][0] # 0)
        /\ expr' = [expr EXCEPT ![r] =
                       [i \in Inputs |-> IF i \in sym THEN Xor(e1[i], e2[i])
                                         ELSE Number(0)]]
        /\ val' = Set(r, [i \in Inputs |->
                            IF i \in TrueOn(c, c1, c2) THEN val[v1][i]
                            ELSE val[v2][i]])
        /\ UNCHANGED <<seed, memory, same, exact>>

(* A load with MO_SIGN: the helper is given the length only.               *)
LdSigned(r, a, len) ==
    LET addr == val[a][seed]
        plain == LoadWord(a, len)
    IN  /\ val' = Set(r, [i \in Inputs |->
                            [k \in 0..(W - 1) |->
                                IF k < len THEN plain[i][k]
                                ELSE SignFill(plain[i][len - 1])]])
        /\ path' = PinAddress(addr, expr[a])
        /\ expr' = [expr EXCEPT ![r] = ReadShadow(addr, len)]
        /\ UNCHANGED <<seed, memory, same, exact>>

-------------------------------------------------------------------------------
AddMovCond ==
    \E r, c1, c2, v1, v2 \in Temps, c \in Conds : MovCond(c, r, c1, c2, v1, v2)
AddAliased == \E r, a, b \in Temps, op \in OpsAfter : Op2After(op, r, a, b)
AddLdSigned == \E r, a \in Temps, len \in Lengths : LdSigned(r, a, len)

SpecMovCond == Init /\ [][Next \/ AddMovCond]_vars
SpecAliased == Init /\ [][Next \/ AddAliased]_vars
SpecLdSigned == Init /\ [][Next \/ AddLdSigned]_vars

(* The expression of a result, if there is one, has the result's value.    *)
ResultAgrees(r) == expr'[r] # Null => expr'[r][seed] = val'[r][seed]

(* docs/devel/tcg-ops.rst on movcond: "dest = (c1 cond c2 ? v1 : v2)".     *)
MovCondSelects ==
    [][\A r, c1, c2, v1, v2 \in Temps, c \in Conds :
          MovCond(c, r, c1, c2, v1, v2) => ResultAgrees(r)]_vars

(* docs/devel/tcg-ops.rst on andc: "t0 = t1 & ~t2", whatever temporaries   *)
(* t0, t1 and t2 are.                                                      *)
AliasedOperandsKept ==
    [][\A r, a, b \in Temps, op \in OpsAfter :
          Op2After(op, r, a, b) => ResultAgrees(r)]_vars

(* include/exec/memop.h on MO_SIGN: "Sign-extended, otherwise              *)
(* zero-extended".                                                         *)
SignedLoadExtends ==
    [][\A r, a \in Temps, len \in Lengths :
          LdSigned(r, a, len) => ResultAgrees(r)]_vars
===============================================================================
