----------------------------- MODULE SymShadowOps -----------------------------
(***************************************************************************)
(* Operations, comparisons and their helpers on two-byte words of one-bit  *)
(* bytes: two's complement numbers of two bits, little endian.             *)
(***************************************************************************)
EXTENDS Integers

Num(w) == w[0] + 2 * w[1]
ToWord(n) == [k \in 0..1 |-> IF k = 0 THEN n % 2 ELSE (n \div 2) % 2]
Not(w) == [k \in 0..1 |-> 1 - w[k]]
And(v, w) == [k \in 0..1 |-> v[k] * w[k]]

MCSem1(op, x) == CASE op = "not" -> Not(x)
                   [] op = "neg" -> ToWord(4 - Num(x))

MCSem2(op, x, y) == CASE op = "add"  -> ToWord(Num(x) + Num(y))
                      [] op = "sub"  -> ToWord(4 + Num(x) - Num(y))
                      [] op = "andc" -> And(x, Not(y))
                      [] op = "orc"  -> Not(And(Not(x), y))

MCTest(c, x, y) == CASE c = "eq"    -> x = y
                     [] c = "ltu"   -> Num(x) < Num(y)
                     [] c = "tstne" -> Num(And(x, y)) # 0

MCHelper2(op, x, y) == CASE op = "add"  -> ToWord(Num(x) + Num(y))
                         [] op = "sub"  -> ToWord(Num(x) + Num(ToWord(4 - Num(y))))
                         [] op = "andc" -> And(x, Not(y))
                         [] op = "orc"  -> Not(And(Not(x), Not(Not(y))))

(* An unhandled helper that depends on its argument (parity).              *)
MCCall(f, x) == ToWord((x[0] + x[1]) % 2)

(* Memory of two cells; addresses wrap around.                             *)
MCCell(x, k) == (Num(x) + k) % 2

MCConsts == {ToWord(0), ToWord(1), ToWord(3)}
MCInputs == 0..2
MCFiles == {[i \in MCInputs |-> i % 2], [i \in MCInputs |-> i \div 2]}
===============================================================================
