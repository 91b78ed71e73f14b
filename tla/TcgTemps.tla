------------------------------- MODULE TcgTemps -------------------------------
(***************************************************************************)
(* The temporaries of a TCGContext on a 64-bit host.  SymQEMU gives every  *)
(* temporary a second one that holds the symbolic expression of its value; *)
(* nothing but the position in s->temps ties the two together, and         *)
(* temp_expr computes that position.  Globals are registered once; TB, EBB *)
(* and constant temporaries live for one translation, which starts over    *)
(* when s->temps is full.                                                  *)
(*                                                                         *)
(* held are the temporaries that the front end has been given and may      *)
(* still use.                                                              *)
(***************************************************************************)
EXTENDS Naturals, FiniteSets

CONSTANTS MaxTemps,   \* TCG_MAX_TEMPS
          SymOffset,  \* distance of env_exprs from env, in pointers
          Types,      \* types of temporaries; "I64" is also TCG_TYPE_PTR
          Vals,       \* values of constants
          None        \* no temporary, no home

Index == 0..(MaxTemps - 1)

ASSUME TempsAssumption ==
    /\ MaxTemps \in Nat /\ MaxTemps >= 2
    /\ SymOffset \in Nat \ {0}
    /\ Types \subseteq {"I32", "I64", "I128"}
    /\ 0 \in Vals /\ None \notin Nat

VARIABLES
    temps,        \* s->temps
    nb_temps, nb_globals,
    free_temps,   \* the bitmaps of freed EBB temporaries, by type
    const_table,  \* the hash tables of constants
    stage,        \* "init", "gen", "overflow" (after tcg_raise_tb_overflow)
                  \* or "abort" (after a failed tcg_debug_assert)
    held,
    debug         \* CONFIG_DEBUG_TCG: is tcg_debug_assert an assertion?

vars == <<temps, nb_temps, nb_globals, free_temps, const_table, stage, held, debug>>

(* tcg_temp_alloc clears what it hands out.                                *)
Blank == [kind |-> "ebb", base_type |-> "I32", temp_allocated |-> FALSE,
          temp_subindex_len |-> 0, symbolic_expression |-> FALSE, val |-> 0,
          sym_offset |-> 0, indirect_reg |-> FALSE, home |-> None]

(* An expression temporary; home is where a global one is kept in memory.  *)
Expr(k, allocated, indirect, home) ==
    [Blank EXCEPT !.kind = k, !.base_type = "I64", !.temp_allocated = allocated,
                  !.symbolic_expression = TRUE, !.indirect_reg = indirect,
                  !.home = home]

Parts(type) == IF type = "I128" THEN 2 ELSE 1

temp_expr(i) == i + temps[i].temp_subindex_len + 1

PartsOf(i) == i..(i + temps[i].temp_subindex_len)

Minimum(S) == CHOOSE i \in S : \A j \in S : i <= j

-------------------------------------------------------------------------------
(* Mutated form: tcg_temp_alloc does not test the size of the array.       *)
AllocUnchecked(n, fill) ==
    /\ temps' = [i \in Index |->
                    IF i >= nb_temps /\ i < nb_temps + n
                    THEN fill[i - nb_temps] ELSE temps[i]]
    /\ nb_temps' = nb_temps + n
    /\ UNCHANGED stage

(* n calls of tcg_temp_alloc, the k-th result filled in with fill[k]: the  *)
(* calls that still fit are made, the one that does not raises             *)
(* tcg_raise_tb_overflow with nb_temps already incremented.                *)
Alloc(n, fill) ==
    LET fit == nb_temps + n <= MaxTemps
    IN  /\ temps' = [i \in Index |->
                        IF i >= nb_temps /\ i < nb_temps + n
                        THEN fill[i - nb_temps] ELSE temps[i]]
        /\ nb_temps' = IF fit THEN nb_temps + n ELSE MaxTemps + 1
        /\ stage' = IF fit THEN stage ELSE "overflow"

(* tcg_context_init: the register that holds env is the first global.      *)
EnvTemp == [Blank EXCEPT !.kind = "fixed", !.base_type = "I64",
                         !.sym_offset = SymOffset]

Init ==
    /\ temps = [i \in Index |->
                  IF i = 0 THEN EnvTemp
                  ELSE IF i = 1 THEN Expr("global", FALSE, FALSE,
                                          [base |-> 0, offset |-> SymOffset])
                  ELSE Blank]
    /\ nb_temps = 2 /\ nb_globals = 2
    /\ free_temps = [t \in Types |-> {}]
    /\ const_table = [t \in Types |-> [v \in Vals |-> None]]
    /\ stage = "init"
    /\ held = {}
    /\ debug \in BOOLEAN

(* tcg_set_frame: a fixed register whose expression is never used.         *)
tcg_set_frame ==
    /\ stage = "init" /\ nb_temps + 2 <= MaxTemps
    /\ \A i \in 0..(nb_temps - 1) : temps[i].kind = "fixed" => i = 0
    /\ LET n == nb_globals
       IN Alloc(2, [k \in 0..1 |->
                      IF k = 0
                      THEN [Blank EXCEPT !.kind = "fixed", !.base_type = "I64"]
                      ELSE Expr("global", FALSE, FALSE,
                                [base |-> n, offset |-> 0])])
    /\ nb_globals' = nb_globals + 2
    /\ UNCHANGED <<free_temps, const_table, held>>

(* Globals, whose expressions live in env_exprs (or beside the base that   *)
(* an indirect global has), at the number of globals so far.               *)
GlobalMemNew(base, type, expr_idx) ==
    /\ stage = "init" /\ nb_temps + 2 <= MaxTemps
    /\ base < nb_globals /\ ~temps[base].symbolic_expression
    /\ ~temps[base].indirect_reg
    /\ LET indirect == temps[base].kind = "global"
       IN Alloc(2, [k \in 0..1 |->
                      IF k = 0
                      THEN [Blank EXCEPT !.kind = "global", !.base_type = type,
                                         !.indirect_reg = indirect]
                      ELSE Expr("global", FALSE, indirect,
                                [base |-> base,
                                 offset |-> temps[base].sym_offset + expr_idx])])
    /\ nb_globals' = nb_globals + 2
    /\ UNCHANGED <<free_temps, const_table, held>>

(* Mutated form: the slot of the new global is counted from the last one.  *)
tcg_global_mem_newLate(base, type) ==
    GlobalMemNew(base, type, (nb_globals \div 2) - 1)

tcg_global_mem_new(base, type) == GlobalMemNew(base, type, nb_globals \div 2)

-------------------------------------------------------------------------------
(* tcg_func_start: a translation begins, or begins again after an overflow *)
(* (setjmp_gen_code, with fewer guest instructions).                       *)
(* Mutated form: the tables of constants are kept.                         *)
tcg_func_startKeepConst ==
    /\ stage # "abort"
    /\ nb_temps' = nb_globals
    /\ free_temps' = [t \in Types |-> {}]
    /\ stage' = "gen"
    /\ held' = {}
    /\ UNCHANGED <<temps, nb_globals, const_table>>

tcg_func_start ==
    /\ stage # "abort"
    /\ nb_temps' = nb_globals
    /\ free_temps' = [t \in Types |-> {}]
    /\ const_table' = [t \in Types |-> [v \in Vals |-> None]]
    /\ stage' = "gen"
    /\ held' = {}
    /\ UNCHANGED <<temps, nb_globals>>

(* Mutated form: one expression temporary for both halves of a value.      *)
NewTempOneExpr(type, kind) ==
    LET n == Parts(type)
        value == [Blank EXCEPT !.kind = kind, !.base_type = type,
                               !.temp_allocated = TRUE,
                               !.temp_subindex_len = n - 1]
    IN  /\ Alloc(n + 1, [k \in 0..n |->
                           IF k < n THEN value ELSE Expr(kind, TRUE, FALSE, None)])
        /\ held' = IF stage' = "gen" THEN held \cup {nb_temps} ELSE held
        /\ UNCHANGED <<nb_globals, free_temps, const_table>>

(* tcg_temp_new_internal with no freed temporary to take: the parts of the *)
(* value first, then one expression temporary for each.                    *)
NewTemp(type, kind) ==
    LET n == Parts(type)
        value == [Blank EXCEPT !.kind = kind, !.base_type = type,
                               !.temp_allocated = TRUE,
                               !.temp_subindex_len = n - 1]
    IN  /\ Alloc(2 * n, [k \in 0..(2 * n - 1) |->
                           IF k < n THEN value ELSE Expr(kind, TRUE, FALSE, None)])
        /\ held' = IF stage' = "gen" THEN held \cup {nb_temps} ELSE held
        /\ UNCHANGED <<nb_globals, free_temps, const_table>>

(* ... and with one, which takes the temporary after it for its expression *)
(* whatever its type, and only then asserts that it is one.  For a 128-bit *)
(* temporary it is the second half of the value: a debug build stops       *)
(* there.  Elsewhere the failing assertion is __builtin_unreachable();     *)
(* the outcome taken for that is the code without the test.                *)
ReuseTemp(type) ==
    LET idx == Minimum(free_temps[type])
        asserted == /\ temps[idx].base_type = type /\ temps[idx].kind = "ebb"
                    /\ temps[idx + 1].base_type = "I64"
                    /\ temps[idx + 1].kind = "ebb"
    IN  /\ free_temps' = [free_temps EXCEPT ![type] = @ \ {idx}]
        /\ temps' = [temps EXCEPT ![idx].temp_allocated = TRUE,
                                  ![idx + 1].temp_allocated = TRUE,
                                  ![idx + 1].symbolic_expression = TRUE]
        /\ stage' = IF debug => asserted THEN stage ELSE "abort"
        /\ held' = IF debug => asserted THEN held \cup {idx} ELSE held
        /\ UNCHANGED <<nb_temps, nb_globals, const_table>>

tcg_temp_new_internal(type, kind) ==
    /\ stage = "gen"
    /\ IF kind = "ebb" /\ free_temps[type] # {}
       THEN ReuseTemp(type) ELSE NewTemp(type, kind)

(* Mutated form: the bit is set in the bitmap of the expression's type.    *)
tcg_temp_free_internalExprType(i) ==
    /\ stage = "gen" /\ i \in held
    /\ held' = held \ {i}
    /\ IF temps[i].kind = "ebb"
       THEN /\ temps' = [temps EXCEPT ![i].temp_allocated = FALSE,
                                      ![temp_expr(i)].temp_allocated = FALSE]
            /\ free_temps' = [free_temps EXCEPT !["I64"] = @ \cup {i}]
       ELSE UNCHANGED <<temps, free_temps>>
    /\ UNCHANGED <<nb_temps, nb_globals, const_table, stage>>

(* The free of a TB or constant temporary is ignored.                      *)
tcg_temp_free_internal(i) ==
    /\ stage = "gen" /\ i \in held
    /\ held' = held \ {i}
    /\ IF temps[i].kind = "ebb"
       THEN /\ temps' = [temps EXCEPT ![i].temp_allocated = FALSE,
                                      ![temp_expr(i)].temp_allocated = FALSE]
            /\ free_temps' = [free_temps EXCEPT ![temps[i].base_type] = @ \cup {i}]
       ELSE UNCHANGED <<temps, free_temps>>
    /\ UNCHANGED <<nb_temps, nb_globals, const_table, stage>>

(* Constants are interned by type and value.  The table gets its entry     *)
(* before the expression temporary is allocated.                           *)
ConstTemp(type, v) ==
    IF const_table[type][v] # None
    THEN /\ held' = held \cup {const_table[type][v]}
         /\ UNCHANGED <<temps, nb_temps, const_table, stage>>
    ELSE /\ Alloc(2, [k \in 0..1 |->
                        IF k = 0
                        THEN [Blank EXCEPT !.kind = "const", !.base_type = type,
                                           !.temp_allocated = TRUE, !.val = v]
                        ELSE Expr("const", TRUE, FALSE, None)])
         /\ const_table' = IF nb_temps < MaxTemps
                           THEN [const_table EXCEPT ![type][v] = nb_temps]
                           ELSE const_table
         /\ held' = IF stage' = "gen" THEN held \cup {nb_temps} ELSE held

tcg_constant_internal(type, v) ==
    /\ stage = "gen" /\ type # "I128"
    /\ ConstTemp(type, v)
    /\ UNCHANGED <<nb_globals, free_temps>>

-------------------------------------------------------------------------------
(* tcg_gen_callN of a helper without symbolic counterpart: the expression  *)
(* temporary of the result is set to the constant 0, which may have to be  *)
(* allocated.  (What is emitted is not state here.)                        *)
tcg_gen_callN(i) ==
    /\ stage = "gen" /\ "I64" \in Types
    /\ i \in held /\ temps[i].kind # "const" /\ ~temps[i].symbolic_expression
    /\ ConstTemp("I64", 0)
    /\ UNCHANGED <<nb_globals, free_temps>>

Next ==
    /\ \/ tcg_set_frame
       \/ \E base \in Index, type \in Types \ {"I128"} : tcg_global_mem_new(base, type)
       \/ tcg_func_start
       \/ \E type \in Types, kind \in {"ebb", "tb"} : tcg_temp_new_internal(type, kind)
       \/ \E i \in Index : tcg_temp_free_internal(i) \/ tcg_gen_callN(i)
       \/ \E type \in Types, v \in Vals : tcg_constant_internal(type, v)
    /\ UNCHANGED debug

Spec == Init /\ [][Next]_vars

-------------------------------------------------------------------------------
Homes == [base : Nat, offset : Nat] \cup {None}

Temp == [kind : {"ebb", "tb", "global", "fixed", "const"},
         base_type : {"I32", "I64", "I128"}, temp_allocated : BOOLEAN,
         temp_subindex_len : 0..1, symbolic_expression : BOOLEAN, val : Vals,
         sym_offset : Nat, indirect_reg : BOOLEAN, home : Homes]

(* Type invariant: no index beyond s->temps is ever written.               *)
TypeOK ==
    /\ temps \in [Index -> Temp]
    /\ nb_temps \in 0..(MaxTemps + 1) /\ nb_globals \in 0..MaxTemps
    /\ free_temps \in [Types -> SUBSET Index]
    /\ const_table \in [Types -> [Vals -> Index \cup {None}]]
    /\ stage \in {"init", "gen", "overflow", "abort"}
    /\ held \in SUBSET Index
    /\ debug \in BOOLEAN

Globals == {i \in Index : i < nb_globals /\ ~temps[i].symbolic_expression}

(* Every value the front end may use, the halves of 128-bit ones included. *)
Values == UNION {PartsOf(i) : i \in held \cup Globals}

(* The second half of a 128-bit EBB value.                                 *)
SecondHalf(i) ==
    i \notin held /\ temps[i].kind = "ebb" /\ temps[i].base_type = "I128"

(* Whatever has been allocated, freed, reused or interned, the assertions  *)
(* of temp_expr hold for every value in use, and the expression temporary  *)
(* that it finds is one that no other value in use has and that is not     *)
(* itself handed out as a value.  (The halves of 128-bit values, reuse of  *)
(* freed temporaries and constants shared between users all shift          *)
(* positions in s->temps.)  One case is excepted: where the assertions of  *)
(* ReuseTemp are not compiled in, !ts->symbolic_expression does not hold   *)
(* of the second half of a reused 128-bit value.                           *)
ExprPrivate ==
    /\ \A i \in Values : /\ temp_expr(i) < nb_temps
                         /\ temps[i].symbolic_expression => ~debug /\ SecondHalf(i)
                         /\ temps[temp_expr(i)].symbolic_expression
                         /\ temp_expr(i) \notin Values
    /\ \A i, j \in Values : temp_expr(i) = temp_expr(j) => i = j

(* What the bitmaps offer for reuse has the right type and shape and is    *)
(* nobody's: no part of a value in use, and no expression of one.          *)
FreeUnused ==
    \A type \in Types : \A i \in free_temps[type] :
        /\ i < nb_temps
        /\ temps[i].kind = "ebb" /\ temps[i].base_type = type
        /\ temps[i].temp_subindex_len = Parts(type) - 1
        /\ \A k \in PartsOf(i) : /\ k \notin Values
                                 /\ \A j \in Values : temp_expr(j) # k

(* A constant found in a table is a whole one of this translation: its     *)
(* value is the key and its expression temporary holds NULL, although the  *)
(* table is filled before the expression temporary exists and translations *)
(* are abandoned in the middle.                                            *)
ConstWhole ==
    stage = "gen" =>
        \A type \in Types : \A v \in Vals :
            LET i == const_table[type][v]
            IN  i # None =>
                    /\ i + 1 < nb_temps /\ i >= nb_globals
                    /\ temps[i].kind = "const"
                    /\ temps[i].base_type = type /\ temps[i].val = v
                    /\ temps[i + 1].kind = "const" /\ temps[i + 1].val = 0
                    /\ temps[i + 1].symbolic_expression

(* No two globals keep their expressions in the same place, and none of    *)
(* those based on env leaves env_exprs, which has TCG_MAX_TEMPS + 1        *)
(* entries.                                                                *)
HomesDistinct ==
    \A i, j \in Globals :
        /\ temps[i + 1].home = temps[j + 1].home => i = j
        /\ temps[i + 1].home.base = 0 =>
              temps[i + 1].home.offset \in SymOffset..(SymOffset + MaxTemps)
-------------------------------------------------------------------------------
(* The inductive invariant.  Every temporary that is held, free, interned  *)
(* or global heads a block of s->temps: its parts, then their expressions. *)
Free == UNION {free_temps[type] : type \in Types}

Interned == {i \in Index : \E type \in Types, v \in Vals : const_table[type][v] = i}

Locals == held \cup Free \cup (IF stage = "gen" THEN Interned ELSE {})

Heads == Locals \cup Globals

BlockEnd(i) == i + 2 * (temps[i].temp_subindex_len + 1)

(* The mark of an expression on a part of a value: without the assertions  *)
(* of a debug build, on the second half of a 128-bit one.                  *)
Marked(i, k) ==
    ~debug /\ k # i /\ temps[i].kind = "ebb" /\ temps[i].base_type = "I128"

(* Blocks are whole ...                                                    *)
Whole(i) ==
    /\ BlockEnd(i) <= nb_temps /\ BlockEnd(i) <= MaxTemps
    /\ \A k \in PartsOf(i) :
          /\ temps[k].temp_subindex_len = temps[i].temp_subindex_len
          /\ temps[k].kind = temps[i].kind
          /\ temps[k].base_type = temps[i].base_type
          /\ temps[temp_expr(k)].symbolic_expression
          /\ temps[k].symbolic_expression => Marked(i, k)

BlocksWhole == \A i \in Heads : Whole(i)

(* ... and disjoint, ...                                                   *)
BlocksApart == \A i, j \in Heads : i < j => BlockEnd(i) <= j

(* ... those of globals below those of a translation, which are gone when  *)
(* none is under way.                                                      *)
GlobalsFirst ==
    /\ 2 <= nb_globals /\ nb_globals <= nb_temps
    /\ stage # "overflow" => nb_temps <= MaxTemps
    /\ stage = "init" => nb_temps = nb_globals /\ Locals = {} /\ Interned = {}
    /\ \A i \in Globals : BlockEnd(i) <= nb_globals
    /\ \A i \in Locals : nb_globals <= i

(* A freed temporary keeps the type and the shape it was allocated with,   *)
(* and is not held.                                                        *)
ShapesKept ==
    /\ \A i \in held : temps[i].kind = "ebb" =>
          /\ temps[i].base_type \in Types
          /\ temps[i].temp_subindex_len = Parts(temps[i].base_type) - 1
    /\ \A type \in Types : \A i \in free_temps[type] :
          /\ temps[i].kind = "ebb" /\ temps[i].base_type = type
          /\ temps[i].temp_subindex_len = Parts(type) - 1
          /\ i \notin held

(* The expression of a global is at the global's number in env_exprs, or   *)
(* past the base of an indirect one; that of the frame is in the frame.    *)
HomesPlaced ==
    \A i \in Globals :
        /\ temps[i].sym_offset = IF i = 0 THEN SymOffset ELSE 0
        /\ \/ /\ i # 0
              /\ temps[i + 1].home = [base |-> i, offset |-> 0]
           \/ \E base \in 0..i :
                /\ base = i => i = 0
                /\ temps[i + 1].home =
                      [base |-> base,
                       offset |-> (IF base = 0 THEN SymOffset ELSE 0) + (i \div 2)]

IInv ==
    /\ TypeOK /\ BlocksWhole /\ BlocksApart /\ GlobalsFirst /\ ShapesKept
    /\ ConstWhole /\ HomesPlaced
===============================================================================
