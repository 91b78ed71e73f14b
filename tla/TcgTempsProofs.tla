---------------------------- MODULE TcgTempsProofs ----------------------------
(***************************************************************************)
(* For any size of s->temps, any constants and any of the types: every     *)
(* value in use has an expression temporary of its own, what is free is    *)
(* nobody's, interned constants are whole and the expressions of globals   *)
(* are kept apart.                                                         *)
(***************************************************************************)
EXTENDS TcgTemps, WellFoundedInduction, TLAPS

(* find_first_bit finds a bit that is set.                                 *)
LEMMA MinimumIn ==
    ASSUME NEW S \in SUBSET Nat, S # {}
    PROVE  Minimum(S) \in S
<1> DEFINE Less == {ss \in Nat \X Nat : ss[1] < ss[2]}
<1>1. IsWellFoundedOn(Less, Nat) /\ S \subseteq Nat
  BY NatLessThanWellFounded, Zenon DEF OpToRel
<1>2. PICK i \in S : \A j \in S : ~(<<j, i>> \in Less)
  <2> HIDE DEF Less
  <2> QED  BY <1>1, WFMin, Zenon
<1>3. ASSUME NEW j \in S PROVE i <= j
  <2>1. i \in Nat /\ j \in Nat /\ <<j, i>> \in Nat \X Nat  OBVIOUS
  <2>2. ~(<<j, i>>[1] < <<j, i>>[2])  BY <1>2, <2>1, Zenon
  <2> QED  BY <2>1, <2>2
<1> QED  BY <1>3 DEF Minimum

(* What tcg_temp_alloc hands out.                                          *)
LEMMA BlankTyped ==
    /\ Blank \in Temp
    /\ Blank.symbolic_expression = FALSE /\ Blank.temp_subindex_len = 0
    /\ Blank.val = 0 /\ Blank.sym_offset = 0
BY TempsAssumption DEF Blank, Temp, Homes

(* The expression temporary of a global.                                   *)
LEMMA GlobalExprTyped ==
    ASSUME NEW indirect \in BOOLEAN, NEW home \in Homes
    PROVE  LET e == Expr("global", FALSE, indirect, home)
           IN  /\ e \in Temp /\ e.symbolic_expression = TRUE
               /\ e.temp_subindex_len = 0 /\ e.home = home
BY BlankTyped DEF Expr, Temp

(* The expression temporary of a constant.                                 *)
LEMMA ConstExprTyped ==
    LET e == Expr("const", TRUE, FALSE, None)
    IN  /\ e \in Temp /\ e.symbolic_expression = TRUE
        /\ e.kind = "const" /\ e.val = 0
<1>1. None \in Homes  BY DEF Homes
<1> QED  BY <1>1, BlankTyped DEF Expr, Temp

(* The expression temporary of any other value.                            *)
LEMMA PlainExprTyped ==
    ASSUME NEW k \in {"ebb", "tb", "global", "fixed", "const"}
    PROVE  LET e == Expr(k, TRUE, FALSE, None)
           IN  e \in Temp /\ e.symbolic_expression = TRUE
<1>1. None \in Homes  BY DEF Homes
<1> QED  BY <1>1, BlankTyped DEF Expr, Temp

(* What n calls of tcg_temp_alloc do: nothing to what was allocated, and   *)
(* the new ones are what their callers make of them.                       *)
LEMMA AllocEffect ==
    ASSUME TypeOK, NEW n \in Nat, NEW last, last = n - 1,
           NEW fill \in [0..last -> Temp], Alloc(n, fill)
    PROVE  /\ temps' \in [Index -> Temp]
           /\ \A i \in Index : i < nb_temps => temps'[i] = temps[i]
           /\ \A k \in 0..last :
                 nb_temps + k \in Index => temps'[nb_temps + k] = fill[k]
           /\ nb_temps + n <= MaxTemps =>
                 nb_temps' = nb_temps + n /\ stage' = stage
           /\ ~(nb_temps + n <= MaxTemps) =>
                 nb_temps' = MaxTemps + 1 /\ stage' = "overflow"
           /\ nb_temps' \in 0..(MaxTemps + 1)
<1> USE TempsAssumption DEF Alloc, Index
<1>1. nb_temps \in Nat /\ temps \in [Index -> Temp]
  BY DEF TypeOK
<1>2. ASSUME NEW i \in Index
      PROVE  temps'[i] = IF i >= nb_temps /\ i < nb_temps + n
                         THEN fill[i - nb_temps] ELSE temps[i]
  OBVIOUS
<1>3. temps' \in [Index -> Temp]
  <2>1. ASSUME NEW i \in Index
        PROVE  (IF i >= nb_temps /\ i < nb_temps + n
                THEN fill[i - nb_temps] ELSE temps[i]) \in Temp
    BY <1>1
  <2> HIDE DEF Index
  <2> QED  BY <2>1
<1>4. \A k \in 0..last : nb_temps + k \in Index => temps'[nb_temps + k] = fill[k]
  BY <1>1, <1>2
<1>5. \A i \in Index : i < nb_temps => temps'[i] = temps[i]
  BY <1>1, <1>2
<1>6. nb_temps' \in 0..(MaxTemps + 1)
  BY <1>1
<1> QED  BY <1>1, <1>3, <1>4, <1>5, <1>6

(* Two calls: a value and its expression.                                  *)
LEMMA AllocPair ==
    ASSUME TypeOK, NEW fill \in [0..1 -> Temp], Alloc(2, fill)
    PROVE  /\ temps' \in [Index -> Temp]
           /\ \A i \in Index : i < nb_temps => temps'[i] = temps[i]
           /\ \A k \in 0..1 :
                 nb_temps + k \in Index => temps'[nb_temps + k] = fill[k]
           /\ nb_temps + 2 <= MaxTemps =>
                 nb_temps' = nb_temps + 2 /\ stage' = stage
           /\ ~(nb_temps + 2 <= MaxTemps) =>
                 nb_temps' = MaxTemps + 1 /\ stage' = "overflow"
           /\ nb_temps' \in 0..(MaxTemps + 1)
<1>1. 2 \in Nat /\ 1 = 2 - 1  OBVIOUS
<1> QED  BY <1>1, AllocEffect

(* A step marks no part of a block as an expression, except as Marked      *)
(* allows.                                                                 *)
MarksKept ==
    \A k \in Index : k < nb_temps /\ temps'[k].symbolic_expression =>
        \/ temps[k].symbolic_expression
        \/ \A i \in Heads \cap Heads' : k \in PartsOf(i) => Marked(i, k)

(* A step that leaves the shape of the blocks alone and adds at most one   *)
(* block, at the end, keeps them whole and apart.                          *)
LEMMA StepBlocks ==
    ASSUME TypeOK, BlocksWhole, BlocksApart, TypeOK',
           NEW h, h = nb_temps, nb_temps <= nb_temps', debug' = debug,
           \A i \in Index : i < nb_temps =>
               /\ temps'[i].temp_subindex_len = temps[i].temp_subindex_len
               /\ temps'[i].kind = temps[i].kind
               /\ temps'[i].base_type = temps[i].base_type
               /\ temps[i].symbolic_expression => temps'[i].symbolic_expression,
           MarksKept,
           Heads' \subseteq Heads \cup {h},
           h \in Heads' => Whole(h)'
    PROVE  BlocksWhole' /\ BlocksApart'
<1> USE TempsAssumption
<1>1. Heads \subseteq Index /\ Heads' \subseteq Index
  BY DEF Heads, Locals, Free, Interned, Globals, TypeOK
<1>2. \A i \in Index : temps[i].temp_subindex_len \in 0..1
  BY DEF TypeOK, Temp
<1>3. nb_temps \in Nat /\ nb_temps' \in Nat
  BY DEF TypeOK
<1>4. ASSUME NEW i \in Heads
      PROVE  /\ i < nb_temps /\ i \in Index
             /\ BlockEnd(i)' = BlockEnd(i) /\ (i \in Heads' => Whole(i)')
  <2>1. Whole(i) /\ i \in Index
    BY <1>1 DEF BlocksWhole
  <2> DEFINE len == temps[i].temp_subindex_len
  <2>2. len \in 0..1 /\ i + 2 * (len + 1) <= nb_temps /\ i + 2 * (len + 1) <= MaxTemps
    BY <2>1, <1>2 DEF Whole, BlockEnd
  <2>3. /\ temps'[i].temp_subindex_len = len /\ i < nb_temps
        /\ temps'[i].kind = temps[i].kind /\ temps'[i].base_type = temps[i].base_type
    BY <2>1, <2>2, <1>3 DEF Index
  <2>4. ASSUME NEW k \in i..(i + len), i \in Heads'
        PROVE  /\ temps'[k].temp_subindex_len = len
               /\ temps'[k].kind = temps'[i].kind
               /\ temps'[k].base_type = temps'[i].base_type
               /\ temps'[k + len + 1].symbolic_expression
               /\ temps'[k].symbolic_expression => Marked(i, k)'
    <3>1. k \in Index /\ k < nb_temps /\ k + len + 1 \in Index /\ k + len + 1 < nb_temps
      BY <2>1, <2>2, <1>3 DEF Index
    <3>2. /\ temps[k].temp_subindex_len = len /\ temps[k + len + 1].symbolic_expression
          /\ temps[k].kind = temps[i].kind /\ temps[k].base_type = temps[i].base_type
          /\ temps[k].symbolic_expression => Marked(i, k)
      BY <2>1 DEF Whole, PartsOf, temp_expr
    <3>3. Marked(i, k)' <=> Marked(i, k)
      BY <2>3 DEF Marked
    <3>4. temps'[k].symbolic_expression => Marked(i, k)
      BY <2>4, <3>1, <3>2 DEF MarksKept, PartsOf
    <3> QED  BY <2>3, <3>1, <3>2, <3>3, <3>4
  <2>5. BlockEnd(i)' = BlockEnd(i)
    BY <2>3 DEF BlockEnd
  <2>6. ASSUME i \in Heads' PROVE Whole(i)'
    <3>1. BlockEnd(i)' <= nb_temps' /\ BlockEnd(i)' <= MaxTemps
      BY <2>2, <2>5, <1>3, <2>1 DEF BlockEnd, Index
    <3>2. \A k \in PartsOf(i)' :
            /\ temps'[k].temp_subindex_len = temps'[i].temp_subindex_len
            /\ temps'[k].kind = temps'[i].kind
            /\ temps'[k].base_type = temps'[i].base_type
            /\ temps'[k + temps'[k].temp_subindex_len + 1].symbolic_expression
            /\ temps'[k].symbolic_expression => Marked(i, k)'
      BY <2>3, <2>4, <2>6 DEF PartsOf
    <3> QED  BY <3>1, <3>2 DEF Whole, temp_expr, Marked
  <2> QED  BY <2>1, <2>3, <2>5, <2>6
<1>5. BlocksWhole'
  BY <1>4 DEF BlocksWhole
<1>6. BlocksApart'
  <2> SUFFICES ASSUME NEW i \in Heads', NEW j \in Heads', i < j
               PROVE  BlockEnd(i)' <= j
    BY DEF BlocksApart
  <2>1. i \in Heads
    BY <1>1, <1>3, <1>4 DEF Index
  <2>2. CASE j \in Heads
    BY <2>1, <2>2, <1>4 DEF BlocksApart
  <2>3. CASE j = h
    BY <2>1, <2>3, <1>4 DEF BlocksWhole, Whole
  <2> QED  BY <2>2, <2>3
<1> QED  BY <1>5, <1>6

(* A head, the temporary after it and the block lie inside s->temps.       *)
LEMMA HeadsInside ==
    ASSUME TypeOK, BlocksWhole, NEW i \in Heads
    PROVE  /\ i \in Index /\ i < nb_temps
           /\ i + 1 \in Index /\ i + 1 < nb_temps
           /\ temps[i].temp_subindex_len \in 0..1
           /\ temps[i].temp_subindex_len = 0 => temps[i + 1].symbolic_expression
           /\ i + 2 <= BlockEnd(i)
<1> USE TempsAssumption
<1>1. i \in Index
  BY DEF Heads, Locals, Free, Interned, Globals, TypeOK
<1>2. temps[i].temp_subindex_len \in 0..1 /\ nb_temps \in Nat
  BY <1>1 DEF TypeOK, Temp
<1>3. BlockEnd(i) <= nb_temps /\ BlockEnd(i) <= MaxTemps
  BY DEF BlocksWhole, Whole
<1>4. temps[i].temp_subindex_len = 0 => temps[i + 1].symbolic_expression
  <2> SUFFICES ASSUME temps[i].temp_subindex_len = 0
               PROVE  temps[i + 1].symbolic_expression
    OBVIOUS
  <2>1. i \in PartsOf(i)
    BY <1>1 DEF PartsOf, Index
  <2>2. temp_expr(i) = i + 1
    BY <1>1 DEF temp_expr, Index
  <2> QED  BY <2>1, <2>2 DEF BlocksWhole, Whole
<1> QED  BY <1>1, <1>2, <1>3, <1>4 DEF BlockEnd, Index

(* The initial state satisfies the invariant.                              *)
LEMMA InitInv == Init => IInv
<1> SUFFICES ASSUME Init PROVE IInv  OBVIOUS
<1> USE TempsAssumption
<1> DEFINE home0 == [base |-> 0, offset |-> SymOffset]
           expr0 == Expr("global", FALSE, FALSE, home0)
<1>1. /\ expr0 \in Temp /\ expr0.symbolic_expression = TRUE
      /\ expr0.temp_subindex_len = 0 /\ expr0.home = home0
  <2>1. home0 \in Homes  BY DEF Homes
  <2> HIDE DEF home0
  <2> QED  BY <2>1, BlankTyped DEF Expr, Temp
<1>2. /\ EnvTemp \in Temp /\ EnvTemp.symbolic_expression = FALSE
      /\ EnvTemp.temp_subindex_len = 0 /\ EnvTemp.sym_offset = SymOffset
  BY BlankTyped DEF EnvTemp, Temp
<1> HIDE DEF expr0
<1>3. /\ 0 \in Index /\ 1 \in Index
      /\ temps = [i \in Index |-> IF i = 0 THEN EnvTemp
                                 ELSE IF i = 1 THEN expr0 ELSE Blank]
  BY DEF Init, Index, expr0
<1>4. temps \in [Index -> Temp] /\ temps[0] = EnvTemp /\ temps[1] = expr0
  BY <1>1, <1>2, <1>3, BlankTyped
<1>5. TypeOK
  <2>1. const_table \in [Types -> [Vals -> Index \cup {None}]]
    BY DEF Init
  <2>2. free_temps \in [Types -> SUBSET Index]
    BY DEF Init
  <2>3. /\ nb_temps \in 0..(MaxTemps + 1) /\ nb_globals \in 0..MaxTemps
        /\ stage \in {"init", "gen", "overflow", "abort"} /\ held \in SUBSET Index
        /\ debug \in BOOLEAN
    BY DEF Init
  <2> QED  BY <1>4, <2>1, <2>2, <2>3 DEF TypeOK
<1>6. Locals = {} /\ Interned = {}
  <2>1. Interned = {}
    BY DEF Init, Interned, Index
  <2> QED  BY <2>1 DEF Init, Locals, Free
<1>7. Globals = {0} /\ Heads = {0}
  <2>1. Globals = {0}
    <3>1. nb_globals = 2 /\ \A i \in Index : i < 2 => i = 0 \/ i = 1
      BY DEF Init, Index
    <3>2. ~temps[0].symbolic_expression /\ temps[1].symbolic_expression
      BY <1>1, <1>2, <1>4
    <3> QED  BY <1>3, <3>1, <3>2 DEF Globals
  <2> QED  BY <2>1, <1>6 DEF Heads
<1>8. BlockEnd(0) = 2 /\ PartsOf(0) = {0} /\ temp_expr(0) = 1
  BY <1>2, <1>4 DEF BlockEnd, PartsOf, temp_expr
<1>9. BlocksWhole /\ BlocksApart
  <2>1. nb_temps = 2 /\ temps[1].symbolic_expression /\ ~temps[0].symbolic_expression
    BY <1>1, <1>2, <1>4 DEF Init
  <2>2. Whole(0)
    BY <1>8, <2>1 DEF Whole
  <2> QED  BY <1>7, <2>2 DEF BlocksWhole, BlocksApart
<1>10. GlobalsFirst
  BY <1>6, <1>7, <1>8 DEF GlobalsFirst, Init
<1>11. ShapesKept /\ ConstWhole
  BY DEF Init, ShapesKept, ConstWhole
<1>12. HomesPlaced
  <2>1. 0 \div 2 = 0  OBVIOUS
  <2> QED  BY <1>1, <1>2, <1>4, <1>7, <2>1 DEF HomesPlaced
<1> QED  BY <1>5, <1>9, <1>10, <1>11, <1>12 DEF IInv

(* A new global: a pair at the end, with a home that no global has.        *)
LEMMA GlobalStep ==
    ASSUME IInv, stage = "init", nb_temps + 2 <= MaxTemps,
           NEW h, h = nb_globals,
           NEW fill \in [0..1 -> Temp], Alloc(2, fill),
           fill[0].temp_subindex_len = 0, ~fill[0].symbolic_expression,
           fill[0].sym_offset = 0, fill[1].symbolic_expression,
           \/ fill[1].home = [base |-> h, offset |-> 0]
           \/ \E base \in 0..(h - 1) :
                 fill[1].home = [base |-> base,
                                 offset |-> (IF base = 0 THEN SymOffset ELSE 0)
                                            + (h \div 2)],
           nb_globals' = nb_globals + 2,
           UNCHANGED <<free_temps, const_table, held, debug>>
    PROVE  IInv'
<1> USE TempsAssumption
<1>1. /\ TypeOK /\ BlocksWhole /\ BlocksApart /\ GlobalsFirst /\ ShapesKept
      /\ ConstWhole /\ HomesPlaced
  BY DEF IInv
<1>2. nb_globals \in Nat /\ nb_temps = h /\ h \in Nat /\ h >= 2 /\ h + 2 <= MaxTemps
  BY <1>1 DEF GlobalsFirst, TypeOK
<1>3. /\ temps' \in [Index -> Temp]
      /\ \A i \in Index : i < h => temps'[i] = temps[i]
      /\ \A k \in 0..1 : h + k \in Index => temps'[h + k] = fill[k]
      /\ nb_temps' = h + 2 /\ stage' = "init"
  <2>1. /\ temps' \in [Index -> Temp]
        /\ \A i \in Index : i < nb_temps => temps'[i] = temps[i]
        /\ \A k \in 0..1 : nb_temps + k \in Index => temps'[nb_temps + k] = fill[k]
        /\ nb_temps + 2 <= MaxTemps => nb_temps' = nb_temps + 2 /\ stage' = stage
    BY <1>1, AllocPair
  <2> QED  BY <1>2, <2>1
<1>4. /\ h \in Index /\ h + 1 \in Index
      /\ temps'[h] = fill[0] /\ temps'[h + 1] = fill[1]
  BY <1>2, <1>3 DEF Index
<1>5. TypeOK'
  BY <1>1, <1>2, <1>3 DEF TypeOK
<1>6. /\ Locals = {} /\ Interned = {} /\ Locals' = {} /\ Interned' = {}
  BY <1>1, <1>3 DEF GlobalsFirst, Locals, Free, Interned
<1>7. Globals' = Globals \cup {h} /\ Heads' = Heads \cup {h}
  <2>1. Globals' = Globals \cup {h}
    BY <1>2, <1>3, <1>4 DEF Globals, Index
  <2> QED  BY <2>1, <1>6 DEF Heads
<1>8. Whole(h)' /\ BlockEnd(h)' = h + 2
  <2>1. BlockEnd(h)' = h + 2 /\ PartsOf(h)' = {h} /\ temp_expr(h)' = h + 1
    BY <1>2, <1>4 DEF BlockEnd, PartsOf, temp_expr
  <2> QED  BY <2>1, <1>2, <1>3, <1>4 DEF Whole
<1>9. BlocksWhole' /\ BlocksApart'
  <2>1. MarksKept
    BY <1>2, <1>3 DEF MarksKept
  <2> QED  BY <1>1, <1>2, <1>3, <1>5, <1>7, <1>8, <2>1, StepBlocks
<1>10. ASSUME NEW i \in Globals
       PROVE  /\ i \in Index /\ i + 1 \in Index /\ i + 1 < h
              /\ temps'[i] = temps[i] /\ temps'[i + 1] = temps[i + 1]
              /\ BlockEnd(i)' = BlockEnd(i)
  <2>1. i \in Heads
    BY DEF Heads
  <2>2. i \in Index /\ i + 1 \in Index /\ i + 1 < h
    BY <2>1, <1>1, <1>2, HeadsInside
  <2> QED  BY <2>2, <1>2, <1>3 DEF BlockEnd, Index
<1>11. GlobalsFirst'
  <2>1. ASSUME NEW i \in Globals' PROVE BlockEnd(i)' <= nb_globals'
    <3>1. CASE i = h
      <4>1. BlockEnd(i)' = h + 2
        BY <3>1, <1>8 DEF BlockEnd
      <4> QED  BY <4>1, <1>2
    <3>2. CASE i \in Globals
      <4>1. BlockEnd(i)' <= h
        BY <3>2, <1>1, <1>10 DEF GlobalsFirst
      <4>2. BlockEnd(i) \in Nat
        <5>1. i \in Index /\ temps[i].temp_subindex_len \in 0..1
          BY <3>2, <1>1, <1>10 DEF TypeOK, Temp
        <5> QED  BY <5>1 DEF BlockEnd, Index
      <4> QED  BY <3>2, <4>1, <4>2, <1>2, <1>10
    <3> QED  BY <3>1, <3>2, <1>7
  <2> QED  BY <2>1, <1>2, <1>3, <1>6 DEF GlobalsFirst
<1>12. ShapesKept' /\ ConstWhole'
  <2>1. held' = {} /\ \A type \in Types : free_temps'[type] = {}
    BY <1>6 DEF Locals, Free
  <2> QED  BY <1>3, <2>1 DEF ShapesKept, ConstWhole
<1>13. HomesPlaced'
  <2> SUFFICES ASSUME NEW i \in Globals'
      PROVE /\ temps'[i].sym_offset = IF i = 0 THEN SymOffset ELSE 0
            /\ \/ /\ i # 0
                  /\ temps'[i + 1].home = [base |-> i, offset |-> 0]
               \/ \E base \in 0..i :
                    /\ base = i => i = 0
                    /\ temps'[i + 1].home =
                         [base |-> base,
                          offset |-> (IF base = 0 THEN SymOffset ELSE 0) + (i \div 2)]
    BY DEF HomesPlaced
  <2>1. CASE i = h
    BY <2>1, <1>2, <1>4
  <2>2. CASE i \in Globals
    BY <2>2, <1>1, <1>10 DEF HomesPlaced
  <2> QED  BY <2>1, <2>2, <1>7
<1> QED  BY <1>5, <1>9, <1>11, <1>12, <1>13 DEF IInv

(* What no step of a translation changes in an allocated temporary.        *)
ShapeKept(i) ==
    /\ temps'[i].kind = temps[i].kind
    /\ temps'[i].base_type = temps[i].base_type
    /\ temps'[i].temp_subindex_len = temps[i].temp_subindex_len
    /\ temps'[i].val = temps[i].val
    /\ temps'[i].sym_offset = temps[i].sym_offset
    /\ temps'[i].home = temps[i].home
    /\ temps[i].symbolic_expression => temps'[i].symbolic_expression
    /\ i < nb_globals =>
          temps'[i].symbolic_expression = temps[i].symbolic_expression

(* A step of a translation that keeps shapes and adds at most one block    *)
(* keeps the layout and the globals.                                       *)
LEMMA TranslationStep ==
    ASSUME IInv, TypeOK', stage = "gen", NEW h, h = nb_temps,
           \A i \in Index : i < nb_temps => ShapeKept(i),
           nb_temps <= nb_temps', nb_globals' = nb_globals,
           debug' = debug, MarksKept,
           stage' # "init", stage' # "overflow" => nb_temps' <= MaxTemps,
           Locals' \subseteq Locals \cup {h},
           h \in Locals' => Whole(h)'
    PROVE  BlocksWhole' /\ BlocksApart' /\ GlobalsFirst' /\ HomesPlaced'
<1> USE TempsAssumption
<1>1. /\ TypeOK /\ BlocksWhole /\ BlocksApart /\ GlobalsFirst /\ HomesPlaced
  BY DEF IInv
<1>2. nb_globals \in Nat /\ nb_temps \in Nat /\ nb_globals <= nb_temps
  BY <1>1 DEF TypeOK, GlobalsFirst
<1>3. Globals' = Globals
  BY <1>2 DEF Globals, ShapeKept, Index
<1>4. \A i \in Heads : i \in Index /\ i + 1 \in Index /\ i + 1 < nb_temps
  BY <1>1, HeadsInside
<1>5. Heads' \subseteq Heads \cup {h} /\ (h \in Heads' => Whole(h)')
  <2>1. h \notin Globals
    BY <1>2, <1>4 DEF Heads, Index
  <2> QED  BY <1>3, <2>1 DEF Heads
<1>6. BlocksWhole' /\ BlocksApart'
  <2>1. \A i \in Index : i < nb_temps =>
               /\ temps'[i].temp_subindex_len = temps[i].temp_subindex_len
               /\ temps'[i].kind = temps[i].kind
               /\ temps'[i].base_type = temps[i].base_type
               /\ temps[i].symbolic_expression => temps'[i].symbolic_expression
    BY DEF ShapeKept
  <2> QED  BY <1>1, <1>5, <2>1, StepBlocks
<1>7. ASSUME NEW i \in Globals
      PROVE  /\ temps'[i].temp_subindex_len = temps[i].temp_subindex_len
             /\ temps'[i].sym_offset = temps[i].sym_offset
             /\ temps'[i + 1].home = temps[i + 1].home
  <2>1. i \in Index /\ i < nb_temps /\ i + 1 \in Index /\ i + 1 < nb_temps
    BY <1>2, <1>4 DEF Heads, Index
  <2> QED  BY <2>1 DEF ShapeKept
<1>8. GlobalsFirst'
  <2>1. \A i \in Globals : BlockEnd(i)' <= nb_globals
    BY <1>1, <1>7 DEF GlobalsFirst, BlockEnd
  <2>2. \A i \in Locals' : nb_globals <= i
    BY <1>1, <1>2 DEF GlobalsFirst
  <2>3. nb_globals <= nb_temps' /\ 2 <= nb_globals
    BY <1>1, <1>2, TypeOK' DEF GlobalsFirst, TypeOK
  <2>4. stage' \in {"gen", "overflow", "abort"}
    BY DEF TypeOK
  <2> QED  BY <1>3, <2>1, <2>2, <2>3, <2>4 DEF GlobalsFirst
<1>9. HomesPlaced'
  <2> SUFFICES ASSUME NEW i \in Globals
      PROVE /\ temps'[i].sym_offset = IF i = 0 THEN SymOffset ELSE 0
            /\ \/ /\ i # 0
                  /\ temps'[i + 1].home = [base |-> i, offset |-> 0]
               \/ \E base \in 0..i :
                    /\ base = i => i = 0
                    /\ temps'[i + 1].home =
                         [base |-> base,
                          offset |-> (IF base = 0 THEN SymOffset ELSE 0) + (i \div 2)]
    BY <1>3 DEF HomesPlaced
  <2> QED  BY <1>1, <1>7 DEF HomesPlaced
<1> QED  BY <1>6, <1>8, <1>9

(* The table of constants survives a step that keeps shapes.               *)
LEMMA ConstantsKept ==
    ASSUME IInv, stage = "gen", nb_temps <= nb_temps', nb_temps' \in Nat,
           \A i \in Index : i < nb_temps => ShapeKept(i),
           nb_globals' = nb_globals,
           NEW type \in Types, NEW v \in Vals, const_table[type][v] # None
    PROVE  LET i == const_table[type][v]
           IN  /\ i + 1 < nb_temps' /\ i >= nb_globals'
               /\ temps'[i].kind = "const"
               /\ temps'[i].base_type = type /\ temps'[i].val = v
               /\ temps'[i + 1].kind = "const" /\ temps'[i + 1].val = 0
               /\ temps'[i + 1].symbolic_expression
<1> USE TempsAssumption
<1> DEFINE i == const_table[type][v]
<1>1. i \in Index /\ nb_temps \in Nat /\ nb_temps <= MaxTemps
  BY DEF IInv, TypeOK, GlobalsFirst
<1>2. /\ i + 1 < nb_temps /\ i >= nb_globals
      /\ temps[i].kind = "const"
      /\ temps[i].base_type = type /\ temps[i].val = v
      /\ temps[i + 1].kind = "const" /\ temps[i + 1].val = 0
      /\ temps[i + 1].symbolic_expression
  BY DEF IInv, ConstWhole
<1> HIDE DEF i
<1>3. i < nb_temps /\ i + 1 \in Index /\ i + 1 < nb_temps'
  BY <1>1, <1>2 DEF Index
<1> QED  BY <1>1, <1>2, <1>3 DEF ShapeKept, i

(* tcg_temp_new_internal makes a block of one value, or of two halves, and *)
(* their expressions; or it overflows and nothing new is handed out.       *)
LEMMA NewTempStep ==
    ASSUME IInv, stage = "gen", NEW type \in Types, NEW kind \in {"ebb", "tb"},
           NewTemp(type, kind), debug' = debug
    PROVE  IInv'
<1> USE TempsAssumption
<1>1. /\ TypeOK /\ BlocksWhole /\ BlocksApart /\ GlobalsFirst /\ ShapesKept
      /\ ConstWhole /\ HomesPlaced
  BY DEF IInv
<1> DEFINE n == Parts(type)
           value == [Blank EXCEPT !.kind = kind, !.base_type = type,
                                  !.temp_allocated = TRUE,
                                  !.temp_subindex_len = n - 1]
           expr == Expr(kind, TRUE, FALSE, None)
           fill == [k \in 0..(2 * n - 1) |-> IF k < n THEN value ELSE expr]
<1>2. n \in {1, 2}
  BY DEF Parts
<1>3. /\ value \in Temp /\ value.kind = kind /\ value.base_type = type
      /\ value.temp_subindex_len = n - 1 /\ ~value.symbolic_expression
  <2>1. n - 1 \in 0..1 /\ type \in {"I32", "I64", "I128"}
    BY <1>2
  <2> HIDE DEF n
  <2> QED  BY <2>1, BlankTyped DEF Temp
<1>4. expr \in Temp /\ expr.symbolic_expression = TRUE
  <2>1. kind \in {"ebb", "tb", "global", "fixed", "const"}
    OBVIOUS
  <2> QED  BY <2>1, PlainExprTyped
<1>5. /\ Alloc(2 * n, fill)
      /\ held' = IF stage' = "gen" THEN held \cup {nb_temps} ELSE held
      /\ UNCHANGED <<nb_globals, free_temps, const_table>>
  BY DEF NewTemp
<1> HIDE DEF value, expr, n
<1>6. fill \in [0..(2 * n - 1) -> Temp] /\ 2 * n \in Nat /\ n \in Nat
  BY <1>2, <1>3, <1>4
<1>7. PICK h : h = nb_temps  OBVIOUS
<1>8. h \in Nat /\ h <= MaxTemps /\ nb_globals <= h
  BY <1>1, <1>7 DEF TypeOK, GlobalsFirst
<1>9. /\ temps' \in [Index -> Temp]
      /\ \A i \in Index : i < h => temps'[i] = temps[i]
      /\ \A k \in 0..(2 * n - 1) : h + k \in Index => temps'[h + k] = fill[k]
      /\ h + 2 * n <= MaxTemps => nb_temps' = h + 2 * n /\ stage' = stage
      /\ ~(h + 2 * n <= MaxTemps) => nb_temps' = MaxTemps + 1 /\ stage' = "overflow"
      /\ nb_temps' \in 0..(MaxTemps + 1)
  <2> HIDE DEF fill
  <2>1. PICK m : m = 2 * n  OBVIOUS
  <2>2. PICK last : last = m - 1  OBVIOUS
  <2>3. PICK f : f = fill  OBVIOUS
  <2>4. /\ TypeOK /\ m \in Nat /\ last = m - 1
        /\ f \in [0..last -> Temp] /\ Alloc(m, f)
    BY <1>1, <1>5, <1>6, <2>1, <2>2, <2>3
  <2>5. /\ temps' \in [Index -> Temp]
        /\ \A i \in Index : i < nb_temps => temps'[i] = temps[i]
        /\ \A k \in 0..last : nb_temps + k \in Index => temps'[nb_temps + k] = f[k]
        /\ nb_temps + m <= MaxTemps => nb_temps' = nb_temps + m /\ stage' = stage
        /\ ~(nb_temps + m <= MaxTemps) => nb_temps' = MaxTemps + 1 /\ stage' = "overflow"
        /\ nb_temps' \in 0..(MaxTemps + 1)
    BY <2>4, AllocEffect
  <2> QED  BY <1>7, <2>1, <2>2, <2>3, <2>5
<1>10. h <= nb_temps' /\ stage' # "init" /\ (stage' # "overflow" => nb_temps' <= MaxTemps)
  BY <1>6, <1>8, <1>9
<1>11. stage' = "gen" =>
         /\ h \in Index /\ temps'[h] = value /\ Whole(h)' /\ held' = held \cup {h}
  <2> SUFFICES ASSUME stage' = "gen"
               PROVE  h \in Index /\ temps'[h] = value /\ Whole(h)' /\ held' = held \cup {h}
    OBVIOUS
  <2>1. h + 2 * n <= MaxTemps /\ nb_temps' = h + 2 * n /\ held' = held \cup {h}
    BY <1>5, <1>7, <1>9
  <2>2. \A k \in 0..(2 * n - 1) : h + k \in Index /\ temps'[h + k] = fill[k]
    <3> HIDE DEF fill
    <3>1. \A k \in 0..(2 * n - 1) : h + k \in Index
      BY <2>1, <1>2, <1>8 DEF Index
    <3> QED  BY <3>1, <1>9
  <2>3. ASSUME NEW k \in 0..(n - 1)
        PROVE  temps'[h + k] = value /\ temps'[h + k + n] = expr
    <3>1. /\ k \in 0..(2 * n - 1) /\ k + n \in 0..(2 * n - 1)
          /\ h + k + n = h + (k + n) /\ k < n /\ ~(k + n < n)
      BY <1>2, <1>8
    <3>2. fill[k] = value /\ fill[k + n] = expr
      BY <3>1
    <3> HIDE DEF fill
    <3> QED  BY <2>2, <3>1, <3>2
  <2>4. h \in Index /\ temps'[h] = value
    BY <2>2, <2>3, <1>2, <1>8
  <2>5. BlockEnd(h)' = h + 2 * n /\ PartsOf(h)' = h..(h + n - 1)
    BY <2>4, <1>2, <1>3, <1>8 DEF BlockEnd, PartsOf
  <2>6. ASSUME NEW k \in h..(h + n - 1)
        PROVE  /\ temps'[k].temp_subindex_len = n - 1 /\ temps'[k] = value
               /\ ~temps'[k].symbolic_expression
               /\ temps'[k + temps'[k].temp_subindex_len + 1].symbolic_expression
    <3>1. k - h \in 0..(n - 1) /\ h + (k - h) = k
      BY <1>2, <1>8
    <3>2. temps'[k] = value /\ temps'[k + n] = expr
      BY <2>3, <3>1
    <3>3. k + (n - 1) + 1 = k + n
      BY <1>2, <1>8
    <3> QED  BY <1>3, <1>4, <3>2, <3>3
  <2>7. Whole(h)'
    <3>1. BlockEnd(h)' <= nb_temps' /\ BlockEnd(h)' <= MaxTemps
      BY <2>1, <2>5, <1>8, <1>6
    <3>2. temps'[h].temp_subindex_len = n - 1
      BY <2>4, <1>3
    <3> QED  BY <2>4, <2>5, <2>6, <3>1, <3>2 DEF Whole, temp_expr
  <2> QED  BY <2>1, <2>4, <2>7
<1>12. TypeOK'
  <2>1. held' \in SUBSET Index /\ stage' \in {"init", "gen", "overflow", "abort"}
    BY <1>1, <1>5, <1>9, <1>11 DEF TypeOK
  <2> QED  BY <1>1, <1>5, <1>9, <2>1 DEF TypeOK
<1>13. Locals' \subseteq Locals \cup {h} /\ (h \in Locals' => Whole(h)')
  <2>1. Free' = Free /\ Interned' = Interned
    BY <1>5 DEF Free, Interned
  <2>2. h \notin Heads
    BY <1>1, <1>7, <1>8, HeadsInside DEF Index
  <2> QED  BY <2>1, <2>2, <1>5, <1>11 DEF Locals, Heads
<1>14. \A i \in Index : i < nb_temps => ShapeKept(i)
  BY <1>7, <1>9 DEF ShapeKept
<1>15. BlocksWhole' /\ BlocksApart' /\ GlobalsFirst' /\ HomesPlaced'
  <2>1. MarksKept
    BY <1>7, <1>9 DEF MarksKept
  <2> QED  BY <2>1, <1>5, <1>7, <1>10, <1>12, <1>13, <1>14, TranslationStep
<1>16. ShapesKept'
  <2>1. \A i \in held \cup Free : i \in Index /\ i < h
    BY <1>1, <1>7, HeadsInside DEF Heads, Locals
  <2>2. \A i \in held' : temps'[i].kind = "ebb" =>
          /\ temps'[i].base_type \in Types
          /\ temps'[i].temp_subindex_len = Parts(temps'[i].base_type) - 1
    BY <2>1, <1>1, <1>3, <1>5, <1>9, <1>11 DEF ShapesKept, n
  <2>3. \A t \in Types : \A i \in free_temps[t] :
          /\ temps'[i].kind = "ebb" /\ temps'[i].base_type = t
          /\ temps'[i].temp_subindex_len = Parts(t) - 1
          /\ i \notin held'
    <3> SUFFICES ASSUME NEW t \in Types, NEW i \in free_temps[t]
                 PROVE  /\ temps'[i].kind = "ebb" /\ temps'[i].base_type = t
                        /\ temps'[i].temp_subindex_len = Parts(t) - 1
                        /\ i \notin held'
      OBVIOUS
    <3>1. i \in Free  BY DEF Free
    <3>2. i \in Index /\ i < h  BY <2>1, <3>1
    <3>3. temps'[i] = temps[i] /\ i # h  BY <3>2, <1>8, <1>9 DEF Index
    <3> QED  BY <3>3, <1>1, <1>5, <1>11 DEF ShapesKept
  <2> QED  BY <1>5, <2>2, <2>3 DEF ShapesKept
<1>17. ConstWhole'
  <2>1. nb_temps' \in Nat /\ nb_temps <= nb_temps'
    BY <1>7, <1>9, <1>10
  <2> QED  BY <1>5, <1>14, <2>1, ConstantsKept DEF ConstWhole
<1> QED  BY <1>12, <1>15, <1>16, <1>17 DEF IInv

(* A constant is found in the table, or it is a new pair that the table    *)
(* then refers to; on an overflow the table is not used any more.          *)
LEMMA ConstStep ==
    ASSUME IInv, stage = "gen", NEW type \in Types, NEW v \in Vals,
           ConstTemp(type, v), UNCHANGED <<nb_globals, free_temps, debug>>
    PROVE  IInv'
<1> USE TempsAssumption
<1>1. /\ TypeOK /\ BlocksWhole /\ BlocksApart /\ GlobalsFirst /\ ShapesKept
      /\ ConstWhole /\ HomesPlaced
  BY DEF IInv
<1>2. PICK h : h = nb_temps  OBVIOUS
<1>3. h \in Nat /\ h <= MaxTemps /\ nb_globals <= h /\ nb_globals \in Nat
  BY <1>1, <1>2 DEF TypeOK, GlobalsFirst
<1>4. h \notin Heads
  BY <1>1, <1>2, <1>3, HeadsInside DEF Index
<1>5. CASE const_table[type][v] # None
  <2> DEFINE i == const_table[type][v]
  <2>1. /\ held' = held \cup {i}
        /\ UNCHANGED <<temps, nb_temps, nb_globals, free_temps, const_table, stage>>
    BY <1>5 DEF ConstTemp
  <2>2. i \in Index /\ i \in Interned /\ temps[i].kind = "const"
    BY <1>1, <1>5 DEF TypeOK, Interned, ConstWhole
  <2> HIDE DEF i
  <2>3. TypeOK'
    BY <2>1, <2>2, <1>1 DEF TypeOK
  <2>4. Locals' = Locals
    BY <2>1, <2>2 DEF Locals, Free, Interned
  <2>5. h \notin Locals'
    BY <2>4, <1>4 DEF Heads
  <2>6. \A k \in Index : k < nb_temps => ShapeKept(k)
    BY <2>1 DEF ShapeKept
  <2>7. BlocksWhole' /\ BlocksApart' /\ GlobalsFirst' /\ HomesPlaced'
    <3>1. /\ nb_temps <= nb_temps' /\ stage' # "init" /\ nb_globals' = nb_globals
          /\ (stage' # "overflow" => nb_temps' <= MaxTemps)
      BY <2>1, <1>2, <1>3
    <3>2. MarksKept
      BY <2>1 DEF MarksKept
    <3> QED  BY <1>2, <2>3, <2>4, <2>5, <2>6, <3>1, <3>2, TranslationStep
  <2>8. ShapesKept'
    BY <2>1, <2>2, <1>1 DEF ShapesKept
  <2>9. ConstWhole'
    BY <2>1, <1>1 DEF ConstWhole
  <2> QED  BY <2>3, <2>7, <2>8, <2>9 DEF IInv
<1>6. CASE const_table[type][v] = None
  <2> DEFINE value == [Blank EXCEPT !.kind = "const", !.base_type = type,
                                    !.temp_allocated = TRUE, !.val = v]
             expr == Expr("const", TRUE, FALSE, None)
             fill == [k \in 0..1 |-> IF k = 0 THEN value ELSE expr]
  <2>1. /\ value \in Temp /\ value.kind = "const" /\ value.base_type = type
        /\ value.val = v /\ value.temp_subindex_len = 0
        /\ ~value.symbolic_expression
    <3>1. type \in {"I32", "I64", "I128"}  OBVIOUS
    <3> QED  BY <3>1, BlankTyped DEF Temp
  <2>2. /\ expr \in Temp /\ expr.symbolic_expression = TRUE
        /\ expr.kind = "const" /\ expr.val = 0
    <3> HIDE DEF expr
    <3> QED  BY ConstExprTyped DEF expr
  <2>3. /\ Alloc(2, fill)
        /\ const_table' = IF nb_temps < MaxTemps
                          THEN [const_table EXCEPT ![type][v] = nb_temps]
                          ELSE const_table
        /\ held' = IF stage' = "gen" THEN held \cup {nb_temps} ELSE held
    BY <1>6 DEF ConstTemp
  <2> HIDE DEF value, expr
  <2>4. fill \in [0..1 -> Temp] /\ fill[0] = value /\ fill[1] = expr
    BY <2>1, <2>2
  <2> HIDE DEF fill
  <2>5. /\ temps' \in [Index -> Temp]
        /\ \A i \in Index : i < h => temps'[i] = temps[i]
        /\ \A k \in 0..1 : h + k \in Index => temps'[h + k] = fill[k]
        /\ h + 2 <= MaxTemps => nb_temps' = h + 2 /\ stage' = "gen"
        /\ ~(h + 2 <= MaxTemps) => nb_temps' = MaxTemps + 1 /\ stage' = "overflow"
        /\ nb_temps' \in 0..(MaxTemps + 1)
    <3>1. PICK f : f = fill  OBVIOUS
    <3>2. f \in [0..1 -> Temp] /\ Alloc(2, f)
      BY <2>3, <2>4, <3>1
    <3>3. /\ temps' \in [Index -> Temp]
          /\ \A i \in Index : i < nb_temps => temps'[i] = temps[i]
          /\ \A k \in 0..1 : nb_temps + k \in Index => temps'[nb_temps + k] = f[k]
          /\ nb_temps + 2 <= MaxTemps => nb_temps' = nb_temps + 2 /\ stage' = stage
          /\ ~(nb_temps + 2 <= MaxTemps) => nb_temps' = MaxTemps + 1 /\ stage' = "overflow"
          /\ nb_temps' \in 0..(MaxTemps + 1)
      BY <1>1, <3>2, AllocPair
    <3> QED  BY <1>2, <3>1, <3>3
  <2>6. h <= nb_temps' /\ stage' # "init" /\ (stage' # "overflow" => nb_temps' <= MaxTemps)
    BY <1>3, <2>5
  <2>7. stage' = "gen" =>
          /\ h \in Index /\ h + 1 \in Index /\ nb_temps' = h + 2
          /\ temps'[h] = value /\ temps'[h + 1] = expr
          /\ Whole(h)' /\ held' = held \cup {h}
          /\ const_table' = [const_table EXCEPT ![type][v] = h]
    <3> SUFFICES ASSUME stage' = "gen"
                 PROVE  /\ h \in Index /\ h + 1 \in Index /\ nb_temps' = h + 2
                        /\ temps'[h] = value /\ temps'[h + 1] = expr
                        /\ Whole(h)' /\ held' = held \cup {h}
                        /\ const_table' = [const_table EXCEPT ![type][v] = h]
      OBVIOUS
    <3>1. h + 2 <= MaxTemps /\ nb_temps' = h + 2
      BY <2>5
    <3>2. /\ h \in Index /\ h + 1 \in Index
          /\ temps'[h] = value /\ temps'[h + 1] = expr
      BY <3>1, <2>4, <2>5, <1>3 DEF Index
    <3>3. BlockEnd(h)' = h + 2 /\ PartsOf(h)' = {h} /\ temp_expr(h)' = h + 1
      BY <3>2, <2>1, <1>3 DEF BlockEnd, PartsOf, temp_expr
    <3>4. Whole(h)'
      BY <3>1, <3>2, <3>3, <2>1, <2>2, <1>3 DEF Whole
    <3>5. /\ held' = held \cup {h}
          /\ const_table' = [const_table EXCEPT ![type][v] = h]
      BY <2>3, <3>1, <1>2, <1>3
    <3> QED  BY <3>1, <3>2, <3>4, <3>5
  <2>8. TypeOK'
    <3>1. held' \in SUBSET Index /\ stage' \in {"init", "gen", "overflow", "abort"}
      BY <1>1, <2>3, <2>5, <2>7 DEF TypeOK
    <3>2. const_table' \in [Types -> [Vals -> Index \cup {None}]]
      <4>1. nb_temps < MaxTemps => nb_temps \in Index
        BY <1>2, <1>3 DEF Index
      <4> QED  BY <4>1, <1>1, <2>3 DEF TypeOK
    <3> QED  BY <1>1, <2>5, <3>1, <3>2 DEF TypeOK
  <2>9. Locals' \subseteq Locals \cup {h} /\ (h \in Locals' => Whole(h)')
    <3>1. Free' = Free
      BY DEF Free
    <3>2. stage' = "gen" => Interned' \subseteq Interned \cup {h}
      <4> SUFFICES ASSUME stage' = "gen", NEW i \in Interned', i # h
                   PROVE  i \in Interned
        OBVIOUS
      <4>1. PICK t \in Types, w \in Vals : const_table'[t][w] = i
        BY DEF Interned
      <4>2. const_table[t][w] = i
        BY <4>1, <2>7, <1>1 DEF TypeOK
      <4> QED  BY <4>2 DEF Interned
    <3>3. h \notin held \cup Free
      BY <1>4 DEF Heads, Locals
    <3>4. CASE stage' = "gen"
      BY <3>1, <3>2, <3>4, <2>7 DEF Locals
    <3>5. CASE stage' # "gen"
      <4>1. Locals' = held \cup Free
        BY <3>1, <3>5, <2>3 DEF Locals
      <4> QED  BY <4>1, <3>3 DEF Locals
    <3> QED  BY <3>4, <3>5
  <2>10. \A i \in Index : i < nb_temps => ShapeKept(i)
    BY <1>2, <2>5 DEF ShapeKept
  <2>11. BlocksWhole' /\ BlocksApart' /\ GlobalsFirst' /\ HomesPlaced'
    <3>1. MarksKept
      BY <1>2, <2>5 DEF MarksKept
    <3> QED  BY <1>2, <2>6, <2>8, <2>9, <2>10, <3>1, TranslationStep
  <2>12. ShapesKept'
    <3>1. \A i \in held \cup Free : i \in Index /\ i < h
      BY <1>1, <1>2, HeadsInside DEF Heads, Locals
    <3>2. \A i \in held' : temps'[i].kind = "ebb" =>
            /\ temps'[i].base_type \in Types
            /\ temps'[i].temp_subindex_len = Parts(temps'[i].base_type) - 1
      BY <3>1, <1>1, <2>1, <2>3, <2>5, <2>7 DEF ShapesKept
    <3>3. \A t \in Types : \A i \in free_temps[t] :
            /\ temps'[i].kind = "ebb" /\ temps'[i].base_type = t
            /\ temps'[i].temp_subindex_len = Parts(t) - 1
            /\ i \notin held'
      <4> SUFFICES ASSUME NEW t \in Types, NEW i \in free_temps[t]
                   PROVE  /\ temps'[i].kind = "ebb" /\ temps'[i].base_type = t
                          /\ temps'[i].temp_subindex_len = Parts(t) - 1
                          /\ i \notin held'
        OBVIOUS
      <4>1. i \in Free  BY DEF Free
      <4>2. i \in Index /\ i < h  BY <3>1, <4>1
      <4>3. temps'[i] = temps[i] /\ i # h  BY <4>2, <1>3, <2>5 DEF Index
      <4> QED  BY <4>3, <1>1, <2>3, <2>7 DEF ShapesKept
    <3> QED  BY <3>2, <3>3 DEF ShapesKept
  <2>13. ConstWhole'
    <3> SUFFICES ASSUME stage' = "gen", NEW t \in Types, NEW w \in Vals,
                        const_table'[t][w] # None
                 PROVE  LET i == const_table'[t][w]
                        IN  /\ i + 1 < nb_temps' /\ i >= nb_globals'
                            /\ temps'[i].kind = "const"
                            /\ temps'[i].base_type = t /\ temps'[i].val = w
                            /\ temps'[i + 1].kind = "const" /\ temps'[i + 1].val = 0
                            /\ temps'[i + 1].symbolic_expression
      BY DEF ConstWhole
    <3>1. CASE t = type /\ w = v
      <4>1. const_table'[t][w] = h
        BY <3>1, <2>7, <1>1 DEF TypeOK
      <4>2. h + 1 < nb_temps' /\ h >= nb_globals'
        BY <2>7, <1>3
      <4> QED  BY <4>1, <4>2, <3>1, <2>1, <2>2, <2>7
    <3>2. CASE ~(t = type /\ w = v)
      <4>1. const_table'[t][w] = const_table[t][w]
        BY <3>2, <2>7, <1>1 DEF TypeOK
      <4>2. nb_temps <= nb_temps' /\ nb_temps' \in Nat
        BY <1>2, <2>5, <2>6
      <4> QED  BY <4>1, <4>2, <2>10, ConstantsKept
    <3> QED  BY <3>1, <3>2
  <2> QED  BY <2>8, <2>11, <2>12, <2>13 DEF IInv
<1> QED  BY <1>5, <1>6

(* Setting a flag of one temporary.                                        *)
LEMMA FlagSet ==
    ASSUME NEW f \in [Index -> Temp], NEW i \in Index, NEW b \in BOOLEAN
    PROVE  /\ [f EXCEPT ![i].temp_allocated = b] \in [Index -> Temp]
           /\ [f EXCEPT ![i].symbolic_expression = b] \in [Index -> Temp]
           /\ \A j \in Index :
                 LET g == [f EXCEPT ![i].temp_allocated = b]
                     e == [f EXCEPT ![i].symbolic_expression = b]
                 IN  /\ g[j].kind = f[j].kind /\ e[j].kind = f[j].kind
                     /\ g[j].base_type = f[j].base_type
                     /\ e[j].base_type = f[j].base_type
                     /\ g[j].temp_subindex_len = f[j].temp_subindex_len
                     /\ e[j].temp_subindex_len = f[j].temp_subindex_len
                     /\ g[j].val = f[j].val /\ e[j].val = f[j].val
                     /\ g[j].sym_offset = f[j].sym_offset
                     /\ e[j].sym_offset = f[j].sym_offset
                     /\ g[j].home = f[j].home /\ e[j].home = f[j].home
                     /\ g[j].symbolic_expression = f[j].symbolic_expression
                     /\ j # i => e[j].symbolic_expression = f[j].symbolic_expression
                     /\ e[i].symbolic_expression = b
<1>1. \A r \in Temp : /\ [r EXCEPT !.temp_allocated = b] \in Temp
                       /\ [r EXCEPT !.symbolic_expression = b] \in Temp
  BY DEF Temp
<1>2. /\ [f EXCEPT ![i].temp_allocated = b] \in [Index -> Temp]
      /\ [f EXCEPT ![i].symbolic_expression = b] \in [Index -> Temp]
  BY <1>1
<1>3. ASSUME NEW j \in Index
      PROVE  LET g == [f EXCEPT ![i].temp_allocated = b]
                 e == [f EXCEPT ![i].symbolic_expression = b]
             IN  /\ j = i => g[j] = [f[j] EXCEPT !.temp_allocated = b]
                 /\ j # i => g[j] = f[j]
                 /\ j = i => e[j] = [f[j] EXCEPT !.symbolic_expression = b]
                 /\ j # i => e[j] = f[j]
  OBVIOUS
<1>4. ASSUME NEW j \in Index
      PROVE  LET g == [f[j] EXCEPT !.temp_allocated = b]
                 e == [f[j] EXCEPT !.symbolic_expression = b]
             IN  /\ g.kind = f[j].kind /\ e.kind = f[j].kind
                 /\ g.base_type = f[j].base_type
                 /\ e.base_type = f[j].base_type
                 /\ g.temp_subindex_len = f[j].temp_subindex_len
                 /\ e.temp_subindex_len = f[j].temp_subindex_len
                 /\ g.val = f[j].val /\ e.val = f[j].val
                 /\ g.sym_offset = f[j].sym_offset
                 /\ e.sym_offset = f[j].sym_offset
                 /\ g.home = f[j].home /\ e.home = f[j].home
                 /\ g.symbolic_expression = f[j].symbolic_expression
                 /\ e.symbolic_expression = b
  BY DEF Temp
<1> QED  BY <1>2, <1>3, <1>4

(* Handing out and taking back what is allocated: flags change, and heads  *)
(* move between held and the bitmaps.                                      *)
LEMMA FlagStep ==
    ASSUME IInv, stage = "gen", temps' \in [Index -> Temp],
           \A i \in Index : ShapeKept(i),
           UNCHANGED <<nb_temps, nb_globals, const_table, debug>>,
           stage' \in {"gen", "abort"}, MarksKept,
           held' \subseteq held \cup Free,
           free_temps' \in [Types -> SUBSET (held \cup Free)],
           ShapesKept'
    PROVE  IInv'
<1> USE TempsAssumption
<1>1. /\ TypeOK /\ BlocksWhole /\ GlobalsFirst /\ ConstWhole
  BY DEF IInv
<1>2. held \cup Free \subseteq Index
  BY <1>1 DEF TypeOK, Free
<1>3. TypeOK'
  BY <1>1, <1>2 DEF TypeOK
<1>4. PICK h : h = nb_temps  OBVIOUS
<1>5. nb_temps \in Nat /\ nb_temps <= MaxTemps
  BY <1>1 DEF TypeOK, GlobalsFirst
<1>6. Locals' \subseteq Locals
  <2>1. Free' \subseteq held \cup Free
    BY DEF Free
  <2>2. Interned' = Interned
    BY DEF Interned
  <2> QED  BY <2>1, <2>2 DEF Locals
<1>7. h \notin Locals
  BY <1>1, <1>4, <1>5, HeadsInside DEF Heads, Index
<1>8. BlocksWhole' /\ BlocksApart' /\ GlobalsFirst' /\ HomesPlaced'
  BY <1>3, <1>4, <1>5, <1>6, <1>7, TranslationStep
<1>9. ConstWhole'
  BY <1>5, ConstantsKept DEF ConstWhole
<1> QED  BY <1>3, <1>8, <1>9 DEF IInv

(* A freed temporary is handed out again.  For a 128-bit one the flag is   *)
(* set on its second half, which stays a value all the same.               *)
LEMMA ReuseStep ==
    ASSUME IInv, stage = "gen", NEW type \in Types, free_temps[type] # {},
           ReuseTemp(type), debug' = debug
    PROVE  IInv'
<1> USE TempsAssumption
<1>1. /\ TypeOK /\ BlocksWhole /\ BlocksApart /\ GlobalsFirst /\ ShapesKept
  BY DEF IInv
<1>2. PICK idx : idx = Minimum(free_temps[type])  OBVIOUS
<1>3. idx \in free_temps[type]
  <2>1. free_temps[type] \in SUBSET Nat
    BY <1>1 DEF TypeOK, Index
  <2> QED  BY <1>2, <2>1, MinimumIn
<1>4. idx \in Free /\ idx \in Locals /\ idx \in Heads
  BY <1>3 DEF Free, Locals, Heads
<1>5. /\ idx \in Index /\ idx + 1 \in Index
      /\ nb_globals <= idx /\ nb_globals \in Nat
  BY <1>1, <1>4, HeadsInside DEF GlobalsFirst, TypeOK
<1>6. /\ free_temps' = [free_temps EXCEPT ![type] = @ \ {idx}]
      /\ \/ held' = held \cup {idx} /\ stage' = stage
         \/ held' = held /\ stage' = "abort"
      /\ temps[idx + 1].base_type # "I64" /\ debug =>
            held' = held /\ stage' = "abort"
      /\ temps' = [temps EXCEPT ![idx].temp_allocated = TRUE,
                                ![idx + 1].temp_allocated = TRUE,
                                ![idx + 1].symbolic_expression = TRUE]
      /\ UNCHANGED <<nb_temps, nb_globals, const_table>>
  BY <1>2 DEF ReuseTemp
<1> DEFINE g1 == [temps EXCEPT ![idx].temp_allocated = TRUE]
           g2 == [g1 EXCEPT ![idx + 1].temp_allocated = TRUE]
           g3 == [g2 EXCEPT ![idx + 1].symbolic_expression = TRUE]
<1>7. temps' = g3
  BY <1>6
<1>8. g1 \in [Index -> Temp] /\ g2 \in [Index -> Temp] /\ g3 \in [Index -> Temp]
  <2>1. g1 \in [Index -> Temp]
    BY <1>1, <1>5, FlagSet DEF TypeOK
  <2> HIDE DEF g1
  <2>2. g2 \in [Index -> Temp]
    BY <1>5, <2>1, FlagSet
  <2> HIDE DEF g2
  <2>3. g3 \in [Index -> Temp]
    BY <1>5, <2>2, FlagSet
  <2> QED  BY <2>1, <2>2, <2>3
<1>9. ASSUME NEW i \in Index
      PROVE  /\ ShapeKept(i)
             /\ i # idx + 1 => temps'[i].symbolic_expression = temps[i].symbolic_expression
  <2> DEFINE Same(f, g) ==
          /\ g[i].kind = f[i].kind /\ g[i].base_type = f[i].base_type
          /\ g[i].temp_subindex_len = f[i].temp_subindex_len
          /\ g[i].val = f[i].val /\ g[i].sym_offset = f[i].sym_offset
          /\ g[i].home = f[i].home
  <2>1. Same(temps, g1) /\ g1[i].symbolic_expression = temps[i].symbolic_expression
    BY <1>1, <1>5, FlagSet DEF TypeOK
  <2>2. Same(g1, g2) /\ g2[i].symbolic_expression = g1[i].symbolic_expression
    <3> HIDE DEF g1
    <3> QED  BY <1>5, <1>8, FlagSet
  <2>3. /\ Same(g2, g3)
        /\ i # idx + 1 => g3[i].symbolic_expression = g2[i].symbolic_expression
        /\ i = idx + 1 => g3[i].symbolic_expression = TRUE
    <3> HIDE DEF g2
    <3>1. g2 \in [Index -> Temp] /\ idx + 1 \in Index /\ TRUE \in BOOLEAN
      BY <1>5, <1>8
    <3>2. Same(g2, g3)
      BY <3>1, FlagSet
    <3>3. i # idx + 1 => g3[i].symbolic_expression = g2[i].symbolic_expression
      BY <3>1, FlagSet
    <3>4. g3[idx + 1].symbolic_expression = TRUE
      BY <3>1, FlagSet
    <3> QED  BY <3>2, <3>3, <3>4
  <2>4. i < nb_globals => i # idx + 1
    BY <1>5 DEF Index
  <2> HIDE DEF g1, g2, g3
  <2> QED  BY <1>7, <2>1, <2>2, <2>3, <2>4 DEF ShapeKept
<1> HIDE DEF g1, g2, g3
<1>10. temps' \in [Index -> Temp]
  BY <1>7, <1>8
<1>11. /\ held' \subseteq held \cup Free
       /\ free_temps' \in [Types -> SUBSET (held \cup Free)]
  BY <1>1, <1>4, <1>6 DEF TypeOK, Free
<1>12. ShapesKept'
  <2>1. held \subseteq Index /\ \A t \in Types : free_temps[t] \subseteq Index
    BY <1>1 DEF TypeOK
  <2>2. ASSUME NEW i \in held', temps'[i].kind = "ebb"
        PROVE  /\ temps'[i].base_type \in Types
               /\ temps'[i].temp_subindex_len = Parts(temps'[i].base_type) - 1
    <3>1. i \in Index
      BY <2>1, <1>5, <1>6
    <3>2. /\ temps'[i].kind = temps[i].kind
          /\ temps'[i].base_type = temps[i].base_type
          /\ temps'[i].temp_subindex_len = temps[i].temp_subindex_len
      BY <1>9, <3>1 DEF ShapeKept
    <3>3. CASE i = idx
      BY <1>1, <1>3, <3>2, <3>3 DEF ShapesKept
    <3>4. CASE i \in held
      BY <1>1, <2>2, <3>2, <3>4 DEF ShapesKept
    <3> QED  BY <1>6, <3>3, <3>4
  <2>3. ASSUME NEW t \in Types, NEW i \in free_temps'[t]
        PROVE  /\ temps'[i].kind = "ebb" /\ temps'[i].base_type = t
               /\ temps'[i].temp_subindex_len = Parts(t) - 1
               /\ i \notin held'
    <3>1. i \in free_temps[t] /\ (t = type => i # idx)
      BY <1>1, <1>6 DEF TypeOK
    <3>2. i \in Index /\ temps[i].base_type = t /\ temps[idx].base_type = type
      BY <1>1, <1>3, <2>1, <3>1 DEF ShapesKept
    <3>3. i \notin held'
      BY <1>1, <1>6, <3>1, <3>2 DEF ShapesKept
    <3> QED  BY <1>1, <1>9, <3>1, <3>2, <3>3 DEF ShapesKept, ShapeKept
  <2> QED  BY <2>2, <2>3 DEF ShapesKept
(* The mark reaches a part of a value in use only where the assertion is   *)
(* not compiled in: that part is the second half of a 128-bit value.       *)
<1>13. MarksKept
  <2> SUFFICES ASSUME NEW i \in Heads, i \in Heads', idx + 1 \in PartsOf(i)
               PROVE  Marked(i, idx + 1)
    BY <1>9 DEF MarksKept
  <2>1. /\ i \in Nat /\ idx \in Nat
        /\ temps[i].temp_subindex_len \in 0..1
        /\ temps[idx].temp_subindex_len \in 0..1
        /\ i <= idx + 1 /\ idx + 1 <= i + temps[i].temp_subindex_len
        /\ i < idx => i + 2 * (temps[i].temp_subindex_len + 1) <= idx
        /\ idx < i => idx + 2 * (temps[idx].temp_subindex_len + 1) <= i
    <3>1. i \in Index /\ temps[i].temp_subindex_len \in 0..1
      BY <1>1, HeadsInside
    <3>2. temps[idx].temp_subindex_len \in 0..1
      BY <1>1, <1>4, HeadsInside
    <3>3. /\ i < idx => BlockEnd(i) <= idx
          /\ idx < i => BlockEnd(idx) <= i
      BY <1>1, <1>4 DEF BlocksApart
    <3> QED  BY <1>5, <3>1, <3>2, <3>3 DEF BlockEnd, PartsOf, Index
  <2>2. i = idx /\ temps[idx].temp_subindex_len = 1
    BY <2>1
  <2>3. type = "I128" /\ temps[idx].kind = "ebb" /\ temps[idx].base_type = type
    <3>1. /\ temps[idx].kind = "ebb" /\ temps[idx].base_type = type
          /\ temps[idx].temp_subindex_len = Parts(type) - 1
      BY <1>1, <1>3 DEF ShapesKept
    <3> QED  BY <2>2, <3>1 DEF Parts
  <2>4. temps[idx + 1].base_type = "I128"
    BY <1>1, <1>4, <2>2, <2>3 DEF BlocksWhole, Whole
  <2>5. ~debug
    <3> SUFFICES ASSUME debug PROVE FALSE
      OBVIOUS
    <3>1. held' = held /\ stage' = "abort"
      BY <1>6, <2>4
    <3>2. idx \notin held /\ \A t \in Types : idx \notin free_temps'[t]
      BY <1>1, <1>3, <1>6, <2>3 DEF ShapesKept, TypeOK
    <3>3. idx \notin Locals'
      BY <3>1, <3>2 DEF Locals, Free
    <3>4. idx \notin Globals'
      BY <1>5, <1>6 DEF Globals, Index
    <3> QED  BY <2>2, <3>3, <3>4 DEF Heads
  <2>6. idx + 1 # idx
    BY <2>1
  <2> QED  BY <2>2, <2>3, <2>5, <2>6 DEF Marked
<1>14. stage' \in {"gen", "abort"}
  BY <1>6
<1> QED  BY <1>6, <1>9, <1>10, <1>11, <1>12, <1>13, <1>14, FlagStep

(* A held temporary is given back.                                         *)
LEMMA FreeStep ==
    ASSUME IInv, NEW i \in Index, tcg_temp_free_internal(i), debug' = debug
    PROVE  IInv'
<1> USE TempsAssumption
<1>1. /\ TypeOK /\ BlocksWhole /\ ShapesKept
  BY DEF IInv
<1>2. /\ stage = "gen" /\ i \in held /\ held' = held \ {i}
      /\ UNCHANGED <<nb_temps, nb_globals, const_table, stage>>
  BY DEF tcg_temp_free_internal
<1>3. i \in Heads
  BY <1>2 DEF Heads, Locals
<1>4. \A t \in Types : free_temps[t] \subseteq Index
  BY <1>1 DEF TypeOK
<1>5. CASE temps[i].kind = "ebb"
  <2>1. PICK e : e = temp_expr(i)  OBVIOUS
  <2>2. e \in Index
    <3>1. i \in Nat /\ temps[i].temp_subindex_len \in 0..1 /\ BlockEnd(i) <= MaxTemps
      BY <1>1, <1>3, HeadsInside DEF BlocksWhole, Whole, Index
    <3> QED  BY <2>1, <3>1 DEF temp_expr, BlockEnd, Index
  <2>3. PICK type : type = temps[i].base_type  OBVIOUS
  <2>4. /\ temps' = [temps EXCEPT ![i].temp_allocated = FALSE,
                                  ![e].temp_allocated = FALSE]
        /\ free_temps' = [free_temps EXCEPT ![type] = @ \cup {i}]
    BY <1>5, <2>1, <2>3 DEF tcg_temp_free_internal
  <2>5. type \in Types /\ temps[i].temp_subindex_len = Parts(type) - 1
    BY <1>1, <1>2, <1>5, <2>3 DEF ShapesKept
  <2> DEFINE g1 == [temps EXCEPT ![i].temp_allocated = FALSE]
             g2 == [g1 EXCEPT ![e].temp_allocated = FALSE]
  <2>6. temps' = g2
    BY <2>4
  <2>7. g1 \in [Index -> Temp] /\ g2 \in [Index -> Temp]
    <3>1. g1 \in [Index -> Temp]
      BY <1>1, FlagSet DEF TypeOK
    <3> HIDE DEF g1
    <3>2. g2 \in [Index -> Temp]
      BY <2>2, <3>1, FlagSet
    <3> QED  BY <3>1, <3>2
  <2>8. ASSUME NEW j \in Index PROVE ShapeKept(j)
    <3> DEFINE Same(f, g) ==
            /\ g[j].kind = f[j].kind /\ g[j].base_type = f[j].base_type
            /\ g[j].temp_subindex_len = f[j].temp_subindex_len
            /\ g[j].val = f[j].val /\ g[j].sym_offset = f[j].sym_offset
            /\ g[j].home = f[j].home
            /\ g[j].symbolic_expression = f[j].symbolic_expression
    <3>1. Same(temps, g1)
      BY <1>1, FlagSet DEF TypeOK
    <3>2. Same(g1, g2)
      <4> HIDE DEF g1
      <4> QED  BY <2>2, <2>7, FlagSet
    <3> HIDE DEF g1, g2
    <3> QED  BY <2>6, <3>1, <3>2 DEF ShapeKept
  <2> HIDE DEF g1, g2
  <2>9. temps' \in [Index -> Temp]
    BY <2>6, <2>7
  <2>10. /\ held' \subseteq held \cup Free
         /\ free_temps' \in [Types -> SUBSET (held \cup Free)]
    BY <1>1, <1>2, <2>4 DEF TypeOK, Free
  <2>11. ShapesKept'
    <3>1. ASSUME NEW j \in held', temps'[j].kind = "ebb"
          PROVE  /\ temps'[j].base_type \in Types
                 /\ temps'[j].temp_subindex_len = Parts(temps'[j].base_type) - 1
      <4>1. j \in held /\ j \in Index
        BY <1>1, <1>2 DEF TypeOK
      <4>2. /\ temps'[j].kind = temps[j].kind
            /\ temps'[j].base_type = temps[j].base_type
            /\ temps'[j].temp_subindex_len = temps[j].temp_subindex_len
        BY <2>8, <4>1 DEF ShapeKept
      <4> QED  BY <1>1, <3>1, <4>1, <4>2 DEF ShapesKept
    <3>2. ASSUME NEW t \in Types, NEW j \in free_temps'[t]
          PROVE  /\ temps'[j].kind = "ebb" /\ temps'[j].base_type = t
                 /\ temps'[j].temp_subindex_len = Parts(t) - 1
                 /\ j \notin held'
      <4>1. j \in free_temps[t] \/ (t = type /\ j = i)
        BY <1>1, <2>4 DEF TypeOK
      <4>2. j \in Index
        BY <1>4, <4>1
      <4>3. /\ temps'[j].kind = temps[j].kind
            /\ temps'[j].base_type = temps[j].base_type
            /\ temps'[j].temp_subindex_len = temps[j].temp_subindex_len
        BY <2>8, <4>2 DEF ShapeKept
      <4>4. CASE t = type /\ j = i
        BY <1>2, <1>5, <2>3, <2>5, <4>3, <4>4
      <4>5. CASE j \in free_temps[t]
        BY <1>1, <1>2, <4>3, <4>5 DEF ShapesKept
      <4> QED  BY <4>1, <4>4, <4>5
    <3> QED  BY <3>1, <3>2 DEF ShapesKept
  <2>12. MarksKept
    <3>1. ASSUME NEW j \in Index
          PROVE  temps'[j].symbolic_expression = temps[j].symbolic_expression
      <4>1. g1[j].symbolic_expression = temps[j].symbolic_expression
        BY <1>1, FlagSet DEF TypeOK, g1
      <4>2. g2[j].symbolic_expression = g1[j].symbolic_expression
        BY <2>2, <2>7, FlagSet DEF g2
      <4> QED  BY <2>6, <4>1, <4>2
    <3> QED  BY <3>1 DEF MarksKept
  <2> QED  BY <1>2, <2>8, <2>9, <2>10, <2>11, <2>12, FlagStep
<1>6. CASE temps[i].kind # "ebb"
  <2>1. UNCHANGED <<temps, free_temps>>
    BY <1>6 DEF tcg_temp_free_internal
  <2>2. ShapesKept'
    BY <1>1, <1>2, <2>1 DEF ShapesKept
  <2>3. \A j \in Index : ShapeKept(j)
    BY <2>1 DEF ShapeKept
  <2>4. /\ temps' \in [Index -> Temp] /\ held' \subseteq held \cup Free
        /\ free_temps' \in [Types -> SUBSET (held \cup Free)]
    BY <1>1, <1>2, <2>1 DEF TypeOK, Free
  <2>5. MarksKept
    BY <2>1 DEF MarksKept
  <2> QED  BY <1>2, <2>2, <2>3, <2>4, <2>5, FlagStep
<1> QED  BY <1>5, <1>6

(* A translation begins: only the globals are left.                        *)
LEMMA StartStep ==
    ASSUME IInv, tcg_func_start, debug' = debug
    PROVE  IInv'
<1> USE TempsAssumption
<1>1. /\ TypeOK /\ BlocksWhole /\ BlocksApart /\ GlobalsFirst /\ HomesPlaced
  BY DEF IInv
<1>2. /\ nb_temps' = nb_globals /\ stage' = "gen" /\ held' = {}
      /\ free_temps' = [t \in Types |-> {}]
      /\ const_table' = [t \in Types |-> [v \in Vals |-> None]]
      /\ UNCHANGED <<temps, nb_globals>>
  BY DEF tcg_func_start
<1>3. TypeOK'
  <2>1. /\ const_table' \in [Types -> [Vals -> Index \cup {None}]]
        /\ free_temps' \in [Types -> SUBSET Index]
    BY <1>2
  <2>2. nb_temps' \in 0..(MaxTemps + 1)
    BY <1>1, <1>2 DEF TypeOK
  <2> QED  BY <1>1, <1>2, <2>1, <2>2 DEF TypeOK
<1>4. Locals' = {} /\ Globals' = Globals /\ Heads' = Globals /\ Globals \subseteq Heads
  <2>1. Interned' = {}
    BY <1>2 DEF Interned, Index
  <2>2. Free' = {}
    BY <1>2 DEF Free
  <2>3. Globals' = Globals
    BY <1>2 DEF Globals
  <2> QED  BY <1>2, <2>1, <2>2, <2>3 DEF Locals, Heads
<1>5. BlocksWhole'
  <2> SUFFICES ASSUME NEW i \in Globals PROVE Whole(i)'
    BY <1>4 DEF BlocksWhole
  <2>1. Whole(i) /\ BlockEnd(i) <= nb_globals
    BY <1>1, <1>4 DEF BlocksWhole, GlobalsFirst
  <2> QED  BY <1>2, <2>1 DEF Whole, BlockEnd, PartsOf, temp_expr, Marked
<1>6. BlocksApart'
  BY <1>1, <1>2, <1>4 DEF BlocksApart, BlockEnd
<1>7. GlobalsFirst'
  <2>1. nb_globals \in Nat /\ nb_globals <= MaxTemps
    BY <1>1 DEF TypeOK
  <2> QED  BY <1>1, <1>2, <1>4, <2>1 DEF GlobalsFirst, BlockEnd
<1>8. ShapesKept' /\ ConstWhole'
  BY <1>2 DEF ShapesKept, ConstWhole
<1>9. HomesPlaced'
  BY <1>1, <1>2, <1>4 DEF HomesPlaced
<1> QED  BY <1>3, <1>5, <1>6, <1>7, <1>8, <1>9 DEF IInv

(* The frame register, whose expression is given a place in the frame.     *)
LEMMA FrameStep ==
    ASSUME IInv, tcg_set_frame, debug' = debug
    PROVE  IInv'
<1> USE TempsAssumption
<1>1. PICK h : h = nb_globals  OBVIOUS
<1> DEFINE value == [Blank EXCEPT !.kind = "fixed", !.base_type = "I64"]
           home == [base |-> h, offset |-> 0]
           expr == Expr("global", FALSE, FALSE, home)
           fill == [k \in 0..1 |-> IF k = 0 THEN value ELSE expr]
<1>2. /\ stage = "init" /\ nb_temps + 2 <= MaxTemps /\ Alloc(2, fill)
      /\ nb_globals' = nb_globals + 2 /\ UNCHANGED <<free_temps, const_table, held>>
  BY <1>1 DEF tcg_set_frame
<1>3. /\ value \in Temp /\ value.temp_subindex_len = 0
      /\ ~value.symbolic_expression /\ value.sym_offset = 0
  BY BlankTyped DEF Temp
<1>4. expr \in Temp /\ expr.symbolic_expression /\ expr.home = home
  <2>1. home \in Homes
    BY <1>1 DEF Homes, IInv, TypeOK
  <2> HIDE DEF home
  <2> QED  BY <2>1, BlankTyped DEF Expr, Temp
<1> HIDE DEF value, expr
<1>5. fill \in [0..1 -> Temp] /\ fill[0] = value /\ fill[1] = expr
  BY <1>3, <1>4
<1> HIDE DEF fill
<1>6. PICK f : f = fill  OBVIOUS
<1>7. /\ f \in [0..1 -> Temp] /\ Alloc(2, f)
      /\ f[0].temp_subindex_len = 0 /\ ~f[0].symbolic_expression
      /\ f[0].sym_offset = 0 /\ f[1].symbolic_expression
      /\ f[1].home = [base |-> h, offset |-> 0]
  BY <1>2, <1>3, <1>4, <1>5, <1>6
<1> QED  BY <1>1, <1>2, <1>7, GlobalStep

(* A global in memory, based on env or on another global.                  *)
LEMMA GlobalMemStep ==
    ASSUME IInv, NEW base \in Index, NEW type \in Types \ {"I128"},
           tcg_global_mem_new(base, type), debug' = debug
    PROVE  IInv'
<1> USE TempsAssumption
<1>1. PICK h : h = nb_globals  OBVIOUS
<1>2. PICK indirect : indirect = (temps[base].kind = "global")  OBVIOUS
<1>3. PICK offset : offset = temps[base].sym_offset + (h \div 2)  OBVIOUS
<1> DEFINE value == [Blank EXCEPT !.kind = "global", !.base_type = type,
                                  !.indirect_reg = indirect]
           home == [base |-> base, offset |-> offset]
           expr == Expr("global", FALSE, indirect, home)
           fill == [k \in 0..1 |-> IF k = 0 THEN value ELSE expr]
<1>4. /\ stage = "init" /\ nb_temps + 2 <= MaxTemps /\ Alloc(2, fill)
      /\ base < nb_globals /\ ~temps[base].symbolic_expression
      /\ nb_globals' = nb_globals + 2 /\ UNCHANGED <<free_temps, const_table, held>>
  BY <1>1, <1>2, <1>3 DEF tcg_global_mem_new, GlobalMemNew
<1>5. base \in Globals /\ h \in Nat /\ base \in 0..(h - 1)
  BY <1>1, <1>4 DEF Globals, IInv, TypeOK, Index
<1>6. /\ offset = (IF base = 0 THEN SymOffset ELSE 0) + (h \div 2)
      /\ offset \in Nat
  <2>1. temps[base].sym_offset = IF base = 0 THEN SymOffset ELSE 0
    BY <1>5 DEF IInv, HomesPlaced
  <2>2. h \div 2 \in Nat
    BY <1>5
  <2> QED  BY <1>3, <2>1, <2>2
<1>7. indirect \in BOOLEAN
  BY <1>2, Zenon
<1>8. /\ value \in Temp /\ value.temp_subindex_len = 0
      /\ ~value.symbolic_expression /\ value.sym_offset = 0
  <2>1. type \in {"I32", "I64", "I128"}  OBVIOUS
  <2> QED  BY <1>7, <2>1, BlankTyped DEF Temp
<1>9. expr \in Temp /\ expr.symbolic_expression /\ expr.home = home
  <2>1. home \in Homes
    BY <1>5, <1>6 DEF Homes
  <2> HIDE DEF home, value
  <2> QED  BY <1>7, <2>1, GlobalExprTyped
<1> HIDE DEF value, expr
<1>10. fill \in [0..1 -> Temp] /\ fill[0] = value /\ fill[1] = expr
  BY <1>8, <1>9
<1> HIDE DEF fill
<1>11. PICK f : f = fill  OBVIOUS
<1>12. /\ f \in [0..1 -> Temp] /\ Alloc(2, f)
       /\ f[0].temp_subindex_len = 0 /\ ~f[0].symbolic_expression
       /\ f[0].sym_offset = 0 /\ f[1].symbolic_expression
       /\ \E b \in 0..(h - 1) :
             f[1].home = [base |-> b,
                          offset |-> (IF b = 0 THEN SymOffset ELSE 0) + (h \div 2)]
  BY <1>4, <1>5, <1>6, <1>8, <1>9, <1>10, <1>11
<1> QED  BY <1>1, <1>4, <1>12, GlobalStep

(* Every step preserves the invariant.                                     *)
LEMMA NextInv == IInv /\ [Next]_vars => IInv'
<1> SUFFICES ASSUME IInv, [Next]_vars PROVE IInv'  OBVIOUS
<1>1. CASE Next
  <2>1. debug' = debug
    BY <1>1 DEF Next
  <2>2. CASE tcg_set_frame
    BY <2>1, <2>2, FrameStep
  <2>3. ASSUME NEW base \in Index, NEW type \in Types \ {"I128"},
               tcg_global_mem_new(base, type)
        PROVE  IInv'
    BY <2>1, <2>3, GlobalMemStep
  <2>4. CASE tcg_func_start
    BY <2>1, <2>4, StartStep
  <2>5. ASSUME NEW type \in Types, NEW kind \in {"ebb", "tb"},
               tcg_temp_new_internal(type, kind)
        PROVE  IInv'
    BY <2>1, <2>5, NewTempStep, ReuseStep DEF tcg_temp_new_internal
  <2>6. ASSUME NEW i \in Index, tcg_temp_free_internal(i) PROVE IInv'
    BY <2>1, <2>6, FreeStep
  <2>7. ASSUME NEW i \in Index, tcg_gen_callN(i) PROVE IInv'
    BY <2>1, <2>7, ConstStep, TempsAssumption DEF tcg_gen_callN
  <2>8. ASSUME NEW type \in Types, NEW v \in Vals, tcg_constant_internal(type, v)
        PROVE  IInv'
    BY <2>1, <2>8, ConstStep DEF tcg_constant_internal
  <2> QED  BY <1>1, <2>2, <2>3, <2>4, <2>5, <2>6, <2>7, <2>8 DEF Next
<1>2. CASE UNCHANGED vars
  BY <1>2 DEF vars, IInv, TypeOK, BlocksWhole, BlocksApart, GlobalsFirst,
      ShapesKept, ConstWhole, HomesPlaced, Heads, Locals, Free, Interned,
      Globals, Whole, Marked, BlockEnd, PartsOf, temp_expr
<1> QED  BY <1>1, <1>2

(* The layout of s->temps is as the invariant says in every reachable      *)
(* state.                                                                  *)
THEOREM Invariance == Spec => []IInv
BY InitInv, NextInv, PTL DEF Spec

(* No index beyond s->temps is ever written, whatever its size.            *)
THEOREM TypeCorrect == Spec => []TypeOK
<1>1. IInv => TypeOK
  BY DEF IInv
<1> QED  BY Invariance, <1>1, PTL

(* A constant found in a table is a whole one of this translation.         *)
THEOREM ConstantsWhole == Spec => []ConstWhole
<1>1. IInv => ConstWhole
  BY DEF IInv
<1> QED  BY Invariance, <1>1, PTL

(* A value in use lies in the block of a head, and its expression further  *)
(* on in the same block.                                                   *)
LEMMA ValueInBlock ==
    ASSUME IInv, NEW x \in Values
    PROVE  \E i \in held \cup Globals :
             /\ x \in PartsOf(i)
             /\ temp_expr(x) = x + temps[i].temp_subindex_len + 1
             /\ temps[temp_expr(x)].symbolic_expression
             /\ temps[x].kind = temps[i].kind /\ temps[x].base_type = temps[i].base_type
             /\ temps[x].symbolic_expression => Marked(i, x)
<1>1. PICK i \in held \cup Globals : x \in PartsOf(i)
  BY DEF Values
<1>2. Whole(i)
  BY DEF IInv, BlocksWhole, Heads, Locals
<1> QED  BY <1>1, <1>2 DEF Whole, temp_expr

(* Heads and their blocks as numbers.                                      *)
LEMMA BlockNumbers ==
    ASSUME IInv, NEW i \in Heads
    PROVE  /\ i \in Nat /\ temps[i].temp_subindex_len \in Nat
           /\ BlockEnd(i) = i + 2 * (temps[i].temp_subindex_len + 1)
           /\ BlockEnd(i) <= nb_temps /\ nb_temps \in Nat
           /\ PartsOf(i) = i..(i + temps[i].temp_subindex_len)
           /\ \A j \in Heads : i < j => BlockEnd(i) <= j
<1>1. TypeOK /\ BlocksWhole /\ BlocksApart
  BY DEF IInv
<1> QED  BY <1>1, HeadsInside DEF TypeOK, BlockEnd, PartsOf, BlocksWhole, Whole,
             BlocksApart, Index

(* temp_expr gives every value in use an expression temporary of its own   *)
(* and its assertions hold, for any number of temporaries and any mix of   *)
(* types; !ts->symbolic_expression fails for no value in a debug build,    *)
(* and otherwise only for second halves of 128-bit values.                 *)
THEOREM ExpressionsPrivate == Spec => []ExprPrivate
<1>1. ASSUME IInv PROVE ExprPrivate
  <2>1. held \cup Globals \subseteq Heads
    BY DEF Heads, Locals
  <2>2. ASSUME NEW x \in Values
        PROVE  /\ temp_expr(x) < nb_temps
               /\ temps[x].symbolic_expression => ~debug /\ SecondHalf(x)
               /\ temps[temp_expr(x)].symbolic_expression
               /\ temp_expr(x) \notin Values
    <3>1. PICK i \in held \cup Globals :
             /\ x \in PartsOf(i)
             /\ temp_expr(x) = x + temps[i].temp_subindex_len + 1
             /\ temps[temp_expr(x)].symbolic_expression
             /\ temps[x].kind = temps[i].kind /\ temps[x].base_type = temps[i].base_type
             /\ temps[x].symbolic_expression => Marked(i, x)
      BY <1>1, ValueInBlock
    <3>2. i \in Heads
      BY <2>1
    <3>3. temp_expr(x) < nb_temps
      BY <1>1, <3>1, <3>2, BlockNumbers
    <3>4. temp_expr(x) \notin Values
      <4> SUFFICES ASSUME temp_expr(x) \in Values PROVE FALSE
        OBVIOUS
      <4>1. PICK j \in held \cup Globals : temp_expr(x) \in PartsOf(j)
        BY DEF Values
      <4>2. j \in Heads
        BY <2>1
      <4> DEFINE a == temps[i].temp_subindex_len
                 b == temps[j].temp_subindex_len
                 e == temp_expr(x)
      <4>3. /\ i \in Nat /\ j \in Nat /\ a \in Nat /\ b \in Nat
            /\ x \in i..(i + a) /\ e = x + a + 1 /\ e \in j..(j + b)
        BY <1>1, <3>1, <3>2, <4>1, <4>2, BlockNumbers
      <4>4. /\ i < j => i + 2 * (a + 1) <= j
            /\ j < i => j + 2 * (b + 1) <= i
        BY <1>1, <3>2, <4>2, BlockNumbers
      <4>5. i = j => a = b
        OBVIOUS
      <4> HIDE DEF a, b, e
      <4> QED  BY <4>3, <4>4, <4>5
    <3>5. ASSUME temps[x].symbolic_expression PROVE ~debug /\ SecondHalf(x)
      <4>1. Marked(i, x)
        BY <3>1, <3>5
      <4>2. x \notin held
        <5> SUFFICES ASSUME x \in held PROVE FALSE
          OBVIOUS
        <5>1. x \in Heads
          BY <2>1
        <5>2. /\ i \in Nat /\ x \in Nat /\ temps[i].temp_subindex_len \in Nat
              /\ x \in i..(i + temps[i].temp_subindex_len)
              /\ i < x => i + 2 * (temps[i].temp_subindex_len + 1) <= x
          BY <1>1, <3>1, <3>2, <5>1, BlockNumbers
        <5>3. x # i
          BY <4>1 DEF Marked
        <5> QED  BY <5>2, <5>3
      <4> QED  BY <3>1, <4>1, <4>2 DEF Marked, SecondHalf
    <3> QED  BY <3>1, <3>3, <3>4, <3>5
  <2>3. ASSUME NEW x \in Values, NEW y \in Values, temp_expr(x) = temp_expr(y)
        PROVE  x = y
    <3>1. PICK i \in held \cup Globals :
             /\ x \in PartsOf(i)
             /\ temp_expr(x) = x + temps[i].temp_subindex_len + 1
      BY <1>1, ValueInBlock
    <3>2. PICK j \in held \cup Globals :
             /\ y \in PartsOf(j)
             /\ temp_expr(y) = y + temps[j].temp_subindex_len + 1
      BY <1>1, ValueInBlock
    <3>3. i \in Heads /\ j \in Heads
      BY <2>1
    <3> DEFINE a == temps[i].temp_subindex_len
               b == temps[j].temp_subindex_len
    <3>4. /\ i \in Nat /\ j \in Nat /\ a \in Nat /\ b \in Nat
          /\ x \in i..(i + a) /\ y \in j..(j + b)
      BY <1>1, <3>1, <3>2, <3>3, BlockNumbers
    <3>5. x + a + 1 = y + b + 1
      BY <2>3, <3>1, <3>2
    <3>6. /\ i < j => i + 2 * (a + 1) <= j
          /\ j < i => j + 2 * (b + 1) <= i
      BY <1>1, <3>3, BlockNumbers
    <3>7. i = j => a = b
      OBVIOUS
    <3> HIDE DEF a, b
    <3> QED  BY <3>4, <3>5, <3>6, <3>7
  <2> QED  BY <2>2, <2>3 DEF ExprPrivate
<1> QED  BY Invariance, <1>1, PTL

(* What the bitmaps offer for reuse is nobody's.                           *)
THEOREM FreeIsUnused == Spec => []FreeUnused
<1>1. ASSUME IInv PROVE FreeUnused
  <2> SUFFICES ASSUME NEW type \in Types, NEW i \in free_temps[type]
               PROVE  /\ i < nb_temps
                      /\ temps[i].kind = "ebb" /\ temps[i].base_type = type
                      /\ temps[i].temp_subindex_len = Parts(type) - 1
                      /\ \A k \in PartsOf(i) : /\ k \notin Values
                                               /\ \A x \in Values : temp_expr(x) # k
    BY DEF FreeUnused
  <2>1. i \in Heads /\ held \cup Globals \subseteq Heads
    BY DEF Heads, Locals, Free
  <2>2. i \notin held \cup Globals
    <3>1. nb_globals <= i /\ nb_globals \in Nat /\ i \in Nat
      <4>1. i \in Locals /\ GlobalsFirst /\ TypeOK
        BY <1>1 DEF IInv, Locals, Free
      <4> QED  BY <1>1, <2>1, <4>1, BlockNumbers DEF TypeOK, GlobalsFirst
    <3>2. i \notin Globals
      BY <3>1 DEF Globals
    <3> QED  BY <1>1, <3>2 DEF IInv, ShapesKept
  <2>3. ASSUME NEW k \in PartsOf(i), NEW x \in Values
        PROVE  k # x /\ temp_expr(x) # k
    <3>1. PICK j \in held \cup Globals :
             /\ x \in PartsOf(j)
             /\ temp_expr(x) = x + temps[j].temp_subindex_len + 1
      BY <1>1, ValueInBlock
    <3>2. j \in Heads /\ j # i
      BY <2>1, <2>2
    <3> DEFINE a == temps[i].temp_subindex_len
               b == temps[j].temp_subindex_len
    <3>3. /\ i \in Nat /\ j \in Nat /\ a \in Nat /\ b \in Nat
          /\ k \in i..(i + a) /\ x \in j..(j + b)
      BY <1>1, <2>1, <2>3, <3>1, <3>2, BlockNumbers
    <3>4. /\ i < j => i + 2 * (a + 1) <= j
          /\ j < i => j + 2 * (b + 1) <= i
      BY <1>1, <2>1, <3>2, BlockNumbers
    <3>5. temp_expr(x) = x + b + 1
      BY <3>1
    <3> HIDE DEF a, b
    <3> QED  BY <3>2, <3>3, <3>4, <3>5
  <2>4. i < nb_temps
    BY <1>1, <2>1, HeadsInside DEF IInv
  <2> QED  BY <1>1, <2>3, <2>4 DEF IInv, ShapesKept
<1> QED  BY Invariance, <1>1, PTL

(* The expressions of globals are kept in places of their own, and those   *)
(* in env_exprs inside its TCG_MAX_TEMPS + 1 entries.                      *)
THEOREM GlobalHomesDistinct == Spec => []HomesDistinct
<1>1. ASSUME IInv PROVE HomesDistinct
  <2> USE TempsAssumption
  <2> DEFINE Offset(b, i) == (IF b = 0 THEN SymOffset ELSE 0) + (i \div 2)
  <2>1. ASSUME NEW i \in Globals
        PROVE  /\ i \in Nat /\ i < MaxTemps
               /\ \E b, o :
                     /\ temps[i + 1].home = [base |-> b, offset |-> o]
                     /\ b \in Nat /\ b <= i
                     /\ \/ b = i /\ o = 0 /\ i # 0
                        \/ o = Offset(b, i)
    <3>1. i \in Nat /\ i < MaxTemps
      BY DEF Globals, Index
    <3>2. CASE i # 0 /\ temps[i + 1].home = [base |-> i, offset |-> 0]
      BY <3>1, <3>2
    <3>3. CASE \E b \in 0..i : /\ b = i => i = 0
                               /\ temps[i + 1].home =
                                    [base |-> b, offset |-> Offset(b, i)]
      <4>1. PICK b \in 0..i : temps[i + 1].home = [base |-> b, offset |-> Offset(b, i)]
        BY <3>3
      <4>2. PICK o : o = Offset(b, i)  OBVIOUS
      <4> HIDE DEF Offset
      <4>3. /\ temps[i + 1].home = [base |-> b, offset |-> o]
            /\ b \in Nat /\ b <= i /\ o = Offset(b, i)
        BY <3>1, <4>1, <4>2
      <4> QED  BY <3>1, <4>3, Zenon
    <3> QED  BY <1>1, <3>1, <3>2, <3>3 DEF IInv, HomesPlaced
  <2>2. ASSUME NEW i \in Globals, NEW j \in Globals, i < j
        PROVE  i + 2 <= j
    <3>1. i \in Heads /\ j \in Heads
      BY DEF Heads
    <3>2. /\ i \in Nat /\ j \in Nat /\ temps[i].temp_subindex_len \in Nat
          /\ i + 2 * (temps[i].temp_subindex_len + 1) <= j
      BY <1>1, <2>2, <3>1, BlockNumbers
    <3> QED  BY <3>2
  <2>3. ASSUME NEW i \in Globals, NEW j \in Globals, i < j
        PROVE  temps[i + 1].home # temps[j + 1].home
    <3>1. i \in Nat /\ j \in Nat /\ i + 2 <= j
      BY <2>1, <2>2, <2>3
    <3>2. i \div 2 \in Nat /\ j \div 2 \in Nat /\ i \div 2 < j \div 2
      BY <3>1
    <3> HIDE DEF Offset
    <3>3. PICK b, o : /\ temps[i + 1].home = [base |-> b, offset |-> o]
                      /\ b \in Nat /\ b <= i
                      /\ \/ b = i /\ o = 0 /\ i # 0
                         \/ o = Offset(b, i)
      BY <2>1
    <3>4. PICK c, p : /\ temps[j + 1].home = [base |-> c, offset |-> p]
                      /\ c \in Nat /\ c <= j
                      /\ \/ c = j /\ p = 0 /\ j # 0
                         \/ p = Offset(c, j)
      BY <2>1
    <3>5. b # c \/ o # p
      <4>1. b = c => p = Offset(c, j)
        BY <3>1, <3>3, <3>4
      <4>2. b = c => o # p
        BY <4>1, <3>1, <3>2, <3>3 DEF Offset
      <4> QED  BY <4>2
    <3>6. /\ temps[i + 1].home.base = b /\ temps[i + 1].home.offset = o
          /\ temps[j + 1].home.base = c /\ temps[j + 1].home.offset = p
      BY <3>3, <3>4
    <3> QED  BY <3>5, <3>6
  <2>4. ASSUME NEW i \in Globals, temps[i + 1].home.base = 0
        PROVE  temps[i + 1].home.offset \in SymOffset..(SymOffset + MaxTemps)
    <3>1. i \in Nat /\ i < MaxTemps
      BY <2>1
    <3>2. i \div 2 \in Nat /\ i \div 2 <= i
      BY <3>1
    <3>3. temps[i + 1].home.offset = SymOffset + (i \div 2)
      <4>1. PICK b, o : /\ temps[i + 1].home = [base |-> b, offset |-> o]
                        /\ \/ b = i /\ o = 0 /\ i # 0
                           \/ o = Offset(b, i)
        <5> HIDE DEF Offset
        <5> QED  BY <2>1
      <4>2. b = 0 /\ temps[i + 1].home.offset = o
        BY <2>4, <4>1
      <4> QED  BY <4>1, <4>2
    <3> QED  BY <3>1, <3>2, <3>3
  <2>5. \A i \in Globals : i \in Nat
    BY <2>1
  <2> QED  BY <2>3, <2>4, <2>5 DEF HomesDistinct
<1> QED  BY Invariance, <1>1, PTL

===============================================================================
