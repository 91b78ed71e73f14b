--------------------------- MODULE SymShadowProofs ---------------------------
(***************************************************************************)
(* The symbolic shadow is sound, and complete along the path, for any      *)
(* words, temporaries, memory, inputs and operations whose helpers build   *)
(* what the operation computes (HelperAssumption).                         *)
(***************************************************************************)
EXTENDS SymShadow, TLAPS

Exprs == Values \cup {Null}

(* Immediate facts about words.                                            *)
LEMMA NumberType == \A n \in {0, 1} : Number(n) \in Word
BY SizeAssumption DEF Number, Word, Byte

(* The two flags a comparison can return differ.                           *)
LEMMA FlagsDiffer == Number(1) # Number(0)
<1>1. 0 \in 0..(W - 1)  BY SizeAssumption
<1>2. Number(1)[0] = 1 /\ Number(0)[0] = 0  BY <1>1 DEF Number
<1> QED  BY <1>2

(* Ensure yields an expression of the right width, and it tracks whatever  *)
(* the possibly missing expression tracked.                                *)
LEMMA EnsureType ==
    ASSUME NEW e \in Exprs, NEW w \in Word
    PROVE  Ensure(w, e) \in Values
BY DEF Exprs, Ensure, Constantly, Values

(* The same for a byte of memory.                                          *)
LEMMA EnsureByteType ==
    ASSUME NEW e \in Bytes \cup {Null}, NEW w \in Byte
    PROVE  Ensure(w, e) \in Bytes
BY DEF Ensure, Constantly, Bytes

(* Where the invariant speaks about: the seed is always among it.          *)
LEMMA SeedWhere == IInv => seed \in Where /\ Where \subseteq Inputs /\ seed \in Inputs
BY DEF IInv, TypeOK, SeedOnPath, Where

(* Helpers of unary operations track the result.                           *)
LEMMA UnaryTracks ==
    ASSUME NEW op \in Ops1, NEW e \in Exprs, NEW v \in Values, seed \in Inputs,
           NEW S \in SUBSET Inputs, Tracks(e, v, seed, S)
    PROVE  LET res == [i \in Inputs |-> Sem1(op, v[i])]
           IN  /\ res \in Values
               /\ UnaryHelper(op, e) \in Exprs
               /\ Tracks(UnaryHelper(op, e), res, seed, S)
<1> DEFINE res == [i \in Inputs |-> Sem1(op, v[i])]
<1>1. res \in Values
  BY SemAssumption DEF Values
<1>2. CASE e = Null
  <2>1. UnaryHelper(op, e) = Null
    BY <1>2 DEF UnaryHelper
  <2>2. \A i \in S : v[i] = v[seed]
    BY <1>2 DEF Tracks, Ensure, Constantly
  <2> QED  BY <1>1, <2>1, <2>2 DEF Exprs, Tracks, Ensure, Constantly
<1>3. CASE e # Null
  <2>1. e \in Values
    BY <1>3 DEF Exprs
  <2>2. UnaryHelper(op, e) = [i \in Inputs |-> Sem1(op, e[i])]
    BY <1>3, <2>1, HelperAssumption DEF UnaryHelper, Values
  <2>3. UnaryHelper(op, e) \in Values
    BY <2>1, <2>2, SemAssumption DEF Values
  <2>4. \A i \in S : v[i] = e[i]
    BY <1>3 DEF Tracks, Ensure
  <2> QED  BY <1>1, <2>2, <2>3, <2>4, SizeAssumption DEF Exprs, Tracks, Ensure
<1> QED  BY <1>2, <1>3

(* Helpers of binary operations track the result, given the concrete       *)
(* operands.                                                               *)
LEMMA BinaryTracks ==
    ASSUME NEW op \in OpsBefore \cup OpsAfter \cup OpsComposite,
           NEW e1 \in Exprs, NEW e2 \in Exprs, NEW v1 \in Values, NEW v2 \in Values,
           seed \in Inputs, NEW S \in SUBSET Inputs,
           Tracks(e1, v1, seed, S), Tracks(e2, v2, seed, S)
    PROVE  LET res == [i \in Inputs |-> Sem2(op, v1[i], v2[i])]
               e == BinaryHelper(op, v1[seed], e1, v2[seed], e2)
           IN  res \in Values /\ e \in Exprs /\ Tracks(e, res, seed, S)
<1> DEFINE res == [i \in Inputs |-> Sem2(op, v1[i], v2[i])]
           e == BinaryHelper(op, v1[seed], e1, v2[seed], e2)
           x1 == Ensure(v1[seed], e1)
           x2 == Ensure(v2[seed], e2)
<1>1. res \in Values
  BY SemAssumption DEF Values
<1>2. x1 \in Values /\ x2 \in Values
  BY EnsureType DEF Values
<1>3. \A i \in S : v1[i] = x1[i] /\ v2[i] = x2[i]
  BY DEF Tracks
<1>4. CASE e1 = Null /\ e2 = Null
  <2>1. e = Null
    BY <1>4 DEF BinaryHelper
  <2>2. \A i \in S : v1[i] = v1[seed] /\ v2[i] = v2[seed]
    BY <1>3, <1>4 DEF Ensure, Constantly
  <2> QED  BY <1>1, <2>1, <2>2 DEF Exprs, Tracks, Ensure, Constantly
<1>5. CASE ~(e1 = Null /\ e2 = Null)
  <2> HIDE DEF x1, x2
  <2>1. e = [i \in Inputs |-> Helper2(op, x1[i], x2[i])]
    BY <1>5 DEF BinaryHelper, x1, x2
  <2>2. e = [i \in Inputs |-> Sem2(op, x1[i], x2[i])]
    BY <1>2, <2>1, HelperAssumption DEF Values
  <2>3. e \in Values
    BY <1>2, <2>2, SemAssumption DEF Values
  <2>4. \A i \in S : res[i] = e[i]
    BY <1>3, <2>2
  <2> HIDE DEF e, res
  <2>5. Tracks(e, res, seed, S)
    BY <2>3, <2>4, SizeAssumption DEF Tracks, Ensure
  <2> QED  BY <1>1, <2>3, <2>5 DEF Exprs, e, res
<1> QED  BY <1>4, <1>5

(* The condition symbol is true exactly where the comparison is, on every  *)
(* input that both operands track.                                         *)
LEMMA ConditionTracks ==
    ASSUME NEW c \in Conds, NEW e1 \in Exprs, NEW e2 \in Exprs,
           NEW v1 \in Values, NEW v2 \in Values, seed \in Inputs,
           NEW S \in SUBSET Inputs, Tracks(e1, v1, seed, S), Tracks(e2, v2, seed, S)
    PROVE  \A i \in S : i \in ConditionHelper(c, v1[seed], e1, v2[seed], e2)
                            <=> SemTest(c, v1[i], v2[i])
<1> DEFINE x1 == Ensure(v1[seed], e1)
           x2 == Ensure(v2[seed], e2)
<1>1. x1 \in Values /\ x2 \in Values
  BY EnsureType DEF Values
<1>2. \A i \in S : v1[i] = x1[i] /\ v2[i] = x2[i]
  BY DEF Tracks
<1>3. \A i \in Inputs : i \in ConditionHelper(c, v1[seed], e1, v2[seed], e2)
                            <=> HelperTest(c, x1[i], x2[i])
  BY DEF ConditionHelper
<1> HIDE DEF x1, x2
<1>4. \A i \in Inputs : HelperTest(c, x1[i], x2[i]) <=> SemTest(c, x1[i], x2[i])
  BY <1>1, HelperAssumption DEF Values
<1> QED  BY <1>2, <1>3, <1>4

(* An operation that writes one temporary keeps the invariant if the new   *)
(* expression tracks the new value and the path only shrinks, around the   *)
(* seed.                                                                   *)
LEMMA TempStep ==
    ASSUME IInv, NEW r \in Temps, NEW e \in Exprs, NEW v \in Values,
           val' = Set(r, v), expr' = [expr EXCEPT ![r] = e],
           UNCHANGED <<seed, mem, shadow, same>>,
           path' \subseteq path, seed \in path',
           exact' \in BOOLEAN, exact' => exact,
           Tracks(e, v, seed, Where')
    PROVE  IInv'
<1>1. TypeOK'
  BY DEF IInv, TypeOK, Set, Exprs
<1>2. Where' \subseteq Where
  BY DEF IInv, SeedOnPath, Where
<1>3. SeedOnPath' /\ PathComplete'
  BY DEF IInv, SeedOnPath, PathComplete
<1>4. \A t \in Temps : Tracks(expr[t], val[t], seed, Where)'
  <2> SUFFICES ASSUME NEW t \in Temps PROVE Tracks(expr[t], val[t], seed, Where)'
    OBVIOUS
  <2>1. CASE t = r
    <3>1. expr'[t] = e /\ val'[t] = v
      BY <2>1 DEF IInv, TypeOK, Set
    <3> QED  BY <3>1
  <2>2. CASE t # r
    <3>1. expr'[t] = expr[t] /\ val'[t] = val[t]
      BY <2>2 DEF IInv, TypeOK, Set
    <3>2. Tracks(expr[t], val[t], seed, Where')
      BY <1>2 DEF IInv, Tracks
    <3> QED  BY <3>1, <3>2
  <2> QED  BY <2>1, <2>2
<1>5. \A x \in Addrs : Tracks(shadow[x], mem[x], seed, Where)'
  <2>1. \A x \in Addrs : Tracks(shadow[x], mem[x], seed, Where')
    BY <1>2 DEF IInv, Tracks
  <2> QED  BY <2>1
<1> QED  BY <1>1, <1>3, <1>4, <1>5 DEF IInv

(* The same for an operation that writes memory.                           *)
LEMMA MemStep ==
    ASSUME IInv, mem' \in [Addrs -> Bytes], shadow' \in [Addrs -> Bytes \cup {Null}],
           UNCHANGED <<seed, val, expr, same, exact>>,
           path' \subseteq path, seed \in path',
           \A x \in Addrs : Tracks(shadow'[x], mem'[x], seed, Where')
    PROVE  IInv'
<1>1. TypeOK'
  BY DEF IInv, TypeOK
<1>2. Where' \subseteq Where
  BY DEF IInv, SeedOnPath, Where
<1>3. SeedOnPath' /\ PathComplete'
  BY DEF IInv, SeedOnPath, PathComplete
<1>4. \A t \in Temps : Tracks(expr[t], val[t], seed, Where)'
  <2>1. \A t \in Temps : Tracks(expr[t], val[t], seed, Where')
    BY <1>2 DEF IInv, Tracks
  <2> QED  BY <2>1
<1>5. \A x \in Addrs : Tracks(shadow[x], mem[x], seed, Where)'
  OBVIOUS
<1> QED  BY <1>1, <1>3, <1>4, <1>5 DEF IInv

(* Every temporary is typed and tracked.                                   *)
LEMMA TempTracked ==
    ASSUME IInv, NEW t \in Temps
    PROVE  /\ val[t] \in Values /\ expr[t] \in Exprs
           /\ Tracks(expr[t], val[t], seed, Where)
           /\ val[t][seed] \in Word
BY DEF IInv, TypeOK, Exprs, Values

(* Pinning an address keeps the seed, and leaves only inputs on which the  *)
(* address is the one that was used.                                       *)
LEMMA PinTracks ==
    ASSUME IInv, NEW a \in Temps
    PROVE  LET p == PinAddress(val[a][seed], expr[a])
           IN  /\ p \subseteq path /\ seed \in p
               /\ exact => \A i \in p : val[a][i] = val[a][seed]
<1>1. seed \in path /\ path \subseteq Inputs /\ seed \in Inputs
  BY DEF IInv, TypeOK, SeedOnPath
<1>2. \A i \in Where : val[a][i] = Ensure(val[a][seed], expr[a])[i]
  BY TempTracked DEF Tracks
<1>3. seed \in Where
  BY SeedWhere
<1>4. CASE expr[a] = Null
  <2>1. PinAddress(val[a][seed], expr[a]) = path
    BY <1>4 DEF PinAddress
  <2>2. \A i \in Where : val[a][i] = val[a][seed]
    BY <1>1, <1>2, <1>4, SeedWhere DEF Ensure, Constantly
  <2> QED  BY <1>1, <2>1, <2>2 DEF Where
<1>5. CASE expr[a] # Null
  <2>1. PinAddress(val[a][seed], expr[a]) =
            {i \in path : expr[a][i] = val[a][seed]}
    BY <1>1, <1>5 DEF PinAddress, Push
  <2>2. \A i \in Where : val[a][i] = expr[a][i]
    BY <1>2, <1>5 DEF Ensure
  <2> QED  BY <1>1, <1>3, <2>1, <2>2 DEF Where
<1> QED  BY <1>4, <1>5

(* The bytes a load touches are typed.                                     *)
LEMMA CellFacts ==
    ASSUME IInv, NEW addr \in Word, NEW len \in Lengths, NEW k \in 0..(len - 1)
    PROVE  /\ k \in 0..(W - 1) /\ Cell(addr, k) \in Addrs
           /\ mem[Cell(addr, k)] \in Bytes
           /\ shadow[Cell(addr, k)] \in Bytes \cup {Null}
           /\ mem[Cell(addr, k)][seed] \in Byte
           /\ Tracks(shadow[Cell(addr, k)], mem[Cell(addr, k)], seed, Where)
<1>1. k \in 0..(W - 1)
  BY SizeAssumption
<1>2. Cell(addr, k) \in Addrs
  BY <1>1, SemAssumption
<1> QED  BY <1>1, <1>2 DEF IInv, TypeOK, Bytes

(* _sym_read_memory: the expression of a loaded word tracks the word that  *)
(* lies at the same address.                                               *)
LEMMA ReadTracks ==
    ASSUME IInv, NEW addr \in Word, NEW len \in Lengths
    PROVE  /\ HostWord(addr, len) \in Values
           /\ ReadShadow(addr, len) \in Exprs
           /\ Tracks(ReadShadow(addr, len), HostWord(addr, len), seed, Where)
<1> DEFINE at == [k \in 0..(len - 1) |-> Cell(addr, k)]
           byte(k) == Ensure(mem[Cell(addr, k)][seed], shadow[Cell(addr, k)])
           e == [i \in Inputs |-> [k \in 0..(W - 1) |-> IF k < len THEN byte(k)[i] ELSE 0]]
<1>1. len \in Nat /\ W \in Nat /\ 0 \in Byte /\ len <= W /\ len > 0
  BY SizeAssumption DEF Byte
<1>2. \A k \in 0..(W - 1) : k < len => k \in 0..(len - 1)
  BY <1>1
<1>3. HostWord(addr, len) \in Values
  <2>1. \A k \in 0..(W - 1), i \in Inputs : k < len => mem[Cell(addr, k)][i] \in Byte
    BY <1>2, CellFacts DEF Bytes
  <2> QED  BY <1>1, <2>1 DEF HostWord, Values, Word
<1>4. \A k \in 0..(len - 1) : byte(k) \in Bytes
  BY CellFacts, EnsureByteType
<1>5. \A k \in 0..(len - 1), i \in Where : mem[Cell(addr, k)][i] = byte(k)[i]
  BY CellFacts DEF Tracks
<1>6. CASE \A k \in 0..(len - 1) : shadow[Cell(addr, k)] = Null
  <2>1. ReadShadow(addr, len) = Null
    BY <1>6 DEF ReadShadow
  <2>2. \A k \in 0..(len - 1), i \in Where :
            mem[Cell(addr, k)][i] = mem[Cell(addr, k)][seed]
    BY <1>5, <1>6, SeedWhere DEF Ensure, Constantly
  <2>3. \A i \in Where : HostWord(addr, len)[i] = HostWord(addr, len)[seed]
    BY <1>2, <2>2, SeedWhere DEF HostWord
  <2> QED  BY <1>3, <2>1, <2>3, SeedWhere DEF Exprs, Tracks, Ensure, Constantly
<1>7. CASE \E k \in 0..(len - 1) : shadow[Cell(addr, k)] # Null
  <2>1. ReadShadow(addr, len) = e
    <3>1. \A k \in 0..(W - 1) : k < len => at[k] = Cell(addr, k)
      BY <1>2
    <3>2. ~(\A k \in 0..(len - 1) : shadow[at[k]] = Null)
      BY <1>7
    <3>3. ReadShadow(addr, len) =
            [i \in Inputs |-> [k \in 0..(W - 1) |->
                IF k < len THEN Ensure(mem[at[k]][seed], shadow[at[k]])[i] ELSE 0]]
      BY <3>2 DEF ReadShadow
    <3> QED  BY <3>1, <3>3
  <2> HIDE DEF byte
  <2>2. e \in Values
    <3>1. \A k \in 0..(W - 1), i \in Inputs : k < len => byte(k)[i] \in Byte
      BY <1>2, <1>4 DEF Bytes
    <3> QED  BY <1>1, <3>1 DEF Values, Word
  <2>3. \A i \in Where : HostWord(addr, len)[i] = e[i]
    BY <1>2, <1>5, SeedWhere DEF HostWord
  <2> HIDE DEF e
  <2> QED  BY <1>3, <2>1, <2>2, <2>3, SizeAssumption DEF Exprs, Tracks, Ensure
<1> QED  BY <1>6, <1>7

(* _sym_write_memory: after a store of a tracked word every byte of memory *)
(* is tracked on the inputs that stored to the same address.               *)
LEMMA WriteTracks ==
    ASSUME IInv, NEW len \in Lengths, NEW addrs \in Values, NEW v \in Values,
           NEW e \in Exprs, Tracks(e, v, seed, Where),
           NEW S \in SUBSET Where, seed \in S,
           \A i \in S : addrs[i] = addrs[seed]
    PROVE  /\ StoreWord(addrs, v, len) \in [Addrs -> Bytes]
           /\ WriteShadow(addrs[seed], len, e) \in [Addrs -> Bytes \cup {Null}]
           /\ \A x \in Addrs : Tracks(WriteShadow(addrs[seed], len, e)[x],
                                       StoreWord(addrs, v, len)[x], seed, S)
<1> DEFINE addr == addrs[seed]
           k(i, x) == ByteFor(addrs[i], len, x)
<1>1. S \subseteq Inputs /\ seed \in Inputs
  BY SeedWhere
<1>2. ASSUME NEW w, NEW x, Touches(w, len, x)
      PROVE  ByteFor(w, len, x) \in 0..(W - 1)
  <2>1. ByteFor(w, len, x) \in 0..(len - 1)
    BY <1>2 DEF Touches, ByteFor
  <2> QED  BY <2>1, SizeAssumption
<1>3. StoreWord(addrs, v, len) \in [Addrs -> Bytes]
  <2>1. ASSUME NEW x \in Addrs, NEW i \in Inputs, Touches(addrs[i], len, x)
        PROVE  v[i][k(i, x)] \in Byte
    BY <2>1, <1>2 DEF Values, Word
  <2>2. \A x \in Addrs, i \in Inputs : mem[x][i] \in Byte
    BY DEF IInv, TypeOK, Bytes
  <2> QED  BY <2>1, <2>2 DEF StoreWord, Bytes
<1>4. WriteShadow(addr, len, e) \in [Addrs -> Bytes \cup {Null}]
  <2>1. ASSUME NEW x \in Addrs, e # Null, Touches(addr, len, x)
        PROVE  [i \in Inputs |-> e[i][ByteFor(addr, len, x)]] \in Bytes
    BY <2>1, <1>2 DEF Exprs, Values, Word, Bytes
  <2>2. \A x \in Addrs : shadow[x] \in Bytes \cup {Null}
    BY DEF IInv, TypeOK
  <2> QED  BY <2>1, <2>2 DEF WriteShadow
<1>5. ASSUME NEW x \in Addrs
      PROVE  Tracks(WriteShadow(addr, len, e)[x], StoreWord(addrs, v, len)[x], seed, S)
  <2>1. CASE ~Touches(addr, len, x)
    <3>1. WriteShadow(addr, len, e)[x] = shadow[x]
      BY <2>1 DEF WriteShadow
    <3>2. \A i \in S : StoreWord(addrs, v, len)[x][i] = mem[x][i]
      BY <1>1, <2>1 DEF StoreWord
    <3>3. \A i \in S : mem[x][i] = Ensure(mem[x][seed], shadow[x])[i]
      BY DEF IInv, Tracks
    <3> QED  BY <3>1, <3>2, <3>3 DEF Tracks
  <2>2. CASE Touches(addr, len, x)
    <3> DEFINE b == ByteFor(addr, len, x)
    <3>1. \A i \in S : StoreWord(addrs, v, len)[x][i] = v[i][b]
      BY <1>1, <2>2 DEF StoreWord
    <3>2. \A i \in S : v[i] = Ensure(v[seed], e)[i]
      BY DEF Tracks
    <3> HIDE DEF b
    <3>3. CASE e = Null
      <4>1. WriteShadow(addr, len, e)[x] = Null
        BY <2>2, <3>3 DEF WriteShadow
      <4>2. \A i \in S : v[i] = v[seed]
        BY <1>1, <3>2, <3>3 DEF Ensure, Constantly
      <4> QED  BY <1>1, <3>1, <4>1, <4>2 DEF Tracks, Ensure, Constantly
    <3>4. CASE e # Null
      <4>1. WriteShadow(addr, len, e)[x] = [i \in Inputs |-> e[i][b]]
        BY <2>2, <3>4 DEF WriteShadow, b
      <4>2. \A i \in S : v[i] = e[i]
        BY <3>2, <3>4 DEF Ensure
      <4>3. WriteShadow(addr, len, e)[x] # Null
        <5>1. [i \in Inputs |-> e[i][b]] \in Bytes
          BY <1>2, <2>2, <3>4 DEF Exprs, Values, Word, Bytes, b
        <5> QED  BY <4>1, <5>1, SizeAssumption
      <4>4. \A i \in S : StoreWord(addrs, v, len)[x][i] = WriteShadow(addr, len, e)[x][i]
        <5> SUFFICES ASSUME NEW i \in S
                     PROVE  StoreWord(addrs, v, len)[x][i] = WriteShadow(addr, len, e)[x][i]
          OBVIOUS
        <5>1. i \in Inputs
          BY <1>1
        <5>2. WriteShadow(addr, len, e)[x][i] = e[i][b]
          BY <4>1, <5>1
        <5>3. StoreWord(addrs, v, len)[x][i] = e[i][b]
          BY <3>1, <4>2
        <5> QED  BY <5>2, <5>3
      <4> QED  BY <4>3, <4>4 DEF Tracks, Ensure
    <3> QED  BY <3>3, <3>4
  <2> QED  BY <2>1, <2>2
<1> QED  BY <1>3, <1>4, <1>5

-----------------------------------------------------------------------------
(* The initial state satisfies the invariant.                              *)
LEMMA InitInv == Init => IInv
<1> SUFFICES ASSUME Init PROVE IInv
  OBVIOUS
<1>1. Constantly(Number(0)) \in Values /\ Constantly(0) \in Bytes
  BY NumberType, SizeAssumption DEF Constantly, Values, Bytes, Byte
<1>2. TypeOK
  BY <1>1 DEF Init, TypeOK
<1>3. Where \subseteq Inputs
  BY DEF Init, Where
<1>4. \A t \in Temps : Tracks(expr[t], val[t], seed, Where)
  BY <1>3 DEF Init, Tracks, Ensure, Constantly
<1>5. \A x \in Addrs : Tracks(shadow[x], mem[x], seed, Where)
  BY <1>3 DEF Init, Tracks, Ensure, Constantly
<1> QED  BY <1>2, <1>4, <1>5 DEF Init, IInv, SeedOnPath, PathComplete

(* Moves and unary operations.                                             *)
LEMMA MoveStep ==
    ASSUME IInv, NEW r \in Temps, NEW a \in Temps,
           (\E w \in Consts : MovI(r, w)) \/ Mov(r, a)
           \/ (\E op \in Ops1 : Op1(op, r, a))
    PROVE  IInv'
<1>1. seed \in path /\ seed \in Inputs /\ exact \in BOOLEAN /\ Where \subseteq Inputs
  BY SeedWhere DEF IInv, SeedOnPath, TypeOK
<1>2. ASSUME NEW w \in Consts, MovI(r, w) PROVE IInv'
  <2>1. Constantly(w) \in Values
    BY SizeAssumption DEF Constantly, Values
  <2>2. Tracks(Null, Constantly(w), seed, Where)
    BY <1>1 DEF Tracks, Ensure, Constantly
  <2>3. Where' = Where
    BY <1>2 DEF MovI, Where
  <2> QED  BY <1>1, <1>2, <2>1, <2>2, <2>3, TempStep DEF MovI, Exprs, memory
<1>3. CASE Mov(r, a)
  <2>1. Where' = Where
    BY <1>3 DEF Mov, Where
  <2> QED  BY <1>1, <1>3, <2>1, TempStep, TempTracked DEF Mov, memory
<1>4. ASSUME NEW op \in Ops1, Op1(op, r, a) PROVE IInv'
  <2> DEFINE v == [i \in Inputs |-> Sem1(op, val[a][i])]
             e == UnaryHelper(op, expr[a])
  <2>1. Where' = Where
    BY <1>4 DEF Op1, Where
  <2>2. v \in Values /\ e \in Exprs /\ Tracks(e, v, seed, Where)
    BY <1>1, UnaryTracks, TempTracked
  <2>3. val' = Set(r, v) /\ expr' = [expr EXCEPT ![r] = e]
        /\ UNCHANGED <<seed, mem, shadow, same, path, exact>>
    BY <1>4 DEF Op1, memory
  <2> HIDE DEF v, e
  <2> QED  BY <1>1, <2>1, <2>2, <2>3, TempStep
<1> QED  BY <1>2, <1>3, <1>4

(* A helper that runs after its operation builds the same expression as    *)
(* one that runs before it, unless it needs the overwritten operand.       *)
LEMMA AliasHarmless ==
    ASSUME IInv, NEW r \in Temps, NEW a \in Temps, NEW b \in Temps,
           AliasSafe(r, a, b), NEW v, val' = Set(r, v),
           ~(expr[a] = Null /\ expr[b] = Null)
    PROVE  /\ Ensure(val'[a][seed], expr[a]) = Ensure(val[a][seed], expr[a])
           /\ Ensure(val'[b][seed], expr[b]) = Ensure(val[b][seed], expr[b])
<1>1. (r = a => expr[a] # Null) /\ (r = b => expr[b] # Null)
  BY DEF AliasSafe
<1>2. (r # a => val'[a] = val[a]) /\ (r # b => val'[b] = val[b])
  BY DEF IInv, TypeOK, Set
<1> QED  BY <1>1, <1>2 DEF Ensure

(* Binary operations, before or after their helper.                        *)
LEMMA BinaryStep ==
    ASSUME IInv, NEW r \in Temps, NEW a \in Temps, NEW b \in Temps,
           NEW op \in OpsBefore \cup OpsAfter \cup OpsComposite,
           \/ Op2Before(op, r, a, b)
           \/ AliasSafe(r, a, b) /\ Op2After(op, r, a, b)
    PROVE  IInv'
<1> DEFINE v == [i \in Inputs |-> Sem2(op, val[a][i], val[b][i])]
           e == BinaryHelper(op, val[a][seed], expr[a], val[b][seed], expr[b])
<1>1. seed \in path /\ seed \in Inputs /\ exact \in BOOLEAN /\ Where \subseteq Inputs
  BY SeedWhere DEF IInv, SeedOnPath, TypeOK
<1>2. v \in Values /\ e \in Exprs /\ Tracks(e, v, seed, Where)
  BY <1>1, BinaryTracks, TempTracked
<1>3. val' = Set(r, v) /\ UNCHANGED <<seed, mem, shadow, same, path, exact>>
  BY DEF Op2Before, Op2After, Compute2, memory
<1>4. expr' = [expr EXCEPT ![r] = e]
  <2>1. CASE Op2Before(op, r, a, b)
    BY <2>1 DEF Op2Before, CallHelper2
  <2>2. CASE AliasSafe(r, a, b) /\ Op2After(op, r, a, b)
    <3> DEFINE e2 == BinaryHelper(op, val'[a][seed], expr[a], val'[b][seed], expr[b])
    <3>1. expr' = [expr EXCEPT ![r] = e2]
      BY <2>2 DEF Op2After, CallHelper2
    <3>2. e2 = e
      <4>1. CASE expr[a] = Null /\ expr[b] = Null
        BY <4>1 DEF BinaryHelper
      <4>2. CASE ~(expr[a] = Null /\ expr[b] = Null)
        <5>1. /\ Ensure(val'[a][seed], expr[a]) = Ensure(val[a][seed], expr[a])
              /\ Ensure(val'[b][seed], expr[b]) = Ensure(val[b][seed], expr[b])
          BY <1>3, <2>2, <4>2, AliasHarmless
        <5> QED  BY <4>2, <5>1 DEF BinaryHelper
      <4> QED  BY <4>1, <4>2
    <3> QED  BY <3>1, <3>2
  <2> QED  BY <2>1, <2>2
<1>5. Where' = Where
  BY <1>3 DEF Where
<1> HIDE DEF v, e
<1> QED  BY <1>1, <1>2, <1>3, <1>4, <1>5, TempStep

(* What a comparison leaves of the path: the seed, and nothing but inputs  *)
(* on which it has the same outcome.                                       *)
LEMMA ComparisonPath ==
    ASSUME IInv, NEW c \in Conds, NEW a \in Temps, NEW b \in Temps, NEW taken,
           taken <=> seed \in TrueOn(c, a, b)
    PROVE  LET p == PathAfter(c, a, b, val, taken)
           IN  /\ p \subseteq path /\ seed \in p
               /\ exact => \A i \in p : i \in TrueOn(c, a, b)
                                           <=> seed \in TrueOn(c, a, b)
<1> DEFINE p == PathAfter(c, a, b, val, taken)
<1>1. seed \in path /\ seed \in Inputs /\ Where \subseteq Inputs /\ seed \in Where
      /\ path \subseteq Inputs
  BY SeedWhere DEF IInv, SeedOnPath, TypeOK
<1>2. CASE expr[a] = Null /\ expr[b] = Null
  <2>1. p = path
    BY <1>2 DEF PathAfter
  <2>2. \A i \in Where : val[a][i] = val[a][seed] /\ val[b][i] = val[b][seed]
    BY <1>1, <1>2, TempTracked DEF Tracks, Ensure, Constantly
  <2>3. \A i \in Where : i \in TrueOn(c, a, b) <=> seed \in TrueOn(c, a, b)
    BY <1>1, <2>2 DEF TrueOn
  <2> QED  BY <1>1, <2>1, <2>3 DEF Where
<1>3. CASE ~(expr[a] = Null /\ expr[b] = Null)
  <2>1. p = IF taken THEN path \cap Condition(c, a, b, val)
            ELSE path \ Condition(c, a, b, val)
    BY <1>3 DEF PathAfter, Push
  <2>2. \A i \in Where : i \in Condition(c, a, b, val)
                            <=> SemTest(c, val[a][i], val[b][i])
    BY <1>1, TempTracked, ConditionTracks DEF Condition
  <2>3. \A i \in Where : i \in Condition(c, a, b, val) <=> i \in TrueOn(c, a, b)
    BY <1>1, <2>2 DEF TrueOn
  <2> QED  BY <1>1, <2>1, <2>3 DEF Where
<1> QED  BY <1>2, <1>3

(* The branch itself.                                                      *)
LEMMA BrCondStep ==
    ASSUME IInv, NEW c \in Conds, NEW a \in Temps, NEW b \in Temps, BrCond(c, a, b)
    PROVE  IInv'
<1>1. UNCHANGED <<seed, val, expr, mem, shadow, exact>>
  BY DEF BrCond, memory
<1>2. path' \subseteq path /\ seed \in path'
      /\ (exact => \A i \in path' : i \in TrueOn(c, a, b) <=> seed \in TrueOn(c, a, b))
  BY ComparisonPath DEF BrCond
<1>3. same' = {i \in same : i \in TrueOn(c, a, b) <=> seed \in TrueOn(c, a, b)}
  BY DEF BrCond, SameWay
<1>4. TypeOK'
  BY <1>1, <1>2, <1>3 DEF IInv, TypeOK
<1>5. SeedOnPath' /\ PathComplete'
  BY <1>1, <1>2, <1>3 DEF IInv, SeedOnPath, PathComplete
<1>6. Where' \subseteq Where
  BY <1>1, <1>2 DEF Where
<1>7. \A t \in Temps : Tracks(expr[t], val[t], seed, Where')
  BY <1>6 DEF IInv, Tracks
<1>8. \A x \in Addrs : Tracks(shadow[x], mem[x], seed, Where')
  BY <1>6 DEF IInv, Tracks
<1> QED  BY <1>1, <1>4, <1>5, <1>7, <1>8 DEF IInv

(* setcond.                                                                *)
LEMMA SetCondStep ==
    ASSUME IInv, NEW c \in Conds, NEW r \in Temps, NEW a \in Temps, NEW b \in Temps,
           AliasSafe(r, a, b), SetCond(c, r, a, b)
    PROVE  IInv'
<1> DEFINE truth == TrueOn(c, a, b)
           v == Flag(truth)
           e == FlagHelper(c, a, b, val)
<1>1. seed \in path /\ seed \in Inputs /\ exact \in BOOLEAN /\ Where \subseteq Inputs
      /\ seed \in Where
  BY SeedWhere DEF IInv, SeedOnPath, TypeOK
<1>2. val' = Set(r, v) /\ UNCHANGED <<seed, mem, shadow, same, exact>>
  BY DEF SetCond, memory
<1>3. ~(expr[a] = Null /\ expr[b] = Null) =>
          Condition(c, a, b, val') = Condition(c, a, b, val)
  BY <1>2, AliasHarmless DEF Condition, ConditionHelper
<1>4. expr' = [expr EXCEPT ![r] = e]
  BY <1>3 DEF SetCond, FlagHelper
<1>5. val'[r][seed] # Number(0) <=> seed \in truth
  <2>1. val'[r] = v
    BY <1>2 DEF IInv, TypeOK, Set
  <2> QED  BY <1>1, <2>1, FlagsDiffer DEF Flag
<1>6. path' = PathAfter(c, a, b, val, seed \in truth)
  BY <1>3, <1>5 DEF SetCond, PathAfter, Push
<1>7. path' \subseteq path /\ seed \in path'
  BY <1>6, ComparisonPath
<1>8. v \in Values
  BY NumberType DEF Flag, Values
<1>9. e \in Exprs /\ Tracks(e, v, seed, Where)
  <2>1. CASE expr[a] = Null /\ expr[b] = Null
    <3>1. e = Null
      BY <2>1 DEF FlagHelper
    <3>2. \A i \in Where : val[a][i] = val[a][seed] /\ val[b][i] = val[b][seed]
      BY <1>1, <2>1, TempTracked DEF Tracks, Ensure, Constantly
    <3>3. \A i \in Where : v[i] = v[seed]
      BY <1>1, <3>2 DEF Flag, TrueOn
    <3> QED  BY <1>1, <3>1, <3>3 DEF Exprs, Tracks, Ensure, Constantly
  <2>2. CASE ~(expr[a] = Null /\ expr[b] = Null)
    <3>1. e = Flag(Condition(c, a, b, val))
      BY <2>2 DEF FlagHelper
    <3>2. e \in Values
      BY <3>1, NumberType DEF Flag, Values
    <3>3. \A i \in Where : i \in Condition(c, a, b, val)
                            <=> SemTest(c, val[a][i], val[b][i])
      BY <1>1, TempTracked, ConditionTracks DEF Condition
    <3>4. \A i \in Where : v[i] = e[i]
      BY <1>1, <3>1, <3>3 DEF Flag, TrueOn
    <3> HIDE DEF e, v
    <3> QED  BY <3>2, <3>4, SizeAssumption DEF Exprs, Tracks, Ensure
  <2> QED  BY <2>1, <2>2
<1>10. Where' \subseteq Where
  BY <1>2, <1>7 DEF Where
<1>11. Tracks(e, v, seed, Where')
  BY <1>9, <1>10 DEF Tracks
<1> HIDE DEF e, v, truth
<1> QED  BY <1>1, <1>2, <1>4, <1>7, <1>8, <1>9, <1>11, TempStep

(* An unhandled helper: the result is concretized, and nothing is claimed  *)
(* beyond the seed once a symbolic argument was lost this way.             *)
LEMMA CallStep ==
    ASSUME IInv, NEW f \in Calls, NEW r \in Temps, NEW a \in Temps, Call(f, r, a)
    PROVE  IInv'
<1> DEFINE v == [i \in Inputs |-> SemCall(f, val[a][i])]
<1>1. seed \in path /\ seed \in Inputs /\ exact \in BOOLEAN /\ Where \subseteq Inputs
      /\ seed \in Where
  BY SeedWhere DEF IInv, SeedOnPath, TypeOK
<1>2. val' = Set(r, v) /\ expr' = [expr EXCEPT ![r] = Null]
      /\ UNCHANGED <<seed, mem, shadow, same, path>>
  BY DEF Call, memory
<1>3. exact' \in BOOLEAN /\ (exact' => exact /\ expr[a] = Null)
  BY DEF Call
<1>4. v \in Values
  BY TempTracked, SemAssumption DEF Values
<1>5. Where' \subseteq Where /\ seed \in Where'
  BY <1>1, <1>2, <1>3 DEF Where
<1>6. \A i \in Where' : v[i] = v[seed]
  <2>1. CASE exact'
    <3>1. \A i \in Where : val[a][i] = val[a][seed]
      BY <1>1, <1>3, <2>1, TempTracked DEF Tracks, Ensure, Constantly
    <3> QED  BY <1>1, <1>5, <3>1
  <2>2. CASE ~exact'
    BY <1>2, <2>2 DEF Where
  <2> QED  BY <2>1, <2>2
<1> HIDE DEF v
<1>7. Tracks(Null, v, seed, Where')
  BY <1>1, <1>5, <1>6 DEF Tracks, Ensure, Constantly
<1> QED  BY <1>1, <1>2, <1>3, <1>4, <1>7, TempStep DEF Exprs

(* Guest loads: on the pinned path every input loads from the address the  *)
(* shadow was read at.                                                     *)
LEMMA LdStep ==
    ASSUME IInv, NEW r \in Temps, NEW a \in Temps, NEW len \in Lengths, Ld(r, a, len)
    PROVE  IInv'
<1> DEFINE addr == val[a][seed]
           v == LoadWord(a, len)
           e == ReadShadow(addr, len)
<1>1. seed \in path /\ seed \in Inputs /\ exact \in BOOLEAN /\ Where \subseteq Inputs
      /\ seed \in Where /\ addr \in Word
  BY SeedWhere, TempTracked DEF IInv, SeedOnPath, TypeOK
<1>2. val' = Set(r, v) /\ expr' = [expr EXCEPT ![r] = e]
      /\ UNCHANGED <<seed, mem, shadow, same, exact>>
      /\ path' = PinAddress(addr, expr[a])
  BY DEF Ld, memory
<1>3. path' \subseteq path /\ seed \in path'
      /\ (exact => \A i \in path' : val[a][i] = val[a][seed])
  BY <1>2, PinTracks
<1>4. Where' \subseteq Where /\ \A i \in Where' : val[a][i] = addr
  BY <1>1, <1>2, <1>3 DEF Where
<1>5. v \in Values
  <2>1. \A i \in Inputs : val[a][i] \in Word
    BY TempTracked DEF Values
  <2>2. \A k \in 0..(W - 1), i \in Inputs :
            k < len => mem[Cell(val[a][i], k)][i] \in Byte
    <3> SUFFICES ASSUME NEW k \in 0..(W - 1), NEW i \in Inputs, k < len
                 PROVE  mem[Cell(val[a][i], k)][i] \in Byte
      OBVIOUS
    <3>1. Cell(val[a][i], k) \in Addrs
      BY <2>1, SemAssumption
    <3> QED  BY <3>1 DEF IInv, TypeOK, Bytes
  <2>3. 0 \in Byte
    BY SizeAssumption DEF Byte
  <2> QED  BY <2>2, <2>3 DEF LoadWord, Values, Word
<1>6. \A i \in Where' : v[i] = HostWord(addr, len)[i]
  BY <1>1, <1>4 DEF LoadWord, HostWord
<1>7. v[seed] = HostWord(addr, len)[seed]
  BY <1>1 DEF LoadWord, HostWord
<1>8. e \in Exprs /\ Tracks(e, HostWord(addr, len), seed, Where)
  BY <1>1, ReadTracks
<1> HIDE DEF e, v, addr
<1>9. Tracks(e, v, seed, Where')
  BY <1>4, <1>6, <1>7, <1>8 DEF Tracks
<1> QED  BY <1>1, <1>2, <1>3, <1>5, <1>8, <1>9, TempStep

(* Guest stores.                                                           *)
LEMMA StStep ==
    ASSUME IInv, NEW v \in Temps, NEW a \in Temps, NEW len \in Lengths, St(v, a, len)
    PROVE  IInv'
<1>1. path' = PinAddress(val[a][seed], expr[a])
      /\ mem' = StoreWord(val[a], val[v], len)
      /\ shadow' = WriteShadow(val[a][seed], len, expr[v])
      /\ UNCHANGED <<seed, val, expr, same, exact>>
  BY DEF St
<1>2. path' \subseteq path /\ seed \in path'
      /\ (exact => \A i \in path' : val[a][i] = val[a][seed])
  BY <1>1, PinTracks
<1>3. Where' \in SUBSET Where /\ seed \in Where'
      /\ \A i \in Where' : val[a][i] = val[a][seed]
  BY <1>1, <1>2 DEF Where
<1>4. /\ mem' \in [Addrs -> Bytes] /\ shadow' \in [Addrs -> Bytes \cup {Null}]
      /\ \A x \in Addrs : Tracks(shadow'[x], mem'[x], seed, Where')
  BY <1>1, <1>3, TempTracked, WriteTracks
<1> QED  BY <1>1, <1>2, <1>4, MemStep

(* Host loads and stores, at a fixed address, and the symbolic input.      *)
LEMMA HostStep ==
    ASSUME IInv, NEW r \in Temps, NEW addr \in Consts, NEW len \in Lengths,
           LdHost(r, addr, len) \/ StHost(r, addr, len)
    PROVE  IInv'
<1>1. seed \in path /\ seed \in Inputs /\ exact \in BOOLEAN /\ addr \in Word
      /\ seed \in Where /\ Where \subseteq Inputs
  BY SeedWhere, SizeAssumption DEF IInv, SeedOnPath, TypeOK
<1>2. Where' = Where
  BY DEF LdHost, StHost, Where
<1>3. CASE LdHost(r, addr, len)
  BY <1>1, <1>2, <1>3, ReadTracks, TempStep DEF LdHost, memory
<1>4. CASE StHost(r, addr, len)
  <2> DEFINE addrs == Constantly(addr)
  <2>1. addrs \in Values /\ addrs[seed] = addr
        /\ \A i \in Where : addrs[i] = addrs[seed]
    BY <1>1 DEF Constantly, Values
  <2>2. mem' = StoreWord(addrs, val[r], len)
        /\ shadow' = WriteShadow(addrs[seed], len, expr[r])
        /\ UNCHANGED <<seed, val, expr, path, same, exact>>
    BY <1>4, <2>1 DEF StHost
  <2> HIDE DEF addrs
  <2>3. /\ mem' \in [Addrs -> Bytes] /\ shadow' \in [Addrs -> Bytes \cup {Null}]
        /\ \A x \in Addrs : Tracks(shadow'[x], mem'[x], seed, Where)
    BY <1>1, <2>1, <2>2, TempTracked, WriteTracks
  <2> QED  BY <1>1, <1>2, <2>2, <2>3, MemStep
<1> QED  BY <1>3, <1>4

(* The read system call on the symbolic file.                              *)
LEMMA ReadInputStep ==
    ASSUME IInv, NEW x \in Addrs, NEW f \in Files, ReadInput(x, f)
    PROVE  IInv'
<1>1. f \in Bytes /\ f # Null /\ seed \in path
  BY SizeAssumption DEF IInv, SeedOnPath
<1>2. mem' \in [Addrs -> Bytes] /\ shadow' \in [Addrs -> Bytes \cup {Null}]
  BY <1>1 DEF ReadInput, IInv, TypeOK
<1>3. Where' = Where
  BY DEF ReadInput, Where
<1>4. \A y \in Addrs : Tracks(shadow'[y], mem'[y], seed, Where)
  <2> SUFFICES ASSUME NEW y \in Addrs PROVE Tracks(shadow'[y], mem'[y], seed, Where)
    OBVIOUS
  <2>1. CASE y = x
    BY <1>1, <2>1 DEF ReadInput, IInv, TypeOK, Tracks, Ensure
  <2>2. CASE y # x
    BY <2>2 DEF ReadInput, IInv, TypeOK
  <2> QED  BY <2>1, <2>2
<1> QED  BY <1>1, <1>2, <1>3, <1>4, MemStep DEF ReadInput

(* The invariant is inductive.                                             *)
LEMMA NextInv == IInv /\ [Next]_vars => IInv'
<1> SUFFICES ASSUME IInv, [Next]_vars PROVE IInv'
  OBVIOUS
<1>1. CASE UNCHANGED vars
  BY <1>1 DEF vars, IInv, TypeOK, SeedOnPath, PathComplete, Where
<1>2. CASE \E r, a \in Temps : \/ \E w \in Consts : MovI(r, w)
                               \/ Mov(r, a)
                               \/ \E op \in Ops1 : Op1(op, r, a)
  BY <1>2, MoveStep
<1>3. CASE \E r, a, b \in Temps, op \in OpsBefore : Op2Before(op, r, a, b)
  BY <1>3, BinaryStep
<1>4. CASE \E r, a, b \in Temps, op \in OpsAfter :
              AliasSafe(r, a, b) /\ Op2After(op, r, a, b)
  BY <1>4, BinaryStep
<1>5. CASE \E r, a, b \in Temps, op \in OpsComposite :
              r \notin {a, b} /\ Op2After(op, r, a, b)
  BY <1>5, BinaryStep DEF AliasSafe
<1>6. CASE \E r, a, b \in Temps, c \in Conds : AliasSafe(r, a, b) /\ SetCond(c, r, a, b)
  BY <1>6, SetCondStep
<1>7. CASE \E a, b \in Temps, c \in Conds : BrCond(c, a, b)
  BY <1>7, BrCondStep
<1>8. CASE \E r, a \in Temps, f \in Calls : Call(f, r, a)
  BY <1>8, CallStep
<1>9. CASE \E r, a \in Temps, len \in Lengths : Ld(r, a, len) \/ St(r, a, len)
  BY <1>9, LdStep, StStep
<1>10. CASE \E r \in Temps, addr \in Consts, len \in Lengths :
               LdHost(r, addr, len) \/ StHost(r, addr, len)
  BY <1>10, HostStep
<1>11. CASE \E x \in Addrs, f \in Files : ReadInput(x, f)
  BY <1>11, ReadInputStep
<1> QED
  BY <1>1, <1>2, <1>3, <1>4, <1>5, <1>6, <1>7, <1>8, <1>9, <1>10, <1>11 DEF Next

(* Every reachable state satisfies the inductive invariant.                *)
THEOREM Invariant == Spec => []IInv
<1> QED  BY InitInv, NextInv, PTL DEF Spec

(* Expressions are as wide as the values they stand for.                   *)
THEOREM TypeCorrect == Spec => []TypeOK
<1>1. IInv => TypeOK  BY DEF IInv
<1> QED  BY Invariant, <1>1, PTL

(* Every expression evaluates to the concrete value on the seed.           *)
THEOREM Soundness == Spec => []ShadowSound
<1>1. IInv => ShadowSound
  <2> SUFFICES ASSUME IInv PROVE ShadowSound
    OBVIOUS
  <2>1. seed \in Where
    BY SeedWhere
  <2> QED  BY <2>1 DEF IInv, ShadowSound, Tracks, Ensure
<1> QED  BY Invariant, <1>1, PTL

(* The run satisfies its own path constraints.                             *)
THEOREM Satisfiable == Spec => []SeedOnPath
<1>1. IInv => SeedOnPath  BY DEF IInv
<1> QED  BY Invariant, <1>1, PTL

(* Without concretization the expressions predict the program on every     *)
(* input on the path.                                                      *)
THEOREM Prediction == Spec => []Replay
<1>1. IInv => Replay
  <2> SUFFICES ASSUME IInv, exact
               PROVE  /\ \A t \in Temps : Predicts(expr[t], val[t])
                      /\ \A x \in Addrs : Predicts(shadow[x], mem[x])
    BY DEF Replay
  <2>1. Where = path /\ path \subseteq Inputs
    BY DEF Where, IInv, TypeOK
  <2>2. ASSUME NEW e, NEW v, Tracks(e, v, seed, path) PROVE Predicts(e, v)
    BY <2>1, <2>2 DEF Tracks, Predicts, Ensure, Constantly
  <2> QED  BY <2>1, <2>2 DEF IInv
<1> QED  BY Invariant, <1>1, PTL

(* Without concretization an input that satisfies the path constraints     *)
(* takes the branches of the run.                                          *)
THEOREM PathExplains == Spec => []PathComplete
<1>1. IInv => PathComplete  BY DEF IInv
<1> QED  BY Invariant, <1>1, PTL
=============================================================================
