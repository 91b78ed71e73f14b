------------------------------- MODULE SymShadow -------------------------------
(***************************************************************************)
(* The symbolic shadow of SymQEMU: beside every TCG temporary there is a   *)
(* second temporary holding the symbolic expression of its value, and      *)
(* beside every byte of memory a shadow byte; NULL means "concrete".  Each *)
(* TCG operation is emitted together with a call of a sym_* helper that    *)
(* computes the expression of the result, and comparisons push a path      *)
(* constraint to the solver.                                               *)
(*                                                                         *)
(* An expression is modelled by what it evaluates to on every input the    *)
(* program might be given: a function from Inputs.  The same is done for   *)
(* the values themselves: val[t][i] is what temporary t would hold had the *)
(* program, along the same instructions, been given input i.  The run that *)
(* really happens is the one on seed, so a helper, which sees concrete     *)
(* values, sees val[t][seed] only.  This makes the two questions of a      *)
(* concolic executor state predicates: does an expression agree with the   *)
(* concrete value on the seed, and does it predict what the program would  *)
(* do on every other input that satisfies the path constraints.            *)
(*                                                                         *)
(* What an operation, a helper or a comparison computes is a parameter.    *)
(***************************************************************************)
EXTENDS Integers

CONSTANTS
    Inputs,      \* the inputs the program might be given
    Temps,       \* TCG temporaries, each with its expression temporary
    Addrs,       \* guest and host memory cells
    W, Base,     \* bytes per word, values per byte
    Lengths,     \* lengths of loads and stores
    Null,        \* the NULL expression
    Consts,      \* immediate operands
    Ops1,        \* unary operations
    OpsBefore,   \* binary operations whose helper is called before them
    OpsAfter,    \* binary operations whose helper is called after them
    OpsComposite,\* the same, for operations the host lacks
    Conds,       \* comparisons
    Calls,       \* QEMU helpers without symbolic counterpart
    Files,       \* bytes of the symbolic input file, as functions of the input
    Sem1(_, _), Sem2(_, _, _), SemTest(_, _, _), SemCall(_, _), \* the host code
    Helper1(_, _), Helper2(_, _, _), HelperTest(_, _, _),       \* the helpers
    Cell(_, _)   \* the memory cell of byte k at an address

Byte == 0..(Base - 1)
Word == [0..(W - 1) -> Byte]
Values == [Inputs -> Word]
Bytes == [Inputs -> Byte]

Number(n) == [k \in 0..(W - 1) |-> IF k = 0 THEN n ELSE 0]

ASSUME SizeAssumption ==
    /\ W \in Nat \ {0} /\ Base \in Nat /\ Base >= 2
    /\ Lengths \subseteq 1..W
    /\ Consts \subseteq Word /\ Files \subseteq Bytes
    /\ Null \notin Values /\ Null \notin Bytes

ASSUME SemAssumption ==
    /\ \A op \in Ops1, x \in Word : Sem1(op, x) \in Word
    /\ \A op \in OpsBefore \cup OpsAfter \cup OpsComposite, x, y \in Word :
          Sem2(op, x, y) \in Word
    /\ \A f \in Calls, x \in Word : SemCall(f, x) \in Word
    /\ \A x \in Word, k \in 0..(W - 1) : Cell(x, k) \in Addrs

(* The helpers build an expression for what the operation computes.        *)
ASSUME HelperAssumption ==
    /\ \A op \in Ops1, x \in Word : Helper1(op, x) = Sem1(op, x)
    /\ \A op \in OpsBefore \cup OpsAfter \cup OpsComposite, x, y \in Word :
          Helper2(op, x, y) = Sem2(op, x, y)
    /\ \A c \in Conds, x, y \in Word : HelperTest(c, x, y) <=> SemTest(c, x, y)

VARIABLES
    seed,    \* the input of the run
    val,     \* value of every temporary, on every input
    expr,    \* expression of every temporary
    mem,     \* memory, on every input
    shadow,  \* shadow memory of the backend
    path,    \* inputs that satisfy every path constraint pushed so far
    same,    \* inputs on which the program has taken the same branches
    exact    \* no symbolic value has been concretized so far

vars == <<seed, val, expr, mem, shadow, path, same, exact>>
memory == <<mem, shadow>>

Constantly(v) == [i \in Inputs |-> v]

Init ==
    /\ seed \in Inputs
    /\ val = [t \in Temps |-> Constantly(Number(0))]
    /\ expr = [t \in Temps |-> Null]
    /\ mem = [x \in Addrs |-> Constantly(0)]
    /\ shadow = [x \in Addrs |-> Null]
    /\ path = Inputs
    /\ same = Inputs
    /\ exact = TRUE

-------------------------------------------------------------------------------
(* The helpers.                                                            *)

(* A missing expression is replaced by the constant the helper was given.  *)
Ensure(arg, e) == IF e = Null THEN Constantly(arg) ELSE e

UnaryHelper(op, e) ==
    IF e = Null THEN Null ELSE [i \in Inputs |-> Helper1(op, e[i])]

BinaryHelper(op, arg1, e1, arg2, e2) ==
    IF e1 = Null /\ e2 = Null THEN Null
    ELSE [i \in Inputs |-> Helper2(op, Ensure(arg1, e1)[i], Ensure(arg2, e2)[i])]

(* The condition symbol of build_and_push_path_constraint, as the set of   *)
(* inputs on which it is true.                                             *)
ConditionHelper(c, arg1, e1, arg2, e2) ==
    {i \in Inputs : HelperTest(c, Ensure(arg1, e1)[i], Ensure(arg2, e2)[i])}

(* _sym_push_path_constraint: the inputs that remain on the path.          *)
Push(condition, taken) ==
    IF taken THEN path \cap condition ELSE path \ condition

(* A memory access through a symbolic address pins the address.            *)
PinAddress(addr, e) ==
    IF e = Null THEN path ELSE Push({i \in Inputs : e[i] = addr}, TRUE)

(* _sym_read_memory, extended with zeros to a word: NULL when no byte is   *)
(* symbolic, otherwise the concrete bytes become constants.                *)
ReadShadow(addr, len) ==
    LET at == [k \in 0..(len - 1) |-> Cell(addr, k)]
    IN  IF \A k \in 0..(len - 1) : shadow[at[k]] = Null THEN Null
        ELSE [i \in Inputs |->
                [k \in 0..(W - 1) |->
                    IF k < len THEN Ensure(mem[at[k]][seed], shadow[at[k]])[i]
                    ELSE 0]]

(* The byte of a word that a store to address addr puts into cell x.       *)
Touches(addr, len, x) == \E k \in 0..(len - 1) : Cell(addr, k) = x
ByteFor(addr, len, x) == CHOOSE k \in 0..(len - 1) : Cell(addr, k) = x

(* _sym_write_memory: the bytes of the expression, or concrete ones.       *)
WriteShadow(addr, len, e) ==
    [x \in Addrs |->
        IF ~Touches(addr, len, x) THEN shadow[x]
        ELSE IF e = Null THEN Null
        ELSE [i \in Inputs |-> e[i][ByteFor(addr, len, x)]]]

-------------------------------------------------------------------------------
(* What the host code does to a temporary and to memory, on every input.   *)
Set(r, v) == [val EXCEPT ![r] = v]

TrueOn(c, a, b) == {i \in Inputs : SemTest(c, val[a][i], val[b][i])}

Flag(S) == [i \in Inputs |-> Number(IF i \in S THEN 1 ELSE 0)]

LoadWord(a, len) ==
    [i \in Inputs |->
        [k \in 0..(W - 1) |-> IF k < len THEN mem[Cell(val[a][i], k)][i] ELSE 0]]

HostWord(addr, len) ==
    [i \in Inputs |->
        [k \in 0..(W - 1) |-> IF k < len THEN mem[Cell(addr, k)][i] ELSE 0]]

StoreWord(addr, v, len) ==
    [x \in Addrs |->
        [i \in Inputs |->
            IF Touches(addr[i], len, x) THEN v[i][ByteFor(addr[i], len, x)]
            ELSE mem[x][i]]]

-------------------------------------------------------------------------------
(* The operations.                                                         *)
MovI(r, w) ==
    /\ val' = Set(r, Constantly(w))
    /\ expr' = [expr EXCEPT ![r] = Null]
    /\ UNCHANGED <<seed, memory, path, same, exact>>

Mov(r, a) ==
    /\ r # a
    /\ val' = Set(r, val[a])
    /\ expr' = [expr EXCEPT ![r] = expr[a]]
    /\ UNCHANGED <<seed, memory, path, same, exact>>

Op1(op, r, a) ==
    /\ expr' = [expr EXCEPT ![r] = UnaryHelper(op, expr[a])]
    /\ val' = Set(r, [i \in Inputs |-> Sem1(op, val[a][i])])
    /\ UNCHANGED <<seed, memory, path, same, exact>>

Compute2(op, r, a, b) == Set(r, [i \in Inputs |-> Sem2(op, val[a][i], val[b][i])])

(* The helper's call as emitted by SYM_HELPER_BINARY_*: it reads the       *)
(* temporaries that hold the arguments when it runs.                       *)
CallHelper2(op, r, a, b, now) ==
    expr' = [expr EXCEPT ![r] = BinaryHelper(op, now[a][seed], expr[a],
                                                 now[b][seed], expr[b])]

(* Mutated form: the helper is called after the operation.                 *)
Op2BeforeLate(op, r, a, b) ==
    /\ val' = Compute2(op, r, a, b)
    /\ CallHelper2(op, r, a, b, val')
    /\ UNCHANGED <<seed, memory, path, same, exact>>

Op2Before(op, r, a, b) ==
    /\ CallHelper2(op, r, a, b, val)
    /\ val' = Compute2(op, r, a, b)
    /\ UNCHANGED <<seed, memory, path, same, exact>>

Op2After(op, r, a, b) ==
    /\ val' = Compute2(op, r, a, b)
    /\ CallHelper2(op, r, a, b, val')
    /\ UNCHANGED <<seed, memory, path, same, exact>>

(* The symbolic side of a comparison of a and b whose operands the helper  *)
(* finds in now and whose outcome it is told.                              *)
Condition(c, a, b, now) ==
    ConditionHelper(c, now[a][seed], expr[a], now[b][seed], expr[b])

PathAfter(c, a, b, now, taken) ==
    IF expr[a] = Null /\ expr[b] = Null THEN path
    ELSE Push(Condition(c, a, b, now), taken)

FlagHelper(c, a, b, now) ==
    IF expr[a] = Null /\ expr[b] = Null THEN Null
    ELSE Flag(Condition(c, a, b, now))

(* Mutated form: the outcome is read before the comparison has been done.  *)
SetCondEarly(c, r, a, b) ==
    /\ val' = Set(r, Flag(TrueOn(c, a, b)))
    /\ expr' = [expr EXCEPT ![r] = FlagHelper(c, a, b, val')]
    /\ path' = PathAfter(c, a, b, val', val[r][seed] # Number(0))
    /\ UNCHANGED <<seed, memory, same, exact>>

(* setcond: the comparison, then the helper, which is told the outcome,    *)
(* pushes the path constraint and builds the expression of the result.     *)
SetCond(c, r, a, b) ==
    /\ val' = Set(r, Flag(TrueOn(c, a, b)))
    /\ expr' = [expr EXCEPT ![r] = FlagHelper(c, a, b, val')]
    /\ path' = PathAfter(c, a, b, val', val'[r][seed] # Number(0))
    /\ UNCHANGED <<seed, memory, same, exact>>

(* The inputs on which a branch goes the way it goes on the seed.          *)
SameWay(S) == {i \in same : i \in S <=> seed \in S}

(* Mutated form: brcond without the setcond for its symbolic effects.      *)
BrCondSilent(c, a, b) ==
    /\ same' = SameWay(TrueOn(c, a, b))
    /\ UNCHANGED <<seed, val, expr, memory, path, exact>>

(* brcond: a setcond into a temporary nobody reads, then the branch.       *)
BrCond(c, a, b) ==
    /\ path' = PathAfter(c, a, b, val, seed \in TrueOn(c, a, b))
    /\ same' = SameWay(TrueOn(c, a, b))
    /\ UNCHANGED <<seed, val, expr, memory, exact>>

(* A helper of QEMU without symbolic counterpart: tcg_gen_callN sets the   *)
(* expression of its result to NULL.                                       *)
Call(f, r, a) ==
    /\ expr' = [expr EXCEPT ![r] = Null]
    /\ val' = Set(r, [i \in Inputs |-> SemCall(f, val[a][i])])
    /\ exact' = (exact /\ expr[a] = Null)
    /\ UNCHANGED <<seed, memory, path, same>>

(* Mutated form: the expression of a short load is not extended.           *)
LdShort(r, a, len) ==
    LET addr == val[a][seed]
        e == ReadShadow(addr, len)
    IN  /\ val' = Set(r, LoadWord(a, len))
        /\ path' = PinAddress(addr, expr[a])
        /\ expr' = [expr EXCEPT ![r] =
                      IF e = Null THEN Null
                      ELSE [i \in Inputs |-> [k \in 0..(len - 1) |-> e[i][k]]]]
        /\ UNCHANGED <<seed, memory, same, exact>>

(* Mutated form: the address is not pinned.                                *)
LdUnpinned(r, a, len) ==
    /\ val' = Set(r, LoadWord(a, len))
    /\ expr' = [expr EXCEPT ![r] = ReadShadow(val[a][seed], len)]
    /\ UNCHANGED <<seed, memory, path, same, exact>>

(* Guest load: the address was saved before it could be overwritten.       *)
Ld(r, a, len) ==
    LET addr == val[a][seed]
    IN  /\ val' = Set(r, LoadWord(a, len))
        /\ path' = PinAddress(addr, expr[a])
        /\ expr' = [expr EXCEPT ![r] = ReadShadow(addr, len)]
        /\ UNCHANGED <<seed, memory, same, exact>>

(* Guest store.                                                            *)
St(v, a, len) ==
    LET addr == val[a][seed]
    IN  /\ mem' = StoreWord(val[a], val[v], len)
        /\ path' = PinAddress(addr, expr[a])
        /\ shadow' = WriteShadow(addr, len, expr[v])
        /\ UNCHANGED <<seed, val, expr, same, exact>>

(* Loads and stores of host memory (CPUArchState): the address is fixed.   *)
LdHost(r, addr, len) ==
    /\ expr' = [expr EXCEPT ![r] = ReadShadow(addr, len)]
    /\ val' = Set(r, HostWord(addr, len))
    /\ UNCHANGED <<seed, memory, path, same, exact>>

StHost(v, addr, len) ==
    /\ shadow' = WriteShadow(addr, len, expr[v])
    /\ mem' = StoreWord(Constantly(addr), val[v], len)
    /\ UNCHANGED <<seed, val, expr, path, same, exact>>

(* The read system call on the symbolic file: the bytes that arrive in the *)
(* guest's buffer are variables of the solver.                             *)
ReadInput(x, f) ==
    /\ mem' = [mem EXCEPT ![x] = f]
    /\ shadow' = [shadow EXCEPT ![x] = f]
    /\ UNCHANGED <<seed, val, expr, path, same, exact>>

-------------------------------------------------------------------------------
(* The helper that runs after its operation reads an operand that the      *)
(* operation has overwritten.  That is harmless when the operand's         *)
(* expression, which is not overwritten yet, is used in its place.         *)
AliasSafe(r, a, b) ==
    \/ expr[a] = Null /\ expr[b] = Null
    \/ (r = a => expr[a] # Null) /\ (r = b => expr[b] # Null)

Next ==
    \/ \E r \in Temps, w \in Consts : MovI(r, w)
    \/ \E r, a \in Temps : Mov(r, a)
    \/ \E r, a \in Temps, op \in Ops1 : Op1(op, r, a)
    \/ \E r, a, b \in Temps, op \in OpsBefore : Op2Before(op, r, a, b)
    \/ \E r, a, b \in Temps, op \in OpsAfter :
          AliasSafe(r, a, b) /\ Op2After(op, r, a, b)
    \/ \E r, a, b \in Temps, op \in OpsComposite :
          r \notin {a, b} /\ Op2After(op, r, a, b)
    \/ \E r, a, b \in Temps, c \in Conds : AliasSafe(r, a, b) /\ SetCond(c, r, a, b)
    \/ \E a, b \in Temps, c \in Conds : BrCond(c, a, b)
    \/ \E r, a \in Temps, f \in Calls : Call(f, r, a)
    \/ \E r, a \in Temps, len \in Lengths : Ld(r, a, len)
    \/ \E v, a \in Temps, len \in Lengths : St(v, a, len)
    \/ \E r \in Temps, addr \in Consts, len \in Lengths : LdHost(r, addr, len)
    \/ \E v \in Temps, addr \in Consts, len \in Lengths : StHost(v, addr, len)
    \/ \E x \in Addrs, f \in Files : ReadInput(x, f)

Spec == Init /\ [][Next]_vars

-------------------------------------------------------------------------------
(* Type invariant: an expression is as wide as the value it stands for.    *)
TypeOK ==
    /\ seed \in Inputs
    /\ val \in [Temps -> Values]
    /\ expr \in [Temps -> Values \cup {Null}]
    /\ mem \in [Addrs -> Bytes]
    /\ shadow \in [Addrs -> Bytes \cup {Null}]
    /\ path \in SUBSET Inputs /\ same \in SUBSET Inputs
    /\ exact \in BOOLEAN

(* On the input of the run every expression evaluates to the concrete      *)
(* value beside it, in temporaries and in memory: no expression is stale,  *)
(* built from an overwritten operand or from another byte, whatever        *)
(* sequence of operations led to it.                                       *)
ShadowSound ==
    /\ \A t \in Temps : expr[t] # Null => expr[t][seed] = val[t][seed]
    /\ \A x \in Addrs : shadow[x] # Null => shadow[x][seed] = mem[x][seed]

(* The input of the run satisfies every path constraint pushed for it, so  *)
(* the solver never works on a contradictory path.                         *)
SeedOnPath == seed \in path

(* As long as nothing symbolic was concretized, the expressions predict    *)
(* the program on every input that satisfies the path constraints; what    *)
(* has no expression does not depend on the input.                         *)
Predicts(e, v) ==
    \A i \in path : v[i] = IF e = Null THEN v[seed] ELSE e[i]

Replay ==
    exact => /\ \A t \in Temps : Predicts(expr[t], val[t])
             /\ \A x \in Addrs : Predicts(shadow[x], mem[x])

(* An input the solver offers for the current path takes the same branches *)
(* as the run did: a negated constraint leads to the branch it was pushed  *)
(* for.                                                                    *)
PathComplete == exact => path \subseteq same
-------------------------------------------------------------------------------
(* The inductive invariant.  An expression tracks a value on a set of      *)
(* inputs if it evaluates to it there; every expression does so on the     *)
(* seed, and on the whole path unless something was concretized.           *)
Tracks(e, v, s, S) == \A i \in S : v[i] = Ensure(v[s], e)[i]

Where == IF exact THEN path ELSE {seed}

IInv ==
    /\ TypeOK /\ SeedOnPath /\ PathComplete
    /\ \A t \in Temps : Tracks(expr[t], val[t], seed, Where)
    /\ \A x \in Addrs : Tracks(shadow[x], mem[x], seed, Where)
===============================================================================
