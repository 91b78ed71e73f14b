-------------------------------- MODULE SymBits --------------------------------
(***************************************************************************)
(* Bit fields: rotations, extensions, byte swaps, extract and deposit.     *)
(* tcg-op.c expands each of them, depending on what the host offers and on *)
(* the position of the field, into one or several TCG operations; each     *)
(* operation is emitted with a call of its sym_* helper, which rebuilds    *)
(* the operation from the shifts and masks of the solver.  The question is *)
(* whether value and expression are both the field the front end asked     *)
(* for, for every host, field and choice of (possibly equal) temporaries.  *)
(*                                                                         *)
(* A word is the set of its one bits.  A machine m holds the value m.v[t]  *)
(* and the expression m.e[t] of every temporary; expressions are total     *)
(* here (a concrete operand is the constant that BINARY_HELPER_ENSURE_     *)
(* EXPRESSIONS puts in its place).  The i32 and i64 functions are one      *)
(* function of the width n; B stands for the eight bits of a byte.         *)
(***************************************************************************)
EXTENDS Integers

CONSTANTS B,          \* bits per byte
          Temps,      \* temporaries of the front end
          t0, t1,     \* temporaries of the expansions
          Hosts,      \* the hosts considered, as sets of operations
          Words(_)    \* the words of width n a temporary may start with

ASSUME BitsAssumption == B \in Nat \ {0}
ASSUME TempsAssumption == t0 \notin Temps /\ t1 \notin Temps /\ t0 # t1

VARIABLES n,     \* width of the temporaries: 4 or 8 bytes
          host,  \* operations of the host that are valid for the field
          val,   \* values of the temporaries
          expr,  \* expressions of the temporaries
          spec   \* what tcg-ops.rst says the values are

vars == <<n, host, val, expr, spec>>

Host == {"rot", "ext", "deposit", "extract", "sextract", "extract2", "bswap"}
Bits == 0..(n - 1)
Word == SUBSET Bits

ASSUME HostsAssumption == Hosts \subseteq SUBSET Host
ASSUME WordsAssumption == \A w \in {4 * B, 8 * B} : Words(w) \subseteq SUBSET (0..(w - 1))

-------------------------------------------------------------------------------
(* The solver's and the host's primitives.                                 *)
Low(k) == 0..(k - 1)

(* Mutated form: the shifted word is not cut to its width.                 *)
ShlUncut(x, k) == {i + k : i \in x}

Shl(x, k) == {i \in Bits : i - k \in x}
Shr(x, k) == {i \in Bits : i + k \in x}
Sar(x, k) == {i \in Bits : (IF i + k < n THEN i + k ELSE n - 1) \in x}

(* _sym_extract_helper, and _sym_build_sext of its result of len bits.     *)
Slice(x, hi, lo) == {i \in 0..(hi - lo) : i + lo \in x}
SignExtend(x, len) == {i \in Bits : (IF i < len THEN i ELSE len - 1) \in x}

-------------------------------------------------------------------------------
(* The operations as documented.                                           *)
Rotl(x, k) == {i \in Bits : (IF i >= k THEN i - k ELSE i - k + n) \in x}
Rotr(x, k) == {i \in Bits : (IF i + k < n THEN i + k ELSE i + k - n) \in x}
Zext(x, len) == {i \in x : i < len * B}
Sext(x, len) == {i \in Bits : (IF i < len * B THEN i ELSE len * B - 1) \in x}
Deposit(x, y, ofs, len) ==
    {i \in Bits : IF ofs <= i /\ i < ofs + len THEN i - ofs \in y ELSE i \in x}
Extract(x, ofs, len) == {i \in Bits : i < len /\ i + ofs \in x}
Sextract(x, ofs, len) ==
    {i \in Bits : (IF i < len THEN i ELSE len - 1) + ofs \in x}
Extract2(al, ah, ofs) ==
    {i \in Bits : IF i + ofs < n THEN i + ofs \in al ELSE i + ofs - n \in ah}
Bswap(x, len) ==
    {i \in Bits : \E j \in 0..(len - 1) :
        j * B <= i /\ i < (j + 1) * B /\ i + (len - 1 - 2 * j) * B \in x}

(* The flags a swap of less than a word takes: the input is known to be    *)
(* zero-extended, the output is to be zero- or sign-extended.  A swap of   *)
(* the whole word has none.                                                *)
Flags(len) == IF len * B = n THEN {{}}
              ELSE {f \in SUBSET {"IZ", "OZ", "OS"} : ~({"OZ", "OS"} \subseteq f)}

(* The result of a swap that left w: without "OZ" and "OS" the bits above  *)
(* the swapped ones may contain any value.                                 *)
Swapped(x, len, flags, w) ==
    IF "OS" \in flags THEN Sext(Bswap(x, len), len)
    ELSE IF "OZ" \in flags THEN Bswap(x, len)
    ELSE Bswap(x, len) \cup (w \ Low(len * B))

-------------------------------------------------------------------------------
(* The helpers of tcg-runtime-sym.c.                                       *)
sym_sext(x, len) == Sar(Shl(x, n - len * B), n - len * B)
sym_zext(x, len) == x \cap Low(len * B)
sym_rotate_left(x, k) == Shl(x, k) \cup Shr(x, n - k)
sym_rotate_right(x, k) == Shr(x, k) \cup Shl(x, n - k)
sym_extract(x, ofs, len) == Slice(x, ofs + len - 1, ofs)
sym_sextract(x, ofs, len) == SignExtend(Slice(x, ofs + len - 1, ofs), len)

(* Mutated form: the field is not cut to its length.                       *)
sym_depositUncut(x, y, ofs, len) ==
    (x \ Shl(Low(len), ofs)) \cup Shl(y, ofs)

sym_deposit(x, y, ofs, len) ==
    (x \ Shl(Low(len), ofs)) \cup Shl(y \cap Low(len), ofs)

sym_extract2(ah, al, ofs) ==
    IF ofs = 0 THEN al
    ELSE IF ofs = n THEN ah
    ELSE sym_deposit(Shr(al, ofs), ah, n - ofs, ofs)

(* The masks 0x00ff00ff, 0x00ff00ff00ff00ff and 0x0000ffff0000ffff.        *)
EvenBytes4 == 0..(B - 1) \cup 2*B..(3*B - 1)
EvenBytes8 == EvenBytes4 \cup 4*B..(5*B - 1) \cup 6*B..(7*B - 1)
EvenPairs8 == 0..(2*B - 1) \cup 4*B..(6*B - 1)

(* One round of a byte swap: the fields under mask change places with      *)
(* their neighbours, k bits away.                                          *)
Exchange(x, k, mask) == (Shr(x, k) \cap mask) \cup Shl(x \cap mask, k)

(* It is given the length of the swap, not its flags.                      *)
sym_bswap(x, len) ==
    CASE len = 2 -> Shl(sym_zext(x, 1), B) \cup Shr(x, B)
      [] len = 4 -> LET first == Exchange(x, B, EvenBytes4)
                    IN  Shr(first, 2*B) \cup
                        (IF n = 4*B THEN Shl(first, 2*B)
                         ELSE Shr(Shl(first, 6*B), 4*B))
      [] len = 8 -> LET second == Exchange(Exchange(x, B, EvenBytes8), 2*B,
                                           EvenPairs8)
                    IN  Shr(second, 4*B) \cup Shl(second, 4*B)

-------------------------------------------------------------------------------
(* TCG operations, each with its helper, on a machine.                     *)
Put(m, r, v, e) == [v |-> [m.v EXCEPT ![r] = v], e |-> [m.e EXCEPT ![r] = e]]

mov(m, r, a) == Put(m, r, m.v[a], m.e[a])
or(m, r, a, b) == Put(m, r, m.v[a] \cup m.v[b], m.e[a] \cup m.e[b])
and(m, r, a, mask) == Put(m, r, m.v[a] \cap mask, m.e[a] \cap mask)
shli(m, r, a, k) == Put(m, r, Shl(m.v[a], k), Shl(m.e[a], k))
shri(m, r, a, k) == Put(m, r, Shr(m.v[a], k), Shr(m.e[a], k))
sari(m, r, a, k) == Put(m, r, Sar(m.v[a], k), Sar(m.e[a], k))
rotl(m, r, a, k) == Put(m, r, Rotl(m.v[a], k), sym_rotate_left(m.e[a], k))
rotr(m, r, a, k) == Put(m, r, Rotr(m.v[a], k), sym_rotate_right(m.e[a], k))
zext(m, r, a, len) == Put(m, r, Zext(m.v[a], len), sym_zext(m.e[a], len))
sext(m, r, a, len) == Put(m, r, Sext(m.v[a], len), sym_sext(m.e[a], len))
bswap(m, r, a, len, flags) ==
    Put(m, r, Swapped(m.v[a], len, flags, {}), sym_bswap(m.e[a], len))
deposit(m, r, a, b, ofs, len) ==
    Put(m, r, Deposit(m.v[a], m.v[b], ofs, len),
              sym_deposit(m.e[a], m.e[b], ofs, len))
extract(m, r, a, ofs, len) ==
    Put(m, r, Extract(m.v[a], ofs, len), sym_extract(m.e[a], ofs, len))
sextract(m, r, a, ofs, len) ==
    Put(m, r, Sextract(m.v[a], ofs, len), sym_sextract(m.e[a], ofs, len))
extract2(m, r, al, ah, ofs) ==
    Put(m, r, Extract2(m.v[al], m.v[ah], ofs),
              sym_extract2(m.e[ah], m.e[al], ofs))

-------------------------------------------------------------------------------
(* The expansions of tcg-op.c.  Whether the host has an operation for the  *)
(* field at hand (TCG_TARGET_HAS_* and TCG_TARGET_*_valid) is what host    *)
(* says.                                                                   *)
Has(op) == op \in host

(* The lengths in bytes that have extension operations of their own.       *)
ExtLens == {1, 2, 4}
ExtBits == {B, 2*B, 4*B}
BytesOf(k) == IF k = B THEN 1 ELSE IF k = 2*B THEN 2 ELSE 4

tcg_gen_extu(m, r, a, len) ==
    IF Has("ext") THEN zext(m, r, a, len) ELSE and(m, r, a, Low(len * B))

tcg_gen_exts(m, r, a, len) ==
    IF Has("ext") THEN sext(m, r, a, len)
    ELSE sari(shli(m, r, a, n - len * B), r, r, n - len * B)

(* tcg_gen_andi with the mask (1 << k) - 1.                                *)
tcg_gen_andi(m, r, a, k) ==
    IF k \in ExtBits /\ Has("ext") THEN zext(m, r, a, BytesOf(k))
    ELSE and(m, r, a, Low(k))

tcg_gen_rotli(m, r, a, k) ==
    IF k = 0 THEN mov(m, r, a)
    ELSE IF Has("rot") THEN rotl(m, r, a, k)
    ELSE or(shri(shli(m, t0, a, k), t1, a, n - k), r, t0, t1)

tcg_gen_rotri(m, r, a, k) ==
    IF k = 0 THEN mov(m, r, a) ELSE tcg_gen_rotli(m, r, a, n - k)

(* tcg_gen_extract2 where the host has the operation, for a proper offset. *)
HostExtract2(m, r, al, ah, ofs) ==
    IF al = ah THEN tcg_gen_rotri(m, r, al, ofs) ELSE extract2(m, r, al, ah, ofs)

(* The general expansion of tcg_gen_deposit.                               *)
DepositByMask(m, r, a, b, ofs, len) ==
    LET field == IF ofs + len < n
                 THEN shli(tcg_gen_andi(m, t1, b, len), t1, t1, ofs)
                 ELSE shli(m, t1, b, ofs)
    IN  or(and(field, r, a, Bits \ Shl(Low(len), ofs)), r, r, t1)

(* Mutated form: the field at the top of the word is shifted by its offset *)
(* instead of its length.                                                  *)
tcg_gen_depositSwapped(m, r, a, b, ofs, len) ==
    IF len = n THEN mov(m, r, b)
    ELSE IF Has("deposit") THEN deposit(m, r, a, b, ofs, len)
    ELSE IF Has("extract2") /\ ofs + len = n
         THEN HostExtract2(shli(m, t1, a, ofs), r, t1, b, len)
    ELSE DepositByMask(m, r, a, b, ofs, len)

tcg_gen_deposit(m, r, a, b, ofs, len) ==
    IF len = n THEN mov(m, r, b)
    ELSE IF Has("deposit") THEN deposit(m, r, a, b, ofs, len)
    ELSE IF Has("extract2") /\ ofs + len = n
         THEN HostExtract2(shli(m, t1, a, len), r, t1, b, len)
    ELSE IF Has("extract2") /\ ofs = 0
         THEN tcg_gen_rotli(HostExtract2(m, r, a, b, len), r, r, len)
    ELSE DepositByMask(m, r, a, b, ofs, len)

(* tcg_constant_i32(0) has no expression: the helper is given zero.        *)
tcg_gen_deposit_z(m, r, a, ofs, len) ==
    IF ofs + len = n THEN shli(m, r, a, ofs)
    ELSE IF ofs = 0 THEN tcg_gen_andi(m, r, a, len)
    ELSE IF Has("deposit")
         THEN Put(m, r, Deposit({}, m.v[a], ofs, len),
                        sym_deposit({}, m.e[a], ofs, len))
    ELSE IF len \in ExtBits /\ Has("ext")
         THEN shli(zext(m, r, a, BytesOf(len)), r, r, ofs)
    ELSE IF ofs + len \in ExtBits /\ Has("ext")
         THEN zext(shli(m, r, a, ofs), r, r, BytesOf(ofs + len))
    ELSE shli(tcg_gen_andi(m, r, a, len), r, r, ofs)

tcg_gen_extract(m, r, a, ofs, len) ==
    IF ofs + len = n THEN shri(m, r, a, n - len)
    ELSE IF ofs = 0 THEN tcg_gen_andi(m, r, a, len)
    ELSE IF Has("extract") THEN extract(m, r, a, ofs, len)
    ELSE IF ofs + len \in ExtBits /\ Has("ext")
         THEN shri(zext(m, r, a, BytesOf(ofs + len)), r, r, ofs)
    ELSE IF len <= B \/ len \in ExtBits
         THEN tcg_gen_andi(shri(m, r, a, ofs), r, r, len)
    ELSE shri(shli(m, r, a, n - len - ofs), r, r, n - len)

tcg_gen_sextract(m, r, a, ofs, len) ==
    IF ofs + len = n THEN sari(m, r, a, n - len)
    ELSE IF ofs = 0 /\ len \in ExtBits THEN tcg_gen_exts(m, r, a, BytesOf(len))
    ELSE IF Has("sextract") THEN sextract(m, r, a, ofs, len)
    ELSE IF ofs + len \in ExtBits /\ Has("ext")
         THEN sari(sext(m, r, a, BytesOf(ofs + len)), r, r, ofs)
    ELSE IF len \in ExtBits /\ Has("ext")
         THEN sext(shri(m, r, a, ofs), r, r, BytesOf(len))
    ELSE sari(shli(m, r, a, n - len - ofs), r, r, n - len)

tcg_gen_extract2(m, r, al, ah, ofs) ==
    IF ofs = 0 THEN mov(m, r, al)
    ELSE IF ofs = n THEN mov(m, r, ah)
    ELSE IF al = ah \/ Has("extract2") THEN HostExtract2(m, r, al, ah, ofs)
    ELSE tcg_gen_deposit(shri(m, t0, al, ofs), r, t0, ah, n - ofs, ofs)

(* One round of the expansion of a byte swap.                              *)
GenExchange(m, r, a, k, mask) ==
    or(shli(and(and(shri(m, t0, a, k), t1, a, mask), t0, t0, mask), t1, t1, k),
       r, t0, t1)

(* The expansions of tcg_gen_bswap16, tcg_gen_bswap32 and tcg_gen_bswap64. *)
GenSwap2(m, r, a, flags) ==
    LET shifted == shri(m, t0, a, B)
        low  == IF "IZ" \in flags THEN shifted ELSE tcg_gen_extu(shifted, t0, t0, 1)
        both == IF "OS" \in flags
                THEN sari(shli(low, t1, a, n - B), t1, t1, n - 2*B)
                ELSE IF "OZ" \in flags
                THEN shli(tcg_gen_extu(low, t1, a, 1), t1, t1, B)
                ELSE shli(low, t1, a, B)
    IN  or(both, r, t0, t1)

GenSwap4(m, r, a, flags) ==
    LET badc == GenExchange(m, r, a, B, EvenBytes4)
        both == shri(shli(badc, t1, r, 6*B), t0, r, 2*B)
    IN  IF n = 4*B THEN or(shli(shri(badc, t0, r, 2*B), t1, r, 2*B), r, t0, t1)
        ELSE IF "OS" \in flags THEN or(sari(both, t1, t1, 4*B), r, t0, t1)
        ELSE or(shri(both, t1, t1, 4*B), r, t0, t1)

GenSwap8(m, r, a) ==
    LET mid == GenExchange(GenExchange(m, r, a, B, EvenBytes8), r, r, 2*B, EvenPairs8)
    IN  or(shli(shri(mid, t0, r, 4*B), t1, r, 4*B), r, t0, t1)

tcg_gen_bswap(m, r, a, len, flags) ==
    CASE Has("bswap") -> bswap(m, r, a, len, flags)
      [] ~Has("bswap") /\ len = 2 -> GenSwap2(m, r, a, flags)
      [] ~Has("bswap") /\ len = 4 -> GenSwap4(m, r, a, flags)
      [] ~Has("bswap") /\ len = 8 -> GenSwap8(m, r, a)

-------------------------------------------------------------------------------
Init ==
    /\ n \in {4 * B, 8 * B}
    /\ host \in Hosts
    /\ val \in [Temps -> Words(n)]
    /\ expr = val
    /\ spec = val

(* The machine in which an expansion runs: its own temporaries are dead    *)
(* before and after.                                                       *)
Machine ==
    [v |-> [t \in Temps \cup {t0, t1} |-> IF t \in Temps THEN val[t] ELSE {}],
     e |-> [t \in Temps \cup {t0, t1} |-> IF t \in Temps THEN expr[t] ELSE {}]]

Become(m, r, x) ==
    /\ val' = [t \in Temps |-> m.v[t]]
    /\ expr' = [t \in Temps |-> m.e[t]]
    /\ spec' = [spec EXCEPT ![r] = x]
    /\ UNCHANGED <<n, host>>

Field(ofs, len) == len > 0 /\ ofs + len <= n

DoExtu(r, a, len) == Become(tcg_gen_extu(Machine, r, a, len), r, Zext(spec[a], len))
DoExts(r, a, len) == Become(tcg_gen_exts(Machine, r, a, len), r, Sext(spec[a], len))
DoRotli(r, a, k) == Become(tcg_gen_rotli(Machine, r, a, k), r, Rotl(spec[a], k))
DoRotri(r, a, k) == Become(tcg_gen_rotri(Machine, r, a, k), r, Rotr(spec[a], k))

(* tcg_gen_rotr with the count in a register, where the host has it.       *)
DoRotr(r, a, k) == /\ Has("rot")
                   /\ Become(rotr(Machine, r, a, k), r, Rotr(spec[a], k))

DoDeposit(r, a, b, ofs, len) ==
    /\ Field(ofs, len)
    /\ Become(tcg_gen_deposit(Machine, r, a, b, ofs, len), r,
              Deposit(spec[a], spec[b], ofs, len))

DoDepositZ(r, a, ofs, len) ==
    /\ Field(ofs, len)
    /\ Become(tcg_gen_deposit_z(Machine, r, a, ofs, len), r,
              Deposit({}, spec[a], ofs, len))

DoExtract(r, a, ofs, len) ==
    /\ Field(ofs, len)
    /\ Become(tcg_gen_extract(Machine, r, a, ofs, len), r,
              Extract(spec[a], ofs, len))

DoSextract(r, a, ofs, len) ==
    /\ Field(ofs, len)
    /\ Become(tcg_gen_sextract(Machine, r, a, ofs, len), r,
              Sextract(spec[a], ofs, len))

DoExtract2(r, al, ah, ofs) ==
    Become(tcg_gen_extract2(Machine, r, al, ah, ofs), r,
           Extract2(spec[al], spec[ah], ofs))

(* A byte swap as a front end asks for it: with "IZ" only where the input  *)
(* is zero-extended.                                                       *)
Bswaps(r, a, len, flags) ==
    LET m == tcg_gen_bswap(Machine, r, a, len, flags)
    IN  /\ len * B <= n
        /\ flags \in Flags(len)
        /\ "IZ" \in flags => spec[a] \subseteq Low(len * B)
        /\ Become(m, r, Swapped(spec[a], len, flags, m.v[r]))

(* Not a condition of the code: where the host swaps less than a word,     *)
(* sym_bswap builds the zero-extended swap (of two bytes: of an input that *)
(* is zero-extended) whatever the flags ask for.  The swaps that it does   *)
(* not follow are left to MCSymBits!MCSpecSigned.                          *)
Followed(a, len, flags) ==
    Has("bswap") /\ len * B < n =>
        "OZ" \in flags /\ (len = 2 => spec[a] \subseteq Low(2 * B))

DoBswap(r, a, len, flags) == Followed(a, len, flags) /\ Bswaps(r, a, len, flags)

Next ==
    \/ \E r, a \in Temps, len \in ExtLens : DoExtu(r, a, len) \/ DoExts(r, a, len)
    \/ \E r, a \in Temps, k \in Bits :
          DoRotli(r, a, k) \/ DoRotri(r, a, k) \/ DoRotr(r, a, k)
    \/ \E r, a \in Temps, ofs \in Bits, len \in 1..n :
          \/ DoDepositZ(r, a, ofs, len) \/ DoExtract(r, a, ofs, len)
          \/ DoSextract(r, a, ofs, len)
    \/ \E r, a, b \in Temps, ofs \in Bits, len \in 1..n : DoDeposit(r, a, b, ofs, len)
    \/ \E r, al, ah \in Temps, ofs \in 0..n : DoExtract2(r, al, ah, ofs)
    \/ \E r, a \in Temps, len \in {2, 4, 8} : \E flags \in Flags(len) :
          DoBswap(r, a, len, flags)

Spec == Init /\ [][Next]_vars

-------------------------------------------------------------------------------
(* Type invariant: no operation leaves a bit outside the width.            *)
TypeOK ==
    /\ n \in {4 * B, 8 * B}
    /\ host \in SUBSET Host
    /\ val \in [Temps -> Word] /\ expr \in [Temps -> Word]
    /\ spec \in [Temps -> Word]

(* Whatever the host offers, the operations that a bit-field operation is  *)
(* expanded into compute the documented result, also when the destination  *)
(* is one of the operands, and disturb no other temporary.                 *)
ExpansionExact == val = spec

(* The expressions that the helpers build on the way are expressions of    *)
(* the values beside them, byte swaps by the host that are not Followed    *)
(* excepted.                                                               *)
HelpersExact == expr = val
===============================================================================
