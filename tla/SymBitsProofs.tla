----------------------------- MODULE SymBitsProofs -----------------------------
(***************************************************************************)
(* Proof that the expansions and helpers of SymBits are exact, for every   *)
(* number of bits per byte, every host and every set of temporaries.       *)
(***************************************************************************)
EXTENDS SymBits, TLAPS

Width == n \in {4 * B, 8 * B}

-------------------------------------------------------------------------------
(* Identities between words.                                               *)

(* A left and a right shift make a rotation, as in both rotate helpers.    *)
LEMMA ShiftsRotate ==
    ASSUME Width, NEW x \in Word, NEW k \in 0..n
    PROVE  /\ Shl(x, k) \cup Shr(x, n - k) = Rotl(x, k)
           /\ Shr(x, k) \cup Shl(x, n - k) = Rotr(x, k)
BY BitsAssumption DEF Width, Word, Bits, Shl, Shr, Rotl, Rotr

(* A rotation to the right is one to the left by the rest.                 *)
LEMMA RotationsInverse ==
    ASSUME Width, NEW x \in Word, NEW k \in 1..(n - 1)
    PROVE  Rotl(x, n - k) = Rotr(x, k)
BY BitsAssumption DEF Width, Word, Bits, Rotl, Rotr

(* Shifting up and back down keeps and extends the field below.            *)
LEMMA ShiftsExtract ==
    ASSUME Width, NEW x \in Word, NEW ofs \in Nat, NEW len \in 1..n, ofs + len <= n
    PROVE  /\ Shr(Shl(x, n - len - ofs), n - len) = Extract(x, ofs, len)
           /\ Sar(Shl(x, n - len - ofs), n - len) = Sextract(x, ofs, len)
BY BitsAssumption DEF Width, Word, Bits, Shl, Shr, Sar, Extract, Sextract

(* Masking and shifting, as in the general expansion of a deposit and in   *)
(* the helper.                                                             *)
Keep(x, k) == x \cap Low(k)

Masked(x, y, ofs, len) == (x \cap (Bits \ Shl(Low(len), ofs))) \cup y

(* The general expansion of tcg_gen_deposit and sym_deposit both deposit; a*)
(* field that reaches the top of the word needs no mask.                   *)
LEMMA MaskDeposits ==
    ASSUME Width, NEW x \in Word, NEW y \in Word,
           NEW ofs \in Nat, NEW len \in 1..n, ofs + len <= n
    PROVE  /\ Masked(x, Shl(Keep(y, len), ofs), ofs, len) = Deposit(x, y, ofs, len)
           /\ sym_deposit(x, y, ofs, len) = Deposit(x, y, ofs, len)
           /\ ofs + len = n => Shl(Keep(y, len), ofs) = Shl(y, ofs)
<1>1. \A i \in Bits : i \in Shl(Low(len), ofs) <=> ofs <= i /\ i < ofs + len
  BY BitsAssumption DEF Width, Bits, Shl, Low
<1>2. \A i \in Bits : i \in Shl(y \cap Low(len), ofs)
                       <=> ofs <= i /\ i < ofs + len /\ i - ofs \in y
  BY BitsAssumption DEF Width, Word, Bits, Shl, Low
<1>3. ofs + len = n => \A i \in Bits : i \in Shl(y, ofs)
                       <=> ofs <= i /\ i < ofs + len /\ i - ofs \in y
  BY BitsAssumption DEF Width, Word, Bits, Shl
<1>4. /\ Shl(y, ofs) \subseteq Bits /\ Shl(y \cap Low(len), ofs) \subseteq Bits
      /\ Shl(Low(len), ofs) \subseteq Bits /\ x \subseteq Bits
      /\ Deposit(x, y, ofs, len) \subseteq Bits
  BY DEF Shl, Word, Deposit
<1>5. \A i \in Bits : i \in Deposit(x, y, ofs, len)
                       <=> IF ofs <= i /\ i < ofs + len THEN i - ofs \in y ELSE i \in x
  BY DEF Deposit
<1> QED
  BY <1>1, <1>2, <1>3, <1>4, <1>5 DEF Masked, Keep, sym_deposit

(* A word by its bits.                                                     *)
LEMMA WordBits ==
    ASSUME Width, NEW x \in Word
    PROVE  /\ x = {i \in Bits : i \in x}
           /\ \A len \in 0..n : x \cap Low(len) = {i \in Bits : i < len /\ i \in x}
           /\ \A i \in x : i \in Int /\ 0 <= i /\ i < n
<1>1. x \subseteq Bits /\ Bits = 0..(n - 1) /\ n \in Nat
  BY BitsAssumption DEF Width, Word, Bits
<1>2. x = {i \in Bits : i \in x}
  BY <1>1
<1>3. ASSUME NEW len \in 0..n
      PROVE  x \cap Low(len) = {i \in Bits : i < len /\ i \in x}
  <2>1. \A i : i \in x \cap Low(len) <=> i \in {j \in Bits : j < len /\ j \in x}
    BY <1>1 DEF Low
  <2> QED
    BY <2>1
<1> QED
  BY <1>1, <1>2, <1>3

(* The two expansions of a deposit by extract2.                            *)
LEMMA Extract2Deposits ==
    ASSUME Width, NEW x \in Word, NEW y \in Word, NEW len \in 1..(n - 1)
    PROVE  /\ Extract2(Shl(x, len), y, len) = Deposit(x, y, n - len, len)
           /\ Rotl(Extract2(x, y, len), len) = Deposit(x, y, 0, len)
BY BitsAssumption DEF Width, Word, Bits, Shl, Extract2, Rotl, Deposit

(* ... and of an extract2 by a deposit.                                    *)
LEMMA DepositExtracts2 ==
    ASSUME Width, NEW x \in Word, NEW y \in Word, NEW ofs \in 1..(n - 1)
    PROVE  Deposit(Shr(x, ofs), y, n - ofs, ofs) = Extract2(x, y, ofs)
BY BitsAssumption DEF Width, Word, Bits, Shr, Extract2, Deposit

(* extract2 at the ends is a move, and of one word it is a rotation.       *)
LEMMA Extract2Ends ==
    ASSUME Width, NEW x \in Word, NEW y \in Word, NEW ofs \in 0..n
    PROVE  /\ Extract2(x, y, 0) = x
           /\ Extract2(x, y, n) = y
           /\ Extract2(x, x, ofs) = Rotr(x, ofs)
<1>1. Extract2(x, y, 0) = {i \in Bits : i \in x}
  BY BitsAssumption, WordBits DEF Width, Bits, Extract2
<1>2. Extract2(x, y, n) = {i \in Bits : i \in y}
  BY BitsAssumption, WordBits DEF Width, Bits, Extract2
<1>3. Extract2(x, x, ofs) = Rotr(x, ofs)
  BY BitsAssumption DEF Width, Bits, Extract2, Rotr
<1> QED
  BY <1>1, <1>2, <1>3, WordBits

(* A rotation by no bits is a move.                                        *)
LEMMA RotateByNone ==
    ASSUME Width, NEW x \in Word
    PROVE  Rotl(x, 0) = x /\ Rotr(x, 0) = x
<1>1. Rotl(x, 0) = {i \in Bits : i \in x}
  BY BitsAssumption, WordBits DEF Width, Bits, Rotl
<1>2. Rotr(x, 0) = {i \in Bits : i \in x}
  BY BitsAssumption, WordBits DEF Width, Bits, Rotr
<1> QED
  BY <1>1, <1>2, WordBits

(* A field at the bottom of the word.                                      *)
LEMMA FieldAtBottom ==
    ASSUME Width, NEW x \in Word, NEW len \in 1..n
    PROVE  /\ Keep(x, len) = Extract(x, 0, len)
           /\ Keep(x, len) = Deposit({}, x, 0, len)
<1>1. Bits = 0..(n - 1) /\ n \in Nat /\ x \subseteq Bits
  BY BitsAssumption DEF Width, Bits, Word
<1>2. /\ {i \in Bits : i < len /\ i \in x} = Extract(x, 0, len)
      /\ {i \in Bits : i < len /\ i \in x} = Deposit({}, x, 0, len)
  BY <1>1 DEF Extract, Deposit
<1>3. x \cap Low(len) = {i \in Bits : i < len /\ i \in x}
  BY <1>1, WordBits
<1> QED
  BY <1>2, <1>3 DEF Keep

(* A field at the top of the word, and the ways to mask one.               *)
LEMMA FieldAtEnds ==
    ASSUME Width, NEW x \in Word, NEW y \in Word,
           NEW ofs \in Nat, NEW len \in 1..n, ofs + len <= n
    PROVE  /\ ofs + len = n => /\ Shr(x, n - len) = Extract(x, ofs, len)
                               /\ Sar(x, n - len) = Sextract(x, ofs, len)
                               /\ Shl(x, ofs) = Deposit({}, x, ofs, len)
           /\ len = n => Deposit(x, y, ofs, len) = y
           /\ Keep(Shr(x, ofs), len) = Extract(x, ofs, len)
           /\ Shr(Keep(x, ofs + len), ofs) = Extract(x, ofs, len)
           /\ Shl(Keep(x, len), ofs) = Deposit({}, x, ofs, len)
           /\ Keep(Shl(x, ofs), ofs + len) = Deposit({}, x, ofs, len)
<1> Bits = 0..(n - 1) /\ n \in Nat /\ x \subseteq Bits /\ y \subseteq Bits
  BY BitsAssumption DEF Width, Bits, Word
<1>1. ofs + len = n => /\ Shr(x, n - len) = Extract(x, ofs, len)
                       /\ Sar(x, n - len) = Sextract(x, ofs, len)
                       /\ Shl(x, ofs) = Deposit({}, x, ofs, len)
  BY DEF Shr, Sar, Shl, Extract, Sextract, Deposit
<1>2. len = n => Deposit(x, y, ofs, len) = {i \in Bits : i \in y}
  BY DEF Deposit
<1>4. \A i : i \in Shr(x, ofs) \cap Low(len) <=> i \in Extract(x, ofs, len)
  BY DEF Shr, Extract, Low
<1>5. \A i : i \in Shr(x \cap Low(ofs + len), ofs) <=> i \in Extract(x, ofs, len)
  BY DEF Shr, Extract, Low
<1>6. \A i : i \in Shl(x \cap Low(len), ofs) <=> i \in Deposit({}, x, ofs, len)
  BY DEF Shl, Deposit, Low
<1>7. \A i : i \in Shl(x, ofs) \cap Low(ofs + len) <=> i \in Deposit({}, x, ofs, len)
  BY DEF Shl, Deposit, Low
<1>8. y = {i \in Bits : i \in y}
  BY WordBits
<1>9. /\ Shr(x, ofs) \cap Low(len) = Extract(x, ofs, len)
      /\ Shr(x \cap Low(ofs + len), ofs) = Extract(x, ofs, len)
      /\ Shl(x \cap Low(len), ofs) = Deposit({}, x, ofs, len)
      /\ Shl(x, ofs) \cap Low(ofs + len) = Deposit({}, x, ofs, len)
  BY <1>4, <1>5, <1>6, <1>7
<1> QED
  BY <1>1, <1>2, <1>8, <1>9 DEF Keep

(* Extension of a field of k bits, in the terms of Sextract.               *)
LEMMA SignExtends ==
    ASSUME Width, NEW x \in Word, NEW ofs \in Nat, NEW len \in 1..n, ofs + len <= n
    PROVE  /\ Sextract(Shr(x, ofs), 0, len) = Sextract(x, ofs, len)
           /\ Sar(Sextract(x, 0, ofs + len), ofs) = Sextract(x, ofs, len)
           /\ SignExtend(Slice(x, ofs + len - 1, ofs), len) = Sextract(x, ofs, len)
           /\ Slice(x, ofs + len - 1, ofs) = Extract(x, ofs, len)
BY BitsAssumption DEF Width, Word, Bits, Shr, Sar, Extract, Sextract, Slice, SignExtend

-------------------------------------------------------------------------------
(* Byte swaps.  Byte b of a word holds the bits b*B .. (b+1)*B - 1.        *)
InByte(i, b) == b * B <= i /\ i < b * B + B

(* The documented swaps, byte by byte.                                     *)
LEMMA BswapBytes ==
    ASSUME Width, NEW x \in Word
    PROVE  /\ \A i : i \in Bswap(x, 2) <=>
                /\ i \in Bits
                /\ \/ InByte(i, 0) /\ i + B \in x
                   \/ InByte(i, 1) /\ i - B \in x
           /\ \A i : i \in Bswap(x, 4) <=>
                /\ i \in Bits
                /\ \/ InByte(i, 0) /\ i + 3*B \in x
                   \/ InByte(i, 1) /\ i + B \in x
                   \/ InByte(i, 2) /\ i - B \in x
                   \/ InByte(i, 3) /\ i - 3*B \in x
           /\ \A i : i \in Bswap(x, 8) <=>
                /\ i \in Bits
                /\ \/ InByte(i, 0) /\ i + 7*B \in x
                   \/ InByte(i, 1) /\ i + 5*B \in x
                   \/ InByte(i, 2) /\ i + 3*B \in x
                   \/ InByte(i, 3) /\ i + B \in x
                   \/ InByte(i, 4) /\ i - B \in x
                   \/ InByte(i, 5) /\ i - 3*B \in x
                   \/ InByte(i, 6) /\ i - 5*B \in x
                   \/ InByte(i, 7) /\ i - 7*B \in x
<1> DEFINE P(i, j, len) == j * B <= i /\ i < (j + 1) * B /\ i + (len - 1 - 2 * j) * B \in x
<1> B \in Nat /\ Bits \subseteq Int
  BY BitsAssumption DEF Width, Bits
<1>1. /\ 0..(2 - 1) = {0, 1} /\ 0..(4 - 1) = {0, 1, 2, 3}
      /\ 0..(8 - 1) = {0, 1, 2, 3, 4, 5, 6, 7}
  OBVIOUS
<1>2. ASSUME NEW i \in Bits
      PROVE  /\ P(i, 0, 2) <=> InByte(i, 0) /\ i + B \in x
             /\ P(i, 1, 2) <=> InByte(i, 1) /\ i - B \in x
  BY DEF InByte
<1>3. ASSUME NEW i \in Bits
      PROVE  /\ P(i, 0, 4) <=> InByte(i, 0) /\ i + 3*B \in x
             /\ P(i, 1, 4) <=> InByte(i, 1) /\ i + B \in x
             /\ P(i, 2, 4) <=> InByte(i, 2) /\ i - B \in x
             /\ P(i, 3, 4) <=> InByte(i, 3) /\ i - 3*B \in x
  BY DEF InByte
<1>4. ASSUME NEW i \in Bits
      PROVE  /\ P(i, 0, 8) <=> InByte(i, 0) /\ i + 7*B \in x
             /\ P(i, 1, 8) <=> InByte(i, 1) /\ i + 5*B \in x
             /\ P(i, 2, 8) <=> InByte(i, 2) /\ i + 3*B \in x
             /\ P(i, 3, 8) <=> InByte(i, 3) /\ i + B \in x
             /\ P(i, 4, 8) <=> InByte(i, 4) /\ i - B \in x
             /\ P(i, 5, 8) <=> InByte(i, 5) /\ i - 3*B \in x
             /\ P(i, 6, 8) <=> InByte(i, 6) /\ i - 5*B \in x
             /\ P(i, 7, 8) <=> InByte(i, 7) /\ i - 7*B \in x
  BY DEF InByte
<1>5. \A i, len : i \in Bswap(x, len) <=> i \in Bits /\ \E j \in 0..(len - 1) : P(i, j, len)
  BY DEF Bswap
<1> HIDE DEF P
<1>6. \A i : i \in Bswap(x, 2) <=> i \in Bits /\ (P(i, 0, 2) \/ P(i, 1, 2))
  BY <1>1, <1>5, Zenon
<1>7. \A i : i \in Bswap(x, 4) <=>
          i \in Bits /\ (P(i, 0, 4) \/ P(i, 1, 4) \/ P(i, 2, 4) \/ P(i, 3, 4))
  BY <1>1, <1>5, Zenon
<1>8. \A i : i \in Bswap(x, 8) <=>
          i \in Bits /\ (P(i, 0, 8) \/ P(i, 1, 8) \/ P(i, 2, 8) \/ P(i, 3, 8)
                      \/ P(i, 4, 8) \/ P(i, 5, 8) \/ P(i, 6, 8) \/ P(i, 7, 8))
  BY <1>1, <1>5, ZenonT(60)
<1> QED
  BY <1>2, <1>3, <1>4, <1>6, <1>7, <1>8

(* The rounds that the helper and the expansion share.                     *)
LEMMA ExchangeRounds ==
    ASSUME Width, NEW x \in Word
    PROVE  /\ \A i : i \in Exchange(x, B, EvenBytes4) <=>
                /\ i \in Bits
                /\ \/ (InByte(i, 0) \/ InByte(i, 2)) /\ i + B \in x
                   \/ (InByte(i, 1) \/ InByte(i, 3)) /\ i - B \in x
           /\ \A i : i \in Exchange(x, B, EvenBytes8) <=>
                /\ i \in Bits
                /\ \/ /\ InByte(i, 0) \/ InByte(i, 2) \/ InByte(i, 4) \/ InByte(i, 6)
                      /\ i + B \in x
                   \/ /\ InByte(i, 1) \/ InByte(i, 3) \/ InByte(i, 5) \/ InByte(i, 7)
                      /\ i - B \in x
           /\ \A i : i \in Exchange(x, 2*B, EvenPairs8) <=>
                /\ i \in Bits
                /\ \/ /\ InByte(i, 0) \/ InByte(i, 1) \/ InByte(i, 4) \/ InByte(i, 5)
                      /\ i + 2*B \in x
                   \/ /\ InByte(i, 2) \/ InByte(i, 3) \/ InByte(i, 6) \/ InByte(i, 7)
                      /\ i - 2*B \in x
           /\ Exchange(x, B, EvenBytes4) \in Word
           /\ Exchange(x, B, EvenBytes8) \in Word
           /\ Exchange(x, 2*B, EvenPairs8) \in Word
<1> B \in Nat /\ B > 0 /\ n \in {4*B, 8*B} /\ Bits = 0..(n - 1) /\ x \subseteq Bits
  BY BitsAssumption DEF Width, Bits, Word
<1>1. \A i, k, mask : i \in Exchange(x, k, mask) <=>
         i \in Bits /\ ((i + k \in x /\ i \in mask) \/ (i - k \in x /\ i - k \in mask))
  BY DEF Exchange, Shl, Shr
<1>2. \A i : /\ i \in EvenBytes4 <=> i \in Int /\ (InByte(i, 0) \/ InByte(i, 2))
             /\ i \in EvenBytes8 <=> i \in Int /\ (InByte(i, 0) \/ InByte(i, 2)
                                         \/ InByte(i, 4) \/ InByte(i, 6))
             /\ i \in EvenPairs8 <=> i \in Int /\ (InByte(i, 0) \/ InByte(i, 1)
                                         \/ InByte(i, 4) \/ InByte(i, 5))
  BY DEF EvenBytes4, EvenBytes8, EvenPairs8, InByte
<1>3. \A i \in Int : /\ InByte(i - B, 0) <=> InByte(i, 1)
                     /\ InByte(i - B, 2) <=> InByte(i, 3)
                     /\ InByte(i - B, 4) <=> InByte(i, 5)
                     /\ InByte(i - B, 6) <=> InByte(i, 7)
                     /\ InByte(i - 2*B, 0) <=> InByte(i, 2)
                     /\ InByte(i - 2*B, 1) <=> InByte(i, 3)
                     /\ InByte(i - 2*B, 4) <=> InByte(i, 6)
                     /\ InByte(i - 2*B, 5) <=> InByte(i, 7)
  BY DEF InByte
<1>4. \A i \in Bits : i \in Int /\ i - B \in Int /\ i - 2*B \in Int
  OBVIOUS
<1>5. \A k, mask : Exchange(x, k, mask) \in Word
  BY <1>1 DEF Word
<1> QED
  BY <1>1, <1>2, <1>3, <1>4, <1>5

(* sym_bswap swaps; and so do the same shifts made of TCG operations.      *)
LEMMA SwapWords ==
    ASSUME Width, NEW x \in Word
    PROVE  /\ x \subseteq Low(2 * B) => sym_bswap(x, 2) = Bswap(x, 2)
           /\ sym_bswap(x, 4) = Bswap(x, 4)
           /\ n = 8*B => sym_bswap(x, 8) = Bswap(x, 8)
<1> B \in Nat /\ B > 0 /\ n \in {4*B, 8*B} /\ Bits = 0..(n - 1) /\ x \subseteq Bits
  BY BitsAssumption DEF Width, Bits, Word
<1>0. \A i \in Bits : i \in Int
  OBVIOUS
<1>1. ASSUME x \subseteq Low(2 * B)
      PROVE  sym_bswap(x, 2) = Bswap(x, 2)
  <2>1. sym_bswap(x, 2) = Shl(x \cap Low(1 * B), B) \cup Shr(x, B)
    BY DEF sym_bswap, sym_zext
  <2>2. \A i : i \in sym_bswap(x, 2) <=>
           i \in Bits /\ ((i - B \in x /\ i - B \in 0..(B - 1)) \/ i + B \in x)
    BY <2>1 DEF Shl, Shr, Low
  <2>3. \A i \in Bits : /\ i + B \in x => InByte(i, 0)
                        /\ i - B \in 0..(B - 1) <=> InByte(i, 1)
    BY <1>1 DEF Low, InByte
  <2> QED
    BY <2>2, <2>3, BswapBytes
<1>2. sym_bswap(x, 4) = Bswap(x, 4)
  <2> DEFINE f == Exchange(x, B, EvenBytes4)
  <2>1. sym_bswap(x, 4) = Shr(f, 2*B) \cup (IF n = 4*B THEN Shl(f, 2*B)
                                            ELSE Shr(Shl(f, 6*B), 4*B))
    BY DEF sym_bswap
  <2>2. f \in Word /\ \A i : i \in f <=>
                /\ i \in Bits
                /\ \/ (InByte(i, 0) \/ InByte(i, 2)) /\ i + B \in x
                   \/ (InByte(i, 1) \/ InByte(i, 3)) /\ i - B \in x
    BY ExchangeRounds
  <2> HIDE DEF f
  <2>3. \A i : i \in sym_bswap(x, 4) <=>
            /\ i \in Bits
            /\ \/ i + 2*B \in f
               \/ n = 4*B /\ i - 2*B \in f
               \/ n # 4*B /\ i + 4*B \in Bits /\ i + 4*B - 6*B \in f
    BY <2>1 DEF Shl, Shr
  <2>4. \A i \in Bits : i + 2*B \in f <=> \/ InByte(i, 0) /\ i + 3*B \in x
                                          \/ InByte(i, 1) /\ i + B \in x
    BY <2>2 DEF InByte
  <2>5. \A i \in Bits : i - 2*B \in f /\ i < 4*B <=> \/ InByte(i, 2) /\ i - B \in x
                                                     \/ InByte(i, 3) /\ i - 3*B \in x
    BY <2>2 DEF InByte
  <2>6. \A i \in Bits : i + 4*B - 6*B = i - 2*B
    OBVIOUS
  <2>7. \A i \in Bits : i \in sym_bswap(x, 4) <=> i + 2*B \in f \/ (i - 2*B \in f /\ i < 4*B)
    BY <2>3, <2>6
  <2>8. sym_bswap(x, 4) \subseteq Bits
    BY <2>3
  <2> QED
    BY <2>4, <2>5, <2>7, <2>8, BswapBytes
<1>3. ASSUME n = 8*B
      PROVE  sym_bswap(x, 8) = Bswap(x, 8)
  <2> DEFINE f == Exchange(x, B, EvenBytes8)
             g == Exchange(f, 2*B, EvenPairs8)
  <2>1. sym_bswap(x, 8) = Shr(g, 4*B) \cup Shl(g, 4*B)
    BY DEF sym_bswap
  <2>2. f \in Word /\ \A i : i \in f <=>
                /\ i \in Bits
                /\ \/ /\ InByte(i, 0) \/ InByte(i, 2) \/ InByte(i, 4) \/ InByte(i, 6)
                      /\ i + B \in x
                   \/ /\ InByte(i, 1) \/ InByte(i, 3) \/ InByte(i, 5) \/ InByte(i, 7)
                      /\ i - B \in x
    BY ExchangeRounds
  <2> HIDE DEF f
  <2>3. \A i : i \in g <=>
                /\ i \in Bits
                /\ \/ /\ InByte(i, 0) \/ InByte(i, 1) \/ InByte(i, 4) \/ InByte(i, 5)
                      /\ i + 2*B \in f
                   \/ /\ InByte(i, 2) \/ InByte(i, 3) \/ InByte(i, 6) \/ InByte(i, 7)
                      /\ i - 2*B \in f
    BY <2>2, ExchangeRounds
  <2> HIDE DEF g
  <2>4. \A i : i \in sym_bswap(x, 8) <=> i \in Bits /\ (i + 4*B \in g \/ i - 4*B \in g)
    BY <2>1 DEF Shl, Shr
  <2>5. \A i \in Bits : i + 4*B \in g <=> \/ InByte(i, 0) /\ i + 7*B \in x
                                          \/ InByte(i, 1) /\ i + 5*B \in x
                                          \/ InByte(i, 2) /\ i + 3*B \in x
                                          \/ InByte(i, 3) /\ i + B \in x
    <3>1. \A i \in Bits : i + 4*B \in g <=> \/ (InByte(i, 0) \/ InByte(i, 1)) /\ i + 6*B \in f
                                            \/ (InByte(i, 2) \/ InByte(i, 3)) /\ i + 2*B \in f
      BY <1>3, <2>2, <2>3 DEF InByte
    <3>2. \A i \in Bits : /\ InByte(i, 0) => (i + 6*B \in f <=> i + 7*B \in x)
                          /\ InByte(i, 1) => (i + 6*B \in f <=> i + 5*B \in x)
                          /\ InByte(i, 2) => (i + 2*B \in f <=> i + 3*B \in x)
                          /\ InByte(i, 3) => (i + 2*B \in f <=> i + B \in x)
      BY <1>3, <2>2 DEF InByte
    <3> QED
      BY <3>1, <3>2
  <2>6. \A i \in Bits : i - 4*B \in g <=> \/ InByte(i, 4) /\ i - B \in x
                                          \/ InByte(i, 5) /\ i - 3*B \in x
                                          \/ InByte(i, 6) /\ i - 5*B \in x
                                          \/ InByte(i, 7) /\ i - 7*B \in x
    <3>1. \A i \in Bits : i - 4*B \in g <=> \/ (InByte(i, 4) \/ InByte(i, 5)) /\ i - 2*B \in f
                                            \/ (InByte(i, 6) \/ InByte(i, 7)) /\ i - 6*B \in f
      BY <1>3, <2>2, <2>3 DEF InByte
    <3>2. \A i \in Bits : /\ InByte(i, 4) => (i - 2*B \in f <=> i - B \in x)
                          /\ InByte(i, 5) => (i - 2*B \in f <=> i - 3*B \in x)
                          /\ InByte(i, 6) => (i - 6*B \in f <=> i - 5*B \in x)
                          /\ InByte(i, 7) => (i - 6*B \in f <=> i - 7*B \in x)
      BY <1>3, <2>2 DEF InByte
    <3> QED
      BY <3>1, <3>2
  <2> QED
    BY <2>4, <2>5, <2>6, BswapBytes
<1> QED
  BY <1>1, <1>2, <1>3

(* The swapped bytes lie below the length of the swap.                     *)
LEMMA BswapLow ==
    ASSUME Width, NEW x \in Word, NEW len \in {2, 4, 8}, len * B <= n
    PROVE  /\ Bswap(x, len) \subseteq Low(len * B)
           /\ len * B = n => Bits \subseteq Low(len * B)
<1>1. B \in Nat /\ B > 0 /\ n \in {4*B, 8*B} /\ Bits = 0..(n - 1)
  BY BitsAssumption DEF Width, Bits
<1>2. len = 8 => n = 8*B
  BY <1>1
<1>3. \A b \in {0, 1, 2, 3, 4, 5, 6, 7}, i \in Int :
          InByte(i, b) => i < (b + 1) * B
  BY <1>1 DEF InByte
<1>4. /\ \A i \in Bswap(x, 2) : i \in Bits /\ i < 2*B
      /\ \A i \in Bswap(x, 4) : i \in Bits /\ i < 4*B
      /\ \A i \in Bswap(x, 8) : i \in Bits
  BY <1>1, BswapBytes DEF InByte
<1>5. CASE len = 2
  BY <1>1, <1>4, <1>5 DEF Low
<1>6. CASE len = 4
  BY <1>1, <1>4, <1>6 DEF Low
<1>7. CASE len = 8
  BY <1>1, <1>2, <1>4, <1>7 DEF Low
<1> QED
  BY <1>5, <1>6, <1>7

(* The halves of the expansion of a 16-bit swap.                           *)
LowHalf(x, flags) == IF "IZ" \in flags THEN Shr(x, B) ELSE Zext(Shr(x, B), 1)

HighHalf(x, flags) == IF "OS" \in flags THEN Sar(Shl(x, n - B), n - 2*B)
                      ELSE IF "OZ" \in flags THEN Shl(Zext(x, 1), B)
                      ELSE Shl(x, B)

LEMMA SwapHalves ==
    ASSUME Width, NEW x \in Word, NEW flags, "IZ" \in flags => x \subseteq Low(2 * B)
    PROVE  LowHalf(x, flags) \cup HighHalf(x, flags)
             = Swapped(x, 2, flags, LowHalf(x, flags) \cup HighHalf(x, flags))
<1> DEFINE l == LowHalf(x, flags)
           h == HighHalf(x, flags)
           y == Bswap(x, 2)
<1> B \in Nat /\ B > 0 /\ n \in {4*B, 8*B} /\ Bits = 0..(n - 1) /\ x \subseteq Bits
  BY BitsAssumption DEF Width, Bits, Word
<1>1. \A i : i \in l <=> i \in Bits /\ i < B /\ i + B \in x
  <2>1. CASE "IZ" \in flags
    BY <2>1 DEF LowHalf, Shr, Low
  <2>2. CASE "IZ" \notin flags
    BY <2>2 DEF LowHalf, Shr, Zext
  <2> QED
    BY <2>1, <2>2
<1>2. \A i : i \in y <=> i \in Bits /\ \/ i < B /\ i + B \in x
                                       \/ B <= i /\ i < 2*B /\ i - B \in x
  BY BswapBytes DEF InByte
<1>3. l \subseteq Bits /\ h \subseteq Bits /\ y \subseteq Bits
  BY <1>1, <1>2 DEF HighHalf, Shl, Sar
<1>4. CASE "OS" \in flags
  <2>1. h = Sar(Shl(x, n - B), n - 2*B)
    BY <1>4 DEF HighHalf
  <2>2. \A i \in Bits : i \in h <=>
            (IF i + (n - 2*B) < n THEN i + (n - 2*B) ELSE n - 1) - (n - B) \in x
    BY <2>1 DEF Shl, Sar
  <2>3. \A i \in Bits : i \in h <=> IF i < 2*B THEN i - B \in x ELSE B - 1 \in x
    <3>1. ASSUME NEW i \in Bits, i < 2*B
          PROVE  (IF i + (n - 2*B) < n THEN i + (n - 2*B) ELSE n - 1) - (n - B) = i - B
      BY <3>1
    <3>2. ASSUME NEW i \in Bits, ~(i < 2*B)
          PROVE  (IF i + (n - 2*B) < n THEN i + (n - 2*B) ELSE n - 1) - (n - B) = B - 1
      BY <3>2
    <3> QED
      BY <2>2, <3>1, <3>2
  <2>4. \A i \in Bits : i \in Sext(y, 2) <=> IF i < 2*B THEN i \in y ELSE 2*B - 1 \in y
    BY DEF Sext
  <2>5. 2*B - 1 \in y <=> B - 1 \in x
    BY <1>2
  <2>6. \A i \in Bits : i \in l \cup h <=> i \in Sext(y, 2)
    <3> HIDE DEF l, h, y
    <3>1. ASSUME NEW i \in Bits, i < 2*B
          PROVE  i \in l \cup h <=> i \in y
      BY <1>1, <1>2, <2>3, <3>1
    <3>2. ASSUME NEW i \in Bits, ~(i < 2*B)
          PROVE  i \in l \cup h <=> B - 1 \in x
      BY <1>1, <2>3, <3>2
    <3> QED
      BY <2>4, <2>5, <3>1, <3>2
  <2>7. Sext(y, 2) \subseteq Bits
    BY DEF Sext
  <2>8. Swapped(x, 2, flags, l \cup h) = Sext(y, 2)
    BY <1>4 DEF Swapped
  <2> QED
    BY <1>3, <2>6, <2>7, <2>8
<1>5. CASE "OS" \notin flags /\ "OZ" \in flags
  <2>1. \A i : i \in h <=> i \in Bits /\ B <= i /\ i < 2*B /\ i - B \in x
    BY <1>5 DEF HighHalf, Shl, Zext
  <2>2. Swapped(x, 2, flags, l \cup h) = y
    BY <1>5 DEF Swapped
  <2> QED
    BY <1>1, <1>2, <2>1, <2>2
<1>6. CASE "OS" \notin flags /\ "OZ" \notin flags
  <2>1. \A i : i \in h <=> i \in Bits /\ i - B \in x
    BY <1>6 DEF HighHalf, Shl
  <2>2. Swapped(x, 2, flags, l \cup h) = y \cup ((l \cup h) \ Low(2 * B))
    BY <1>6 DEF Swapped
  <2>3. \A i \in Bits : i \in Low(2 * B) <=> i < 2*B
    BY DEF Low
  <2>4. \A i \in Bits : i \in l \cup h <=> i \in y \/ (i \in l \cup h /\ i \notin Low(2 * B))
    <3> HIDE DEF l, h, y
    <3> QED
      BY <1>1, <1>2, <2>1, <2>3
  <2> QED
    BY <1>3, <2>2, <2>4
<1> QED
  BY <1>4, <1>5, <1>6

(* A 32-bit swap in a word of 64 bits: an arithmetic instead of a logical  *)
(* shift of the upper half extends the sign.                               *)
LEMMA SwapSigned ==
    ASSUME Width, NEW x \in Word, n = 8*B
    PROVE  Shr(Exchange(x, B, EvenBytes4), 2*B)
              \cup Sar(Shl(Exchange(x, B, EvenBytes4), 6*B), 4*B)
             = Sext(Bswap(x, 4), 4)
<1> DEFINE f == Exchange(x, B, EvenBytes4)
           y == Bswap(x, 4)
           w == Shr(f, 2*B) \cup Sar(Shl(f, 6*B), 4*B)
<1> B \in Nat /\ B > 0 /\ Bits = 0..(8*B - 1) /\ x \subseteq Bits
  BY BitsAssumption DEF Bits, Word
<1>1. f \in Word /\ \A i : i \in f <=>
              /\ i \in Bits
              /\ \/ (InByte(i, 0) \/ InByte(i, 2)) /\ i + B \in x
                 \/ (InByte(i, 1) \/ InByte(i, 3)) /\ i - B \in x
  BY ExchangeRounds
<1>2. \A i \in Bits : i \in w <=>
          \/ i + 2*B \in f
          \/ (IF i + 4*B < 8*B THEN i + 4*B ELSE 8*B - 1) - 6*B \in f
  <2> HIDE DEF f
  <2> QED
    BY DEF Shl, Shr, Sar
<1>3. w \subseteq Bits /\ Sext(y, 4) \subseteq Bits
  BY DEF Shr, Sar, Sext
<1>4. \A i \in Bits : i \in Sext(y, 4) <=> IF i < 4*B THEN i \in y ELSE 4*B - 1 \in y
  BY DEF Sext
<1>5. \A i \in Bits : i \in y <=> \/ InByte(i, 0) /\ i + 3*B \in x
                                  \/ InByte(i, 1) /\ i + B \in x
                                  \/ InByte(i, 2) /\ i - B \in x
                                  \/ InByte(i, 3) /\ i - 3*B \in x
  BY BswapBytes
<1> HIDE DEF f, y, w
<1>6. \A i \in Bits : i + 2*B \in f <=> \/ InByte(i, 0) /\ i + 3*B \in x
                                        \/ InByte(i, 1) /\ i + B \in x
  BY <1>1 DEF InByte
<1>7. \A i \in Bits : i - 2*B \in f /\ i < 4*B <=> \/ InByte(i, 2) /\ i - B \in x
                                                   \/ InByte(i, 3) /\ i - 3*B \in x
  BY <1>1 DEF InByte
<1>8. 2*B - 1 \in f <=> 4*B - 1 \in y
  <2>1. 2*B - 1 \in f <=> B - 1 \in x
    BY <1>1 DEF InByte
  <2>2. 4*B - 1 \in y <=> B - 1 \in x
    BY <1>5 DEF InByte
  <2> QED
    BY <2>1, <2>2
<1>9. ASSUME NEW i \in Bits, i < 4*B
      PROVE  i \in w <=> i \in Sext(y, 4)
  <2>1. (IF i + 4*B < 8*B THEN i + 4*B ELSE 8*B - 1) - 6*B = i - 2*B
    BY <1>9
  <2>2. i \in w <=> i + 2*B \in f \/ i - 2*B \in f
    BY <1>2, <2>1
  <2>3. i \in Sext(y, 4) <=> i \in y
    BY <1>4, <1>9
  <2> QED
    BY <1>5, <1>6, <1>7, <1>9, <2>2, <2>3
<1>10. ASSUME NEW i \in Bits, ~(i < 4*B)
       PROVE  i \in w <=> i \in Sext(y, 4)
  <2>1. (IF i + 4*B < 8*B THEN i + 4*B ELSE 8*B - 1) - 6*B = 2*B - 1
    BY <1>10
  <2>2. i + 2*B \notin f
    BY <1>6, <1>10 DEF InByte
  <2> QED
    BY <1>2, <1>4, <1>8, <1>10, <2>1, <2>2
<1>11. w = Sext(y, 4)
  BY <1>3, <1>9, <1>10
<1> QED
  BY <1>11 DEF w, f, y

-------------------------------------------------------------------------------
(* Machines.  In a good machine expressions are those of the values; an    *)
(* operation that sets value and expression alike leads to another.        *)
T == Temps \cup {t0, t1}

Good(m) == m.v \in [T -> Word] /\ m.e = m.v

Do(m, r, x) == Put(m, r, x, x)

(* Setting one temporary of a good machine changes that one only.          *)
LEMMA DoFacts ==
    ASSUME NEW m, Good(m), NEW r \in T, NEW x \in Word
    PROVE  /\ Good(Do(m, r, x))
           /\ Do(m, r, x).v[r] = x
           /\ \A t \in T \ {r} : Do(m, r, x).v[t] = m.v[t]
<1>1. /\ Do(m, r, x).v = [m.v EXCEPT ![r] = x]
      /\ Do(m, r, x).e = [m.e EXCEPT ![r] = x]
  BY DEF Do, Put
<1>2. m.v \in [T -> Word] /\ m.e = m.v
  BY DEF Good
<1> QED
  BY <1>1, <1>2 DEF Good

(* The words the operations compute are words.                             *)
LEMMA WordsClosed ==
    ASSUME NEW x \in Word, NEW y \in Word
    PROVE  /\ {} \in Word /\ x \cup y \in Word
           /\ \A k : Keep(x, k) \in Word
           /\ \A ofs, len : Masked(x, y, ofs, len) \in Word
           /\ \A k : /\ Shl(x, k) \in Word /\ Shr(x, k) \in Word /\ Sar(x, k) \in Word
                    /\ Rotl(x, k) \in Word /\ Rotr(x, k) \in Word
                    /\ Zext(x, k) \in Word /\ Sext(x, k) \in Word
                    /\ Bswap(x, k) \in Word /\ Extract2(x, y, k) \in Word
           /\ \A ofs, len : /\ Deposit(x, y, ofs, len) \in Word
                           /\ Extract(x, ofs, len) \in Word
                           /\ Sextract(x, ofs, len) \in Word
<1>1. /\ {} \in Word /\ x \cup y \in Word
      /\ \A k : Keep(x, k) \in Word
      /\ \A ofs, len : Masked(x, y, ofs, len) \in Word
  BY DEF Word, Keep, Masked
<1>2. \A k : Shl(x, k) \in Word /\ Shr(x, k) \in Word /\ Sar(x, k) \in Word
  BY DEF Word, Shl, Shr, Sar
<1>3. \A k : Rotl(x, k) \in Word /\ Rotr(x, k) \in Word
  BY DEF Word, Rotl, Rotr
<1>4. \A k : Zext(x, k) \in Word /\ Sext(x, k) \in Word
  BY DEF Word, Zext, Sext
<1>5. \A k : Bswap(x, k) \in Word /\ Extract2(x, y, k) \in Word
  BY DEF Word, Bswap, Extract2
<1>6. \A ofs, len : /\ Deposit(x, y, ofs, len) \in Word
                    /\ Extract(x, ofs, len) \in Word
                    /\ Sextract(x, ofs, len) \in Word
  BY DEF Word, Deposit, Extract, Sextract
<1> QED
  BY <1>1, <1>2, <1>3, <1>4, <1>5, <1>6

(* Extensions as fields at the bottom of the word.                         *)
LEMMA ExtensionFields ==
    ASSUME Width, NEW x \in Word, NEW len \in ExtLens
    PROVE  /\ len * B \in 1..n
           /\ Zext(x, len) = Extract(x, 0, len * B)
           /\ Sext(x, len) = Sextract(x, 0, len * B)
           /\ Keep(x, len * B) = Zext(x, len)
           /\ Sar(Shl(x, n - len * B), n - len * B) = Sext(x, len)
           /\ sym_zext(x, len) = Zext(x, len)
           /\ sym_sext(x, len) = Sext(x, len)
<1>1. B \in Nat \ {0} /\ n \in {4*B, 8*B} /\ Bits = 0..(n - 1)
  BY BitsAssumption DEF Width, Bits
<1>2. len * B \in 1..n /\ len * B \in Int
  <2>1. CASE len = 1
    BY <1>1, <2>1
  <2>2. CASE len = 2
    BY <1>1, <2>2
  <2>3. CASE len = 4
    BY <1>1, <2>3
  <2> QED
    BY <2>1, <2>2, <2>3 DEF ExtLens
<1>3. Sext(x, len) = Sextract(x, 0, len * B)
  BY <1>1, <1>2 DEF Sext, Sextract
<1>4. PICK k \in 1..n : k = len * B
  BY <1>2
<1>5. Zext(x, len) = Keep(x, k)
  <2>1. \A i \in x : i < k <=> i \in Low(k)
    BY <1>1, <1>4, WordBits DEF Low
  <2> QED
    BY <2>1, <1>4 DEF Zext, Keep
<1>6. Keep(x, k) = Extract(x, 0, k)
  BY FieldAtBottom
<1>7. sym_sext(x, len) = Sar(Shl(x, n - k - 0), n - k)
  BY <1>1, <1>4 DEF sym_sext
<1>8. Sar(Shl(x, n - k - 0), n - k) = Sextract(x, 0, k)
  BY <1>1, ShiftsExtract
<1> QED
  BY <1>2, <1>3, <1>4, <1>5, <1>6, <1>7, <1>8 DEF sym_zext, sym_sext, Keep

(* The helpers for fields of any position.                                 *)
LEMMA FieldHelpers ==
    ASSUME Width, NEW x \in Word, NEW y \in Word,
           NEW ofs \in Nat, NEW len \in 1..n, ofs + len <= n
    PROVE  /\ sym_deposit(x, y, ofs, len) = Deposit(x, y, ofs, len)
           /\ sym_extract(x, ofs, len) = Extract(x, ofs, len)
           /\ sym_sextract(x, ofs, len) = Sextract(x, ofs, len)
<1>1. sym_deposit(x, y, ofs, len) = Deposit(x, y, ofs, len)
  BY MaskDeposits
<1>2. /\ SignExtend(Slice(x, ofs + len - 1, ofs), len) = Sextract(x, ofs, len)
      /\ Slice(x, ofs + len - 1, ofs) = Extract(x, ofs, len)
  BY SignExtends
<1> QED
  BY <1>1, <1>2 DEF sym_extract, sym_sextract

(* sym_extract2 builds the documented double-word extract.                 *)
LEMMA Extract2Helper ==
    ASSUME Width, NEW x \in Word, NEW y \in Word, NEW ofs \in 1..(n - 1)
    PROVE  sym_extract2(y, x, ofs) = Extract2(x, y, ofs)
<1>1. n \in Nat /\ Shr(x, ofs) \in Word
  BY BitsAssumption, WordsClosed DEF Width
<1>2. sym_extract2(y, x, ofs) = sym_deposit(Shr(x, ofs), y, n - ofs, ofs)
  BY <1>1 DEF sym_extract2
<1>3. n - ofs \in Nat /\ ofs \in 1..n /\ (n - ofs) + ofs <= n
  BY <1>1
<1>4. sym_deposit(Shr(x, ofs), y, n - ofs, ofs) = Deposit(Shr(x, ofs), y, n - ofs, ofs)
  BY <1>1, <1>3, FieldHelpers
<1> QED
  BY <1>2, <1>4, DepositExtracts2

(* Every operation with its helper sets value and expression alike.        *)
LEMMA HelperOps ==
    ASSUME Width, NEW m, Good(m), NEW r, NEW a \in T
    PROVE  /\ \A k \in 0..n : /\ rotl(m, r, a, k) = Do(m, r, Rotl(m.v[a], k))
                             /\ rotr(m, r, a, k) = Do(m, r, Rotr(m.v[a], k))
           /\ \A len \in ExtLens : /\ zext(m, r, a, len) = Do(m, r, Zext(m.v[a], len))
                                  /\ sext(m, r, a, len) = Do(m, r, Sext(m.v[a], len))
<1>1. m.v[a] \in Word /\ m.e[a] = m.v[a]
  BY DEF Good
<1>2. ASSUME NEW k \in 0..n
      PROVE  /\ rotl(m, r, a, k) = Do(m, r, Rotl(m.v[a], k))
             /\ rotr(m, r, a, k) = Do(m, r, Rotr(m.v[a], k))
  <2>1. /\ sym_rotate_left(m.v[a], k) = Rotl(m.v[a], k)
        /\ sym_rotate_right(m.v[a], k) = Rotr(m.v[a], k)
    BY <1>1, ShiftsRotate DEF sym_rotate_left, sym_rotate_right
  <2> QED
    BY <1>1, <2>1 DEF rotl, rotr, Do
<1>3. ASSUME NEW len \in ExtLens
      PROVE  /\ zext(m, r, a, len) = Do(m, r, Zext(m.v[a], len))
             /\ sext(m, r, a, len) = Do(m, r, Sext(m.v[a], len))
  <2>1. /\ sym_zext(m.v[a], len) = Zext(m.v[a], len)
        /\ sym_sext(m.v[a], len) = Sext(m.v[a], len)
    BY <1>1, ExtensionFields
  <2> QED
    BY <1>1, <2>1 DEF zext, sext, Do
<1> QED
  BY <1>2, <1>3

(* extract and sextract with their helpers set value and expression alike. *)
LEMMA FieldOps ==
    ASSUME Width, NEW m, Good(m), NEW r, NEW a \in T,
           NEW ofs \in Nat, NEW len \in 1..n, ofs + len <= n
    PROVE  /\ extract(m, r, a, ofs, len) = Do(m, r, Extract(m.v[a], ofs, len))
           /\ sextract(m, r, a, ofs, len) = Do(m, r, Sextract(m.v[a], ofs, len))
<1>1. m.v[a] \in Word /\ m.e[a] = m.v[a]
  BY DEF Good
<1>2. /\ sym_extract(m.v[a], ofs, len) = Extract(m.v[a], ofs, len)
      /\ sym_sextract(m.v[a], ofs, len) = Sextract(m.v[a], ofs, len)
      /\ sym_deposit(m.v[a], m.v[a], ofs, len) = Deposit(m.v[a], m.v[a], ofs, len)
  BY <1>1, FieldHelpers
<1> QED
  BY <1>1, <1>2 DEF extract, sextract, Do

(* So does deposit ...                                                     *)
LEMMA DepositOp ==
    ASSUME Width, NEW m, Good(m), NEW r, NEW a \in T, NEW b \in T,
           NEW ofs \in Nat, NEW len \in 1..n, ofs + len <= n
    PROVE  deposit(m, r, a, b, ofs, len) = Do(m, r, Deposit(m.v[a], m.v[b], ofs, len))
<1>1. /\ m.v[a] \in Word /\ m.e[a] = m.v[a]
      /\ m.v[b] \in Word /\ m.e[b] = m.v[b]
  BY DEF Good
<1>2. sym_deposit(m.v[a], m.v[b], ofs, len) = Deposit(m.v[a], m.v[b], ofs, len)
  BY <1>1, FieldHelpers
<1> QED
  BY <1>1, <1>2 DEF deposit, Do

(* ... and extract2.                                                       *)
LEMMA Extract2Op ==
    ASSUME Width, NEW m, Good(m), NEW r, NEW al \in T, NEW ah \in T,
           NEW ofs \in 1..(n - 1)
    PROVE  extract2(m, r, al, ah, ofs) = Do(m, r, Extract2(m.v[al], m.v[ah], ofs))
<1>1. /\ m.v[al] \in Word /\ m.e[al] = m.v[al]
      /\ m.v[ah] \in Word /\ m.e[ah] = m.v[ah]
  BY DEF Good
<1>2. sym_extract2(m.v[ah], m.v[al], ofs) = Extract2(m.v[al], m.v[ah], ofs)
  BY <1>1, Extract2Helper
<1> QED
  BY <1>1, <1>2 DEF extract2, Do

-------------------------------------------------------------------------------
(* Expansions.  A machine on the way to a result in r has disturbed only r *)
(* and the expansion's own temporaries.                                    *)
Under(m1, m, r) == Good(m1) /\ \A t \in Temps \ {r} : m1.v[t] = m.v[t]

Yields(o, m, r, x) == Under(o, m, r) /\ o.v[r] = x

(* Setting the destination yields the word that is set.                    *)
LEMMA UnderDo ==
    ASSUME NEW m, NEW r \in Temps, NEW m1, Under(m1, m, r), NEW x \in Word
    PROVE  /\ Under(Do(m1, r, x), m, r)
           /\ Yields(Do(m1, r, x), m, r, x)
           /\ Good(Do(m1, r, x)) /\ Do(m1, r, x).e = Do(m1, r, x).v
           /\ Do(m1, r, x).v[r] = x
           /\ \A t \in T \ {r} : Do(m1, r, x).v[t] = m1.v[t]
<1>1. Good(m1) /\ r \in T /\ Temps \subseteq T
  BY DEF Under, T
<1>2. /\ Good(Do(m1, r, x))
      /\ Do(m1, r, x).v[r] = x
      /\ \A t \in T \ {r} : Do(m1, r, x).v[t] = m1.v[t]
  BY <1>1, DoFacts
<1> QED
  BY <1>1, <1>2 DEF Under, Yields, Good

(* The same for the expansion's own temporaries.                           *)
LEMMA UnderScratch ==
    ASSUME NEW m, NEW r \in Temps, NEW m1, Under(m1, m, r),
           NEW s \in T \ Temps, NEW x \in Word
    PROVE  /\ Under(Do(m1, s, x), m, r)
           /\ Good(Do(m1, s, x)) /\ Do(m1, s, x).e = Do(m1, s, x).v
           /\ Do(m1, s, x).v[s] = x
           /\ \A t \in T \ {s} : Do(m1, s, x).v[t] = m1.v[t]
<1>1. Good(m1) /\ s \in T /\ Temps \subseteq T \ {s}
  BY DEF Under, T
<1>2. /\ Good(Do(m1, s, x))
      /\ Do(m1, s, x).v[s] = x
      /\ \A t \in T \ {s} : Do(m1, s, x).v[t] = m1.v[t]
  BY <1>1, DoFacts
<1> QED
  BY <1>1, <1>2 DEF Under, Good

(* tcg_gen_ext8u ... tcg_gen_ext32s and tcg_gen_andi, in terms of fields.  *)
LEMMA GenExtu ==
    ASSUME Width, NEW m, Good(m), NEW s \in T, NEW a \in T, NEW len \in ExtLens
    PROVE  tcg_gen_extu(m, s, a, len) = Do(m, s, Zext(m.v[a], len))
<1>1. m.v[a] \in Word /\ m.e = m.v
  BY DEF Good
<1>2. CASE Has("ext")
  BY <1>2, HelperOps DEF tcg_gen_extu
<1>3. CASE ~Has("ext")
  <2>1. tcg_gen_extu(m, s, a, len) = Do(m, s, Keep(m.v[a], len * B))
    BY <1>1, <1>3 DEF tcg_gen_extu, and, Do, Keep
  <2> QED
    BY <1>1, <2>1, ExtensionFields
<1> QED
  BY <1>2, <1>3

(* A sign extension, by the host's operation or by two shifts.             *)
LEMMA GenExts ==
    ASSUME Width, NEW m, Good(m), NEW r \in Temps, NEW a \in T, NEW len \in ExtLens
    PROVE  Yields(tcg_gen_exts(m, r, a, len), m, r, Sext(m.v[a], len))
<1>1. m.v[a] \in Word /\ m.e = m.v /\ Under(m, m, r) /\ r \in T
  BY DEF Good, Under, T
<1>2. CASE Has("ext")
  <2>1. tcg_gen_exts(m, r, a, len) = Do(m, r, Sext(m.v[a], len))
    BY <1>2, HelperOps DEF tcg_gen_exts
  <2> QED
    <3>1. Sext(m.v[a], len) \in Word
      BY <1>1, WordsClosed
    <3>2. Yields(Do(m, r, Sext(m.v[a], len)), m, r, Sext(m.v[a], len))
      BY <1>1, <3>1, UnderDo
    <3> QED
      BY <2>1, <3>2
<1>3. CASE ~Has("ext")
  <2>1. PICK k : k = n - len * B
    OBVIOUS
  <2>2. PICK m1 : m1 = Do(m, r, Shl(m.v[a], k))
    OBVIOUS
  <2>3. Shl(m.v[a], k) \in Word /\ Sar(Shl(m.v[a], k), k) \in Word
    BY <1>1, WordsClosed
  <2>4. Under(m1, m, r) /\ m1.v[r] = Shl(m.v[a], k) /\ m1.e = m1.v
    <3>1. Yields(Do(m, r, Shl(m.v[a], k)), m, r, Shl(m.v[a], k))
      BY <1>1, <2>3, UnderDo
    <3> QED
      BY <2>2, <3>1 DEF Yields, Under, Good
  <2>5. tcg_gen_exts(m, r, a, len) = Do(m1, r, Sar(m1.v[r], k))
    <3>1. shli(m, r, a, n - len * B) = m1
      BY <1>1, <2>1, <2>2 DEF shli, Do
    <3>2. sari(m1, r, r, n - len * B) = Do(m1, r, Sar(m1.v[r], k))
      BY <2>1, <2>4 DEF sari, Do
    <3> QED
      BY <1>3, <3>1, <3>2 DEF tcg_gen_exts
  <2>6. Sar(Shl(m.v[a], k), k) = Sext(m.v[a], len)
    BY <1>1, <2>1, ExtensionFields
  <2> QED
    <3>1. Yields(Do(m1, r, Sar(Shl(m.v[a], k), k)), m, r, Sar(Shl(m.v[a], k), k))
      BY <1>1, <2>3, <2>4, UnderDo
    <3> QED
      BY <2>4, <2>5, <2>6, <3>1
<1> QED
  BY <1>2, <1>3

(* tcg_gen_andi keeps the low bits, by a mask or by a zero extension.      *)
LEMMA GenAndi ==
    ASSUME Width, NEW m, Good(m), NEW s \in T, NEW a \in T, NEW k \in 1..n
    PROVE  tcg_gen_andi(m, s, a, k) = Do(m, s, Keep(m.v[a], k))
<1>1. m.v[a] \in Word /\ m.e = m.v
  BY DEF Good
<1>2. CASE k \in ExtBits /\ Has("ext")
  <2>1. BytesOf(k) \in ExtLens /\ BytesOf(k) * B = k
    BY <1>2, BitsAssumption DEF BytesOf, ExtBits, ExtLens
  <2>2. Zext(m.v[a], BytesOf(k)) = Keep(m.v[a], k)
    BY <1>1, <2>1, ExtensionFields
  <2> QED
    BY <1>2, <2>1, <2>2, HelperOps, ZenonT(60) DEF tcg_gen_andi
<1>3. CASE ~(k \in ExtBits /\ Has("ext"))
  BY <1>1, <1>3 DEF tcg_gen_andi, and, Do, Keep
<1> QED
  BY <1>2, <1>3

(* Two operations one after the other on the destination.                  *)
LEMMA Twice ==
    ASSUME NEW m, Good(m), NEW r \in Temps, NEW x \in Word, NEW y \in Word
    PROVE  Yields(Do(Do(m, r, x), r, y), m, r, y)
<1>1. Under(m, m, r)
  BY DEF Under
<1>2. Under(Do(m, r, x), m, r)
  BY <1>1, UnderDo
<1> QED
  BY <1>2, UnderDo

(* The result stands after two operations on the expansion's temporaries.  *)
LEMMA AfterTwo ==
    ASSUME NEW m, Good(m), NEW r \in Temps, NEW s1 \in T \ Temps, NEW s2 \in T \ Temps,
           NEW x1 \in Word, NEW x2 \in Word, NEW y \in Word
    PROVE  Yields(Do(Do(Do(m, s1, x1), s2, x2), r, y), m, r, y)
<1>1. Under(m, m, r)
  BY DEF Under
<1>2. Under(Do(m, s1, x1), m, r)
  BY <1>1, UnderScratch
<1>3. Under(Do(Do(m, s1, x1), s2, x2), m, r)
  BY <1>2, UnderScratch
<1> QED
  BY <1>3, UnderDo

(* A single operation on the destination.                                  *)
LEMMA Once ==
    ASSUME NEW m, Good(m), NEW r \in Temps, NEW x \in Word
    PROVE  Yields(Do(m, r, x), m, r, x)
<1>1. Under(m, m, r)
  BY DEF Under
<1> QED
  BY <1>1, UnderDo

(* The primitive operations in a good machine.                             *)
LEMMA Primitive ==
    ASSUME NEW m, m.e = m.v, NEW r, NEW a, NEW k
    PROVE  /\ mov(m, r, a) = Do(m, r, m.v[a])
           /\ shli(m, r, a, k) = Do(m, r, Shl(m.v[a], k))
           /\ shri(m, r, a, k) = Do(m, r, Shr(m.v[a], k))
           /\ sari(m, r, a, k) = Do(m, r, Sar(m.v[a], k))
BY DEF Do, mov, shli, shri, sari

(* The temporaries of an expansion are none of the front end's.            *)
LEMMA TempsApart ==
    /\ Temps \subseteq T /\ t0 \in T \ Temps /\ t1 \in T \ Temps /\ t0 # t1
BY TempsAssumption DEF T

(* tcg_gen_rotli, by the host's rotation or by two shifts.                 *)
LEMMA GenRotli ==
    ASSUME Width, NEW m, Good(m), NEW r \in Temps, NEW a \in Temps, NEW k \in 0..n
    PROVE  Yields(tcg_gen_rotli(m, r, a, k), m, r, Rotl(m.v[a], k))
<1>1. m.v[a] \in Word /\ m.e = m.v /\ a \in T
  BY DEF Good, T
<1>2. Rotl(m.v[a], k) \in Word /\ Yields(Do(m, r, Rotl(m.v[a], k)), m, r, Rotl(m.v[a], k))
  <2>1. Rotl(m.v[a], k) \in Word
    BY <1>1, WordsClosed
  <2> QED
    BY <2>1, Once
<1>3. CASE k = 0
  <2>1. tcg_gen_rotli(m, r, a, k) = Do(m, r, m.v[a])
    BY <1>1, <1>3 DEF tcg_gen_rotli, mov, Do
  <2>2. Rotl(m.v[a], 0) = m.v[a]
    BY <1>1, RotateByNone
  <2> QED
    BY <1>2, <1>3, <2>1, <2>2
<1>4. CASE k # 0 /\ Has("rot")
  <2>1. tcg_gen_rotli(m, r, a, k) = rotl(m, r, a, k)
    BY <1>4 DEF tcg_gen_rotli
  <2>2. rotl(m, r, a, k) = Do(m, r, Rotl(m.v[a], k))
    BY <1>1, HelperOps
  <2> QED
    BY <1>2, <2>1, <2>2
<1>5. CASE k # 0 /\ ~Has("rot")
  <2>1. PICK x \in Word, y \in Word : x = Shl(m.v[a], k) /\ y = Shr(m.v[a], n - k)
    BY <1>1, WordsClosed
  <2>2. PICK m1 : m1 = Do(m, t0, x)
    OBVIOUS
  <2>3. PICK m2 : m2 = Do(m1, t1, y)
    OBVIOUS
  <2>4. Good(m1) /\ m1.e = m1.v /\ m1.v[t0] = x /\ m1.v[a] = m.v[a]
    <3>1. /\ Good(Do(m, t0, x)) /\ Do(m, t0, x).v[t0] = x
          /\ \A t \in T \ {t0} : Do(m, t0, x).v[t] = m.v[t]
      BY TempsApart, DoFacts
    <3> QED
      BY <2>2, <3>1, TempsApart DEF Good
  <2>5. m2.e = m2.v /\ m2.v[t0] = x /\ m2.v[t1] = y
    <3>1. /\ Good(Do(m1, t1, y)) /\ Do(m1, t1, y).v[t1] = y
          /\ \A t \in T \ {t1} : Do(m1, t1, y).v[t] = m1.v[t]
      BY <2>4, TempsApart, DoFacts
    <3> QED
      BY <2>3, <2>4, <3>1, TempsApart DEF Good
  <2>6. shli(m, t0, a, k) = m1 /\ shri(m1, t1, a, n - k) = m2
    BY <1>1, <2>1, <2>2, <2>3, <2>4, Primitive
  <2>7. or(m2, r, t0, t1) = Do(m2, r, x \cup y)
    BY <2>5 DEF or, Do
  <2>8. x \cup y = Rotl(m.v[a], k)
    BY <1>1, <2>1, ShiftsRotate
  <2>9. Yields(Do(m2, r, Rotl(m.v[a], k)), m, r, Rotl(m.v[a], k))
    BY <1>2, <2>2, <2>3, TempsApart, AfterTwo
  <2> QED
    BY <1>5, <2>6, <2>7, <2>8, <2>9 DEF tcg_gen_rotli
<1> QED
  BY <1>3, <1>4, <1>5

(* tcg_gen_rotri, which is a rotation to the left by the rest.             *)
LEMMA GenRotri ==
    ASSUME Width, NEW m, Good(m), NEW r \in Temps, NEW a \in Temps, NEW k \in 0..(n - 1)
    PROVE  Yields(tcg_gen_rotri(m, r, a, k), m, r, Rotr(m.v[a], k))
<1>1. m.v[a] \in Word /\ m.e = m.v /\ n \in Nat
  BY BitsAssumption DEF Good, T, Width
<1>2. CASE k = 0
  <2>1. tcg_gen_rotri(m, r, a, k) = Do(m, r, m.v[a])
    BY <1>1, <1>2 DEF tcg_gen_rotri, mov, Do
  <2>2. Rotr(m.v[a], 0) = m.v[a]
    BY <1>1, RotateByNone
  <2>3. Yields(Do(m, r, m.v[a]), m, r, m.v[a])
    BY <1>1, Once
  <2> QED
    BY <1>2, <2>1, <2>2, <2>3
<1>3. CASE k # 0
  <2>1. tcg_gen_rotri(m, r, a, k) = tcg_gen_rotli(m, r, a, n - k) /\ n - k \in 0..n
    BY <1>1, <1>3 DEF tcg_gen_rotri
  <2>2. Yields(tcg_gen_rotli(m, r, a, n - k), m, r, Rotl(m.v[a], n - k))
    BY <2>1, GenRotli
  <2>3. Rotl(m.v[a], n - k) = Rotr(m.v[a], k)
    BY <1>1, <1>3, RotationsInverse
  <2> QED
    BY <2>1, <2>2, <2>3
<1> QED
  BY <1>2, <1>3

(* tcg_gen_extract2 where the host has it: of one word twice, a rotation.  *)
LEMMA GenHostExtract2 ==
    ASSUME Width, NEW m, Good(m), NEW r \in Temps, NEW al \in T, NEW ah \in Temps,
           NEW ofs \in 1..(n - 1)
    PROVE  Yields(HostExtract2(m, r, al, ah, ofs), m, r, Extract2(m.v[al], m.v[ah], ofs))
<1>1. m.v[al] \in Word /\ m.v[ah] \in Word /\ ah \in T /\ n \in Nat
  BY BitsAssumption DEF Good, T, Width
<1>2. CASE al = ah
  <2>1. ofs \in 0..(n - 1) /\ ofs \in 0..n
    BY <1>1
  <2>2. Extract2(m.v[ah], m.v[ah], ofs) = Rotr(m.v[ah], ofs)
    BY <1>1, <2>1, Extract2Ends
  <2>3. Yields(tcg_gen_rotri(m, r, ah, ofs), m, r, Rotr(m.v[ah], ofs))
    BY <2>1, GenRotri
  <2> QED
    BY <1>2, <2>2, <2>3 DEF HostExtract2
<1>3. CASE al # ah
  <2>1. extract2(m, r, al, ah, ofs) = Do(m, r, Extract2(m.v[al], m.v[ah], ofs))
    BY <1>1, Extract2Op
  <2>2. Extract2(m.v[al], m.v[ah], ofs) \in Word
    BY <1>1, WordsClosed
  <2>3. Yields(Do(m, r, Extract2(m.v[al], m.v[ah], ofs)), m, r,
               Extract2(m.v[al], m.v[ah], ofs))
    BY <2>2, Once
  <2> QED
    BY <1>3, <2>1, <2>3 DEF HostExtract2
<1> QED
  BY <1>2, <1>3

(* The general expansion of tcg_gen_deposit.  The field goes through t1, so*)
(* the destination may be either operand.                                  *)
LEMMA GenDepositByMask ==
    ASSUME Width, NEW m, Good(m), NEW r \in Temps, NEW a \in Temps \cup {t0},
           NEW b \in Temps, NEW ofs \in Nat, NEW len \in 1..n, ofs + len <= n
    PROVE  Yields(DepositByMask(m, r, a, b, ofs, len), m, r,
                  Deposit(m.v[a], m.v[b], ofs, len))
<1>1. /\ m.v[a] \in Word /\ m.v[b] \in Word /\ m.e = m.v /\ Under(m, m, r)
      /\ a \in T \ {t1} /\ b \in T /\ r \in T \ {t1} /\ t1 \in T \ Temps
  BY TempsApart DEF Good, T, Under
<1>2. PICK y \in Word : y = Shl(Keep(m.v[b], len), ofs)
  BY <1>1, WordsClosed
<1>3. PICK m2 : m2 = IF ofs + len < n
                     THEN shli(tcg_gen_andi(m, t1, b, len), t1, t1, ofs)
                     ELSE shli(m, t1, b, ofs)
  OBVIOUS
<1>4. Under(m2, m, r) /\ m2.v[t1] = y /\ m2.v[a] = m.v[a] /\ m2.e = m2.v
  <2>1. CASE ofs + len < n
    <3>1. PICK m1 : m1 = Do(m, t1, Keep(m.v[b], len))
      OBVIOUS
    <3>2. tcg_gen_andi(m, t1, b, len) = m1
      BY <1>1, <3>1, GenAndi
    <3>3. Keep(m.v[b], len) \in Word
      BY <1>1, WordsClosed
    <3>4. /\ Under(Do(m, t1, Keep(m.v[b], len)), m, r)
          /\ Good(Do(m, t1, Keep(m.v[b], len)))
          /\ Do(m, t1, Keep(m.v[b], len)).v[t1] = Keep(m.v[b], len)
          /\ \A t \in T \ {t1} : Do(m, t1, Keep(m.v[b], len)).v[t] = m.v[t]
      BY <1>1, <3>3, UnderScratch
    <3>5. Under(m1, m, r) /\ m1.e = m1.v /\ m1.v[t1] = Keep(m.v[b], len) /\ m1.v[a] = m.v[a]
      BY <1>1, <3>1, <3>4 DEF Good
    <3>6. shli(m1, t1, t1, ofs) = Do(m1, t1, y)
      BY <1>2, <3>5, Primitive
    <3>7. /\ Under(Do(m1, t1, y), m, r) /\ Good(Do(m1, t1, y))
          /\ Do(m1, t1, y).v[t1] = y
          /\ \A t \in T \ {t1} : Do(m1, t1, y).v[t] = m1.v[t]
      <4>1. Good(m1) /\ t1 \in T
        BY <1>1, <3>5 DEF Under
      <4>2. /\ Good(Do(m1, t1, y)) /\ Do(m1, t1, y).v[t1] = y
            /\ \A t \in T \ {t1} : Do(m1, t1, y).v[t] = m1.v[t]
        BY <4>1, DoFacts
      <4>3. Under(Do(m1, t1, y), m, r)
        BY <1>1, <3>5, UnderScratch
      <4> QED
        BY <4>2, <4>3
    <3> QED
      BY <1>1, <1>3, <2>1, <3>2, <3>5, <3>6, <3>7 DEF Good
  <2>2. CASE ~(ofs + len < n)
    <3>1. n \in Nat
      BY BitsAssumption DEF Width
    <3>2. ofs + len = n
      BY <2>2, <3>1
    <3>3. y = Shl(m.v[b], ofs)
      BY <1>1, <1>2, <3>2, MaskDeposits
    <3>4. m2 = Do(m, t1, y)
      BY <1>1, <1>3, <2>2, <3>3, Primitive
    <3>5. /\ Under(Do(m, t1, y), m, r) /\ Good(Do(m, t1, y))
          /\ Do(m, t1, y).v[t1] = y
          /\ \A t \in T \ {t1} : Do(m, t1, y).v[t] = m.v[t]
      <4>1. /\ Good(Do(m, t1, y)) /\ Do(m, t1, y).v[t1] = y
            /\ \A t \in T \ {t1} : Do(m, t1, y).v[t] = m.v[t]
        BY <1>1, DoFacts
      <4>2. Under(Do(m, t1, y), m, r)
        BY <1>1, UnderScratch
      <4> QED
        BY <4>1, <4>2
    <3> QED
      BY <1>1, <3>4, <3>5 DEF Good
  <2> QED
    BY <2>1, <2>2
<1>5. PICK z : z = m.v[a] \cap (Bits \ Shl(Low(len), ofs))
  OBVIOUS
<1>6. z \in Word
  BY <1>1, <1>5 DEF Word
<1>7. PICK m3 : m3 = Do(m2, r, z)
  OBVIOUS
<1>8. and(m2, r, a, Bits \ Shl(Low(len), ofs)) = m3
  BY <1>4, <1>5, <1>7 DEF and, Do
<1>9. Under(m3, m, r) /\ m3.v[r] = z /\ m3.v[t1] = y /\ m3.e = m3.v
  <2>1. /\ Under(Do(m2, r, z), m, r) /\ Good(Do(m2, r, z))
        /\ Do(m2, r, z).v[r] = z
        /\ \A t \in T \ {r} : Do(m2, r, z).v[t] = m2.v[t]
    BY <1>4, <1>6, UnderDo
  <2> QED
    BY <1>1, <1>4, <1>7, <2>1 DEF Good
<1>10. or(m3, r, r, t1) = Do(m3, r, z \cup y)
  BY <1>9 DEF or, Do
<1>11. z \cup y = Masked(m.v[a], y, ofs, len)
  BY <1>5 DEF Masked
<1>12. Masked(m.v[a], y, ofs, len) = Deposit(m.v[a], m.v[b], ofs, len)
  BY <1>1, <1>2, MaskDeposits
<1>13. Deposit(m.v[a], m.v[b], ofs, len) \in Word
  BY <1>1, WordsClosed
<1>14. Yields(Do(m3, r, Deposit(m.v[a], m.v[b], ofs, len)), m, r,
              Deposit(m.v[a], m.v[b], ofs, len))
  BY <1>9, <1>13, UnderDo
<1>15. DepositByMask(m, r, a, b, ofs, len) = or(m3, r, r, t1)
  BY <1>3, <1>8 DEF DepositByMask
<1> QED
  BY <1>10, <1>11, <1>12, <1>14, <1>15

(* tcg_gen_deposit, in all of its expansions.  The first operand may be t0,*)
(* as tcg_gen_extract2 passes it.                                          *)
LEMMA GenDeposit ==
    ASSUME Width, NEW m, Good(m), NEW r \in Temps, NEW a \in Temps \cup {t0},
           NEW b \in Temps, NEW ofs \in Nat, NEW len \in 1..n, ofs + len <= n
    PROVE  Yields(tcg_gen_deposit(m, r, a, b, ofs, len), m, r,
                  Deposit(m.v[a], m.v[b], ofs, len))
<1> DEFINE x == m.v[a]
           y == m.v[b]
           res == Deposit(m.v[a], m.v[b], ofs, len)
<1>1. /\ x \in Word /\ y \in Word /\ m.e = m.v /\ Under(m, m, r)
      /\ a \in T \ {t1} /\ b \in T \ {t1} /\ t1 \in T \ Temps /\ n \in Nat
  BY TempsApart, BitsAssumption DEF Good, T, Under, Width
<1>2. res \in Word
  BY <1>1, WordsClosed
<1>3. CASE len = n
  <2>1. tcg_gen_deposit(m, r, a, b, ofs, len) = Do(m, r, y)
    BY <1>1, <1>3 DEF tcg_gen_deposit, mov, Do
  <2>2. res = y
    BY <1>1, <1>3, FieldAtEnds
  <2>3. Yields(Do(m, r, y), m, r, y)
    BY <1>1, Once
  <2> QED
    BY <2>1, <2>2, <2>3
<1>4. CASE len # n /\ Has("deposit")
  <2>1. tcg_gen_deposit(m, r, a, b, ofs, len) = deposit(m, r, a, b, ofs, len)
    BY <1>4 DEF tcg_gen_deposit
  <2>2. deposit(m, r, a, b, ofs, len) = Do(m, r, res)
    BY <1>1, DepositOp
  <2>3. Yields(Do(m, r, res), m, r, res)
    BY <1>2, Once
  <2> QED
    BY <2>1, <2>2, <2>3
<1>5. CASE len # n /\ ~Has("deposit") /\ Has("extract2") /\ ofs + len = n
  <2>1. PICK x1 \in Word : x1 = Shl(x, len)
    BY <1>1, WordsClosed
  <2>2. PICK m1 : m1 = Do(m, t1, x1)
    OBVIOUS
  <2>3. /\ Under(Do(m, t1, x1), m, r) /\ Good(Do(m, t1, x1))
        /\ Do(m, t1, x1).v[t1] = x1
        /\ \A t \in T \ {t1} : Do(m, t1, x1).v[t] = m.v[t]
    <3>1. /\ Good(Do(m, t1, x1)) /\ Do(m, t1, x1).v[t1] = x1
          /\ \A t \in T \ {t1} : Do(m, t1, x1).v[t] = m.v[t]
      BY <1>1, DoFacts
    <3>2. Under(Do(m, t1, x1), m, r)
      BY <1>1, UnderScratch
    <3> QED
      BY <3>1, <3>2
  <2>4. Good(m1) /\ m1.v[t1] = x1 /\ m1.v[b] = y /\ Under(m1, m, r)
    BY <1>1, <2>2, <2>3
  <2>5. shli(m, t1, a, len) = m1
    BY <1>1, <2>1, <2>2, Primitive
  <2>6. tcg_gen_deposit(m, r, a, b, ofs, len) = HostExtract2(m1, r, t1, b, len)
    BY <1>5, <2>5 DEF tcg_gen_deposit
  <2>7. len \in 1..(n - 1)
    BY <1>1, <1>5
  <2>8. Yields(HostExtract2(m1, r, t1, b, len), m1, r, Extract2(m1.v[t1], m1.v[b], len))
    BY <1>1, <2>4, <2>7, GenHostExtract2
  <2>9. Extract2(x1, y, len) = Deposit(x, y, n - len, len)
    BY <1>1, <2>1, <2>7, Extract2Deposits
  <2>10. n - len = ofs
    BY <1>1, <1>5
  <2> QED
    BY <2>4, <2>6, <2>8, <2>9, <2>10 DEF Yields, Under
<1>6. CASE len # n /\ ~Has("deposit") /\ Has("extract2") /\ ofs + len # n /\ ofs = 0
  <2>1. len \in 1..(n - 1) /\ len \in 0..n
    BY <1>1, <1>6
  <2>2. PICK m1 : m1 = HostExtract2(m, r, a, b, len)
    OBVIOUS
  <2>3. Yields(m1, m, r, Extract2(x, y, len))
    BY <1>1, <2>1, <2>2, GenHostExtract2
  <2>4. Good(m1) /\ m1.v[r] = Extract2(x, y, len)
    BY <2>3 DEF Yields, Under
  <2>5. tcg_gen_deposit(m, r, a, b, ofs, len) = tcg_gen_rotli(m1, r, r, len)
    BY <1>6, <2>2 DEF tcg_gen_deposit
  <2>6. Yields(tcg_gen_rotli(m1, r, r, len), m1, r, Rotl(m1.v[r], len))
    BY <2>1, <2>4, GenRotli
  <2>7. Rotl(Extract2(x, y, len), len) = Deposit(x, y, 0, len)
    BY <1>1, <2>1, Extract2Deposits
  <2> QED
    BY <1>6, <2>3, <2>4, <2>5, <2>6, <2>7 DEF Yields, Under
<1>7. CASE /\ len # n /\ ~Has("deposit")
           /\ ~(Has("extract2") /\ ofs + len = n) /\ ~(Has("extract2") /\ ofs = 0)
  <2>1. tcg_gen_deposit(m, r, a, b, ofs, len) = DepositByMask(m, r, a, b, ofs, len)
    BY <1>7 DEF tcg_gen_deposit
  <2>2. Yields(DepositByMask(m, r, a, b, ofs, len), m, r, res)
    BY GenDepositByMask
  <2> QED
    BY <2>1, <2>2
<1> QED
  BY <1>3, <1>4, <1>5, <1>6, <1>7

(* A second operation on the destination of the first.                     *)
LEMMA Second ==
    ASSUME Width, NEW m, Good(m), NEW r \in Temps, NEW x \in Word, NEW k
    PROVE  /\ Yields(shli(Do(m, r, x), r, r, k), m, r, Shl(x, k))
           /\ Yields(shri(Do(m, r, x), r, r, k), m, r, Shr(x, k))
           /\ Yields(sari(Do(m, r, x), r, r, k), m, r, Sar(x, k))
           /\ k \in 1..n => Yields(tcg_gen_andi(Do(m, r, x), r, r, k), m, r, Keep(x, k))
           /\ k \in ExtLens => /\ Yields(zext(Do(m, r, x), r, r, k), m, r, Zext(x, k))
                               /\ Yields(sext(Do(m, r, x), r, r, k), m, r, Sext(x, k))
<1>1. PICK m1 : m1 = Do(m, r, x)
  OBVIOUS
<1>2. Good(m1) /\ m1.e = m1.v /\ m1.v[r] = x /\ r \in T
  <2>1. r \in T
    BY TempsApart
  <2>2. Good(Do(m, r, x)) /\ Do(m, r, x).v[r] = x
    BY <2>1, DoFacts
  <2> QED
    BY <1>1, <2>1, <2>2 DEF Good
<1>3. ASSUME NEW y \in Word
      PROVE  Yields(Do(m1, r, y), m, r, y)
  BY <1>1, Twice
<1>4. /\ shli(m1, r, r, k) = Do(m1, r, Shl(x, k))
      /\ shri(m1, r, r, k) = Do(m1, r, Shr(x, k))
      /\ sari(m1, r, r, k) = Do(m1, r, Sar(x, k))
  BY <1>2, Primitive
<1>5. k \in 1..n => tcg_gen_andi(m1, r, r, k) = Do(m1, r, Keep(x, k))
  BY <1>2, GenAndi
<1>6. k \in ExtLens => /\ zext(m1, r, r, k) = Do(m1, r, Zext(x, k))
                       /\ sext(m1, r, r, k) = Do(m1, r, Sext(x, k))
  BY <1>2, HelperOps
<1>7. /\ Shl(x, k) \in Word /\ Shr(x, k) \in Word /\ Sar(x, k) \in Word
      /\ Keep(x, k) \in Word /\ Zext(x, k) \in Word /\ Sext(x, k) \in Word
  BY WordsClosed
<1> QED
  BY <1>1, <1>3, <1>4, <1>5, <1>6, <1>7

(* Fields whose bounds fall on a byte, a pair or a quad.                   *)
LEMMA ByteFields ==
    ASSUME Width, NEW x \in Word, NEW k \in ExtBits
    PROVE  /\ BytesOf(k) \in ExtLens /\ k \in 1..n
           /\ Zext(x, BytesOf(k)) = Keep(x, k)
           /\ Sext(x, BytesOf(k)) = Sextract(x, 0, k)
<1>1. BytesOf(k) \in ExtLens /\ BytesOf(k) * B = k
  BY BitsAssumption DEF BytesOf, ExtBits, ExtLens
<1> QED
  BY <1>1, ExtensionFields

(* tcg_gen_extract, in all of its expansions.                              *)
LEMMA GenExtract ==
    ASSUME Width, NEW m, Good(m), NEW r \in Temps, NEW a \in Temps,
           NEW ofs \in Nat, NEW len \in 1..n, ofs + len <= n
    PROVE  Yields(tcg_gen_extract(m, r, a, ofs, len), m, r, Extract(m.v[a], ofs, len))
<1> DEFINE x == m.v[a]
           res == Extract(m.v[a], ofs, len)
<1>1. x \in Word /\ m.e = m.v /\ a \in T /\ r \in T /\ n \in Nat
  BY TempsApart, BitsAssumption DEF Good, T, Width
<1>2. res \in Word /\ Yields(Do(m, r, res), m, r, res)
  <2>1. res \in Word
    BY <1>1, WordsClosed
  <2> QED
    BY <2>1, Once
<1>3. CASE ofs + len = n
  <2>1. shri(m, r, a, n - len) = Do(m, r, Shr(x, n - len))
    BY <1>1, Primitive
  <2>2. Shr(x, n - len) = res
    BY <1>1, <1>3, FieldAtEnds
  <2> QED
    BY <1>2, <1>3, <2>1, <2>2 DEF tcg_gen_extract
<1>4. CASE ofs + len # n /\ ofs = 0
  <2>1. tcg_gen_andi(m, r, a, len) = Do(m, r, Keep(x, len))
    BY <1>1, GenAndi
  <2>2. Keep(x, len) = Extract(x, 0, len)
    BY <1>1, FieldAtBottom
  <2> QED
    BY <1>2, <1>4, <2>1, <2>2 DEF tcg_gen_extract
<1>5. CASE ofs + len # n /\ ofs # 0 /\ Has("extract")
  <2>1. extract(m, r, a, ofs, len) = Do(m, r, res)
    BY <1>1, FieldOps
  <2> QED
    BY <1>2, <1>5, <2>1 DEF tcg_gen_extract
<1>6. CASE /\ ofs + len # n /\ ofs # 0 /\ ~Has("extract")
           /\ ofs + len \in ExtBits /\ Has("ext")
  <2>1. BytesOf(ofs + len) \in ExtLens /\ Zext(x, BytesOf(ofs + len)) = Keep(x, ofs + len)
    BY <1>1, <1>6, ByteFields
  <2>2. zext(m, r, a, BytesOf(ofs + len)) = Do(m, r, Zext(x, BytesOf(ofs + len)))
    BY <1>1, <2>1, HelperOps
  <2>3. PICK y \in Word : y = Keep(x, ofs + len)
    BY <1>1, WordsClosed
  <2>4. Yields(shri(Do(m, r, y), r, r, ofs), m, r, Shr(y, ofs))
    BY Second
  <2>5. Shr(Keep(x, ofs + len), ofs) = res
    BY <1>1, FieldAtEnds
  <2>6. tcg_gen_extract(m, r, a, ofs, len) = shri(zext(m, r, a, BytesOf(ofs + len)), r, r, ofs)
    BY <1>6 DEF tcg_gen_extract
  <2> QED
    BY <2>1, <2>2, <2>3, <2>4, <2>5, <2>6
<1>7. CASE /\ ofs + len # n /\ ofs # 0 /\ ~Has("extract")
           /\ ~(ofs + len \in ExtBits /\ Has("ext")) /\ (len <= B \/ len \in ExtBits)
  <2>1. shri(m, r, a, ofs) = Do(m, r, Shr(x, ofs))
    BY <1>1, Primitive
  <2>2. PICK y \in Word : y = Shr(x, ofs)
    BY <1>1, WordsClosed
  <2>3. Yields(tcg_gen_andi(Do(m, r, y), r, r, len), m, r, Keep(y, len))
    BY Second
  <2>4. Keep(Shr(x, ofs), len) = res
    BY <1>1, FieldAtEnds
  <2>5. tcg_gen_extract(m, r, a, ofs, len) = tcg_gen_andi(shri(m, r, a, ofs), r, r, len)
    BY <1>7 DEF tcg_gen_extract
  <2> QED
    BY <2>1, <2>2, <2>3, <2>4, <2>5
<1>8. CASE /\ ofs + len # n /\ ofs # 0 /\ ~Has("extract")
           /\ ~(ofs + len \in ExtBits /\ Has("ext")) /\ ~(len <= B \/ len \in ExtBits)
  <2>1. shli(m, r, a, n - len - ofs) = Do(m, r, Shl(x, n - len - ofs))
    BY <1>1, Primitive
  <2>2. PICK y \in Word : y = Shl(x, n - len - ofs)
    BY <1>1, WordsClosed
  <2>3. Yields(shri(Do(m, r, y), r, r, n - len), m, r, Shr(y, n - len))
    BY Second
  <2>4. Shr(Shl(x, n - len - ofs), n - len) = res
    BY <1>1, ShiftsExtract
  <2>5. tcg_gen_extract(m, r, a, ofs, len)
          = shri(shli(m, r, a, n - len - ofs), r, r, n - len)
    BY <1>8 DEF tcg_gen_extract
  <2> QED
    BY <2>1, <2>2, <2>3, <2>4, <2>5
<1> QED
  BY <1>3, <1>4, <1>5, <1>6, <1>7, <1>8

(* tcg_gen_sextract, in all of its expansions.                             *)
LEMMA GenSextract ==
    ASSUME Width, NEW m, Good(m), NEW r \in Temps, NEW a \in Temps,
           NEW ofs \in Nat, NEW len \in 1..n, ofs + len <= n
    PROVE  Yields(tcg_gen_sextract(m, r, a, ofs, len), m, r, Sextract(m.v[a], ofs, len))
<1> DEFINE x == m.v[a]
           res == Sextract(m.v[a], ofs, len)
<1>1. x \in Word /\ m.e = m.v /\ a \in T /\ r \in T /\ n \in Nat
  BY TempsApart, BitsAssumption DEF Good, T, Width
<1>2. res \in Word /\ Yields(Do(m, r, res), m, r, res)
  <2>1. res \in Word
    BY <1>1, WordsClosed
  <2> QED
    BY <2>1, Once
<1>3. CASE ofs + len = n
  <2>1. sari(m, r, a, n - len) = Do(m, r, Sar(x, n - len))
    BY <1>1, Primitive
  <2>2. Sar(x, n - len) = res
    BY <1>1, <1>3, FieldAtEnds
  <2> QED
    BY <1>2, <1>3, <2>1, <2>2 DEF tcg_gen_sextract
<1>4. CASE ofs + len # n /\ ofs = 0 /\ len \in ExtBits
  <2>1. BytesOf(len) \in ExtLens /\ Sext(x, BytesOf(len)) = Sextract(x, 0, len)
    BY <1>1, <1>4, ByteFields
  <2>2. Yields(tcg_gen_exts(m, r, a, BytesOf(len)), m, r, Sext(m.v[a], BytesOf(len)))
    BY <1>1, <2>1, GenExts
  <2>3. tcg_gen_sextract(m, r, a, ofs, len) = tcg_gen_exts(m, r, a, BytesOf(len))
    BY <1>4 DEF tcg_gen_sextract
  <2> QED
    BY <1>4, <2>1, <2>2, <2>3
<1>5. CASE ofs + len # n /\ ~(ofs = 0 /\ len \in ExtBits) /\ Has("sextract")
  <2>1. sextract(m, r, a, ofs, len) = Do(m, r, res)
    BY <1>1, FieldOps
  <2> QED
    BY <1>2, <1>5, <2>1 DEF tcg_gen_sextract
<1>6. CASE /\ ofs + len # n /\ ~(ofs = 0 /\ len \in ExtBits) /\ ~Has("sextract")
           /\ ofs + len \in ExtBits /\ Has("ext")
  <2>1. BytesOf(ofs + len) \in ExtLens /\ Sext(x, BytesOf(ofs + len)) = Sextract(x, 0, ofs + len)
    BY <1>1, <1>6, ByteFields
  <2>2. sext(m, r, a, BytesOf(ofs + len)) = Do(m, r, Sext(x, BytesOf(ofs + len)))
    BY <1>1, <2>1, HelperOps
  <2>3. PICK y \in Word : y = Sextract(x, 0, ofs + len)
    BY <1>1, WordsClosed
  <2>4. Yields(sari(Do(m, r, y), r, r, ofs), m, r, Sar(y, ofs))
    BY Second
  <2>5. Sar(Sextract(x, 0, ofs + len), ofs) = res
    BY <1>1, SignExtends
  <2>6. tcg_gen_sextract(m, r, a, ofs, len)
          = sari(sext(m, r, a, BytesOf(ofs + len)), r, r, ofs)
    BY <1>6 DEF tcg_gen_sextract
  <2> QED
    BY <2>1, <2>2, <2>3, <2>4, <2>5, <2>6
<1>7. CASE /\ ofs + len # n /\ ~(ofs = 0 /\ len \in ExtBits) /\ ~Has("sextract")
           /\ ~(ofs + len \in ExtBits /\ Has("ext")) /\ len \in ExtBits /\ Has("ext")
  <2>1. shri(m, r, a, ofs) = Do(m, r, Shr(x, ofs))
    BY <1>1, Primitive
  <2>2. PICK y \in Word : y = Shr(x, ofs)
    BY <1>1, WordsClosed
  <2>3. BytesOf(len) \in ExtLens /\ Sext(y, BytesOf(len)) = Sextract(y, 0, len)
    BY <1>7, ByteFields
  <2>4. Yields(sext(Do(m, r, y), r, r, BytesOf(len)), m, r, Sext(y, BytesOf(len)))
    BY <2>3, Second
  <2>5. Sextract(Shr(x, ofs), 0, len) = res
    BY <1>1, SignExtends
  <2>6. tcg_gen_sextract(m, r, a, ofs, len)
          = sext(shri(m, r, a, ofs), r, r, BytesOf(len))
    BY <1>7 DEF tcg_gen_sextract
  <2> QED
    BY <2>1, <2>2, <2>3, <2>4, <2>5, <2>6
<1>8. CASE /\ ofs + len # n /\ ~(ofs = 0 /\ len \in ExtBits) /\ ~Has("sextract")
           /\ ~(ofs + len \in ExtBits /\ Has("ext")) /\ ~(len \in ExtBits /\ Has("ext"))
  <2>1. shli(m, r, a, n - len - ofs) = Do(m, r, Shl(x, n - len - ofs))
    BY <1>1, Primitive
  <2>2. PICK y \in Word : y = Shl(x, n - len - ofs)
    BY <1>1, WordsClosed
  <2>3. Yields(sari(Do(m, r, y), r, r, n - len), m, r, Sar(y, n - len))
    BY Second
  <2>4. Sar(Shl(x, n - len - ofs), n - len) = res
    BY <1>1, ShiftsExtract
  <2>5. tcg_gen_sextract(m, r, a, ofs, len)
          = sari(shli(m, r, a, n - len - ofs), r, r, n - len)
    BY <1>8 DEF tcg_gen_sextract
  <2> QED
    BY <2>1, <2>2, <2>3, <2>4, <2>5
<1> QED
  BY <1>3, <1>4, <1>5, <1>6, <1>7, <1>8

(* tcg_gen_deposit_z, in all of its expansions.                            *)
LEMMA GenDepositZ ==
    ASSUME Width, NEW m, Good(m), NEW r \in Temps, NEW a \in Temps,
           NEW ofs \in Nat, NEW len \in 1..n, ofs + len <= n
    PROVE  Yields(tcg_gen_deposit_z(m, r, a, ofs, len), m, r, Deposit({}, m.v[a], ofs, len))
<1> DEFINE x == m.v[a]
           res == Deposit({}, m.v[a], ofs, len)
<1>1. x \in Word /\ m.e = m.v /\ a \in T /\ r \in T /\ n \in Nat
  BY TempsApart, BitsAssumption DEF Good, T, Width
<1>2. {} \in Word /\ res \in Word /\ Yields(Do(m, r, res), m, r, res)
  <2>1. {} \in Word
    BY DEF Word
  <2>2. res \in Word
    BY <1>1, <2>1, WordsClosed
  <2> QED
    BY <2>1, <2>2, Once
<1>3. CASE ofs + len = n
  <2>1. shli(m, r, a, ofs) = Do(m, r, Shl(x, ofs))
    BY <1>1, Primitive
  <2>2. Shl(x, ofs) = res
    BY <1>1, <1>3, FieldAtEnds
  <2> QED
    BY <1>2, <1>3, <2>1, <2>2 DEF tcg_gen_deposit_z
<1>4. CASE ofs + len # n /\ ofs = 0
  <2>1. tcg_gen_andi(m, r, a, len) = Do(m, r, Keep(x, len))
    BY <1>1, GenAndi
  <2>2. Keep(x, len) = Deposit({}, x, 0, len)
    BY <1>1, FieldAtBottom
  <2> QED
    BY <1>2, <1>4, <2>1, <2>2 DEF tcg_gen_deposit_z
<1>5. CASE ofs + len # n /\ ofs # 0 /\ Has("deposit")
  <2>1. sym_deposit({}, x, ofs, len) = res
    BY <1>1, <1>2, FieldHelpers
  <2>2. tcg_gen_deposit_z(m, r, a, ofs, len) = Do(m, r, res)
    BY <1>1, <1>5, <2>1 DEF tcg_gen_deposit_z, Do
  <2> QED
    BY <1>2, <2>2
<1>6. CASE /\ ofs + len # n /\ ofs # 0 /\ ~Has("deposit")
           /\ len \in ExtBits /\ Has("ext")
  <2>1. BytesOf(len) \in ExtLens /\ Zext(x, BytesOf(len)) = Keep(x, len)
    BY <1>1, <1>6, ByteFields
  <2>2. zext(m, r, a, BytesOf(len)) = Do(m, r, Zext(x, BytesOf(len)))
    BY <1>1, <2>1, HelperOps
  <2>3. PICK y \in Word : y = Keep(x, len)
    BY <1>1, WordsClosed
  <2>4. Yields(shli(Do(m, r, y), r, r, ofs), m, r, Shl(y, ofs))
    BY Second
  <2>5. Shl(Keep(x, len), ofs) = res
    BY <1>1, FieldAtEnds
  <2>6. tcg_gen_deposit_z(m, r, a, ofs, len) = shli(zext(m, r, a, BytesOf(len)), r, r, ofs)
    BY <1>6 DEF tcg_gen_deposit_z
  <2> QED
    BY <2>1, <2>2, <2>3, <2>4, <2>5, <2>6
<1>7. CASE /\ ofs + len # n /\ ofs # 0 /\ ~Has("deposit")
           /\ ~(len \in ExtBits /\ Has("ext")) /\ ofs + len \in ExtBits /\ Has("ext")
  <2>1. shli(m, r, a, ofs) = Do(m, r, Shl(x, ofs))
    BY <1>1, Primitive
  <2>2. PICK y \in Word : y = Shl(x, ofs)
    BY <1>1, WordsClosed
  <2>3. BytesOf(ofs + len) \in ExtLens /\ Zext(y, BytesOf(ofs + len)) = Keep(y, ofs + len)
    BY <1>7, ByteFields
  <2>4. Yields(zext(Do(m, r, y), r, r, BytesOf(ofs + len)), m, r, Zext(y, BytesOf(ofs + len)))
    BY <2>3, Second
  <2>5. Keep(Shl(x, ofs), ofs + len) = res
    BY <1>1, FieldAtEnds
  <2>6. tcg_gen_deposit_z(m, r, a, ofs, len)
          = zext(shli(m, r, a, ofs), r, r, BytesOf(ofs + len))
    BY <1>7 DEF tcg_gen_deposit_z
  <2> QED
    BY <2>1, <2>2, <2>3, <2>4, <2>5, <2>6
<1>8. CASE /\ ofs + len # n /\ ofs # 0 /\ ~Has("deposit")
           /\ ~(len \in ExtBits /\ Has("ext")) /\ ~(ofs + len \in ExtBits /\ Has("ext"))
  <2>1. tcg_gen_andi(m, r, a, len) = Do(m, r, Keep(x, len))
    BY <1>1, GenAndi
  <2>2. PICK y \in Word : y = Keep(x, len)
    BY <1>1, WordsClosed
  <2>3. Yields(shli(Do(m, r, y), r, r, ofs), m, r, Shl(y, ofs))
    BY Second
  <2>4. Shl(Keep(x, len), ofs) = res
    BY <1>1, FieldAtEnds
  <2>5. tcg_gen_deposit_z(m, r, a, ofs, len) = shli(tcg_gen_andi(m, r, a, len), r, r, ofs)
    BY <1>8 DEF tcg_gen_deposit_z
  <2> QED
    BY <2>1, <2>2, <2>3, <2>4, <2>5
<1> QED
  BY <1>3, <1>4, <1>5, <1>6, <1>7, <1>8

(* tcg_gen_extract2, in all of its expansions.                             *)
LEMMA GenExtract2 ==
    ASSUME Width, NEW m, Good(m), NEW r \in Temps, NEW al \in Temps, NEW ah \in Temps,
           NEW ofs \in 0..n
    PROVE  Yields(tcg_gen_extract2(m, r, al, ah, ofs), m, r, Extract2(m.v[al], m.v[ah], ofs))
<1> DEFINE x == m.v[al]
           y == m.v[ah]
<1>1. /\ x \in Word /\ y \in Word /\ m.e = m.v /\ al \in T /\ ah \in T \ {t0}
      /\ t0 \in T \ Temps /\ t0 \in T /\ n \in Nat
  BY TempsApart, BitsAssumption DEF Good, T, Width
<1>2. CASE ofs = 0
  <2>1. mov(m, r, al) = Do(m, r, x)
    BY <1>1, Primitive
  <2>2. Extract2(x, y, 0) = x
    BY <1>1, Extract2Ends
  <2>3. Yields(Do(m, r, x), m, r, x)
    BY <1>1, Once
  <2> QED
    BY <1>2, <2>1, <2>2, <2>3 DEF tcg_gen_extract2
<1>3. CASE ofs # 0 /\ ofs = n
  <2>1. mov(m, r, ah) = Do(m, r, y)
    BY <1>1, Primitive
  <2>2. Extract2(x, y, n) = y
    BY <1>1, Extract2Ends
  <2>3. Yields(Do(m, r, y), m, r, y)
    BY <1>1, Once
  <2> QED
    BY <1>3, <2>1, <2>2, <2>3 DEF tcg_gen_extract2
<1>4. CASE ofs # 0 /\ ofs # n /\ (al = ah \/ Has("extract2"))
  <2>1. ofs \in 1..(n - 1)
    BY <1>1, <1>4
  <2>2. Yields(HostExtract2(m, r, al, ah, ofs), m, r, Extract2(m.v[al], m.v[ah], ofs))
    BY <1>1, <2>1, GenHostExtract2
  <2> QED
    BY <1>4, <2>2 DEF tcg_gen_extract2
<1>5. CASE ofs # 0 /\ ofs # n /\ ~(al = ah \/ Has("extract2"))
  <2>1. ofs \in 1..(n - 1) /\ ofs \in 1..n /\ n - ofs \in Nat /\ (n - ofs) + ofs <= n
    BY <1>1, <1>5
  <2>2. PICK x1 \in Word : x1 = Shr(x, ofs)
    BY <1>1, WordsClosed
  <2>3. PICK m1 : m1 = Do(m, t0, x1)
    OBVIOUS
  <2>4. shri(m, t0, al, ofs) = m1
    BY <1>1, <2>2, <2>3, Primitive
  <2>5. Under(m, m, r)
    BY DEF Under
  <2>6. Good(m1) /\ m1.v[t0] = x1 /\ m1.v[ah] = y /\ Under(m1, m, r)
    <3>1. /\ Good(Do(m, t0, x1)) /\ Do(m, t0, x1).v[t0] = x1
          /\ \A t \in T \ {t0} : Do(m, t0, x1).v[t] = m.v[t]
      BY <1>1, DoFacts
    <3>2. Under(Do(m, t0, x1), m, r)
      BY <1>1, <2>5, UnderScratch
    <3> QED
      BY <1>1, <2>3, <3>1, <3>2
  <2>7. Yields(tcg_gen_deposit(m1, r, t0, ah, n - ofs, ofs), m1, r,
               Deposit(m1.v[t0], m1.v[ah], n - ofs, ofs))
    BY <2>1, <2>6, GenDeposit
  <2>8. Deposit(Shr(x, ofs), y, n - ofs, ofs) = Extract2(x, y, ofs)
    BY <1>1, <2>1, DepositExtracts2
  <2>9. tcg_gen_extract2(m, r, al, ah, ofs) = tcg_gen_deposit(m1, r, t0, ah, n - ofs, ofs)
    BY <1>5, <2>4 DEF tcg_gen_extract2
  <2> QED
    BY <2>2, <2>6, <2>7, <2>8, <2>9 DEF Yields, Under
<1> QED
  BY <1>2, <1>3, <1>4, <1>5

(* The last step of an expansion that has built both halves of its result. *)
LEMMA Combine ==
    ASSUME NEW m, NEW r \in Temps, NEW o, Under(o, m, r),
           NEW x \in Word, NEW y \in Word, o.v[t0] = x, o.v[t1] = y
    PROVE  Yields(or(o, r, t0, t1), m, r, x \cup y)
<1>1. o.e = o.v
  BY DEF Under, Good
<1>2. PICK z \in Word : z = x \cup y
  BY WordsClosed
<1>3. or(o, r, t0, t1) = Do(o, r, z)
  BY <1>1, <1>2 DEF or, Do
<1>4. Yields(Do(o, r, z), m, r, z)
  BY UnderDo
<1> QED
  BY <1>2, <1>3, <1>4

(* A machine in which one of the expansion's temporaries was set.          *)
Scratched(o, m, r, m1, s, x) ==
    /\ Under(o, m, r) /\ Good(o) /\ o.e = o.v /\ o.v[s] = x
    /\ \A t \in T \ {s} : o.v[t] = m1.v[t]

(* Setting one of the expansion's temporaries leads to such a machine.     *)
LEMMA Scratch ==
    ASSUME NEW m, NEW r \in Temps, NEW m1, Under(m1, m, r),
           NEW s \in T, s \notin Temps, NEW x \in Word
    PROVE  Scratched(Do(m1, s, x), m, r, m1, s, x)
<1>1. Good(m1) /\ s \in T \ Temps
  BY DEF Under
<1>2. /\ Good(Do(m1, s, x)) /\ Do(m1, s, x).v[s] = x
      /\ \A t \in T \ {s} : Do(m1, s, x).v[t] = m1.v[t]
  BY <1>1, DoFacts
<1>3. Under(Do(m1, s, x), m, r)
  BY <1>1, UnderScratch
<1>4. Do(m1, s, x).e = Do(m1, s, x).v
  BY <1>2 DEF Good
<1> QED
  BY <1>2, <1>3, <1>4 DEF Scratched

(* One round of the expansion of a byte swap exchanges neighbouring fields.*)
LEMMA GenExchanges ==
    ASSUME Width, NEW m, Good(m), NEW r \in Temps, NEW a \in Temps, NEW k, NEW mask
    PROVE  Yields(GenExchange(m, r, a, k, mask), m, r, Exchange(m.v[a], k, mask))
<1>1. /\ m.v[a] \in Word /\ m.e = m.v /\ Under(m, m, r)
      /\ a \in T \ {t0} /\ a \in T \ {t1} /\ t0 \in T /\ t1 \in T
      /\ t0 \notin Temps /\ t1 \notin Temps /\ t0 \in T \ {t1} /\ t1 \in T \ {t0}
  BY TempsApart DEF Good, T, Under
<1>2. PICK x1 \in Word, x2 \in Word, x3 \in Word, x4 \in Word :
           /\ x1 = Shr(m.v[a], k) /\ x2 = m.v[a] \cap mask
           /\ x3 = x1 \cap mask /\ x4 = Shl(x2, k)
  <2>1. Shr(m.v[a], k) \in Word /\ m.v[a] \cap mask \in Word
    BY <1>1 DEF Shr, Word
  <2>2. Shr(m.v[a], k) \cap mask \in Word /\ Shl(m.v[a] \cap mask, k) \in Word
    BY <2>1 DEF Shl, Word
  <2> QED
    BY <2>1, <2>2
<1>3. PICK m1 : m1 = Do(m, t0, x1)
  OBVIOUS
<1>4. Scratched(m1, m, r, m, t0, x1)
  BY <1>1, <1>3, Scratch
<1>5. Under(m1, m, r) /\ m1.e = m1.v /\ m1.v[a] = m.v[a] /\ m1.v[t0] = x1
  BY <1>1, <1>4 DEF Scratched
<1>6. PICK m2 : m2 = Do(m1, t1, x2)
  OBVIOUS
<1>7. Scratched(m2, m, r, m1, t1, x2)
  BY <1>1, <1>5, <1>6, Scratch
<1>8. Under(m2, m, r) /\ m2.e = m2.v /\ m2.v[t0] = x1 /\ m2.v[t1] = x2
  BY <1>1, <1>5, <1>7 DEF Scratched
<1>9. PICK m3 : m3 = Do(m2, t0, x3)
  OBVIOUS
<1>10. Scratched(m3, m, r, m2, t0, x3)
  BY <1>1, <1>8, <1>9, Scratch
<1>11. Under(m3, m, r) /\ m3.e = m3.v /\ m3.v[t0] = x3 /\ m3.v[t1] = x2
  BY <1>1, <1>8, <1>10 DEF Scratched
<1>12. PICK m4 : m4 = Do(m3, t1, x4)
  OBVIOUS
<1>13. Scratched(m4, m, r, m3, t1, x4)
  BY <1>1, <1>11, <1>12, Scratch
<1>14. Under(m4, m, r) /\ m4.v[t0] = x3 /\ m4.v[t1] = x4
  BY <1>1, <1>11, <1>13 DEF Scratched
<1>15. shri(m, t0, a, k) = m1
  BY <1>1, <1>2, <1>3, Primitive
<1>16. and(m1, t1, a, mask) = m2
  BY <1>2, <1>5, <1>6 DEF and, Do
<1>17. and(m2, t0, t0, mask) = m3
  BY <1>2, <1>8, <1>9 DEF and, Do
<1>18. shli(m3, t1, t1, k) = m4
  BY <1>2, <1>11, <1>12 DEF shli, Do
<1>19. GenExchange(m, r, a, k, mask) = or(m4, r, t0, t1)
  BY <1>15, <1>16, <1>17, <1>18 DEF GenExchange
<1>20. Yields(or(m4, r, t0, t1), m, r, x3 \cup x4)
  BY <1>14, Combine
<1> QED
  BY <1>2, <1>19, <1>20 DEF Exchange

(* The expansion of a 16-bit swap.                                         *)
LEMMA ExpandedSwap2 ==
    ASSUME Width, NEW m, Good(m), NEW r \in Temps, NEW a \in Temps, NEW flags
    PROVE  Yields(GenSwap2(m, r, a, flags), m, r,
                  LowHalf(m.v[a], flags) \cup HighHalf(m.v[a], flags))
<1>1. /\ m.v[a] \in Word /\ m.e = m.v /\ Under(m, m, r)
      /\ a \in T \ {t0} /\ a \in T \ {t1} /\ a \in T /\ t0 \in T /\ t1 \in T
      /\ t0 \in T \ {t1} /\ t1 \in T \ {t0} /\ t0 \notin Temps /\ t1 \notin Temps
      /\ 1 \in ExtLens
  BY TempsApart DEF Good, T, Under, ExtLens
<1>2. PICK x : x = m.v[a]
  OBVIOUS
<1>3. PICK l \in Word, h \in Word : l = LowHalf(x, flags) /\ h = HighHalf(x, flags)
  <2>1. x \in Word
    BY <1>1, <1>2
  <2>2. LowHalf(x, flags) \in Word /\ HighHalf(x, flags) \in Word
    BY <2>1 DEF LowHalf, HighHalf, Shr, Shl, Sar, Zext, Word
  <2> QED
    BY <2>2
<1> DEFINE shifted == shri(m, t0, a, B)
           low == IF "IZ" \in flags THEN shifted ELSE tcg_gen_extu(shifted, t0, t0, 1)
           both == IF "OS" \in flags
                   THEN sari(shli(low, t1, a, n - B), t1, t1, n - 2*B)
                   ELSE IF "OZ" \in flags
                   THEN shli(tcg_gen_extu(low, t1, a, 1), t1, t1, B)
                   ELSE shli(low, t1, a, B)
<1>4. GenSwap2(m, r, a, flags) = or(both, r, t0, t1)
  BY DEF GenSwap2
<1>5. /\ Under(low, m, r) /\ Good(low) /\ low.e = low.v
      /\ low.v[t0] = l /\ low.v[a] = x
  <2>1. PICK x1 \in Word : x1 = Shr(x, B)
    BY <1>1, <1>2, WordsClosed
  <2>2. shifted = Do(m, t0, x1)
    BY <1>1, <1>2, <2>1 DEF shri, Do
  <2>3. /\ Under(shifted, m, r) /\ Good(shifted) /\ shifted.e = shifted.v
        /\ shifted.v[t0] = x1 /\ shifted.v[a] = x
    <3> HIDE DEF shifted
    <3> QED
      <4>1. Scratched(shifted, m, r, m, t0, x1)
        BY <1>1, <1>2, <2>2, Scratch
      <4> QED
        BY <1>1, <1>2, <2>2, <4>1 DEF Scratched
  <2>4. CASE "IZ" \in flags
    <3>1. low = shifted /\ l = x1
      BY <1>3, <2>1, <2>4 DEF LowHalf
    <3> HIDE DEF shifted, low
    <3> QED
      BY <2>3, <3>1
  <2>5. CASE "IZ" \notin flags
    <3> HIDE DEF shifted
    <3>1. tcg_gen_extu(shifted, t0, t0, 1) = Do(shifted, t0, Zext(shifted.v[t0], 1))
      BY <1>1, <2>3, GenExtu
    <3>2. l = Zext(x1, 1)
      BY <1>3, <2>1, <2>5 DEF LowHalf
    <3>3. low = Do(shifted, t0, l)
      BY <2>3, <2>5, <3>1, <3>2
    <3> HIDE DEF low
    <3> QED
      <4>1. Scratched(low, m, r, shifted, t0, l)
        BY <1>1, <2>3, <3>3, Scratch
      <4> QED
        BY <1>1, <2>3, <3>3, <4>1 DEF Scratched
  <2> QED
    BY <2>4, <2>5
<1>6. Under(both, m, r) /\ both.v[t0] = l /\ both.v[t1] = h
  <2> HIDE DEF low
  <2>1. CASE "OS" \in flags
    <3>1. PICK z \in Word : z = Shl(x, n - B)
      BY <1>1, <1>2, WordsClosed
    <3>2. h = Sar(z, n - 2*B)
      BY <1>3, <2>1, <3>1 DEF HighHalf
    <3>3. PICK o : o = shli(low, t1, a, n - B)
      OBVIOUS
    <3>4. o = Do(low, t1, z)
      BY <1>5, <3>1, <3>3 DEF shli, Do
    <3>5. Under(o, m, r) /\ o.e = o.v /\ o.v[t1] = z /\ o.v[t0] = l
      <4>1. Scratched(o, m, r, low, t1, z)
        BY <1>1, <1>5, <3>4, Scratch
      <4> QED
        BY <1>1, <1>5, <3>4, <4>1 DEF Scratched
    <3>6. both = Do(o, t1, h)
      BY <2>1, <3>2, <3>3, <3>5 DEF sari, Do
    <3> HIDE DEF both
    <3> QED
      <4>1. Scratched(both, m, r, o, t1, h)
        BY <1>1, <3>5, <3>6, Scratch
      <4> QED
        BY <1>1, <3>5, <3>6, <4>1 DEF Scratched
  <2>2. CASE "OS" \notin flags /\ "OZ" \in flags
    <3>1. PICK z \in Word : z = Zext(x, 1)
      BY <1>1, <1>2 DEF Zext, Word
    <3>2. h = Shl(z, B)
      BY <1>3, <2>2, <3>1 DEF HighHalf
    <3>3. PICK o : o = tcg_gen_extu(low, t1, a, 1)
      OBVIOUS
    <3>4. o = Do(low, t1, z)
      <4>1. tcg_gen_extu(low, t1, a, 1) = Do(low, t1, Zext(low.v[a], 1))
        BY <1>1, <1>5, GenExtu
      <4> QED
        BY <1>5, <3>1, <3>3, <4>1
    <3>5. Under(o, m, r) /\ o.e = o.v /\ o.v[t1] = z /\ o.v[t0] = l
      <4>1. Scratched(o, m, r, low, t1, z)
        BY <1>1, <1>5, <3>4, Scratch
      <4> QED
        BY <1>1, <1>5, <3>4, <4>1 DEF Scratched
    <3>6. both = Do(o, t1, h)
      BY <2>2, <3>2, <3>3, <3>5 DEF shli, Do
    <3> HIDE DEF both
    <3> QED
      <4>1. Scratched(both, m, r, o, t1, h)
        BY <1>1, <3>5, <3>6, Scratch
      <4> QED
        BY <1>1, <3>5, <3>6, <4>1 DEF Scratched
  <2>3. CASE "OS" \notin flags /\ "OZ" \notin flags
    <3>1. h = Shl(x, B)
      BY <1>3, <2>3 DEF HighHalf
    <3>2. both = Do(low, t1, h)
      BY <1>5, <2>3, <3>1 DEF shli, Do
    <3> HIDE DEF both
    <3> QED
      <4>1. Scratched(both, m, r, low, t1, h)
        BY <1>1, <1>5, <3>2, Scratch
      <4> QED
        BY <1>1, <1>5, <3>2, <4>1 DEF Scratched
  <2> QED
    BY <2>1, <2>2, <2>3
<1>7. Yields(or(both, r, t0, t1), m, r, l \cup h)
  <2> HIDE DEF both
  <2> QED
    BY <1>6, Combine
<1> QED
  BY <1>2, <1>3, <1>4, <1>7

(* ... of a 32-bit swap, in a word of 32 or of 64 bits ...                 *)
UpperPair(f, flags) == IF n = 4*B THEN Shl(f, 2*B)
                       ELSE IF "OS" \in flags THEN Sar(Shl(f, 6*B), 4*B)
                       ELSE Shr(Shl(f, 6*B), 4*B)

LEMMA ExpandedSwap4 ==
    ASSUME Width, NEW m, Good(m), NEW r \in Temps, NEW a \in Temps, NEW flags,
           NEW f, f = Exchange(m.v[a], B, EvenBytes4)
    PROVE  Yields(GenSwap4(m, r, a, flags), m, r, Shr(f, 2*B) \cup UpperPair(f, flags))
<1>1. /\ t0 \in T \ {t1} /\ t1 \in T \ {t0} /\ r \in T \ {t0} /\ r \in T \ {t1}
      /\ t0 \in T /\ t1 \in T /\ t0 \notin Temps /\ t1 \notin Temps
  BY TempsApart DEF T
<1>2. PICK m1 : m1 = GenExchange(m, r, a, B, EvenBytes4)
  OBVIOUS
<1>3. Yields(m1, m, r, f)
  BY <1>2, GenExchanges
<1>4. Under(m1, m, r) /\ m1.e = m1.v /\ m1.v[r] = f /\ f \in Word
  BY <1>3, TempsApart DEF Yields, Under, Good
<1>5. PICK x \in Word, y \in Word : x = Shr(f, 2*B) /\ y = UpperPair(f, flags)
  <2>1. Shr(f, 2*B) \in Word /\ UpperPair(f, flags) \in Word
    BY DEF UpperPair, Shr, Shl, Sar, Word
  <2> QED
    BY <2>1
<1>6. CASE n = 4*B
  <2>1. PICK m2 : m2 = shri(m1, t0, r, 2*B)
    OBVIOUS
  <2>2. m2 = Do(m1, t0, x)
    BY <1>4, <1>5, <2>1 DEF shri, Do
  <2>3. Under(m2, m, r) /\ m2.e = m2.v /\ m2.v[t0] = x /\ m2.v[r] = f
    <3>1. Scratched(m2, m, r, m1, t0, x)
      BY <1>1, <1>4, <2>2, Scratch
    <3> QED
      BY <1>1, <1>4, <2>2, <3>1 DEF Scratched
  <2>4. PICK m3 : m3 = shli(m2, t1, r, 2*B)
    OBVIOUS
  <2>5. m3 = Do(m2, t1, y)
    BY <1>5, <1>6, <2>3, <2>4 DEF shli, Do, UpperPair
  <2>6. Under(m3, m, r) /\ m3.v[t0] = x /\ m3.v[t1] = y
    <3>1. Scratched(m3, m, r, m2, t1, y)
      BY <1>1, <2>3, <2>5, Scratch
    <3> QED
      BY <1>1, <2>3, <2>5, <3>1 DEF Scratched
  <2>7. Yields(or(m3, r, t0, t1), m, r, x \cup y)
    BY <2>6, Combine
  <2>8. GenSwap4(m, r, a, flags) = or(m3, r, t0, t1)
    BY <1>2, <1>6, <2>1, <2>4 DEF GenSwap4
  <2> QED
    BY <1>5, <2>7, <2>8
<1>7. CASE n # 4*B
  <2>1. PICK z \in Word : z = Shl(f, 6*B)
    BY <1>4, WordsClosed
  <2>2. PICK m2 : m2 = shli(m1, t1, r, 6*B)
    OBVIOUS
  <2>3. m2 = Do(m1, t1, z)
    BY <1>4, <2>1, <2>2 DEF shli, Do
  <2>4. Under(m2, m, r) /\ m2.e = m2.v /\ m2.v[t1] = z /\ m2.v[r] = f
    <3>1. Scratched(m2, m, r, m1, t1, z)
      BY <1>1, <1>4, <2>3, Scratch
    <3> QED
      BY <1>1, <1>4, <2>3, <3>1 DEF Scratched
  <2>5. PICK m3 : m3 = shri(m2, t0, r, 2*B)
    OBVIOUS
  <2>6. m3 = Do(m2, t0, x)
    BY <1>5, <2>4, <2>5 DEF shri, Do
  <2>7. Under(m3, m, r) /\ m3.e = m3.v /\ m3.v[t0] = x /\ m3.v[t1] = z
    <3>1. Scratched(m3, m, r, m2, t0, x)
      BY <1>1, <2>4, <2>6, Scratch
    <3> QED
      BY <1>1, <2>4, <2>6, <3>1 DEF Scratched
  <2>8. PICK m4 : m4 = IF "OS" \in flags THEN sari(m3, t1, t1, 4*B)
                       ELSE shri(m3, t1, t1, 4*B)
    OBVIOUS
  <2>9. m4 = Do(m3, t1, y)
    <3>1. CASE "OS" \in flags
      BY <1>5, <1>7, <2>1, <2>7, <2>8, <3>1 DEF sari, Do, UpperPair
    <3>2. CASE "OS" \notin flags
      BY <1>5, <1>7, <2>1, <2>7, <2>8, <3>2 DEF shri, Do, UpperPair
    <3> QED
      BY <3>1, <3>2
  <2>10. Under(m4, m, r) /\ m4.v[t0] = x /\ m4.v[t1] = y
    <3>1. Scratched(m4, m, r, m3, t1, y)
      BY <1>1, <2>7, <2>9, Scratch
    <3> QED
      BY <1>1, <2>7, <2>9, <3>1 DEF Scratched
  <2>11. Yields(or(m4, r, t0, t1), m, r, x \cup y)
    BY <2>10, Combine
  <2>12. GenSwap4(m, r, a, flags) = or(m4, r, t0, t1)
    BY <1>2, <1>7, <2>2, <2>5, <2>8 DEF GenSwap4
  <2> QED
    BY <1>5, <2>11, <2>12
<1> QED
  BY <1>6, <1>7

(* ... and of a 64-bit swap.                                               *)
LEMMA ExpandedSwap8 ==
    ASSUME Width, NEW m, Good(m), NEW r \in Temps, NEW a \in Temps
    PROVE  Yields(GenSwap8(m, r, a), m, r, sym_bswap(m.v[a], 8))
<1>1. /\ t1 \in T /\ t1 \notin Temps /\ t0 \in T /\ t0 \notin Temps
      /\ t0 \in T \ {t1} /\ r \in T \ {t0}
  BY TempsApart
<1>2. PICK m1 : m1 = GenExchange(m, r, a, B, EvenBytes8)
  OBVIOUS
<1>3. PICK f : f = Exchange(m.v[a], B, EvenBytes8)
  OBVIOUS
<1>4. Yields(m1, m, r, f)
  BY <1>2, <1>3, GenExchanges
<1>5. Under(m1, m, r) /\ Good(m1) /\ m1.v[r] = f
  BY <1>4 DEF Yields, Under
<1>6. PICK m2 : m2 = GenExchange(m1, r, r, 2*B, EvenPairs8)
  OBVIOUS
<1>7. PICK g : g = Exchange(f, 2*B, EvenPairs8)
  OBVIOUS
<1>8. Yields(m2, m1, r, Exchange(m1.v[r], 2*B, EvenPairs8))
  BY <1>5, <1>6, GenExchanges
<1>9. Under(m2, m, r) /\ m2.e = m2.v /\ m2.v[r] = g /\ g \in Word
  BY <1>5, <1>7, <1>8, TempsApart DEF Yields, Under, Good
<1>10. PICK x \in Word, y \in Word : x = Shr(g, 4*B) /\ y = Shl(g, 4*B)
  BY <1>9, WordsClosed
<1>11. PICK m3 : m3 = Do(m2, t0, x)
  OBVIOUS
<1>12. Scratched(m3, m, r, m2, t0, x)
  BY <1>1, <1>9, <1>11, Scratch
<1>13. Under(m3, m, r) /\ m3.e = m3.v /\ m3.v[r] = g /\ m3.v[t0] = x
  BY <1>1, <1>9, <1>12 DEF Scratched
<1>14. PICK m4 : m4 = Do(m3, t1, y)
  OBVIOUS
<1>15. Scratched(m4, m, r, m3, t1, y)
  BY <1>1, <1>13, <1>14, Scratch
<1>16. Under(m4, m, r) /\ m4.v[t0] = x /\ m4.v[t1] = y
  BY <1>1, <1>13, <1>15 DEF Scratched
<1>17. shri(m2, t0, r, 4*B) = m3
  BY <1>9, <1>10, <1>11 DEF shri, Do
<1>18. shli(m3, t1, r, 4*B) = m4
  BY <1>10, <1>13, <1>14 DEF shli, Do
<1>19. GenSwap8(m, r, a) = or(m4, r, t0, t1)
  BY <1>2, <1>6, <1>17, <1>18 DEF GenSwap8
<1>20. Yields(or(m4, r, t0, t1), m, r, x \cup y)
  BY <1>16, Combine
<1>21. sym_bswap(m.v[a], 8) = x \cup y
  BY <1>3, <1>7, <1>10 DEF sym_bswap
<1> QED
  BY <1>19, <1>20, <1>21

(* tcg_gen_bswap16, 32 and 64 yield what their flags ask for, by the       *)
(* host's operation, where the helper follows it, or expanded.             *)
LEMMA GenBswap ==
    ASSUME Width, NEW m, Good(m), NEW r \in Temps, NEW a \in Temps,
           NEW len \in {2, 4, 8}, len * B <= n, NEW flags \in Flags(len),
           "IZ" \in flags => m.v[a] \subseteq Low(len * B),
           Has("bswap") /\ len * B < n =>
               "OZ" \in flags /\ (len = 2 => m.v[a] \subseteq Low(2 * B))
    PROVE  \E w : /\ Yields(tcg_gen_bswap(m, r, a, len, flags), m, r, w)
                  /\ w = Swapped(m.v[a], len, flags, w)
<1> DEFINE x == m.v[a]
<1>1. x \in Word /\ m.e = m.v
  BY TempsApart DEF Good
<1>2. /\ B \in Nat /\ B > 0 /\ n \in {4*B, 8*B}
      /\ len = 8 => n = 8*B
      /\ len = 2 => len * B < n
  BY BitsAssumption DEF Width
<1>3. len * B = n => flags = {}
  BY DEF Flags
<1>4. "OZ" \in flags => "OS" \notin flags
  <2>1. CASE len * B = n
    BY <1>3, <2>1
  <2>2. CASE len * B # n
    BY <2>2 DEF Flags
  <2> QED
    BY <2>1, <2>2
<1>5. Bswap(x, len) \in Word
  BY <1>1, WordsClosed
(* Where it is zero-extended, the swap is what the flags ask for.          *)
<1>6. "OZ" \in flags \/ ("OS" \notin flags /\ "OZ" \notin flags)
         => Swapped(x, len, flags, Bswap(x, len)) = Bswap(x, len)
  <2>1. Bswap(x, len) \ Low(len * B) = {}
    BY <1>1, BswapLow
  <2> QED
    BY <1>4, <2>1 DEF Swapped
<1>7. CASE Has("bswap")
  <2>1. sym_bswap(x, len) = Bswap(x, len)
    BY <1>1, <1>2, <1>7, SwapWords
  <2>2. Swapped(x, len, flags, {}) = Bswap(x, len)
    <3>1. "OZ" \in flags \/ flags = {}
      BY <1>2, <1>3, <1>7
    <3> QED
      BY <1>4, <3>1 DEF Swapped
  <2>3. tcg_gen_bswap(m, r, a, len, flags) = Do(m, r, Bswap(x, len))
    <3>1. tcg_gen_bswap(m, r, a, len, flags) = bswap(m, r, a, len, flags)
      BY <1>7 DEF tcg_gen_bswap
    <3> QED
      BY <1>1, <2>1, <2>2, <3>1 DEF bswap, Do
  <2>4. Yields(Do(m, r, Bswap(x, len)), m, r, Bswap(x, len))
    BY <1>5, Once
  <2>5. "OZ" \in flags \/ ("OS" \notin flags /\ "OZ" \notin flags)
    BY <1>2, <1>3, <1>7
  <2> QED
    BY <1>6, <2>3, <2>4, <2>5
<1>8. CASE ~Has("bswap") /\ len = 2
  <2>1. tcg_gen_bswap(m, r, a, len, flags) = GenSwap2(m, r, a, flags)
    BY <1>8 DEF tcg_gen_bswap
  <2>2. PICK w : w = LowHalf(x, flags) \cup HighHalf(x, flags)
    OBVIOUS
  <2>3. w = Swapped(x, 2, flags, w)
    BY <1>1, <1>8, <2>2, SwapHalves
  <2>4. Yields(GenSwap2(m, r, a, flags), m, r, w)
    BY <2>2, ExpandedSwap2
  <2> QED
    BY <1>8, <2>1, <2>3, <2>4
<1>9. CASE ~Has("bswap") /\ len = 4
  <2>1. tcg_gen_bswap(m, r, a, len, flags) = GenSwap4(m, r, a, flags)
    BY <1>9 DEF tcg_gen_bswap
  <2>2. PICK f : f = Exchange(x, B, EvenBytes4)
    OBVIOUS
  <2>3. PICK w : w = Shr(f, 2*B) \cup UpperPair(f, flags)
    OBVIOUS
  <2>4. Yields(GenSwap4(m, r, a, flags), m, r, w)
    BY <2>2, <2>3, ExpandedSwap4
  <2>5. CASE "OS" \in flags
    <3>1. n = 8*B
      BY <1>2, <1>3, <1>9, <2>5
    <3>2. w = Sext(Bswap(x, 4), 4)
      <4>1. w = Shr(f, 2*B) \cup Sar(Shl(f, 6*B), 4*B)
        BY <1>2, <2>3, <2>5, <3>1 DEF UpperPair
      <4> QED
        BY <1>1, <2>2, <3>1, <4>1, SwapSigned
    <3>3. Swapped(x, len, flags, w) = Sext(Bswap(x, 4), 4)
      BY <1>9, <2>5 DEF Swapped
    <3> QED
      BY <2>1, <2>4, <3>2, <3>3
  <2>6. CASE "OS" \notin flags
    <3>1. w = sym_bswap(x, 4)
      BY <2>2, <2>3, <2>6 DEF UpperPair, sym_bswap
    <3>2. w = Bswap(x, len)
      BY <1>1, <1>9, <3>1, SwapWords
    <3> QED
      BY <1>6, <2>1, <2>4, <2>6, <3>2
  <2> QED
    BY <2>5, <2>6
<1>10. CASE ~Has("bswap") /\ len = 8
  <2>1. tcg_gen_bswap(m, r, a, len, flags) = GenSwap8(m, r, a)
    BY <1>10 DEF tcg_gen_bswap
  <2>2. Yields(GenSwap8(m, r, a), m, r, Bswap(x, len))
    BY <1>1, <1>2, <1>10, ExpandedSwap8, SwapWords
  <2>3. flags = {}
    BY <1>2, <1>3, <1>10
  <2> QED
    BY <1>6, <2>1, <2>2, <2>3
<1> QED
  BY <1>7, <1>8, <1>9, <1>10

-------------------------------------------------------------------------------
(* The inductive invariant.  Each of its parts needs the others: a helper  *)
(* is exact only on words of the width, and an expansion yields one result *)
(* for value and expression only from values that are the documented ones. *)
IInv == TypeOK /\ ExpansionExact /\ HelpersExact

(* An expansion starts in a good machine that holds the documented values. *)
LEMMA MachineGood ==
    ASSUME IInv
    PROVE  Width /\ Good(Machine) /\ \A t \in Temps : Machine.v[t] = spec[t]
<1>1. /\ n \in {4 * B, 8 * B} /\ val \in [Temps -> Word]
      /\ val = spec /\ expr = val
  BY DEF IInv, TypeOK, ExpansionExact, HelpersExact
<1>2. /\ Machine.v = [t \in T |-> IF t \in Temps THEN val[t] ELSE {}]
      /\ Machine.e = [t \in T |-> IF t \in Temps THEN expr[t] ELSE {}]
  BY DEF Machine, T
<1>3. {} \in Word
  BY DEF Word
<1>4. Machine.v \in [T -> Word]
  BY <1>1, <1>2, <1>3
<1>5. Machine.e = Machine.v
  BY <1>1, <1>2
<1>6. \A t \in Temps : Machine.v[t] = spec[t]
  BY <1>1, <1>2 DEF T
<1> QED
  BY <1>1, <1>4, <1>5, <1>6 DEF Width, Good

(* A step that ends where an exact expansion does keeps the invariant.     *)
LEMMA Becomes ==
    ASSUME IInv, NEW r \in Temps, NEW o, NEW x, Yields(o, Machine, r, x), Become(o, r, x)
    PROVE  IInv'
<1>1. /\ n \in {4 * B, 8 * B} /\ host \in SUBSET Host /\ spec \in [Temps -> Word]
      /\ n' = n /\ host' = host
  BY DEF IInv, TypeOK, Become
<1>2. /\ o.v \in [T -> Word] /\ o.e = o.v /\ o.v[r] = x
      /\ \A t \in Temps \ {r} : o.v[t] = Machine.v[t]
  BY DEF Yields, Under, Good
<1>3. \A t \in Temps : Machine.v[t] = spec[t]
  BY MachineGood
<1>4. /\ val' = [t \in Temps |-> o.v[t]] /\ expr' = [t \in Temps |-> o.e[t]]
      /\ spec' = [spec EXCEPT ![r] = x]
  BY DEF Become
<1>5. val' \in [Temps -> Word] /\ expr' = val'
  BY <1>2, <1>4, TempsApart
<1>6. val' = spec'
  BY <1>1, <1>2, <1>3, <1>4
<1>7. Word' = Word
  BY <1>1 DEF Word, Bits
<1> QED
  BY <1>1, <1>5, <1>6, <1>7 DEF IInv, TypeOK, ExpansionExact, HelpersExact

(* The whole state stays exact: bits within the width, values as           *)
(* documented and expressions equal to the values, for every host, every   *)
(* byte size and every set of temporaries.                                 *)
THEOREM Invariant == Spec => []IInv
<1>1. Init => IInv
  <2>1. SUFFICES ASSUME Init PROVE IInv
    OBVIOUS
  <2>2. Words(n) \subseteq Word
    BY <2>1, WordsAssumption DEF Init, Word, Bits
  <2>3. val \in [Temps -> Word] /\ expr = val /\ spec = val
    BY <2>1, <2>2 DEF Init
  <2>4. n \in {4 * B, 8 * B} /\ host \in SUBSET Host
    BY <2>1, HostsAssumption DEF Init
  <2> QED
    BY <2>3, <2>4 DEF IInv, TypeOK, ExpansionExact, HelpersExact
<1>2. IInv /\ [Next]_vars => IInv'
  <2> SUFFICES ASSUME IInv, [Next]_vars PROVE IInv'
    OBVIOUS
  <2>1. Width /\ Good(Machine) /\ (\A t \in Temps : Machine.v[t] = spec[t]) /\ n \in Nat
    BY MachineGood, BitsAssumption DEF Width
  <2>2. CASE UNCHANGED vars
    BY <2>2 DEF vars, IInv, TypeOK, ExpansionExact, HelpersExact, Word, Bits
  <2>3. ASSUME NEW r \in Temps, NEW a \in Temps, NEW len \in ExtLens,
               DoExtu(r, a, len) \/ DoExts(r, a, len)
        PROVE  IInv'
    <3>1. r \in T /\ a \in T /\ Machine.v[a] \in Word /\ Machine.v[a] = spec[a]
      BY <2>1, TempsApart DEF Good
    <3>2. CASE DoExtu(r, a, len)
      <4>1. tcg_gen_extu(Machine, r, a, len) = Do(Machine, r, Zext(Machine.v[a], len))
        BY <2>1, <3>1, GenExtu
      <4>2. Zext(Machine.v[a], len) \in Word
        BY <3>1, WordsClosed
      <4>3. Yields(Do(Machine, r, Zext(Machine.v[a], len)), Machine, r,
                   Zext(Machine.v[a], len))
        BY <2>1, <4>2, Once
      <4>4. Become(tcg_gen_extu(Machine, r, a, len), r, Zext(spec[a], len))
        BY <3>2 DEF DoExtu
      <4> QED
        BY <3>1, <4>1, <4>3, <4>4, Becomes
    <3>3. CASE DoExts(r, a, len)
      <4>1. Yields(tcg_gen_exts(Machine, r, a, len), Machine, r, Sext(Machine.v[a], len))
        BY <2>1, <3>1, GenExts
      <4>2. Become(tcg_gen_exts(Machine, r, a, len), r, Sext(spec[a], len))
        BY <3>3 DEF DoExts
      <4> QED
        BY <3>1, <4>1, <4>2, Becomes
    <3> QED
      BY <2>3, <3>2, <3>3
  <2>4. ASSUME NEW r \in Temps, NEW a \in Temps, NEW k \in Bits,
               DoRotli(r, a, k) \/ DoRotri(r, a, k) \/ DoRotr(r, a, k)
        PROVE  IInv'
    <3>1. /\ a \in T /\ Machine.v[a] \in Word /\ Machine.v[a] = spec[a]
          /\ k \in 0..n /\ k \in 0..(n - 1)
      BY <2>1, TempsApart DEF Good, Bits
    <3>2. CASE DoRotli(r, a, k)
      <4>1. Yields(tcg_gen_rotli(Machine, r, a, k), Machine, r, Rotl(Machine.v[a], k))
        BY <2>1, <3>1, GenRotli
      <4>2. Become(tcg_gen_rotli(Machine, r, a, k), r, Rotl(spec[a], k))
        BY <3>2 DEF DoRotli
      <4> QED
        BY <3>1, <4>1, <4>2, Becomes
    <3>3. CASE DoRotri(r, a, k)
      <4>1. Yields(tcg_gen_rotri(Machine, r, a, k), Machine, r, Rotr(Machine.v[a], k))
        BY <2>1, <3>1, GenRotri
      <4>2. Become(tcg_gen_rotri(Machine, r, a, k), r, Rotr(spec[a], k))
        BY <3>3 DEF DoRotri
      <4> QED
        BY <3>1, <4>1, <4>2, Becomes
    <3>4. CASE DoRotr(r, a, k)
      <4>1. rotr(Machine, r, a, k) = Do(Machine, r, Rotr(Machine.v[a], k))
        BY <2>1, <3>1, HelperOps
      <4>2. Rotr(Machine.v[a], k) \in Word
        BY <3>1, WordsClosed
      <4>3. Yields(Do(Machine, r, Rotr(Machine.v[a], k)), Machine, r, Rotr(Machine.v[a], k))
        BY <2>1, <4>2, Once
      <4>4. Become(rotr(Machine, r, a, k), r, Rotr(spec[a], k))
        BY <3>4 DEF DoRotr
      <4> QED
        BY <3>1, <4>1, <4>3, <4>4, Becomes
    <3> QED
      BY <2>4, <3>2, <3>3, <3>4
  <2>5. ASSUME NEW r \in Temps, NEW a \in Temps, NEW ofs \in Bits, NEW len \in 1..n,
               \/ DoDepositZ(r, a, ofs, len) \/ DoExtract(r, a, ofs, len)
               \/ DoSextract(r, a, ofs, len)
        PROVE  IInv'
    <3>1. Machine.v[a] = spec[a] /\ ofs \in Nat /\ ofs + len <= n
      BY <2>1, <2>5 DEF Bits, DoDepositZ, DoExtract, DoSextract, Field
    <3>2. CASE DoDepositZ(r, a, ofs, len)
      <4>1. Yields(tcg_gen_deposit_z(Machine, r, a, ofs, len), Machine, r,
                   Deposit({}, Machine.v[a], ofs, len))
        BY <2>1, <3>1, GenDepositZ
      <4>2. Become(tcg_gen_deposit_z(Machine, r, a, ofs, len), r,
                   Deposit({}, spec[a], ofs, len))
        BY <3>2 DEF DoDepositZ
      <4> QED
        BY <3>1, <4>1, <4>2, Becomes
    <3>3. CASE DoExtract(r, a, ofs, len)
      <4>1. Yields(tcg_gen_extract(Machine, r, a, ofs, len), Machine, r,
                   Extract(Machine.v[a], ofs, len))
        BY <2>1, <3>1, GenExtract
      <4>2. Become(tcg_gen_extract(Machine, r, a, ofs, len), r, Extract(spec[a], ofs, len))
        BY <3>3 DEF DoExtract
      <4> QED
        BY <3>1, <4>1, <4>2, Becomes
    <3>4. CASE DoSextract(r, a, ofs, len)
      <4>1. Yields(tcg_gen_sextract(Machine, r, a, ofs, len), Machine, r,
                   Sextract(Machine.v[a], ofs, len))
        BY <2>1, <3>1, GenSextract
      <4>2. Become(tcg_gen_sextract(Machine, r, a, ofs, len), r, Sextract(spec[a], ofs, len))
        BY <3>4 DEF DoSextract
      <4> QED
        BY <3>1, <4>1, <4>2, Becomes
    <3> QED
      BY <2>5, <3>2, <3>3, <3>4
  <2>6. ASSUME NEW r \in Temps, NEW a \in Temps, NEW b \in Temps, NEW ofs \in Bits,
               NEW len \in 1..n, DoDeposit(r, a, b, ofs, len)
        PROVE  IInv'
    <3>1. /\ Machine.v[a] = spec[a] /\ Machine.v[b] = spec[b] /\ ofs \in Nat
          /\ ofs + len <= n /\ a \in Temps \cup {t0}
      BY <2>1, <2>6 DEF Bits, DoDeposit, Field
    <3>2. Yields(tcg_gen_deposit(Machine, r, a, b, ofs, len), Machine, r,
                 Deposit(Machine.v[a], Machine.v[b], ofs, len))
      BY <2>1, <3>1, GenDeposit
    <3>3. Become(tcg_gen_deposit(Machine, r, a, b, ofs, len), r,
                 Deposit(spec[a], spec[b], ofs, len))
      BY <2>6 DEF DoDeposit
    <3> QED
      BY <3>1, <3>2, <3>3, Becomes
  <2>7. ASSUME NEW r \in Temps, NEW al \in Temps, NEW ah \in Temps, NEW ofs \in 0..n,
               DoExtract2(r, al, ah, ofs)
        PROVE  IInv'
    <3>1. Machine.v[al] = spec[al] /\ Machine.v[ah] = spec[ah]
      BY <2>1
    <3>2. Yields(tcg_gen_extract2(Machine, r, al, ah, ofs), Machine, r,
                 Extract2(Machine.v[al], Machine.v[ah], ofs))
      BY <2>1, GenExtract2
    <3>3. Become(tcg_gen_extract2(Machine, r, al, ah, ofs), r,
                 Extract2(spec[al], spec[ah], ofs))
      BY <2>7 DEF DoExtract2
    <3> QED
      BY <3>1, <3>2, <3>3, Becomes
  <2>8. ASSUME NEW r \in Temps, NEW a \in Temps, NEW len \in {2, 4, 8},
               NEW flags \in Flags(len), DoBswap(r, a, len, flags)
        PROVE  IInv'
    <3>1. PICK o : o = tcg_gen_bswap(Machine, r, a, len, flags)
      OBVIOUS
    <3>2. /\ Machine.v[a] = spec[a] /\ len * B <= n
          /\ "IZ" \in flags => spec[a] \subseteq Low(len * B)
          /\ Has("bswap") /\ len * B < n =>
                "OZ" \in flags /\ (len = 2 => spec[a] \subseteq Low(2 * B))
          /\ Become(o, r, Swapped(spec[a], len, flags, o.v[r]))
      BY <2>1, <2>8, <3>1 DEF DoBswap, Bswaps, Followed
    <3>3. PICK w : Yields(o, Machine, r, w) /\ w = Swapped(Machine.v[a], len, flags, w)
      BY <2>1, <3>1, <3>2, GenBswap
    <3>4. o.v[r] = w
      BY <3>3 DEF Yields
    <3> QED
      BY <3>2, <3>3, <3>4, Becomes
  <2> QED
    BY <2>2, <2>3, <2>4, <2>5, <2>6, <2>7, <2>8 DEF Next
<1> QED
  BY <1>1, <1>2, PTL DEF Spec

(* No operation leaves a bit outside the width (the shifts of the          *)
(* expansions cut what they push out).                                     *)
THEOREM TypeCorrect == Spec => []TypeOK
<1>1. IInv => TypeOK
  BY DEF IInv
<1> QED
  BY <1>1, Invariant, PTL

(* Every expansion of tcg-op.c computes the documented field, on every     *)
(* host and with source and destination the same temporary.                *)
THEOREM Expansions == Spec => []ExpansionExact
<1>1. IInv => ExpansionExact
  BY DEF IInv
<1> QED
  BY <1>1, Invariant, PTL

(* Every sym_* bit-field helper builds an expression of the value beside   *)
(* which it runs; of the byte swaps, those that are expanded, with any     *)
(* flags, and those by the host whose result is zero-extended.             *)
THEOREM Helpers == Spec => []HelpersExact
<1>1. IInv => HelpersExact
  BY DEF IInv
<1> QED
  BY <1>1, Invariant, PTL
===============================================================================
