----------------------------- MODULE AluProofs -------------------------------
(***************************************************************************)
(* The arithmetic of the ALU for every operand, carry and size: what the   *)
(* conditional jumps and multiple-word arithmetic rest on.  Each size is a *)
(* case of its own, for the provers divide by numbers only.                *)
(***************************************************************************)
EXTENDS Alu, TLAPS

\* The widths as numbers.
LEMMA Cards ==
    /\ Card(8) = 256 /\ Card(16) = 65536 /\ Card(32) = 4294967296
    /\ Card(8) \div 2 = 128 /\ Card(16) \div 2 = 32768 /\ Card(32) \div 2 = 2147483648
<1>1. Card(8) = 256 /\ Card(16) = 65536 /\ Card(32) = 4294967296
  BY SMT DEF Card
<1>2. QED
  BY <1>1, SMT

\* A number and its low 16 bits.
LEMMA Low16 ==
    ASSUME NEW x \in Int
    PROVE  /\ x % 65536 \in Int /\ 0 <= x % 65536 /\ x % 65536 < 65536
           /\ x \div 65536 \in Int
           /\ x = 65536 * (x \div 65536) + (x % 65536)
BY SMT

\* The low 16 bits of a number known up to multiples of 2^16.
LEMMA LowOf16 ==
    ASSUME NEW x \in Int, NEW j \in Int, NEW r \in Int, x = 65536 * j + r,
           -65536 <= r, r < 65536
    PROVE  x % 65536 = IF r < 0 THEN r + 65536 ELSE r
BY SMT

\* The wrap of a difference of registers.
LEMMA Low32 ==
    ASSUME NEW y \in Int, -4294967296 <= y, y < 4294967296
    PROVE  y % 4294967296 = IF y < 0 THEN y + 4294967296 ELSE y
BY SMT

\* The low 16 bits of a difference are those of the difference of the low bits.
LEMMA Difference16 ==
    ASSUME NEW dest \in Nat, NEW src \in Nat, NEW cf \in 0 .. 1,
           dest < 4294967296, src < 4294967296
    PROVE  LET r == (dest % 65536) - (src % 65536) - cf
           IN  ((dest - src - cf) % 4294967296) % 65536 = IF r < 0 THEN r + 65536 ELSE r
<1> DEFINE d == dest % 65536
           s == src % 65536
           p == dest \div 65536
           q == src \div 65536
           y == dest - src - cf
           r == d - s - cf
<1>1. d \in Int /\ 0 <= d /\ d < 65536 /\ p \in Int /\ dest = 65536 * p + d
  BY Low16, SMT
<1>2. s \in Int /\ 0 <= s /\ s < 65536 /\ q \in Int /\ src = 65536 * q + s
  BY Low16, SMT
<1>3. y % 4294967296 = IF y < 0 THEN y + 4294967296 ELSE y
  BY Low32, SMT
<1>4. r \in Int /\ -65536 <= r /\ r < 65536
  BY <1>1, <1>2, SMT
<1> HIDE DEF d, s, p, q
<1>5. PICK j \in Int : y % 4294967296 = 65536 * j + r
  <2>1. CASE y < 0
    <3>1. y % 4294967296 = 65536 * (p - q + 65536) + r
      BY <2>1, <1>1, <1>2, <1>3, SMT
    <3>2. p - q + 65536 \in Int
      BY <1>1, <1>2, SMT
    <3>3. QED
      BY <3>1, <3>2, SMT
  <2>2. CASE ~(y < 0)
    <3>1. y % 4294967296 = 65536 * (p - q) + r
      BY <2>2, <1>1, <1>2, <1>3, SMT
    <3>2. p - q \in Int
      BY <1>1, <1>2, SMT
    <3>3. QED
      BY <3>1, <3>2, SMT
  <2>3. QED
    BY <2>1, <2>2, SMT
<1>6. y % 4294967296 \in Int
  BY <1>3, SMT
<1> HIDE DEF r, y
<1>7. (y % 4294967296) % 65536 = IF r < 0 THEN r + 65536 ELSE r
  BY <1>4, <1>5, <1>6, LowOf16, SMT
<1>8. QED
  BY <1>7, SMT DEF r, y, d, s

\* The carry and the overflow of a sum.
LEMMA SumFlags ==
    ASSUME NEW src \in UInt32, NEW dest \in UInt32, NEW cf \in Bit, NEW size \in Size
    PROVE  LET res == Wrap(dest + src + cf)
           IN  /\ Masked(res, size) + Card(size) * set_CF_adc(res, dest, cf, size)
                    = Masked(dest, size) + Masked(src, size) + cf
               /\ set_OF_add(res, src, dest, size) = 1 <=>
                    ~Representable(Signed(dest, size) + Signed(src, size) + cf, size)
<1> DEFINE res == Wrap(dest + src + cf)
<1> USE Cards
<1>1. CASE size = 8
  <2>1. /\ res = (dest + src + cf) % 4294967296 /\ Masked(res, size) = res % 256
        /\ Masked(src, size) = src % 256 /\ Masked(dest, size) = dest % 256
    BY <1>1, SMT DEF Wrap, Masked
  <2>2. Masked(res, size) + 256 * set_CF_adc(res, dest, cf, size)
           = Masked(dest, size) + Masked(src, size) + cf
    BY <1>1, <2>1, SMT DEF UInt32, Bit, set_CF_adc, sign_ext, Flag
  <2>3. set_OF_add(res, src, dest, size) = 1 <=>
           ~Representable(Signed(dest, size) + Signed(src, size) + cf, size)
    BY <1>1, <2>1, SMT DEF UInt32, Bit, set_OF_add, sign_ext, sign, Flag, Representable, Signed
  <2>4. QED
    BY <1>1, <2>2, <2>3, SMT
<1>2. CASE size = 16
  <2>1. /\ res = (dest + src + cf) % 4294967296 /\ Masked(res, size) = res % 65536
        /\ Masked(src, size) = src % 65536 /\ Masked(dest, size) = dest % 65536
    BY <1>2, SMT DEF Wrap, Masked
  <2>2. Masked(res, size) + 65536 * set_CF_adc(res, dest, cf, size)
           = Masked(dest, size) + Masked(src, size) + cf
    BY <1>2, <2>1, SMT DEF UInt32, Bit, set_CF_adc, sign_ext, Flag
  <2>3. set_OF_add(res, src, dest, size) = 1 <=>
           ~Representable(Signed(dest, size) + Signed(src, size) + cf, size)
    BY <1>2, <2>1, SMT DEF UInt32, Bit, set_OF_add, sign_ext, sign, Flag, Representable, Signed
  <2>4. QED
    BY <1>2, <2>2, <2>3, SMT
<1>3. CASE size = 32
  <2>1. /\ res = (dest + src + cf) % 4294967296 /\ Masked(res, size) = res
        /\ Masked(src, size) = src /\ Masked(dest, size) = dest
    BY <1>3, SMT DEF Wrap, Masked, UInt32, Bit
  <2>2. Masked(res, size) + 4294967296 * set_CF_adc(res, dest, cf, size)
           = Masked(dest, size) + Masked(src, size) + cf
    BY <1>3, <2>1, SMT DEF UInt32, Bit, set_CF_adc, sign_ext, Flag
  <2>3. set_OF_add(res, src, dest, size) = 1 <=>
           ~Representable(Signed(dest, size) + Signed(src, size) + cf, size)
    BY <1>3, <2>1, SMT DEF UInt32, Bit, set_OF_add, sign_ext, sign, Flag, Representable, Signed
  <2>4. QED
    BY <1>3, <2>2, <2>3, SMT
<1>4. QED
  BY <1>1, <1>2, <1>3, SMT DEF Size

\* The borrow and the overflow of a difference.
LEMMA DifferenceFlags ==
    ASSUME NEW src \in UInt32, NEW dest \in UInt32, NEW cf \in Bit, NEW size \in Size
    PROVE  LET res == Wrap(dest - src - cf)
           IN  /\ Masked(res, size) - Card(size) * set_CF_sbb(res, dest, cf, size)
                    = Masked(dest, size) - Masked(src, size) - cf
               /\ set_OF_sbb(res, src, dest, cf, size) = 1 <=>
                    ~Representable(Signed(dest, size) - Signed(src, size) - cf, size)
<1> DEFINE res == Wrap(dest - src - cf)
<1> USE Cards
<1>1. CASE size = 8
  <2>1. /\ res = (dest - src - cf) % 4294967296 /\ Masked(res, size) = res % 256
        /\ Masked(src, size) = src % 256 /\ Masked(dest, size) = dest % 256
    BY <1>1, SMT DEF Wrap, Masked
  <2>2. Masked(res, size) - 256 * set_CF_sbb(res, dest, cf, size)
           = Masked(dest, size) - Masked(src, size) - cf
    BY <1>1, <2>1, SMT DEF UInt32, Bit, set_CF_sbb, sign_ext, Flag
  <2>3. set_OF_sbb(res, src, dest, cf, size) = 1 <=>
           ~Representable(Signed(dest, size) - Signed(src, size) - cf, size)
    BY <1>1, <2>1, SMTT(60) DEF UInt32, Bit, set_OF_sbb, Unnegatable, sign_ext, sign, Wrap, Flag,
       Representable, Signed
  <2>4. QED
    BY <1>1, <2>2, <2>3, SMT
<1>2. CASE size = 16
  <2>1. /\ Masked(res, size) = ((dest - src - cf) % 4294967296) % 65536
        /\ Masked(src, size) = src % 65536 /\ Masked(dest, size) = dest % 65536
    BY <1>2, SMT DEF Wrap, Masked
  <2>2. /\ src \in Nat /\ dest \in Nat /\ cf \in 0 .. 1
        /\ src < 4294967296 /\ dest < 4294967296
    BY SMT DEF UInt32, Bit
  <2>3. LET r == Masked(dest, size) - Masked(src, size) - cf
        IN  Masked(res, size) = IF r < 0 THEN r + 65536 ELSE r
    <3>1. LET r == (dest % 65536) - (src % 65536) - cf
          IN  ((dest - src - cf) % 4294967296) % 65536 = IF r < 0 THEN r + 65536 ELSE r
      BY <2>2, Difference16
    <3>2. QED
      BY <2>1, <3>1, SMT
  <2>4. /\ Masked(src, size) \in Nat /\ Masked(src, size) < 65536
        /\ Masked(dest, size) \in Nat /\ Masked(dest, size) < 65536
    BY <2>1, <2>2, Low16, SMT
  <2>5. Masked(res, size) - 65536 * set_CF_sbb(res, dest, cf, size)
           = Masked(dest, size) - Masked(src, size) - cf
    BY <1>2, <2>2, <2>3, <2>4, SMT DEF set_CF_sbb, sign_ext, Flag
  <2>6. set_OF_sbb(res, src, dest, cf, size) = 1 <=>
           ~Representable(Signed(dest, size) - Signed(src, size) - cf, size)
    BY <1>2, <2>2, <2>3, <2>4, SMTT(60) DEF set_OF_sbb, Unnegatable, sign_ext, sign, Wrap, Flag,
       Representable, Signed
  <2>7. QED
    BY <1>2, <2>5, <2>6, SMT
<1>3. CASE size = 32
  <2>1. /\ res = (dest - src - cf) % 4294967296 /\ Masked(res, size) = res
        /\ Masked(src, size) = src /\ Masked(dest, size) = dest
    BY <1>3, SMT DEF Wrap, Masked, UInt32, Bit
  <2>2. Masked(res, size) - 4294967296 * set_CF_sbb(res, dest, cf, size)
           = Masked(dest, size) - Masked(src, size) - cf
    BY <1>3, <2>1, SMT DEF UInt32, Bit, set_CF_sbb, sign_ext, Flag
  <2>3. set_OF_sbb(res, src, dest, cf, size) = 1 <=>
           ~Representable(Signed(dest, size) - Signed(src, size) - cf, size)
    BY <1>3, <2>1, SMTT(60) DEF UInt32, Bit, set_OF_sbb, Unnegatable, sign_ext, sign, Wrap, Flag,
       Representable, Signed
  <2>4. QED
    BY <1>3, <2>2, <2>3, SMT
<1>4. QED
  BY <1>1, <1>2, <1>3, SMT DEF Size

\* What Wrap and the flags return.
LEMMA FlagsAreBits ==
    ASSUME NEW result, NEW src, NEW dest, NEW cf, NEW size
    PROVE  /\ set_CF_adc(result, src, cf, size) \in Bit
           /\ set_OF_add(result, src, dest, size) \in Bit
           /\ set_CF_sbb(result, dest, cf, size) \in Bit
           /\ set_OF_sbb(result, src, dest, cf, size) \in Bit
BY SMT DEF Bit, Flag, set_CF_adc, set_OF_add, set_CF_sbb, set_OF_sbb

-----------------------------------------------------------------------------
\* add and adc: the result with the carry as its highest bit is the sum, and
\* OF tells that the signed sum does not fit.
THEOREM AdcIsAddition ==
    ASSUME NEW src \in UInt32, NEW dest \in UInt32, NEW cf \in Bit, NEW size \in Size
    PROVE  LET r == alu_adc(src, dest, cf, size)
           IN  /\ r.res + Card(size) * r.CF = Unsigned(dest, size) + Unsigned(src, size) + cf
               /\ r.OF = 1 <=> ~Representable(Signed(dest, size) + Signed(src, size) + cf, size)
BY SumFlags, SMT DEF alu_adc, Unsigned

\* sub, sbb and cmp: CF is the borrow, and OF tells that the signed difference
\* does not fit, also where the subtrahend has no negative of its size.
THEOREM SbbIsSubtraction ==
    ASSUME NEW src \in UInt32, NEW dest \in UInt32, NEW cf \in Bit, NEW size \in Size
    PROVE  LET r == alu_sbb(src, dest, cf, size)
           IN  /\ r.res - Card(size) * r.CF = Unsigned(dest, size) - Unsigned(src, size) - cf
               /\ r.OF = 1 <=> ~Representable(Signed(dest, size) - Signed(src, size) - cf, size)
BY DifferenceFlags, SMT DEF alu_sbb, Unsigned

\* Two words at a time, as compilers add 64-bit numbers on this machine: add
\* the low words, adc the high ones.
THEOREM WideAddition ==
    ASSUME NEW src \in UInt32, NEW dest \in UInt32,
           NEW src_high \in UInt32, NEW dest_high \in UInt32
    PROVE  LET low  == alu_add(src, dest, 32)
               high == alu_adc(src_high, dest_high, low.CF, 32)
               M    == Card(32)
           IN  low.res + M * high.res + M * M * high.CF
                  = (dest + M * dest_high) + (src + M * src_high)
<1> DEFINE low  == alu_add(src, dest, 32)
           high == alu_adc(src_high, dest_high, low.CF, 32)
<1>1. low.CF \in Bit /\ high.CF \in Bit
  BY FlagsAreBits, SMT DEF alu_add, alu_adc
<1>2. low.res \in Int /\ high.res \in Int
  BY <1>1, Cards, SMT DEF alu_add, alu_adc, Masked, Wrap, UInt32, Bit
<1>3. low.res + Card(32) * low.CF = Unsigned(dest, 32) + Unsigned(src, 32) + 0
  <2>1. 0 \in Bit /\ 32 \in Size
    BY SMT DEF Bit, Size
  <2>2. QED
    BY <2>1, AdcIsAddition, SMT DEF alu_add
<1>4. high.res + Card(32) * high.CF
         = Unsigned(dest_high, 32) + Unsigned(src_high, 32) + low.CF
  <2>1. 32 \in Size
    BY SMT DEF Size
  <2>2. QED
    BY <2>1, <1>1, AdcIsAddition, SMT
<1>5. \A x \in UInt32 : Unsigned(x, 32) = x
  BY Cards, SMT DEF UInt32, Unsigned, Masked
<1> HIDE DEF low, high
<1>6. low.res + 4294967296 * low.CF = dest + src
  BY <1>3, <1>5, Cards, SMT DEF UInt32
<1>7. high.res + 4294967296 * high.CF = dest_high + src_high + low.CF
  BY <1>4, <1>5, Cards, SMT
<1> DEFINE M == Card(32)
           lo == low.res
           hi == high.res
           x == low.CF
           y == high.CF
<1>8. /\ M \in Int /\ lo \in Int /\ hi \in Int /\ x \in Int /\ y \in Int
      /\ src \in Int /\ dest \in Int /\ src_high \in Int /\ dest_high \in Int
  BY <1>1, <1>2, Cards, SMT DEF Bit, UInt32
<1>9. lo + M * x = dest + src /\ hi + M * y = dest_high + src_high + x
  BY <1>6, <1>7, Cards, SMT
<1> HIDE DEF M, lo, hi, x, y
<1>10. M * (hi + M * y) = M * (dest_high + src_high + x)
  BY <1>9
<1>11. M * (hi + M * y) = M * hi + M * M * y
  BY <1>8, SMT
<1>12. M * (dest_high + src_high + x) = M * dest_high + M * src_high + M * x
  BY <1>8, SMT
<1>13. /\ M * hi \in Int /\ M * M * y \in Int /\ M * x \in Int
       /\ M * dest_high \in Int /\ M * src_high \in Int
  BY <1>8, SMT
<1>14. lo + M * hi + M * M * y = (dest + M * dest_high) + (src + M * src_high)
  BY <1>8, <1>9, <1>10, <1>11, <1>12, <1>13, SMT
<1>15. QED
  BY <1>14, Zenon DEF M, lo, hi, y, low, high

\* After cmp every condition that jumps, setcc and cmov test says what its name
\* says of the two operands, b and a of unsigned numbers, l and g of signed ones.
THEOREM CompareConditions ==
    ASSUME NEW src \in UInt32, NEW dest \in UInt32, NEW size \in Size
    PROVE  LET f == alu_sub(src, dest, size)
               u == Unsigned(dest, size)  v == Unsigned(src, size)
               s == Signed(dest, size)    t == Signed(src, size)
           IN  /\ condition_e(f) <=> u = v
               /\ condition_ne(f) <=> u # v
               /\ condition_b(f) <=> u < v
               /\ condition_be(f) <=> u <= v
               /\ condition_a(f) <=> u > v
               /\ condition_ae(f) <=> u >= v
               /\ condition_l(f) <=> s < t
               /\ condition_le(f) <=> s <= t
               /\ condition_g(f) <=> s > t
               /\ condition_ge(f) <=> s >= t
<1> DEFINE f == alu_sub(src, dest, size)
           u == Unsigned(dest, size)
           v == Unsigned(src, size)
           s == Signed(dest, size)
           t == Signed(src, size)
<1>1. /\ f.res - Card(size) * f.CF = u - v - 0
      /\ f.OF = 1 <=> ~Representable(s - t - 0, size)
  <2>1. 0 \in Bit
    BY SMT DEF Bit
  <2>2. QED
    BY <2>1, SbbIsSubtraction, SMT DEF alu_sub
<1>2. f.CF \in {0, 1} /\ f.OF \in {0, 1}
  BY FlagsAreBits, SMT DEF alu_sub, alu_sbb, Bit
<1>3. /\ Card(size) \in {256, 65536, 4294967296}
      /\ Card(size) = 2 * (Card(size) \div 2)
  BY Cards, SMT DEF Size
<1>4. /\ u \in 0 .. Card(size) - 1 /\ v \in 0 .. Card(size) - 1
      /\ f.res \in 0 .. Card(size) - 1
  <2>1. Wrap(dest - src - 0) \in Int
    BY Cards, SMT DEF Wrap, UInt32
  <2>2. \A x \in Int : Masked(x, size) \in 0 .. Card(size) - 1
    BY Cards, SMT DEF Size, Masked
  <2>3. f.res = Masked(Wrap(dest - src - 0), size)
    BY SMT DEF alu_sub, alu_sbb
  <2>4. QED
    BY <2>1, <2>2, <2>3, Cards, SMT DEF Unsigned, UInt32
<1>5. /\ s = IF u < Card(size) \div 2 THEN u ELSE u - Card(size)
      /\ t = IF v < Card(size) \div 2 THEN v ELSE v - Card(size)
  BY SMT DEF Signed, Unsigned
<1>6. /\ f.ZF = 1 <=> f.res = 0
      /\ f.SF = 1 <=> f.res >= Card(size) \div 2
      /\ f.ZF \in {0, 1} /\ f.SF \in {0, 1}
  <2> DEFINE r == Wrap(dest - src - 0)
  <2>1. f.res = Masked(r, size) /\ f.ZF = set_ZF(r, size) /\ f.SF = set_SF(r, size)
    BY SMT DEF alu_sub, alu_sbb
  <2> HIDE DEF r
  <2>2. QED
    BY <2>1, <1>3, <1>4, Cards, SMT DEF set_ZF, set_SF, Flag, sign, sign_ext, Size
<1> HIDE DEF f, u, v, s, t
<1>7. /\ f.ZF = 1 <=> u = v
      /\ f.CF = 1 <=> u < v
  BY <1>1, <1>2, <1>3, <1>4, <1>6, SMT
<1>8. f.SF # f.OF <=> s < t
  <2>1. f.OF = 1 <=> ~(-(Card(size) \div 2) <= s - t /\ s - t < Card(size) \div 2)
    BY <1>1, <1>3, <1>4, <1>5, SMT DEF Representable
  <2>2. QED
    BY <2>1, <1>1, <1>2, <1>3, <1>4, <1>5, <1>6, SMT
<1>9. s = t <=> u = v
  BY <1>3, <1>4, <1>5, SMT
<1>10. s \in Int /\ t \in Int /\ u \in Int /\ v \in Int
  BY <1>3, <1>4, <1>5, SMT
<1>11. QED
  BY <1>2, <1>6, <1>7, <1>8, <1>9, <1>10, SMT DEF f, u, v, s, t, condition_e, condition_ne,
     condition_b, condition_be, condition_a, condition_ae, condition_l, condition_le,
     condition_g, condition_ge

-----------------------------------------------------------------------------
\* Products are exact, and CF and OF tell that the high half is not 0.
THEOREM MulIsMultiplication ==
    ASSUME NEW src \in UInt32, NEW dest \in UInt32, NEW size \in Size
    PROVE  LET r == alu_mul(src, dest, size)
           IN  /\ r.res = Unsigned(dest, size) * Unsigned(src, size)
               /\ r.CF = r.OF /\ (r.CF = 1 <=> r.res >= Card(size))
<1> DEFINE p == Masked(src, size) * Masked(dest, size)
<1>1. Masked(src, size) \in Nat /\ Masked(dest, size) \in Nat
  BY Cards, SMT DEF Size, Masked, UInt32
<1>2. p \in Nat /\ p = Masked(dest, size) * Masked(src, size)
  BY <1>1, SMT
<1> HIDE DEF p
<1>3. Flag(p \div Card(size) # 0) = 1 <=> p >= Card(size)
  BY <1>2, Cards, SMT DEF Size, Flag
<1>4. /\ alu_mul(src, dest, size).res = p
      /\ alu_mul(src, dest, size).CF = Flag(p \div Card(size) # 0)
      /\ alu_mul(src, dest, size).OF = Flag(p \div Card(size) # 0)
  BY Zenon DEF alu_mul, p
<1>5. QED
  BY <1>2, <1>3, <1>4, Zenon DEF Unsigned

\* Quotient and remainder of natural numbers.
LEMMA Division ==
    ASSUME NEW a \in Nat, NEW b \in Nat \ {0}
    PROVE  /\ a \div b \in Nat /\ a % b \in Nat /\ a % b < b
           /\ a = b * (a \div b) + (a % b) /\ a \div b <= a
<1> DEFINE q == a \div b
<1>1. q \in Nat /\ a % b \in Nat /\ a % b < b /\ a = b * q + (a % b)
  BY SMT
<1> HIDE DEF q
<1>2. (b - 1) * q \in Nat /\ b * q = (b - 1) * q + q
  BY <1>1, SMT
<1>3. q <= a
  BY <1>1, <1>2, SMT
<1>4. QED
  BY <1>1, <1>3, Zenon DEF q

\* div and its remainder rebuild the dividend exactly when it has no high half:
\* alu_div drops that half, which its callers have put together for it, and
\* alu_mod does not.
THEOREM DivisionOfLowHalf ==
    ASSUME NEW size \in Size, NEW src \in Nat \ {0}, src < Card(size), NEW dest \in Nat
    PROVE  alu_div(src, dest, size) * src + alu_mod(src, dest) = dest <=> dest < Card(size)
<1> DEFINE low  == Masked(dest, size)
           q    == low \div src
           r    == dest % src
           high == dest \div Card(size)
<1>1. Card(size) \in Nat \ {0} /\ Masked(src, size) = src
  BY Cards, SMT DEF Size, Masked
<1>2. low \in Nat /\ high \in Nat /\ (dest < Card(size) => low = dest)
  BY Cards, SMT DEF Size, Masked
<1>3. dest = Card(size) * high + low
  BY <1>1, Division DEF Masked
<1>4. r \in Nat /\ r < src
  BY Division
<1>5. q \in Nat /\ low % src \in Nat /\ low % src < src /\ low = src * q + (low % src)
  BY <1>2, Division
<1>6. alu_div(src, dest, size) = q /\ alu_mod(src, dest) = r
  BY <1>1 DEF alu_div, alu_mod
<1>7. src * q = q * src /\ q * src \in Nat
  BY <1>5, SMT
<1>8. ASSUME dest < Card(size)
      PROVE  q * src + r = dest
  BY <1>2, <1>5, <1>7, <1>8, SMT
<1> HIDE DEF low, q, r, high
<1>9. ASSUME q * src + r = dest
      PROVE  dest < Card(size)
  <2>1. Card(size) * high < src
    BY <1>1, <1>2, <1>3, <1>4, <1>5, <1>7, <1>9, SMT
  <2>2. high >= 1 => Card(size) * high >= Card(size)
    BY <1>2, Cards, SMT DEF Size
  <2>3. high = 0
    BY <1>1, <1>2, <2>1, <2>2, SMT
  <2>4. low < Card(size)
    BY Cards, SMT DEF low, Masked, Size
  <2>5. QED
    BY <1>1, <1>2, <1>3, <2>3, <2>4, SMT
<1>10. QED
  BY <1>6, <1>8, <1>9

\* A number of the size is what its bits stand for.
LEMMA SignedOfRepresentable ==
    ASSUME NEW size \in Size, NEW i \in Int, Representable(i, size)
    PROVE  Signed(i, size) = i
BY Cards, SMT DEF Size, Signed, Masked, Representable

\* idiv of a dividend that fits its low half: quotient and remainder rebuild it,
\* the remainder is smaller than the divisor and has the dividend's sign.
THEOREM SignedDivision ==
    ASSUME NEW size \in Size, NEW src \in Int \ {0}, NEW dest \in Int,
           Representable(src, size), Representable(dest, size),
           ~(size = 32 /\ dest = -2147483648 /\ src = -1)
    PROVE  LET q == alu_idiv(src, dest, size)
               r == alu_imod(src, dest)
           IN  /\ q * src + r = dest
               /\ Magnitude(r) < Magnitude(src)
               /\ r # 0 => (r > 0 <=> dest > 0)
<1> DEFINE m == Magnitude(dest)
           n == Magnitude(src)
           k == m \div n
           c == m % n
           t == Truncated(dest, src)
<1>1. m \in Nat /\ n \in Nat \ {0}
  BY SMT DEF Magnitude
<1>2. k \in Nat /\ c \in Nat /\ c < n /\ m = n * k + c /\ k <= m
  BY <1>1, Division
<1>3. t = IF dest >= 0 <=> src > 0 THEN k ELSE -k
  BY SMT DEF Truncated
<1> HIDE DEF k, c, t
<1>4. src * t = (IF dest >= 0 THEN n * k ELSE -(n * k)) /\ src * t \in Int /\ n * k \in Int
  <2>1. n = (IF src < 0 THEN -src ELSE src) /\ src * k \in Int /\ (-src) * k = -(src * k)
        /\ src * (-k) = -(src * k)
    BY <1>2, SMT DEF Magnitude
  <2>2. QED
    BY <1>2, <1>3, <2>1, SMT
<1>5. dest - src * t = IF dest >= 0 THEN c ELSE -c
  BY <1>1, <1>2, <1>4, SMT DEF Magnitude
<1>6. alu_idiv(src, dest, size) = t
  <2>1. Representable(t, 32)
    <3>1. CASE n = 1
      BY <3>1, <1>1, <1>2, <1>3, Cards, SMT DEF Size, Magnitude, Representable
    <3>2. CASE n # 1
      BY <3>2, <1>1, <1>2, <1>3, Cards, SMT DEF Size, Magnitude, Representable
    <3>3. QED
      BY <3>1, <3>2
  <2>2. t \in Int
    BY <1>2, <1>3, SMT
  <2>3. Signed(t, 32) = t
    BY <2>1, <2>2, SignedOfRepresentable DEF Size
  <2>4. QED
    BY <2>3, SignedOfRepresentable DEF alu_idiv, t
<1>7. alu_imod(src, dest) = dest - src * t
  BY DEF alu_imod, t
<1>8. t * src = src * t
  BY <1>2, <1>3, SMT
<1>9. QED
  BY <1>2, <1>4, <1>5, <1>6, <1>7, <1>8, SMT DEF Magnitude
=============================================================================
