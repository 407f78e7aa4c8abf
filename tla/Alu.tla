-------------------------------- MODULE Alu ---------------------------------
(***************************************************************************)
(* Sums, differences, products and quotients with the flags they set       *)
(* (nemu/src/cpu/alu.c), and the conditions of the jumps that look at the  *)
(* flags.                                                                  *)
(*                                                                         *)
(* Pure operators: an operation is the record of its result and the flags. *)
(* Operands are whole 32-bit registers: with operands of 8 or 16 bits the  *)
(* rest of the register is whatever the guest left there.                  *)
(***************************************************************************)
EXTENDS Integers, FiniteSets

Size == {8, 16, 32}                    \* data_size, in bits

\* 2^size.
Card(size) == IF size = 8 THEN 256 ELSE IF size = 16 THEN 65536 ELSE 4294967296

UInt32 == 0 .. Card(32) - 1
Bit == {0, 1}

\* C's arithmetic on uint32_t.
Wrap(x) == x % Card(32)

\* x & (0xFFFFFFFF >> (32 - size)).
Masked(x, size) == x % Card(size)

-----------------------------------------------------------------------------
sign(x) == IF x < Card(32) \div 2 THEN 0 ELSE 1

\* sign_ext, of the masked value.
sign_ext(x, size) ==
    IF Masked(x, size) < Card(size) \div 2 THEN Masked(x, size)
    ELSE Masked(x, size) + Card(32) - Card(size)

Flag(b) == IF b THEN 1 ELSE 0

set_ZF(result, size) == Flag(sign_ext(result, size) = 0)
set_SF(result, size) == sign(sign_ext(result, size))
set_PF(result) == Flag(Cardinality({k \in 0 .. 7 : (result \div (2 ^ k)) % 2 = 1}) % 2 = 0)

\* set_CF_add is this with cf = 0.
set_CF_adc(result, src, cf, size) ==
    LET r == sign_ext(result, size)  s == sign_ext(src, size)
    IN  Flag(IF cf = 1 THEN r <= s ELSE r < s)

set_OF_add(result, src, dest, size) ==
    LET r == sign(sign_ext(result, size))
        s == sign(sign_ext(src, size))
        d == sign(sign_ext(dest, size))
    IN  Flag(s = d /\ s # r)

\* set_CF_sub is this with cf = 0.
set_CF_sbb(result, dest, cf, size) ==
    LET r == sign_ext(result, size)  d == sign_ext(dest, size)
    IN  Flag(IF cf = 1 THEN r >= d ELSE r > d)

\* The constant that src, already sign-extended, is compared with.
Unnegatable(size) == Card(size) \div 2

\* set_OF_sub is this with cf = 0.
set_OF_sbb(result, src, dest, cf, size) ==
    LET s == sign_ext(src, size)
        d == sign_ext(dest, size)
        negated == Wrap(Card(32) - s - cf)
    IN  IF s = Unnegatable(size)
        THEN Flag(sign(d) = 0 /\ (cf = 1 => d # 0))
        ELSE Flag(sign(negated) = sign(d) /\ sign(d) # sign(sign_ext(result, size)))

-----------------------------------------------------------------------------
alu_adc(src, dest, cf, size) ==
    LET res == Wrap(dest + src + cf)
    IN  [res |-> Masked(res, size),
         CF |-> set_CF_adc(res, dest, cf, size), PF |-> set_PF(res),
         ZF |-> set_ZF(res, size), SF |-> set_SF(res, size),
         OF |-> set_OF_add(res, src, dest, size)]

alu_add(src, dest, size) == alu_adc(src, dest, 0, size)

alu_sbb(src, dest, cf, size) ==
    LET res == Wrap(dest - src - cf)
    IN  [res |-> Masked(res, size),
         CF |-> set_CF_sbb(res, dest, cf, size), PF |-> set_PF(res),
         ZF |-> set_ZF(res, size), SF |-> set_SF(res, size),
         OF |-> set_OF_sbb(res, src, dest, cf, size)]

alu_sub(src, dest, size) == alu_sbb(src, dest, 0, size)

-----------------------------------------------------------------------------
(* Products and quotients.  A product of two 32-bit numbers fits in 64 bits *)
(* and nothing wraps.  The flags of imul, which the guide leaves untested,  *)
(* are left out, and so is the assertion that src is not 0.                 *)

alu_mul(src, dest, size) ==
    LET res == Masked(src, size) * Masked(dest, size)
        high == Flag(res \div Card(size) # 0)
    IN  [res |-> res, CF |-> high, OF |-> high]

\* Although dest has 64 bits, and its callers pass it the whole dividend.
alu_div(src, dest, size) == Masked(dest, size) \div Masked(src, size)

alu_mod(src, dest) == dest % src

\* sign_ext_64 of the masked value, as an int64_t.
Signed(x, size) ==
    IF Masked(x, size) < Card(size) \div 2 THEN Masked(x, size)
    ELSE Masked(x, size) - Card(size)

Magnitude(i) == IF i < 0 THEN -i ELSE i

\* C's division of signed integers.
Truncated(a, b) ==
    LET q == Magnitude(a) \div Magnitude(b)
    IN  IF a >= 0 <=> b > 0 THEN q ELSE -q

\* The result is an int32_t.
alu_idiv(src, dest, size) == Signed(Truncated(Signed(dest, size), Signed(src, size)), 32)

alu_imod(src, dest) == dest - src * Truncated(dest, src)

-----------------------------------------------------------------------------
(* The conditions of jcc, setcc and cmov, on flags f.                      *)

condition_e(f)  == f.ZF = 1
condition_ne(f) == f.ZF = 0
condition_b(f)  == f.CF = 1
condition_ae(f) == f.CF = 0
condition_be(f) == f.CF = 1 \/ f.ZF = 1
condition_a(f)  == f.CF = 0 /\ f.ZF = 0
condition_l(f)  == f.SF # f.OF
condition_ge(f) == f.SF = f.OF
condition_le(f) == f.ZF = 1 \/ f.SF # f.OF
condition_g(f)  == f.ZF = 0 /\ f.SF = f.OF

-----------------------------------------------------------------------------
(* The reference: what an operand stands for.                              *)

Unsigned(x, size) == Masked(x, size)

Representable(i, size) == -(Card(size) \div 2) <= i /\ i < Card(size) \div 2
=============================================================================
