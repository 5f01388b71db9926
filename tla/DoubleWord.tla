------------------------------ MODULE DoubleWord ------------------------------
(***************************************************************************)
(* Two-word integers (gcc/fold-const.c): how the compiler computes with    *)
(* integers twice as wide as HOST_WIDE_INT.                                *)
(*                                                                         *)
(* An integer is a low word `l' and a high word `h'; both are written here *)
(* by their bits, as numbers below 2^W, and the code's signed and unsigned *)
(* readings of h are Neg(h) and h.  Multiplication and division work on    *)
(* four digits of half a word.  An operator whose C function also returns  *)
(* whether it overflowed has a field `overflow' in its result.             *)
(***************************************************************************)
EXTENDS Integers

CONSTANT W     \* HOST_BITS_PER_WIDE_INT

ASSUME WordAssumption == W \in Nat /\ W > 0 /\ W % 2 = 0

Modulus == 2^W
HalfMod == 2^(W \div 2)       \* BASE
SignBit == 2^(W - 1)

Word == 0 .. Modulus - 1
Dbl(l, h) == [l |-> l, h |-> h]
Double == [l : Word, h : Word]

Neg(h)   == h >= SignBit
LowPart(x)  == x % HalfMod
HighPart(x) == x \div HalfMod
OnesAbove(k) == Modulus - 2^k      \* (-1) << k in a word

(* encode and decode; digit 0 is the lowest. *)
Encode(x) ==
  LET ds == <<LowPart(x.l), HighPart(x.l), LowPart(x.h), HighPart(x.h)>>
  IN  [i \in 0 .. 3 |-> ds[i + 1]]

Decode(ds, k) == Dbl((ds[k] + ds[k + 1] * HalfMod) % Modulus,
                     (ds[k + 2] + ds[k + 3] * HalfMod) % Modulus)

Word1 == Dbl(1, 0)
Word2 == Dbl(2, 0)
Zero  == Dbl(0, 0)
MinusOne == Dbl(Modulus - 1, Modulus - 1)

(* for (i = 0; i < n; i++) s = Step (s, i);  and from n - 1 down to 0. *)
Up(Step(_, _), s, n) ==
  LET after[k \in 0 .. n] == IF k = 0 THEN s ELSE Step(after[k - 1], k - 1)
  IN  after[n]

Down(Step(_, _), s, n) == Up(LAMBDA t, k : Step(t, n - 1 - k), s, n)

-----------------------------------------------------------------------------
(* OVERFLOW_SUM_SIGN *)
SumOverflows(a, b, sum) == (Neg(a) <=> Neg(b)) /\ ~(Neg(a) <=> Neg(sum))

AddDouble(x, y) ==
  LET l == (x.l + y.l) % Modulus
      h == (x.h + y.h + (IF l < x.l THEN 1 ELSE 0)) % Modulus
  IN  [l |-> l, h |-> h, overflow |-> SumOverflows(x.h, y.h, h)]

NegDouble(x) ==
  IF x.l = 0
  THEN LET h == (Modulus - x.h) % Modulus
       IN  [l |-> 0, h |-> h, overflow |-> Neg(h) /\ Neg(x.h)]
  ELSE [l |-> Modulus - x.l, h |-> Modulus - 1 - x.h, overflow |-> FALSE]

Words(s)   == Dbl(s.l, s.h)      \* without the overflow
Plus(x, y) == Words(AddDouble(x, y))
Negated(x) == Words(NegDouble(x))

(* The eight digits of the product. *)
DigitProduct(a, b) ==
  LET row(p, i) ==
        LET s == Up(LAMBDA t, j :
                   LET sum == t.carry + a[i] * b[j] + t.prod[i + j]
                   IN  [prod  |-> [t.prod EXCEPT ![i + j] = LowPart(sum)],
                        carry |-> HighPart(sum)],
                   [prod |-> p, carry |-> 0], 4)
        IN  [s.prod EXCEPT ![i + 4] = s.carry]
  IN  Up(row, [k \in 0 .. 7 |-> 0], 4)

(* Fault: the top half is not corrected for negative operands. *)
SignedTop_Unsigned(x, y, top) == top

(* The top half of the signed product, given that of the unsigned one. *)
SignedTop(x, y, top) ==
  LET less(t, neg, z) == IF neg THEN Plus(Negated(z), t) ELSE t
  IN  less(less(top, Neg(x.h), y), Neg(y.h), x)

(* The product with the digits p. *)
Product(x, y, p) ==
  LET low == Decode(p, 0)
  IN  [l |-> low.l, h |-> low.h,
       overflow |-> SignedTop(x, y, Decode(p, 4)) #
                      (IF Neg(low.h) THEN MinusOne ELSE Zero)]

(* "Check for overflow by calculating the top half of the answer in full; it
   should agree with the low half's sign bit." *)
MulDouble(x, y) == Product(x, y, DigitProduct(Encode(x), Encode(y)))

Times(x, y) == Words(MulDouble(x, y))

-----------------------------------------------------------------------------
(* The bits beyond position n are those of the mask, 0 or all ones. *)
Filled(x, n, ones) ==
  LET mask == IF ones THEN Modulus - 1 ELSE 0
  IN  IF n >= 2 * W THEN x
      ELSE IF n >= W
      THEN Dbl(x.l, (x.h % 2^(n - W)) + (IF ones THEN OnesAbove(n - W) ELSE 0))
      ELSE Dbl((x.l % 2^n) + (IF ones THEN OnesAbove(n) ELSE 0), mask)

Bit(x, n) == IF n >= W THEN (x.h \div 2^(n - W)) % 2 = 1
                       ELSE (x.l \div 2^n) % 2 = 1

(* Fault: the bits beyond the precision are filled, not those beyond what the
   shift leaves of it. *)
RshiftDouble_FillAtPrec(x, count, prec, arith) ==
  LET ones    == arith /\ Neg(x.h)
      shifted == IF count >= 2 * W THEN Zero
                 ELSE IF count >= W THEN Dbl(x.h \div 2^(count - W), 0)
                 ELSE Dbl((x.l \div 2^count) + ((x.h * 2^(W - count)) % Modulus),
                          x.h \div 2^count)
  IN  Filled(shifted, prec, ones)

RshiftDouble(x, count, prec, arith) ==
  LET ones    == arith /\ Neg(x.h)
      shifted == IF count >= 2 * W THEN Zero
                 ELSE IF count >= W THEN Dbl(x.h \div 2^(count - W), 0)
                 ELSE Dbl((x.l \div 2^count) + ((x.h * 2^(W - count)) % Modulus),
                          x.h \div 2^count)
  IN  IF count >= prec
      THEN IF ones THEN MinusOne ELSE Zero
      ELSE Filled(shifted, prec - count, ones)

(* A negative count shifts right.  "Sign extend all bits that are beyond the
   precision." *)
LshiftDouble(x, count, prec, arith) ==
  LET shifted == IF count >= 2 * W THEN Zero
                 ELSE IF count >= W
                 THEN Dbl(0, (x.l * 2^(count - W)) % Modulus)
                 ELSE Dbl((x.l * 2^count) % Modulus,
                          ((x.h * 2^count) % Modulus) + (x.l \div 2^(W - count)))
  IN  IF count < 0 THEN RshiftDouble(x, -count, prec, arith)
      ELSE Filled(shifted, prec, Bit(shifted, prec - 1))

(* lrotate_double: the two parts have no bit in common, so that their union is
   their sum. *)
LrotateDouble(x, count, prec) ==
  LET c == count % prec
  IN  Plus(LshiftDouble(x, c, prec, FALSE),
           RshiftDouble(x, prec - c, prec, FALSE))

-----------------------------------------------------------------------------
(* Division of the digits of x by a divisor below HalfMod. *)
ShortQuotient(x, den) ==
  Down(LAMBDA t, i :
         LET work == t.num[i] + t.carry * HalfMod
         IN  [t EXCEPT !.quo[i] = work \div den, !.carry = work % den],
       [num |-> Encode(x), carry |-> 0, quo |-> [i \in 0 .. 3 |-> 0]], 4).quo

Scaled(ds, scale) ==
  Up(LAMBDA t, i :
       LET work == ds[i] * scale + t.carry
       IN  [t EXCEPT !.ds[i] = LowPart(work), !.carry = HighPart(work)],
     [ds |-> ds, carry |-> 0], 4)

(* The guess of a quotient digit from the first two digits of what is left,
   refined so that it is at most one high. *)
QuoEst(num, den, hi, n) ==
  LET work == num[n] * HalfMod + num[n - 1]
      est  == IF num[n] # den[hi] THEN work \div den[hi] ELSE HalfMod - 1
      tmp  == (work - est * den[hi]) % Modulus
  IN  IF tmp < HalfMod /\ den[hi - 1] * est > tmp * HalfMod + num[n - 2]
      THEN est - 1 ELSE est

(* The divisor times est is taken from the digits of num from i on. *)
Subtracted(num, est, i, den, hi) ==
  Up(LAMBDA s, j :
       LET work == est * den[j] + s.carry
           diff == (s.num[i + j] - LowPart(work)) % Modulus
       IN  [num   |-> [s.num EXCEPT ![i + j] = LowPart(diff)],
            carry |-> HighPart(work) + (IF HighPart(diff) # 0 THEN 1 ELSE 0)],
     [num |-> num, carry |-> 0], hi + 1)

AddedBack(num, i, den, hi) ==
  Up(LAMBDA s, j :
       LET work == s.num[i + j] + den[j] + s.carry
       IN  [num   |-> [s.num EXCEPT ![i + j] = LowPart(work)],
            carry |-> HighPart(work)],
     [num |-> num, carry |-> 0], hi + 1)

(* Fault: a guess that is one high is not corrected. *)
Corrected_NoAddBack(quo, i, den, hi, est, sub) ==
  [num |-> sub.num, quo |-> [quo EXCEPT ![i] = est]]

(* If the guess was one high, the divisor is added back once. *)
Corrected(quo, i, den, hi, est, sub) ==
  LET n   == i + hi + 1
      add == AddedBack(sub.num, i, den, hi)
  IN  IF sub.num[n] < sub.carry
      THEN [num |-> [add.num EXCEPT ![n] = @ + add.carry],
            quo |-> [quo EXCEPT ![i] = est - 1]]
      ELSE [num |-> sub.num, quo |-> [quo EXCEPT ![i] = est]]

(* One turn of the main loop, with the guess est. *)
Guessed(t, i, den, hi, est) ==
  Corrected(t.quo, i, den, hi, est, Subtracted(t.num, est, i, den, hi))

DigitStep(t, i, den, hi) ==
  Guessed(t, i, den, hi, QuoEst(t.num, den, hi, i + hi + 1))

TopDigit(ds) == CHOOSE i \in DOMAIN ds :
                  ds[i] # 0 /\ \A j \in DOMAIN ds : j > i => ds[j] = 0

(* num and den are scaled so that den's top digit is at least half BASE. *)
ScaledQuotient(num, den, hi) ==
  Down(LAMBDA t, i : DigitStep(t, i, den, hi),
       [num |-> [k \in 0 .. 4 |-> IF k = 4 THEN num.carry ELSE num.ds[k]],
        quo |-> [i \in 0 .. 3 |-> 0]],
       4 - hi).quo

(* "Full double precision division, with thanks to Don Knuth's
   `Seminumerical Algorithms'." *)
LongQuotient(num, den, hi) ==
  LET scale == HalfMod \div (den[hi] + 1)
  IN  ScaledQuotient(Scaled(num, scale), Scaled(den, scale).ds, hi)

UnsignedQuotient(x, y) ==
  IF x.h = 0 /\ y.h = 0 THEN Dbl(x.l \div y.l, 0)
  ELSE IF x.h = 0 THEN Zero
  ELSE IF y.h = 0 /\ y.l < HalfMod THEN Decode(ShortQuotient(x, y.l), 0)
  ELSE Decode(LongQuotient(Encode(x), Encode(y), TopDigit(Encode(y))), 0)

Below(x, y) == x.h < y.h \/ (x.h = y.h /\ x.l < y.l)

Magnitude(x)  == IF Neg(x.h) THEN Negated(x) ELSE x
Rest(x, y, q) == Plus(x, Negated(Times(q, y)))

(* The quotient rounded as the code asks for; rem is what is left of the
   dividend, den the divisor's absolute value. *)
RoundedQuotient(code, quoneg, quo, rem, den) ==
  LET half == code = "round"
                /\ Below(Magnitude(den), Times(Word2, Magnitude(rem)))
  IN  CASE \/ code = "floor" /\ quoneg /\ rem # Zero
           \/ half /\ Neg(quo.h)                      -> Plus(quo, MinusOne)
        [] \/ code = "ceil" /\ ~quoneg /\ rem # Zero
           \/ half /\ ~Neg(quo.h)                     -> Plus(quo, Word1)
        [] OTHER                                       -> quo

WithRemainder(x, y, q, over) ==
  [quo |-> q, rem |-> Rest(x, y, q), overflow |-> over]

(* div_and_round_double of x by y, for operands whose signs are known; y0 is
   the divisor as it was given. *)
DivideSigned(code, negx, negy, x, y, y0, over) ==
  LET den    == IF negy THEN Negated(y) ELSE y
      quoneg == negx # negy
      signed(q) == IF quoneg THEN Negated(q) ELSE q
      finish(q) == WithRemainder(x, y0,
                     RoundedQuotient(code, quoneg, q, Rest(x, y0, q), den), over)
  IN  finish(signed(UnsignedQuotient(IF negx THEN Negated(x) ELSE x, den)))

(* A divisor of zero becomes one, with overflow.  `rem' is the remainder that
   goes with the rounded quotient. *)
DivAndRoundDouble(code, uns, x, y) ==
  LET zero == y = Zero
      den  == IF zero THEN Word1 ELSE y
      negx == ~uns /\ Neg(x.h)
      negy == ~uns /\ Neg(den.h)
  IN  DivideSigned(code, negx, negy, x, den, y,
        zero \/ (negx /\ NegDouble(x).overflow /\ den = MinusOne))
=============================================================================
