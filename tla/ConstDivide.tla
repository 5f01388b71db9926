----------------------------- MODULE ConstDivide -----------------------------
(***************************************************************************)
(* Division by a constant without a division (gcc/expmed.c:                *)
(* expand_divmod, choose_multiplier, invert_mod2n).                        *)
(*                                                                         *)
(* expand_divmod looks at the divisor and emits shifts, additions and a    *)
(* multiplication by a multiplier that choose_multiplier computes with     *)
(* two-word integers.  The insns emitted are a record here: which sequence *)
(* it is, and the constants in it.  Result gives what they compute.        *)
(*                                                                         *)
(* Operands are numbers below 2^size, the bits of the register.  Left out  *)
(* are the ways to emit the sequences that do not depend on the divisor,   *)
(* the tests of their costs, and divisions the machine does itself.        *)
(***************************************************************************)
EXTENDS Integers

CONSTANTS
  HostBits,    \* HOST_BITS_PER_WIDE_INT
  Sizes        \* the sizes of the modes divided in

ASSUME SizesAssumption ==
  HostBits \in Nat /\ HostBits % 2 = 0 /\ Sizes \subseteq 2 .. HostBits

H == INSTANCE DoubleWord WITH W <- HostBits

VARIABLE emitted   \* the division asked for and the insns emitted for it

-----------------------------------------------------------------------------
CeilLog2(d)  == CHOOSE k \in 0 .. HostBits :
                  2^k >= d /\ \A j \in 0 .. k - 1 : 2^j < d
FloorLog2(d) == CHOOSE k \in 0 .. HostBits : 2^k <= d /\ d < 2^(k + 1)
PowerOf2(d)  == d > 0 /\ 2^FloorLog2(d) = d
Evenness(d)  == CHOOSE k \in 0 .. HostBits :      \* floor_log2 (d & -d)
                  d % 2^k = 0 /\ d % 2^(k + 1) # 0

PowerWide(k) == IF k >= HostBits THEN H!Dbl(0, 2^(k - HostBits))
                                 ELSE H!Dbl(2^k, 0)

Halved(x) == H!Dbl(((x.h * 2^(HostBits - 1)) % 2^HostBits) + (x.l \div 2), 0)

(* "Reduce to lowest terms" *)
Reduced(low, high, lgup) ==
  LET turn[k \in 0 .. lgup] ==
        IF k = lgup THEN [low |-> low, high |-> high, shift |-> lgup]
        ELSE LET t == turn[k + 1]
             IN  IF t.shift = k + 1 /\ Halved(t.low).l < Halved(t.high).l
                 THEN [low |-> Halved(t.low), high |-> Halved(t.high),
                       shift |-> k]
                 ELSE t
  IN  turn[0]

Multiplier(n, r) ==
  IF n < HostBits
  THEN [ml |-> r.high.l % 2^n, mh |-> r.high.l >= 2^n - 1, post |-> r.shift]
  ELSE [ml |-> r.high.l, mh |-> r.high.h # 0, post |-> r.shift]

(* The bounds for the multiplier, 2^k / d and (2^k + 2^j) / d. *)
Bound(x, d) == H!DivAndRoundDouble("trunc", TRUE, x, H!Dbl(d, 0)).quo

(* Fault: the upper bound on the multiplier is that of all of n bits. *)
ChooseMultiplier_FullPrecision(d, n, precision) ==
  LET lgup == CeilLog2(d)
  IN  Multiplier(n, Reduced(Bound(PowerWide(n + lgup), d),
        Bound(H!Plus(PowerWide(n + lgup), PowerWide(n + lgup - 1)), d), lgup))

(* The multiplier m of n + 1 bits, ml and whether 2^n is added, such that x / d
   is x * m shifted right by n + post, for x of `precision' bits. *)
ChooseMultiplier(d, n, precision) ==
  LET lgup == CeilLog2(d)
  IN  Multiplier(n, Reduced(Bound(PowerWide(n + lgup), d),
        Bound(H!Plus(PowerWide(n + lgup), PowerWide(n + lgup - precision)), d),
        lgup))

(* The inverse of odd x modulo 2^n. *)
InvertMod2n(x, n) ==
  LET y[nbit \in 3 .. 2 * HostBits + 6] ==
        IF nbit < 6 THEN x
        ELSE LET z == y[nbit \div 2] IN (z * (2 - x * z)) % 2^n
      last == CHOOSE b \in {3 * 2^k : k \in 0 .. HostBits} :
                b >= n /\ (b = 3 \/ b \div 2 < n)
  IN  y[last] % 2^n

-----------------------------------------------------------------------------
(* expand_divmod.  r has the mode's size, unsignedp, the code, whether the
   remainder is wanted, the divisor's bits d, and `flip': the insns emitted are
   the other ones of those that do the same (a branch or none, a
   multiplication of the other signedness). *)
Signed(size, v) == IF v >= 2^(size - 1) THEN v - 2^size ELSE v

MulHi(pre, c) == [insns |-> "mulhi", pre |-> pre, ml |-> c.ml, post |-> c.post]

(* c is the multiplier for the whole divisor. *)
UnsignedMultiply(size, d, c) ==
  LET pre == Evenness(d)
  IN  IF ~c.mh THEN MulHi(0, c)
      ELSE IF d % 2 = 0
      THEN MulHi(pre, ChooseMultiplier(d \div 2^pre, size, size - pre))
      ELSE [insns |-> "mulhi_add", ml |-> c.ml, post |-> c.post]

UnsignedTrunc(size, d) ==
  IF PowerOf2(d) THEN [insns |-> "shift", pre |-> FloorLog2(d)]
  ELSE IF d >= 2^(size - 1) THEN [insns |-> "geu"]
  ELSE UnsignedMultiply(size, d, ChooseMultiplier(d, size, size))

SignedTrunc(size, d) ==
  LET abs == IF d < 0 THEN -d ELSE d
      multiply(c) == [insns |-> "smulhi", ml |-> c.ml, post |-> c.post,
                      add |-> c.ml >= 2^(size - 1)]
  IN  IF abs = 2^(size - 1) THEN [insns |-> "eq"]
      ELSE IF PowerOf2(abs)
      THEN [insns |-> "signed_shift", lgup |-> FloorLog2(abs)]
      ELSE multiply(ChooseMultiplier(abs, size, size - 1))

SignedFloor(size, d) ==
  LET multiply(c) == [insns |-> "xor_mulhi", ml |-> c.ml, post |-> c.post]
  IN  IF PowerOf2(d) THEN [insns |-> "sar", pre |-> FloorLog2(d)]
      ELSE IF d > 0 THEN multiply(ChooseMultiplier(d, size, size - 1))
      ELSE [insns |-> "by_trunc", trunc |-> SignedTrunc(size, d)]

(* d shifted right until it is odd has this inverse. *)
ExactInverse(size, d) ==
  LET pre == Evenness(d)
  IN  [insns |-> "inverse", pre |-> pre,
       ml |-> InvertMod2n((d \div 2^pre) % 2^HostBits, size)]

(* -1 and 1 are dealt with before. *)
Insns(r) ==
  LET d   == IF r.unsignedp THEN r.d ELSE Signed(r.size, r.d)
      abs == IF r.rem /\ d < 0 THEN -d ELSE d
      exact == r.code = "exact" /\ ~(r.unsignedp /\ PowerOf2(d))
  IN  CASE exact                 -> ExactInverse(r.size, d)
        [] ~exact /\ r.unsignedp -> UnsignedTrunc(r.size, d)
        [] r.code = "trunc" /\ ~r.unsignedp -> SignedTrunc(r.size, abs)
        [] r.code = "floor" /\ ~r.unsignedp -> SignedFloor(r.size, d)

Divisions ==
  UNION {[size : {s}, unsignedp : BOOLEAN, code : {"trunc", "floor", "exact"},
          rem : BOOLEAN, flip : BOOLEAN, d : 2 .. 2^s - 1] : s \in Sizes}

NoInsns == [insns |-> "none"]

DivideInit == emitted = [insns |-> NoInsns]

ExpandDivmod ==
  \E r \in Divisions :
    /\ r.unsignedp \/ r.d # 2^r.size - 1
    /\ r.code = "exact" => ~r.rem
    /\ emitted' = [insns |-> Insns(r), asked |-> r]

DivideNext == emitted.insns = NoInsns /\ ExpandDivmod

DivideSpec == DivideInit /\ [][DivideNext]_emitted

-----------------------------------------------------------------------------
(* What the insns compute from x, in a register of `size' bits. *)
Sar(size, x, k)    == (Signed(size, x) \div 2^k) % 2^size
AllSigns(size, x)  == Sar(size, x, size - 1)
And(size, sign, x) == IF sign = 0 THEN 0 ELSE x     \* sign is 0 or all ones
Xor(size, x, sign) == IF sign = 0 THEN x ELSE 2^size - 1 - x

HighU(size, x, y)  == (x * y) \div 2^size
HighS(size, x, y)  == ((Signed(size, x) * Signed(size, y)) \div 2^size) % 2^size

(* Fault: only one of the operands is adjusted for. *)
HighPartAdjust_OneOperand(size, high, x, y, unsignedp) ==
  LET t == And(size, AllSigns(size, x), y)
  IN  (IF unsignedp THEN high + t ELSE high - t) % 2^size

(* expand_mult_highpart_adjust: the product was of the wrong signedness. *)
HighPartAdjust(size, high, x, y, unsignedp) ==
  LET t == And(size, AllSigns(size, x), y) + And(size, AllSigns(size, y), x)
  IN  (IF unsignedp THEN high + t ELSE high - t) % 2^size

MultHighpart(r, x, y, unsignedp) ==
  LET high(u) == IF u THEN HighU(r.size, x, y) ELSE HighS(r.size, x, y)
  IN  IF r.flip THEN HighPartAdjust(r.size, high(~unsignedp), x, y, unsignedp)
                ELSE high(unsignedp)

SignedQuotient(r, e, d, x) ==
  LET m     == 2^r.size
      sign  == AllSigns(r.size, x)
      high  == MultHighpart(r, x, e.ml, FALSE)
      steep == Sar(r.size, IF e.add THEN (high + x) % m ELSE high, e.post)
      round == IF r.flip THEN And(r.size, sign, 2^e.lgup - 1)
                         ELSE sign \div 2^(r.size - e.lgup)
      small == Sar(r.size, (x + round) % m, e.lgup)
  IN  CASE e.insns = "eq"           -> IF x = d % m THEN 1 ELSE 0
        [] e.insns = "signed_shift" -> IF d < 0 THEN (m - small) % m ELSE small
        [] e.insns = "smulhi"       -> (IF d < 0 THEN sign - steep
                                                 ELSE steep - sign) % m

Quotient(r, e, x) ==
  LET m    == 2^r.size
      d    == IF r.unsignedp THEN r.d ELSE Signed(r.size, r.d)
      abs  == IF r.rem /\ d < 0 THEN -d ELSE d
      sign == AllSigns(r.size, x)
      less == (x - 1) % m                         \* for "by_trunc"
      nsign == IF Signed(r.size, x) < 0 \/ Signed(r.size, less) < 0
               THEN m - 1 ELSE 0
      high == MultHighpart(r, x, e.ml, TRUE)
  IN  CASE e.insns = "shift" -> x \div 2^e.pre
        [] e.insns = "geu"   -> IF x >= r.d THEN 1 ELSE 0
        [] e.insns = "mulhi" ->
             MultHighpart(r, x \div 2^e.pre, e.ml, TRUE) \div 2^e.post
        [] e.insns = "mulhi_add" ->
             ((((x - high) % m) \div 2 + high) % m) \div 2^(e.post - 1)
        [] e.insns = "sar"   -> Sar(r.size, x, e.pre)
        [] e.insns = "xor_mulhi" ->
             Xor(r.size, MultHighpart(r, Xor(r.size, x, sign), e.ml, TRUE)
                           \div 2^e.post, sign)
        [] e.insns = "by_trunc" ->
             (SignedQuotient(r, e.trunc, d, (less - nsign) % m)
                + (m - 1 - nsign)) % m
        [] e.insns = "inverse" ->
             ((IF r.unsignedp THEN x \div 2^e.pre ELSE Sar(r.size, x, e.pre))
                * e.ml) % m
        [] OTHER -> SignedQuotient(r, e, IF r.code = "trunc" THEN abs ELSE d, x)

(* The low bits are the remainder if a shift would give the quotient.  "If
   QUOTIENT is set and REM_FLAG is set, the remainder is computed as OP0 -
   QUOTIENT * OP1." *)
Result(r, e, x) ==
  LET d   == IF r.unsignedp THEN r.d ELSE Signed(r.size, r.d)
      op1 == IF r.code = "trunc" /\ d < 0 THEN -d ELSE d
  IN  CASE ~r.rem -> Quotient(r, e, x)
        [] r.rem /\ e.insns \in {"shift", "sar"} -> x % 2^e.pre
        [] OTHER -> (x - Quotient(r, e, x) * op1) % 2^r.size

(* The insns that divide by a constant give the quotient, rounded as asked, or
   the remainder, of every operand; of a division said to be exact, of every
   multiple. *)
DividesExactly ==
  emitted.insns # NoInsns =>
    LET r == emitted.asked
        value(v) == IF r.unsignedp THEN v ELSE Signed(r.size, v)
        d == value(r.d)
        floor(n) == IF d > 0 THEN n \div d ELSE (-n) \div (-d)
        quo(n) == IF r.code = "trunc" /\ (n < 0) # (d < 0)
                       /\ floor(n) * d # n
                  THEN floor(n) + 1 ELSE floor(n)
    IN  \A x \in 0 .. 2^r.size - 1 :
          LET n == value(x)
              q == quo(n)
          IN  \/ r.code = "exact" /\ q * d # n
              \/ Result(r, emitted.insns, x) =
                   (IF r.rem THEN n - q * d ELSE q) % 2^r.size
=============================================================================
