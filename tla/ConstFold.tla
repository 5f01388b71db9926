------------------------------- MODULE ConstFold -------------------------------
(***************************************************************************)
(* Folding of integer constants (gcc/fold-const.c: int_const_binop,        *)
(* force_fit_type, fold_convert).                                          *)
(*                                                                         *)
(* An INTEGER_CST is a two-word integer that its type makes valid: the     *)
(* bits beyond the precision are zero, or repeat the sign.  TREE_OVERFLOW  *)
(* of a result tells the front end what to warn about and what is no       *)
(* constant expression.                                                    *)
(*                                                                         *)
(* Only types of C other than sizetypes, and the codes the C front end     *)
(* folds for them; the bitwise codes, MIN and MAX are left out, and so is  *)
(* notrunc.  TREE_CONSTANT_OVERFLOW is set whenever TREE_OVERFLOW is, and  *)
(* is not told apart from it.                                              *)
(***************************************************************************)
EXTENDS DoubleWord

CONSTANTS
  Types,       \* records of a precision and whether it is unsigned
  Overflowed,  \* bound: those whose constants may have overflowed before
  Paired,      \* bound: those whose constants are all tried as second operand
  DivCodes     \* the roundings of a division that are folded

ASSUME TypesAssumption ==
  /\ Types \subseteq [prec : 1 .. 2 * W, unsigned : BOOLEAN]
  /\ DivCodes \subseteq {"trunc", "floor", "ceil", "round"}

Pending == [at |-> "operands"]

VARIABLES
  type, arg1, arg2,  \* the operands; for a shift arg2 is a count
  folded             \* what was folded and the constant it gave

foldVars == <<type, arg1, arg2, folded>>

-----------------------------------------------------------------------------
Extended(t, x) == Filled(x, t.prec, ~t.unsigned /\ Bit(x, t.prec - 1))

(* force_fit_type; "unsigned types do not suffer sign extension or overflow",
   they only pass it on. *)
ForceFitType(t, x, overflow) ==
  LET fit == Extended(t, x)
  IN  [l |-> fit.l, h |-> fit.h,
       overflow |-> IF t.unsigned THEN overflow ELSE overflow \/ fit # x]

(* The arithmetic codes of int_const_binop before the result is made valid. *)
Difference(x, y) ==
  LET d == Plus(x, Negated(y))
  IN  [l |-> d.l, h |-> d.h, overflow |-> SumOverflows(d.h, y.h, x.h)]

(* "This is a shortcut for a common special case." *)
Short(x, y) ==
  /\ y.h = 0 /\ y.l > 0 /\ ~Neg(y.l) /\ ~y.overflow
  /\ x.h = 0 /\ ~Neg(x.l) /\ ~x.overflow

Cst(x, o) == [l |-> x.l, h |-> x.h, overflow |-> o]

Divided(t, code, x0, y0) ==
  LET x == Words(x0)
      y == Words(y0)
      long(d) == Cst(d.quo, d.overflow)
  IN  IF code # "round" /\ Short(x0, y0)
      THEN Cst(Dbl((IF code = "ceil" THEN x.l + y.l - 1 ELSE x.l) \div y.l, 0),
               FALSE)
      ELSE IF y = Word1 THEN Cst(x, FALSE)
      ELSE IF x = y /\ x # Zero THEN Cst(Word1, FALSE)
      ELSE long(DivAndRoundDouble(code, t.unsigned, x, y))

Remainder(t, code, x0, y0) ==
  LET long(d) == Cst(d.rem, d.overflow)
  IN  IF Short(x0, y0)
      THEN Cst(Dbl(x0.l % y0.l, 0), FALSE)
      ELSE long(DivAndRoundDouble(code, t.unsigned, Words(x0), Words(y0)))

ModCodes == {"truncmod", "floormod"}
Arithmetic == {"plus", "minus", "mult"} \cup DivCodes \cup ModCodes

Computed(t, code, x, y) ==
  CASE code = "plus"     -> AddDouble(x, y)
    [] code = "minus"    -> Difference(x, y)
    [] code = "mult"     -> MulDouble(x, y)
    [] code = "truncmod" -> Remainder(t, "trunc", x, y)
    [] code = "floormod" -> Remainder(t, "floor", x, y)
    [] OTHER             -> Divided(t, code, x, y)

(* The result of a code whose computation gave r. *)
Built(t, r, no_overflow, earlier) ==
  LET fit == ForceFitType(t, Words(r), ~t.unsigned /\ r.overflow)
  IN  [fit EXCEPT !.overflow = (@ /\ ~no_overflow) \/ earlier]

IntConstBinop(t, code, x, y) ==
  Built(t, Computed(t, code, x, y), FALSE, x.overflow \/ y.overflow)

(* RSHIFT_EXPR is a left shift by the negated count; a rotation may
   overflow. *)
Shift(t, code, x, count) ==
  Built(t, Cst(IF code = "shift"
               THEN LshiftDouble(x, count, t.prec, ~t.unsigned)
               ELSE LrotateDouble(x, count, t.prec), FALSE),
        code = "shift", x.overflow)

(* fold_convert to type t of a constant x of type from. *)
FoldConvert(t, from, x) ==
  LET fit == ForceFitType(t, Words(x),
                          Neg(x.h) /\ ~t.unsigned /\ from.unsigned)
  IN  [fit EXCEPT !.overflow = @ \/ x.overflow]

-----------------------------------------------------------------------------
Constants(t) == {x \in Double : Extended(t, x) = x}

FoldInit ==
  /\ type \in Types
  /\ \E x \in Constants(type),
        y \in IF type \in Paired THEN Constants(type) ELSE {Zero},
        o \in IF type \in Overflowed THEN BOOLEAN ELSE {FALSE} :
       arg1 = Cst(x, o) /\ arg2 = Cst(y, FALSE)
  /\ folded = Pending

Fold(code) ==
  folded' = [at |-> code, cst |-> IntConstBinop(type, code, arg1, arg2)]

FoldShift(code) ==
  /\ arg2 = Cst(Zero, FALSE)
  /\ \E count \in -(2 * W + 1) .. 2 * W + 1 :
       folded' = [at |-> code, count |-> count,
                  cst |-> Shift(type, code, arg1, count)]

Convert(to) ==
  /\ arg2 = Cst(Zero, FALSE)
  /\ folded' = [at |-> "convert", to |-> to,
                cst |-> FoldConvert(to, type, arg1)]

FoldNext ==
  /\ folded = Pending
  /\ \/ \E code \in Arithmetic : Fold(code)
     \/ \E code \in {"shift", "rotate"} : FoldShift(code)
     \/ \E to \in Types : Convert(to)
  /\ UNCHANGED <<type, arg1, arg2>>

FoldSpec == FoldInit /\ [][FoldNext]_foldVars

-----------------------------------------------------------------------------
(* What the folding stands for: the integers. *)
Value(t, x) ==
  LET n == x.h * Modulus + x.l
  IN  IF ~t.unsigned /\ Neg(x.h) THEN n - Modulus * Modulus ELSE n

InRange(t, n) ==
  IF t.unsigned THEN n \in 0 .. 2^t.prec - 1
                ELSE n \in -(2^(t.prec - 1)) .. 2^(t.prec - 1) - 1

(* The value of type t that is n modulo 2^prec. *)
Wrapped(t, n) ==
  LET r == n % 2^t.prec
  IN  IF ~t.unsigned /\ r >= 2^(t.prec - 1) THEN r - 2^t.prec ELSE r

(* n / d, rounded. *)
FloorOf(n, d) == IF d > 0 THEN n \div d ELSE (-n) \div (-d)
Rounded(code, n, d) ==
  LET f == FloorOf(n, d)
      exact == f * d = n
  IN  CASE code = "floor" \/ exact -> f
        [] code = "ceil"           -> f + 1
        [] code = "trunc"          -> IF (n < 0) = (d < 0) THEN f ELSE f + 1
        [] code = "round" ->      \* halves towards zero
             LET r == IF n - f * d < 0 THEN f * d - n ELSE n - f * d
                 b == IF d < 0 THEN -d ELSE d
             IN  IF 2 * r > b \/ (2 * r = b /\ f < 0) THEN f + 1 ELSE f

Exact(code, n, d) ==
  CASE code = "plus"     -> n + d
    [] code = "minus"    -> n - d
    [] code = "mult"     -> n * d
    [] code = "truncmod" -> n - d * Rounded("trunc", n, d)
    [] code = "floormod" -> n - d * Rounded("floor", n, d)
    [] OTHER             -> Rounded(code, n, d)

(* A folded constant is the exact result modulo the type's range, and overflow
   is reported exactly if the type is signed and the result is out of its
   range, if the divisor is zero, or if an operand had overflowed.  The
   remainder by -1 of the least value of the widest type is 0, and reported all
   the same. *)
ArithmeticExact ==
  folded.at \in Arithmetic =>
    LET n == Value(type, arg1)
        d == Value(type, arg2)
        divides == folded.at \in DivCodes \cup ModCodes
        r == Exact(folded.at, n, d)
    IN  IF divides /\ d = 0
        THEN folded.cst.overflow = (arg1.overflow \/ ~type.unsigned)
        ELSE /\ Value(type, folded.cst) = Wrapped(type, r)
             /\ folded.cst.overflow =
                  \/ arg1.overflow
                  \/ ~type.unsigned
                     /\ \/ ~InRange(type, r)
                        \/ folded.at \in ModCodes /\ d = -1
                           /\ ~InRange(type, -n) /\ type.prec = 2 * W

(* A shift multiplies by a power of two, or divides by one and rounds down; a
   rotation loses no bit; a conversion keeps the value modulo the range and
   reports what a signed type cannot hold. *)
ShiftsExactly ==
  LET n == Value(type, arg1)
      c == folded.count
      m == n % 2^type.prec
      k == c % type.prec
  IN  CASE folded.at = "shift" ->
             /\ folded.cst.overflow = arg1.overflow
             /\ Value(type, folded.cst) =
                  Wrapped(type, IF c >= 0 THEN n * 2^c ELSE n \div 2^(-c))
        [] folded.at = "rotate" ->
             Value(type, folded.cst) =
               Wrapped(type, m * 2^k + m \div 2^(type.prec - k))
        [] folded.at = "convert" ->
             /\ Value(folded.to, folded.cst) = Wrapped(folded.to, n)
             /\ folded.cst.overflow =
                  \/ arg1.overflow
                  \/ ~folded.to.unsigned /\ ~InRange(folded.to, n)
        [] OTHER -> TRUE

(* Whatever is folded, the constant and its overflow are those of the exact
   operation on the values. *)
FoldsExactly == ArithmeticExact /\ ShiftsExactly
=============================================================================
