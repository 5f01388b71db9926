------------------------------- MODULE CppExpr -------------------------------
(***************************************************************************)
(* The conditions of #if (gcc/cppexp.c).                                   *)
(*                                                                         *)
(* _cpp_parse_expr is an operator precedence parser.  Its stack holds the  *)
(* operators that wait for their right operands, each with the operand     *)
(* that follows it, if there is one; the bottom is a dummy.  An operator   *)
(* that is read reduces what has at least its priority.  skip_evaluation   *)
(* counts the operators whose operand is being read and does not matter.   *)
(*                                                                         *)
(* The tokens come one at a time, any one at any time, and so the line may *)
(* be malformed in every way.  Operators that differ from one below in     *)
(* their priority and value only, unsigned operands and `defined' are left *)
(* out.                                                                    *)
(***************************************************************************)
EXTENDS Integers, Sequences, FiniteSets, SequencesExt, FiniteSetsExt

CONSTANTS
  CondTokens,     \* the tokens lines consist of, of those below
  MaxCondTokens,  \* bound: tokens of a line
  LongTokens,     \* the tokens of longer lines,
  MaxLongTokens   \* and their bound

VARIABLES
  line,      \* the tokens read
  ops,       \* the stack, its bottom first
  arriving,  \* the operator that was read and is not on the stack yet
  skip,      \* skip_evaluation
  verdict    \* "reading", "done" or "error"

condVars == <<line, ops, arriving, skip, verdict>>

Numerals == {"0", "1"}
Number(t) == IF t = "1" THEN 1 ELSE 0

(* The priorities, twice; one more for an operator that associates to the
   right, until it is on the stack. *)
CloseParenPrio == 2

(* Fault: && binds like ||. *)
Priority_Flat(op, unary) ==
  CASE op = "end" -> 0  [] op = ")" -> CloseParenPrio [] op = "(" -> 4
    [] op = "?" -> 9    [] op = ":" -> 10  [] op \in {"||", "&&"} -> 12
    [] op = "-" /\ ~unary -> 30  [] op = "/" -> 32  [] OTHER -> 35

Priority(op, unary) ==
  CASE op = "end" -> 0  [] op = ")" -> CloseParenPrio [] op = "(" -> 4
    [] op = "?" -> 9    [] op = ":" -> 10  [] op = "||" -> 12  [] op = "&&" -> 14
    [] op = "-" /\ ~unary -> 30  [] op = "/" -> 32  [] OTHER -> 35

Waiting(op, unary) == [op |-> op, unary |-> unary, prio |-> Priority(op, unary)]
Nothing == [op |-> "none", unary |-> FALSE, prio |-> 0]

Entry(op, prio) == [op |-> op, prio |-> prio, has |-> FALSE, value |-> 0]

Top     == Last(ops)
Lower   == Front(ops)
WithValue(s, v) ==
  [s EXCEPT ![Len(s)].value = v, ![Len(s)].has = TRUE]

Reject == verdict' = "error" /\ arriving' = Nothing /\ UNCHANGED <<ops, skip>>

Leave(s, k) ==
  /\ ops' = s /\ skip' = k
  /\ UNCHANGED <<arriving, verdict>>

-----------------------------------------------------------------------------
CondInit ==
  /\ line = <<>> /\ arriving = Nothing /\ skip = 0 /\ verdict = "reading"
  /\ ops = <<Entry("end", CloseParenPrio)>>

NextToken(t) ==
  /\ verdict = "reading" /\ arriving = Nothing
  /\ \/ t = "end"
     \/ Len(line) < MaxCondTokens
     \/ Len(line) < MaxLongTokens /\ ToSet(line) \cup {t} \subseteq LongTokens
  /\ line' = Append(line, t)

ReadNumber(t) ==
  /\ t \in Numerals /\ NextToken(t)
  /\ IF Top.has THEN Reject   \* "missing binary operator"
     ELSE ops' = WithValue(ops, Number(t)) /\ UNCHANGED <<arriving, skip, verdict>>

(* A minus sign is unary where there is no operand yet. *)
ReadOperator(t) ==
  /\ t \notin Numerals /\ NextToken(t)
  /\ arriving' = Waiting(t, t = "!" \/ (t = "-" /\ ~Top.has))
  /\ UNCHANGED <<ops, skip, verdict>>

Reduces == arriving # Nothing /\ arriving.op # "(" /\ arriving.prio <= Top.prio

Abs(a) == IF a < 0 THEN -a ELSE a

TruncQuotient(a, b) ==
  IF (a < 0) = (b < 0) THEN Abs(a) \div Abs(b) ELSE -(Abs(a) \div Abs(b))

AsInt(p) == IF p THEN 1 ELSE 0

(* Fault: || leaves the count of skipped operands as it is. *)
ReduceOr_KeepsSkip(v1, v2) ==
  Leave(WithValue(Lower, AsInt(v1 # 0 \/ v2 # 0)), skip)

ReduceOr(v1, v2) ==
  Leave(WithValue(Lower, AsInt(v1 # 0 \/ v2 # 0)),
        IF v1 # 0 THEN skip - 1 ELSE skip)

ReduceAnd(v1, v2) ==
  Leave(WithValue(Lower, AsInt(v1 # 0 /\ v2 # 0)),
        IF v1 = 0 THEN skip - 1 ELSE skip)

ReduceColon(v1, v2) ==
  LET test == Last(Front(Lower)).value
  IN  IF Last(Lower).op # "?" THEN Reject
      ELSE Leave(WithValue(Front(Lower), IF test # 0 THEN v1 ELSE v2),
                 IF test # 0 THEN skip - 1 ELSE skip)

ReduceDivision(v1, v2) ==
  IF skip # 0 THEN Leave(Lower, skip)
  ELSE IF v2 = 0 THEN Reject
  ELSE Leave(WithValue(Lower, TruncQuotient(v1, v2)), skip)

(* What is in parentheses becomes an operand. *)
ReduceParen(v2) ==
  IF arriving.op # ")" THEN Reject   \* "missing ')' in expression"
  ELSE /\ ops' = WithValue(Lower, v2) /\ arriving' = Nothing
       /\ UNCHANGED <<skip, verdict>>

ReduceEnd ==
  IF arriving.op = ")" \/ ~Top.has THEN Reject
  ELSE /\ verdict' = "done" /\ arriving' = Nothing /\ UNCHANGED <<ops, skip>>

(* One turn of the loop that reduces, for the operator on top. *)
Reduce ==
  LET v2 == Top.value
      v1 == Last(Lower).value
  IN  /\ Reduces
      /\ UNCHANGED line
      /\ CASE Top.op = "end" -> ReduceEnd
           [] Top.op # "end" /\ ~Top.has -> Reject   \* "no right operand"
           [] OTHER ->
                CASE Top.op = "("  -> ReduceParen(v2)
                  [] Top.op = "?"  -> Reject   \* "'?' without following ':'"
                  [] Top.op = ":"  -> ReduceColon(v1, v2)
                  [] Top.op = "||" -> ReduceOr(v1, v2)
                  [] Top.op = "&&" -> ReduceAnd(v1, v2)
                  [] Top.op = "/"  -> ReduceDivision(v1, v2)
                  [] Top.op = "!"  -> Leave(WithValue(Lower, AsInt(v2 = 0)), skip)
                  [] Top.op = "-"  -> Leave(WithValue(Lower,
                       IF Last(Lower).has THEN v1 - v2 ELSE -v2), skip)

(* An operator that does not need its right operand counts in skip; a colon
   swaps the operands of its condition.  Where there is no condition the code
   reads what is not initialized, and rejects the line later. *)
Skips ==
  CASE arriving.op = "||" -> {skip + AsInt(Top.value # 0)}
    [] arriving.op \in {"&&", "?"} -> {skip + AsInt(Top.value = 0)}
    [] arriving.op = ":" ->
         IF Len(ops) > 1 /\ Last(Lower).has
         THEN {IF Last(Lower).value # 0 THEN skip + 1 ELSE skip - 1}
         ELSE {skip - 1, skip + 1}
    [] OTHER -> {skip}

TakesNoLeft == arriving.unary \/ arriving.op = "("

Push ==
  /\ arriving # Nothing /\ ~Reduces
  /\ UNCHANGED line
  /\ IF TakesNoLeft = Top.has THEN Reject
     ELSE /\ skip' \in Skips
          /\ ops' = Append(ops, Entry(arriving.op, arriving.prio - (arriving.prio % 2)))
          /\ arriving' = Nothing
          /\ UNCHANGED verdict

CondNext ==
  \/ \E t \in CondTokens \cup {"end"} : ReadNumber(t) \/ ReadOperator(t)
  \/ Reduce \/ Push

CondSpec == CondInit /\ [][CondNext]_condVars

-----------------------------------------------------------------------------
(* The value of a line by the grammar of C: a conditional is split at its
   first question mark and the colon that belongs to it; otherwise at the last
   of the operators that bind least; operands that are not needed are not
   evaluated. *)
Malformed == 1000
ByZero    == 1001

Conditional(c, a, b) ==
  IF Malformed \in {c, a, b} THEN Malformed
  ELSE IF c = ByZero THEN ByZero ELSE IF c # 0 THEN a ELSE b

Applied(op, a, b) ==
  IF Malformed \in {a, b} THEN Malformed
  ELSE IF a = ByZero THEN ByZero
  ELSE IF op = "||" /\ a # 0 THEN 1
  ELSE IF op = "&&" /\ a = 0 THEN 0
  ELSE IF b = ByZero \/ (op = "/" /\ b = 0) THEN ByZero
  ELSE CASE op \in {"||", "&&"} -> AsInt(b # 0)
         [] op = "/" -> TruncQuotient(a, b) [] op = "-" -> a - b

UnaryValue(op, a) ==
  IF a \in {Malformed, ByZero} THEN a ELSE IF op = "!" THEN AsInt(a = 0) ELSE -a

LevelOf(s, k) == Cardinality({m \in 1 .. k - 1 : s[m] = "("})
                   - Cardinality({m \in 1 .. k : s[m] = ")"})

(* The tokens of s from i to j that are in no parentheses there. *)
Outer(s, i, j)  == {k \in i .. j : LevelOf(s, k) = LevelOf(s, i)}
Those(s, ks, t) == {k \in ks : s[k] = t}

ColonOf(s, ks, q) ==
  {c \in ks : c > q /\ s[c] = ":"
     /\ \A d \in {k \in ks : q < k /\ k <= c} :
          LET span == {k \in ks : q <= k /\ k <= d}
              open == Cardinality(Those(s, span, "?")) - Cardinality(Those(s, span, ":"))
          IN  IF d = c THEN open = 0 ELSE open > 0}

BinaryOps == <<"||", "&&", "-", "/">>   \* those that bind least first

Binaries(s, ks, i) ==
  {k \in ks : k > i /\ s[k] \in ToSet(BinaryOps)
                    /\ s[k - 1] \in Numerals \cup {")"}}

Loosest(s, ks) ==
  LET binds(k) == SelectInSeq(BinaryOps, LAMBDA o : o = s[k])
  IN  Max({k \in ks : \A m \in ks : binds(k) <= binds(m)})

Meaning(s) ==
  LET val[i \in 1 .. Len(s) + 1, j \in 0 .. Len(s)] ==
        LET outer == Outer(s, i, j)
            qs    == Those(s, outer, "?")
            bs    == Binaries(s, outer, i)
            cs    == ColonOf(s, outer, Min(qs))
        IN  IF i > j \/ \E k \in i .. j : LevelOf(s, k) < LevelOf(s, i) THEN Malformed
            ELSE IF qs # {} THEN
              IF cs = {} THEN Malformed
              ELSE Conditional(val[i, Min(qs) - 1], val[Min(qs) + 1, Min(cs) - 1],
                           val[Min(cs) + 1, j])
            ELSE IF bs # {} THEN
              Applied(s[Loosest(s, bs)], val[i, Loosest(s, bs) - 1],
                      val[Loosest(s, bs) + 1, j])
            ELSE IF s[i] \in {"!", "-"} THEN UnaryValue(s[i], val[i + 1, j])
            ELSE IF i = j /\ s[i] \in Numerals THEN Number(s[i])
            ELSE IF s[i] = "(" /\ s[j] = ")" /\ outer = {i, j} THEN val[i + 1, j - 1]
            ELSE Malformed
  IN  val[1, Len(s)]

(* The shortest end of a line that begins like s, if there is any. *)
StillOpen(s) ==
  FoldLeft(LAMBDA open, t :
    IF t \in {"(", "?"} THEN <<t>> \o open
    ELSE IF t \in {")", ":"} /\ open # <<>> THEN Tail(open) ELSE open, <<>>, s)

Completed(s) ==
  LET operand == IF Last(s) = "end" THEN Front(s)
                 ELSE IF Last(s) \in Numerals \cup {")"} THEN s
                 ELSE Append(s, "1")
      closing == IF Last(s) = "end" THEN <<>> ELSE StillOpen(operand)
  IN  FoldLeft(LAMBDA r, t : r \o IF t = "(" THEN <<")">> ELSE <<":", "1">>,
               operand, closing)

(* Properties. *)

(* A conditional follows the colon of another one, in the same parentheses. *)
ElseNested(s) ==
  \E c, q \in DOMAIN s :
    /\ c < q /\ s[c] = ":" /\ s[q] = "?"
    /\ \A k \in c .. q : LevelOf(s, k) >= LevelOf(s, c)
    /\ LevelOf(s, q) = LevelOf(s, c)
    /\ Cardinality({k \in c .. q : s[k] = ":" /\ LevelOf(s, k) = LevelOf(s, c)}) = 1

Judged(s) ==
  /\ verdict = "done"  => Meaning(Front(s)) = Top.value
  /\ verdict = "error" => Meaning(Completed(s)) \in {Malformed, ByZero}

(* A condition is accepted with its value in C, and nothing is skipped in the
   end; it is only rejected if no line that begins like it has a value: it is
   malformed, or divides by zero in an operand that is evaluated.  Conditionals
   in the third operand of another one are left to ElseIsRight. *)
ConditionsRight ==
  /\ ElseNested(line) \/ Judged(line)
  /\ verdict = "done" => skip = 0

(* "The effect is that during the reduction phase, the current
   right-associative operator has a priority one greater than any other
   operator of otherwise equal precedence ... and effectively makes the logic
   right-associative": also where the operator is the conditional. *)
ElseIsRight == Judged(line)
=============================================================================
