---------------------------- MODULE CaseDispatch ----------------------------
(***************************************************************************)
(* Switch statements (gcc/c-common.c, gcc/stmt.c).                         *)
(*                                                                         *)
(* The labels of a switch are checked against the earlier ones and kept in *)
(* an AVL tree (add_case_node).  At the end of the statement the tree      *)
(* becomes an ordered list, neighbours that lead to the same place are     *)
(* grouped, and the list becomes a jump to a known place, a table, or a    *)
(* tree of comparisons, from which tests that earlier ones make redundant  *)
(* are left out (expand_end_case_type and the functions below it).         *)
(*                                                                         *)
(* A label is named by its low value, which no two labels share.  The type *)
(* of the index is the promoted one, so labels are values of it.  Programs *)
(* with duplicate labels are rejected and not continued.  The default      *)
(* label is not kept in the tree; a switch without one has it at its end.  *)
(***************************************************************************)
EXTENDS Integers, Sequences, FiniteSets, SequencesExt, FiniteSetsExt

CONSTANTS
  Bits,         \* width of the index
  MaxCases,     \* bound: labels of the switch
  Sparse,       \* a table is at most so many times longer than the labels
                \* count; 10 in the code, scaled down with the width
  Weight,       \* cost_table, from -1 to the largest ASCII character; -1 for
                \* the control characters no text has
  LastAscii     \* 127, scaled down with the width

VARIABLES
  unsigned,   \* TREE_UNSIGNED of the index type
  cases,      \* what was written: pairs of a low and a high value
  tree,       \* case_list while the labels are collected, see CaseTree
  place,      \* where each label leads to: the label that stands there first
  known,      \* the value of a constant index, or NoCase
  dispatch    \* the code for the switch, empty before its end

caseVars == <<unsigned, cases, tree, place, known, dispatch>>

Modulus    == 2^Bits
NoCase     == 2 * Modulus
DefaultLabel == 3 * Modulus
TestLabel(n) == 4 * Modulus + n          \* a label between the tests
CaseValues == IF unsigned THEN 0 .. Modulus - 1 ELSE -(Modulus \div 2) .. Modulus \div 2 - 1
Lowest  == Min(CaseValues)
Highest == Max(CaseValues)
AllValues == -(Modulus \div 2) .. Modulus - 1

(* A difference in the type of the index. *)
Wrap(d) == LET m == d % Modulus IN IF m > Highest THEN m - Modulus ELSE m

Sides == {"left", "right"}
Other(s)  == IF s = "left" THEN "right" ELSE "left"
Weighs(s) == IF s = "left" THEN -1 ELSE 1

(* The struct case_node of each label, and case_list. *)
CaseTree ==
  [root : AllValues \cup {NoCase}, high : [AllValues -> AllValues],
   kid : [Sides -> [AllValues -> AllValues \cup {NoCase}]],
   parent : [AllValues -> AllValues \cup {NoCase}],
   balance : [AllValues -> -1 .. 1]]

NoTree ==
  [root |-> NoCase, high |-> [n \in AllValues |-> n],
   kid |-> [s \in Sides |-> [n \in AllValues |-> NoCase]],
   parent |-> [n \in AllValues |-> NoCase], balance |-> [n \in AllValues |-> 0]]

-----------------------------------------------------------------------------
(* Labels are collected. *)

(* c_add_case_label: a label may not have the low value of another one, nor
   lie in a range that begins below it, nor be a range that reaches the next
   one. *)
Fits(low, high) ==
  LET below == {c \in cases : c[1] < low}
      above == {c \in cases : c[1] > low}
  IN  /\ \A c \in cases : c[1] # low
      /\ \A c \in below : (\A d \in below : d[1] <= c[1]) /\ c[1] # c[2] => c[2] < low
      /\ \A c \in above : (\A d \in above : d[1] >= c[1]) /\ low # high => c[1] > high

(* The node a new one is put below, and the side. *)
Goes(t, low, high, n) == IF high < n THEN "left" ELSE "right"

Above(t, low, high) ==
  LET search[n \in AllValues] ==
        LET next == t.kid[Goes(t, low, high, n)][n]
        IN  IF next = NoCase THEN n ELSE search[next]
  IN  search[t.root]

(* n and the nodes over it, the root last. *)
PathUp(t, n) ==
  LET up[m \in AllValues \cup {NoCase}] ==
        IF m = NoCase THEN <<>> ELSE <<m>> \o up[t.parent[m]]
  IN  up[n]

Hang(t, p, s, n) ==
  [t EXCEPT !.kid[s][p] = n,
            !.parent = IF n = NoCase THEN @ ELSE [@ EXCEPT ![n] = p]]

(* Node r takes the place of p under the parent of p. *)
Replace(t, p, r) ==
  LET g == t.parent[p]
      s == IF t.kid["left"][g] = p THEN "left" ELSE "right"
  IN  IF g = NoCase THEN [t EXCEPT !.root = r, !.parent[r] = NoCase]
                 ELSE Hang(t, g, s, r)

(* R- and L-rotation: r, the child of p on side s, becomes its parent. *)
Single(t, p, r, s) ==
  [Hang(Hang(Replace(t, p, r), p, s, t.kid[Other(s)][r]), r, Other(s), p)
     EXCEPT !.balance[p] = 0, !.balance[r] = 0]

(* LR- and RL-rotation: the inner child m of r becomes the parent of both. *)
LiftedChild(t, p, r, s, m) ==
  Hang(Hang(Hang(Hang(Replace(t, p, m), p, s, t.kid[Other(s)][m]),
                 r, Other(s), t.kid[s][m]), m, Other(s), p), m, s, r)

(* Fault: the balances are those of an inner child that was balanced. *)
Double_Even(t, p, r, s) ==
  LET m == t.kid[Other(s)][r]
  IN  [LiftedChild(t, p, r, s, m)
         EXCEPT !.balance[m] = 0, !.balance[p] = 0, !.balance[r] = 0]

Double(t, p, r, s) ==
  LET m == t.kid[Other(s)][r]
      b == t.balance[m]
      w == Weighs(s)
  IN  [LiftedChild(t, p, r, s, m)
         EXCEPT !.balance[m] = 0,
                !.balance[p] = IF b = w THEN -w ELSE 0,
                !.balance[r] = IF b = -w THEN w ELSE 0]

SideOf(t, p, n) == IF t.kid["left"][p] = n THEN "left" ELSE "right"

(* The subtree of r, below p, has grown, and those of the nodes on the way to
   it, which were balanced, lean to its side now.  If p leaned to the other
   side it is balanced now and its own subtree has not grown. *)
Settle(t, p, r) ==
  LET s == SideOf(t, p, r)
      w == Weighs(s)
  IN  IF t.balance[p] # w THEN [t EXCEPT !.balance[p] = 0]
      ELSE IF t.balance[r] = w THEN Single(t, p, r, s)
      ELSE Double(t, p, r, s)

Rebalance(t, n) ==
  LET path == PathUp(t, n)
      k    == SelectInSubSeq(path, 2, Len(path), LAMBDA m : t.balance[m] # 0)
      last == IF k = 0 THEN Len(path) ELSE k - 1
      leans(m) == CHOOSE j \in 2 .. last : path[j] = m
      grown == [t EXCEPT !.balance = [m \in AllValues |->
                  IF \E j \in 2 .. last : path[j] = m
                  THEN Weighs(SideOf(t, m, path[leans(m) - 1])) ELSE @[m]]]
  IN  IF k = 0 THEN grown ELSE Settle(grown, path[k], path[k - 1])

AddCaseNode(t, low, high) ==
  LET p == Above(t, low, high)
      u == [t EXCEPT !.high[low] = high]
  IN  IF t.root = NoCase THEN [u EXCEPT !.root = low]
      ELSE Rebalance(Hang(u, p, Goes(t, low, high, p), low), low)

-----------------------------------------------------------------------------
(* The end of the switch. *)

(* case_tree2list, which is called only when the root has a left child: a
   balanced tree without one is a list already. *)
InOrder(t) ==
  LET walk[n \in AllValues \cup {NoCase}] ==
        IF n = NoCase THEN <<>>
        ELSE walk[t.kid["left"][n]] \o <<n>> \o walk[t.kid["right"][n]]
  IN  walk[t.root]

RightChain(t) ==
  LET walk[n \in AllValues \cup {NoCase}] ==
        IF n = NoCase THEN <<>> ELSE <<n>> \o walk[t.kid["right"][n]]
  IN  walk[t.root]

CaseList(t) ==
  LET names == IF t.root = NoCase \/ t.kid["left"][t.root] = NoCase
               THEN RightChain(t) ELSE InOrder(t)
  IN  [k \in DOMAIN names |-> [low |-> names[k], high |-> t.high[names[k]],
                               label |-> names[k]]]

(* group_case_nodes. *)
Consecutive(a, b) == a.high # Highest /\ b.low = a.high + 1

(* Fault: labels of one place are grouped across a gap. *)
Grouped_Gap(list, at) ==
  FoldLeft(LAMBDA done, b :
    IF done # <<>> /\ at[Last(done).label] = at[b.label]
    THEN [done EXCEPT ![Len(done)].high = b.high] ELSE Append(done, b),
    <<>>, list)

Grouped(list, at) ==
  FoldLeft(LAMBDA done, b :
    IF done # <<>> /\ at[Last(done).label] = at[b.label]
         /\ Consecutive(Last(done), b)
    THEN [done EXCEPT ![Len(done)].high = b.high] ELSE Append(done, b),
    <<>>, list)

IsRange(c) == c.low # c.high
Counts(list) == Len(list) + Cardinality({k \in DOMAIN list : IsRange(list[k])})
MinLow(list)  == Min({list[k].low : k \in DOMAIN list})
MaxHigh(list) == Max({list[k].high : k \in DOMAIN list})
Span(list)    == Wrap(MaxHigh(list) - MinLow(list))

(* estimate_case_costs: whether the labels look like text. *)
LooksLikeText(list) ==
  \A k \in DOMAIN list :
    /\ list[k].low >= -1 /\ list[k].high <= LastAscii
    /\ \A v \in list[k].low .. list[k].high : Weight[v] >= 0

(* balance_case_nodes: the list from a to z becomes a tree, given by its root
   and its edges; half of its weight is on either side. *)
WeightOf(list, text, k) ==
  IF text
  THEN Weight[list[k].low] + (IF IsRange(list[k]) THEN Weight[list[k].high] ELSE 0)
  ELSE IF IsRange(list[k]) THEN 2 ELSE 1

WeightUpTo(list, text, a, k) ==
  FoldLeft(LAMBDA w, j : w + WeightOf(list, text, j), 0, [j \in 1 .. k - a + 1 |-> a + j - 1])

Pivot(list, text, a, z) ==
  IF z - a = 2 /\ ~text THEN a + 1
  ELSE Min({k \in a .. z : WeightUpTo(list, text, a, k)
                             >= (WeightUpTo(list, text, a, z) + 1) \div 2})

Chain(a, z) ==
  [root |-> a, edges |-> {<<k, "right", k + 1>> : k \in a .. z - 1}]

Balanced(list, text) ==
  LET cut[a \in 1 .. Len(list) + 1, z \in 0 .. Len(list)] ==
        LET k == Pivot(list, text, a, z)
            l == cut[a, k - 1]
            r == cut[k + 1, z]
        IN  IF a > z THEN [root |-> 0, edges |-> {}]
            ELSE IF z - a < 2 \/ (text /\ k = a) THEN Chain(a, z)
            ELSE [root |-> k,
                  edges |-> l.edges \cup r.edges
                    \cup {e \in {<<k, "left", l.root>>, <<k, "right", r.root>>} :
                            e[3] # 0}]
  IN  cut[1, Len(list)]

(* In a tree b over the list: the child of a node, or 0, and its ancestors. *)
Kid(b, k, s)   == LET e == {x \in b.edges : x[1] = k /\ x[2] = s}
                  IN  IF e = {} THEN 0 ELSE (CHOOSE x \in e : TRUE)[3]
Over(b, k) ==
  LET up[j \in 1 .. Cardinality(b.edges) + 1] ==
        LET e == {x \in b.edges : x[3] = j}
        IN  IF e = {} THEN {}
            ELSE LET p == (CHOOSE x \in e : TRUE)[1] IN {p} \cup up[p]
  IN  up[k]

(* node_has_low_bound, node_has_high_bound: whether a test of the bound is
   redundant, because no value is beyond it or an earlier test met all of
   them. *)
HasLowBound(list, b, k) ==
  \/ list[k].low = Lowest
  \/ Kid(b, k, "left") = 0 /\ \E p \in Over(b, k) : list[p].high = list[k].low - 1

(* Fault: any earlier test of higher values will do. *)
HasHighBound_Higher(list, b, k) ==
  \/ list[k].high = Highest
  \/ Kid(b, k, "right") = 0 /\ \E p \in Over(b, k) : list[p].low > list[k].high

HasHighBound(list, b, k) ==
  \/ list[k].high = Highest
  \/ Kid(b, k, "right") = 0 /\ \E p \in Over(b, k) : list[p].low = list[k].high + 1

Bounded(list, b, k) == HasLowBound(list, b, k) /\ HasHighBound(list, b, k)

(* One instruction: jump if the index compares with a value. *)
Jump(op, v, to) == <<[op |-> op, at |-> v, to |-> to]>>
Always(to)      == Jump("jump", 0, to)
Unless(known_bound, code) == IF known_bound THEN <<>> ELSE code

(* emit_jump_if_reachable. *)
ThenDefault(code) ==
  IF Last(code).op = "jump" THEN code ELSE code \o Always(DefaultLabel)

(* A leaf that is a range; `outside' is one unsigned comparison of differences. *)
LeafTests(c, low_bound, high_bound) ==
  (IF ~low_bound /\ ~high_bound
   THEN <<[op |-> "outside", at |-> c.low, upto |-> c.high, to |-> DefaultLabel]>>
   ELSE IF high_bound THEN Jump("<", c.low, DefaultLabel)
   ELSE Jump(">", c.high, DefaultLabel))
  \o Always(c.label)

(* emit_case_nodes: the code for node k, given that of its children.  What the
   tests before it found puts the index on this side of every ancestor. *)
NodeTests(list, b, k, l, r, on_left, on_right) ==
  LET c      == list[k]
      single == ~IsRange(c)
      is     == IF single THEN Jump("=", c.low, c.label) ELSE <<>>
      simple(j) == Kid(b, j, "left") = 0 /\ Kid(b, j, "right") = 0 /\ ~IsRange(list[j])
      low    == HasLowBound(list, b, k)
      high   == HasHighBound(list, b, k)
      goes_right == Bounded(list, b, r)
      goes_left  == single /\ Bounded(list, b, l)
  IN  IF low /\ high THEN Always(c.label)
      ELSE IF l # 0 /\ r # 0 THEN
        IF goes_left /\ ~goes_right
        THEN is \o Jump("<", c.high, list[l].label) \o on_right
        ELSE LET to_left ==
                   is \o Jump(">", c.high, IF goes_right THEN list[r].label ELSE TestLabel(k))
                     \o (IF single THEN <<>> ELSE Jump(">=", c.low, c.label))
                     \o on_left
             IN  IF goes_right THEN to_left
                 ELSE ThenDefault(to_left) \o Jump("label", 0, TestLabel(k)) \o on_right
      ELSE IF r # 0 THEN
        IF single /\ simple(r) THEN is \o Jump("=", list[r].low, list[r].label)
        ELSE is \o Unless(low, Jump("<", c.low, DefaultLabel))
               \o (IF single THEN <<>> ELSE Jump("<=", c.high, c.label)) \o on_right
      ELSE IF l # 0 THEN
        IF single /\ simple(l) THEN is \o Jump("=", list[l].low, list[l].label)
        ELSE is \o Unless(high, Jump(">", c.high, DefaultLabel))
               \o (IF single THEN <<>> ELSE Jump(">=", c.low, c.label)) \o on_left
      ELSE IF single THEN is ELSE LeafTests(c, low, high)

DecisionTree(list, b) ==
  LET emit[k \in 0 .. Len(list)] ==
        LET l == Kid(b, k, "left")
            r == Kid(b, k, "right")
        IN  IF k = 0 THEN <<>> ELSE NodeTests(list, b, k, l, r, emit[l], emit[r])
  IN  ThenDefault(emit[b.root])

(* Unless the code is to be small, the table starts at zero if that saves a
   subtraction. *)
TableFroms(list) == {MinLow(list)} \cup (IF MinLow(list) \in {1, 2} THEN {0} ELSE {})

Table(list, first) ==
  <<[op |-> "table", at |-> first, to |-> DefaultLabel,
     entries |-> [i \in 0 .. Wrap(MaxHigh(list) - first) |->
       LET c == {k \in DOMAIN list :
                   Wrap(list[k].low - first) <= i /\ i <= Wrap(list[k].high - first)}
       IN  IF c = {} THEN DefaultLabel ELSE list[CHOOSE k \in c : TRUE].label]]>>

(* A tree of comparisons unless there are enough values, close together. *)
WantsTests(list) ==
  \/ Counts(list) < 5
  \/ Span(list) > Sparse * Counts(list)
  \/ Span(list) < 0

ConstantJump(list, v) ==
  LET k == SelectInSeq(list, LAMBDA c : v >= c.low /\ v <= c.high)
  IN  Always(IF k = 0 THEN DefaultLabel ELSE list[k].label)

-----------------------------------------------------------------------------
CasesInit ==
  /\ unsigned \in BOOLEAN
  /\ cases = {} /\ tree = NoTree /\ place = [n \in AllValues |-> n]
  /\ known = NoCase /\ dispatch = <<>>

(* `case low:' or `case low ... high:'.  Ranges without values, such as 5 ... 3,
   of which the compiler only warns, are left out. *)
AddCase(low, high) ==
  /\ dispatch = <<>> /\ Cardinality(cases) < MaxCases
  /\ low <= high
  /\ Fits(low, high)
  /\ cases' = cases \cup {<<low, high>>}
  /\ tree' = AddCaseNode(tree, low, high)
  /\ UNCHANGED <<unsigned, place, known, dispatch>>

(* Where the labels lead to is what the body of the switch says: to different
   places, all to one, or two neighbours to one. *)
Neighbours(a, b) ==
  a \in cases /\ b \in cases /\ a[1] < b[1]
    /\ \A c \in cases : c[1] <= a[1] \/ c[1] >= b[1]

Places ==
  {[n \in AllValues |-> n], [n \in AllValues |-> Lowest]} \cup
  {[n \in AllValues |-> IF n = p[2][1] THEN p[1][1] ELSE n] :
     p \in {q \in cases \X cases : Neighbours(q[1], q[2])}}

EndSwitch(list) ==
  \/ list = <<>> /\ dispatch' = Always(DefaultLabel)
  \/ /\ list # <<>> /\ WantsTests(list)
     /\ \E text \in {FALSE, LooksLikeText(list)} :
          dispatch' = DecisionTree(list, Balanced(list, text))
  \/ /\ list # <<>> /\ ~WantsTests(list)
     /\ \E first \in TableFroms(list) : dispatch' = Table(list, first)

(* expand_end_case_type.  An index of an enumeration has no text. *)
EndCases ==
  /\ dispatch = <<>>
  /\ place' \in Places
  /\ EndSwitch(Grouped(CaseList(tree), place'))
  /\ tree' = NoTree
  /\ UNCHANGED <<unsigned, cases, known>>

EndConstant(v) ==
  /\ dispatch = <<>> /\ cases # {}
  /\ known' = v
  /\ dispatch' = ConstantJump(Grouped(CaseList(tree), place), v)
  /\ tree' = NoTree
  /\ UNCHANGED <<unsigned, cases, place>>

CasesNext ==
  \/ EndCases
  \/ \E low, high \in CaseValues : AddCase(low, high)
  \/ \E v \in CaseValues : EndConstant(v)

-----------------------------------------------------------------------------
(* Properties. *)

(* The label tree is an AVL tree of all labels: in order, without a broken
   link, and with each balance the difference of two heights that differ by
   one at most. *)
TreeBalanced ==
  dispatch = <<>> =>
    LET names == InOrder(tree)
        height[n \in AllValues \cup {NoCase}] ==
          IF n = NoCase THEN 0
          ELSE 1 + Max({height[tree.kid[s][n]] : s \in Sides})
    IN  /\ ToSet(names) = {c[1] : c \in cases} /\ Len(names) = Cardinality(cases)
        /\ \A k \in 1 .. Len(names) - 1 : tree.high[names[k]] < names[k + 1]
        /\ \A n \in ToSet(names) :
             /\ tree.balance[n] = height[tree.kid["right"][n]] - height[tree.kid["left"][n]]
             /\ tree.balance[n] \in -1 .. 1
             /\ \A s \in Sides : tree.kid[s][n] # NoCase => tree.parent[tree.kid[s][n]] = n

(* What the emitted code does with an index of value v. *)
Taken(i, v) ==
  CASE i.op = "jump" -> TRUE       [] i.op = "label" -> FALSE
    [] i.op = "="  -> v = i.at     [] i.op = "<"  -> v < i.at
    [] i.op = ">"  -> v > i.at     [] i.op = "<=" -> v <= i.at
    [] i.op = ">=" -> v >= i.at
    [] i.op = "outside" -> (v - i.at) % Modulus > (i.upto - i.at) % Modulus

Reached(v) ==
  LET run[k \in DOMAIN dispatch] ==
        LET i == dispatch[k]
        IN  IF i.op = "table"
            THEN IF Wrap(v - i.at) \in DOMAIN i.entries THEN i.entries[Wrap(v - i.at)]
                 ELSE i.to
            ELSE IF ~Taken(i, v) THEN run[k + 1]
            ELSE IF i.to < TestLabel(Lowest) THEN i.to
            ELSE run[CHOOSE j \in DOMAIN dispatch :
                       dispatch[j].op = "label" /\ dispatch[j].to = i.to]
  IN  run[1]

(* Whatever was grouped, balanced and left out: an index leads to the place of
   the label whose range it is in, and to the default otherwise. *)
DispatchRight ==
  dispatch # <<>> =>
    \A v \in IF known = NoCase THEN CaseValues ELSE {known} :
      LET mine == {c \in cases : c[1] <= v /\ v <= c[2]}
      IN  IF mine = {} THEN Reached(v) = DefaultLabel
          ELSE /\ Reached(v) # DefaultLabel
               /\ \A c \in mine : place[Reached(v)] = place[c[1]]
=============================================================================
