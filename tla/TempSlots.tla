------------------------------ MODULE TempSlots ------------------------------
(***************************************************************************)
(* Stack temporaries of a function (gcc/function.c) and the order in which *)
(* the expander of statements and expressions opens, preserves and frees   *)
(* them (gcc/stmt.c, gcc/expr.c, gcc/c-common.c).                          *)
(*                                                                         *)
(* A slot is found again, split, merged with its neighbours and freed from *)
(* the fields of struct temp_slot alone.  `objects' is a history: what the *)
(* program still needs, and until which level, whatever the slots say.     *)
(*                                                                         *)
(* A unit is a word.  Temporaries are BLKmode objects, aligned to          *)
(* BIGGEST_ALIGNMENT, two units; the others are neither split nor merged.  *)
(* The frame grows upward.  Aliases of slot addresses                      *)
(* (update_temp_slot_address) are left out: a value in memory is at a      *)
(* known frame address or at an unknown one.  So are types, which only     *)
(* forbid reuse, and -fstrict-aliasing, which forbids merging.             *)
(***************************************************************************)
EXTENDS Integers, Sequences, FiniteSets, SequencesExt

CONSTANTS
  BlkSizes,     \* sizes of BLKmode temporaries asked for
  MaxLevel,     \* bound: nesting of temporaries
  MaxRoom,      \* bound: units of the frame and nesting together
  MaxObjects,   \* bound: objects needed at a time
  TailMembers   \* values may be the last unit of an object of several

VARIABLES
  slots,          \* temp_slots, the newest first
  frame_offset,   \* the frame allocated so far
  open,           \* the open constructs that pushed a level, innermost last
  seq_rtl_expr,   \* the statement expression being expanded, or NoExpr
  last_value,     \* last_expr_value
  objects         \* history: the objects still needed

slotVars == <<slots, frame_offset, open, seq_rtl_expr, last_value, objects>>

-----------------------------------------------------------------------------
Alignment    == 2
CeilRound(n) == ((n + Alignment - 1) \div Alignment) * Alignment

NoExpr == 0
temp_slot_level == Len(open)

(* A value: none or in a register; in memory at a frame address, of BLKmode
   or not; or in memory at an address that is not known. *)
Register   == [in |-> "register", blk |-> FALSE]
Elsewhere  == [in |-> "memory", blk |-> TRUE]
At(a, b)   == [in |-> "frame", addr |-> a, blk |-> b]

(* struct temp_slot; addr is the address in `slot'. *)
SlotType ==
  [addr : Nat, size : Nat, base : Nat, full : Nat,
   in_use : BOOLEAN, keep : {0, 1}, level : Nat, taken : BOOLEAN, expr : Nat]

(* Each field but the extent is set anew when a free slot is used again;
   they are cleared when it is freed. *)
Freed(p) == [p EXCEPT !.in_use = FALSE, !.keep = 0, !.level = 0,
                      !.taken = FALSE, !.expr = NoExpr]

Map(ps, F(_)) == [i \in DOMAIN ps |-> F(ps[i])]

-----------------------------------------------------------------------------
(* Fault: the unit behind the slot is taken for its own. *)
Covers_Closed(p, a) ==
  p.in_use /\ (p.addr = a \/ a \in p.base .. p.base + p.full)

(* find_temp_slot_from_address: the first slot in use that starts at a or
   covers it. *)
Covers(p, a) == p.in_use /\ (p.addr = a \/ a \in p.base .. p.base + p.full - 1)

FindSlot(ps, a) ==
  LET found == {i \in DOMAIN ps : Covers(ps[i], a)}
  IN  IF found = {} THEN 0 ELSE CHOOSE i \in found : \A j \in found : i <= j

(* combine_temp_slots: for each free BLKmode slot p, the later ones of the
   list that follow it in the frame become part of it; one that precedes it
   takes p, and p is gone. *)
Gone(p)         == p.size = 0
Mergeable(p)    == ~p.in_use /\ ~Gone(p)
Grown(p, q)     == [p EXCEPT !.size = @ + q.size, !.full = @ + q.full]
Merged(ps, i, j) == [ps EXCEPT ![i] = Grown(@, ps[j]), ![j].size = 0]

CombinePair(ps, i, j) ==
  LET p == ps[i]
      q == ps[j]
  IN  CASE ~Mergeable(p) \/ ~Mergeable(q)     -> ps
        [] p.base + p.full = q.base            -> Merged(ps, i, j)
        [] q.base + q.full = p.base            -> Merged(ps, j, i)
        [] OTHER                               -> ps

CombineTempSlots(ps) ==
  LET n   == Len(ps)
      all == FoldLeft(LAMBDA qs, i :
               FoldLeft(LAMBDA rs, j : CombinePair(rs, i, j), qs,
                        [k \in 1 .. n - i |-> i + k]),
               ps, [i \in 1 .. n |-> i])
  IN  SelectSeq(all, LAMBDA p : ~Gone(p))

(* Every slot p of ps for which Dies(p) holds is freed. *)
FreeWhere(ps, Dies(_)) ==
  CombineTempSlots(Map(ps, LAMBDA p : IF Dies(p) THEN Freed(p) ELSE p))

FreeTempSlots(ps, L) ==
  FreeWhere(ps, LAMBDA p :
    p.in_use /\ p.level = L /\ p.keep = 0 /\ p.expr = NoExpr)

FreeTempsForRtlExpr(ps, L, t) ==
  CombineTempSlots(Map(ps, LAMBDA p :
    IF p.expr # t THEN p
    ELSE IF L <= p.level THEN Freed(p) ELSE [p EXCEPT !.expr = NoExpr]))

(* pop_temp_slots, but for the level. *)
PopTempSlots(ps, L) ==
  FreeWhere(ps, LAMBDA p : p.in_use /\ p.level = L /\ p.expr = NoExpr)

Lifted(p) == [p EXCEPT !.level = @ - 1]

PreserveTempSlots(ps, v, L) ==
  LET f     == IF v.in = "frame" THEN FindSlot(ps, v.addr) ELSE 0
      taken(p) == p.in_use /\ p.level = L /\ p.taken
      lift(p, S(_)) == IF S(p) THEN Lifted(p) ELSE p
  IN  IF v.in = "register" THEN Map(ps, LAMBDA p : lift(p, taken))
      ELSE IF f = 0
      THEN Map(ps, LAMBDA p :
             lift(p, LAMBDA q : q.in_use /\ q.level = L /\ q.keep = 0))
      ELSE IF ps[f].level = L
      THEN [Map(ps, LAMBDA p : lift(p, taken)) EXCEPT
              ![f] = [Lifted(ps[f]) EXCEPT !.taken = FALSE]]
      ELSE ps

(* Fault: the slot of the value stays with the expression. *)
PreserveRtlExprResult_KeepExpr(ps, v, L) ==
  LET f == IF v.in = "frame" THEN FindSlot(ps, v.addr) ELSE 0
  IN  IF f = 0 \/ ps[f].level <= L THEN ps ELSE [ps EXCEPT ![f].level = L]

PreserveRtlExprResult(ps, v, L) ==
  LET f == IF v.in = "frame" THEN FindSlot(ps, v.addr) ELSE 0
  IN  IF f = 0 THEN ps
      ELSE [ps EXCEPT ![f].level = IF L < @ THEN L ELSE @, ![f].expr = NoExpr]

-----------------------------------------------------------------------------
(* The slot for a temporary: the smallest free one that is large enough, the
   first of these in the list. *)
BestSlot(ps, size) ==
  LET fit == {i \in DOMAIN ps : ~ps[i].in_use /\ ps[i].size >= size}
  IN  IF fit = {} THEN 0
      ELSE CHOOSE i \in fit : \A j \in fit :
             ps[i].size < ps[j].size \/ (ps[i].size = ps[j].size /\ i <= j)

(* Fault: the slot that was split still claims all of its bytes. *)
Split_KeepFull(ps, i, size) ==
  LET p == ps[i]
      r == CeilRound(size)
  IN  IF p.size - r >= Alignment
      THEN <<Freed([p EXCEPT !.addr = @ + r, !.base = @ + r,
                             !.size = @ - r, !.full = @ - r])>>
           \o [ps EXCEPT ![i].size = r]
      ELSE ps

(* "If there are enough aligned bytes left over, make them into a new
   temp_slot." *)
Split(ps, i, size) ==
  LET p == ps[i]
      r == CeilRound(size)
  IN  IF p.size - r >= Alignment
      THEN <<Freed([p EXCEPT !.addr = @ + r, !.base = @ + r,
                             !.size = @ - r, !.full = @ - r])>>
           \o [ps EXCEPT ![i].size = r, ![i].full = r]
      ELSE ps

(* Where assign_stack_local puts an object.  The phase is what the outgoing
   arguments seen so far leave of STARTING_FRAME_OFFSET. *)
SlotAddress(phase) == CeilRound(frame_offset - phase) + phase

NewSlot(size, a) ==
  Freed([addr |-> a, size |-> size, base |-> frame_offset,
         full |-> a + CeilRound(size) - frame_offset,
         in_use |-> TRUE, keep |-> 0, level |-> 0, taken |-> FALSE,
         expr |-> NoExpr])

(* assign_stack_temp_for_type once slot i of ps is chosen. *)
Use(ps, i, keep) ==
  [ps EXCEPT ![i] = [@ EXCEPT
     !.in_use = TRUE, !.taken = FALSE, !.expr = seq_rtl_expr,
     !.keep  = keep, !.level = temp_slot_level]]

NewObject(a, size, keep) ==
  [addr |-> a, size |-> size, taken |-> FALSE,
   kept |-> keep # 0, until |-> temp_slot_level]

-----------------------------------------------------------------------------
(* The history.  Units of an object a value may be in. *)
Members(o) ==
  o.addr .. o.addr + o.size - (IF o.size = 1 \/ TailMembers THEN 1 ELSE 2)

Holds(o, v) == v.in = "frame" /\ v.addr \in Members(o)

(* A value outlives level L: what holds it is needed on the next level, until
   the statement there ends, and so is an object whose address was taken on
   this level if the value may be that address. *)
Promoted(os, v, L) ==
  {IF o.until = L /\ (Holds(o, v) \/ (v.in = "register" /\ o.taken))
   THEN [o EXCEPT !.until = L - 1, !.kept = FALSE,
                  !.taken = @ /\ ~Holds(o, v)] ELSE o : o \in os}

StatementEnds(os, L) == {o \in os : ~(o.until = L /\ ~o.kept)}
LevelEnds(os, L)     == {o \in os : o.until # L}

Values ==
  {Register, Elsewhere} \cup
  UNION {{At(a, b) : a \in Members(o), b \in BOOLEAN} : o \in objects}

-----------------------------------------------------------------------------
Construct      == open[Len(open)]
InStatements   == Len(open) > 0 /\ Construct.kind \in {"block", "stmt_expr"}

(* After the value of a statement expression only the ends of its block and
   of itself follow. *)
Expanding      == last_value = Register

SlotsInit ==
  /\ slots = <<>>
  /\ frame_offset = 0
  /\ open = <<>>
  /\ seq_rtl_expr = NoExpr
  /\ last_value = Register
  /\ objects = {}

AssignStackTemp(size, keep) ==
  /\ Expanding
  /\ Len(open) > 0
  /\ Cardinality(objects) < MaxObjects
  /\ LET i == BestSlot(slots, size)
     IN  IF i # 0
         THEN LET ps == Split(slots, i, size)
                  j  == i + Len(ps) - Len(slots)
              IN  /\ slots' = Use(ps, j, keep)
                  /\ objects' = objects \cup {NewObject(ps[j].addr, size, keep)}
                  /\ UNCHANGED frame_offset
         ELSE \E phase \in {0, 1} :
                LET p == NewSlot(size, SlotAddress(phase))
                IN  /\ p.base + p.full + Len(open) <= MaxRoom
                    /\ slots' = Use(<<p>> \o slots, 1, keep)
                    /\ objects' = objects \cup {NewObject(p.addr, size, keep)}
                    /\ frame_offset' = p.base + p.full
  /\ UNCHANGED <<open, seq_rtl_expr, last_value>>

(* The operand of an ADDR_EXPR, or the memory a call returns its value in. *)
MarkTempAddrTaken(o) ==
  /\ Expanding
  /\ ~o.taken
  /\ \E a \in Members(o) :
       LET i == FindSlot(slots, a)
       IN  slots' = IF i = 0 THEN slots ELSE [slots EXCEPT ![i].taken = TRUE]
  /\ objects' = (objects \ {o}) \cup {[o EXCEPT !.taken = TRUE]}
  /\ UNCHANGED <<frame_offset, open, seq_rtl_expr, last_value>>

(* The end of expand_expr_stmt_value.  The value of the last statement of a
   statement expression is wanted. *)
LastOfStmtExpr ==
  LET n == Len(open)
  IN  \/ open[n].kind = "stmt_expr"
      \/ n > 1 /\ open[n].kind = "block" /\ open[n - 1].kind = "stmt_expr"

ExpandExprStmt(v) ==
  /\ Expanding /\ InStatements
  /\ LET L == temp_slot_level
         wanted == LastOfStmtExpr
     IN  /\ slots' = FreeTempSlots(PreserveTempSlots(slots, v, L), L)
         /\ objects' = StatementEnds(IF wanted THEN Promoted(objects, v, L)
                                               ELSE objects, L)
         /\ last_value' = IF wanted THEN v ELSE Register
  /\ UNCHANGED <<frame_offset, open, seq_rtl_expr>>

Push(kind, scope) ==
  /\ Expanding
  /\ Len(open) < MaxLevel /\ frame_offset + Len(open) < MaxRoom
  /\ open' = Append(open, [kind |-> kind, scope |-> scope,
                           outer |-> seq_rtl_expr])

ExpandStartBindings ==
  /\ Push("block", TRUE)
  /\ open = <<>> \/ InStatements
  /\ UNCHANGED <<slots, frame_offset, seq_rtl_expr, last_value, objects>>

ExpandEndBindings ==
  /\ InStatements /\ Construct.kind = "block"
  /\ slots' = PopTempSlots(slots, temp_slot_level)
  /\ objects' = LevelEnds(objects, temp_slot_level)
  /\ open' = Front(open)
  /\ UNCHANGED <<frame_offset, seq_rtl_expr, last_value>>

(* c_expand_expr of a STMT_EXPR; the body of an inlined call has no scope. *)
ExpandStartStmtExpr(scope) ==
  /\ Len(open) > 0
  /\ Push("stmt_expr", scope)
  /\ seq_rtl_expr' = IF scope THEN Len(open) + 1 ELSE seq_rtl_expr
  /\ UNCHANGED <<slots, frame_offset, last_value, objects>>

(* The sequence ends and is emitted at once (expand_expr of the RTL_EXPR), the
   result is preserved if it is a BLKmode object, and all temporaries whose
   address was taken if there is no scope; then the level goes. *)
ExpandEndStmtExpr ==
  /\ InStatements /\ Construct.kind = "stmt_expr"
  /\ LET L       == temp_slot_level
         scope   == Construct.scope
         v       == last_value
         emitted == PreserveRtlExprResult(slots, v, L)
         freed   == IF scope THEN FreeTempsForRtlExpr(emitted, L, L)
                             ELSE CombineTempSlots(emitted)
         result  == IF v.blk THEN PreserveTempSlots(freed, v, L) ELSE freed
         all     == IF scope THEN result
                             ELSE PreserveTempSlots(result, Register, L)
         needed  == IF v.blk THEN Promoted(objects, v, L) ELSE objects
     IN  /\ slots' = PopTempSlots(all, L)
         /\ objects' = LevelEnds(IF scope THEN needed
                                 ELSE Promoted(needed, Register, L), L)
  /\ seq_rtl_expr' = Construct.outer
  /\ open' = Front(open)
  /\ last_value' = Register
  /\ UNCHANGED <<frame_offset>>

(* A part of an expression that pushes a level of its own: an assignment, a
   store to a field, an argument of a call.  Most call free_temp_slots before
   pop_temp_slots, which frees all that the former does. *)
StartOperand ==
  /\ Len(open) > 0
  /\ Push("operand", TRUE)
  /\ UNCHANGED <<slots, frame_offset, seq_rtl_expr, last_value, objects>>

EndOperand(v) ==
  /\ Expanding
  /\ Len(open) > 0 /\ Construct.kind = "operand"
  /\ LET L == temp_slot_level
     IN  /\ slots' = PopTempSlots(PreserveTempSlots(slots, v, L), L)
         /\ objects' = LevelEnds(Promoted(objects, v, L), L)
  /\ open' = Front(open)
  /\ UNCHANGED <<frame_offset, seq_rtl_expr, last_value>>

SlotsNext ==
  \/ \E size \in BlkSizes, keep \in {0, 1} : AssignStackTemp(size, keep)
  \/ \E o \in objects : MarkTempAddrTaken(o)
  \/ \E v \in Values : ExpandExprStmt(v)
  \/ ExpandStartBindings
  \/ ExpandEndBindings
  \/ \E scope \in BOOLEAN : ExpandStartStmtExpr(scope)
  \/ ExpandEndStmtExpr
  \/ StartOperand
  \/ \E v \in Values : EndOperand(v)

SlotsSpec == SlotsInit /\ [][SlotsNext]_slotVars

-----------------------------------------------------------------------------
SlotsTypeOK ==
  /\ slots \in Seq(SlotType)
  /\ frame_offset \in 0 .. MaxRoom
  /\ seq_rtl_expr \in 0 .. MaxLevel
  /\ temp_slot_level <= MaxLevel

Extent(p) == p.addr .. p.addr + p.size - 1

(* The slots in the list, in use or free, share no unit of the frame, by
   their extents as by the ranges combine_temp_slots and
   find_temp_slot_from_address go by, and all lie in the frame. *)
SlotsApart ==
  \A i, j \in DOMAIN slots :
    /\ Extent(slots[i]) \subseteq 0 .. frame_offset - 1
    /\ i # j =>
         /\ Extent(slots[i]) \cap Extent(slots[j]) = {}
         /\ slots[i].base .. slots[i].base + slots[i].full - 1
              \cap (slots[j].base .. slots[j].base + slots[j].full - 1) = {}

(* No two objects the program still needs share storage, and each lies in a
   slot in use: nothing is given to another object before its last use,
   however slots were split, merged and preserved; nor will it be by the slots
   that are free. *)
NoClobber ==
  /\ SlotsApart
  /\ \A o1, o2 \in objects : o1 # o2 => Extent(o1) \cap Extent(o2) = {}
  /\ \A o \in objects : \E i \in DOMAIN slots :
       slots[i].in_use /\ slots[i].addr = o.addr
       /\ Extent(o) \subseteq Extent(slots[i])

(* "Find the temp slot corresponding to the object at address X": no slot
   but its own is found for a unit of an object. *)
FindsNoOther ==
  \A o \in objects : \A a \in Members(o) :
    LET i == FindSlot(slots, a)
    IN  i # 0 => slots[i].addr = o.addr
=============================================================================
