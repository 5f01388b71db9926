------------------------------ MODULE ConstPool ------------------------------
(***************************************************************************)
(* Constants in memory (i370/varasm.c).  A string or an aggregate gets a   *)
(* label for the whole unit; it is written at once, but for strings that   *)
(* the code of a function refers to, which wait until the end of a         *)
(* function whose insns still refer to them.  A constant that an insn      *)
(* cannot hold is put into the pool of its function and written at its end *)
(* if an insn still needs it.                                              *)
(*                                                                         *)
(* `mentioned' is a history: the labels that occur in the text that was    *)
(* written.  STRING_POOL_ADDRESS_P of a string's symbol is set as long as  *)
(* it is in const_str_htab.  -fwritable-strings, -fsyntax-only and the     *)
(* lists of defer_addressed_constants and CONSTANT_AFTER_FUNCTION_P, which *)
(* nothing uses, are left out.                                             *)
(***************************************************************************)
EXTENDS Naturals, Sequences, FiniteSets, SequencesExt

CONSTANTS
  Strings, Aggregates,
  Addressed,       \* the constants whose addresses an aggregate holds
  Forced,          \* constants for the pool
  Refers,          \* the string or pool constant each one refers to, or None
  None,
  MaxLabels,       \* bound: labels
  MaxFunctions     \* bound: functions open, one inside the other

Trees == Strings \cup Aggregates

ASSUME ConstantsAssumption ==
  /\ Addressed \in [Aggregates -> SUBSET Strings]
  /\ Refers \in [Forced -> Strings \cup Forced \cup {None}]
  /\ None \notin Strings \cup Forced

VARIABLES
  const_labelno,  \* labels given so far; a label is the number it has
  label,          \* const_hash_table: the label of each tree constant, or 0
  deferred,       \* const_str_htab
  functions,      \* cfun and the functions around it, innermost first
  written,        \* how often each label was defined in the text
  mentioned       \* history: the labels the text refers to

poolVars == <<const_labelno, label, deferred, functions, written, mentioned>>

Label == 1 .. MaxLabels

-----------------------------------------------------------------------------
(* What the text and the tables become; the record s has the fields no, label,
   deferred, written and mentioned. *)
Tables == [no |-> const_labelno, label |-> label, deferred |-> deferred,
           written |-> written, mentioned |-> mentioned]

(* output_constant_def_contents *)
Write(s, c) ==
  [s EXCEPT
     !.written[s.label[c]] = @ + 1,
     !.mentioned = IF c \in Aggregates
                   THEN @ \cup {s.label[d] : d \in Addressed[c]} ELSE @]

Labelled(s, c) ==
  IF s.label[c] # 0 THEN s
  ELSE [s EXCEPT !.no = @ + 1, !.label[c] = s.no + 1]

(* Fault: a string that waits is not written when it has to be. *)
StringDef_StaysDeferred(s, c, defer) ==
  LET l == Labelled(s, c)
  IN  IF s.label[c] # 0 THEN s
      ELSE IF defer THEN [l EXCEPT !.deferred = @ \cup {c}]
      ELSE Write(l, c)

(* output_constant_def of a string: it is new, or waits and may not wait any
   longer. *)
StringDef(s, c, defer) ==
  LET l == Labelled(s, c)
  IN  IF s.label[c] # 0 /\ (c \notin s.deferred \/ defer) THEN s
      ELSE IF defer THEN [l EXCEPT !.deferred = @ \cup {c}]
      ELSE Write([l EXCEPT !.deferred = @ \ {c}], c)

(* output_constant_def: first output_addressed_constants, which never defers. *)
OutputConstantDef(s, c, defer) ==
  IF c \in Strings THEN StringDef(s, c, defer)
  ELSE LET a == FoldLeft(LAMBDA t, d : StringDef(t, d, FALSE), s,
                         SetToSeq(Addressed[c]))
       IN  IF s.label[c] # 0 THEN a ELSE Write(Labelled(a, c), c)

Become(s) ==
  /\ const_labelno' = s.no /\ label' = s.label /\ deferred' = s.deferred
  /\ written' = s.written /\ mentioned' = s.mentioned

-----------------------------------------------------------------------------
Cfun == Head(functions)

(* A pool constant of the function with label l, as find_pool_constant finds
   it. *)
InPool(pool, l) == {k \in DOMAIN pool : pool[k].label = l}

(* The label a pool constant refers to; 0 if none. *)
RefLabel(pool, c) ==
  CASE Refers[c] = None       -> 0
    [] Refers[c] \in Strings  -> label[Refers[c]]
    [] OTHER -> LET ks == {k \in DOMAIN pool : pool[k].constant = Refers[c]}
                IN  IF ks = {} THEN 0
                    ELSE pool[CHOOSE k \in ks : TRUE].label

(* Fault: the marks that force_const_mem sets are not reset. *)
Used_NoReset(f) ==
  f.insns \cup {f.pool[k].label : k \in DOMAIN f.pool}
    \cup ({RefLabel(f.pool, f.pool[k].constant) : k \in DOMAIN f.pool} \ {0})

(* mark_constant_pool: the labels in the insns and, through the constants of
   the pool that are marked, those they refer to. *)
Used(f) ==
  LET refs(ls) == {RefLabel(f.pool, f.pool[k].constant) :
                     k \in UNION {InPool(f.pool, l) : l \in ls}} \ {0}
      step[n \in 0 .. Len(f.pool)] ==
        IF n = 0 THEN f.insns ELSE step[n - 1] \cup refs(step[n - 1])
  IN  step[Len(f.pool)]

-----------------------------------------------------------------------------
PoolInit ==
  /\ const_labelno = 0 /\ label = [c \in Trees |-> 0]
  /\ deferred = {} /\ functions = <<>>
  /\ written = [l \in Label |-> 0] /\ mentioned = {}

(* A function begins, perhaps inside another one. *)
BeginFunction ==
  /\ Len(functions) < MaxFunctions
  /\ functions' = <<[insns |-> {}, pool |-> <<>>]>> \o functions
  /\ UNCHANGED <<const_labelno, label, deferred, written, mentioned>>

(* There are labels left for c and what it addresses. *)
LabelsFor(c) ==
  LET own == IF c \in Aggregates THEN {c} \cup Addressed[c] ELSE {c}
  IN  const_labelno + Cardinality({d \in own : label[d] = 0}) <= MaxLabels

(* expand_expr of a constant or of its address. *)
ExpandConstant(c) ==
  LET s == OutputConstantDef(Tables, c, TRUE)
  IN  /\ functions # <<>> /\ LabelsFor(c)
      /\ Become(s)
      /\ functions' = [functions EXCEPT ![1].insns = @ \cup {s.label[c]}]

(* A variable with an initializer that holds the address of c is output. *)
AssembleVariable(c) ==
  LET s == OutputConstantDef(Tables, c, FALSE)
  IN  /\ LabelsFor(c)
      /\ Become([s EXCEPT !.mentioned = @ \cup {s.label[c]}])
      /\ UNCHANGED functions

(* force_const_mem: an insn refers to the entry of c, new or not. *)
ForceConstMem(c) ==
  /\ functions # <<>>
  /\ LET pool == Cfun.pool
         own  == {k \in DOMAIN pool : pool[k].constant = c}
         l    == IF own = {} THEN const_labelno + 1
                 ELSE pool[CHOOSE k \in own : TRUE].label
     IN  /\ Refers[c] # None => RefLabel(pool, c) # 0
         /\ l <= MaxLabels
         /\ const_labelno' = IF own = {} THEN l ELSE const_labelno
         /\ functions' = [functions EXCEPT ![1] =
              [insns |-> @.insns \cup {l},
               pool |-> IF own = {}
                        THEN Append(pool, [constant |-> c, label |-> l])
                        ELSE pool]]
  /\ UNCHANGED <<label, deferred, written, mentioned>>

(* The last insn that refers to label l is deleted. *)
DeleteReference(l) ==
  /\ functions # <<>>
  /\ functions' = [functions EXCEPT ![1].insns = @ \ {l}]
  /\ UNCHANGED <<const_labelno, label, deferred, written, mentioned>>

(* final and assemble_end_function: the insns are printed, the strings they
   need that wait and the marked constants of the pool are written. *)
EndFunction ==
  /\ functions # <<>>
  /\ LET f      == Cfun
         used   == Used(f)
         marked == {k \in DOMAIN f.pool : f.pool[k].label \in used}
         due    == {c \in deferred : label[c] \in used}
     IN  /\ written' = [l \in Label |->
              written[l] + Cardinality({k \in marked : f.pool[k].label = l})
                         + Cardinality({c \in due : label[c] = l})]
         /\ mentioned' = mentioned \cup f.insns \cup
              ({RefLabel(f.pool, f.pool[k].constant) : k \in marked} \ {0})
         /\ deferred' = deferred \ due
  /\ functions' = Tail(functions)
  /\ UNCHANGED <<const_labelno, label>>

PoolNext ==
  \/ BeginFunction \/ EndFunction
  \/ \E c \in Trees : ExpandConstant(c) \/ AssembleVariable(c)
  \/ \E c \in Forced : ForceConstMem(c)
  \/ \E l \in Label : functions # <<>> /\ l \in Cfun.insns /\ DeleteReference(l)

PoolSpec == PoolInit /\ [][PoolNext]_poolVars

-----------------------------------------------------------------------------
(* Every label the text refers to is defined there, and none is twice, however
   often its constant was asked for, deferred or not. *)
DefinedOnce ==
  /\ \A l \in mentioned : written[l] = 1
  /\ \A l \in Label : written[l] <= 1

(* "The output of string constants can be deferred and output only if
   referenced in the function after all optimizations": a string or a constant
   of the pool that is written is referred to. *)
NoneForNothing ==
  \A l \in Label :
    written[l] > 0 => l \in mentioned \cup {label[c] : c \in Aggregates}
=============================================================================
