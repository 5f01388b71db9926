------------------------------- MODULE Includes -------------------------------
(***************************************************************************)
(* Directives of the preprocessor (gcc/cpplib.c, gcc/cpplex.c,             *)
(* gcc/cppfiles.c): the conditional stack of each buffer, the skipping of  *)
(* failed groups, included files and the multiple-include optimization.    *)
(*                                                                         *)
(* A file included again is not read if all of it is inside                *)
(*                                                                         *)
(*     #ifndef MACRO ... #endif    or    #if !defined MACRO ... #endif     *)
(*                                                                         *)
(* and MACRO is defined.  mi_valid and mi_cmacro find that out in passing, *)
(* while the file is read for the first time.                              *)
(*                                                                         *)
(* What a header holds is chosen line by line while it is read first, and  *)
(* stays so.  The main file is a stream of includes, definitions and text. *)
(* The macros are object-like: "#if M" is true if M is defined, and expands *)
(* it.  `seen' in a buffer is a history of its conditional directives and  *)
(* whether their conditions held when they were passed.                    *)
(***************************************************************************)
EXTENDS Naturals, Sequences, FiniteSets

CONSTANTS
  Headers,    \* files that can be included
  Macros,
  MaxLines,   \* bound: lines of a header
  MaxMain,    \* bound: lines of the main file
  MaxNest     \* CPP_STACK_MAX

None     == "none"
Never    == "never"      \* NEVER_REREAD
MainFile == "main"

VARIABLES
  buffers,       \* pfile->buffer and the ones below it, innermost first
  skipping,      \* state.skipping
  mi_valid, mi_cmacro, mi_ind_cmacro,
  macros,        \* the macros defined
  files          \* struct include_file of each header, and its lines

inclVars ==
  <<buffers, skipping, mi_valid, mi_cmacro, mi_ind_cmacro, macros, files>>

-----------------------------------------------------------------------------
IfOps     == {"ifdef", "ifndef", "if", "ifnot"}       \* the flag IF_COND
CondOps   == IfOps \cup {"elif", "else", "endif"}     \* the flag COND

MainLines ==
  [op : {"define", "undef"}, arg : Macros] \cup
  [op : {"include", "import"}, arg : Headers] \cup [op : {"text"}, arg : {None}]

Lines ==
  MainLines \cup [op : IfOps \cup {"elif"}, arg : Macros] \cup
  [op : {"else", "endif"}, arg : {None}]

IfEntry ==
  [else : BOOLEAN, skip_elses : BOOLEAN, was_skipping : BOOLEAN,
   cmacro : Macros \cup {None}]

(* Whether the condition of line l holds; that of #else always does. *)
Truth(l, ms) ==
  CASE l.op \in {"ifndef", "ifnot"}     -> l.arg \notin ms
    [] l.op \in {"ifdef", "if", "elif"} -> l.arg \in ms
    [] OTHER                            -> TRUE

Buffer   == Head(buffers)
IfStack  == Buffer.if_stack
DoNotReread(f) ==
  files[f].cmacro = Never \/ files[f].cmacro \in macros

-----------------------------------------------------------------------------
(* The line is taken from the buffer: a line of a header that is read for the
   first time may be any. *)
Available(l) ==
  LET b == Buffer
  IN  IF b.inc = MainFile THEN l \in MainLines /\ b.pos <= MaxMain
      ELSE IF b.pos <= Len(files[b.inc].lines)
      THEN l = files[b.inc].lines[b.pos]
      ELSE ~files[b.inc].whole /\ b.pos <= MaxLines

Known(l) ==
  LET b == Buffer
  IN  IF b.inc # MainFile /\ b.pos > Len(files[b.inc].lines)
      THEN [files EXCEPT ![b.inc].lines = Append(@, l)]
      ELSE files

Advance == [buffers EXCEPT ![1].pos = @ + 1]

(* The buffer after a conditional directive that leaves `stack'; `evaluated'
   tells whether its condition was evaluated. *)
Passed(l, stack, evaluated) ==
  [buffers EXCEPT
     ![1] = [@ EXCEPT !.pos = @ + 1, !.if_stack = stack,
                      !.seen = Append(@, [op |-> l.op,
                                          holds |-> Truth(l, macros),
                                          evaluated |-> evaluated])]]

(* Fault: the elses are only skipped if this group is not. *)
PushConditional_NotNested(skip, cmacro, valid) ==
  <<[else |-> FALSE, skip_elses |-> ~skip, was_skipping |-> skipping,
     cmacro |-> IF valid /\ mi_cmacro = None THEN cmacro ELSE None]>> \o IfStack

(* Fault: not only at the top of the file. *)
PushConditional_NotTop(skip, cmacro, valid) ==
  <<[else |-> FALSE, skip_elses |-> skipping \/ ~skip,
     was_skipping |-> skipping, cmacro |-> cmacro]>> \o IfStack

(* push_conditional: the if_stack it leaves. *)
PushConditional(skip, cmacro, valid) ==
  <<[else |-> FALSE, skip_elses |-> skipping \/ ~skip,
     was_skipping |-> skipping,
     cmacro |-> IF valid /\ mi_cmacro = None THEN cmacro ELSE None]>> \o IfStack

-----------------------------------------------------------------------------
InclInit ==
  /\ buffers = <<[inc |-> MainFile, pos |-> 1, if_stack |-> <<>>,
                  seen |-> <<>>]>>
  /\ skipping = FALSE
  /\ mi_valid = TRUE /\ mi_cmacro = None /\ mi_ind_cmacro = None
  /\ macros = {}
  /\ files = [f \in Headers |-> [lines |-> <<>>, whole |-> FALSE,
                                 cmacro |-> None, refcnt |-> 0,
                                 cached |-> FALSE]]

(* A line of tokens: outside a directive, _cpp_lex_token invalidates the
   controlling macro, also while it skips. *)
Text(l) ==
  /\ l.op = "text"
  /\ mi_valid' = FALSE
  /\ buffers' = Advance
  /\ files' = Known(l)
  /\ UNCHANGED <<skipping, mi_cmacro, mi_ind_cmacro, macros>>

(* #define and #undef, if not skipped. *)
DoDefine(l) ==
  /\ l.op \in {"define", "undef"}
  /\ mi_valid' = FALSE
  /\ macros' = IF skipping THEN macros
               ELSE IF l.op = "define" THEN macros \cup {l.arg}
                                       ELSE macros \ {l.arg}
  /\ buffers' = Advance
  /\ files' = Known(l)
  /\ UNCHANGED <<skipping, mi_cmacro, mi_ind_cmacro>>

(* do_ifdef, do_ifndef and do_if.  While skipping, do_if hands on the
   mi_ind_cmacro of the last expression. *)
DoIf(l) ==
  /\ l.op \in IfOps
  /\ LET holds    == Truth(l, macros)
         skip     == skipping \/ ~holds
         ind      == IF skipping THEN mi_ind_cmacro
                     ELSE IF l.op = "ifnot" THEN l.arg ELSE None
         expanded == ~skipping /\ l.op = "if" /\ holds
         valid    == mi_valid /\ ~expanded
         cmacro   == CASE l.op = "ifndef"         -> IF skipping THEN None ELSE l.arg
                       [] l.op \in {"if", "ifnot"} -> ind
                       [] OTHER                    -> None
     IN  /\ buffers' = Passed(l, PushConditional(skip, cmacro, valid), ~skipping)
         /\ skipping' = skip
         /\ mi_valid' = valid
         /\ mi_ind_cmacro' = IF l.op \in {"if", "ifnot"} THEN ind
                                                         ELSE mi_ind_cmacro
  /\ files' = Known(l)
  /\ UNCHANGED <<mi_cmacro, macros>>

DoElse(l) ==
  /\ l.op = "else"
  /\ mi_valid' = FALSE
  /\ IF IfStack = <<>>
     THEN buffers' = Passed(l, <<>>, FALSE) /\ UNCHANGED skipping
     ELSE LET ifs == Head(IfStack)
          IN  /\ skipping' = ifs.skip_elses
              /\ buffers' = Passed(l,
                   <<[ifs EXCEPT !.else = TRUE, !.skip_elses = TRUE,
                                 !.cmacro = None]>> \o Tail(IfStack), FALSE)
  /\ files' = Known(l)
  /\ UNCHANGED <<mi_cmacro, mi_ind_cmacro, macros>>

DoElif(l) ==
  /\ l.op = "elif"
  /\ mi_valid' = FALSE
  /\ IF IfStack = <<>>
     THEN buffers' = Passed(l, <<>>, FALSE) /\ UNCHANGED <<skipping, mi_ind_cmacro>>
     ELSE LET ifs   == Head(IfStack)
              skip  == ifs.skip_elses \/ ~Truth(l, macros)
          IN  /\ skipping' = skip
              /\ mi_ind_cmacro' = IF ifs.skip_elses THEN mi_ind_cmacro ELSE None
              /\ buffers' = Passed(l,
                   <<[ifs EXCEPT !.else = FALSE, !.cmacro = None,
                                 !.skip_elses = @ \/ ~skip]>> \o Tail(IfStack),
                   ~ifs.skip_elses)
  /\ files' = Known(l)
  /\ UNCHANGED <<mi_cmacro, macros>>

(* "If potential control macro, we go back outside again." *)
DoEndif(l) ==
  /\ l.op = "endif"
  /\ IF IfStack = <<>>
     THEN /\ buffers' = Passed(l, <<>>, FALSE)
          /\ mi_valid' = FALSE
          /\ UNCHANGED <<skipping, mi_cmacro>>
     ELSE LET ifs     == Head(IfStack)
              outside == Tail(IfStack) = <<>> /\ ifs.cmacro # None
          IN  /\ buffers' = Passed(l, Tail(IfStack), FALSE)
              /\ skipping' = ifs.was_skipping
              /\ mi_valid' = outside
              /\ mi_cmacro' = IF outside THEN ifs.cmacro ELSE mi_cmacro
  /\ files' = Known(l)
  /\ UNCHANGED <<mi_ind_cmacro, macros>>

(* do_include_common and stack_include_file; an #import marks the file in any
   case. *)
DoInclude(l) ==
  /\ l.op \in {"include", "import"}
  /\ LET f      == l.arg
         known  == Known(l)
         opens  == ~skipping /\ Len(buffers) < MaxNest
         stacks == opens /\ ~DoNotReread(f)
         read   == IF stacks
                   THEN [known EXCEPT ![f].refcnt = @ + 1, ![f].cached = TRUE]
                   ELSE known
     IN  /\ files' = IF opens /\ l.op = "import"
                     THEN [read EXCEPT ![f].cmacro = Never] ELSE read
         /\ buffers' = IF stacks
                       THEN <<[inc |-> f, pos |-> 1, if_stack |-> <<>>,
                               seen |-> <<>>]>> \o Advance
                       ELSE Advance
         /\ mi_valid' = stacks
         /\ mi_cmacro' = IF stacks THEN None ELSE mi_cmacro
  /\ UNCHANGED <<skipping, mi_ind_cmacro, macros>>

(* Fault: the cache is purged while an outer buffer still reads it. *)
PopFile_AnyRef(f) ==
  LET marked == IF mi_valid /\ files[f].cmacro = None THEN mi_cmacro
                                                      ELSE files[f].cmacro
  IN  [files EXCEPT ![f] = [@ EXCEPT
         !.whole = TRUE, !.cmacro = marked, !.refcnt = @ - 1,
         !.cached = ~(marked = Never \/ marked \in macros)]]

(* _cpp_pop_file_buffer *)
PopFile(f) ==
  LET marked == IF mi_valid /\ files[f].cmacro = None THEN mi_cmacro
                                                      ELSE files[f].cmacro
      unused == files[f].refcnt = 1
  IN  [files EXCEPT ![f] = [@ EXCEPT
         !.whole = TRUE, !.cmacro = marked, !.refcnt = @ - 1,
         !.cached = ~(unused /\ (marked = Never \/ marked \in macros))]]

(* The end of a header: _cpp_pop_buffer. *)
EndOfFile ==
  LET b == Buffer
  IN  /\ b.inc # MainFile
      /\ b.pos > Len(files[b.inc].lines)
      /\ files' = PopFile(b.inc)
      /\ buffers' = Tail(buffers)
      /\ skipping' = FALSE
      /\ mi_valid' = FALSE
      /\ UNCHANGED <<mi_cmacro, mi_ind_cmacro, macros>>

InclNext ==
  \/ \E l \in Lines :
       /\ Available(l)
       /\ \/ Text(l)   \/ DoDefine(l) \/ DoIf(l) \/ DoElse(l)
          \/ DoElif(l) \/ DoEndif(l)  \/ DoInclude(l)
  \/ EndOfFile

InclSpec == InclInit /\ [][InclNext]_inclVars

-----------------------------------------------------------------------------
InclTypeOK ==
  /\ skipping \in BOOLEAN /\ mi_valid \in BOOLEAN
  /\ {mi_cmacro, mi_ind_cmacro} \subseteq Macros \cup {None}
  /\ macros \subseteq Macros
  /\ \A f \in Headers :
       /\ files[f].lines \in Seq(Lines)
       /\ files[f].cmacro \in Macros \cup {None, Never}
       /\ files[f].refcnt \in 0 .. MaxNest
  /\ \A k \in DOMAIN buffers :
       /\ buffers[k].inc \in Headers \cup {MainFile}
       /\ \A i \in DOMAIN buffers[k].if_stack : buffers[k].if_stack[i] \in IfEntry

(* The groups a sequence of conditional directives is in, by counting. *)
Opened(ds, i) == Cardinality({k \in 1 .. i : ds[k].op \in IfOps})
Closed(ds, i) == Cardinality({k \in 1 .. i : ds[k].op = "endif"})
Depth(ds, i)  == Opened(ds, i) - Closed(ds, i)

(* Where the conditional open at depth d starts. *)
Opener(ds, d) ==
  CHOOSE i \in DOMAIN ds :
    /\ ds[i].op \in IfOps /\ Depth(ds, i) = d
    /\ \A k \in DOMAIN ds : k > i /\ ds[k].op \in IfOps => Depth(ds, k) # d

(* Its groups so far. *)
Groups(ds, d) ==
  {Opener(ds, d)} \cup
  {k \in DOMAIN ds : /\ k > Opener(ds, d) /\ ds[k].op \in {"elif", "else"}
                     /\ Depth(ds, k) = d}

WellFormed(ds) ==
  /\ \A i \in DOMAIN ds :
       /\ Opened(ds, i) >= Closed(ds, i)
       /\ ds[i].op \in {"elif", "else"} => Depth(ds, i) > 0
  /\ \A i, j \in DOMAIN ds :
       /\ i < j /\ ds[i].op = "else" /\ ds[j].op \in {"elif", "else"}
       /\ Depth(ds, i) = Depth(ds, j)
       => \E k \in i .. j : Depth(ds, k) < Depth(ds, i)

(* A group is read if its condition held and that of no earlier group did,
   and so on outward. *)
GroupRead(ds, d) ==
  LET gs   == Groups(ds, d)
      this == CHOOSE g \in gs : \A h \in gs : h <= g
  IN  ds[this].holds /\ \A h \in gs \ {this} : ~ds[h].holds

IsRead(ds) == \A d \in 1 .. Depth(ds, Len(ds)) : GroupRead(ds, d)

(* Lines are skipped exactly in the groups that are not to be read, and a
   condition is evaluated only if it decides that: in every file, whatever
   was included within the groups. *)
SkippingRight ==
  LET ds == Buffer.seen
      n  == Len(ds)
      up == Depth(ds, n) - 1
  IN  WellFormed(ds) =>
        /\ skipping = ~IsRead(ds)
        /\ n > 0 /\ ds[n].evaluated =>
             /\ \A d \in 1 .. up : GroupRead(ds, d)
             /\ \A g \in Groups(ds, up + 1) : g < n => ~ds[g].holds

(* The conditional directives among the first i lines of a file, with the
   macros ms. *)
Directives(ls, i, ms) ==
  LET cond == SelectSeq(SubSeq(ls, 1, i), LAMBDA l : l.op \in CondOps)
  IN  [k \in DOMAIN cond |-> [op |-> cond[k].op, holds |-> Truth(cond[k], ms)]]

(* A header that is not read again would have had no effect: none of its lines
   but the conditionals are in a group that is read. *)
GuardsSound ==
  \A f \in Headers :
    LET ls == files[f].lines
    IN  /\ files[f].cmacro \in macros
        /\ WellFormed(Directives(ls, Len(ls), macros))
        => \A i \in DOMAIN ls :
             ls[i].op \notin CondOps => ~IsRead(Directives(ls, i, macros))

(* The text of a file is kept as long as some buffer reads it. *)
StackedIsCached ==
  \A k \in DOMAIN buffers :
    buffers[k].inc # MainFile =>
      /\ files[buffers[k].inc].cached
      /\ files[buffers[k].inc].refcnt =
           Cardinality({m \in DOMAIN buffers : buffers[m].inc = buffers[k].inc})
=============================================================================
