------------------------------ MODULE Symbols ------------------------------
(***************************************************************************)
(* The names one compilation unit defines, exports and imports: how the C  *)
(* front end merges the declarations of a name (gcc/c-decl.c), when the    *)
(* symbol of a declaration is made and what it records (i370/varasm.c,     *)
(* make_decl_rtl and ENCODE_SECTION_INFO), and which ENTRY, EXTRN, V- and  *)
(* A-constants the i370 macros print (i370/i370.h, i370/i370.c).           *)
(*                                                                         *)
(* A declaration node keeps its symbol once it has one (DECL_RTL); the     *)
(* symbol carries a flag, set when it is made while the declaration is     *)
(* external and never cleared: a flagged symbol is referred to by a        *)
(* V-constant, which the linker resolves against the ENTRY symbols, any    *)
(* other by an A-constant, which the assembler resolves in the unit.  Thus *)
(* the outcome depends on the order in which a name is declared,           *)
(* referenced and defined, and on the block-scope declarations between.    *)
(*                                                                         *)
(* The source text is chosen one declaration or reference at a time.       *)
(* Programs the front end rejects are not continued.  Variables have       *)
(* complete types and no const; functions are not inline; a body has one   *)
(* block, with at most one declaration of a name.  The static_flag of a    *)
(* file-scope variable is the complement of its external flag.             *)
(*                                                                         *)
(* As in Pages, an operator under "Fault" is a bugged version of another   *)
(* one and is used by no definition.                                       *)
(***************************************************************************)
EXTENDS Integers, Sequences, FiniteSets, Bags

CONSTANTS
  Funs,      \* names of functions
  Vars,      \* names of variables
  NoName,    \* no function or variable is being compiled
  MaxSteps   \* bound: declarations, definitions and references of the unit

ASSUME SymbolsAssumption ==
  /\ Funs \cap Vars = {} /\ NoName \notin Funs \cup Vars
  /\ MaxSteps \in Nat

Names == Funs \cup Vars

VARIABLES
  top,         \* IDENTIFIER_GLOBAL_VALUE: the file-scope node of each name
  limbo,       \* IDENTIFIER_LIMBO_VALUE: its first block-scope extern node
  block,       \* IDENTIFIER_LOCAL_VALUE: the node of the open block
  varLabelno,  \* var_labelno: number of the next private name
  phase,       \* what the compiler is doing
  current,     \* function or variable being compiled
  items,       \* the references of its body or initializer, to be output
  needEntry,   \* mvs_need_entry
  labels,      \* bag of the symbols the output defines
  entries,     \* symbols declared ENTRY (PDPPRLG ENTRY=YES for a function)
  extrns,      \* bag of the symbols declared EXTRN
  refs,        \* address constants of the output
  linkages,    \* history: the linkages ISO C gives the declarations of a name
  hidden,      \* history: names redeclared extern in a block while their
               \* file-scope static declaration had no symbol yet
  steps        \* counts to MaxSteps

decls   == <<top, limbo, block, varLabelno>>
output  == <<needEntry, labels, entries, extrns, refs>>
control == <<phase, current, items>>
history == <<linkages, hidden>>
vars    == <<decls, output, control, history, steps>>

Phases == {"file", "body", "expand", "init", "data", "wrapup", "done"}

(* A public name is printed as it stands; a private one is "__" and a
   number, which ASM_OUTPUT_LABELREF prints as @@number. *)
Public(n)  == <<"name", n>>
Private(k) == <<"@@", k>>

NoRtl  == [sym |-> <<"none", 0>>, flag |-> FALSE]
NoDecl == [declared |-> FALSE, public |-> FALSE, external |-> FALSE,
           init |-> FALSE, written |-> FALSE, rtl |-> NoRtl]

(* grokdeclarator: a new node.  Every function declaration is external until
   start_function or an initializer says otherwise. *)
NewDecl(public, external, init) ==
  [declared |-> TRUE, public |-> public, external |-> external,
   init |-> init, written |-> FALSE, rtl |-> NoRtl]

---------------------------------------------------------------------------
(* make_decl_rtl and ENCODE_SECTION_INFO: the symbol of node d of name n,
   when k is the next private number.  A symbol that is there is kept. *)
(* Fault: the names of this unit that are not defined yet count too. *)
Encode_NoPublic(d) == d.external

Encode(d) == d.external /\ d.public

Rtl(d, n, k) ==
  IF d.rtl # NoRtl THEN d.rtl
  ELSE [sym  |-> IF d.public THEN Public(n) ELSE Private(k),
        flag |-> Encode(d)]

WithRtl(d, n, k) == [d EXCEPT !.rtl = Rtl(d, n, k)]

(* Fault: the number is used again. *)
NextLabelno_Same(d, k) == k

NextLabelno(d, k) == IF d.rtl = NoRtl /\ ~d.public THEN k + 1 ELSE k

(* duplicate_decls: the node that stands for the name after NEW meets OLD of
   the same binding level ... *)
(* Fault: the symbol is not carried over. *)
KeepRtl_New(old, new) == new.rtl

KeepRtl(old, new) == old.rtl

(* Fault: an extern declaration after a static one makes the name public. *)
MergePublic_Extern(n, old, new) == new.public

MergePublic(n, old, new) ==
  IF n \in Funs THEN old.public /\ new.public
  ELSE IF new.external THEN old.public ELSE new.public

Merge(n, old, new) ==
  [old EXCEPT !.public   = MergePublic(n, old, new),
              !.external = old.external /\ new.external,
              !.init     = old.init \/ new.init,
              !.rtl      = KeepRtl(old, new)]

(* ... and the node an extern declaration installs in its own binding level
   when OLD belongs to an outer one, or to a block already left. *)
MergeOuter(old, new) ==
  [new EXCEPT !.public = old.public, !.rtl = old.rtl]

(* pushdecl at file scope. *)
PushTop(n, new) ==
  /\ top' = [top EXCEPT ![n] =
        IF top[n].declared THEN Merge(n, top[n], new)
        ELSE IF new.external /\ new.public /\ limbo[n].declared
        THEN MergeOuter(limbo[n], new)
        ELSE new]
  /\ limbo' = IF top[n].declared THEN limbo ELSE [limbo EXCEPT ![n] = NoDecl]

(* pushdecl of an extern declaration in a block. *)
OuterNode(n) == IF top[n].declared THEN top[n] ELSE limbo[n]

BlockNode(n) ==
  IF OuterNode(n).declared
  THEN MergeOuter(OuterNode(n), NewDecl(TRUE, TRUE, FALSE))
  ELSE NewDecl(TRUE, TRUE, FALSE)

(* The linkages of a name after one more declaration: static gives it
   internal linkage, any other the linkage of the declaration in sight. *)
Linked(n, static) ==
  IF static THEN linkages[n] \cup {"internal"}
  ELSE IF "internal" \in linkages[n] THEN linkages[n]
  ELSE linkages[n] \cup {"external"}

Link(n, static) ==
  linkages' = [linkages EXCEPT ![n] = Linked(n, static)]

Init ==
  /\ top = [n \in Names |-> NoDecl] /\ limbo = top /\ block = top
  /\ varLabelno = 0
  /\ phase = "file" /\ current = NoName /\ items = <<>>
  /\ needEntry = FALSE
  /\ labels = EmptyBag /\ entries = {} /\ extrns = EmptyBag /\ refs = {}
  /\ linkages = [n \in Names |-> {}] /\ hidden = {}
  /\ steps = 0

Step == steps < MaxSteps /\ steps' = steps + 1

---------------------------------------------------------------------------
(* Declarations at file scope. *)

DeclareFunction(n, static) ==
  /\ phase = "file" /\ n \in Funs /\ Step
  /\ PushTop(n, NewDecl(~static, TRUE, FALSE))
  /\ Link(n, static)
  /\ UNCHANGED <<block, varLabelno, control, output, hidden>>

(* redeclaration_error_message: two definitions of a variable, even tentative
   ones, must agree in linkage, and only one may have an initializer. *)
Accepted(n, new) ==
  top[n].declared /\ ~top[n].external /\ ~new.external =>
     /\ top[n].public = new.public
     /\ ~(top[n].init /\ new.init)

(* finish_decl of a variable without initializer: DECL_DEFER_OUTPUT. *)
DeclareVar(n, class) ==
  LET new == NewDecl(class # "static", class = "extern", FALSE)
  IN  /\ phase = "file" /\ n \in Vars /\ Step
      /\ Accepted(n, new)
      /\ PushTop(n, new)
      /\ Link(n, class = "static")
      /\ UNCHANGED <<block, varLabelno, control, output, hidden>>

(* start_decl of a variable with initializer. *)
StartVar(n, static) ==
  LET new == NewDecl(~static, FALSE, TRUE)
  IN  /\ phase = "file" /\ n \in Vars /\ Step
      /\ Accepted(n, new)
      /\ PushTop(n, new)
      /\ Link(n, static)
      /\ phase' = "init" /\ current' = n /\ items' = <<>>
      /\ UNCHANGED <<block, varLabelno, output, hidden>>

(* start_function: the node of a definition gets its symbol at once.  A node
   that is not external is installed as it is: limbo plays no part. *)
StartFunction(n, static) ==
  LET new  == NewDecl(~static, FALSE, TRUE)
      node == IF top[n].declared THEN Merge(n, top[n], new) ELSE new
  IN  /\ phase = "file" /\ n \in Funs /\ Step
      /\ ~top[n].init
      /\ top' = [top EXCEPT ![n] = WithRtl(node, n, varLabelno)]
      /\ limbo' = IF top[n].declared THEN limbo
                  ELSE [limbo EXCEPT ![n] = NoDecl]
      /\ varLabelno' = NextLabelno(node, varLabelno)
      /\ Link(n, static)
      /\ phase' = "body" /\ current' = n /\ items' = <<>>
      /\ UNCHANGED <<block, output, hidden>>

---------------------------------------------------------------------------
(* The body of a function, and initializers. *)

(* An extern declaration in the block of the body. *)
DeclareBlock(n) ==
  /\ phase = "body" /\ ~block[n].declared /\ Step
  /\ block' = [block EXCEPT ![n] = BlockNode(n)]
  /\ hidden' = IF top[n].declared /\ ~top[n].public /\ top[n].rtl = NoRtl
               THEN hidden \cup {n} ELSE hidden
  /\ Link(n, FALSE)
  /\ UNCHANGED <<top, limbo, varLabelno, control, output>>

(* build_external_ref, assemble_external: a reference to an external public
   node makes its symbol; others get theirs when they are output. *)
Touch(d, n) ==
  IF d.external /\ d.public THEN WithRtl(d, n, varLabelno) ELSE d

Item(n, via, offset) == [name |-> n, via |-> via, offset |-> offset]

Refer(n, offset) ==
  /\ phase \in {"body", "init"} /\ Step
  /\ \/ /\ block[n].declared
        /\ block' = [block EXCEPT ![n] = Touch(block[n], n)]
        /\ items' = Append(items, Item(n, "block", offset))
        /\ UNCHANGED top
     \/ /\ ~block[n].declared /\ top[n].declared
        /\ top' = [top EXCEPT ![n] = Touch(top[n], n)]
        /\ items' = Append(items, Item(n, "file", offset))
        /\ UNCHANGED block
  /\ UNCHANGED <<limbo, varLabelno, phase, current, output, history>>

(* implicitly_declare: a call of a name that has no declaration. *)
CallImplicit(n) ==
  /\ phase = "body" /\ n \in Funs /\ Step
  /\ ~block[n].declared /\ ~top[n].declared
  /\ block' = [block EXCEPT ![n] = Touch(BlockNode(n), n)]
  /\ items' = Append(items, Item(n, "block", 0))
  /\ Link(n, FALSE)
  /\ UNCHANGED <<top, limbo, varLabelno, phase, current, output, hidden>>

(* A static variable of the body, without initializer. *)
DeclareLocal ==
  /\ phase = "body" /\ Step
  /\ items' = Append(items, Item(current, "local", 0))
  /\ UNCHANGED <<decls, phase, current, output, history>>

EndBody ==
  /\ phase = "body" /\ phase' = "expand"
  /\ UNCHANGED <<decls, current, items, output, history, steps>>

(* The body is expanded in order (c_expand_body).  The symbol of a reference
   is made if it has none, and printed as a V- or an A-constant in the
   literal pool (PRINT_OPERAND). *)
TextRef(rtl, item) ==
  [name |-> item.name, via |-> item.via, sym |-> rtl.sym,
   kind |-> IF rtl.flag THEN "V" ELSE "A"]

ExpandRef ==
  /\ phase = "expand" /\ items # <<>> /\ Head(items).via # "local"
  /\ LET i == Head(items)
         n == i.name
         d == IF i.via = "block" THEN block[n] ELSE top[n]
     IN  /\ IF i.via = "block"
            THEN block' = [block EXCEPT ![n] = WithRtl(d, n, varLabelno)]
                 /\ UNCHANGED top
            ELSE top' = [top EXCEPT ![n] = WithRtl(d, n, varLabelno)]
                 /\ UNCHANGED block
         /\ varLabelno' = NextLabelno(d, varLabelno)
         /\ refs' = refs \cup {TextRef(Rtl(d, n, varLabelno), i)}
  /\ items' = Tail(items)
  /\ UNCHANGED <<limbo, phase, current, needEntry, labels, entries, extrns,
                 history, steps>>

(* make_rtl_for_local_static: a private name of its own, defined at once. *)
ExpandLocal ==
  /\ phase = "expand" /\ items # <<>> /\ Head(items).via = "local"
  /\ labels' = labels (+) SetToBag({Private(varLabelno)})
  /\ varLabelno' = NextLabelno(NoDecl, varLabelno)
  /\ items' = Tail(items)
  /\ UNCHANGED <<top, limbo, block, phase, current, needEntry, entries, extrns,
                 refs, history, steps>>

(* assemble_start_function .. the epilogue.  ASM_OUTPUT_FUNCTION_PREFIX
   resets mvs_need_entry and a public function sets it again; its ENTRY line
   is not printed (mvs_need_to_globalize is 0 there and 1 elsewhere), the
   prologue macro gets ENTRY=YES instead.  The block is left: its first
   extern declaration of each name stays in limbo (pushdecl puts it there at
   once, but nothing looks there before the block is left). *)
(* Fault: the flag is not reset. *)
FunctionPrefix_Kept(needed) == needed

FunctionPrefix(needed) == FALSE

(* Fault: declarations of static names go there too. *)
ToLimbo_Static(n) == block[n].declared /\ ~limbo[n].declared

ToLimbo(n) == block[n].public /\ ~limbo[n].declared

EmitFunction ==
  LET d      == top[current]
      needed == d.public \/ FunctionPrefix(needEntry)
  IN  /\ phase = "expand" /\ items = <<>>
      /\ labels' = labels (+) SetToBag({d.rtl.sym})
      /\ entries' = IF needed THEN entries \cup {d.rtl.sym} ELSE entries
      /\ needEntry' = FALSE
      /\ limbo' = [n \in Names |->
                     IF ToLimbo(n) THEN block[n] ELSE limbo[n]]
      /\ block' = [n \in Names |-> NoDecl]
      /\ phase' = "file" /\ current' = NoName
      /\ UNCHANGED <<top, varLabelno, items, extrns, refs, history, steps>>

---------------------------------------------------------------------------
(* Data: finish_decl, assemble_variable, output_constant. *)

(* ASM_GLOBALIZE_LABEL outside a function. *)
Globalize(d, sym) == IF d.public THEN entries \cup {sym} ELSE entries

FinishVar ==
  LET d   == top[current]
      rtl == Rtl(d, current, varLabelno)
  IN  /\ phase = "init"
      /\ top' = [top EXCEPT ![current] =
                   [WithRtl(d, current, varLabelno) EXCEPT !.written = TRUE]]
      /\ varLabelno' = NextLabelno(d, varLabelno)
      /\ entries' = Globalize(d, rtl.sym)
      /\ needEntry' = (needEntry \/ d.public)
      /\ labels' = labels (+) SetToBag({rtl.sym})
      /\ phase' = "data"
      /\ UNCHANGED <<limbo, block, current, items, extrns, refs, history,
                     steps>>

(* i370_hlasm_assemble_integer: a flagged symbol with an offset is declared
   EXTRN, once, and printed as A(symbol+offset). *)
Extrn(sym) ==
  IF BagIn(sym, extrns) THEN extrns ELSE extrns (+) SetToBag({sym})

(* Fault: no EXTRN. *)
NeedsExtrn_Never(rtl, item) == FALSE

NeedsExtrn(rtl, item) == rtl.flag /\ item.offset # 0

DataRef(rtl, item) ==
  [name |-> item.name, via |-> item.via, sym |-> rtl.sym,
   kind |-> IF rtl.flag /\ item.offset = 0 THEN "V" ELSE "A"]

OutputConstant ==
  /\ phase = "data" /\ items # <<>>
  /\ LET i   == Head(items)
         n   == i.name
         rtl == Rtl(top[n], n, varLabelno)
     IN  /\ top' = [top EXCEPT ![n] = WithRtl(top[n], n, varLabelno)]
         /\ varLabelno' = NextLabelno(top[n], varLabelno)
         /\ extrns' = IF NeedsExtrn(rtl, i) THEN Extrn(rtl.sym) ELSE extrns
         /\ refs' = refs \cup {DataRef(rtl, i)}
  /\ items' = Tail(items)
  /\ UNCHANGED <<limbo, block, phase, current, needEntry, labels, entries,
                 history, steps>>

EndVar ==
  /\ phase = "data" /\ items = <<>>
  /\ phase' = "file" /\ current' = NoName
  /\ UNCHANGED <<decls, items, output, history, steps>>

---------------------------------------------------------------------------
(* End of the unit: wrapup_global_declarations writes the variables that were
   only defined tentatively, as ASM_OUTPUT_COMMON or ASM_OUTPUT_LOCAL.  Their
   order, which only permutes private numbers, is left open. *)
Deferred == {n \in Vars : /\ top[n].declared /\ ~top[n].external
                          /\ ~top[n].written}

EndOfFile ==
  /\ phase = "file" /\ phase' = "wrapup"
  /\ UNCHANGED <<decls, current, items, output, history, steps>>

WriteTentative(n) ==
  LET d   == top[n]
      rtl == Rtl(d, n, varLabelno)
  IN  /\ phase = "wrapup" /\ n \in Deferred
      /\ top' = [top EXCEPT ![n] =
                   [WithRtl(d, n, varLabelno) EXCEPT !.written = TRUE]]
      /\ varLabelno' = NextLabelno(d, varLabelno)
      /\ entries' = Globalize(d, rtl.sym)
      /\ labels' = labels (+) SetToBag({rtl.sym})
      /\ UNCHANGED <<limbo, block, needEntry, extrns, refs, control, history,
                     steps>>

Finish ==
  /\ phase = "wrapup" /\ Deferred = {} /\ phase' = "done"
  /\ UNCHANGED <<decls, current, items, output, history, steps>>

FileScope(n) ==
  \/ \E static \in BOOLEAN : DeclareFunction(n, static)
  \/ \E static \in BOOLEAN : StartFunction(n, static)
  \/ \E class \in {"extern", "static", "none"} : DeclareVar(n, class)
  \/ \E static \in BOOLEAN : StartVar(n, static)

Inside(n) ==
  \/ DeclareBlock(n)
  \/ CallImplicit(n)
  \/ \E offset \in {0, 4} : Refer(n, offset)

Next ==
  \/ \E n \in Names : FileScope(n) \/ Inside(n) \/ WriteTentative(n)
  \/ DeclareLocal \/ EndBody \/ ExpandRef \/ ExpandLocal \/ EmitFunction
  \/ FinishVar \/ OutputConstant \/ EndVar
  \/ EndOfFile \/ Finish

Spec == Init /\ [][Next]_vars
---------------------------------------------------------------------------
(* What should hold. *)

Symbols == {Public(n) : n \in Names} \cup {Private(k) : k \in 0 .. MaxSteps + 1}

Decls ==
  [declared : BOOLEAN, public : BOOLEAN, external : BOOLEAN, init : BOOLEAN,
   written : BOOLEAN,
   rtl : {NoRtl} \cup [sym : Symbols, flag : BOOLEAN]]

Items == [name : Names, via : {"file", "block", "local"}, offset : {0, 4}]

(* The types of the state; nodes of limbo and of a block are external, and
   limbo holds public ones only. *)
TypeOK ==
  /\ top \in [Names -> Decls]
  /\ limbo \in [Names -> Decls] /\ block \in [Names -> Decls]
  /\ \A n \in Names : /\ block[n].declared => block[n].external
                      /\ limbo[n].declared => limbo[n].external
                                             /\ limbo[n].public
  /\ varLabelno \in 0 .. MaxSteps + 1
  /\ phase \in Phases /\ current \in Names \cup {NoName}
  /\ \A i \in 1 .. Len(items) : items[i] \in Items
  /\ needEntry \in BOOLEAN
  /\ BagToSet(labels) \subseteq Symbols /\ BagToSet(extrns) \subseteq Symbols
  /\ entries \subseteq Symbols
  /\ refs \subseteq [name : Names, via : {"file", "block"}, sym : Symbols,
                     kind : {"V", "A"}]
  /\ linkages \in [Names -> SUBSET {"internal", "external"}]
  /\ hidden \subseteq Names /\ steps \in 0 .. MaxSteps

(* A name is defined when its file-scope node is no longer external, mixed
   when it has both linkages, which ISO C leaves undefined. *)
Defined(n) == top[n].declared /\ ~top[n].external
Mixed(n)   == linkages[n] = {"internal", "external"}

(* No symbol is defined or declared EXTRN twice, whatever declarations of
   file-scope names and local statics share the counter of private names; and
   only a symbol of the unit is an ENTRY (i370/varasm.c, var_labelno). *)
SymbolsUnique ==
  /\ \A s \in BagToSet(labels) : labels[s] = 1
  /\ \A s \in BagToSet(extrns) : extrns[s] = 1
  /\ entries \subseteq BagToSet(labels)

(* At the end of the unit each definition has a label, and is an ENTRY
   exactly when its name has external linkage, however the declarations were
   merged and whatever mvs_need_entry was left at by other definitions. *)
LinkageKept ==
  phase = "done" =>
    \A n \in Names : Defined(n) /\ ~Mixed(n) =>
      /\ BagIn(top[n].rtl.sym, labels)
      /\ top[n].rtl.sym \in entries <=> linkages[n] = {"external"}

(* A reference made before or after its declaration, definition and block
   declarations names the symbol of the definition, and a V-constant an
   ENTRY. *)
Resolved(r) ==
  /\ r.sym = top[r.name].rtl.sym
  /\ r.kind = "V" => r.sym \in entries

(* A reference to an external name the unit does not define is something the
   linker can fill in: a V-constant, or an A-constant of an EXTRN. *)
ExternalsImported ==
  phase = "done" =>
    \A r \in refs :
      ~Defined(r.name) /\ linkages[r.name] = {"external"} =>
        /\ r.sym = Public(r.name)
        /\ r.kind = "V" \/ BagIn(r.sym, extrns)

(* Whatever came between a reference, the declarations and the definition of its
   name, the reference names what the unit defines, or what it imports. *)
RefsResolve ==
  /\ phase = "done" =>
       \A r \in refs :
         /\ Defined(r.name) /\ ~Mixed(r.name)
         /\ ~(r.via = "block" /\ r.name \in hidden)
         => Resolved(r)
  /\ ExternalsImported

(* "Keep the old rtl since we can safely use it" (c-decl.c): once a name has
   a symbol, which references may already have printed, no declaration that
   follows changes it. *)
NameStable ==
  [][\A n \in Names : top[n].rtl # NoRtl => top'[n].rtl = top[n].rtl]_vars

(* Expected to fail: a block-scope extern declaration refers to the static
   function or variable of the unit it redeclares. *)
BlockRefsResolve ==
  phase = "done" =>
    \A r \in refs :
      r.via = "block" /\ Defined(r.name) /\ ~Mixed(r.name) => Resolved(r)

(* Expected to fail: an extern declaration followed by a static one, which
   c-decl.c means to support, leaves the references made before it valid. *)
RelinkedRefsResolve ==
  phase = "done" =>
    \A r \in refs : Mixed(r.name) /\ Defined(r.name) => Resolved(r)
=============================================================================
