---------------------------- MODULE MacroContexts ----------------------------
(***************************************************************************)
(* Macro expansion of the preprocessor (gcc/cppmacro.c): cpp_get_token as  *)
(* a machine that makes one token at a time.                               *)
(*                                                                         *)
(* Tokens come from the innermost context, at the end from the lexer.  A   *)
(* context with a macro is a replacement list being rescanned: the macro   *)
(* is disabled until the context is popped, and a name read meanwhile is   *)
(* marked NO_EXPAND for good.  A context without a macro is an argument    *)
(* being expanded before it is substituted.                                *)
(*                                                                         *)
(* The C functions that are active are the `frames': funlike_invocation_p  *)
(* looking for a parenthesis, collect_args, expand_arg.  The first two run *)
(* with prevent_expansion set.                                             *)
(*                                                                         *)
(* `hide' in a token is a history: the macros whose replacement, or whose  *)
(* arguments, it came from (the hide sets of the algorithm of the C        *)
(* standard's authors).  Function-like macros have one parameter.  Padding,*)
(* # and ##, variable arguments and built-in macros are left out.          *)
(***************************************************************************)
EXTENDS Naturals, Sequences, FiniteSets, SequencesExt

CONSTANTS
  ObjMacros, FunMacros,  \* names of object-like and function-like macros
  Definitions,           \* the replacement lists they may have, all together
  MaxInput,              \* bound: tokens from the lexer
  MaxContexts            \* bound: contexts; too large to be reached

MacroNames == ObjMacros \cup FunMacros

OpenParen  == "("
CloseParen == ")"
Parameter  == "x"        \* CPP_MACRO_ARG
EndMark    == "eof"      \* CPP_EOF
NoMacro    == "none"

ASSUME DefinitionsAssumption ==
  Definitions \subseteq
    [MacroNames -> Seq(MacroNames \cup {OpenParen, CloseParen, Parameter})]

VARIABLES
  in_directive,  \* the tokens are those of a directive's line
  defs,          \* the replacement lists
  input, at,     \* what the lexer has lexed so far, and the next token of it
  contexts,      \* pfile->context, innermost first
  disabled,      \* the macros flagged NODE_DISABLED
  frames,        \* the active functions, innermost first
  crossed,       \* history: an invocation did not end where its name did
  done           \* the caller of cpp_get_token has met CPP_EOF

macroVars == <<in_directive, defs, input, at, contexts, disabled, frames,
               crossed, done>>

-----------------------------------------------------------------------------
Token(s, h) == [sym |-> s, no_expand |-> FALSE, hide |-> h]

(* Why tokens are read: for the caller of cpp_get_token, or by a frame. *)
Purpose == IF frames = <<>> THEN "caller" ELSE Head(frames).kind

(* state.prevent_expansion *)
Prevented == Purpose \in {"search", "collect"}

(* The next token, without the pops that come before it. *)
Next1(t) ==
  IF contexts # <<>>
  THEN LET c == Head(contexts)
       IN  c.pos <= Len(c.toks) /\ t = c.toks[c.pos]
  ELSE \/ at <= Len(input) /\ t = input[at]
       \/ /\ at > Len(input)
          /\ \E s \in {EndMark} \cup
                      (IF Len(input) < MaxInput
                       THEN MacroNames \cup {OpenParen, CloseParen} ELSE {}) :
               t = Token(s, {})

(* The lexer's tokens once t is lexed, and once it is read. *)
Lexed(t) ==
  input' = IF contexts = <<>> /\ at > Len(input) THEN Append(input, t) ELSE input
Consumed == IF contexts = <<>> THEN contexts
                               ELSE [contexts EXCEPT ![1].pos = @ + 1]
Read(t) ==
  Lexed(t) /\ at' = IF contexts = <<>> THEN at + 1 ELSE at

(* _cpp_backup_tokens: t is read again next time. *)
Backup(t) == Lexed(t) /\ UNCHANGED <<at, contexts>>

IsMacro(t) == t.sym \in MacroNames /\ ~t.no_expand

(* Fault: a disabled name is not marked. *)
Flagged_NoMark(t) == t

(* "Flag this token as always unexpandable." *)
Flagged(t) == IF IsMacro(t) /\ t.sym \in disabled
              THEN [t EXCEPT !.no_expand = TRUE] ELSE t

Expandable(t) == IsMacro(t) /\ t.sym \notin disabled /\ ~Prevented

(* push_token_context, push_ptoken_context; `outer' is the history of the
   name that is replaced. *)
Context(m, toks, outer) ==
  [macro |-> m, toks |-> toks, pos |-> 1, outer |-> outer]

(* Token t is returned to the innermost of the frames fs. *)
Given(fs, t) ==
  IF fs = <<>> THEN fs ELSE [fs EXCEPT ![1].got = Append(@, t)]

(* The replacement of a function-like macro: arg for each parameter. *)
Substituted(m, arg, h) ==
  FlattenSeq([k \in DOMAIN defs[m] |->
    IF defs[m][k] = Parameter
    THEN [i \in DOMAIN arg |-> [arg[i] EXCEPT !.hide = @ \cup h \cup {m}]]
    ELSE <<Token(defs[m][k], h \cup {m})>>])

-----------------------------------------------------------------------------
MacroInit ==
  /\ in_directive \in BOOLEAN
  /\ defs \in Definitions
  /\ input = <<>> /\ at = 1
  /\ contexts = <<>> /\ disabled = {} /\ frames = <<>>
  /\ crossed = FALSE /\ done = FALSE

(* Fault: the macro stays disabled. *)
PopContext_KeepDisabled ==
  /\ contexts # <<>> /\ Head(contexts).pos > Len(Head(contexts).toks)
  /\ contexts' = Tail(contexts)
  /\ frames' = IF Prevented THEN [frames EXCEPT ![1].left = TRUE] ELSE frames
  /\ UNCHANGED <<in_directive, defs, input, at, disabled, crossed, done>>

(* The innermost context is at its end; its macro may be expanded again, also
   while its own invocation is still looked for. *)
PopContext ==
  /\ contexts # <<>> /\ Head(contexts).pos > Len(Head(contexts).toks)
  /\ disabled' = disabled \ {Head(contexts).macro}
  /\ contexts' = Tail(contexts)
  /\ frames' = IF Prevented THEN [frames EXCEPT ![1].left = TRUE] ELSE frames
  /\ UNCHANGED <<in_directive, defs, input, at, crossed, done>>

(* Fault: an object-like macro is not disabled. *)
EnterObject_NotDisabled(t) ==
  /\ Expandable(t) /\ t.sym \in ObjMacros
  /\ Read(t)
  /\ Len(contexts) < MaxContexts
  /\ LET body == defs[t.sym]
     IN  contexts' = <<Context(t.sym,
                         [k \in DOMAIN body |->
                            Token(body[k], t.hide \cup {t.sym})], t.hide)>>
                     \o Consumed
  /\ UNCHANGED <<in_directive, defs, disabled, frames, crossed, done>>

(* enter_macro_context *)
EnterObject(t) ==
  /\ Expandable(t) /\ t.sym \in ObjMacros
  /\ Read(t)
  /\ Len(contexts) < MaxContexts
  /\ disabled' = disabled \cup {t.sym}
  /\ LET body == defs[t.sym]
     IN  contexts' = <<Context(t.sym,
                         [k \in DOMAIN body |->
                            Token(body[k], t.hide \cup {t.sym})], t.hide)>>
                     \o Consumed
  /\ UNCHANGED <<in_directive, defs, frames, crossed, done>>

EnterFunction(t) ==
  /\ Expandable(t) /\ t.sym \in FunMacros
  /\ Read(t)
  /\ contexts' = Consumed
  /\ frames' = <<[kind |-> "search", name |-> t, depth |-> 0, got |-> <<>>,
                  left |-> FALSE]>> \o frames
  /\ UNCHANGED <<in_directive, defs, disabled, crossed, done>>

(* A token that is no invocation: cpp_get_token returns it. *)
Return(t) ==
  /\ Purpose \in {"caller", "expand"} /\ ~Expandable(t) /\ t.sym # EndMark
  /\ Read(t)
  /\ contexts' = Consumed
  /\ frames' = Given(frames, Flagged(t))
  /\ UNCHANGED <<in_directive, defs, disabled, crossed, done>>

AtEnd(t) ==
  /\ Purpose = "caller" /\ t.sym = EndMark
  /\ Read(t)
  /\ done' = TRUE
  /\ UNCHANGED <<in_directive, defs, contexts, disabled, frames, crossed>>

(* funlike_invocation_p: the parenthesis is there, *)
FindParen(t) ==
  /\ Purpose = "search" /\ t.sym = OpenParen
  /\ Read(t)
  /\ contexts' = Consumed
  /\ frames' = [frames EXCEPT ![1].kind = "collect"]
  /\ UNCHANGED <<in_directive, defs, disabled, crossed, done>>

(* or it is not: the token is backed up, but for a CPP_EOF of the lexer, and
   the name is returned as it was read. *)
NoParen(t) ==
  /\ Purpose = "search" /\ t.sym # OpenParen
  /\ IF t.sym = EndMark /\ contexts = <<>>
     THEN Read(t) /\ contexts' = Consumed
     ELSE Backup(t)
  /\ frames' = Given(Tail(frames), Head(frames).name)
  /\ UNCHANGED <<in_directive, defs, disabled, crossed, done>>

(* collect_args *)
Collect(t) ==
  LET f == Head(frames)
  IN  /\ Purpose = "collect" /\ t.sym # EndMark
      /\ t.sym = CloseParen => f.depth > 0
      /\ Read(t)
      /\ contexts' = Consumed
      /\ frames' = [frames EXCEPT ![1] = [f EXCEPT
                      !.got = Append(@, Flagged(t)),
                      !.depth = CASE t.sym = OpenParen  -> @ + 1
                                  [] t.sym = CloseParen -> @ - 1
                                  [] OTHER              -> @]]
      /\ UNCHANGED <<in_directive, defs, disabled, crossed, done>>

(* The replacement of macro m of history h is pushed on the contexts cs. *)
EnterReplaced(m, arg, h, cs) ==
  /\ Len(cs) < MaxContexts
  /\ disabled' = disabled \cup {m}
  /\ contexts' = <<Context(m, Substituted(m, arg, h), h)>> \o cs

(* The closing parenthesis.  replace_args expands the argument first if the
   replacement list has a parameter and the argument a token. *)
CloseArgs(t) ==
  LET f == Head(frames)
      m == f.name.sym
      h == f.name.hide \cap t.hide
  IN  /\ Purpose = "collect" /\ t.sym = CloseParen /\ f.depth = 0
      /\ Read(t)
      /\ crossed' = (crossed \/ f.left)
      /\ IF Contains(defs[m], Parameter) /\ f.got # <<>>
         THEN /\ Len(contexts) < MaxContexts
              /\ contexts' = <<Context(NoMacro,
                                 Append(f.got, Token(EndMark, {})), {})>>
                             \o Consumed
              /\ frames' = [frames EXCEPT ![1] =
                   [f EXCEPT !.kind = "expand", !.got = <<>>,
                             !.name.hide = h]]
              /\ UNCHANGED disabled
         ELSE EnterReplaced(m, f.got, h, Consumed) /\ frames' = Tail(frames)
      /\ UNCHANGED <<in_directive, defs, done>>

(* "Step back is not unconditional, since we don't want to return a CPP_EOF to
   our callers at the end of an -include-d file." *)
Unterminated(t) ==
  /\ Purpose = "collect" /\ t.sym = EndMark
  /\ IF contexts # <<>> \/ in_directive
     THEN Backup(t)
     ELSE Read(t) /\ contexts' = Consumed
  /\ frames' = Given(Tail(frames), Head(frames).name)
  /\ UNCHANGED <<in_directive, defs, disabled, crossed, done>>

(* Fault: the context of the argument stays. *)
EndArg_KeepContext(t) ==
  /\ Purpose = "expand" /\ t.sym = EndMark
  /\ Read(t)
  /\ LET f == Head(frames)
     IN  EnterReplaced(f.name.sym, f.got, f.name.hide, Consumed)
  /\ frames' = Tail(frames)
  /\ UNCHANGED <<in_directive, defs, crossed, done>>

(* The end of expand_arg and of replace_args. *)
EndArg(t) ==
  /\ Purpose = "expand" /\ t.sym = EndMark
  /\ LET f == Head(frames)
     IN  EnterReplaced(f.name.sym, f.got, f.name.hide, Tail(contexts))
  /\ frames' = Tail(frames)
  /\ UNCHANGED <<in_directive, defs, input, at, crossed, done>>

ReadToken ==
  \E t \in UNION {{Token(s, {}) : s \in MacroNames \cup
                     {OpenParen, CloseParen, EndMark}},
                  ToSet(input),
                  IF contexts = <<>> THEN {} ELSE ToSet(Head(contexts).toks)} :
    /\ Next1(t)
    /\ \/ EnterObject(t) \/ EnterFunction(t) \/ Return(t) \/ AtEnd(t)
       \/ FindParen(t) \/ NoParen(t) \/ Collect(t) \/ CloseArgs(t)
       \/ Unterminated(t) \/ EndArg(t)

MacroNext == ~done /\ (PopContext \/ ReadToken)

MacroSpec == MacroInit /\ [][MacroNext]_macroVars /\ WF_macroVars(MacroNext)

-----------------------------------------------------------------------------
(* A macro is disabled exactly as long as its replacement list is on the
   context stack, and is there once at most; the other contexts are those of
   the arguments that are being expanded, and only the innermost frame looks
   for or collects arguments. *)
DisabledOnStack ==
  LET on(m) == {k \in DOMAIN contexts : contexts[k].macro = m}
  IN  /\ \A m \in MacroNames :
           Cardinality(on(m)) = IF m \in disabled THEN 1 ELSE 0
      /\ Cardinality(on(NoMacro)) =
           Cardinality({k \in DOMAIN frames : frames[k].kind = "expand"})
      /\ \A k \in DOMAIN frames : k > 1 => frames[k].kind = "expand"

TokensAround ==
  UNION ({ToSet(contexts[k].toks) : k \in DOMAIN contexts} \cup
         {ToSet(frames[k].got) : k \in DOMAIN frames})

(* NODE_DISABLED and NO_EXPAND do what hide sets would: a name is replaced
   only if it did not come from a replacement of the same macro, and is barred
   only if it did; as long as no invocation runs past the end of the
   replacement list that its name is in, where the standard leaves it open. *)
AsHideSets ==
  ~crossed =>
    /\ \A k \in DOMAIN contexts : contexts[k].macro \notin contexts[k].outer
    /\ \A t \in TokensAround : t.no_expand => t.sym \in t.hide

(* Whatever the macros are, their expansion ends. *)
ExpansionEnds == <>done

(* The expansion of a directive's tokens stops at the end of its line: nothing
   is lexed after it. *)
StopsAtLineEnd ==
  in_directive =>
    \A k \in DOMAIN input : input[k].sym = EndMark => k = Len(input)
=============================================================================
