------------------------------ MODULE MCFrontend ------------------------------
(* The front end's components side by side: directives and macro expansion of
   the preprocessor, its conditions, folding of constants, division by constants.  They share
   no state, and a behaviour is one of one component, chosen by `focus'; the
   others stay where they begin. *)
EXTENDS Includes, MacroContexts, CppExpr, ConstFold, ConstDivide

VARIABLE focus

(* Each definition of A with each of B and F; A can be a plain list, or call F
   in whole or in part, or end in F's name; B is A or F; F's list is with and
   without its parameter, its own name, or A. *)
MCDefinitions ==
  {[m \in {"A", "B", "F"} |-> IF m = "A" THEN a ELSE IF m = "B" THEN b ELSE f] :
     a \in {<<>>, <<"A">>, <<"F">>, <<"B", "F">>, <<"F", "(">>,
            <<"F", "(", "B">>, <<"F", "(", "B", ")">>},
     b \in {<<"A">>, <<"F">>},
     f \in {<<>>, <<"x">>, <<"F">>, <<"x", "F">>, <<"F", "x">>, <<"A", "x">>}}

Ctype(prec, unsigned) == [prec |-> prec, unsigned |-> unsigned]

MCTypes  == [prec : {3, 6, 7, 8}, unsigned : BOOLEAN]
MCNarrow == [prec : {3}, unsigned : BOOLEAN]
MCPaired == MCNarrow \cup {Ctype(6, TRUE), Ctype(8, FALSE)}

inclIdle   == InclInit
macroIdle  ==
  /\ in_directive = FALSE /\ defs = (CHOOSE d \in Definitions : TRUE)
  /\ input = <<>> /\ at = 1 /\ contexts = <<>> /\ disabled = {}
  /\ frames = <<>> /\ crossed = FALSE /\ done = TRUE
condIdle   == CondInit
foldIdle   ==
  /\ type = (CHOOSE t \in Types : TRUE)
  /\ arg1 = Cst(Zero, FALSE) /\ arg2 = Cst(Zero, FALSE)
  /\ folded = Pending
divideIdle == DivideInit

FrontendInit ==
  \/ focus = "directives" /\ InclInit /\ macroIdle /\ condIdle /\ foldIdle /\ divideIdle
  \/ focus = "macros"     /\ inclIdle /\ MacroInit /\ condIdle /\ foldIdle /\ divideIdle
  \/ focus = "conditions" /\ inclIdle /\ macroIdle /\ CondInit /\ foldIdle /\ divideIdle
  \/ focus = "folding"    /\ inclIdle /\ macroIdle /\ condIdle /\ FoldInit /\ divideIdle
  \/ focus = "division"   /\ inclIdle /\ macroIdle /\ condIdle /\ foldIdle /\ DivideInit

FrontendNext ==
  /\ \/ /\ focus = "directives" /\ InclNext
        /\ UNCHANGED <<macroVars, condVars, foldVars, emitted>>
     \/ /\ focus = "macros" /\ MacroNext
        /\ UNCHANGED <<inclVars, condVars, foldVars, emitted>>
     \/ /\ focus = "conditions" /\ CondNext
        /\ UNCHANGED <<inclVars, macroVars, foldVars, emitted>>
     \/ /\ focus = "folding" /\ FoldNext
        /\ UNCHANGED <<inclVars, macroVars, condVars, emitted>>
     \/ /\ focus = "division" /\ DivideNext
        /\ UNCHANGED <<inclVars, macroVars, condVars, foldVars>>
  /\ UNCHANGED focus

frontendVars == <<inclVars, macroVars, condVars, foldVars, emitted, focus>>

MacroStep == focus = "macros" /\ FrontendNext

FrontendSpec ==
  FrontendInit /\ [][FrontendNext]_frontendVars /\ WF_frontendVars(MacroStep)
=============================================================================
