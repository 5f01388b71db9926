------------------------------- MODULE MCMacros -------------------------------
(* The expansion of macros alone, for the end of a directive: F takes a
   parameter, and so the line may end while its arguments are looked for. *)
EXTENDS MacroContexts

MCDefinitions == {[m \in {"A", "F"} |-> IF m = "A" THEN <<"F">> ELSE <<"x">>]}
=============================================================================
