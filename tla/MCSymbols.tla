----------------------------- MODULE MCSymbols -----------------------------
(* Symbols on a few names.  Functions are interchangeable, and so are
   variables. *)
EXTENDS Symbols, TLC

NameSymmetry == Permutations(Funs) \cup Permutations(Vars)
=============================================================================
