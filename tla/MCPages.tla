------------------------------ MODULE MCPages ------------------------------
(* Pages on scaled-down pages.  The kinds carry the numbers of real templates:
   lit     L x,=F'n'       length 4, counts 4, prints 4
   fplit   AD x,=D'n'      length 4, counts 4, prints 8  (adddf3, muldf3) *)
EXTENDS Pages, TLC

Template(length, code, lit, print, bytes, pool) ==
  [length |-> length, code |-> code, lit |-> lit, print |-> print,
   bytes |-> bytes, pool |-> pool]

MCAttr ==
  [k \in Kinds |->
     CASE k = "lit"   -> Template(4, 4, 0, 4, 4, 4)
       [] k = "fplit" -> Template(4, 4, 0, 8, 4, 8)]

LabelSymmetry == Permutations(Labels)
=============================================================================
