------------------------------ MODULE MCFunction ------------------------------
(* What the compiler keeps for the function it compiles, side by side: the insn
   chain, stack temporaries, constants in memory, the collector's pages, a hash
   table and the labels of a switch.  They share no state, and a behaviour is
   one of one component, chosen by `focus'; the others stay where they begin. *)
EXTENDS InsnChain, TempSlots, ConstPool, Collector, HashTable, CaseDispatch

VARIABLE focus

(* The aggregate holds the addresses of both strings; pool constant p refers to
   the string s, and q to p. *)
MCAddressed == [a \in Aggregates |-> Strings]
MCRefers    == [p \in Forced |-> IF p = "p" THEN "s" ELSE "p"]

(* Primes 7 and 13: a, b and c collide in the small table, and a and c in their
   second probe too; d and e collide in their first. *)
MCHash == [x \in Elements |->
             CASE x = "a" -> 0 [] x = "b" -> 7 [] x = "c" -> 35
               [] x = "d" -> 11 [] x = "e" -> 25]

(* End of file, NUL, newline, digits and letters, and punctuation. *)
MCWeight == [v \in -1 .. 7 |->
               CASE v = -1 -> 0 [] v = 0 -> 4 [] v = 1 -> 2 [] v = 2 -> 16
                 [] v = 3 -> 8 [] OTHER -> -1]

FunctionInit ==
  /\ ChainInit /\ SlotsInit /\ PoolInit /\ HeapInit /\ HashInit /\ CasesInit
  /\ focus \in {"chain", "slots", "pool", "heap", "hash", "cases"}
  /\ focus # "cases" => unsigned = FALSE

ChainStep == ChainNext /\ UNCHANGED <<slotVars, poolVars, heapVars, hashVars, caseVars>>
SlotsStep == SlotsNext /\ UNCHANGED <<chainVars, poolVars, heapVars, hashVars, caseVars>>
PoolStep  == PoolNext  /\ UNCHANGED <<chainVars, slotVars, heapVars, hashVars, caseVars>>
HeapStep  == HeapNext  /\ UNCHANGED <<chainVars, slotVars, poolVars, hashVars, caseVars>>
HashStep  == HashNext  /\ UNCHANGED <<chainVars, slotVars, poolVars, heapVars, caseVars>>
CaseStep  == CasesNext /\ UNCHANGED <<chainVars, slotVars, poolVars, heapVars, hashVars>>

FunctionNext ==
  /\ \/ focus = "chain" /\ ChainStep
     \/ focus = "slots" /\ SlotsStep
     \/ focus = "pool"  /\ PoolStep
     \/ focus = "heap"  /\ HeapStep
     \/ focus = "hash"  /\ HashStep
     \/ focus = "cases" /\ CaseStep
  /\ UNCHANGED focus

FunctionSpec ==
  FunctionInit
    /\ [][FunctionNext]_<<chainVars, slotVars, poolVars, heapVars, hashVars,
          caseVars, focus>>
=============================================================================
