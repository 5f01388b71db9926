------------------------------ MODULE FlowGraph ------------------------------
(***************************************************************************)
(* The flow graphs that the analyses of gcc/dominance.c, gcc/lcm.c and     *)
(* gcc/flow.c run on.  The basic blocks of a function are 0 .. n-1 in the  *)
(* order of their code; a block falls through to the next one, jumps, or   *)
(* does either.                                                            *)
(***************************************************************************)
EXTENDS Integers, Sequences, FiniteSets, FiniteSetsExt, SequencesExt, Graphs

VARIABLE graph  \* the flow graph of the function: the successors of each block

ENTRY == -1  \* ENTRY_BLOCK
EXIT  == -2  \* EXIT_BLOCK

BlocksOf(succ) == DOMAIN succ

(* The edges, the one from ENTRY to the first block included. *)
EdgesOf(succ) ==
  {<<ENTRY, 0>>} \cup UNION {{<<b, t>> : t \in succ[b]} : b \in BlocksOf(succ)}

SuccEdges(succ, b) == {e \in EdgesOf(succ) : e[1] = b}
PredEdges(succ, b) == {e \in EdgesOf(succ) : e[2] = b}
Preds(succ, b)     == {e[1] : e \in PredEdges(succ, b)}

AsGraph(succ) ==
  [node |-> BlocksOf(succ) \cup {ENTRY, EXIT}, edge |-> EdgesOf(succ)]

(* The graph without a block: what can be reached in it can be reached around
   the block. *)
Without(G, b) ==
  [node |-> G.node \ {b}, edge |-> {e \in G.edge : b \notin {e[1], e[2]}}]

(* Blocks that are put on a worklist if they are not there, highest first; the
   marked ones are taken for being there. *)
Descending(s) == SetToSortSeq(s, >)
Queued(list, s, marked) == list \o Descending(s \ (ToSet(list) \cup marked))

-----------------------------------------------------------------------------
(* The graphs of n blocks.  A block with no successors does not return. *)
Follower(n, b) == IF b = n - 1 THEN EXIT ELSE b + 1

Layouts(n) ==
  LET targets == (0 .. n - 1) \cup {EXIT}
      ends(b) == {{}} \cup {{t} : t \in targets}
                      \cup {{Follower(n, b), t} : t \in targets}
  IN  {s \in [0 .. n - 1 -> SUBSET targets] : \A b \in 0 .. n - 1 : s[b] \in ends(b)}

(* No block is unreachable: they were deleted before. *)
FlowGraphs(n) ==
  {s \in Layouts(n) :
     LET connected == ConnectionsIn(AsGraph(s))
     IN  \A b \in BlocksOf(s) : connected[ENTRY, b]}
=============================================================================
