------------------------------ MODULE Dominators ------------------------------
(***************************************************************************)
(* Dominators and post-dominators (gcc/dominance.c,                        *)
(* calculate_dominance_info): Lengauer and Tarjan's algorithm, with links  *)
(* that are balanced and paths that are compressed.                        *)
(*                                                                         *)
(* A node's number, of type TBB, is its number in depth first order; 0 is  *)
(* "none" and 1 is ENTRY, or EXIT when edges are followed backwards.  The  *)
(* order of a block's edges is arbitrary.                                  *)
(***************************************************************************)
EXTENDS FlowGraph

CONSTANTS
  DomGraphs,     \* the graphs dominators are asked for in,
  PostDomGraphs  \* and those post-dominators are asked for in

VARIABLES
  reverse,  \* post-dominators are asked for
  walk,     \* the depth first walk: numbers, the nodes numbered, the tree, the path
  di,       \* the rest of struct dom_info
  at,       \* the node calc_idoms looks at; 0 while walking
  found     \* doms and idom, or Unknown

domVars == <<reverse, walk, di, at, found>>

Blocks  == BlocksOf(graph)
Unknown == [known |-> FALSE]
NoBlock == -3

Begin  == IF reverse THEN EXIT ELSE ENTRY
Border == IF reverse THEN ENTRY ELSE EXIT

Onward(b) ==
  IF reverse THEN Preds(graph, b) ELSE {e[2] : e \in SuccEdges(graph, b)}
Behind(b) ==
  IF reverse THEN {e[2] : e \in SuccEdges(graph, b)} ELSE Preds(graph, b)

-----------------------------------------------------------------------------
(* calc_dfs_tree. *)

Numbered(w, b, parent) ==
  [order  |-> [w.order EXCEPT ![b] = Len(w.to_bb) + 1],
   to_bb  |-> Append(w.to_bb, b),
   parent |-> Append(w.parent, parent),
   path   |-> Append(w.path, b)]

Fresh == {b \in Blocks : walk.order[b] = 0}

DomInit ==
  /\ \/ reverse = FALSE /\ graph \in DomGraphs
     \/ reverse = TRUE  /\ graph \in PostDomGraphs
  /\ walk = Numbered([order |-> [b \in Blocks \cup {ENTRY, EXIT} |-> 0],
                      to_bb |-> <<>>, parent |-> <<>>, path |-> <<>>], Begin, 0)
  /\ di = <<>> /\ at = 0 /\ found = Unknown

Descend(b) ==
  /\ at = 0 /\ walk.path # <<>>
  /\ b \in Onward(Last(walk.path)) \ {Border} /\ walk.order[b] = 0
  /\ walk' = Numbered(walk, b, walk.order[Last(walk.path)])
  /\ UNCHANGED <<graph, reverse, di, at, found>>

Retreat ==
  /\ at = 0 /\ walk.path # <<>>
  /\ Onward(Last(walk.path)) \cap Fresh = {}
  /\ walk' = [walk EXCEPT !.path = Front(@)]
  /\ UNCHANGED <<graph, reverse, di, at, found>>

(* Backwards, a block with no path to EXIT begins another tree. *)
AnotherTree ==
  /\ at = 0 /\ walk.path = <<>>
  /\ reverse /\ Fresh # {}
  /\ walk' = Numbered(walk, Max(Fresh), 0)
  /\ UNCHANGED <<graph, reverse, di, at, found>>

(* init_dom_info; the numbers are 0 .. n_basic_blocks + 1. *)
EndWalk ==
  /\ at = 0 /\ walk.path = <<>> /\ (reverse => Fresh = {})
  /\ at' = Len(walk.to_bb)
  /\ LET all(x) == [i \in 0 .. Cardinality(Blocks) + 1 |-> x]
         self   == [i \in 0 .. Cardinality(Blocks) + 1 |-> i]
     IN  di' = [key |-> self, path_min |-> self, dom |-> all(0), bucket |-> all(<<>>),
                set_chain |-> all(0), set_size |-> all(1), set_child |-> all(0)]
  /\ UNCHANGED <<graph, reverse, walk, found>>

-----------------------------------------------------------------------------
(* The nodes on the way from x to the one before the root of its set. *)
ChainOf(d, x) ==
  LET chain[y \in DOMAIN d.key] ==
        IF d.set_chain[y] = 0 THEN {} ELSE {y} \cup chain[d.set_chain[y]]
  IN  chain[x]

(* Fault: the least key on the way is lost when the way is cut short. *)
Compressed_ForgetMin(d, x) ==
  LET chain == d.set_chain
      root[y \in DOMAIN chain] ==
        IF chain[chain[y]] = 0 THEN chain[y] ELSE root[chain[y]]
  IN  [d EXCEPT !.set_chain =
                  [y \in DOMAIN chain |-> IF y \in ChainOf(d, x) THEN root[y] ELSE @[y]]]

Compressed(d, x) ==
  LET chain == d.set_chain
      root[y \in DOMAIN chain] ==
        IF chain[chain[y]] = 0 THEN chain[y] ELSE root[chain[y]]
      least[y \in DOMAIN chain] ==
        LET above == IF chain[chain[y]] = 0 THEN d.path_min[y] ELSE least[chain[y]]
        IN  IF d.key[above] < d.key[d.path_min[y]] THEN above ELSE d.path_min[y]
  IN  [d EXCEPT !.set_chain =
                  [y \in DOMAIN chain |-> IF y \in ChainOf(d, x) THEN root[y] ELSE @[y]],
                !.path_min =
                  [y \in DOMAIN chain |-> IF y \in ChainOf(d, x) THEN least[y] ELSE @[y]]]

(* The node with the least key between x and its root, which counts too. *)
Eval(d, x) ==
  LET rep == d.set_chain[x]
  IN  IF rep = 0 \/ d.key[d.path_min[rep]] >= d.key[d.path_min[x]]
      THEN d.path_min[x] ELSE d.path_min[rep]

Pulled(d, x) == IF d.set_chain[x] = 0 THEN d ELSE Compressed(d, x)

RECURSIVE Rebalanced(_, _, _)
Rebalanced(d, w, s) ==
  LET c == d.set_child[s]
  IN  IF d.key[d.path_min[w]] >= d.key[d.path_min[c]] THEN [d |-> d, s |-> s]
      ELSE IF d.set_size[s] + d.set_size[d.set_child[c]] >= 2 * d.set_size[c]
      THEN Rebalanced([d EXCEPT !.set_chain[c] = s, !.set_child[s] = d.set_child[c]], w, s)
      ELSE Rebalanced([d EXCEPT !.set_size[c] = d.set_size[s], !.set_chain[s] = c], w, c)

LinkRoots(d, x, w) ==
  LET b    == Rebalanced(d, w, w)
      size == b.d.set_size[x] + b.d.set_size[w]
      swap == size < 2 * b.d.set_size[w]
      subtrees[y \in DOMAIN d.key] ==
        IF y = 0 THEN {} ELSE {y} \cup subtrees[b.d.set_child[y]]
      merged == subtrees[IF swap THEN b.d.set_child[x] ELSE b.s]
  IN  [b.d EXCEPT !.path_min[b.s] = b.d.path_min[w],
                  !.set_size[x] = size,
                  !.set_child[x] = IF swap THEN b.s ELSE @,
                  !.set_chain = [y \in DOMAIN @ |-> IF y \in merged THEN x ELSE @[y]]]

-----------------------------------------------------------------------------
(* The semidominator of the node: the least number from which it can be
   reached over greater ones. *)
Semidominator(d, x) ==
  LET before == {walk.order[b] : b \in Behind(walk.to_bb[x])}
      met(acc, y) ==
        LET z == IF y > x THEN acc.d.key[Eval(Pulled(acc.d, y), y)] ELSE y
        IN  [d |-> IF y > x THEN Pulled(acc.d, y) ELSE acc.d, k |-> Min({acc.k, z})]
  IN  FoldLeft(met, [d |-> d, k |-> x], SetToSeq(before))

(* Fault: a node whose key is the same as w's is taken for its dominator. *)
DomFrom_OrEqual(d, w, par) ==
  LET p == Pulled(d, w)
      k == Eval(p, w)
  IN  [p EXCEPT !.dom[w] = IF p.key[k] <= p.key[w] THEN k ELSE par]

DomFrom(d, w, par) ==
  LET p == Pulled(d, w)
      k == Eval(p, w)
  IN  [p EXCEPT !.dom[w] = IF p.key[k] < p.key[w] THEN k ELSE par]

CalcIdom ==
  /\ at > 1
  /\ LET par    == walk.parent[at]
         semi   == Semidominator(di, at)
         linked == LinkRoots([semi.d EXCEPT !.key[at] = semi.k], par, at)
         filed  == [linked EXCEPT !.bucket[semi.k] = <<at>> \o @]
         after  == FoldLeft(LAMBDA d, w : DomFrom(d, w, par), filed, filed.bucket[par])
     IN  di' = [after EXCEPT !.bucket[par] = <<>>]
  /\ at' = at - 1
  /\ UNCHANGED <<graph, reverse, walk, found>>

Numbers == [i \in 1 .. Len(walk.to_bb) - 1 |-> i + 1]

(* The last loop of calc_idoms: a dominator found through another node. *)
Explicit(d) ==
  FoldLeft(LAMBDA dom, x : [dom EXCEPT ![x] = IF @ # d.key[x] THEN dom[@] ELSE @],
           d.dom, Numbers)

(* Fault: a node with no dominator but itself, as one below EXIT. *)
IdomsToDoms_NoOnes(dom) ==
  FoldLeft(LAMBDA doms, x :
             LET b == walk.to_bb[x]
             IN  [doms EXCEPT ![b] =
                    {b} \cup IF dom[x] > 1 THEN doms[walk.to_bb[dom[x]]] ELSE {}],
           [b \in Blocks |-> {}], Numbers)

IdomsToDoms(dom) ==
  FoldLeft(LAMBDA doms, x :
             LET b == walk.to_bb[x]
             IN  [doms EXCEPT ![b] =
                    {b} \cup IF dom[x] > 1 THEN doms[walk.to_bb[dom[x]]]
                             ELSE IF dom[x] = 0 THEN Blocks ELSE {}],
           [b \in Blocks |-> {}], Numbers)

Finish ==
  /\ at = 1 /\ found = Unknown
  /\ LET dom == Explicit(di)
     IN  found' = [known |-> TRUE, doms |-> IdomsToDoms(dom),
                   idom |-> [b \in Blocks |-> IF dom[walk.order[b]] > 1
                                              THEN walk.to_bb[dom[walk.order[b]]]
                                              ELSE NoBlock]]
  /\ UNCHANGED <<graph, reverse, walk, di, at>>

DomNext ==
  \/ \E b \in Blocks : Descend(b)
  \/ Retreat \/ AnotherTree \/ EndWalk \/ CalcIdom \/ Finish

-----------------------------------------------------------------------------
(* Properties. *)

(* The definition: a is on every path from Begin to b. *)
Dominates(a, b) ==
  LET G == IF reverse THEN Transpose(AsGraph(graph)) ELSE AsGraph(graph)
  IN  a = b \/ ~ ConnectionsIn(Without(G, a))[Begin, b]

CanBeReached(b) ==
  LET G == IF reverse THEN Transpose(AsGraph(graph)) ELSE AsGraph(graph)
  IN  ConnectionsIn(G)[Begin, b]

(* The sets of dominators and the immediate ones are those of the definition;
   a block that has no path to EXIT, for which no set is right, is
   post-dominated by all, "to be compatible with the old code".  Every block is
   numbered, or the code would abort. *)
DominatorsRight ==
  /\ at > 0 => Len(walk.to_bb) = Cardinality(Blocks) + 1
  /\ found.known =>
       \A b \in Blocks :
         IF CanBeReached(b)
         THEN LET doms == {a \in Blocks : Dominates(a, b)}
              IN  /\ found.doms[b] = doms
                  /\ IF doms = {b} THEN found.idom[b] = NoBlock
                     ELSE /\ found.idom[b] \in doms \ {b}
                          /\ \A a \in doms \ {b} : Dominates(a, found.idom[b])
         ELSE found.doms[b] = Blocks
=============================================================================
