---------------------------- MODULE LazyCodeMotion ----------------------------
(***************************************************************************)
(* Elimination of partial redundancies: lazy code motion (gcc/lcm.c,       *)
(* pre_edge_lcm) and the changes that are made from it (gcc/gcse.c,        *)
(* pre_gcse), for one expression; the code does all at once, bit by bit.   *)
(*                                                                         *)
(* A block is known by what it does with the expression: it computes it,   *)
(* kills it by setting an operand, or both in either order.  Three passes  *)
(* with a worklist each find where it is available, where it is            *)
(* anticipated and how far its computation can be put off; then it is      *)
(* inserted on edges and deleted where a register holds it.                *)
(***************************************************************************)
EXTENDS FlowGraph

CONSTANTS
  LcmGraphs,  \* the graphs considered
  Effects     \* what a block may do, of those below

VARIABLES
  effect,    \* what each block does: its insns that matter, in order
  pass,      \* "available", "anticipated", "later" or "done"
  worklist,  \* the queue of the pass, first out first
  avout,     \* the blocks at whose end it is available,
  antin,     \* at whose beginning it is anticipated,
  antout,    \* and at whose end
  later,     \* edges its computation can be put off to,
  laterin,   \* and blocks, EXIT among them
  moved      \* the changes that are made

lcmVars == <<effect, pass, worklist, avout, antin, antout, later, laterin, moved>>

AllEffects ==
  {<<>>, <<"compute">>, <<"kill">>, <<"compute", "kill">>, <<"kill", "compute">>,
   <<"compute", "kill", "compute">>}

LcmBlocks == BlocksOf(graph)
Edges     == EdgesOf(graph)
EntryEdge == <<ENTRY, 0>>
Returning == Preds(graph, EXIT)

(* compute_local_properties, compute_pre_data. *)
Transp == {b \in LcmBlocks : "kill" \notin ToSet(effect[b])}
Antloc == {b \in LcmBlocks : effect[b] # <<>> /\ effect[b][1] = "compute"}
Comp   == {b \in LcmBlocks : effect[b] # <<>> /\ Last(effect[b]) = "compute"}
Kill   == LcmBlocks \ (Transp \cup Comp)

Unmoved == [inserted |-> {}, deleted |-> {}, copied |-> {}]

-----------------------------------------------------------------------------
LcmInit ==
  /\ graph \in LcmGraphs
  /\ effect \in [LcmBlocks -> Effects]
  /\ pass = "available"
  /\ worklist = [i \in 1 .. Cardinality(LcmBlocks) |-> i - 1]
  /\ avout = LcmBlocks
  /\ antin = {} /\ antout = {} /\ later = {} /\ laterin = {}
  /\ moved = Unmoved

(* Fault: the successors of ENTRY are treated like the others. *)
AvailableIn_NoBorder(b) == Preds(graph, b) \ {ENTRY} \subseteq avout

AvailableIn(b) == Preds(graph, b) \subseteq avout

(* One round of compute_available. *)
VisitAvailable ==
  /\ pass = "available" /\ worklist # <<>>
  /\ LET b   == Head(worklist)
         out == b \in Comp \/ (AvailableIn(b) /\ b \notin Kill)
         new == graph[b] \ {EXIT}
     IN  /\ avout' = IF out THEN avout \cup {b} ELSE avout \ {b}
         /\ worklist' = IF out = (b \in avout) THEN Tail(worklist)
                        ELSE Queued(Tail(worklist), new, {0})
  /\ UNCHANGED <<graph, effect, pass, antin, antout, later, laterin, moved>>

StartAnticipated ==
  /\ pass = "available" /\ worklist = <<>>
  /\ pass' = "anticipated"
  /\ worklist' = Descending(LcmBlocks)
  /\ antin' = LcmBlocks
  /\ UNCHANGED <<graph, effect, avout, antout, later, laterin, moved>>

(* One round of compute_antinout_edge. *)
VisitAnticipated ==
  /\ pass = "anticipated" /\ worklist # <<>>
  /\ LET b   == Head(worklist)
         out == b \notin Returning /\ graph[b] \subseteq antin
         in  == b \in Antloc \/ (b \in Transp /\ out)
         new == Preds(graph, b) \ {ENTRY}
     IN  /\ antout' = IF out THEN antout \cup {b} ELSE antout \ {b}
         /\ antin' = IF in THEN antin \cup {b} ELSE antin \ {b}
         /\ worklist' = IF in = (b \in antin) THEN Tail(worklist)
                        ELSE Queued(Tail(worklist), new, Returning)
  /\ UNCHANGED <<graph, effect, pass, avout, later, laterin, moved>>

(* Fault: whether it could be computed before the block is not looked at. *)
Earliest_Everywhere(e) ==
  IF e[1] = ENTRY THEN e[2] \in antin
  ELSE e[2] # EXIT /\ e[2] \in antin /\ e[1] \notin avout

(* compute_earliest. *)
Earliest(e) ==
  IF e[1] = ENTRY THEN e[2] \in antin
  ELSE /\ e[2] # EXIT
       /\ e[2] \in antin /\ e[1] \notin avout
       /\ e[1] \in Kill \/ e[1] \notin antout

StartLater ==
  /\ pass = "anticipated" /\ worklist = <<>>
  /\ pass' = "later"
  /\ worklist' = [i \in 1 .. Cardinality(LcmBlocks) |-> i - 1]
  /\ later' = {e \in Edges : e = EntryEdge => Earliest(e)}
  /\ UNCHANGED <<graph, effect, avout, antin, antout, laterin, moved>>

(* One round of compute_laterin. *)
VisitLater ==
  /\ pass = "later" /\ worklist # <<>>
  /\ LET b    == Head(worklist)
         in   == PredEdges(graph, b) \subseteq later
         outs == SuccEdges(graph, b)
         on   == {e \in outs : Earliest(e) \/ (in /\ b \notin Antloc)}
         new  == {e[2] : e \in {f \in outs : (f \in on) # (f \in later)}} \ {EXIT}
     IN  /\ laterin' = IF in THEN laterin \cup {b} ELSE laterin \ {b}
         /\ later' = (later \ outs) \cup on
         /\ worklist' = Queued(Tail(worklist), new, {})
  /\ UNCHANGED <<graph, effect, pass, avout, antin, antout, moved>>

-----------------------------------------------------------------------------
(* pre_expr_reaches_here_p: the computation at the end of `from' reaches the
   beginning of b through blocks that do nothing. *)
ReachesHere(from, b) ==
  LET idle == LcmBlocks \cap (Transp \ Comp)
      back[k \in 0 .. Cardinality(LcmBlocks)] ==
        IF k = 0 THEN Preds(graph, b)
        ELSE back[k - 1] \cup UNION {Preds(graph, p) : p \in back[k - 1] \cap idle}
  IN  from \in back[Cardinality(LcmBlocks)]

(* One insn is both the first and the last that computes the expression. *)
OnlyOne(b) == b \in Antloc \cap Comp \cap Transp

(* Fault: the computations that are left are not copied to the register. *)
Copied_None(deleted) == {}

(* pre_insert_copies. *)
Copied(deleted) ==
  {b \in Comp :
     /\ ~ (b \in deleted /\ OnlyOne(b))
     /\ \E d \in deleted : ReachesHere(b, d)}

(* Fault: an insertion that comes later on all ways out is made as well. *)
Placement_Early(exit) ==
  LET deleted == Antloc \ laterin
  IN  [deleted |-> deleted, copied |-> Copied(deleted),
       inserted |-> IF deleted = {} THEN {} ELSE {e \in Edges : Earliest(e)}]

(* compute_insert_delete, and what pre_delete, pre_edge_insert and
   pre_insert_copies make of it.  Nothing is inserted unless something was
   deleted: there is no register. *)
Placement(exit) ==
  LET deleted == Antloc \ laterin
  IN  [deleted |-> deleted, copied |-> Copied(deleted),
       inserted |-> IF deleted = {} THEN {} ELSE later \ {e \in later : e[2] \in exit}]

Place ==
  /\ pass = "later" /\ worklist = <<>>
  /\ pass' = "done"
  /\ laterin' = laterin \cup IF PredEdges(graph, EXIT) \subseteq later THEN {EXIT} ELSE {}
  /\ moved' = Placement(laterin')
  /\ UNCHANGED <<graph, effect, worklist, avout, antin, antout, later>>

LcmNext ==
  \/ VisitAvailable \/ StartAnticipated \/ VisitAnticipated
  \/ StartLater \/ VisitLater \/ Place

-----------------------------------------------------------------------------
(* Properties. *)

Rounds == 2 * Cardinality(LcmBlocks) + 2

(* What paths from ENTRY bring to the blocks: whether something holds at their
   beginning, when Over(e, h) says whether it holds behind the edge e if h says
   whether it did before the block the edge leaves. *)
Arrivals(Over(_, _)) ==
  LET edges == Edges
      come[k \in 0 .. Rounds] ==
        IF k = 0 THEN {<<ENTRY, FALSE>>}
        ELSE LET last == come[k - 1]
             IN  last \cup
                 UNION {{<<e[2], Over(e, p[2])>> : e \in {f \in edges : f[1] = p[1]}} :
                        p \in last}
  IN  come[Rounds]

Computed(e, h) == e[1] \in Comp \/ (e[1] \in Transp /\ h)
Held(e, h) ==
  e \in moved.inserted \/ e[1] \in moved.copied \/ (e[1] \in Transp /\ h)

(* The most evaluations that a path has more than it had, at its nodes. *)
More ==
  LET worst == -2 * Rounds
      plus(e, x) == x + (IF e \in moved.inserted THEN 1 ELSE 0)
                      - (IF e[1] \in moved.deleted THEN 1 ELSE 0)
      nodes == LcmBlocks \cup {EXIT}
      into  == [b \in nodes |-> PredEdges(graph, b)]
      gain[k \in 0 .. Rounds] ==
        IF k = 0 THEN [b \in nodes |-> worst] @@ ENTRY :> 0
        ELSE LET last == gain[k - 1]
             IN  [b \in nodes |->
                    Max({last[b]} \cup {plus(e, last[e[1]]) : e \in into[b]})]
                 @@ ENTRY :> 0
  IN  gain[Rounds]

(* Wherever a computation was replaced by the register, every path brings the
   value of the expression in it. *)
RegisterCurrent ==
  pass = "done" =>
    \A a \in Arrivals(Held) : a[1] \in moved.deleted => a[2]

(* No path through the function evaluates the expression more often than it
   did, and a computation that all paths to it had made is gone. *)
NoneAdded ==
  pass = "done" =>
    /\ More[EXIT] <= 0
    /\ \A b \in Antloc \ moved.deleted : <<b, FALSE>> \in Arrivals(Computed)
=============================================================================
