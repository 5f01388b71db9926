----------------------------- MODULE MCOptimizers -----------------------------
(* Three analyses of the optimizers, each on flow graphs of its own.  They share
   the graph and no other state, and a behaviour is one of one analysis, chosen
   by `focus'; the others stay where they begin. *)
EXTENDS Dominators, LazyCodeMotion, LiveRegisters

VARIABLE focus

Flow(s) == [b \in 0 .. Len(s) - 1 |-> s[b + 1]]

Diamond == Flow(<<{1, 2}, {3}, {3}, {0, EXIT}>>)  \* in a loop
Nested  == Flow(<<{1}, {2}, {1, 3}, {0, EXIT}>>)  \* loops
Twice   == Flow(<<{1, 2}, {2}, {3, 1}, {EXIT}>>)  \* a loop entered at two places

MCFlowGraphs == FlowGraphs(4)

(* Blocks that do not return are connected to EXIT (gcse.c:5135). *)
MCLcmGraphs ==
  {g \in FlowGraphs(3) : \A b \in BlocksOf(g) : g[b] # {}} \cup {Diamond, Nested, Twice}

MCLifeGraphs ==
  {Diamond,
   Flow(<<{1}, {2, EXIT}, {1}>>), Flow(<<{1}, {2}, {0, EXIT}>>),
   Flow(<<{1, 2}, {0}, {EXIT}>>), Flow(<<{1}, {1, 2}, {0, EXIT}>>),
   Flow(<<{1, 2}, {}, {0, EXIT}>>)}

SetR  == Insn({"r"}, {}, FALSE)
UseR  == Insn({}, {"r"}, TRUE)
RtoS  == Insn({"s"}, {"r"}, FALSE)
StoR  == Insn({"r"}, {"s"}, FALSE)
IncR  == Insn({"r"}, {"r"}, FALSE)

MCCodes ==
  {<<>>, <<SetR>>, <<UseR>>, <<RtoS>>, <<StoR>>, <<IncR>>, <<SetR, RtoS>>, <<UseR, StoR>>}
MCRewritten == {<<>>, <<SetR>>, <<UseR>>}

domIdle ==
  /\ reverse = FALSE /\ at = 0 /\ found = Unknown /\ di = <<>>
  /\ walk = [order |-> <<>>, to_bb |-> <<>>, parent |-> <<>>, path |-> <<>>]
lcmIdle ==
  /\ effect = <<>> /\ pass = "idle" /\ worklist = <<>>
  /\ avout = {} /\ antin = {} /\ antout = {} /\ later = {} /\ laterin = {}
  /\ moved = Unmoved
lifeIdle ==
  /\ code = <<>> /\ deleted = {} /\ notes = <<>>
  /\ live_start = <<>> /\ live_end = <<>>
  /\ scanned = {} /\ queue = <<>> /\ call = LifeAnalysis /\ resting = FALSE

OptInit ==
  \/ focus = "dominators" /\ DomInit /\ lcmIdle /\ lifeIdle
  \/ focus = "motion"     /\ domIdle /\ LcmInit /\ lifeIdle
  \/ focus = "life"       /\ domIdle /\ lcmIdle /\ LifeInit

OptNext ==
  /\ \/ focus = "dominators" /\ DomNext /\ UNCHANGED <<lcmVars, lifeVars>>
     \/ focus = "motion" /\ LcmNext /\ UNCHANGED <<domVars, lifeVars>>
     \/ focus = "life" /\ LifeNext /\ UNCHANGED <<domVars, lcmVars>>
  /\ UNCHANGED focus

optVars == <<graph, domVars, lcmVars, lifeVars, focus>>
OptSpec == OptInit /\ [][OptNext]_optVars

(* The life of registers alone. *)
LifeStep == focus = "life" /\ Analysis /\ UNCHANGED <<domVars, lcmVars, focus>>

LifeSpec ==
  /\ focus = "life" /\ domIdle /\ lcmIdle /\ LifeInit
  /\ [][OptNext]_optVars /\ WF_optVars(LifeStep)
=============================================================================
