----------------------------- MODULE LiveRegisters -----------------------------
(***************************************************************************)
(* The life of registers (gcc/flow.c): the relaxation that finds those     *)
(* live at the ends of blocks, the removal of dead insns that goes with    *)
(* it, and the notes about the deaths of registers.                        *)
(*                                                                         *)
(* life_analysis begins with nothing live.  A pass that changed insns asks *)
(* update_life_info to begin with what was known, and to look first at the *)
(* blocks it names, or at all.                                             *)
(***************************************************************************)
EXTENDS FlowGraph

CONSTANTS
  LifeGraphs,  \* the graphs considered
  AtExit,      \* the registers live at the end of the function
  Codes,       \* what a block may consist of
  Rewritten,   \* what a later pass may make of a block
  MaxRewritten \* and of how many blocks

VARIABLES
  code,        \* the insns of each block
  deleted,     \* the places <<block, number>> of those that were deleted
  notes,       \* the registers each insn's REG_DEAD and REG_UNUSED notes name
  live_start,  \* global_live_at_start
  live_end,    \* global_live_at_end
  scanned,     \* the blocks with a local_set, which make up blocks_out
  queue,       \* the blocks to look at, first out first
  call,        \* how the analysis was asked for
  resting      \* it is over

lifeVars ==
  <<code, deleted, notes, live_start, live_end, scanned, queue, call, resting>>

LifeBlocks == BlocksOf(graph)
EntryBlock == 0

(* An insn: what it sets and uses, and whether it has other effects. *)
Insn(sets, uses, keep) == [sets |-> sets, uses |-> uses, keep |-> keep]

Places(b)    == {b} \X DOMAIN code[b]
InsnAt(p)    == code[p[1]][p[2]]
LocalSet(b)  == UNION {InsnAt(p).sets : p \in Places(b) \ deleted}

(* The calls: with blocks, or NULL for all; with the flags to look for dead
   insns and delete them; with UPDATE_LIFE_GLOBAL_RM_NOTES; for a change of the
   flow graph, which only life_analysis allows. *)
Call(all, dead, rm, cfg) == [all |-> all, dead |-> dead, rm |-> rm, cfg |-> cfg]

LifeAnalysis == Call(TRUE, TRUE, TRUE, TRUE)
Updates ==
  {Call(FALSE, TRUE, FALSE, FALSE),  \* ifcvt.c, cfgcleanup.c
   Call(FALSE, FALSE, TRUE, FALSE),  \* combine.c
   Call(TRUE, FALSE, TRUE, FALSE),   \* recog.c
   Call(TRUE, TRUE, TRUE, FALSE)}    \* regrename.c, lcm.c

NoNotes(c) == [b \in DOMAIN c |-> [i \in DOMAIN c[b] |-> {}]]

-----------------------------------------------------------------------------
LifeInit ==
  /\ graph \in LifeGraphs
  /\ code \in [LifeBlocks -> Codes]
  /\ deleted = {}
  /\ notes = NoNotes(code)
  /\ live_start = [b \in LifeBlocks \cup {EXIT} |-> IF b = EXIT THEN AtExit ELSE {}]
  /\ live_end = [b \in LifeBlocks \cup {ENTRY} |-> {}]
  /\ scanned = {}
  /\ queue = Descending(LifeBlocks)
  /\ call = LifeAnalysis
  /\ resting = FALSE

(* insn_dead_p. *)
Useless(insn, after) == ~ insn.keep /\ insn.sets \cap after = {}

(* propagate_block: from the registers live at the end of a block back to its
   beginning.  A dead insn sets what it sets, but uses nothing. *)
Propagated(b, end) ==
  LET n == Len(code[b])
      scan[i \in 1 .. n + 1] ==
        IF i = n + 1 THEN [live |-> end, dead |-> {}, notes |-> <<>>]
        ELSE LET insn == code[b][i]
                 rest == scan[i + 1]
                 dead == call.dead /\ Useless(insn, rest.live)
             IN  IF <<b, i>> \in deleted
                 THEN [rest EXCEPT !.notes = <<{}>> \o @]
                 ELSE [live  |-> (rest.live \ insn.sets)
                                 \cup (IF dead THEN {} ELSE insn.uses),
                       dead  |-> rest.dead \cup (IF dead THEN {<<b, i>>} ELSE {}),
                       notes |-> <<IF dead THEN {}
                                   ELSE (insn.sets \cup insn.uses) \ rest.live>>
                                 \o rest.notes]
  IN  scan[1]

(* Fault: a register that comes to be live is only looked for in the insns that
   are not dead. *)
Rescan_Undead(b, end) ==
  \/ b \notin scanned
  \/ live_end[b] \ end # {}
  \/ (end \ live_end[b]) \cap (LocalSet(b) \cap live_end[b]) # {}

(* Whether calculate_global_regs_live looks at the insns of a block. *)
Rescan(b, end) ==
  \/ b \notin scanned
  \/ live_end[b] \ end # {}
  \/ (end \ live_end[b]) \cap LocalSet(b) # {}

(* One round of calculate_global_regs_live. *)
Visit ==
  /\ ~ resting /\ queue # <<>>
  /\ LET b     == Head(queue)
         succs == IF b = ENTRY THEN {EntryBlock} ELSE graph[b]
         end   == UNION {live_start[s] : s \in succs}
         start == IF Rescan(b, end) THEN Propagated(b, end).live
                  ELSE live_start[b] \cup (end \ live_end[b])
     IN  /\ live_end' = [live_end EXCEPT ![b] = end]
         /\ IF b = ENTRY
            THEN /\ queue' = Tail(queue)
                 /\ UNCHANGED <<live_start, scanned>>
            ELSE /\ live_start' = [live_start EXCEPT ![b] = start]
                 /\ scanned' = scanned \cup {b}
                 /\ queue' = IF start = live_start[b] THEN Tail(queue)
                             ELSE Queued(Tail(queue), Preds(graph, b), {})
  /\ UNCHANGED <<graph, code, deleted, notes, call, resting>>

(* Fault: blocks whose registers changed keep their notes. *)
Noted_Deleted(dead) == IF call.all THEN LifeBlocks ELSE {p[1] : p \in dead}

(* The blocks whose insns are looked at in the end. *)
Noted(dead) == IF call.all THEN LifeBlocks ELSE scanned

(* What update_life_info does when nothing is queued.  life_analysis begins again
   from what was found when insns were deleted. *)
Propagate ==
  /\ ~ resting /\ queue = <<>>
  /\ LET blocks == IF call.all THEN LifeBlocks ELSE scanned
         dead   == UNION {Propagated(b, live_end[b]).dead : b \in blocks}
     IN  /\ deleted' = deleted \cup dead
         /\ IF call.cfg /\ dead # {}
            THEN /\ queue' = Descending(LifeBlocks)
                 /\ UNCHANGED <<notes, resting>>
            ELSE /\ resting' = TRUE
                 /\ notes' = [b \in LifeBlocks |->
                      IF b \notin Noted(dead) THEN notes[b]
                      ELSE LET new == Propagated(b, live_end[b]).notes
                           IN  [i \in DOMAIN code[b] |->
                                  IF call.rm THEN new[i] ELSE notes[b][i] \cup new[i]]]
                 /\ UNCHANGED queue
  /\ scanned' = {}
  /\ UNCHANGED <<graph, code, live_start, live_end, call>>

(* A later pass has changed the code of some blocks, and asks for an update. *)
Kept(b, s) ==
  LET at == SelectSeq([i \in DOMAIN s |-> i], LAMBDA i : <<b, i>> \notin deleted)
  IN  [k \in DOMAIN at |-> s[at[k]]]

Update(blocks, new, how) ==
  /\ resting /\ call = LifeAnalysis
  /\ code' = [b \in LifeBlocks |-> IF b \in blocks THEN new[b] ELSE Kept(b, code[b])]
  /\ notes' = [b \in LifeBlocks |->
                 IF b \in blocks THEN NoNotes(new)[b] ELSE Kept(b, notes[b])]
  /\ deleted' = {}
  /\ queue' = Descending(IF how.all THEN LifeBlocks ELSE blocks)
  /\ call' = how
  /\ resting' = FALSE
  /\ UNCHANGED <<graph, live_start, live_end, scanned>>

LifeNext ==
  \/ Visit \/ Propagate
  \/ \E k \in 1 .. MaxRewritten :
       \E blocks \in kSubset(k, LifeBlocks), how \in Updates :
         \E new \in [blocks -> Rewritten] : Update(blocks, new, how)

(* The analysis goes on once it was asked for; no pass has to ask again. *)
Analysis == Visit \/ Propagate

-----------------------------------------------------------------------------
(* Properties. *)

(* The registers live before insn i of a block, by the insns of `places', of
   which those of `needed' use what they use, when `in' says what is live at the
   beginning of the blocks. *)
LiveBefore(b, i, in, places, needed) ==
  LET n == Len(code[b])
      live[j \in i .. n + 1] ==
        IF j = n + 1 THEN UNION {in[s] : s \in graph[b]}
        ELSE IF <<b, j>> \notin places THEN live[j + 1]
        ELSE (live[j + 1] \ code[b][j].sets)
             \cup (IF <<b, j>> \in needed THEN code[b][j].uses ELSE {})
  IN  live[i]

(* What some path from the beginning of a block leads to a use of. *)
LiveIn(places, needed) ==
  LET rounds == Cardinality(LifeBlocks) + 1
      in[k \in 0 .. rounds] ==
        IF k = 0 THEN [b \in LifeBlocks |-> {}] @@ EXIT :> AtExit
        ELSE LET last == in[k - 1]
             IN  [b \in LifeBlocks |-> LiveBefore(b, 1, last, places, needed)]
                 @@ EXIT :> AtExit
  IN  in[rounds]

AllPlaces == UNION {Places(b) : b \in LifeBlocks}

(* The insns that have an effect, or set what such an insn may use, directly or
   by way of others. *)
Needed ==
  LET n[k \in 0 .. Cardinality(AllPlaces)] ==
        IF k = 0 THEN {p \in AllPlaces : InsnAt(p).keep}
        ELSE LET last == n[k - 1]
                 in   == LiveIn(AllPlaces, last)
                 used(p) == LiveBefore(p[1], p[2] + 1, in, AllPlaces, last)
             IN  last \cup UNION {IF InsnAt(p).sets \cap used(p) = {} THEN {} ELSE {p} :
                                   p \in AllPlaces}
  IN  n[Cardinality(AllPlaces)]

(* When an analysis is over, what it says is live at the beginning and at the
   end of each block is all that the insns left can still use; after
   life_analysis it is no more than that. *)
SetsCover ==
  resting =>
    LET left == AllPlaces \ deleted
        in   == LiveIn(left, left)
    IN  \A b \in LifeBlocks :
          /\ in[b] \subseteq live_start[b]
          /\ live_end[b] = UNION {live_start[s] : s \in graph[b]}
          /\ call = LifeAnalysis => live_start[b] = in[b]

(* No insn is deleted that one with an effect depends on, around loops too, and
   life_analysis leaves none that is not needed. *)
NeededStay ==
  (resting /\ call.dead) =>
    /\ deleted \cap Needed = {}
    /\ call = LifeAnalysis => AllPlaces \ deleted \subseteq Needed

(* Nothing that can still be used is missing from the sets, nor from the code
   that dead code elimination by these sets leaves. *)
LiveCovers == SetsCover /\ NeededStay

(* The notes of all insns name the registers that are not live behind them, in
   the blocks too that were not looked at; those that came to be live again may
   be named still if the notes were not removed. *)
NotesCurrent ==
  resting =>
    LET left == AllPlaces \ deleted
        in   == live_start
        dying(p) == (InsnAt(p).sets \cup InsnAt(p).uses)
                      \ LiveBefore(p[1], p[2] + 1, in, left, left)
    IN  \A p \in left :
          /\ dying(p) \subseteq notes[p[1]][p[2]]
          /\ call.rm => notes[p[1]][p[2]] = dying(p)

(* flow.c:1119: the relaxation is guaranteed to terminate, because
   GLOBAL_LIVE_AT_START never shrinks. *)
UpdateEnds == ~ resting ~> resting
=============================================================================
