------------------------------ MODULE InsnChain ------------------------------
(***************************************************************************)
(* The insn chain of a function (gcc/emit-rtl.c).                          *)
(*                                                                         *)
(* Insns are linked both ways.  first_insn and last_insn delimit the       *)
(* sequence insns are emitted to; start_sequence saves the pair on         *)
(* seq_stack and end_sequence takes it back.  An insn may be put behind or *)
(* in front of any insn, also of one in a saved sequence, whose saved pair *)
(* must then follow.  Before register allocation the chain is cut into     *)
(* basic blocks, whose ends must follow too.                               *)
(*                                                                         *)
(* The fields of the record `chain' are the globals of struct emit_status  *)
(* and the link fields of the insns; each operator below takes such a      *)
(* record and returns the one its C function leaves.  `finished' holds the *)
(* first insns of sequences that ended and whose caller keeps them         *)
(* (get_insns and end_sequence) until they are emitted.                    *)
(*                                                                         *)
(* Insns with delay slots do not exist on this target; CALL_PLACEHOLDERs   *)
(* and the fixups of fixup_var_refs are left out.                          *)
(***************************************************************************)
EXTENDS Naturals, Sequences, SequencesExt

CONSTANTS
  MaxInsns,   \* bound: insns made
  MaxDepth    \* bound: sequences open at a time, the function's included

Insn == 1 .. MaxInsns
Nil  == 0

VARIABLES
  chain,      \* see ChainState
  made,       \* insns made so far; an insn is the number it was made as
  finished,   \* first insns of the finished sequences not emitted yet
  optimizing  \* basic_block_for_insn exists

chainVars == <<chain, made, finished, optimizing>>

Pair == [first : Insn \cup {Nil}, last : Insn \cup {Nil}]

(* first and last are first_insn and last_insn; saved is seq_stack, innermost
   first; head is the first insn of each basic block, end its last one, and
   block tells the block of an insn by its head, as BLOCK_FOR_INSN does by a
   pointer to the block. *)
ChainState ==
  [next : [Insn -> Insn \cup {Nil}], prev : [Insn -> Insn \cup {Nil}],
   first : Insn \cup {Nil}, last : Insn \cup {Nil}, saved : Seq(Pair),
   block : [Insn -> Insn \cup {Nil}], end : [Insn -> Insn \cup {Nil}]]

-----------------------------------------------------------------------------
(* Writing NEXT_INSN and PREV_INSN when there is such an insn. *)
SetNext(c, i, j) == IF i = Nil THEN c ELSE [c EXCEPT !.next[i] = j]
SetPrev(c, i, j) == IF i = Nil THEN c ELSE [c EXCEPT !.prev[i] = j]

(* The insns from i on, as every loop over NEXT_INSN meets them. *)
From(c, i) ==
  LET walk[n \in 0 .. MaxInsns, j \in Insn \cup {Nil}] ==
        IF n = 0 \/ j = Nil THEN <<>> ELSE <<j>> \o walk[n - 1, c.next[j]]
  IN  walk[MaxInsns, i]

AddInsn(c, i) ==
  [SetNext(c, c.last, i) EXCEPT
     !.prev[i] = c.last, !.next[i] = Nil, !.last = i,
     !.first = IF @ = Nil THEN i ELSE @]

(* "Scan all pending sequences too": the first saved pair that ends, or
   starts, with insn i gets j instead.  The code aborts if there is none. *)
Pending(c, field, i) == {k \in DOMAIN c.saved : c.saved[k][field] = i}
Innermost(ks)        == CHOOSE k \in ks : \A m \in ks : k <= m

MoveLast(c, i, j) ==
  IF c.last = i THEN [c EXCEPT !.last = j]
  ELSE [c EXCEPT !.saved[Innermost(Pending(c, "last", i))].last = j]

MoveFirst(c, i, j) ==
  IF c.first = i THEN [c EXCEPT !.first = j]
  ELSE [c EXCEPT !.saved[Innermost(Pending(c, "first", i))].first = j]

(* Insn i joins the block of insn a; at its end if a was the last one. *)
JoinBlock(c, i, a) ==
  LET b == c.block[a]
  IN  IF b = Nil THEN c
      ELSE [c EXCEPT !.block[i] = b, !.end[b] = IF @ = a THEN i ELSE @]

(* Fault: the pending sequences are not scanned. *)
AddInsnAfter_CurrentOnly(c, i, a) ==
  LET n      == c.next[a]
      linked == SetPrev([c EXCEPT !.next[i] = n, !.prev[i] = a], n, i)
      ended  == IF n = Nil /\ c.last = a THEN [linked EXCEPT !.last = i]
                                         ELSE linked
  IN  [JoinBlock(ended, i, a) EXCEPT !.next[a] = i]

AddInsnAfter(c, i, a) ==
  LET n      == c.next[a]
      linked == SetPrev([c EXCEPT !.next[i] = n, !.prev[i] = a], n, i)
      ended  == IF n = Nil THEN MoveLast(linked, a, i) ELSE linked
  IN  [JoinBlock(ended, i, a) EXCEPT !.next[a] = i]

(* The block of `before' is joined, but its head stays: "first in the BB is
   always either NOTE or LABEL". *)
AddInsnBefore(c, i, b) ==
  LET p       == c.prev[b]
      linked  == SetNext([c EXCEPT !.prev[i] = p, !.next[i] = b], p, i)
      started == IF p = Nil THEN MoveFirst(linked, b, i) ELSE linked
  IN  [started EXCEPT !.block[i] = c.block[b], !.prev[b] = i]

RemoveInsn(c, i) ==
  LET n       == c.next[i]
      p       == c.prev[i]
      b       == c.block[i]
      started == IF p = Nil THEN MoveFirst(c, i, n) ELSE SetNext(c, p, n)
      ended   == IF n = Nil THEN MoveLast(started, i, p)
                            ELSE SetPrev(started, n, p)
  IN  IF b # Nil /\ c.end[b] = i THEN [ended EXCEPT !.end[b] = p] ELSE ended

DeleteInsnsSince(c, from) ==
  IF from = Nil THEN [c EXCEPT !.first = Nil, !.last = Nil]
                ELSE [c EXCEPT !.next[from] = Nil, !.last = from]

(* reorder_insns: reorder_insns_nobb, then the ends of the two blocks. *)
Splice(c, from, to, after) ==
  LET p == c.prev[from]
      n == c.next[to]
      cut == [SetPrev(SetNext(c, p, n), n, p) EXCEPT
                !.last  = IF @ = to THEN p ELSE @,
                !.first = IF @ = from THEN n ELSE @]
      m == cut.next[after]
  IN  [SetPrev(cut, m, to) EXCEPT
         !.next[to] = m, !.prev[from] = after, !.next[after] = from,
         !.last = IF @ = after THEN to ELSE @]


ReorderInsns(c, from, to, after) ==
  LET s  == Splice(c, from, to, after)
      b  == c.block[after]
      b2 == c.block[from]
      moved == ToSet(SubSeq(From(s, from), 1,
                 CHOOSE k \in DOMAIN From(s, from) : From(s, from)[k] = to))
      left  == IF b2 # Nil /\ c.end[b2] = to
               THEN [s EXCEPT !.end[b2] = c.prev[from]] ELSE s
  IN  IF b = Nil THEN s
      ELSE [left EXCEPT !.end[b] = IF @ = after THEN to ELSE @,
                        !.block = [i \in Insn |-> IF i \in moved THEN b
                                                  ELSE left.block[i]]]

(* emit_insns and emit_insns_before: insn by insn, the next one read before
   the insn is linked anew. *)
EmitInsns(c, f) == FoldLeft(AddInsn, c, From(c, f))

EmitInsnsBefore(c, f, b) ==
  FoldLeft(LAMBDA d, i : AddInsnBefore(d, i, b), c, From(c, f))

(* emit_insns_after: in one piece; saved pairs are left alone. *)
EmitInsnsAfter(c, f, a) ==
  LET part   == From(c, f)
      l      == part[Len(part)]
      b      == c.block[a]
      joined == IF b = Nil THEN c
                ELSE [c EXCEPT !.block = [i \in Insn |->
                                 IF Contains(part, i) THEN b ELSE c.block[i]],
                               !.end[b] = IF @ = a THEN l ELSE @]
      n      == c.next[a]
  IN  [SetPrev(joined, n, l) EXCEPT
         !.next[a] = f, !.prev[f] = a, !.next[l] = n,
         !.last = IF @ = a THEN l ELSE @]

-----------------------------------------------------------------------------
(* The stack of sequences. *)
StartSequence(c) ==
  [c EXCEPT !.saved = <<[first |-> c.first, last |-> c.last]>> \o @,
            !.first = Nil, !.last = Nil]

EndSequence(c) ==
  [c EXCEPT !.first = c.saved[1].first, !.last = c.saved[1].last,
            !.saved = Tail(@)]

PushToSequence(c, f) ==
  LET part == From(c, f)
  IN  [StartSequence(c) EXCEPT !.first = f, !.last = part[Len(part)]]

PushTopmostSequence(c) ==
  LET s   == StartSequence(c)
      top == s.saved[Len(s.saved)]
  IN  [s EXCEPT !.first = top.first, !.last = top.last]

(* Fault: the pair of the function's chain is not written back. *)
PopTopmostSequence_NoUpdate(c) == EndSequence(c)

PopTopmostSequence(c) ==
  EndSequence([c EXCEPT !.saved[Len(c.saved)] =
                          [first |-> c.first, last |-> c.last]])

-----------------------------------------------------------------------------
(* The sequences in use, current one first. *)
Firsts      == <<chain.first>> \o [k \in DOMAIN chain.saved |->
                                     chain.saved[k].first]
Lasts       == <<chain.last>> \o [k \in DOMAIN chain.saved |->
                                    chain.saved[k].last]
Open        == [k \in DOMAIN Firsts |-> From(chain, Firsts[k])]
OpenInsns   == UNION {ToSet(Open[k]) : k \in DOMAIN Open}
Current     == From(chain, chain.first)
IsHead(i)   == chain.block[i] = i

ChainInit ==
  /\ chain = [next |-> [i \in Insn |-> Nil], prev |-> [i \in Insn |-> Nil],
              first |-> Nil, last |-> Nil, saved |-> <<>>,
              block |-> [i \in Insn |-> Nil], end |-> [i \in Insn |-> Nil]]
  /\ made = 0 /\ finished = {} /\ optimizing = FALSE

(* make_insn_raw: the insn is not in any chain yet. *)
Make ==
  /\ made < MaxInsns
  /\ made' = made + 1
  /\ UNCHANGED <<finished, optimizing>>

Take(f) == finished' = finished \ {f} /\ UNCHANGED <<made, optimizing>>

Keep == UNCHANGED <<made, finished, optimizing>>

(* emit_insn.  Once there are blocks, the passes emit to a sequence of their
   own and put that into the chain. *)
Emit ==
  /\ optimizing => chain.saved # <<>>
  /\ Make
  /\ chain' = AddInsn(chain, made + 1)

(* emit_insn_after, emit_insn_before. *)
EmitAfter(a) ==
  /\ a \in OpenInsns
  /\ Make
  /\ chain' = AddInsnAfter(chain, made + 1, a)

EmitBefore(b) ==
  /\ b \in OpenInsns /\ ~IsHead(b)
  /\ Make
  /\ chain' = AddInsnBefore(chain, made + 1, b)

(* emit_insns, emit_insns_before, emit_insns_after of a finished sequence. *)
EmitFinished(f) ==
  /\ optimizing => chain.saved # <<>>
  /\ Take(f)
  /\ chain' = EmitInsns(chain, f)

EmitFinishedBefore(f, b) ==
  /\ b \in OpenInsns /\ ~IsHead(b)
  /\ Take(f)
  /\ chain' = EmitInsnsBefore(chain, f, b)

(* Callers give emit_insns_after an insn of the current sequence, or one that
   is not the last of its sequence: expand_decl_cleanup emits a note for just
   that purpose, and fixup_gotos starts from the jump's own notes. *)
MayFollow(a) == a \in OpenInsns /\ (a \in ToSet(Current) \/ chain.next[a] # Nil)

EmitFinishedAfter(f, a) ==
  /\ MayFollow(a)
  /\ Take(f)
  /\ chain' = EmitInsnsAfter(chain, f, a)

(* push_topmost_sequence, one of the three insertions it is used for, and
   pop_topmost_sequence: behind the first insn of the function, or in front of
   the second. *)
EmitAtTop(f) ==
  LET c == PushTopmostSequence(chain)
  IN  /\ ~optimizing /\ c.first # Nil
      /\ Take(f)
      /\ \/ chain' = PopTopmostSequence(EmitInsnsAfter(c, f, c.first))
         \/ /\ c.next[c.first] # Nil
            /\ chain' = PopTopmostSequence(
                          EmitInsnsBefore(c, f, c.next[c.first]))

DeleteInsn(i) ==
  /\ i \in OpenInsns /\ ~IsHead(i)
  /\ Keep
  /\ chain' = RemoveInsn(chain, i)

(* What an expander that fails has emitted is dropped: `from' was the last
   insn of the sequence when it began. *)
DeleteSince(from) ==
  /\ ~optimizing
  /\ from \in ToSet(Current) \cup {Nil}
  /\ Keep
  /\ chain' = DeleteInsnsSince(chain, from)

(* Insns moved at a time belong to one block and its head stays. *)
Reorder(from, to, after) ==
  LET s == Current
  IN  /\ \E j, k \in DOMAIN s :
           /\ j <= k /\ s[j] = from /\ s[k] = to
           /\ after \in ToSet(s) \ {s[m] : m \in j .. k}
           /\ \A m \in j .. k : ~IsHead(s[m])
                                /\ chain.block[s[m]] = chain.block[from]
      /\ Keep
      /\ chain' = ReorderInsns(chain, from, to, after)

Start ==
  /\ Len(chain.saved) + 1 < MaxDepth
  /\ Keep
  /\ chain' = StartSequence(chain)

PushTo(f) ==
  /\ Len(chain.saved) + 1 < MaxDepth
  /\ Take(f)
  /\ chain' = PushToSequence(chain, f)

(* end_sequence; the caller has taken get_insns() before, or drops it. *)
Finish ==
  /\ chain.saved # <<>>
  /\ finished' \in {finished, finished \cup ({chain.first} \ {Nil})}
  /\ chain' = EndSequence(chain)
  /\ UNCHANGED <<made, optimizing>>

(* find_basic_blocks and compute_bb_for_insn: the chain is cut into blocks. *)
BlockStart(s, heads, k) ==
  s[CHOOSE j \in heads : j <= k /\ \A m \in heads : m <= k => m <= j]

FindBlocks ==
  LET s == Current
  IN  /\ ~optimizing /\ chain.saved = <<>> /\ s # <<>> /\ finished = {}
      /\ optimizing' = TRUE
      /\ \E heads \in SUBSET DOMAIN s :
           /\ 1 \in heads
           /\ chain' = [chain EXCEPT
                !.block = [i \in Insn |->
                  IF Contains(s, i)
                  THEN BlockStart(s, heads, CHOOSE k \in DOMAIN s : s[k] = i)
                  ELSE Nil],
                !.end = [h \in Insn |->
                  IF \E j \in heads : s[j] = h
                  THEN s[CHOOSE k \in DOMAIN s :
                           /\ BlockStart(s, heads, k) = h
                           /\ k + 1 \in heads \cup {Len(s) + 1}]
                  ELSE Nil]]
      /\ UNCHANGED <<made, finished>>

ChainNext ==
  \/ Emit \/ Start \/ Finish \/ FindBlocks
  \/ \E i \in Insn : EmitAfter(i) \/ EmitBefore(i) \/ DeleteInsn(i)
  \/ \E i \in Insn \cup {Nil} : DeleteSince(i)
  \/ \E f \in finished :
       \/ EmitFinished(f) \/ EmitAtTop(f) \/ PushTo(f)
       \/ \E i \in Insn : EmitFinishedBefore(f, i) \/ EmitFinishedAfter(f, i)
  \/ \E from, to, after \in Insn : Reorder(from, to, after)

ChainSpec == ChainInit /\ [][ChainNext]_chainVars

-----------------------------------------------------------------------------
(* Properties. *)

(* Links stay within the insns made; saved pairs are pairs of insns. *)
ChainTypeOK ==
  /\ chain \in ChainState
  /\ made \in 0 .. MaxInsns /\ finished \subseteq 1 .. made
  /\ optimizing \in BOOLEAN

(* The linked insns behave as sequences: no operation loses, duplicates or
   misplaces an insn of the current, of a saved or of a finished sequence. *)
Seqs == INSTANCE Insns WITH
          open <- Open, finished <- {From(chain, f) : f \in finished}

ChainIsSequences == Seqs!AbsSpec

(* PREV_INSN undoes NEXT_INSN along every sequence, and each pair of pointers,
   saved or current, delimits its sequence: walking back from the last insn
   gives what walking on from the first one gives. *)
Mirrored ==
  /\ \A k \in DOMAIN Open :
       LET s == Open[k]
       IN  /\ Lasts[k] = IF s = <<>> THEN Nil ELSE s[Len(s)]
           /\ \A j \in DOMAIN s :
                chain.prev[s[j]] = IF j = 1 THEN Nil ELSE s[j - 1]
  /\ \A f \in finished : chain.prev[f] = Nil

=============================================================================
