-------------------------------- MODULE Insns --------------------------------
(***************************************************************************)
(* What the insn chain of a function promises (gcc/emit-rtl.c): the insns  *)
(* of the function and of each sequence that is being generated are a      *)
(* finite sequence.  An operation inserts an insn or a finished sequence   *)
(* in one piece, moves one piece, or removes what it is asked to remove;   *)
(* everything else stays where it is.                                      *)
(*                                                                         *)
(* InsnChain implements this with links between the insns, a pair of       *)
(* pointers for the current sequence and a stack of such pairs.            *)
(***************************************************************************)
EXTENDS Naturals, Sequences, SequencesExt

CONSTANTS MaxInsns, MaxDepth

VARIABLES
  made,     \* insns made so far; insns are 1, 2, 3, ...
  open,     \* the sequences being generated, the current one first; the last
            \* one is the insn chain of the function
  finished  \* sequences that ended and are held by whoever generated them

absVars == <<made, open, finished>>

AbsInit == made = 0 /\ open = <<<<>>>> /\ finished = {}

(* t put into s behind position k. *)
Spliced(s, k, t) == SubSeq(s, 1, k) \o t \o SubSeq(s, k + 1, Len(s))

Without(s, a, b) == SubSeq(s, 1, a - 1) \o SubSeq(s, b + 1, Len(s))

InsertNew ==
  /\ made < MaxInsns /\ made' = made + 1
  /\ \E d \in DOMAIN open : \E k \in 0 .. Len(open[d]) :
       open' = [open EXCEPT ![d] = Spliced(@, k, <<made + 1>>)]
  /\ UNCHANGED finished

InsertFinished ==
  /\ \E t \in finished :
       /\ finished' = finished \ {t}
       /\ \E d \in DOMAIN open : \E k \in 0 .. Len(open[d]) :
            open' = [open EXCEPT ![d] = Spliced(@, k, t)]
  /\ UNCHANGED made

Delete ==
  /\ \E d \in DOMAIN open : \E k \in DOMAIN open[d] :
       open' = [open EXCEPT ![d] = RemoveAt(@, k)]
  /\ UNCHANGED <<made, finished>>

Truncate ==
  /\ \E k \in 0 .. Len(open[1]) : open' = [open EXCEPT ![1] = SubSeq(@, 1, k)]
  /\ UNCHANGED <<made, finished>>

Move ==
  /\ \E a, b \in DOMAIN open[1] :
       /\ a <= b
       /\ LET rest == Without(open[1], a, b)
          IN  \E k \in 1 .. Len(rest) :
                open' = [open EXCEPT ![1] = Spliced(rest, k, SubSeq(@, a, b))]
  /\ UNCHANGED <<made, finished>>

Begin ==
  /\ Len(open) < MaxDepth
  /\ open' = <<<<>>>> \o open
  /\ UNCHANGED <<made, finished>>

Resume ==
  /\ Len(open) < MaxDepth
  /\ \E t \in finished : finished' = finished \ {t} /\ open' = <<t>> \o open
  /\ UNCHANGED made

End ==
  /\ Len(open) > 1
  /\ open' = Tail(open)
  /\ finished' \in {finished, finished \cup ({open[1]} \ {<<>>})}
  /\ UNCHANGED made

AbsNext ==
  InsertNew \/ InsertFinished \/ Delete \/ Truncate \/ Move \/ Begin
    \/ Resume \/ End

AbsSpec == AbsInit /\ [][AbsNext]_absVars
=============================================================================
