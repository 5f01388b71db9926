------------------------------ MODULE Collector ------------------------------
(***************************************************************************)
(* The garbage collector (gcc/ggc-page.c): pages of objects of one size,   *)
(* contexts, mark and sweep.                                               *)
(*                                                                         *)
(* The pages of a size are a linked list with a tail pointer.  Allocation  *)
(* looks at its head only, so the pages with room must come first, and     *)
(* those of the current context before the others, whose objects are never *)
(* freed.  While a collection marks, in_use_p of a page of an outer        *)
(* context holds marks and save_in_use_p what is in use.                   *)
(*                                                                         *)
(* The record `heap' is the list of one size; the operators take such a    *)
(* record and return the one the C function leaves.  The cache of free     *)
(* pages and their groups are left out: a page in no list may be any free  *)
(* one.  next_bit_hint only picks one of the free objects of a page.       *)
(* What marking starts from and walks through is left out too: `live' is   *)
(* the set of objects it arrives at.                                       *)
(***************************************************************************)
EXTENDS Naturals, Sequences, FiniteSets, SequencesExt

CONSTANTS
  MaxPages,     \* bound: pages
  PerPage,      \* OBJECTS_PER_PAGE
  MaxContext    \* bound: context depth

NoPage  == 0
Page    == 1 .. MaxPages
Place   == 0 .. PerPage - 1
Object  == Page \X Place
NoSave  == {PerPage}         \* save_in_use_p is NULL

VARIABLES
  heap,           \* see HeapState
  context_depth,
  live,           \* the objects in reach of the registered roots
  outer           \* history: the objects needed when each context was pushed

heapVars == <<heap, context_depth, live, outer>>

(* struct page_entry and G.pages, G.page_tails; used is in_use_p. *)
HeapState ==
  [head : Page \cup {NoPage}, tail : Page \cup {NoPage},
   next : [Page -> Page \cup {NoPage}],
   used : [Page -> SUBSET Place], saved : [Page -> SUBSET Place \cup {NoSave}],
   free : [Page -> 0 .. PerPage], depth : [Page -> 0 .. MaxContext]]

-----------------------------------------------------------------------------
(* The pages from p on, as the loops over p->next meet them. *)
ListFrom(h, p) ==
  LET walk[n \in 0 .. MaxPages, q \in Page \cup {NoPage}] ==
        IF n = 0 \/ q = NoPage THEN <<>> ELSE <<q>> \o walk[n - 1, h.next[q]]
  IN  walk[MaxPages, p]

Listed(h)  == ToSet(ListFrom(h, h.head))
InUse(h)   == {o \in Object : o[1] \in Listed(h) /\ o[2] \in h.used[o[1]]}

SetNextOf(h, p, q) ==
  IF p = NoPage THEN [h EXCEPT !.head = q] ELSE [h EXCEPT !.next[p] = q]

(* A page is appended behind the tail. *)
ToTail(h, p) ==
  [[h EXCEPT !.next[p] = NoPage] EXCEPT !.next[h.tail] = p, !.tail = p]

-----------------------------------------------------------------------------
(* ggc_alloc and alloc_page: place i of page p, at the head of the list. *)
OnNewPage(h, p) ==
  [h EXCEPT !.head = p, !.tail = IF h.head = NoPage THEN p ELSE @,
            !.next[p] = h.head, !.used[p] = {0}, !.saved[p] = NoSave,
            !.free[p] = PerPage - 1, !.depth[p] = context_depth]

OnHead(h, i) ==
  [h EXCEPT !.used[h.head] = @ \cup {i}, !.free[h.head] = @ - 1]

(* Fault: a page that fills up stays at the head. *)
IfFull_Stay(h) == h

(* "If this page fills up, we may have to move it to the end of the list." *)
IfFull(h) ==
  LET p == h.head
      n == h.next[p]
  IN  IF h.free[p] = 0 /\ n # NoPage /\ h.free[n] > 0
      THEN ToTail([h EXCEPT !.head = n], p)
      ELSE h

(* clear_marks, and the marks that ggc_mark_roots sets on the objects os. *)
Marked(h, os) ==
  LET l == Listed(h)
      on(p) == {i \in Place : <<p, i>> \in os}
  IN  [h EXCEPT
         !.saved = [p \in Page |-> IF p \in l /\ h.depth[p] < context_depth
                                   THEN h.used[p] ELSE h.saved[p]],
         !.used  = [p \in Page |-> IF p \in l THEN on(p) ELSE h.used[p]],
         !.free  = [p \in Page |-> IF p \in l THEN PerPage - Cardinality(on(p))
                                   ELSE h.free[p]]]

(* ggc_recalculate_in_use_p *)
Recalculated(h, p) ==
  LET u == h.used[p] \cup h.saved[p]
  IN  [h EXCEPT !.used[p] = u, !.free[p] = PerPage - Cardinality(u)]

(* free_page; alloc_page clears the entry when it takes it again. *)
Dropped(h, p) ==
  [h EXCEPT !.next[p] = NoPage, !.used[p] = {}, !.saved[p] = NoSave,
            !.free[p] = 0, !.depth[p] = 0]

(* Fault: the tail pointer stays at a page moved to the head. *)
SweepPage_KeepTail(s, p) ==
  LET h  == s.h
      n  == h.next[p]
      v  == s.previous
      stay == [h |-> h, previous |-> p]
  IN  CASE h.depth[p] < context_depth -> stay
        [] h.depth[p] >= context_depth /\ h.free[p] = PerPage ->
             [s EXCEPT !.h = Dropped([SetNextOf(h, v, n) EXCEPT
                                        !.tail = IF @ = p THEN v ELSE @], p)]
        [] h.depth[p] >= context_depth /\ h.free[p] = 0 ->
             IF p = h.tail THEN stay
             ELSE [s EXCEPT !.h = SetNextOf(ToTail(h, p), v, n)]
        [] OTHER ->
             IF p = h.head THEN stay
             ELSE [s EXCEPT !.h = [[h EXCEPT !.next[v] = n] EXCEPT
                                     !.next[p] = h.head, !.head = p]]

(* One turn of the loop of sweep_pages: a page is dropped if it is empty,
   moved to the end if it is full and to the head if it is not; `previous' is
   the one before it in the list. *)
SweepPage(s, p) ==
  LET h  == s.h
      n  == h.next[p]
      v  == s.previous
      stay == [h |-> h, previous |-> p]
  IN  CASE h.depth[p] < context_depth -> stay
        [] h.depth[p] >= context_depth /\ h.free[p] = PerPage ->
             [s EXCEPT !.h = Dropped([SetNextOf(h, v, n) EXCEPT
                                        !.tail = IF @ = p THEN v ELSE @], p)]
        [] h.depth[p] >= context_depth /\ h.free[p] = 0 ->
             IF p = h.tail THEN stay
             ELSE [s EXCEPT !.h = SetNextOf(ToTail(h, p), v, n)]
        [] OTHER ->
             IF p = h.head THEN stay
             ELSE [s EXCEPT !.h = [[h EXCEPT !.next[v] = n] EXCEPT
                                     !.next[p] = h.head, !.head = p,
                                     !.tail = IF @ = p THEN v ELSE @]]

(* Fault: the pages of outer contexts are left with the marks. *)
Swept_NoRestore(h) ==
  FoldLeft(SweepPage, [h |-> h, previous |-> NoPage], ListFrom(h, h.head)).h

(* sweep_pages; at the end the pages of outer contexts are as before. *)
Swept(h) ==
  LET all == FoldLeft(SweepPage, [h |-> h, previous |-> NoPage],
                      ListFrom(h, h.head)).h
  IN  FoldLeft(LAMBDA g, p : IF g.depth[p] # context_depth
                             THEN Recalculated(g, p) ELSE g,
               all, ListFrom(all, all.head))

-----------------------------------------------------------------------------
HeapInit ==
  /\ heap = [head |-> NoPage, tail |-> NoPage,
             next  |-> [p \in Page |-> NoPage], used |-> [p \in Page |-> {}],
             saved |-> [p \in Page |-> NoSave], free |-> [p \in Page |-> 0],
             depth |-> [p \in Page |-> 0]]
  /\ context_depth = 0
  /\ live = {} /\ outer = <<>>

Put(o) == live' = live \cup {o} /\ UNCHANGED <<context_depth, outer>>

GgcAlloc ==
  LET h == heap
  IN  IF h.head = NoPage \/ h.free[h.head] = 0
      THEN LET spare == Page \ Listed(h)
               p     == CHOOSE q \in spare : \A r \in spare : q <= r
           IN  /\ spare # {}
               /\ heap' = IfFull(OnNewPage(h, p))
               /\ Put(<<p, 0>>)
      ELSE \E i \in Place \ h.used[h.head] :
             /\ heap' = IfFull(OnHead(h, i))
             /\ Put(<<h.head, i>>)

(* The last reference to an object in reach is overwritten. *)
Forget(o) ==
  /\ live' = live \ {o}
  /\ UNCHANGED <<heap, context_depth, outer>>

(* The caller goes on in a new context.  What it needs afterwards need not be
   in reach of the roots until then. *)
GgcPushContext ==
  /\ context_depth < MaxContext
  /\ context_depth' = context_depth + 1
  /\ outer' = <<live>> \o outer
  /\ UNCHANGED <<heap, live>>

(* The pages of the context are lowered to the one below, and pages of that
   one get back what was saved. *)
GgcPopContext ==
  LET d == context_depth - 1
      restored(h, p) ==
        IF h.depth[p] > d THEN [h EXCEPT !.depth[p] = d]
        ELSE IF h.depth[p] = d /\ h.saved[p] # NoSave
        THEN [Recalculated(h, p) EXCEPT !.saved[p] = NoSave]
        ELSE h
  IN  /\ context_depth > 0
      /\ context_depth' = d
      /\ heap' = FoldLeft(restored, heap, ListFrom(heap, heap.head))
      /\ live' = live \cup Head(outer) /\ outer' = Tail(outer)

(* Objects in reach are marked, the others are swept. *)
GgcCollect ==
  /\ heap' = Swept(Marked(heap, live))
  /\ UNCHANGED <<context_depth, live, outer>>

HeapNext ==
  \/ GgcAlloc
  \/ \E o \in live : Forget(o)
  \/ GgcPushContext \/ GgcPopContext \/ GgcCollect

HeapSpec == HeapInit /\ [][HeapNext]_heapVars

-----------------------------------------------------------------------------
(* Nothing the program may still use is freed: what is in reach, and what the
   code of an outer context needs. *)
NothingLost ==
  /\ live \subseteq InUse(heap)
  /\ \A k \in DOMAIN outer : outer[k] \subseteq InUse(heap)

(* The list of pages is whole, the tail pointer at its end, and ordered:
   "All non-full pages precede all full pages, with non-full pages arranged in
   order of decreasing context depth".  Allocation looks at the first page only:
   so no room is overlooked, and none of an outer context is taken while there
   is room of the current one. *)
RoomFirst ==
  LET l == ListFrom(heap, heap.head)
  IN  /\ IsInjective(l)
      /\ heap.tail = IF l = <<>> THEN NoPage ELSE l[Len(l)]
      /\ l # <<>> => heap.next[heap.tail] = NoPage
      /\ \A j, k \in DOMAIN l :
           /\ heap.free[l[k]] = PerPage - Cardinality(heap.used[l[k]])
           /\ j < k /\ heap.free[l[k]] > 0 =>
                heap.free[l[j]] > 0 /\ heap.depth[l[j]] >= heap.depth[l[k]]
=============================================================================
