------------------------------- MODULE Pages -------------------------------
(***************************************************************************)
(* The code-page accounting of the i370 back end (i370/i370.c).            *)
(*                                                                         *)
(* A System/370 branch or literal reference reaches 4096 bytes from its    *)
(* base register, so the back end cuts a function into pages.  It keeps an *)
(* estimate of the code and of the literals on the current page            *)
(* (mvs_page_code, mvs_page_lit), starts a page when the next instruction  *)
(* may not fit (mvs_check_page), and decides, for each branch, between a   *)
(* near branch and a load-and-branch (i370_short_branch, mvs_check_label)  *)
(* and, for each label, whether the base register must be reloaded there   *)
(* (mvs_add_label, check_label_emit).  Those two decisions use addresses   *)
(* estimated beforehand from the "length" attribute of each instruction    *)
(* (shorten_branches, i370_label_scan).                                    *)
(*                                                                         *)
(* Control is in the page state `pg' and the label records `anchor';       *)
(* an instruction is a member of Kinds, known by what the code says of it  *)
(* (its length attribute; code and lit, which its template counts; print,  *)
(* the literals PRINT_OPERAND counts afterwards) and by what the assembler *)
(* makes of it (bytes, pool).  The insn chain of a function is chosen one  *)
(* item at a time while the label scan walks it, then emitted in order.    *)
(*                                                                         *)
(* An operator X_Something under the comment "Fault" is X with a plausible *)
(* bug; no definition uses it.  Each property is tested by putting one of  *)
(* these in the place of X.                                                *)
(***************************************************************************)
EXTENDS Integers, Sequences, FiniteSets

CONSTANTS
  Kinds,         \* ordinary instruction templates
  Attr,          \* [Kinds -> [length, code, lit, print, bytes, pool]]
  AddressKinds,  \* those that may take the address of a label
  Labels,        \* code labels of one function
  BranchOps,     \* which branch templates occur: subset of {"b","bct","addb"}
  MaxPage,       \* MAX_MVS_PAGE_LENGTH
  Conservative,  \* MVS_PAGE_CONSERVATIVE
  MaxItems,      \* bound: items of all functions together
  MaxFunctions   \* bound: functions of the compilation unit

ASSUME PagesAssumption ==
  /\ Attr \in [Kinds -> [length : Nat, code : Nat, lit : Nat,
                         print : Nat, bytes : Nat, pool : Nat]]
  /\ AddressKinds \subseteq Kinds
  /\ BranchOps \subseteq {"b", "bct", "addb"}
  /\ MaxPage \in Nat /\ Conservative \in Nat
  /\ 14 <= Conservative /\ Conservative <= MaxPage
  /\ MaxItems \in Nat /\ MaxFunctions \in Nat

(* Sizes the templates and macros write as literals. *)
ReloadSize   == 4     \* L 12,k(,10)
PrologueCode == 6     \* LR 11,1 and L 10,=A(@@PGTn)
PrologueLit  == 4
EpilogueCode == 14    \* PDPEPIL
PageBranch   == 4     \* B @@PGEn, at the end of a page; counted nowhere
Entry        == 4     \* DC A(@@Ln) of a case table

(* The length attribute of the branch patterns: B/Bcc and BCT, and
   add-and-branch (AL and BC). *)
BranchLength(op) == IF op = "addb" THEN 10 ELSE 6
TableJumpLength  == 10

VARIABLES
  phase,      \* "idle" between functions, "scan" i370_label_scan, "emit" final
  fns,        \* functions begun
  left,       \* items the bound MaxItems still allows
  body,       \* the insn chain with INSN_ADDRESSES
  addr,       \* address the next item of the chain gets
  pos,        \* index in body of the next item to emit
  anchor,     \* label_anchor: the label records, by label id
  base,       \* function_base_page
  pg,         \* the page counters, see PageState
  kase,       \* mvs_case_code
  defs,       \* history: where each label was emitted and how
  refs,       \* history: where each reference to a label was emitted
  loads,      \* history: the base reloads emitted
  table,      \* the page table of the function emitted last
  opened      \* history: pages for which @@PGn was emitted

chain == <<body, addr, left>>
hist  == <<defs, refs, loads, table, opened>>
vars  == <<phase, fns, left, body, addr, pos, anchor, base, pg, kase,
           defs, refs, loads, table, opened>>

-----------------------------------------------------------------------------
(* Page state: num, code and lit are mvs_page_num, mvs_page_code and
   mvs_page_lit; pending stands for mvs_need_base_reload, as the set of labels
   that incremented it.  The rest is history, reset or kept as named: total,
   the code and literal bytes counted since the function began; bytes and
   pool, what the assembler puts on the page for the base register to reach;
   widest, the largest span of a finished page; lost, the literals of pages
   that ended without an LTORG. *)
PageState == [num : Nat, code : Nat, lit : Nat, pending : SUBSET Labels,
              total : Nat, bytes : Nat, pool : Nat, widest : Nat,
              lost : Nat]

Larger(m, n) == IF m >= n THEN m ELSE n

(* Fault: one request is taken off the count instead of all. *)
CheckLabelEmit_One(p) ==
  IF p.pending = {} THEN p
  ELSE [p EXCEPT !.pending = @ \ {CHOOSE l \in @ : TRUE},
                 !.code = @ + ReloadSize, !.total = @ + ReloadSize,
                 !.bytes = @ + ReloadSize]

(* check_label_emit: L 12,(mvs_page_num - function_base_page)*4(,10). *)
CheckLabelEmit(p) ==
  IF p.pending = {} THEN p
  ELSE [p EXCEPT !.pending = {}, !.code = @ + ReloadSize,
                 !.total = @ + ReloadSize, !.bytes = @ + ReloadSize]

(* Fault: the index does not start at the function's first page. *)
Reloaded_NoBase(p) ==
  IF p.pending = {} THEN {} ELSE {[index |-> p.num, page |-> p.num]}

Reloaded(p) ==
  IF p.pending = {} THEN {}
  ELSE {[index |-> p.num - base, page |-> p.num]}

(* Fault: the literals already on the page are forgotten. *)
Overflows_NoPool(p, code, lit) == p.code + code + lit > MaxPage

(* mvs_check_page(file, code, lit), with mvs_case_code = case.  When it is not
   zero neither the branch to the next page nor the LTORG is written: the pool
   was dumped before the case table. *)
Overflows(p, code, lit) == p.code + code + p.lit + lit > MaxPage

(* Fault: the case table is taken off the new page. *)
CheckPageIn_NoTable(case, p, code, lit) ==
  IF Overflows(p, code, lit)
  THEN [p EXCEPT !.num = @ + 1, !.code = code - case, !.lit = lit]
  ELSE [p EXCEPT !.code = @ + code, !.lit = @ + lit,
                 !.total = @ + code + lit]

CheckPageIn(case, p, code, lit) ==
  IF Overflows(p, code, lit)
  THEN [p EXCEPT !.num = @ + 1, !.code = code, !.lit = lit,
                 !.total = @ + code + lit, !.bytes = 0, !.pool = 0,
                 !.lost = IF case = 0 THEN @ ELSE @ + p.pool,
                 !.widest = Larger(@, p.bytes + p.pool +
                                   (IF case = 0 THEN PageBranch ELSE 0))]
  ELSE [p EXCEPT !.code = @ + code, !.lit = @ + lit,
                 !.total = @ + code + lit]

CheckPage(p, code, lit) == CheckPageIn(kase, p, code, lit)

(* PRINT_OPERAND and PRINT_OPERAND_ADDRESS count a literal operand when they
   print it, after the page check and whatever its result. *)
Printed(p, lit) == [p EXCEPT !.lit = @ + lit, !.total = @ + lit]

(* What the assembler lays down for a template that is already counted. *)
Place(p, bytes, pool) == [p EXCEPT !.bytes = @ + bytes, !.pool = @ + pool]

-----------------------------------------------------------------------------
(* Label records. *)
LabelNode == [page : Int, firstRef : Int, addr : Int, lastRef : Int]

NewNode == [page |-> -1, firstRef |-> -1, addr |-> -1, lastRef |-> -1]

(* mvs_get_label: the record on the list, or a fresh one. *)
Node(l) == IF l \in DOMAIN anchor THEN anchor[l] ELSE NewNode

PutNode(l, n) ==
  anchor' = [m \in DOMAIN anchor \cup {l} |-> IF m = l THEN n ELSE anchor[m]]

(* I370_RECORD_LABEL_REF (label_first_ref is written and never read). *)
RecordRef(l, at) ==
  PutNode(l, [Node(l) EXCEPT !.lastRef = Larger(@, at)])

-----------------------------------------------------------------------------
Init ==
  /\ phase = "idle" /\ fns = 0 /\ left = MaxItems
  /\ body = <<>> /\ addr = 0 /\ pos = 1
  /\ anchor = [l \in {} |-> NewNode]
  /\ base = 0
  /\ pg = [num |-> 0, code |-> 0, lit |-> 0, pending |-> {}, total |-> 0,
           bytes |-> 0, pool |-> 0, widest |-> 0, lost |-> 0]
  /\ kase = 0
  /\ defs = [l \in {} |-> 0] /\ refs = {} /\ loads = {}
  /\ table = <<>> /\ opened = {}

(* Fault: page numbers start again with each function. *)
PrologueState_Restart ==
  CheckPage([pg EXCEPT !.num = 0, !.code = PrologueCode, !.lit = PrologueLit],
            0, 0)

(* i370_output_function_prologue up to its call of i370_label_scan. *)
PrologueState ==
  CheckPage([pg EXCEPT !.code = PrologueCode, !.lit = PrologueLit,
                       !.total = PrologueCode + PrologueLit,
                       !.bytes = PrologueCode, !.pool = PrologueLit,
                       !.widest = 0, !.lost = 0],
            0, 0)

Prologue ==
  /\ phase = "idle" /\ fns < MaxFunctions
  /\ phase' = "scan" /\ fns' = fns + 1
  /\ body' = <<>> /\ addr' = 0 /\ pos' = 1
  /\ anchor' = [l \in {} |-> NewNode]
  /\ pg' = PrologueState
  /\ base' = pg'.num
  /\ defs' = [l \in {} |-> 0] /\ refs' = {} /\ loads' = {}
  /\ opened' = opened \cup {pg.num}
  /\ UNCHANGED <<left, kase, table>>

(* i370_label_scan, one item of get_insns() per step.  `addr' is the address
   shorten_branches gives the item plus tablejump_offset. *)
Scanning == phase = "scan" /\ left > 0

Append1(item, size) ==
  /\ left' = left - 1
  /\ body' = Append(body, item)
  /\ addr' = addr + size
  /\ UNCHANGED <<phase, fns, pos, base, pg, kase, hist>>

Last == IF body = <<>> THEN "none" ELSE body[Len(body)].op

ScanInsn(k) ==
  /\ Scanning /\ Last # "tablejump"
  /\ Append1([op |-> "insn", kind |-> k, addr |-> addr], Attr[k].length)
  /\ UNCHANGED anchor

(* The same for an insn with a REG_LABEL note. *)
ScanAddress(k, l) ==
  /\ Scanning /\ Last # "tablejump"
  /\ Append1([op |-> "insn", kind |-> k, addr |-> addr], Attr[k].length)
  /\ RecordRef(l, addr)

ScanLabel(l) ==
  /\ Scanning /\ Last # "tablejump"
  /\ Node(l).addr = -1
  /\ Append1([op |-> "label", label |-> l, addr |-> addr], 0)
  /\ PutNode(l, [Node(l) EXCEPT !.addr = addr])

ScanBranch(op, l) ==
  /\ Scanning /\ Last # "tablejump"
  /\ Append1([op |-> op, label |-> l, addr |-> addr], BranchLength(op))
  /\ RecordRef(l, addr)

(* A tablejump with its case label, then the ADDR_VEC behind it, entry by
   entry (i370_label_scan_jump_nolabel).  Entry j of a vector at a is recorded
   at a + 4j.  What follows the vector is moved on twice: by the length that
   shorten_branches gives the vector, and by tablejump_offset. *)
ScanTableJump ==
  /\ Scanning /\ Last # "tablejump"
  /\ Append1([op |-> "tablejump", addr |-> addr], TableJumpLength)
  /\ UNCHANGED anchor

EntryAddr == (IF Last = "entry" THEN body[Len(body)].addr ELSE addr) + Entry

ScanEntry(l) ==
  /\ Scanning /\ Last \in {"tablejump", "entry"}
  /\ Append1([op |-> "entry", label |-> l, addr |-> EntryAddr], 2 * Entry)
  /\ RecordRef(l, EntryAddr)

(* Every label a jump names is a CODE_LABEL of this function, and every
   tablejump has a vector: what is missing fits in the items left. *)
Undefined(a) == {l \in DOMAIN a : a[l].addr = -1}

Closable ==
  Cardinality(Undefined(anchor')) + (IF Last' = "tablejump" THEN 2 ELSE 0)
    <= left'

ScanEnd ==
  /\ phase = "scan" /\ Last # "tablejump"
  /\ Undefined(anchor) = {}
  /\ phase' = "emit"
  /\ UNCHANGED <<chain, fns, pos, anchor, base, pg, kase, hist>>

-----------------------------------------------------------------------------
(* final(): one action per kind of item; every template calls
   check_label_emit and then mvs_check_page. *)
Item == body[pos]

Emitting(op) == phase = "emit" /\ pos <= Len(body) /\ Item.op = op

Advance == pos' = pos + 1 /\ UNCHANGED <<phase, fns, chain, base, table>>

(* Bookkeeping of the pages opened while pg goes from one state to p. *)
Opens(p) ==
  /\ pg' = p
  /\ loads' = loads \cup Reloaded(pg)
  /\ opened' = opened \cup (pg.num .. p.num)

(* Fault: a template without check_label_emit. *)
EmitInsn_NoReload ==
  /\ Emitting("insn")
  /\ LET a == Attr[Item.kind]
         c == CheckPage(pg, a.code, a.lit)
     IN  Opens(Place(Printed(c, a.print), a.bytes, a.pool))
  /\ Advance
  /\ UNCHANGED <<anchor, kase, defs, refs>>

EmitInsn ==
  /\ Emitting("insn")
  /\ LET a == Attr[Item.kind]
         c == CheckPage(CheckLabelEmit(pg), a.code, a.lit)
     IN  Opens(Place(Printed(c, a.print), a.bytes, a.pool))
  /\ Advance
  /\ UNCHANGED <<anchor, kase, defs, refs>>

(* Fault: only references already emitted count. *)
NeedsReload_SeenOnly(n) ==
  pg.num # base \/ (n.firstRef # -1 /\ n.firstRef # pg.num)

(* mvs_add_label: must the base register be reloaded at this label? *)
NeedsReload(n) ==
  \/ pg.num # base
  \/ n.firstRef # -1 /\ n.firstRef # pg.num
  \/ /\ n.lastRef >= n.addr
     /\ pg.code + 2 * (n.lastRef - n.addr) + pg.lit >= Conservative

EmitLabel ==
  /\ Emitting("label")
  /\ LET l == Item.label
         n == Node(l)
     IN  /\ PutNode(l, [n EXCEPT !.page = pg.num])
         /\ pg' = IF NeedsReload(n) THEN [pg EXCEPT !.pending = @ \cup {l}]
                                    ELSE pg
         /\ defs' = [m \in DOMAIN defs \cup {l} |->
                       IF m = l
                       THEN [page |-> pg.num, reload |-> NeedsReload(n),
                             addr |-> Item.addr, total |-> pg.total]
                       ELSE defs[m]]
  /\ Advance
  /\ UNCHANGED <<kase, refs, loads, opened>>

(* Fault: the code between branch and label is not counted. *)
ShortBranch_HereOnly(n, p) == n.page \in {-1, p.num} /\ p.code < Conservative

(* i370_short_branch for the branch `Item' to a label with record n, in page
   state p.  just_referenced_page is n.page, i370_branch_length is there-here. *)
ShortBranch(n, p) ==
  LET distance == n.addr - Item.addr
      target   == IF distance < 0 THEN distance + p.code
                                  ELSE 2 * distance + p.code + p.lit
  IN  /\ n.page \in {-1, p.num}
      /\ 0 < target /\ target < Conservative

(* mvs_check_label. *)
OnPage(n, p) == n.page = p.num

(* The record of one emitted reference: p is the page state in which the jump
   is executed; total, the bytes counted in the function when the jump was
   first accounted for (state c). *)
Reference(l, at, p, c, near) ==
  [label |-> l, addr |-> at, page |-> p.num, near |-> near,
   total |-> c.total]

(* output_104 .. output_113 and output_126: near when the estimate or the label
   record says so, otherwise L 14,=A(label) and BcR 14.  i370_branch_dest
   records the page of the first reference as a side effect.  (output_114 ..
   output_123, the same with the arms of the condition exchanged, are not
   generated for this target.) *)
EmitBranch ==
  /\ Emitting("b")
  /\ LET l    == Item.label
         n    == Node(l)
         c    == CheckPage(CheckLabelEmit(pg), 4, 0)
         near == ShortBranch(n, c) \/ OnPage(n, c)
         p    == IF near THEN c ELSE CheckPage(c, 2, 4)
     IN  /\ PutNode(l, IF n.firstRef = -1 THEN [n EXCEPT !.firstRef = c.num]
                                          ELSE n)
         /\ Opens(IF near THEN Place(p, 4, 0) ELSE Place(p, 6, 4))
         /\ refs' = refs \cup {Reference(l, Item.addr, p, c, near)}
  /\ Advance
  /\ UNCHANGED <<kase, defs>>

(* output_124 and output_125: BCT only to a label already on this page. *)
EmitBct ==
  /\ Emitting("bct")
  /\ LET l    == Item.label
         c    == CheckPage(CheckLabelEmit(pg), 4, 0)
         near == OnPage(Node(l), c)
         p    == IF near THEN c ELSE CheckPage(c, 2, 4)
     IN  /\ Opens(IF near THEN Place(p, 4, 0) ELSE Place(p, 6, 4))
         /\ refs' = refs \cup {Reference(l, Item.addr, p, c, near)}
  /\ Advance
  /\ UNCHANGED <<anchor, kase, defs>>

(* output_38 and output_46, by the form of the operand added: a register, a
   memory operand or a literal.  `onpage' is computed before the page check,
   whose result tells whether it still holds. *)
AddForms == {"reg", "mem", "lit"}
AddSize(form) == IF form = "reg" THEN 2 ELSE 4
AddLit(form)  == IF form = "lit" THEN 4 ELSE 0

EmitAddBranch(form) ==
  /\ Emitting("addb")
  /\ LET size   == AddSize(form)
         lit    == AddLit(form)
         e      == CheckLabelEmit(pg)
         onpage == OnPage(Node(Item.label), e)
         c      == IF onpage THEN CheckPage(e, size + 4, 0)
                             ELSE CheckPage(e, size + 6, 4)
         near   == onpage /\ c.num = e.num
         p      == IF onpage /\ ~near THEN CheckPage(c, 2, 4) ELSE c
     IN  /\ Opens(IF near
                  THEN Place(Printed(p, lit), size + 4, lit)
                  ELSE Place(Printed(p, lit), size + 6, lit + 4))
         /\ refs' = refs \cup {Reference(Item.label, Item.addr, p, c, near)}
  /\ Advance
  /\ UNCHANGED <<anchor, kase, defs>>

(* output_128 (register or memory operand), then ASM_OUTPUT_CASE_LABEL: it
   dumps the literal pool but leaves mvs_page_lit as it is. *)
EmitTableJump ==
  /\ Emitting("tablejump")
  /\ \E mem \in BOOLEAN :
       LET c == CheckPage(CheckLabelEmit(pg), IF mem THEN 10 ELSE 6, 0)
           d == Place(c, IF mem THEN 6 ELSE 2, 0)
       IN  Opens([d EXCEPT !.widest = Larger(@, d.bytes + d.pool),
                           !.bytes = @ + d.pool, !.pool = 0])
  /\ kase' = 0
  /\ Advance
  /\ UNCHANGED <<anchor, defs, refs>>

(* Fault: ASM_OUTPUT_CASE_END is left out unless the function ends there. *)
LastEntry_AtEnd == pos = Len(body)

(* ASM_OUTPUT_ADDR_VEC_ELT, and ASM_OUTPUT_CASE_END after the last entry.  The
   jump itself was executed on the page of the tablejump, still the current
   one.  The table is data of the page: its bytes precede later literals. *)
LastEntry == pos = Len(body) \/ body[pos + 1].op # "entry"

CaseEnd(p, code) ==
  LET q == CheckPageIn(code, [p EXCEPT !.code = @ + code,
                                       !.total = @ + code], 0, 0)
  IN  IF q.num = p.num THEN Place(q, code, 0) ELSE q

EmitEntry ==
  /\ Emitting("entry")
  /\ IF LastEntry
     THEN /\ Opens(CaseEnd(pg, kase + Entry))
          /\ kase' = 0
     ELSE /\ kase' = kase + Entry
          /\ UNCHANGED <<pg, loads, opened>>
  /\ refs' = refs \cup {Reference(Item.label, Item.addr, pg, pg, FALSE)}
  /\ Advance
  /\ UNCHANGED <<anchor, defs>>

(* i370_output_function_epilogue. *)
Epilogue ==
  /\ phase = "emit" /\ pos = Len(body) + 1
  /\ LET p == CheckPage(CheckLabelEmit(pg), EpilogueCode, 0)
         q == Place(p, EpilogueCode, 0)
     IN  /\ pg' = [q EXCEPT !.num = @ + 1,
                            !.widest = Larger(@, q.bytes + q.pool)]
         /\ loads' = loads \cup Reloaded(pg)
         /\ opened' = opened \cup (pg.num .. p.num)
         /\ table' = [i \in 1 .. (p.num + 1 - base) |-> base + i - 1]
  /\ phase' = "idle"
  /\ anchor' = [l \in {} |-> NewNode]
  /\ UNCHANGED <<chain, fns, pos, base, kase, defs, refs>>

(* End of the compilation unit. *)
Finished == phase = "idle" /\ fns = MaxFunctions /\ UNCHANGED vars

Scan ==
  \/ ScanEnd
  \/ /\ \/ \E k \in Kinds : ScanInsn(k)
        \/ \E k \in AddressKinds, l \in Labels : ScanAddress(k, l)
        \/ \E l \in Labels : ScanLabel(l) \/ ScanEntry(l)
        \/ \E l \in Labels, op \in BranchOps : ScanBranch(op, l)
        \/ ScanTableJump
     /\ Closable

Emit ==
  \/ EmitInsn \/ EmitLabel \/ EmitBranch \/ EmitBct
  \/ \E form \in AddForms : EmitAddBranch(form)
  \/ EmitTableJump \/ EmitEntry

Next == Prologue \/ Scan \/ Emit \/ Epilogue \/ Finished

(* The compiler is one sequential process: it takes every step it can. *)
Compiling == Prologue \/ ScanEnd \/ Emit \/ Epilogue

Spec     == Init /\ [][Next]_vars
FairSpec == Spec /\ WF_vars(Compiling)

-----------------------------------------------------------------------------
(* Properties. *)

InsnItem   == [op : {"insn"}, kind : Kinds, addr : Nat]
LabelItem  == [op : {"label", "entry"} \cup BranchOps, label : Labels,
               addr : Nat]
TableItem  == [op : {"tablejump"}, addr : Nat]
AnyItem    == InsnItem \cup LabelItem \cup TableItem

DefRecord == [page : Nat, reload : BOOLEAN, addr : Int, total : Nat]
RefRecord == [label : Labels, addr : Nat, page : Nat, near : BOOLEAN,
              total : Nat]

(* The types of the compiler's globals and of the histories: among others, the
   page counters never go negative, and label records exist for labels only. *)
TypeOK ==
  /\ phase \in {"idle", "scan", "emit"}
  /\ fns \in Nat /\ left \in Int /\ addr \in Nat /\ base \in Nat
  /\ kase \in Nat
  /\ body \in Seq(AnyItem) /\ pos \in 1 .. Len(body) + 1
  /\ anchor = [l \in DOMAIN anchor |-> anchor[l]]
  /\ DOMAIN anchor \subseteq Labels
  /\ \A l \in DOMAIN anchor : anchor[l] \in LabelNode
  /\ pg \in PageState
  /\ defs = [l \in DOMAIN defs |-> defs[l]]
  /\ DOMAIN defs \subseteq Labels
  /\ \A l \in DOMAIN defs : defs[l] \in DefRecord
  /\ refs \subseteq RefRecord
  /\ loads \subseteq [index : Int, page : Nat]
  /\ table \in Seq(Int)
  /\ opened \subseteq Nat

(* The jump r arrives at its label with the base of another page, and the label
   does not load its own. *)
Stale(r) ==
  /\ r.label \in DOMAIN defs
  /\ defs[r.label].page # r.page /\ ~defs[r.label].reload

(* Between label and jump the page grew by more than twice the distance that
   the length attributes promise, margin included. *)
Outgrown(r) ==
  r.total - defs[r.label].total >
    2 * (r.addr - defs[r.label].addr) + (MaxPage - Conservative)

(* mvs_add_label leaves a base reload out only when that is safe: a jump that
   reaches a label with the wrong base does so because the code between them
   outgrew its length attributes, never because of a label, page or case-table
   order the rules overlook. *)
BaseLoaded == \A r \in refs : Stale(r) => Outgrown(r)

(* What the comments of i370_branch_dest and mvs_add_label promise, the length
   attribute being "the largest possible code length" and the estimate "very
   conservatively handled": no jump arrives with a stale base register. *)
NoStaleBase == \A r \in refs : ~Stale(r)

(* A near branch reaches its label: backward ones stay on their page; a
   forward one ends on another page only if the code outgrew its estimate. *)
NearReach ==
  \A r \in refs :
    r.near /\ r.label \in DOMAIN defs /\ defs[r.label].page # r.page =>
      /\ defs[r.label].addr >= r.addr
      /\ defs[r.label].total - r.total >
           2 * (defs[r.label].addr - r.addr) + (MaxPage - Conservative)

(* Everything on a finished page lies within the counted maximum, the literals
   of the last operand printed, a base reload, the part of a branch counted on
   the previous page, and the branch to the next page: with 4068 that leaves 8
   bytes of 4096 for alignment. *)
PageSpan == pg.widest <= MaxPage + 8 + ReloadSize + 4 + PageBranch

(* No page ends with literals that no LTORG placed on it (mvs_case_code is only
   set where the pool has just been dumped). *)
NoLostLiterals == pg.lost = 0

(* A reload that labels asked for loads the page those labels are on: no page
   is started between a label and its check_label_emit. *)
ReloadOnLabelPage ==
  \A l \in pg.pending : l \in DOMAIN defs /\ defs[l].page = pg.num

(* Every base reload finds its page at its index of the page table that the
   epilogue writes, and the table names only pages that were started. *)
TableIndex ==
  phase = "idle" /\ fns > 0 =>
    /\ \A r \in loads : r.index + 1 \in DOMAIN table /\
                        table[r.index + 1] = r.page
    /\ \A i \in DOMAIN table : table[i] \in opened

(* No page number, hence no @@PGn or @@PGTn symbol, is used for two pages,
   whether a function or a full page starts the new one. *)
FreshPages ==
  [][\/ phase = "idle" /\ phase' = "scan"
     \/ phase = "emit" /\ phase' = "emit" /\ pg'.num # pg.num
     => pg'.num \notin opened]_vars

(* A base reload that a label asks for is always emitted, at the latest by the
   epilogue. *)
ReloadsHappen == pg.pending # {} ~> pg.pending = {}
=============================================================================
