---------------------------- MODULE PagesProofs ----------------------------
(* Proofs about Pages, for every set of instruction kinds, every page size and
   every chain of insns.  TypeOK comes first; then a set of invariants about
   the page counters, the addresses of the chain and the label records, from
   which the safety of the base register follows. *)
EXTENDS Pages, TLAPS

-----------------------------------------------------------------------------
(* The operators on page states return page states. *)

LEMMA SetField ==
  ASSUME NEW p \in PageState, NEW x \in Nat
  PROVE  /\ [p EXCEPT !.num = x] \in PageState
         /\ [p EXCEPT !.code = x] \in PageState
         /\ [p EXCEPT !.lit = x] \in PageState
         /\ [p EXCEPT !.total = x] \in PageState
         /\ [p EXCEPT !.bytes = x] \in PageState
         /\ [p EXCEPT !.pool = x] \in PageState
         /\ [p EXCEPT !.widest = x] \in PageState
         /\ [p EXCEPT !.lost = x] \in PageState
<1>1. [p EXCEPT !.num = x] \in PageState
  BY DEF PageState
<1>2. [p EXCEPT !.code = x] \in PageState
  BY DEF PageState
<1>3. [p EXCEPT !.lit = x] \in PageState
  BY DEF PageState
<1>4. [p EXCEPT !.total = x] \in PageState
  BY DEF PageState
<1>5. [p EXCEPT !.bytes = x] \in PageState
  BY DEF PageState
<1>6. [p EXCEPT !.pool = x] \in PageState
  BY DEF PageState
<1>7. [p EXCEPT !.widest = x] \in PageState
  BY DEF PageState
<1>8. [p EXCEPT !.lost = x] \in PageState
  BY DEF PageState
<1>. QED
  BY <1>1, <1>2, <1>3, <1>4, <1>5, <1>6, <1>7, <1>8

LEMMA SetPending ==
  ASSUME NEW p \in PageState, NEW S \in SUBSET Labels
  PROVE  [p EXCEPT !.pending = S] \in PageState
BY DEF PageState

LEMMA LargerNat ==
  ASSUME NEW m \in Nat, NEW n \in Nat
  PROVE  Larger(m, n) \in Nat /\ Larger(m, n) >= m /\ Larger(m, n) >= n
BY DEF Larger

LEMMA Fields ==
  ASSUME NEW p \in PageState
  PROVE  /\ p.num \in Nat /\ p.code \in Nat /\ p.lit \in Nat
         /\ p.pending \in SUBSET Labels
         /\ p.total \in Nat /\ p.bytes \in Nat /\ p.pool \in Nat
         /\ p.widest \in Nat /\ p.lost \in Nat
BY DEF PageState

LEMMA CheckLabelEmitType ==
  ASSUME NEW p \in PageState
  PROVE  CheckLabelEmit(p) \in PageState
<1>1. /\ p.code + 4 \in Nat /\ p.total + 4 \in Nat
      /\ p.bytes + 4 \in Nat
      /\ {} \in SUBSET Labels
  BY Fields
<1>. QED
  BY <1>1, SetField, SetPending, Zenon DEF CheckLabelEmit, ReloadSize

LEMMA CheckPageInType ==
  ASSUME NEW p \in PageState, NEW code \in Nat, NEW lit \in Nat,
         NEW case \in Nat
  PROVE  CheckPageIn(case, p, code, lit) \in PageState
<1>1. /\ p.num + 1 \in Nat /\ p.code + code \in Nat /\ p.lit + lit \in Nat
      /\ p.total + code + lit \in Nat /\ p.lost + p.pool \in Nat
      /\ 0 \in Nat /\ p.lost \in Nat
  BY Fields
<1>2. (IF case = 0 THEN p.lost ELSE p.lost + p.pool) \in Nat
  BY <1>1
<1>3. Larger(p.widest, p.bytes + p.pool + (IF case = 0 THEN PageBranch ELSE 0))
        \in Nat
  BY Fields DEF PageBranch, Larger
<1>4. CASE Overflows(p, code, lit)
  BY <1>1, <1>2, <1>3, <1>4, SetField, Zenon DEF CheckPageIn
<1>5. CASE ~Overflows(p, code, lit)
  BY <1>1, <1>5, SetField, Zenon DEF CheckPageIn
<1>. QED
  BY <1>4, <1>5

LEMMA PlaceType ==
  ASSUME NEW p \in PageState, NEW bytes \in Nat, NEW pool \in Nat
  PROVE  Place(p, bytes, pool) \in PageState
<1>1. p.bytes + bytes \in Nat /\ p.pool + pool \in Nat
  BY Fields
<1>. QED
  BY <1>1, SetField, Zenon DEF Place

LEMMA PrintedType ==
  ASSUME NEW p \in PageState, NEW lit \in Nat
  PROVE  Printed(p, lit) \in PageState
<1>. p.lit + lit \in Nat /\ p.total + lit \in Nat
  BY Fields
<1>. QED
  BY SetField, Zenon DEF Printed

(* The fields each operator changes, in a form the later proofs cite. *)
LEMMA CheckLabelEmitFields ==
  ASSUME NEW p \in PageState
  PROVE  /\ CheckLabelEmit(p).num = p.num
         /\ CheckLabelEmit(p).lit = p.lit
         /\ CheckLabelEmit(p).pool = p.pool
         /\ CheckLabelEmit(p).widest = p.widest
         /\ CheckLabelEmit(p).lost = p.lost
         /\ CheckLabelEmit(p).pending = {}
         /\ \E d \in {0, 4} : /\ CheckLabelEmit(p).code = p.code + d
                              /\ CheckLabelEmit(p).total = p.total + d
                              /\ CheckLabelEmit(p).bytes = p.bytes + d
         /\ p.pending = {} => CheckLabelEmit(p) = p
<1>1. CASE p.pending = {}
  BY <1>1, Fields DEF CheckLabelEmit
<1>2. CASE p.pending # {}
  BY <1>2, Fields DEF CheckLabelEmit, ReloadSize, PageState
<1>. QED
  BY <1>1, <1>2

LEMMA CheckPageInFields ==
  ASSUME NEW p \in PageState, NEW code \in Nat, NEW lit \in Nat,
         NEW case \in Nat, NEW q, q = CheckPageIn(case, p, code, lit)
  PROVE  /\ q.total = p.total + code + lit
         /\ q.pending = p.pending
         /\ \/ /\ p.code + code + p.lit + lit > MaxPage
               /\ q.num = p.num + 1 /\ q.code = code /\ q.lit = lit
               /\ q.bytes = 0 /\ q.pool = 0
               /\ q.lost = IF case = 0 THEN p.lost ELSE p.lost + p.pool
               /\ q.widest = Larger(p.widest, p.bytes + p.pool +
                               (IF case = 0 THEN PageBranch ELSE 0))
            \/ /\ p.code + code + p.lit + lit <= MaxPage
               /\ q.num = p.num
               /\ q.code = p.code + code /\ q.lit = p.lit + lit
               /\ q.bytes = p.bytes /\ q.pool = p.pool
               /\ q.lost = p.lost /\ q.widest = p.widest
<1>. MaxPage \in Nat
  BY PagesAssumption
<1>1. CASE Overflows(p, code, lit)
  BY <1>1, Fields DEF CheckPageIn, PageState, Overflows
<1>2. CASE ~Overflows(p, code, lit)
  BY <1>2, Fields DEF CheckPageIn, PageState, Overflows
<1>. QED
  BY <1>1, <1>2

LEMMA PlaceFields ==
  ASSUME NEW p \in PageState, NEW bytes \in Nat, NEW pool \in Nat,
         NEW q, q = Place(p, bytes, pool)
  PROVE  /\ q.num = p.num /\ q.code = p.code /\ q.lit = p.lit
         /\ q.total = p.total /\ q.pending = p.pending
         /\ q.bytes = p.bytes + bytes /\ q.pool = p.pool + pool
         /\ q.lost = p.lost /\ q.widest = p.widest
BY Fields DEF Place, PageState

LEMMA PrintedFields ==
  ASSUME NEW p \in PageState, NEW lit \in Nat, NEW q, q = Printed(p, lit)
  PROVE  /\ q.num = p.num /\ q.code = p.code /\ q.lit = p.lit + lit
         /\ q.total = p.total + lit /\ q.pending = p.pending
         /\ q.bytes = p.bytes /\ q.pool = p.pool
         /\ q.lost = p.lost /\ q.widest = p.widest
BY Fields DEF Printed, PageState

-----------------------------------------------------------------------------
(* Type correctness. *)

AnchorType ==
  /\ anchor = [l \in DOMAIN anchor |-> anchor[l]]
  /\ DOMAIN anchor \subseteq Labels
  /\ \A l \in DOMAIN anchor : anchor[l] \in LabelNode

LEMMA NodeType ==
  ASSUME TypeOK, NEW l \in Labels
  PROVE  Node(l) \in LabelNode
BY DEF TypeOK, Node, NewNode, LabelNode

LEMMA PutNodeType ==
  ASSUME TypeOK, NEW l \in Labels, NEW n \in LabelNode, PutNode(l, n)
  PROVE  AnchorType' /\ DOMAIN anchor' = DOMAIN anchor \cup {l}
BY DEF TypeOK, PutNode, AnchorType

LEMMA NodeSet ==
  ASSUME NEW n \in LabelNode, NEW x \in Int
  PROVE  /\ [n EXCEPT !.page = x] \in LabelNode
         /\ [n EXCEPT !.firstRef = x] \in LabelNode
         /\ [n EXCEPT !.addr = x] \in LabelNode
         /\ [n EXCEPT !.lastRef = x] \in LabelNode
<1>1. [n EXCEPT !.page = x] \in LabelNode
  BY DEF LabelNode
<1>2. [n EXCEPT !.firstRef = x] \in LabelNode
  BY DEF LabelNode
<1>3. [n EXCEPT !.addr = x] \in LabelNode
  BY DEF LabelNode
<1>4. [n EXCEPT !.lastRef = x] \in LabelNode
  BY DEF LabelNode
<1>. QED
  BY <1>1, <1>2, <1>3, <1>4

LEMMA RecordRefType ==
  ASSUME TypeOK, NEW l \in Labels, NEW at \in Nat, RecordRef(l, at)
  PROVE  AnchorType' /\ DOMAIN anchor' = DOMAIN anchor \cup {l}
<1>1. Node(l) \in LabelNode
  BY NodeType
<1>2. Larger(Node(l).lastRef, at) \in Int
  BY <1>1 DEF Larger, LabelNode
<1>3. [Node(l) EXCEPT !.lastRef = Larger(Node(l).lastRef, at)] \in LabelNode
  BY <1>1, <1>2, NodeSet
<1>4. PutNode(l, [Node(l) EXCEPT !.lastRef = Larger(Node(l).lastRef, at)])
  BY DEF RecordRef
<1>. QED
  BY <1>3, <1>4, PutNodeType

(* The item to emit is one of its kind. *)
LEMMA ItemType ==
  ASSUME TypeOK, NEW op, Emitting(op)
  PROVE  /\ pos \in DOMAIN body /\ pos + 1 \in 1 .. Len(body) + 1
         /\ Item.addr \in Nat
         /\ op = "insn" => Item.kind \in Kinds
         /\ op \notin {"insn", "tablejump"} => Item.label \in Labels
<1>1. pos \in DOMAIN body /\ pos + 1 \in 1 .. Len(body) + 1
  BY DEF TypeOK, Emitting
<1>2. Item \in AnyItem /\ Item.op = op
  BY <1>1 DEF TypeOK, Emitting, Item
<1>3. BranchOps \subseteq {"b", "bct", "addb"}
  BY PagesAssumption
<1>4. CASE Item \in InsnItem
  BY <1>1, <1>2, <1>4 DEF InsnItem
<1>5. CASE Item \in LabelItem
  BY <1>1, <1>2, <1>3, <1>5 DEF LabelItem
<1>6. CASE Item \in TableItem
  BY <1>1, <1>2, <1>6 DEF TableItem
<1>. QED
  BY <1>2, <1>4, <1>5, <1>6 DEF AnyItem

LEMMA OpensType ==
  ASSUME TypeOK, NEW p \in PageState, Opens(p)
  PROVE  /\ pg' \in PageState
         /\ loads' \subseteq [index : Int, page : Nat]
         /\ opened' \subseteq Nat
<1>1. pg.num \in Nat /\ p.num \in Nat /\ base \in Nat
  BY Fields DEF TypeOK
<1>2. Reloaded(pg) \subseteq [index : Int, page : Nat]
  BY <1>1 DEF Reloaded
<1>3. pg.num .. p.num \subseteq Nat
  BY <1>1
<1>. QED
  BY <1>2, <1>3 DEF Opens, TypeOK

LEMMA ReferenceType ==
  ASSUME NEW l \in Labels, NEW at \in Nat, NEW p \in PageState,
         NEW c \in PageState, NEW near \in BOOLEAN
  PROVE  Reference(l, at, p, c, near) \in RefRecord
<1>1. /\ p.num \in Nat /\ c.total \in Nat /\ c.code + c.lit \in Nat
  BY Fields
<1>. QED
  BY <1>1 DEF Reference, RefRecord

(* A step of the label scan keeps the types when its item and the address that
   follows have theirs. *)
LEMMA Append1Type ==
  ASSUME TypeOK, NEW item \in AnyItem, NEW size \in Nat,
         Append1(item, size), Scanning, AnchorType'
  PROVE  TypeOK'
<1>1. body' \in Seq(AnyItem) /\ Len(body') = Len(body) + 1
  BY DEF TypeOK, Append1
<1>2. pos' \in 1 .. Len(body') + 1
  BY <1>1 DEF TypeOK, Append1, hist
<1>3. left' \in Int /\ addr' \in Nat
  BY DEF TypeOK, Append1
<1>. QED
  BY <1>1, <1>2, <1>3 DEF TypeOK, Append1, hist, AnchorType

LEMMA EntryAddrType ==
  ASSUME TypeOK
  PROVE  EntryAddr \in Nat
<1>1. addr \in Nat /\ Entry \in Nat /\ body \in Seq(AnyItem)
  BY DEF TypeOK, Entry
<1>2. CASE Last = "entry"
  <2>1. body # <<>>
    BY <1>2 DEF Last
  <2>2. Len(body) \in DOMAIN body /\ body[Len(body)] \in AnyItem
    BY <1>1, <2>1
  <2>3. body[Len(body)].addr \in Nat
    BY <2>2 DEF AnyItem, InsnItem, LabelItem, TableItem
  <2>. QED
    BY <1>1, <1>2, <2>3 DEF EntryAddr
<1>3. CASE Last # "entry"
  BY <1>1, <1>3 DEF EntryAddr
<1>. QED
  BY <1>2, <1>3

LEMMA ScanType ==
  ASSUME TypeOK, Scan
  PROVE  TypeOK'
<1>. USE PagesAssumption
<1>1. CASE ScanEnd
  BY <1>1 DEF ScanEnd, TypeOK, hist, chain
<1>2. ASSUME NEW k \in Kinds, ScanInsn(k)
      PROVE  TypeOK'
  <2>1. [op |-> "insn", kind |-> k, addr |-> addr] \in AnyItem
    BY DEF TypeOK, AnyItem, InsnItem
  <2>2. Attr[k].length \in Nat
    OBVIOUS
  <2>3. AnchorType'
    BY <1>2 DEF ScanInsn, TypeOK, AnchorType
  <2>. QED
    BY <1>2, <2>1, <2>2, <2>3, Append1Type DEF ScanInsn
<1>3. ASSUME NEW l \in Labels, ScanLabel(l)
      PROVE  TypeOK'
  <2>1. [op |-> "label", label |-> l, addr |-> addr] \in AnyItem
    BY DEF TypeOK, AnyItem, LabelItem
  <2>a. addr \in Int /\ Node(l) \in LabelNode
    BY NodeType DEF TypeOK
  <2>2. [Node(l) EXCEPT !.addr = addr] \in LabelNode
    BY <2>a, NodeSet
  <2>3. AnchorType'
    BY <1>3, <2>2, PutNodeType DEF ScanLabel
  <2>. QED
    BY <1>3, <2>1, <2>3, Append1Type DEF ScanLabel
<1>4. ASSUME NEW l \in Labels, ScanEntry(l)
      PROVE  TypeOK'
  <2>1. EntryAddr \in Nat /\ 2 * Entry \in Nat
    BY EntryAddrType DEF Entry
  <2>2. [op |-> "entry", label |-> l, addr |-> EntryAddr] \in AnyItem
    BY <2>1 DEF AnyItem, LabelItem
  <2>3. AnchorType'
    BY <1>4, <2>1, RecordRefType DEF ScanEntry
  <2>. QED
    BY <1>4, <2>1, <2>2, <2>3, Append1Type DEF ScanEntry
<1>5. ASSUME NEW l \in Labels, NEW op \in BranchOps, ScanBranch(op, l)
      PROVE  TypeOK'
  <2>1. [op |-> op, label |-> l, addr |-> addr] \in AnyItem
    BY DEF TypeOK, AnyItem, LabelItem
  <2>2. addr \in Nat /\ BranchLength(op) \in Nat
    BY DEF TypeOK, BranchLength
  <2>3. AnchorType'
    BY <1>5, <2>2, RecordRefType DEF ScanBranch
  <2>. QED
    BY <1>5, <2>1, <2>2, <2>3, Append1Type DEF ScanBranch
<1>6. CASE ScanTableJump
  <2>1. [op |-> "tablejump", addr |-> addr] \in AnyItem
    BY DEF TypeOK, AnyItem, TableItem
  <2>2. AnchorType' /\ TableJumpLength \in Nat
    BY <1>6 DEF ScanTableJump, TypeOK, AnchorType, TableJumpLength
  <2>. QED
    BY <1>6, <2>1, <2>2, Append1Type DEF ScanTableJump
<1>7. ASSUME NEW k \in AddressKinds, NEW l \in Labels, ScanAddress(k, l)
      PROVE  TypeOK'
  <2>1. [op |-> "insn", kind |-> k, addr |-> addr] \in AnyItem
    BY DEF TypeOK, AnyItem, InsnItem
  <2>2. Attr[k].length \in Nat /\ addr \in Nat
    BY DEF TypeOK
  <2>3. AnchorType'
    BY <1>7, <2>2, RecordRefType DEF ScanAddress
  <2>. QED
    BY <1>7, <2>1, <2>2, <2>3, Append1Type DEF ScanAddress
<1>. QED
  BY <1>1, <1>2, <1>3, <1>4, <1>5, <1>6, <1>7 DEF Scan

(* Advance and what an emission leaves alone. *)
LEMMA AdvanceType ==
  ASSUME TypeOK, NEW op, Emitting(op), Advance,
         AnchorType', pg' \in PageState, kase' \in Nat,
         defs' = [l \in DOMAIN defs' |-> defs'[l]],
         DOMAIN defs' \subseteq Labels,
         \A l \in DOMAIN defs' : defs'[l] \in DefRecord,
         refs' \subseteq RefRecord,
         loads' \subseteq [index : Int, page : Nat], opened' \subseteq Nat
  PROVE  TypeOK'
<1>1. pos' \in 1 .. Len(body') + 1
  BY ItemType DEF Advance, chain
<1>. QED
  BY <1>1 DEF TypeOK, Advance, chain, AnchorType

LEMMA CheckedType ==
  ASSUME TypeOK, NEW code \in Nat, NEW lit \in Nat
  PROVE  /\ CheckLabelEmit(pg) \in PageState
         /\ CheckPage(CheckLabelEmit(pg), code, lit) \in PageState
BY CheckLabelEmitType, CheckPageInType DEF TypeOK, CheckPage

LEMMA EmitInsnType ==
  ASSUME TypeOK, EmitInsn
  PROVE  TypeOK'
<1>. DEFINE a == Attr[Item.kind]
            c == CheckPage(CheckLabelEmit(pg), a.code, a.lit)
            p == Place(Printed(c, a.print), a.bytes, a.pool)
<1>1. Emitting("insn") /\ Opens(p) /\ Advance
      /\ UNCHANGED <<anchor, kase, defs, refs>>
  BY DEF EmitInsn
<1>2. /\ a.code \in Nat /\ a.lit \in Nat /\ a.print \in Nat
      /\ a.bytes \in Nat /\ a.pool \in Nat
  BY <1>1, ItemType, PagesAssumption
<1>3. p \in PageState
  <2>1. c \in PageState
    BY <1>2, CheckedType
  <2>. HIDE DEF c
  <2>. QED
    BY <1>2, <2>1, PrintedType, PlaceType
<1>. HIDE DEF p
<1>. QED
  BY <1>1, <1>3, OpensType, AdvanceType DEF TypeOK, AnchorType

LEMMA EmitLabelType ==
  ASSUME TypeOK, EmitLabel
  PROVE  TypeOK'
<1>. DEFINE l == Item.label
            n == Node(l)
            d == [page |-> pg.num, reload |-> NeedsReload(n),
                  addr |-> Item.addr, total |-> pg.total]
<1>1. /\ Emitting("label") /\ Advance /\ UNCHANGED <<kase, refs, loads, opened>>
      /\ PutNode(l, [n EXCEPT !.page = pg.num])
      /\ pg' = IF NeedsReload(n) THEN [pg EXCEPT !.pending = @ \cup {l}] ELSE pg
      /\ defs' = [m \in DOMAIN defs \cup {l} |-> IF m = l THEN d ELSE defs[m]]
  BY DEF EmitLabel
<1>2. l \in Labels /\ Item.addr \in Nat
  BY <1>1, ItemType
<1>3. n \in LabelNode /\ pg \in PageState /\ pg.num \in Int
  BY <1>2, NodeType, Fields DEF TypeOK
<1>4. [n EXCEPT !.page = pg.num] \in LabelNode
  BY <1>3, NodeSet
<1>5. AnchorType'
  BY <1>1, <1>2, <1>4, PutNodeType
<1>6. pg' \in PageState
  <2>1. pg.pending \cup {l} \in SUBSET Labels
    BY <1>2, <1>3, Fields
  <2>. QED
    BY <1>1, <1>3, <2>1, SetPending
<1>7. d \in DefRecord
  <2>1. NeedsReload(n) \in BOOLEAN
    BY DEF NeedsReload
  <2>2. pg.num \in Nat /\ pg.total \in Nat
    BY <1>3, Fields
  <2>3. Item.addr \in Int
    BY <1>2
  <2>. HIDE DEF n, l
  <2>. QED
    BY <2>1, <2>2, <2>3 DEF DefRecord
<1>8. /\ defs' = [m \in DOMAIN defs' |-> defs'[m]]
      /\ DOMAIN defs' \subseteq Labels
      /\ \A m \in DOMAIN defs' : defs'[m] \in DefRecord
  <2>. HIDE DEF d, l
  <2>. QED
    BY <1>1, <1>2, <1>7 DEF TypeOK
<1>. QED
  BY <1>1, <1>5, <1>6, <1>8, AdvanceType DEF TypeOK

(* An action that emits one reference and lays its code down. *)
LEMMA EmitReferenceType ==
  ASSUME TypeOK, NEW op, Emitting(op), op \notin {"insn", "tablejump"},
         Advance, AnchorType', kase' \in Nat, UNCHANGED defs,
         NEW p \in PageState, NEW c \in PageState, NEW near \in BOOLEAN,
         pg' \in PageState,
         loads' \subseteq [index : Int, page : Nat], opened' \subseteq Nat,
         refs' = refs \cup {Reference(Item.label, Item.addr, p, c, near)}
  PROVE  TypeOK'
<1>1. Item.label \in Labels /\ Item.addr \in Nat
  BY ItemType
<1>2. Reference(Item.label, Item.addr, p, c, near) \in RefRecord
  BY <1>1, ReferenceType
<1>3. refs' \subseteq RefRecord
  BY <1>2 DEF TypeOK
<1>. QED
  BY <1>3, AdvanceType DEF TypeOK

LEMMA EmitBranchType ==
  ASSUME TypeOK, EmitBranch
  PROVE  TypeOK'
<1>. DEFINE l    == Item.label
            n    == Node(l)
            c    == CheckPage(CheckLabelEmit(pg), 4, 0)
            near == ShortBranch(n, c) \/ OnPage(n, c)
            p    == IF near THEN c ELSE CheckPage(c, 2, 4)
            q    == IF near THEN Place(p, 4, 0) ELSE Place(p, 6, 4)
            m    == IF n.firstRef = -1 THEN [n EXCEPT !.firstRef = c.num]
                                       ELSE n
<1>1. /\ Emitting("b") /\ Advance /\ UNCHANGED <<kase, defs>>
      /\ PutNode(l, m) /\ Opens(q)
      /\ refs' = refs \cup {Reference(l, Item.addr, p, c, near)}
  BY DEF EmitBranch
<1>2. l \in Labels
  BY <1>1, ItemType
<1>3. c \in PageState
  BY CheckedType
<1>4. p \in PageState
  BY <1>3, CheckPageInType DEF TypeOK, CheckPage
<1>5. near \in BOOLEAN
  BY DEF ShortBranch, OnPage
<1>6. n \in LabelNode /\ c.num \in Int
  BY <1>2, <1>3, NodeType, Fields
<1>. HIDE DEF n, c, near, p
<1>7. q \in PageState
  BY <1>4, PlaceType
<1>8. m \in LabelNode
  BY <1>6, NodeSet
<1>. HIDE DEF m, q
<1>9. AnchorType'
  BY <1>1, <1>2, <1>8, PutNodeType
<1>. QED
  BY <1>1, <1>3, <1>4, <1>5, <1>7, <1>9, OpensType, EmitReferenceType
     DEF TypeOK

LEMMA EmitBctType ==
  ASSUME TypeOK, EmitBct
  PROVE  TypeOK'
<1>. DEFINE c    == CheckPage(CheckLabelEmit(pg), 4, 0)
            near == OnPage(Node(Item.label), c)
            p    == IF near THEN c ELSE CheckPage(c, 2, 4)
            q    == IF near THEN Place(p, 4, 0) ELSE Place(p, 6, 4)
<1>1. /\ Emitting("bct") /\ Advance /\ UNCHANGED <<anchor, kase, defs>>
      /\ Opens(q)
      /\ refs' = refs \cup {Reference(Item.label, Item.addr, p, c, near)}
  BY DEF EmitBct
<1>2. c \in PageState
  BY CheckedType
<1>3. p \in PageState
  BY <1>2, CheckPageInType DEF TypeOK, CheckPage
<1>4. near \in BOOLEAN
  BY DEF OnPage
<1>. HIDE DEF c, near, p
<1>5. q \in PageState
  BY <1>3, PlaceType
<1>. HIDE DEF q
<1>. QED
  BY <1>1, <1>2, <1>3, <1>4, <1>5, OpensType, EmitReferenceType
     DEF TypeOK, AnchorType

LEMMA EmitAddBranchType ==
  ASSUME TypeOK, NEW form \in AddForms, EmitAddBranch(form)
  PROVE  TypeOK'
<1>. DEFINE size   == AddSize(form)
            lit    == AddLit(form)
            e      == CheckLabelEmit(pg)
            onpage == OnPage(Node(Item.label), e)
            c      == IF onpage THEN CheckPage(e, size + 4, 0)
                                ELSE CheckPage(e, size + 6, 4)
            near   == onpage /\ c.num = e.num
            p      == IF onpage /\ ~near THEN CheckPage(c, 2, 4) ELSE c
            d      == Printed(p, lit)
            q      == IF near THEN Place(d, size + 4, lit)
                              ELSE Place(d, size + 6, lit + 4)
<1>1. /\ Emitting("addb") /\ Advance /\ UNCHANGED <<anchor, kase, defs>>
      /\ Opens(q)
      /\ refs' = refs \cup {Reference(Item.label, Item.addr, p, c, near)}
  BY DEF EmitAddBranch
<1>s. size \in Nat /\ lit \in Nat
  BY DEF AddSize, AddLit
<1>. HIDE DEF size, lit
<1>2. c \in PageState
  BY <1>s, CheckedType
<1>3. p \in PageState
  BY <1>2, CheckPageInType DEF TypeOK, CheckPage
<1>4. near \in BOOLEAN
  BY DEF OnPage
<1>. HIDE DEF c, near, p
<1>5. q \in PageState
  <2>1. d \in PageState
    BY <1>s, <1>3, PrintedType
  <2>. HIDE DEF d
  <2>. QED
    BY <1>s, <2>1, PlaceType
<1>. HIDE DEF q
<1>. QED
  BY <1>1, <1>2, <1>3, <1>4, <1>5, OpensType, EmitReferenceType
     DEF TypeOK, AnchorType

LEMMA EmitTableJumpType ==
  ASSUME TypeOK, EmitTableJump
  PROVE  TypeOK'
<1>. PICK mem \in BOOLEAN :
       LET c == CheckPage(CheckLabelEmit(pg), IF mem THEN 10 ELSE 6, 0)
           d == Place(c, IF mem THEN 6 ELSE 2, 0)
       IN  Opens([d EXCEPT !.widest = Larger(@, d.bytes + d.pool),
                           !.bytes = @ + d.pool, !.pool = 0])
  BY DEF EmitTableJump
<1>. DEFINE c == CheckPage(CheckLabelEmit(pg), IF mem THEN 10 ELSE 6, 0)
            d == Place(c, IF mem THEN 6 ELSE 2, 0)
            q == [d EXCEPT !.widest = Larger(@, d.bytes + d.pool),
                           !.bytes = @ + d.pool, !.pool = 0]
<1>1. c \in PageState
  BY CheckedType
<1>2. d \in PageState
  BY <1>1, PlaceType
<1>. HIDE DEF d
<1>3. /\ Larger(d.widest, d.bytes + d.pool) \in Nat
      /\ d.bytes + d.pool \in Nat
  BY <1>2, Fields DEF Larger
<1>4. q \in PageState
  BY <1>2, <1>3, SetField, Zenon
<1>5. Opens(q)
  BY DEF d
<1>. HIDE DEF q
<1>. QED
  BY <1>4, <1>5, OpensType, AdvanceType
     DEF EmitTableJump, TypeOK, AnchorType

LEMMA CaseEndType ==
  ASSUME TypeOK, NEW code \in Nat
  PROVE  CaseEnd(pg, code) \in PageState
<1>. DEFINE t == [pg EXCEPT !.code = @ + code, !.total = @ + code]
            q == CheckPageIn(code, t, 0, 0)
<1>1. pg \in PageState /\ pg.code + code \in Nat /\ pg.total + code \in Nat
  BY Fields DEF TypeOK
<1>2. t \in PageState
  BY <1>1, SetField
<1>. HIDE DEF t
<1>3. q \in PageState
  BY <1>2, CheckPageInType
<1>4. CaseEnd(pg, code) = IF q.num = pg.num THEN Place(q, code, 0) ELSE q
  BY DEF CaseEnd, t
<1>. HIDE DEF q
<1>. QED
  BY <1>3, <1>4, PlaceType

LEMMA EmitEntryType ==
  ASSUME TypeOK, EmitEntry
  PROVE  TypeOK'
<1>1. kase + Entry \in Nat
  BY DEF TypeOK, Entry
<1>2. /\ pg' \in PageState /\ kase' \in Nat
      /\ loads' \subseteq [index : Int, page : Nat] /\ opened' \subseteq Nat
  <2>1. CASE LastEntry
    BY <1>1, <2>1, CaseEndType, OpensType DEF EmitEntry
  <2>2. CASE ~LastEntry
    BY <1>1, <2>2 DEF EmitEntry, TypeOK
  <2>. QED
    BY <2>1, <2>2
<1>3. pg \in PageState
  BY DEF TypeOK
<1>. QED
  BY <1>2, <1>3, EmitReferenceType DEF EmitEntry, TypeOK, AnchorType

LEMMA EpilogueType ==
  ASSUME TypeOK, Epilogue
  PROVE  TypeOK'
<1>. DEFINE p == CheckPage(CheckLabelEmit(pg), EpilogueCode, 0)
            q == Place(p, EpilogueCode, 0)
            r == [q EXCEPT !.num = @ + 1,
                           !.widest = Larger(@, q.bytes + q.pool)]
<1>1. p \in PageState
  BY CheckedType DEF EpilogueCode
<1>2. q \in PageState
  BY <1>1, PlaceType DEF EpilogueCode
<1>3. pg' = r
  BY DEF Epilogue
<1>4. /\ loads' = loads \cup Reloaded(pg)
      /\ opened' = opened \cup (pg.num .. p.num)
      /\ table' = [i \in 1 .. (p.num + 1 - base) |-> base + i - 1]
  BY DEF Epilogue
<1>. HIDE DEF p
<1>. HIDE DEF q
<1>5. q.num + 1 \in Nat /\ Larger(q.widest, q.bytes + q.pool) \in Nat
  BY <1>2, Fields DEF Larger
<1>6. pg' \in PageState
  BY <1>2, <1>3, <1>5, SetField, Zenon
<1>7. pg.num \in Nat /\ p.num \in Nat /\ base \in Nat
  BY <1>1, Fields DEF TypeOK
<1>8. loads' \subseteq [index : Int, page : Nat] /\ opened' \subseteq Nat
  BY <1>4, <1>7 DEF Reloaded, TypeOK
<1>9. table' \in Seq(Int)
  <2>1. CASE p.num + 1 - base \in Nat
    BY <1>4, <1>7, <2>1
  <2>2. CASE p.num + 1 - base \notin Nat
    <3>1. 1 .. (p.num + 1 - base) = 1 .. 0
      BY <1>7, <2>2
    <3>. QED
      BY <1>4, <1>7, <3>1
  <2>. QED
    BY <2>1, <2>2
<1>. QED
  BY <1>6, <1>8, <1>9 DEF TypeOK, Epilogue, chain

LEMMA PrologueType ==
  ASSUME TypeOK, Prologue
  PROVE  TypeOK'
<1>. DEFINE p == [pg EXCEPT !.code = PrologueCode, !.lit = PrologueLit,
                            !.total = PrologueCode + PrologueLit,
                            !.bytes = PrologueCode, !.pool = PrologueLit,
                            !.widest = 0, !.lost = 0]
<1>1. /\ PrologueCode \in Nat /\ PrologueLit \in Nat
      /\ PrologueCode + PrologueLit \in Nat /\ 0 \in Nat /\ kase \in Nat
      /\ pg \in PageState
  BY DEF PrologueCode, PrologueLit, TypeOK
<1>2. p \in PageState
  BY <1>1, SetField, Zenon
<1>3. pg' = CheckPage(p, 0, 0)
  BY DEF Prologue, PrologueState
<1>. HIDE DEF p
<1>4. pg' \in PageState
  BY <1>1, <1>2, <1>3, CheckPageInType DEF CheckPage
<1>5. base' \in Nat /\ opened' \subseteq Nat
  BY <1>1, <1>4, Fields DEF Prologue, TypeOK
<1>. QED
  BY <1>4, <1>5 DEF Prologue, TypeOK, AnchorType

(* The program's state always has the types the C declarations intend, among
   them page counters that never go negative. *)
THEOREM TypeCorrect == Spec => []TypeOK
<1>1. Init => TypeOK
  BY PagesAssumption DEF Init, TypeOK, PageState
<1>2. TypeOK /\ [Next]_vars => TypeOK'
  <2>. SUFFICES ASSUME TypeOK, [Next]_vars
                PROVE  TypeOK'
    OBVIOUS
  <2>1. CASE Prologue
    BY <2>1, PrologueType
  <2>2. CASE Scan
    BY <2>2, ScanType
  <2>3. CASE Emit
    BY <2>3, EmitInsnType, EmitLabelType, EmitBranchType, EmitBctType,
       EmitAddBranchType, EmitTableJumpType, EmitEntryType DEF Emit
  <2>4. CASE Epilogue
    BY <2>4, EpilogueType
  <2>5. CASE UNCHANGED vars
    BY <2>5 DEF vars, TypeOK
  <2>. QED
    BY <2>1, <2>2, <2>3, <2>4, <2>5 DEF Next, Finished
<1>. QED
  BY <1>1, <1>2, PTL DEF Spec

-----------------------------------------------------------------------------
(* The safety of the base register.  BaseLoaded is not inductive: it needs the
   meaning of the counters, the order of the addresses, and what the label scan
   and mvs_add_label left in the label records. *)

(* On the base page, total is what the two counters say; past it, the function
   has outgrown a page. *)
CountersAt(p) ==
  /\ base <= p.num
  /\ p.num = base => p.total = p.code + p.lit
  /\ p.num # base => p.total > MaxPage

Counters == base <= pg.num /\ (phase # "idle" => CountersAt(pg))

(* Addresses grow along the chain. *)
Addresses ==
  /\ \A i \in DOMAIN body : body[i].addr <= addr
  /\ \A i, j \in DOMAIN body : i <= j => body[i].addr <= body[j].addr

(* The label scan knows the address of each label and the last reference. *)
Scanned ==
  phase # "idle" =>
    \A i \in DOMAIN body :
      /\ body[i].op \notin {"insn", "tablejump", "label"} =>
           /\ body[i].label \in DOMAIN anchor
           /\ anchor[body[i].label].lastRef >= body[i].addr
      /\ body[i].op = "label" =>
           /\ body[i].label \in DOMAIN anchor
           /\ anchor[body[i].label].addr = body[i].addr

(* What mvs_add_label established when it left a reload out. *)
Undisturbed(l) ==
  /\ defs[l].page = base
  /\ \/ anchor[l].lastRef < anchor[l].addr
     \/ defs[l].total + 2 * (anchor[l].lastRef - anchor[l].addr) < Conservative

Defined ==
  /\ phase = "scan" => DOMAIN defs = {} /\ refs = {}
  /\ phase = "emit" =>
       \A l \in DOMAIN defs :
         /\ l \in DOMAIN anchor
         /\ anchor[l].page = defs[l].page /\ anchor[l].addr = defs[l].addr
         /\ base <= defs[l].page /\ defs[l].page <= pg.num
         /\ \A i \in DOMAIN body : i >= pos => defs[l].addr <= body[i].addr
         /\ ~defs[l].reload => Undisturbed(l)

Referenced ==
  phase # "idle" => \A r \in refs : base <= r.page /\ r.page <= pg.num

BaseInv == Counters /\ Addresses /\ Scanned /\ Defined /\ Referenced
           /\ BaseLoaded

LEMMA CountersKept ==
  ASSUME NEW p \in PageState, base \in Nat, CountersAt(p),
         NEW code \in Nat, NEW lit \in Nat, NEW case \in Nat
  PROVE  /\ CountersAt(CheckLabelEmit(p))
         /\ CountersAt(CheckPageIn(case, p, code, lit))
         /\ CountersAt(Place(p, code, lit))
<1>. MaxPage \in Nat
  BY PagesAssumption
<1>1. CountersAt(CheckLabelEmit(p))
  BY CheckLabelEmitFields, Fields DEF CountersAt
<1>2. CountersAt(CheckPageIn(case, p, code, lit))
  <2>. DEFINE q == CheckPageIn(case, p, code, lit)
  <2>1. /\ q.total = p.total + code + lit
        /\ \/ /\ p.code + code + p.lit + lit > MaxPage
              /\ q.num = p.num + 1
           \/ /\ q.num = p.num
              /\ q.code = p.code + code /\ q.lit = p.lit + lit
    BY CheckPageInFields
  <2>2. CheckPageIn(case, p, code, lit) = q
    OBVIOUS
  <2>. HIDE DEF q
  <2>3. CountersAt(q)
    <3>1. CASE p.num = base
      BY <2>1, <3>1, Fields DEF CountersAt
    <3>2. CASE p.num # base
      BY <2>1, <3>2, Fields DEF CountersAt
    <3>. QED
      BY <3>1, <3>2
  <2>. QED
    BY <2>2, <2>3
<1>3. CountersAt(Place(p, code, lit))
  BY PlaceFields, Fields DEF CountersAt
<1>. QED
  BY <1>1, <1>2, <1>3

LEMMA PlaceKeeps ==
  ASSUME NEW p \in PageState, base \in Nat, CountersAt(p),
         NEW bytes \in Nat, NEW pool \in Nat
  PROVE  /\ Place(p, bytes, pool) \in PageState
         /\ CountersAt(Place(p, bytes, pool))
         /\ Place(p, bytes, pool).num = p.num
<1>1. CountersAt(Place(p, bytes, pool))
  BY CountersKept
<1>2. Place(p, bytes, pool).num = p.num
  BY PlaceFields
<1>. QED
  BY <1>1, <1>2, PlaceType

LEMMA PrintedKeeps ==
  ASSUME NEW p \in PageState, base \in Nat, CountersAt(p), NEW lit \in Nat
  PROVE  /\ Printed(p, lit) \in PageState
         /\ CountersAt(Printed(p, lit))
         /\ Printed(p, lit).num = p.num
<1>. DEFINE q == Printed(p, lit)
<1>1. /\ q.num = p.num /\ q.code = p.code /\ q.lit = p.lit + lit
      /\ q.total = p.total + lit
  BY PrintedFields
<1>2. q \in PageState
  BY PrintedType
<1>3. Printed(p, lit) = q
  OBVIOUS
<1>. HIDE DEF q
<1>4. CountersAt(q)
  <2>1. /\ p.num \in Nat /\ p.code \in Nat /\ p.lit \in Nat
        /\ p.total \in Nat /\ MaxPage \in Nat
    BY Fields, PagesAssumption
  <2>2. base <= q.num
    BY <1>1 DEF CountersAt
  <2>3. q.num = base => q.total = q.code + q.lit
    BY <1>1, <2>1 DEF CountersAt
  <2>4. q.num # base => q.total > MaxPage
    BY <1>1, <2>1 DEF CountersAt
  <2>. QED
    BY <2>2, <2>3, <2>4 DEF CountersAt
<1>5. CountersAt(Printed(p, lit))
  BY <1>3, <1>4
<1>6. Printed(p, lit).num = p.num
  BY PrintedFields
<1>. QED
  BY <1>5, <1>6, PrintedType

(* mvs_page_num never decreases. *)
LEMMA NumGrows ==
  ASSUME NEW p \in PageState, NEW code \in Nat, NEW lit \in Nat,
         NEW case \in Nat
  PROVE  /\ CheckPageIn(case, p, code, lit).num >= p.num
         /\ CheckLabelEmit(p).num = p.num
<1>. DEFINE q == CheckPageIn(case, p, code, lit)
<1>1. q.num \in {p.num, p.num + 1}
  BY CheckPageInFields
<1>. HIDE DEF q
<1>2. q.num >= p.num
  BY <1>1, Fields
<1>. QED
  BY <1>2, CheckLabelEmitFields DEF q

(* The page state in which a template is emitted. *)
LEMMA CheckedCounters ==
  ASSUME TypeOK, Counters, phase = "emit", NEW code \in Nat, NEW lit \in Nat,
         NEW c, c = CheckPage(CheckLabelEmit(pg), code, lit)
  PROVE  c \in PageState /\ CountersAt(c) /\ c.num >= pg.num
<1>1. pg \in PageState /\ base \in Nat /\ kase \in Nat /\ CountersAt(pg)
  BY DEF TypeOK, Counters
<1>2. CheckLabelEmit(pg) \in PageState /\ CountersAt(CheckLabelEmit(pg))
  BY <1>1, CheckLabelEmitType, CountersKept
<1>. QED
  BY <1>1, <1>2, CheckPageInType, CountersKept, NumGrows, Fields DEF CheckPage

(* An emission that leaves the definitions alone, and of the label records only
   changes what the rest of the invariant does not speak of. *)
LEMMA EmissionKeeps ==
  ASSUME TypeOK, BaseInv, NEW op, Emitting(op), Advance, UNCHANGED defs,
         DOMAIN anchor' = DOMAIN anchor,
         \A l \in DOMAIN anchor : /\ anchor'[l].page = anchor[l].page
                                  /\ anchor'[l].addr = anchor[l].addr
                                  /\ anchor'[l].lastRef = anchor[l].lastRef,
         pg' \in PageState, pg'.num >= pg.num, CountersAt(pg)',
         \A r \in refs' : \/ r \in refs
                          \/ /\ base <= r.page /\ r.page <= pg'.num
                             /\ Stale(r) => Outgrown(r)
  PROVE  BaseInv'
<1>1. /\ phase = "emit" /\ phase' = "emit" /\ base' = base /\ body' = body
      /\ addr' = addr /\ pos' = pos + 1 /\ defs' = defs
  BY DEF Emitting, Advance, chain
<1>2. pg.num \in Nat /\ pg'.num \in Nat /\ base \in Nat /\ pos \in Nat
  BY Fields DEF TypeOK
<1>3. Counters'
  BY <1>1 DEF Counters, CountersAt
<1>4. Addresses'
  BY <1>1 DEF Addresses, BaseInv
<1>5. Scanned'
  BY <1>1 DEF Scanned, BaseInv
<1>6. Defined'
  <2>. SUFFICES ASSUME NEW l \in DOMAIN defs
                PROVE  /\ l \in DOMAIN anchor
                       /\ anchor'[l].page = defs[l].page
                       /\ anchor'[l].addr = defs[l].addr
                       /\ base <= defs[l].page /\ defs[l].page <= pg'.num
                       /\ \A i \in DOMAIN body :
                            i >= pos + 1 => defs[l].addr <= body[i].addr
                       /\ ~defs[l].reload => Undisturbed(l)'
    BY <1>1 DEF Defined
  <2>1. /\ l \in DOMAIN anchor
        /\ anchor[l].page = defs[l].page /\ anchor[l].addr = defs[l].addr
        /\ base <= defs[l].page /\ defs[l].page <= pg.num
        /\ \A i \in DOMAIN body : i >= pos => defs[l].addr <= body[i].addr
        /\ ~defs[l].reload => Undisturbed(l)
    BY <1>1 DEF Defined, BaseInv
  <2>2. defs[l].page \in Nat
    BY DEF TypeOK, DefRecord
  <2>3. \A i \in DOMAIN body : i >= pos + 1 => i >= pos
    BY <1>2 DEF TypeOK
  <2>4. ~defs[l].reload => Undisturbed(l)'
    BY <1>1, <2>1 DEF Undisturbed
  <2>. QED
    BY <1>2, <2>1, <2>2, <2>3, <2>4
<1>7. Referenced'
  <2>. SUFFICES ASSUME NEW r \in refs'
                PROVE  base <= r.page /\ r.page <= pg'.num
    BY <1>1 DEF Referenced
  <2>1. CASE r \in refs
    <3>1. base <= r.page /\ r.page <= pg.num /\ r.page \in Nat
      BY <1>1, <2>1 DEF Referenced, BaseInv, TypeOK, RefRecord
    <3>. QED
      BY <1>2, <3>1
  <2>. QED
    BY <2>1
<1>8. BaseLoaded'
  <2>. SUFFICES ASSUME NEW r \in refs'
                PROVE  Stale(r)' => Outgrown(r)'
    BY DEF BaseLoaded
  <2>1. Stale(r) => Outgrown(r)
    BY DEF BaseLoaded, BaseInv
  <2>. QED
    BY <1>1, <2>1 DEF Stale, Outgrown
<1>. QED
  BY <1>3, <1>4, <1>5, <1>6, <1>7, <1>8 DEF BaseInv

(* The heart of the matter: a jump emitted after its label, on a later page,
   while the label was left without a reload, has outgrown its estimate. *)
LEMMA JumpSafe ==
  ASSUME TypeOK, BaseInv, NEW op, Emitting(op),
         op \notin {"insn", "tablejump", "label"},
         NEW c \in PageState, CountersAt(c), NEW p, NEW near,
         Item.label \in DOMAIN defs /\ defs[Item.label].page = base /\
           p.num # base => c.num # base,
         NEW r, r = Reference(Item.label, Item.addr, p, c, near), Stale(r)
  PROVE  Outgrown(r)
<1>. DEFINE l == Item.label
<1>1. /\ r.label = l /\ r.addr = Item.addr /\ r.page = p.num
      /\ r.total = c.total
  BY DEF Reference
<1>2. /\ l \in DOMAIN defs /\ defs[l].page # p.num /\ ~defs[l].reload
  BY <1>1 DEF Stale
<1>3. /\ phase = "emit" /\ pos \in DOMAIN body /\ body[pos] = Item
      /\ Item.op = op /\ Item.addr \in Nat
  BY ItemType DEF Emitting, Item
<1>4. /\ Undisturbed(l) /\ anchor[l].addr = defs[l].addr
      /\ defs[l].addr <= Item.addr
  <2>1. \A i \in DOMAIN body : i >= pos => defs[l].addr <= body[i].addr
    BY <1>2, <1>3 DEF Defined, BaseInv
  <2>2. pos >= pos
    BY DEF TypeOK
  <2>3. defs[l].addr <= Item.addr
    BY <1>3, <2>1, <2>2
  <2>4. Undisturbed(l) /\ anchor[l].addr = defs[l].addr
    BY <1>2, <1>3 DEF Defined, BaseInv
  <2>. QED
    BY <2>3, <2>4
<1>5. l \in DOMAIN anchor /\ anchor[l].lastRef >= Item.addr
  BY <1>3 DEF Scanned, BaseInv
<1>6. /\ defs[l].addr \in Int /\ defs[l].total \in Nat
      /\ anchor[l].lastRef \in Int
  BY <1>2, <1>5 DEF TypeOK, DefRecord, LabelNode
<1>7. defs[l].total + 2 * (anchor[l].lastRef - defs[l].addr) < Conservative
  <2>1. ~(anchor[l].lastRef < anchor[l].addr)
    BY <1>3, <1>4, <1>5, <1>6
  <2>. QED
    BY <1>4, <2>1 DEF Undisturbed
<1>8. c.total > MaxPage /\ c.total \in Nat
  <2>1. defs[l].page = base
    BY <1>4 DEF Undisturbed
  <2>2. c.num # base
    BY <1>2, <2>1
  <2>. QED
    BY <2>2, Fields DEF CountersAt
<1>9. c.total - defs[l].total >
        2 * (Item.addr - defs[l].addr) + (MaxPage - Conservative)
  <2>1. MaxPage \in Nat /\ Conservative \in Nat
    BY PagesAssumption
  <2>. QED
    BY <1>3, <1>5, <1>6, <1>7, <1>8, <2>1
<1>. QED
  BY <1>1, <1>9 DEF Outgrown

(* An action that emits one reference and leaves the label records' page,
   address and last reference alone. *)
LEMMA ReferenceKeeps ==
  ASSUME TypeOK, BaseInv, NEW op, Emitting(op), Advance,
         op \notin {"insn", "tablejump", "label"}, UNCHANGED defs,
         DOMAIN anchor' = DOMAIN anchor,
         \A l \in DOMAIN anchor : /\ anchor'[l].page = anchor[l].page
                                  /\ anchor'[l].addr = anchor[l].addr
                                  /\ anchor'[l].lastRef = anchor[l].lastRef,
         NEW c \in PageState, CountersAt(c), NEW p \in PageState, NEW near,
         base <= p.num, p.num <= pg'.num,
         Item.label \in DOMAIN defs /\ defs[Item.label].page = base /\
           p.num # base => c.num # base,
         pg' \in PageState, pg'.num >= pg.num, CountersAt(pg)',
         refs' = refs \cup {Reference(Item.label, Item.addr, p, c, near)}
  PROVE  BaseInv'
<1>. DEFINE new == Reference(Item.label, Item.addr, p, c, near)
<1>1. new.page = p.num
  BY DEF Reference
<1>2. Stale(new) => Outgrown(new)
  BY JumpSafe
<1>. HIDE DEF new
<1>3. \A r \in refs' : \/ r \in refs
                       \/ /\ base <= r.page /\ r.page <= pg'.num
                          /\ Stale(r) => Outgrown(r)
  BY <1>1, <1>2 DEF new
<1>. QED
  BY <1>3, EmissionKeeps

LEMMA EmitInsnKeeps ==
  ASSUME TypeOK, BaseInv, EmitInsn
  PROVE  BaseInv'
<1>. DEFINE a == Attr[Item.kind]
            c == CheckPage(CheckLabelEmit(pg), a.code, a.lit)
            p == Place(Printed(c, a.print), a.bytes, a.pool)
<1>1. /\ Emitting("insn") /\ pg' = p /\ Advance
      /\ UNCHANGED <<anchor, kase, defs, refs>>
  BY DEF EmitInsn, Opens
<1>2. /\ a.code \in Nat /\ a.lit \in Nat /\ a.print \in Nat
      /\ a.bytes \in Nat /\ a.pool \in Nat
  BY <1>1, ItemType, PagesAssumption
<1>3. phase = "emit" /\ Counters /\ base \in Nat
  BY <1>1 DEF Emitting, BaseInv, TypeOK
<1>4. c \in PageState /\ CountersAt(c) /\ c.num >= pg.num
  BY <1>2, <1>3, CheckedCounters
<1>5. p \in PageState /\ CountersAt(p) /\ p.num = c.num
  <2>. DEFINE d == Printed(c, a.print)
  <2>. HIDE DEF c
  <2>1. d \in PageState /\ CountersAt(d) /\ d.num = c.num
    BY <1>2, <1>3, <1>4, PrintedKeeps
  <2>2. p = Place(d, a.bytes, a.pool)
    OBVIOUS
  <2>. HIDE DEF d, p
  <2>. QED
    BY <1>2, <1>3, <2>1, <2>2, PlaceKeeps
<1>6. base' = base
  BY <1>1 DEF Advance
<1>. HIDE DEF p, c
<1>7. CountersAt(pg)'
  BY <1>1, <1>5, <1>6 DEF CountersAt
<1>8. refs' = refs /\ anchor' = anchor /\ defs' = defs
  BY <1>1
<1>9. pg' \in PageState /\ pg'.num >= pg.num
  BY <1>1, <1>4, <1>5
<1>. QED
  BY <1>1, <1>7, <1>8, <1>9, EmissionKeeps

LEMMA EmitBranchKeeps ==
  ASSUME TypeOK, BaseInv, EmitBranch
  PROVE  BaseInv'
<1>. DEFINE l    == Item.label
            n    == Node(l)
            c    == CheckPage(CheckLabelEmit(pg), 4, 0)
            near == ShortBranch(n, c) \/ OnPage(n, c)
            p    == IF near THEN c ELSE CheckPage(c, 2, 4)
            q    == IF near THEN Place(p, 4, 0) ELSE Place(p, 6, 4)
            m    == IF n.firstRef = -1 THEN [n EXCEPT !.firstRef = c.num]
                                       ELSE n
<1>1. /\ Emitting("b") /\ Advance /\ UNCHANGED <<kase, defs>>
      /\ PutNode(l, m) /\ pg' = q
      /\ refs' = refs \cup {Reference(l, Item.addr, p, c, near)}
  BY DEF EmitBranch, Opens
<1>2. /\ phase = "emit" /\ Counters /\ base \in Nat /\ kase \in Nat
      /\ base' = base
  BY <1>1 DEF Emitting, BaseInv, TypeOK, Advance
<1>3. c \in PageState /\ CountersAt(c) /\ c.num >= pg.num
  BY <1>2, CheckedCounters
<1>4. p \in PageState /\ CountersAt(p) /\ p.num >= c.num
  <2>1. CASE near
    BY <1>3, <2>1, Fields
  <2>2. CASE ~near
    BY <1>2, <1>3, <2>2, CheckPageInType, CountersKept, NumGrows DEF CheckPage
  <2>. QED
    BY <2>1, <2>2
<1>5. q \in PageState /\ CountersAt(q) /\ q.num = p.num
  BY <1>2, <1>4, PlaceKeeps
<1>6. /\ pos \in DOMAIN body /\ body[pos].op = "b" /\ body[pos].label = l
      /\ l \in Labels
  BY <1>1, ItemType DEF Emitting, Item
<1>7. l \in DOMAIN anchor /\ n = anchor[l] /\ n \in LabelNode
  BY <1>2, <1>6 DEF Scanned, BaseInv, Node, TypeOK
<1>8. m.page = n.page /\ m.addr = n.addr /\ m.lastRef = n.lastRef
  BY <1>7 DEF LabelNode
<1>9. l \in DOMAIN defs /\ defs[l].page = base /\ p.num # base
        => c.num # base
  <2>. SUFFICES ASSUME l \in DOMAIN defs, defs[l].page = base, c.num = base
                PROVE  p.num = base
    OBVIOUS
  <2>1. anchor[l].page = base
    BY <1>2 DEF Defined, BaseInv
  <2>2. OnPage(n, c)
    BY <1>7, <2>1 DEF OnPage
  <2>. QED
    BY <2>2
<1>. HIDE DEF n, c, near, p, q, m
<1>10. /\ DOMAIN anchor' = DOMAIN anchor
       /\ \A k \in DOMAIN anchor : /\ anchor'[k].page = anchor[k].page
                                   /\ anchor'[k].addr = anchor[k].addr
                                   /\ anchor'[k].lastRef = anchor[k].lastRef
  BY <1>1, <1>7, <1>8 DEF PutNode
<1>11. CountersAt(pg)'
  BY <1>1, <1>2, <1>5 DEF CountersAt
<1>12. pg' \in PageState /\ pg'.num >= pg.num /\ base <= p.num /\ p.num <= pg'.num
  <2>1. pg \in PageState
    BY DEF TypeOK
  <2>. QED
    BY <1>1, <1>3, <1>4, <1>5, <2>1, Fields DEF CountersAt
<1>. QED
  BY <1>1, <1>3, <1>4, <1>9, <1>10, <1>11, <1>12, ReferenceKeeps

LEMMA EmitBctKeeps ==
  ASSUME TypeOK, BaseInv, EmitBct
  PROVE  BaseInv'
<1>. DEFINE n    == Node(Item.label)
            c    == CheckPage(CheckLabelEmit(pg), 4, 0)
            near == OnPage(n, c)
            p    == IF near THEN c ELSE CheckPage(c, 2, 4)
            q    == IF near THEN Place(p, 4, 0) ELSE Place(p, 6, 4)
<1>1. /\ Emitting("bct") /\ Advance /\ UNCHANGED <<anchor, kase, defs>>
      /\ pg' = q
      /\ refs' = refs \cup {Reference(Item.label, Item.addr, p, c, near)}
  BY DEF EmitBct, Opens
<1>2. /\ phase = "emit" /\ Counters /\ base \in Nat /\ kase \in Nat
      /\ base' = base
  BY <1>1 DEF Emitting, BaseInv, TypeOK, Advance
<1>3. c \in PageState /\ CountersAt(c) /\ c.num >= pg.num
  BY <1>2, CheckedCounters
<1>4. p \in PageState /\ CountersAt(p) /\ p.num >= c.num
  <2>1. CASE near
    BY <1>3, <2>1, Fields
  <2>2. CASE ~near
    BY <1>2, <1>3, <2>2, CheckPageInType, CountersKept, NumGrows DEF CheckPage
  <2>. QED
    BY <2>1, <2>2
<1>5. q \in PageState /\ CountersAt(q) /\ q.num = p.num
  BY <1>2, <1>4, PlaceKeeps
<1>6. Item.label \in DOMAIN defs /\ defs[Item.label].page = base
        /\ p.num # base => c.num # base
  <2>. SUFFICES ASSUME Item.label \in DOMAIN defs,
                       defs[Item.label].page = base, c.num = base
                PROVE  p.num = base
    OBVIOUS
  <2>1. /\ Item.label \in DOMAIN anchor /\ anchor[Item.label].page = base
    BY <1>2 DEF Defined, BaseInv
  <2>2. OnPage(n, c)
    BY <2>1 DEF OnPage, Node
  <2>. QED
    BY <2>2
<1>. HIDE DEF n, c, near, p, q
<1>7. CountersAt(pg)'
  BY <1>1, <1>2, <1>5 DEF CountersAt
<1>8. pg' \in PageState /\ pg'.num >= pg.num /\ base <= p.num /\ p.num <= pg'.num
  <2>1. pg \in PageState
    BY DEF TypeOK
  <2>. QED
    BY <1>1, <1>3, <1>4, <1>5, <2>1, Fields DEF CountersAt
<1>9. anchor' = anchor
  BY <1>1
<1>. QED
  BY <1>1, <1>3, <1>4, <1>6, <1>7, <1>8, <1>9, ReferenceKeeps

LEMMA EmitAddBranchKeeps ==
  ASSUME TypeOK, BaseInv, NEW form \in AddForms, EmitAddBranch(form)
  PROVE  BaseInv'
<1>. DEFINE size   == AddSize(form)
            lit    == AddLit(form)
            n      == Node(Item.label)
            e      == CheckLabelEmit(pg)
            onpage == OnPage(n, e)
            c      == IF onpage THEN CheckPage(e, size + 4, 0)
                                ELSE CheckPage(e, size + 6, 4)
            near   == onpage /\ c.num = e.num
            p      == IF onpage /\ ~near THEN CheckPage(c, 2, 4) ELSE c
            d      == Printed(p, lit)
            q      == IF near THEN Place(d, size + 4, lit)
                              ELSE Place(d, size + 6, lit + 4)
<1>1. /\ Emitting("addb") /\ Advance /\ UNCHANGED <<anchor, kase, defs>>
      /\ pg' = q
      /\ refs' = refs \cup {Reference(Item.label, Item.addr, p, c, near)}
  BY DEF EmitAddBranch, Opens
<1>2. /\ phase = "emit" /\ Counters /\ base \in Nat /\ kase \in Nat
      /\ base' = base
  BY <1>1 DEF Emitting, BaseInv, TypeOK, Advance
<1>s. size \in Nat /\ lit \in Nat
  BY DEF AddSize, AddLit
<1>. HIDE DEF size, lit
<1>3. c \in PageState /\ CountersAt(c) /\ c.num >= pg.num
  <2>1. size + 4 \in Nat /\ size + 6 \in Nat
    BY <1>s
  <2>. QED
    BY <1>2, <2>1, CheckedCounters
<1>e. e.num = pg.num /\ pg \in PageState /\ base <= pg.num
  BY CheckLabelEmitFields DEF TypeOK, BaseInv, Counters
<1>4. p \in PageState /\ CountersAt(p) /\ p.num >= c.num
  <2>1. CASE ~(onpage /\ ~near)
    BY <1>3, <2>1, Fields
  <2>2. CASE onpage /\ ~near
    BY <1>2, <1>3, <2>2, CheckPageInType, CountersKept, NumGrows DEF CheckPage
  <2>. QED
    BY <2>1, <2>2
<1>5. q \in PageState /\ CountersAt(q) /\ q.num = p.num
  <2>. HIDE DEF n, e, onpage, c, near, p
  <2>1. d \in PageState /\ CountersAt(d) /\ d.num = p.num
    BY <1>s, <1>2, <1>4, PrintedKeeps
  <2>2. /\ size + 4 \in Nat /\ size + 6 \in Nat /\ lit + 4 \in Nat
    BY <1>s
  <2>. HIDE DEF d
  <2>3. CASE near
    BY <1>s, <1>2, <2>1, <2>2, <2>3, PlaceKeeps
  <2>4. CASE ~near
    BY <1>s, <1>2, <2>1, <2>2, <2>4, PlaceKeeps
  <2>. QED
    BY <2>3, <2>4
<1>6. Item.label \in DOMAIN defs /\ defs[Item.label].page = base
        /\ p.num # base => c.num # base
  <2>. SUFFICES ASSUME Item.label \in DOMAIN defs,
                       defs[Item.label].page = base, c.num = base
                PROVE  p.num = base
    OBVIOUS
  <2>1. /\ Item.label \in DOMAIN anchor /\ anchor[Item.label].page = base
    BY <1>2 DEF Defined, BaseInv
  <2>2. e.num = base
    BY <1>2, <1>3, <1>e, Fields
  <2>3. onpage /\ near
    BY <2>1, <2>2 DEF OnPage, Node
  <2>. QED
    BY <2>3
<1>. HIDE DEF n, e, onpage, c, near, p, d, q
<1>7. CountersAt(pg)'
  BY <1>1, <1>2, <1>5 DEF CountersAt
<1>8. pg' \in PageState /\ pg'.num >= pg.num /\ base <= p.num /\ p.num <= pg'.num
  BY <1>1, <1>e, <1>3, <1>4, <1>5, Fields DEF CountersAt
<1>9. anchor' = anchor
  BY <1>1
<1>. QED
  BY <1>1, <1>3, <1>4, <1>6, <1>7, <1>8, <1>9, ReferenceKeeps

LEMMA EmitTableJumpKeeps ==
  ASSUME TypeOK, BaseInv, EmitTableJump
  PROVE  BaseInv'
<1>. PICK mem \in BOOLEAN :
       LET c == CheckPage(CheckLabelEmit(pg), IF mem THEN 10 ELSE 6, 0)
           d == Place(c, IF mem THEN 6 ELSE 2, 0)
       IN  Opens([d EXCEPT !.widest = Larger(@, d.bytes + d.pool),
                           !.bytes = @ + d.pool, !.pool = 0])
  BY DEF EmitTableJump
<1>. DEFINE c == CheckPage(CheckLabelEmit(pg), IF mem THEN 10 ELSE 6, 0)
            d == Place(c, IF mem THEN 6 ELSE 2, 0)
            q == [d EXCEPT !.widest = Larger(@, d.bytes + d.pool),
                           !.bytes = @ + d.pool, !.pool = 0]
<1>1. /\ Emitting("tablejump") /\ Advance /\ UNCHANGED <<anchor, defs, refs>>
      /\ pg' = q
  BY DEF EmitTableJump, Opens
<1>2. /\ phase = "emit" /\ Counters /\ base \in Nat /\ base' = base
  BY <1>1 DEF Emitting, BaseInv, TypeOK, Advance
<1>3. c \in PageState /\ CountersAt(c) /\ c.num >= pg.num
  BY <1>2, CheckedCounters
<1>4. d \in PageState /\ CountersAt(d) /\ d.num = c.num
  BY <1>2, <1>3, PlaceKeeps
<1>. HIDE DEF d
<1>5. q.num = d.num /\ q.code = d.code /\ q.lit = d.lit /\ q.total = d.total
  BY <1>4 DEF PageState
<1>6. pg' \in PageState
  <2>1. TypeOK'
    BY EmitTableJumpType
  <2>. QED
    BY <2>1 DEF TypeOK
<1>. HIDE DEF q, c
<1>7. CountersAt(pg)' /\ pg'.num >= pg.num
  BY <1>1, <1>2, <1>3, <1>4, <1>5 DEF CountersAt
<1>8. refs' = refs /\ anchor' = anchor /\ defs' = defs
  BY <1>1
<1>. QED
  BY <1>1, <1>6, <1>7, <1>8, EmissionKeeps

LEMMA CaseEndKeeps ==
  ASSUME TypeOK, CountersAt(pg), NEW code \in Nat
  PROVE  CountersAt(CaseEnd(pg, code)) /\ CaseEnd(pg, code).num >= pg.num
<1>. DEFINE t == [pg EXCEPT !.code = @ + code, !.total = @ + code]
            q == CheckPageIn(code, t, 0, 0)
<1>1. pg \in PageState /\ pg.code + code \in Nat /\ pg.total + code \in Nat
      /\ base \in Nat
  BY Fields DEF TypeOK
<1>2. t \in PageState
  BY <1>1, SetField
<1>3. t.num = pg.num /\ t.code = pg.code + code /\ t.lit = pg.lit
      /\ t.total = pg.total + code
  BY <1>1 DEF PageState
<1>4. CaseEnd(pg, code) = IF q.num = pg.num THEN Place(q, code, 0) ELSE q
  BY DEF CaseEnd
<1>. HIDE DEF t
<1>5. CountersAt(t)
  <2>1. /\ MaxPage \in Nat /\ pg.num \in Nat /\ pg.total \in Nat
        /\ pg.code \in Nat /\ pg.lit \in Nat
    BY <1>1, Fields, PagesAssumption
  <2>2. CASE pg.num = base
    BY <1>1, <1>3, <2>1, <2>2 DEF CountersAt
  <2>3. CASE pg.num # base
    BY <1>1, <1>3, <2>1, <2>3 DEF CountersAt
  <2>. QED
    BY <2>2, <2>3
<1>6. q \in PageState /\ CountersAt(q) /\ q.num >= t.num
  BY <1>1, <1>2, <1>5, CheckPageInType, CountersKept, NumGrows
<1>. HIDE DEF q
<1>7. CASE q.num = pg.num
  <2>1. CountersAt(Place(q, code, 0)) /\ Place(q, code, 0).num = q.num
    BY <1>1, <1>6, PlaceKeeps
  <2>2. pg.num \in Nat
    BY <1>1, Fields
  <2>. QED
    BY <1>4, <1>7, <2>1, <2>2
<1>8. CASE q.num # pg.num
  BY <1>3, <1>4, <1>6, <1>8
<1>. QED
  BY <1>7, <1>8

LEMMA EmitEntryKeeps ==
  ASSUME TypeOK, BaseInv, EmitEntry
  PROVE  BaseInv'
<1>1. /\ Emitting("entry") /\ Advance /\ UNCHANGED <<anchor, defs>>
      /\ refs' = refs \cup {Reference(Item.label, Item.addr, pg, pg, FALSE)}
  BY DEF EmitEntry
<1>2. /\ phase = "emit" /\ base' = base /\ kase + Entry \in Nat
      /\ pg \in PageState /\ CountersAt(pg) /\ base \in Nat
  BY <1>1 DEF Emitting, BaseInv, TypeOK, Advance, Entry, Counters
<1>3. pg' \in PageState
  <2>1. TypeOK'
    BY EmitEntryType
  <2>. QED
    BY <2>1 DEF TypeOK
<1>4. CountersAt(pg') /\ pg'.num >= pg.num
  <2>1. CASE LastEntry
    BY <1>2, <2>1, CaseEndKeeps DEF EmitEntry, Opens
  <2>2. CASE ~LastEntry
    <3>1. pg' = pg
      BY <2>2 DEF EmitEntry
    <3>. QED
      BY <1>2, <3>1, Fields
  <2>. QED
    BY <2>1, <2>2
<1>5. CountersAt(pg)'
  BY <1>2, <1>4 DEF CountersAt
<1>6. base <= pg.num
  BY <1>2 DEF CountersAt
<1>7. anchor' = anchor /\ defs' = defs
  BY <1>1
<1>. QED
  BY <1>1, <1>2, <1>3, <1>4, <1>5, <1>6, <1>7, ReferenceKeeps

LEMMA EmitLabelKeeps ==
  ASSUME TypeOK, BaseInv, EmitLabel
  PROVE  BaseInv'
<1>. DEFINE l == Item.label
            n == Node(l)
            m == [n EXCEPT !.page = pg.num]
            d == [page |-> pg.num, reload |-> NeedsReload(n),
                  addr |-> Item.addr, total |-> pg.total]
<1>1. /\ Emitting("label") /\ Advance /\ UNCHANGED <<kase, refs, loads, opened>>
      /\ PutNode(l, m)
      /\ pg' = IF NeedsReload(n) THEN [pg EXCEPT !.pending = @ \cup {l}] ELSE pg
      /\ defs' = [k \in DOMAIN defs \cup {l} |-> IF k = l THEN d ELSE defs[k]]
  BY DEF EmitLabel
<1>2. /\ phase = "emit" /\ phase' = "emit" /\ base' = base /\ body' = body
      /\ addr' = addr /\ pos' = pos + 1 /\ refs' = refs /\ base \in Nat
      /\ pg \in PageState /\ CountersAt(pg)
  BY <1>1 DEF Emitting, Advance, chain, TypeOK, BaseInv, Counters
<1>3. /\ pos \in DOMAIN body /\ body[pos] = Item /\ body[pos].op = "label"
      /\ Item.addr \in Nat /\ l \in Labels
  BY <1>1, ItemType DEF Emitting, Item
<1>4. /\ l \in DOMAIN anchor /\ n = anchor[l] /\ n \in LabelNode
      /\ n.addr = Item.addr
  BY <1>2, <1>3 DEF Scanned, BaseInv, Node, TypeOK
<1>5. m.page = pg.num /\ m.addr = n.addr /\ m.lastRef = n.lastRef
  BY <1>4 DEF LabelNode
<1>6. /\ pg'.num = pg.num /\ pg'.code = pg.code /\ pg'.lit = pg.lit
      /\ pg'.total = pg.total
  BY <1>1, <1>2 DEF PageState
<1>7. /\ DOMAIN anchor' = DOMAIN anchor /\ anchor'[l] = m
      /\ \A k \in DOMAIN anchor \ {l} : anchor'[k] = anchor[k]
  BY <1>1, <1>4 DEF PutNode
<1>8. /\ DOMAIN defs' = DOMAIN defs \cup {l} /\ defs'[l] = d
      /\ \A k \in DOMAIN defs \ {l} : defs'[k] = defs[k]
  BY <1>1
<1>9. d.page = pg.num /\ d.addr = Item.addr /\ d.total = pg.total
      /\ d.reload = NeedsReload(n)
  OBVIOUS
<1>10. ~NeedsReload(n) =>
         /\ pg.num = base
         /\ n.lastRef < n.addr \/
            pg.total + 2 * (n.lastRef - n.addr) < Conservative
  <2>. SUFFICES ASSUME ~NeedsReload(n), ~(n.lastRef < n.addr)
                PROVE  pg.total + 2 * (n.lastRef - n.addr) < Conservative
    BY DEF NeedsReload
  <2>1. /\ pg.code \in Nat /\ pg.lit \in Nat /\ n.lastRef \in Int
        /\ n.addr \in Int /\ Conservative \in Nat
    BY <1>2, <1>4, Fields, PagesAssumption DEF LabelNode
  <2>2. pg.code + 2 * (n.lastRef - n.addr) + pg.lit < Conservative
    BY <2>1 DEF NeedsReload
  <2>3. pg.total = pg.code + pg.lit
    BY <1>2 DEF NeedsReload, CountersAt
  <2>. QED
    BY <2>1, <2>2, <2>3
<1>. HIDE DEF n, m, d
<1>11. Counters'
  BY <1>2, <1>6 DEF Counters, CountersAt
<1>12. Addresses'
  BY <1>2 DEF Addresses, BaseInv
<1>13. Scanned'
  <2>. SUFFICES ASSUME NEW i \in DOMAIN body
                PROVE  /\ body[i].op \notin {"insn", "tablejump", "label"} =>
                            /\ body[i].label \in DOMAIN anchor'
                            /\ anchor'[body[i].label].lastRef >= body[i].addr
                       /\ body[i].op = "label" =>
                            /\ body[i].label \in DOMAIN anchor'
                            /\ anchor'[body[i].label].addr = body[i].addr
    BY <1>2 DEF Scanned
  <2>1. /\ body[i].op \notin {"insn", "tablejump", "label"} =>
             /\ body[i].label \in DOMAIN anchor
             /\ anchor[body[i].label].lastRef >= body[i].addr
        /\ body[i].op = "label" =>
             /\ body[i].label \in DOMAIN anchor
             /\ anchor[body[i].label].addr = body[i].addr
    BY <1>2 DEF Scanned, BaseInv
  <2>. QED
    BY <1>4, <1>5, <1>7, <2>1
<1>14. Defined'
  <2>. SUFFICES ASSUME NEW k \in DOMAIN defs'
                PROVE  /\ k \in DOMAIN anchor'
                       /\ anchor'[k].page = defs'[k].page
                       /\ anchor'[k].addr = defs'[k].addr
                       /\ base <= defs'[k].page /\ defs'[k].page <= pg'.num
                       /\ \A i \in DOMAIN body :
                            i >= pos + 1 => defs'[k].addr <= body[i].addr
                       /\ ~defs'[k].reload => Undisturbed(k)'
    BY <1>2 DEF Defined
  <2>0. pos \in Nat /\ \A i \in DOMAIN body : i >= pos + 1 => i >= pos
    BY DEF TypeOK
  <2>1. CASE k = l
    <3>1. \A i \in DOMAIN body : i >= pos + 1 => Item.addr <= body[i].addr
      <4>1. \A i \in DOMAIN body : pos <= i => body[pos].addr <= body[i].addr
        BY <1>3 DEF Addresses, BaseInv
      <4>2. \A i \in DOMAIN body : i >= pos + 1 => pos <= i
        BY <2>0 DEF TypeOK
      <4>. QED
        BY <1>3, <4>1, <4>2
    <3>2. ~defs'[k].reload => Undisturbed(k)'
      BY <1>2, <1>5, <1>7, <1>8, <1>9, <1>10, <2>1 DEF Undisturbed
    <3>3. base <= pg.num /\ pg.num <= pg'.num
      BY <1>2, <1>6, Fields DEF CountersAt
    <3>. QED
      BY <1>4, <1>5, <1>7, <1>8, <1>9, <2>1, <3>1, <3>2, <3>3
  <2>2. CASE k # l
    <3>1. k \in DOMAIN defs /\ defs'[k] = defs[k]
      BY <1>8, <2>2
    <3>2. /\ k \in DOMAIN anchor
          /\ anchor[k].page = defs[k].page /\ anchor[k].addr = defs[k].addr
          /\ base <= defs[k].page /\ defs[k].page <= pg.num
          /\ \A i \in DOMAIN body : i >= pos => defs[k].addr <= body[i].addr
          /\ ~defs[k].reload => Undisturbed(k)
      BY <1>2, <3>1 DEF Defined, BaseInv
    <3>3. anchor'[k] = anchor[k]
      BY <1>7, <2>2, <3>2
    <3>4. ~defs[k].reload => Undisturbed(k)'
      BY <1>2, <3>1, <3>2, <3>3 DEF Undisturbed
    <3>. QED
      BY <1>6, <1>7, <2>0, <3>1, <3>2, <3>3, <3>4
  <2>. QED
    BY <2>1, <2>2
<1>15. Referenced'
  BY <1>2, <1>6 DEF Referenced, BaseInv
<1>16. BaseLoaded'
  <2>. SUFFICES ASSUME NEW r \in refs, Stale(r)'
                PROVE  Outgrown(r)'
    BY <1>2 DEF BaseLoaded
  <2>1. r.label \in DOMAIN defs' /\ defs'[r.label].page # r.page
        /\ ~defs'[r.label].reload
    BY DEF Stale
  <2>2. CASE r.label = l
    <3>1. pg.num = base /\ pg.num # r.page
      BY <1>8, <1>9, <1>10, <2>1, <2>2
    <3>2. base <= r.page /\ r.page <= pg.num /\ r.page \in Nat /\ base \in Nat
      BY <1>2 DEF Referenced, BaseInv, TypeOK, RefRecord
    <3>. QED
      BY <3>1, <3>2
  <2>3. CASE r.label # l
    <3>1. r.label \in DOMAIN defs /\ defs'[r.label] = defs[r.label]
      BY <1>8, <2>1, <2>3
    <3>2. Stale(r) => Outgrown(r)
      BY DEF BaseLoaded, BaseInv
    <3>. QED
      BY <2>1, <3>1, <3>2 DEF Stale, Outgrown
  <2>. QED
    BY <2>2, <2>3
<1>. QED
  BY <1>11, <1>12, <1>13, <1>14, <1>15, <1>16 DEF BaseInv

LEMMA EpilogueKeeps ==
  ASSUME TypeOK, BaseInv, Epilogue
  PROVE  BaseInv'
<1>. DEFINE p == CheckPage(CheckLabelEmit(pg), EpilogueCode, 0)
            q == Place(p, EpilogueCode, 0)
            r == [q EXCEPT !.num = @ + 1,
                           !.widest = Larger(@, q.bytes + q.pool)]
<1>1. /\ phase = "emit" /\ phase' = "idle" /\ base' = base /\ body' = body
      /\ addr' = addr /\ defs' = defs /\ refs' = refs /\ pg' = r
  BY DEF Epilogue, chain
<1>2. Counters /\ base \in Nat
  BY DEF BaseInv, TypeOK
<1>3. p \in PageState /\ CountersAt(p) /\ p.num >= pg.num
  BY <1>1, <1>2, CheckedCounters DEF EpilogueCode
<1>4. q \in PageState /\ CountersAt(q) /\ q.num = p.num
  BY <1>2, <1>3, PlaceKeeps DEF EpilogueCode
<1>. HIDE DEF q, p
<1>5. r.num = q.num + 1
  BY <1>4 DEF PageState
<1>6. Counters'
  <2>1. base <= q.num /\ q.num \in Nat
    BY <1>4, Fields DEF CountersAt
  <2>. HIDE DEF r
  <2>. QED
    BY <1>1, <1>2, <1>5, <2>1 DEF Counters
<1>. QED
  BY <1>1, <1>6 DEF BaseInv, Addresses, Scanned, Defined, Referenced,
     BaseLoaded, Stale, Outgrown

LEMMA PrologueKeeps ==
  ASSUME TypeOK, BaseInv, Prologue
  PROVE  BaseInv'
<1>. DEFINE p == [pg EXCEPT !.code = PrologueCode, !.lit = PrologueLit,
                            !.total = PrologueCode + PrologueLit,
                            !.bytes = PrologueCode, !.pool = PrologueLit,
                            !.widest = 0, !.lost = 0]
<1>1. /\ phase' = "scan" /\ body' = <<>> /\ DOMAIN defs' = {} /\ refs' = {}
      /\ base' = pg'.num /\ pg' = CheckPage(p, 0, 0)
  BY DEF Prologue, PrologueState
<1>2. /\ pg \in PageState /\ kase \in Nat /\ pg.num \in Nat
  BY Fields DEF TypeOK
<1>3. p.num = pg.num /\ p.code = 6 /\ p.lit = 4 /\ p.total = 10
  BY <1>2 DEF PageState, PrologueCode, PrologueLit
<1>4. p \in PageState
  <2>1. 0 \in Nat /\ 6 \in Nat /\ 4 \in Nat /\ 6 + 4 \in Nat
    OBVIOUS
  <2>. QED
    BY <1>2, <2>1, SetField, Zenon DEF PrologueCode, PrologueLit
<1>. HIDE DEF p
<1>5. pg'.num = pg.num /\ pg'.total = 10 /\ pg'.code = 6 /\ pg'.lit = 4
  <2>. DEFINE c == CheckPageIn(kase, p, 0, 0)
  <2>1. /\ c.total = p.total + 0 + 0
        /\ \/ p.code + 0 + p.lit + 0 > MaxPage
           \/ c.num = p.num /\ c.code = p.code + 0 /\ c.lit = p.lit + 0
    BY <1>2, <1>4, CheckPageInFields
  <2>2. pg' = c
    BY <1>1 DEF CheckPage
  <2>. HIDE DEF c
  <2>. QED
    BY <1>3, <2>1, <2>2, PagesAssumption
<1>6. Counters'
  BY <1>1, <1>2, <1>5 DEF Counters, CountersAt
<1>7. DOMAIN body' = {}
  BY <1>1
<1>. QED
  BY <1>1, <1>6, <1>7 DEF BaseInv, Addresses, Scanned, Defined, Referenced,
     BaseLoaded

(* One item of the label scan. *)
LEMMA AppendKeeps ==
  ASSUME TypeOK, BaseInv, NEW item \in AnyItem, NEW size \in Nat, Scanning,
         Append1(item, size), item.addr <= addr + size,
         \A i \in DOMAIN body : body[i].addr <= item.addr,
         \A l \in DOMAIN anchor :
           /\ l \in DOMAIN anchor' /\ anchor'[l].lastRef >= anchor[l].lastRef
           /\ anchor[l].addr = -1 \/ anchor'[l].addr = anchor[l].addr,
         \A l \in DOMAIN anchor' : anchor'[l].lastRef \in Int,
         item.op \notin {"insn", "tablejump", "label"} =>
           /\ item.label \in DOMAIN anchor'
           /\ anchor'[item.label].lastRef >= item.addr,
         item.op = "label" =>
           /\ item.label \in DOMAIN anchor'
           /\ anchor'[item.label].addr = item.addr
  PROVE  BaseInv'
<1>1. /\ phase = "scan" /\ phase' = "scan" /\ base' = base /\ pg' = pg
      /\ defs' = defs /\ refs' = refs /\ addr' = addr + size
      /\ body' = Append(body, item) /\ pos' = pos
  BY DEF Append1, Scanning, hist
<1>2. /\ addr \in Nat /\ body \in Seq(AnyItem) /\ item.addr \in Nat
  BY DEF TypeOK, AnyItem, InsnItem, LabelItem, TableItem
<1>3. /\ DOMAIN body' = DOMAIN body \cup {Len(body) + 1}
      /\ body'[Len(body) + 1] = item
      /\ \A i \in DOMAIN body : body'[i] = body[i] /\ i < Len(body) + 1
      /\ Len(body) + 1 \notin DOMAIN body
  BY <1>1, <1>2
<1>4. \A i \in DOMAIN body : body[i].addr \in Nat
  BY <1>2 DEF AnyItem, InsnItem, LabelItem, TableItem
<1>5. Counters'
  BY <1>1 DEF Counters, CountersAt, BaseInv
<1>6. Addresses'
  <2>1. \A i \in DOMAIN body : body[i].addr <= addr
    BY DEF Addresses, BaseInv
  <2>2. \A i \in DOMAIN body' : body'[i].addr <= addr + size
    BY <1>2, <1>3, <1>4, <2>1
  <2>3. \A i, j \in DOMAIN body' : i <= j => body'[i].addr <= body'[j].addr
    <3>. SUFFICES ASSUME NEW i \in DOMAIN body', NEW j \in DOMAIN body', i <= j
                  PROVE  body'[i].addr <= body'[j].addr
      OBVIOUS
    <3>1. CASE i \in DOMAIN body /\ j \in DOMAIN body
      BY <1>3, <3>1 DEF Addresses, BaseInv
    <3>2. CASE j = Len(body) + 1
      BY <1>2, <1>3, <1>4, <3>2
    <3>3. CASE i = Len(body) + 1 /\ j \in DOMAIN body
      BY <1>2, <1>3, <3>3
    <3>. QED
      BY <1>3, <3>1, <3>2, <3>3
  <2>. QED
    BY <1>1, <2>2, <2>3 DEF Addresses
<1>7. Scanned'
  <2>. SUFFICES ASSUME NEW i \in DOMAIN body'
                PROVE  /\ body'[i].op \notin {"insn", "tablejump", "label"} =>
                            /\ body'[i].label \in DOMAIN anchor'
                            /\ anchor'[body'[i].label].lastRef >= body'[i].addr
                       /\ body'[i].op = "label" =>
                            /\ body'[i].label \in DOMAIN anchor'
                            /\ anchor'[body'[i].label].addr = body'[i].addr
    BY <1>1 DEF Scanned
  <2>1. CASE i = Len(body) + 1
    BY <1>3, <2>1
  <2>2. CASE i \in DOMAIN body
    <3>1. /\ body[i].op \notin {"insn", "tablejump", "label"} =>
               /\ body[i].label \in DOMAIN anchor
               /\ anchor[body[i].label].lastRef >= body[i].addr
          /\ body[i].op = "label" =>
               /\ body[i].label \in DOMAIN anchor
               /\ anchor[body[i].label].addr = body[i].addr
      BY <1>1, <2>2 DEF Scanned, BaseInv
    <3>2. \A l \in DOMAIN anchor : anchor[l].lastRef \in Int
      BY DEF TypeOK, LabelNode
    <3>. QED
      BY <1>3, <1>4, <2>2, <3>1, <3>2
  <2>. QED
    BY <1>3, <2>1, <2>2
<1>8. Defined' /\ Referenced' /\ BaseLoaded'
  <2>1. DOMAIN defs = {} /\ refs = {}
    BY <1>1 DEF Defined, BaseInv
  <2>. QED
    BY <1>1, <2>1 DEF Defined, Referenced, BaseLoaded
<1>. QED
  BY <1>5, <1>6, <1>7, <1>8 DEF BaseInv

LEMMA RecordRefKeeps ==
  ASSUME TypeOK, NEW l \in Labels, NEW at \in Nat, RecordRef(l, at)
  PROVE  /\ l \in DOMAIN anchor' /\ anchor'[l].lastRef >= at
         /\ \A k \in DOMAIN anchor :
              /\ k \in DOMAIN anchor'
              /\ anchor'[k].lastRef >= anchor[k].lastRef
              /\ anchor'[k].addr = anchor[k].addr
         /\ \A k \in DOMAIN anchor' : anchor'[k].lastRef \in Int
<1>. DEFINE n == Node(l)
            m == [n EXCEPT !.lastRef = Larger(@, at)]
<1>1. anchor' = [k \in DOMAIN anchor \cup {l} |-> IF k = l THEN m ELSE anchor[k]]
  BY DEF RecordRef, PutNode
<1>2. n \in LabelNode /\ (l \in DOMAIN anchor => n = anchor[l])
  BY NodeType DEF Node
<1>3. /\ m.lastRef = Larger(n.lastRef, at) /\ m.addr = n.addr
      /\ n.lastRef \in Int
  BY <1>2 DEF LabelNode
<1>4. m.lastRef >= at /\ m.lastRef >= n.lastRef /\ m.lastRef \in Int
  BY <1>3 DEF Larger
<1>5. \A k \in DOMAIN anchor : anchor[k].lastRef \in Int
  BY DEF TypeOK, LabelNode
<1>. HIDE DEF m, n
<1>. QED
  BY <1>1, <1>2, <1>3, <1>4, <1>5

LEMMA EntryAddrOrder ==
  ASSUME TypeOK, BaseInv
  PROVE  /\ EntryAddr <= addr + 2 * Entry
         /\ \A i \in DOMAIN body : body[i].addr <= EntryAddr
<1>1. /\ addr \in Nat /\ Entry = 4 /\ body \in Seq(AnyItem)
      /\ \A i \in DOMAIN body : body[i].addr \in Nat
  BY DEF TypeOK, Entry, AnyItem, InsnItem, LabelItem, TableItem
<1>2. /\ \A i \in DOMAIN body : body[i].addr <= addr
      /\ \A i, j \in DOMAIN body : i <= j => body[i].addr <= body[j].addr
  BY DEF BaseInv, Addresses
<1>3. CASE Last = "entry"
  <2>1. EntryAddr = body[Len(body)].addr + 4
    BY <1>1, <1>3 DEF EntryAddr
  <2>2. body # <<>>
    BY <1>3 DEF Last
  <2>3. /\ Len(body) \in DOMAIN body
        /\ \A i \in DOMAIN body : i <= Len(body)
    BY <1>1, <2>2
  <2>. QED
    BY <1>1, <1>2, <2>1, <2>3
<1>4. CASE Last # "entry"
  <2>1. EntryAddr = addr + 4
    BY <1>1, <1>4 DEF EntryAddr
  <2>. QED
    BY <1>1, <1>2, <2>1
<1>. QED
  BY <1>3, <1>4

LEMMA ScanKeeps ==
  ASSUME TypeOK, BaseInv, Scan
  PROVE  BaseInv'
<1>0. /\ addr \in Nat /\ addr >= addr /\ BranchOps \subseteq {"b", "bct", "addb"}
      /\ \A l \in DOMAIN anchor : /\ anchor[l].lastRef \in Int
                                  /\ anchor[l].lastRef >= anchor[l].lastRef
  BY PagesAssumption DEF TypeOK, LabelNode
<1>a. \A i \in DOMAIN body : body[i].addr <= addr
  BY DEF BaseInv, Addresses
<1>1. CASE ScanEnd
  <2>1. /\ phase = "scan" /\ phase' = "emit" /\ base' = base /\ pg' = pg
        /\ defs' = defs /\ refs' = refs /\ addr' = addr /\ body' = body
        /\ anchor' = anchor
    BY <1>1 DEF ScanEnd, hist, chain
  <2>2. DOMAIN defs = {} /\ refs = {}
    BY <2>1 DEF Defined, BaseInv
  <2>. QED
    BY <2>1, <2>2 DEF BaseInv, Counters, CountersAt, Addresses, Scanned,
       Defined, Referenced, BaseLoaded
<1>2. ASSUME NEW k \in Kinds, ScanInsn(k)
      PROVE  BaseInv'
  <2>. DEFINE item == [op |-> "insn", kind |-> k, addr |-> addr]
  <2>1. item \in AnyItem /\ item.op = "insn" /\ item.addr = addr
    BY <1>0 DEF AnyItem, InsnItem
  <2>2. Attr[k].length \in Nat /\ item.addr <= addr + Attr[k].length
    BY <1>0, PagesAssumption
  <2>3. /\ Scanning /\ Append1(item, Attr[k].length) /\ anchor' = anchor
    BY <1>2 DEF ScanInsn
  <2>. HIDE DEF item
  <2>. QED
    BY <1>0, <1>a, <2>1, <2>2, <2>3, AppendKeeps
<1>3. ASSUME NEW l \in Labels, ScanLabel(l)
      PROVE  BaseInv'
  <2>. DEFINE item == [op |-> "label", label |-> l, addr |-> addr]
              m == [Node(l) EXCEPT !.addr = addr]
  <2>1. item \in AnyItem /\ item.op = "label" /\ item.addr = addr
        /\ item.label = l
    BY <1>0 DEF AnyItem, LabelItem
  <2>2. /\ Scanning /\ Append1(item, 0) /\ Node(l).addr = -1
        /\ anchor' = [k \in DOMAIN anchor \cup {l} |->
                        IF k = l THEN m ELSE anchor[k]]
    BY <1>3 DEF ScanLabel, PutNode
  <2>3. Node(l) \in LabelNode
    BY NodeType
  <2>4. /\ m.addr = addr /\ m.lastRef = Node(l).lastRef
        /\ Node(l).lastRef \in Int
    BY <1>0, <2>3 DEF LabelNode
  <2>5. l \in DOMAIN anchor => Node(l) = anchor[l]
    BY DEF Node
  <2>. HIDE DEF item, m
  <2>6. \A k \in DOMAIN anchor :
          /\ k \in DOMAIN anchor' /\ anchor'[k].lastRef >= anchor[k].lastRef
          /\ anchor[k].addr = -1 \/ anchor'[k].addr = anchor[k].addr
    BY <1>0, <2>2, <2>4, <2>5
  <2>7. /\ \A k \in DOMAIN anchor' : anchor'[k].lastRef \in Int
        /\ l \in DOMAIN anchor' /\ anchor'[l].addr = addr
    BY <1>0, <2>2, <2>4, <2>5
  <2>8. addr <= addr + 0
    BY <1>0
  <2>. QED
    BY <1>0, <1>a, <2>1, <2>2, <2>6, <2>7, <2>8, AppendKeeps
<1>4. ASSUME NEW l \in Labels, ScanEntry(l)
      PROVE  BaseInv'
  <2>. DEFINE item == [op |-> "entry", label |-> l, addr |-> EntryAddr]
  <2>0. EntryAddr \in Nat /\ 2 * Entry \in Nat
    BY EntryAddrType DEF Entry
  <2>1. item \in AnyItem /\ item.op = "entry" /\ item.addr = EntryAddr
        /\ item.label = l
    BY <2>0 DEF AnyItem, LabelItem
  <2>2. /\ Scanning /\ Append1(item, 2 * Entry) /\ RecordRef(l, EntryAddr)
    BY <1>4 DEF ScanEntry
  <2>3. /\ EntryAddr <= addr + 2 * Entry
        /\ \A i \in DOMAIN body : body[i].addr <= EntryAddr
    BY EntryAddrOrder
  <2>. HIDE DEF item
  <2>. QED
    BY <1>0, <2>0, <2>1, <2>2, <2>3, RecordRefKeeps, AppendKeeps
<1>5. ASSUME NEW l \in Labels, NEW op \in BranchOps, ScanBranch(op, l)
      PROVE  BaseInv'
  <2>. DEFINE item == [op |-> op, label |-> l, addr |-> addr]
  <2>0. BranchLength(op) \in Nat /\ addr <= addr + BranchLength(op)
        /\ op \notin {"insn", "tablejump", "label"}
    BY <1>0 DEF BranchLength
  <2>1. item \in AnyItem /\ item.op = op /\ item.addr = addr
        /\ item.label = l
    BY <1>0 DEF AnyItem, LabelItem
  <2>2. /\ Scanning /\ Append1(item, BranchLength(op)) /\ RecordRef(l, addr)
    BY <1>5 DEF ScanBranch
  <2>. HIDE DEF item
  <2>. QED
    BY <1>0, <1>a, <2>0, <2>1, <2>2, RecordRefKeeps, AppendKeeps
<1>6. CASE ScanTableJump
  <2>. DEFINE item == [op |-> "tablejump", addr |-> addr]
  <2>1. item \in AnyItem /\ item.op = "tablejump" /\ item.addr = addr
    BY <1>0 DEF AnyItem, TableItem
  <2>2. /\ Scanning /\ Append1(item, TableJumpLength) /\ anchor' = anchor
        /\ TableJumpLength \in Nat /\ addr <= addr + TableJumpLength
    BY <1>0, <1>6 DEF ScanTableJump, TableJumpLength
  <2>. HIDE DEF item
  <2>. QED
    BY <1>0, <1>a, <2>1, <2>2, AppendKeeps
<1>7. ASSUME NEW k \in AddressKinds, NEW l \in Labels, ScanAddress(k, l)
      PROVE  BaseInv'
  <2>. DEFINE item == [op |-> "insn", kind |-> k, addr |-> addr]
  <2>1. item \in AnyItem /\ item.op = "insn" /\ item.addr = addr
    BY <1>0, PagesAssumption DEF AnyItem, InsnItem
  <2>2. Attr[k].length \in Nat /\ item.addr <= addr + Attr[k].length
    BY <1>0, PagesAssumption
  <2>3. /\ Scanning /\ Append1(item, Attr[k].length) /\ RecordRef(l, addr)
    BY <1>7 DEF ScanAddress
  <2>. HIDE DEF item
  <2>. QED
    BY <1>0, <1>a, <2>1, <2>2, <2>3, RecordRefKeeps, AppendKeeps
<1>. QED
  BY <1>1, <1>2, <1>3, <1>4, <1>5, <1>6, <1>7 DEF Scan

(* Whatever the instructions, the page sizes and the order of labels, jumps and
   case tables: a jump can only reach a label with the wrong base register when
   the code between label and jump outgrew the length attributes by more than
   the margin MAX_MVS_PAGE_LENGTH - MVS_PAGE_CONSERVATIVE. *)
THEOREM BaseRegisterSafe == Spec => []BaseLoaded
<1>1. Init => BaseInv
  BY DEF Init, BaseInv, Counters, Addresses, Scanned, Defined, Referenced,
     BaseLoaded
<1>2. TypeOK /\ BaseInv /\ [Next]_vars => BaseInv'
  <2>. SUFFICES ASSUME TypeOK, BaseInv, [Next]_vars
                PROVE  BaseInv'
    OBVIOUS
  <2>1. CASE Prologue
    BY <2>1, PrologueKeeps
  <2>2. CASE Scan
    BY <2>2, ScanKeeps
  <2>3. CASE Emit
    BY <2>3, EmitInsnKeeps, EmitLabelKeeps, EmitBranchKeeps, EmitBctKeeps,
       EmitAddBranchKeeps, EmitTableJumpKeeps, EmitEntryKeeps DEF Emit
  <2>4. CASE Epilogue
    BY <2>4, EpilogueKeeps
  <2>5. CASE UNCHANGED vars
    BY <2>5 DEF vars, BaseInv, Counters, CountersAt, Addresses, Scanned,
       Defined, Undisturbed, Referenced, BaseLoaded, Stale, Outgrown
  <2>. QED
    BY <2>1, <2>2, <2>3, <2>4, <2>5 DEF Next, Finished
<1>3. BaseInv => BaseLoaded
  BY DEF BaseInv
<1>. QED
  BY <1>1, <1>2, <1>3, TypeCorrect, PTL DEF Spec
=============================================================================
