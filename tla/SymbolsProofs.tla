--------------------------- MODULE SymbolsProofs ---------------------------
(* Proofs about Symbols: a name keeps its symbol, for any set of names and
   any length of the unit. *)
EXTENDS Symbols, SequenceTheorems, TLAPS

Sym  == {Public(n) : n \in Names} \cup {Private(k) : k \in Nat}
Rtls == {NoRtl} \cup [sym : Sym, flag : BOOLEAN]
Node == [declared : BOOLEAN, public : BOOLEAN, external : BOOLEAN,
         init : BOOLEAN, written : BOOLEAN, rtl : Rtls]
AnItem == [name : Names, via : {"file", "block", "local"}, offset : {0, 4}]

Compiling == {"body", "expand", "init", "data"}

(* The state has nodes where the source text has declarations ... *)
NodesOK ==
  /\ top \in [Names -> Node] /\ limbo \in [Names -> Node]
  /\ block \in [Names -> Node]
  /\ varLabelno \in Nat /\ phase \in Phases
  /\ items \in Seq(AnItem)

(* ... and only a declared name has a symbol. *)
Unnamed == \A n \in Names : ~top[n].declared => top[n].rtl = NoRtl

(* What is compiled is declared at file scope, and so is what it refers to
   there; an open block belongs to a function. *)
CurrentDeclared ==
  phase \in Compiling => current \in Names /\ top[current].declared

ItemsDeclared ==
  \A i \in 1 .. Len(items) : items[i].via = "file" =>
                               top[items[i].name].declared

DataItems ==
  phase \in {"init", "data"} =>
    \A i \in 1 .. Len(items) : items[i].via = "file"

BlockOpen ==
  phase \notin {"body", "expand"} => \A n \in Names : ~block[n].declared

Inv == NodesOK /\ Unnamed /\ CurrentDeclared /\ ItemsDeclared /\ DataItems
       /\ BlockOpen

(* The declared names only grow, and a symbol once made is kept. *)
Grows == \A n \in Names : /\ top[n].declared => top'[n].declared
                          /\ top[n].rtl # NoRtl => top'[n].rtl = top[n].rtl
---------------------------------------------------------------------------
(* The nodes the operators of Symbols build. *)

LEMMA NewDeclNode ==
  ASSUME NEW public \in BOOLEAN, NEW external \in BOOLEAN, NEW init \in BOOLEAN
  PROVE  /\ NewDecl(public, external, init) \in Node
         /\ NewDecl(public, external, init).declared
         /\ NewDecl(public, external, init).rtl = NoRtl
BY DEF NewDecl, Node, Rtls

LEMMA NoDeclNode == NoDecl \in Node /\ ~NoDecl.declared /\ NoDecl.rtl = NoRtl
BY DEF NoDecl, Node, Rtls

LEMMA RtlType ==
  ASSUME NEW d \in Node, NEW n \in Names, NEW k \in Nat
  PROVE  /\ Rtl(d, n, k) \in Rtls
         /\ d.rtl # NoRtl => Rtl(d, n, k) = d.rtl
<1>1. d.rtl \in Rtls /\ Encode(d) \in BOOLEAN
  BY DEF Node, Encode
<1>2. Public(n) \in Sym /\ Private(k) \in Sym
  BY DEF Sym
<1>3. CASE d.rtl # NoRtl
  BY <1>1, <1>3 DEF Rtl
<1>4. CASE d.rtl = NoRtl
  <2>1. (IF d.public THEN Public(n) ELSE Private(k)) \in Sym
    BY <1>2
  <2>2. [sym |-> IF d.public THEN Public(n) ELSE Private(k),
         flag |-> Encode(d)] \in [sym : Sym, flag : BOOLEAN]
    BY <1>1, <2>1
  <2> QED
    BY <1>4, <2>2 DEF Rtl, Rtls
<1> QED
  BY <1>3, <1>4

LEMMA WithRtlNode ==
  ASSUME NEW d \in Node, NEW n \in Names, NEW k \in Nat
  PROVE  /\ WithRtl(d, n, k) \in Node
         /\ WithRtl(d, n, k).declared = d.declared
         /\ d.rtl # NoRtl => WithRtl(d, n, k).rtl = d.rtl
<1>1. /\ Rtl(d, n, k) \in Rtls
      /\ d.rtl # NoRtl => Rtl(d, n, k) = d.rtl
  BY RtlType
<1> QED
  BY <1>1 DEF WithRtl, Node

LEMMA LabelnoType ==
  ASSUME NEW d, NEW k \in Nat
  PROVE  NextLabelno(d, k) \in Nat
BY DEF NextLabelno

LEMMA MergeNode ==
  ASSUME NEW n \in Names, NEW old \in Node, NEW new \in Node
  PROVE  /\ Merge(n, old, new) \in Node
         /\ Merge(n, old, new).declared = old.declared
         /\ Merge(n, old, new).rtl = old.rtl
<1>1. MergePublic(n, old, new) \in BOOLEAN
  BY DEF MergePublic, Node
<1>2. KeepRtl(old, new) \in Rtls /\ KeepRtl(old, new) = old.rtl
  BY DEF KeepRtl, Node
<1> QED
  BY <1>1, <1>2 DEF Merge, Node

LEMMA MergeOuterNode ==
  ASSUME NEW old \in Node, NEW new \in Node
  PROVE  /\ MergeOuter(old, new) \in Node
         /\ MergeOuter(old, new).declared = new.declared
BY DEF MergeOuter, Node

(* What an update of one file-scope node keeps. *)
LEMMA SetTop ==
  ASSUME NodesOK, Unnamed, NEW n \in Names, NEW d \in Node,
         top' = [top EXCEPT ![n] = d],
         d.declared, top[n].rtl # NoRtl => d.rtl = top[n].rtl
  PROVE  top' \in [Names -> Node] /\ Unnamed' /\ Grows
BY DEF NodesOK, Unnamed, Grows

LEMMA PushTopKeeps ==
  ASSUME NodesOK, Unnamed, NEW n \in Names, NEW new \in Node,
         new.declared, new.rtl = NoRtl, PushTop(n, new)
  PROVE  /\ top' \in [Names -> Node] /\ limbo' \in [Names -> Node]
         /\ Unnamed' /\ Grows /\ top'[n].declared
<1> DEFINE d == IF top[n].declared THEN Merge(n, top[n], new)
                ELSE IF new.external /\ new.public /\ limbo[n].declared
                THEN MergeOuter(limbo[n], new)
                ELSE new
<1>1. top' = [top EXCEPT ![n] = d]
  BY DEF PushTop
<1>2. top[n] \in Node /\ limbo[n] \in Node
  BY DEF NodesOK
<1>3. d \in Node /\ d.declared
  BY <1>2, MergeNode, MergeOuterNode
<1>4. top[n].rtl # NoRtl => d.rtl = top[n].rtl
  <2> SUFFICES ASSUME top[n].rtl # NoRtl PROVE d.rtl = top[n].rtl
    OBVIOUS
  <2>1. top[n].declared
    BY DEF Unnamed
  <2> QED
    BY <1>2, <2>1, MergeNode
<1> HIDE DEF d
<1>5. top' \in [Names -> Node] /\ Unnamed' /\ Grows
  BY <1>1, <1>3, <1>4, SetTop
<1>6. top'[n].declared
  BY <1>1, <1>3 DEF NodesOK
<1>7. limbo' \in [Names -> Node]
  BY NoDeclNode DEF PushTop, NodesOK
<1> QED
  BY <1>5, <1>6, <1>7
(* References added to, and taken from, the list of the open definition. *)
LEMMA ItemTypes ==
  ASSUME NodesOK
  PROVE  \A j \in 1 .. Len(items) : items[j] \in AnItem
                                   /\ items[j].name \in Names
<1>1. items \in [1 .. Len(items) -> AnItem]
  BY LenProperties DEF NodesOK
<1>2. \A j \in 1 .. Len(items) : items[j] \in AnItem
  BY <1>1
<1> QED
  BY <1>2 DEF AnItem

LEMMA AppendItem ==
  ASSUME NodesOK, ItemsDeclared, NEW item \in AnItem,
         items' = Append(items, item), NodesOK', Grows,
         item.via = "file" => top'[item.name].declared
  PROVE  ItemsDeclared'
<1> SUFFICES ASSUME NEW i \in 1 .. Len(items'), items'[i].via = "file"
             PROVE  top'[items'[i].name].declared
  BY DEF ItemsDeclared
<1>1. /\ Len(items') = Len(items) + 1
      /\ items'[Len(items) + 1] = item
      /\ \A j \in 1 .. Len(items) : items'[j] = items[j] /\ items[j] \in AnItem
  BY DEF NodesOK
<1>2. CASE i = Len(items) + 1
  BY <1>1, <1>2
<1>3. CASE i \in 1 .. Len(items)
  <2>1. items'[i] = items[i] /\ items[i].name \in Names
    BY <1>1, <1>3 DEF AnItem
  <2>2. top[items[i].name].declared
    BY <1>3, <2>1 DEF ItemsDeclared
  <2> QED
    BY <2>1, <2>2 DEF Grows
<1> QED
  BY <1>1, <1>2, <1>3 DEF NodesOK

LEMMA TailItem ==
  ASSUME NodesOK, ItemsDeclared, DataItems, items # <<>>,
         items' = Tail(items), phase' = phase, NodesOK', Grows
  PROVE  ItemsDeclared' /\ DataItems'
<1>1. /\ Len(items) \in Nat \ {0} /\ Len(items') = Len(items) - 1
      /\ \A j \in 1 .. Len(items') : /\ items'[j] = items[j + 1]
                                     /\ j + 1 \in 1 .. Len(items)
                                     /\ items[j + 1].name \in Names
  <2>1. items \in Seq(AnItem)
    BY DEF NodesOK
  <2>2. /\ Tail(items) \in Seq(AnItem) /\ Len(Tail(items)) = Len(items) - 1
        /\ \A j \in 1 .. Len(Tail(items)) : Tail(items)[j] = items[j + 1]
    BY <2>1, HeadTailProperties
  <2>3. Len(items) \in Nat \ {0}
    BY <2>1, <2>2, LenProperties, EmptySeq
  <2>4. \A j \in 1 .. Len(items) : items[j].name \in Names
    BY ItemTypes
  <2> DEFINE t == Tail(items)
  <2>5. t = items'
    OBVIOUS
  <2> HIDE DEF t
  <2>6. Len(t) = Len(items) - 1
        /\ \A j \in 1 .. Len(t) : t[j] = items[j + 1]
    BY <2>2 DEF t
  <2>7. \A j \in 1 .. Len(t) : j + 1 \in 1 .. Len(items)
    BY <2>3, <2>6
  <2>8. \A j \in 1 .. Len(t) : items[j + 1].name \in Names
    BY <2>4, <2>7
  <2> QED
    BY <2>3, <2>5, <2>6, <2>7, <2>8
<1>2. ItemsDeclared'
  BY <1>1 DEF ItemsDeclared, Grows
<1>3. DataItems'
  BY <1>1 DEF DataItems
<1> QED
  BY <1>2, <1>3

LEMMA HeadItem ==
  ASSUME NodesOK, ItemsDeclared, items # <<>>
  PROVE  /\ Head(items) \in AnItem /\ Tail(items) \in Seq(AnItem)
         /\ Head(items).name \in Names
         /\ Head(items).via = "file" => top[Head(items).name].declared
<1>1. items \in Seq(AnItem)
  BY DEF NodesOK
<1>2. Head(items) \in AnItem /\ Tail(items) \in Seq(AnItem)
  BY <1>1, HeadTailProperties
<1>3. Head(items) = items[1]
  OBVIOUS
<1>4. 1 \in 1 .. Len(items)
  <2>1. Len(items) \in Nat \ {0}
    BY <1>1, EmptySeq
  <2> QED
    BY <2>1
<1>5. Head(items).name \in Names
  BY <1>2 DEF AnItem
<1>6. Head(items).via = "file" => top[Head(items).name].declared
  BY <1>3, <1>4 DEF ItemsDeclared
<1> QED
  BY <1>2, <1>5, <1>6

(* Steps that leave the declarations alone, or only declare more. *)
LEMMA SameItems ==
  ASSUME NodesOK, ItemsDeclared, Grows, items' = items
  PROVE  ItemsDeclared'
<1>1. \A j \in 1 .. Len(items) : items[j].name \in Names
  BY ItemTypes
<1>2. \A j \in 1 .. Len(items) :
        items[j].via = "file" => top'[items[j].name].declared
  BY <1>1 DEF ItemsDeclared, Grows
<1> QED
  BY <1>2 DEF ItemsDeclared

LEMMA SameTop ==
  ASSUME Unnamed, UNCHANGED top
  PROVE  Unnamed' /\ Grows
BY DEF Unnamed, Grows

LEMMA InitInv == Init => Inv
<1> SUFFICES ASSUME Init PROVE Inv
  OBVIOUS
<1>1. NodesOK
  BY NoDeclNode DEF Init, NodesOK, Phases
<1>2. Unnamed
  BY NoDeclNode DEF Init, Unnamed
<1>3. CurrentDeclared /\ ItemsDeclared /\ DataItems
  BY DEF Init, CurrentDeclared, Compiling, ItemsDeclared, DataItems
<1>4. BlockOpen
  BY NoDeclNode DEF Init, BlockOpen
<1> QED
  BY <1>1, <1>2, <1>3, <1>4 DEF Inv

(* A declaration at file scope. *)
LEMMA FileDeclaration ==
  ASSUME Inv, NEW n \in Names, NEW new \in Node, new.declared,
         new.rtl = NoRtl, PushTop(n, new), phase = "file",
         UNCHANGED <<block, varLabelno, control>>
  PROVE  Inv' /\ Grows
<1>1. /\ top' \in [Names -> Node] /\ limbo' \in [Names -> Node]
      /\ Unnamed' /\ Grows
  BY PushTopKeeps DEF Inv
<1>2. NodesOK'
  BY <1>1 DEF Inv, NodesOK, control
<1>3. ItemsDeclared'
  BY <1>1, SameItems DEF Inv, control
<1>4. CurrentDeclared' /\ DataItems' /\ BlockOpen'
  BY DEF Inv, CurrentDeclared, Compiling, DataItems, BlockOpen, control
<1> QED
  BY <1>1, <1>2, <1>3, <1>4 DEF Inv

LEMMA DeclareFunctionInv ==
  ASSUME Inv, NEW n \in Names, NEW static \in BOOLEAN,
         DeclareFunction(n, static)
  PROVE  Inv' /\ Grows
<1>1. /\ NewDecl(~static, TRUE, FALSE) \in Node
      /\ NewDecl(~static, TRUE, FALSE).declared
      /\ NewDecl(~static, TRUE, FALSE).rtl = NoRtl
  BY NewDeclNode
<1> QED
  BY <1>1, FileDeclaration DEF DeclareFunction

LEMMA DeclareVarInv ==
  ASSUME Inv, NEW n \in Names, NEW class, DeclareVar(n, class)
  PROVE  Inv' /\ Grows
<1> DEFINE new == NewDecl(class # "static", class = "extern", FALSE)
<1>1. new \in Node /\ new.declared /\ new.rtl = NoRtl
  BY NewDeclNode
<1>2. /\ PushTop(n, new) /\ phase = "file"
      /\ UNCHANGED <<block, varLabelno, control>>
  BY DEF DeclareVar
<1> HIDE DEF new
<1> QED
  BY <1>1, <1>2, FileDeclaration

LEMMA StartVarInv ==
  ASSUME Inv, NEW n \in Names, NEW static \in BOOLEAN, StartVar(n, static)
  PROVE  Inv' /\ Grows
<1> DEFINE new == NewDecl(~static, FALSE, TRUE)
<1>1. new \in Node /\ new.declared /\ new.rtl = NoRtl
  BY NewDeclNode
<1>2. /\ PushTop(n, new) /\ phase = "file" /\ phase' = "init"
      /\ current' = n /\ items' = <<>> /\ UNCHANGED <<block, varLabelno>>
  BY DEF StartVar
<1> HIDE DEF new
<1>3. /\ top' \in [Names -> Node] /\ limbo' \in [Names -> Node]
      /\ Unnamed' /\ Grows /\ top'[n].declared
  BY <1>1, <1>2, PushTopKeeps DEF Inv
<1>4. NodesOK'
  BY <1>2, <1>3 DEF Inv, NodesOK, Phases
<1>5. CurrentDeclared' /\ ItemsDeclared' /\ DataItems'
  BY <1>2, <1>3 DEF CurrentDeclared, ItemsDeclared, DataItems
<1>6. BlockOpen'
  BY <1>2 DEF Inv, BlockOpen
<1> QED
  BY <1>3, <1>4, <1>5, <1>6 DEF Inv

LEMMA StartFunctionInv ==
  ASSUME Inv, NEW n \in Names, NEW static \in BOOLEAN,
         StartFunction(n, static)
  PROVE  Inv' /\ Grows
<1> DEFINE new  == NewDecl(~static, FALSE, TRUE)
           node == IF top[n].declared THEN Merge(n, top[n], new) ELSE new
           d    == WithRtl(node, n, varLabelno)
<1>1. new \in Node /\ new.declared
  BY NewDeclNode
<1>2. top[n] \in Node /\ varLabelno \in Nat
  BY DEF Inv, NodesOK
<1>3. node \in Node /\ node.declared
  BY <1>1, <1>2, MergeNode
<1>4. top[n].rtl # NoRtl => node.rtl = top[n].rtl
  <2> SUFFICES ASSUME top[n].rtl # NoRtl PROVE node.rtl = top[n].rtl
    OBVIOUS
  <2>1. top[n].declared
    BY DEF Inv, Unnamed
  <2> QED
    BY <1>1, <1>2, <2>1, MergeNode
<1>5. /\ phase = "file" /\ top' = [top EXCEPT ![n] = d]
      /\ varLabelno' = NextLabelno(node, varLabelno)
      /\ limbo' = IF top[n].declared THEN limbo
                  ELSE [limbo EXCEPT ![n] = NoDecl]
      /\ phase' = "body" /\ current' = n /\ items' = <<>>
      /\ UNCHANGED block
  BY DEF StartFunction
<1> HIDE DEF node, new
<1>6. d \in Node /\ d.declared /\ (node.rtl # NoRtl => d.rtl = node.rtl)
  BY <1>2, <1>3, WithRtlNode
<1>7. top[n].rtl # NoRtl => d.rtl = top[n].rtl
  BY <1>4, <1>6
<1> HIDE DEF d
<1>8. top' \in [Names -> Node] /\ Unnamed' /\ Grows
  BY <1>5, <1>6, <1>7, SetTop DEF Inv
<1>9. top'[n].declared
  BY <1>5, <1>6 DEF Inv, NodesOK
<1>10. NodesOK'
  <2>1. varLabelno' \in Nat
    BY <1>2, <1>5, LabelnoType
  <2>2. limbo' \in [Names -> Node]
    BY <1>5, NoDeclNode DEF Inv, NodesOK
  <2> QED
    BY <1>5, <1>8, <2>1, <2>2 DEF Inv, NodesOK, Phases
<1>11. CurrentDeclared' /\ ItemsDeclared' /\ DataItems' /\ BlockOpen'
  BY <1>5, <1>9 DEF CurrentDeclared, ItemsDeclared, DataItems, BlockOpen
<1> QED
  BY <1>8, <1>10, <1>11 DEF Inv
---------------------------------------------------------------------------
(* The body of a function, and initializers. *)

LEMMA BlockNodeType ==
  ASSUME NodesOK, NEW n \in Names
  PROVE  BlockNode(n) \in Node
<1>1. NewDecl(TRUE, TRUE, FALSE) \in Node
  BY NewDeclNode
<1>2. OuterNode(n) \in Node
  BY DEF NodesOK, OuterNode
<1>3. MergeOuter(OuterNode(n), NewDecl(TRUE, TRUE, FALSE)) \in Node
  BY <1>1, <1>2, MergeOuterNode
<1> QED
  BY <1>1, <1>3 DEF BlockNode

LEMMA TouchNode ==
  ASSUME NodesOK, NEW n \in Names, NEW d \in Node
  PROVE  /\ Touch(d, n) \in Node
         /\ Touch(d, n).declared = d.declared
         /\ d.rtl # NoRtl => Touch(d, n).rtl = d.rtl
<1>1. varLabelno \in Nat
  BY DEF NodesOK
<1> QED
  BY <1>1, WithRtlNode DEF Touch

LEMMA DeclareBlockInv ==
  ASSUME Inv, NEW n \in Names, DeclareBlock(n)
  PROVE  Inv' /\ Grows
<1>1. NodesOK'
  BY BlockNodeType DEF Inv, NodesOK, DeclareBlock, control
<1>2. Unnamed' /\ Grows
  BY SameTop DEF Inv, DeclareBlock
<1>3. ItemsDeclared'
  BY <1>2, SameItems DEF Inv, DeclareBlock, control
<1>4. CurrentDeclared' /\ DataItems' /\ BlockOpen'
  BY DEF Inv, CurrentDeclared, DataItems, BlockOpen, DeclareBlock, control
<1> QED
  BY <1>1, <1>2, <1>3, <1>4 DEF Inv

(* A new item of the list, when a node of the name may have got its symbol. *)
LEMMA AddItem ==
  ASSUME Inv, phase \in {"body", "init"}, NEW item \in AnItem,
         items' = Append(items, item), UNCHANGED <<phase, current>>,
         NodesOK', Unnamed', Grows,
         item.via = "file" => top'[item.name].declared,
         phase = "init" => item.via = "file" /\ UNCHANGED block
  PROVE  Inv'
<1>1. ItemsDeclared'
  BY AppendItem DEF Inv
<1>2. CurrentDeclared'
  BY DEF Inv, CurrentDeclared, Grows
<1>3. BlockOpen'
  BY DEF Inv, BlockOpen
<1>4. DataItems'
  <2>1. /\ Len(items') = Len(items) + 1
        /\ items'[Len(items) + 1] = item
        /\ \A j \in 1 .. Len(items) : items'[j] = items[j]
        /\ Len(items) \in Nat
    BY DEF Inv, NodesOK
  <2>2. \A j \in 1 .. Len(items') :
          j \in 1 .. Len(items) \/ j = Len(items) + 1
    BY <2>1
  <2> QED
    BY <2>1, <2>2 DEF Inv, DataItems
<1> QED
  BY <1>1, <1>2, <1>3, <1>4 DEF Inv

LEMMA ReferInv ==
  ASSUME Inv, NEW n \in Names, NEW offset \in {0, 4}, Refer(n, offset)
  PROVE  Inv' /\ Grows
<1>1. /\ phase \in {"body", "init"}
      /\ UNCHANGED <<limbo, varLabelno, phase, current>>
      /\ NodesOK /\ top[n] \in Node /\ block[n] \in Node
  BY DEF Refer, Inv, NodesOK
<1>2. CASE block[n].declared
  <2> DEFINE d == Touch(block[n], n)   item == Item(n, "block", offset)
  <2>1. /\ UNCHANGED top /\ block' = [block EXCEPT ![n] = d]
        /\ items' = Append(items, item)
    BY <1>2 DEF Refer
  <2>2. d \in Node /\ item \in AnItem
    BY <1>1, TouchNode DEF Item, AnItem
  <2>3. item.via = "block"
    BY DEF Item
  <2> HIDE DEF d, item
  <2>4. NodesOK'
    BY <1>1, <2>1, <2>2 DEF NodesOK
  <2>5. Unnamed' /\ Grows
    BY <2>1, SameTop DEF Inv
  <2>6. phase # "init"
    BY <1>2 DEF Inv, BlockOpen
  <2> QED
    BY <1>1, <2>1, <2>2, <2>3, <2>4, <2>5, <2>6, AddItem
<1>3. CASE ~block[n].declared
  <2> DEFINE d == Touch(top[n], n)   item == Item(n, "file", offset)
  <2>1. /\ top[n].declared /\ top' = [top EXCEPT ![n] = d]
        /\ items' = Append(items, item) /\ UNCHANGED block
    BY <1>3 DEF Refer
  <2>2. /\ d \in Node /\ d.declared
        /\ top[n].rtl # NoRtl => d.rtl = top[n].rtl
    BY <1>1, <2>1, TouchNode
  <2>3. item \in AnItem /\ item.via = "file" /\ item.name = n
    BY DEF Item, AnItem
  <2> HIDE DEF d, item
  <2>4. top' \in [Names -> Node] /\ Unnamed' /\ Grows
    BY <2>1, <2>2, SetTop DEF Inv
  <2>5. NodesOK'
    BY <1>1, <2>1, <2>3, <2>4 DEF NodesOK
  <2>6. top'[item.name].declared
    BY <2>1, <2>2, <2>3 DEF Inv, NodesOK
  <2> QED
    BY <1>1, <2>1, <2>3, <2>4, <2>5, <2>6, AddItem
<1> QED
  BY <1>2, <1>3

LEMMA CallImplicitInv ==
  ASSUME Inv, NEW n \in Names, CallImplicit(n)
  PROVE  Inv' /\ Grows
<1> DEFINE d == Touch(BlockNode(n), n)   item == Item(n, "block", 0)
<1>1. /\ phase = "body" /\ UNCHANGED <<top, limbo, varLabelno, phase, current>>
      /\ block' = [block EXCEPT ![n] = d] /\ items' = Append(items, item)
      /\ NodesOK
  BY DEF CallImplicit, Inv
<1>2. d \in Node /\ item \in AnItem /\ item.via = "block"
  BY <1>1, BlockNodeType, TouchNode DEF Item, AnItem
<1> HIDE DEF d, item
<1>3. NodesOK'
  BY <1>1, <1>2 DEF NodesOK
<1>4. Unnamed' /\ Grows
  BY <1>1, SameTop DEF Inv
<1> QED
  BY <1>1, <1>2, <1>3, <1>4, AddItem

LEMMA DeclareLocalInv ==
  ASSUME Inv, DeclareLocal
  PROVE  Inv' /\ Grows
<1> DEFINE item == Item(current, "local", 0)
<1>1. /\ phase = "body" /\ UNCHANGED <<decls, phase, current>>
      /\ items' = Append(items, item)
  BY DEF DeclareLocal
<1>2. item \in AnItem /\ item.via = "local"
  BY <1>1 DEF Item, AnItem, Inv, CurrentDeclared, Compiling
<1> HIDE DEF item
<1>3. NodesOK'
  BY <1>1, <1>2 DEF Inv, NodesOK, decls
<1>4. Unnamed' /\ Grows
  BY <1>1, SameTop DEF Inv, decls
<1> QED
  BY <1>1, <1>2, <1>3, <1>4, AddItem DEF decls

LEMMA ExpandRefInv ==
  ASSUME Inv, ExpandRef
  PROVE  Inv' /\ Grows
<1> DEFINE i == Head(items)
           n == i.name
<1>1. /\ NodesOK /\ ItemsDeclared /\ items # <<>> /\ phase = "expand"
      /\ items' = Tail(items) /\ UNCHANGED <<limbo, phase, current>>
  BY DEF Inv, ExpandRef
<1>2. /\ i \in AnItem /\ Tail(items) \in Seq(AnItem) /\ n \in Names
      /\ i.via = "file" => top[n].declared
  BY <1>1, HeadItem
<1>3. i.via \in {"file", "block"}
  BY <1>2 DEF ExpandRef, AnItem
<1>4. varLabelno \in Nat /\ top[n] \in Node /\ block[n] \in Node
  BY <1>1, <1>2 DEF NodesOK
<1>5. varLabelno' \in Nat
  BY <1>4, LabelnoType DEF ExpandRef
<1>6. CASE i.via = "block"
  <2> DEFINE d == WithRtl(block[n], n, varLabelno)
  <2>1. block' = [block EXCEPT ![n] = d] /\ UNCHANGED top
    BY <1>6 DEF ExpandRef
  <2>2. d \in Node
    BY <1>2, <1>4, WithRtlNode
  <2> HIDE DEF d
  <2>3. NodesOK'
    BY <1>1, <1>2, <1>5, <2>1, <2>2 DEF NodesOK
  <2>4. Unnamed' /\ Grows
    BY <2>1, SameTop DEF Inv
  <2>5. ItemsDeclared' /\ DataItems'
    BY <1>1, <2>3, <2>4, TailItem DEF Inv
  <2>6. CurrentDeclared' /\ BlockOpen'
    BY <1>1, <2>1 DEF Inv, CurrentDeclared, BlockOpen
  <2> QED
    BY <2>3, <2>4, <2>5, <2>6 DEF Inv
<1>7. CASE i.via = "file"
  <2> DEFINE d == WithRtl(top[n], n, varLabelno)
  <2>1. top' = [top EXCEPT ![n] = d] /\ UNCHANGED block
    BY <1>7 DEF ExpandRef
  <2>2. /\ d \in Node /\ d.declared
        /\ top[n].rtl # NoRtl => d.rtl = top[n].rtl
    BY <1>2, <1>4, <1>7, WithRtlNode
  <2> HIDE DEF d
  <2>3. top' \in [Names -> Node] /\ Unnamed' /\ Grows
    BY <1>2, <2>1, <2>2, SetTop DEF Inv
  <2>4. NodesOK'
    BY <1>1, <1>2, <1>5, <2>1, <2>3 DEF NodesOK
  <2>5. ItemsDeclared' /\ DataItems'
    BY <1>1, <2>3, <2>4, TailItem DEF Inv
  <2>6. CurrentDeclared' /\ BlockOpen'
    BY <1>1, <2>1, <2>3 DEF Inv, CurrentDeclared, BlockOpen, Grows
  <2> QED
    BY <2>3, <2>4, <2>5, <2>6 DEF Inv
<1> QED
  BY <1>3, <1>6, <1>7

LEMMA ExpandLocalInv ==
  ASSUME Inv, ExpandLocal
  PROVE  Inv' /\ Grows
<1>1. /\ NodesOK /\ ItemsDeclared /\ items # <<>>
      /\ items' = Tail(items)
      /\ UNCHANGED <<top, limbo, block, phase, current>>
  BY DEF Inv, ExpandLocal
<1>2. varLabelno' \in Nat
  BY LabelnoType DEF ExpandLocal, Inv, NodesOK
<1>3. NodesOK'
  BY <1>1, <1>2, HeadItem DEF NodesOK
<1>4. Unnamed' /\ Grows
  BY <1>1, SameTop DEF Inv
<1>5. ItemsDeclared' /\ DataItems'
  BY <1>1, <1>3, <1>4, TailItem DEF Inv
<1>6. CurrentDeclared' /\ BlockOpen'
  BY <1>1 DEF Inv, CurrentDeclared, BlockOpen
<1> QED
  BY <1>3, <1>4, <1>5, <1>6 DEF Inv

LEMMA EmitFunctionInv ==
  ASSUME Inv, EmitFunction
  PROVE  Inv' /\ Grows
<1>1. /\ phase' = "file" /\ block' = [n \in Names |-> NoDecl]
      /\ UNCHANGED <<top, varLabelno, items>>
      /\ limbo' = [n \in Names |-> IF ToLimbo(n) THEN block[n] ELSE limbo[n]]
  BY DEF EmitFunction
<1>2. NodesOK'
  BY <1>1, NoDeclNode DEF Inv, NodesOK, Phases
<1>3. Unnamed' /\ Grows
  BY <1>1, SameTop DEF Inv
<1>4. ItemsDeclared'
  BY <1>1, <1>3, SameItems DEF Inv
<1>5. CurrentDeclared' /\ DataItems' /\ BlockOpen'
  BY <1>1, NoDeclNode DEF CurrentDeclared, Compiling, DataItems, BlockOpen
<1> QED
  BY <1>2, <1>3, <1>4, <1>5 DEF Inv
---------------------------------------------------------------------------
(* Data, and the end of the unit. *)

(* A declared variable is written: it gets its symbol if it has none. *)
LEMMA WrittenNode ==
  ASSUME NEW d \in Node, NEW n \in Names, NEW k \in Nat
  PROVE  LET w == [WithRtl(d, n, k) EXCEPT !.written = TRUE]
         IN  /\ w \in Node /\ w.declared = d.declared
             /\ d.rtl # NoRtl => w.rtl = d.rtl
<1> DEFINE r == WithRtl(d, n, k)
<1>1. r \in Node /\ r.declared = d.declared /\ (d.rtl # NoRtl => r.rtl = d.rtl)
  BY WithRtlNode
<1> HIDE DEF r
<1>2. LET w == [r EXCEPT !.written = TRUE]
      IN  w \in Node /\ w.declared = r.declared /\ w.rtl = r.rtl
  BY <1>1 DEF Node
<1> QED
  BY <1>1, <1>2 DEF r

LEMMA FinishVarInv ==
  ASSUME Inv, FinishVar
  PROVE  Inv' /\ Grows
<1> DEFINE d == [WithRtl(top[current], current, varLabelno)
                   EXCEPT !.written = TRUE]
<1>1. /\ phase = "init" /\ phase' = "data"
      /\ top' = [top EXCEPT ![current] = d]
      /\ varLabelno' = NextLabelno(top[current], varLabelno)
      /\ UNCHANGED <<limbo, block, current, items>>
  BY DEF FinishVar
<1>2. current \in Names /\ top[current].declared
  BY <1>1 DEF Inv, CurrentDeclared, Compiling
<1>3. top[current] \in Node /\ varLabelno \in Nat
  BY <1>2 DEF Inv, NodesOK
<1>4. /\ d \in Node /\ d.declared
      /\ top[current].rtl # NoRtl => d.rtl = top[current].rtl
  BY <1>2, <1>3, WrittenNode
<1> HIDE DEF d
<1>5. top' \in [Names -> Node] /\ Unnamed' /\ Grows
  BY <1>1, <1>2, <1>4, SetTop DEF Inv
<1>6. NodesOK'
  BY <1>1, <1>3, <1>5, LabelnoType DEF Inv, NodesOK, Phases
<1>7. ItemsDeclared'
  BY <1>1, <1>5, SameItems DEF Inv
<1>8. CurrentDeclared' /\ DataItems' /\ BlockOpen'
  BY <1>1, <1>2, <1>5
     DEF Inv, CurrentDeclared, DataItems, BlockOpen, Grows
<1> QED
  BY <1>5, <1>6, <1>7, <1>8 DEF Inv

LEMMA OutputConstantInv ==
  ASSUME Inv, OutputConstant
  PROVE  Inv' /\ Grows
<1> DEFINE i == Head(items)
           n == i.name
           d == WithRtl(top[n], n, varLabelno)
<1>1. /\ NodesOK /\ ItemsDeclared /\ items # <<>> /\ phase = "data"
      /\ items' = Tail(items) /\ top' = [top EXCEPT ![n] = d]
      /\ varLabelno' = NextLabelno(top[n], varLabelno)
      /\ UNCHANGED <<limbo, block, phase, current>>
  BY DEF Inv, OutputConstant
<1>2. /\ Tail(items) \in Seq(AnItem) /\ n \in Names
      /\ i.via = "file" => top[n].declared
  BY <1>1, HeadItem
<1>3. i.via = "file"
  <2>1. i = items[1] /\ Len(items) \in Nat \ {0}
    BY <1>1, EmptySeq DEF NodesOK
  <2>2. 1 \in 1 .. Len(items)
    BY <2>1
  <2> QED
    BY <1>1, <2>1, <2>2 DEF Inv, DataItems
<1>4. top[n] \in Node /\ varLabelno \in Nat
  BY <1>1, <1>2 DEF NodesOK
<1>5. /\ d \in Node /\ d.declared
      /\ top[n].rtl # NoRtl => d.rtl = top[n].rtl
  BY <1>2, <1>3, <1>4, WithRtlNode
<1> HIDE DEF d
<1>6. top' \in [Names -> Node] /\ Unnamed' /\ Grows
  BY <1>1, <1>2, <1>5, SetTop DEF Inv
<1>7. NodesOK'
  BY <1>1, <1>2, <1>4, <1>6, LabelnoType DEF NodesOK
<1>8. ItemsDeclared' /\ DataItems'
  BY <1>1, <1>6, <1>7, TailItem DEF Inv
<1>9. CurrentDeclared' /\ BlockOpen'
  BY <1>1, <1>6 DEF Inv, CurrentDeclared, BlockOpen, Grows
<1> QED
  BY <1>6, <1>7, <1>8, <1>9 DEF Inv

LEMMA WriteTentativeInv ==
  ASSUME Inv, NEW n \in Names, WriteTentative(n)
  PROVE  Inv' /\ Grows
<1> DEFINE d == [WithRtl(top[n], n, varLabelno) EXCEPT !.written = TRUE]
<1>1. /\ phase = "wrapup" /\ top[n].declared
      /\ top' = [top EXCEPT ![n] = d]
      /\ varLabelno' = NextLabelno(top[n], varLabelno)
      /\ UNCHANGED <<limbo, block, control>>
  BY DEF WriteTentative, Deferred
<1>2. top[n] \in Node /\ varLabelno \in Nat
  BY DEF Inv, NodesOK
<1>3. /\ d \in Node /\ d.declared
      /\ top[n].rtl # NoRtl => d.rtl = top[n].rtl
  BY <1>1, <1>2, WrittenNode
<1> HIDE DEF d
<1>4. top' \in [Names -> Node] /\ Unnamed' /\ Grows
  BY <1>1, <1>3, SetTop DEF Inv
<1>5. NodesOK'
  BY <1>1, <1>2, <1>4, LabelnoType DEF Inv, NodesOK, control
<1>6. ItemsDeclared'
  BY <1>1, <1>4, SameItems DEF Inv, control
<1>7. CurrentDeclared' /\ DataItems' /\ BlockOpen'
  BY <1>1 DEF Inv, CurrentDeclared, Compiling, DataItems, BlockOpen, control
<1> QED
  BY <1>4, <1>5, <1>6, <1>7 DEF Inv

(* The steps that only move on. *)
LEMMA PhaseInv ==
  ASSUME Inv, EndBody \/ EndVar \/ EndOfFile \/ Finish \/ UNCHANGED vars
  PROVE  Inv' /\ Grows
<1>1. UNCHANGED <<decls, items>>
  BY DEF EndBody, EndVar, EndOfFile, Finish, vars, control
<1>2. phase' \in Phases
  BY DEF EndBody, EndVar, EndOfFile, Finish, vars, control, Phases, Inv,
         NodesOK
<1>3. NodesOK'
  BY <1>1, <1>2 DEF Inv, NodesOK, decls
<1>4. Unnamed' /\ Grows
  BY <1>1, SameTop DEF Inv, decls
<1>5. ItemsDeclared'
  BY <1>1, <1>4, SameItems DEF Inv
<1>6. CurrentDeclared'
  BY <1>1 DEF Inv, CurrentDeclared, Compiling, EndBody, EndVar, EndOfFile,
              Finish, vars, control, decls
<1>7. DataItems'
  BY <1>1 DEF Inv, DataItems, EndBody, EndVar, EndOfFile, Finish, vars,
              control
<1>8. BlockOpen'
  BY <1>1 DEF Inv, BlockOpen, EndBody, EndVar, EndOfFile, Finish, vars,
              control, decls
<1> QED
  BY <1>3, <1>4, <1>5, <1>6, <1>7, <1>8 DEF Inv

---------------------------------------------------------------------------
(* Every step keeps the invariant and the symbols. *)
LEMMA StepInv ==
  ASSUME Inv, [Next]_vars
  PROVE  Inv' /\ Grows
<1>1. ASSUME NEW n \in Names, FileScope(n)
      PROVE  Inv' /\ Grows
  <2>1. ASSUME NEW static \in BOOLEAN, DeclareFunction(n, static)
        PROVE  Inv' /\ Grows
    BY <2>1, DeclareFunctionInv
  <2>2. ASSUME NEW static \in BOOLEAN, StartFunction(n, static)
        PROVE  Inv' /\ Grows
    BY <2>2, StartFunctionInv
  <2>3. ASSUME NEW class \in {"extern", "static", "none"},
               DeclareVar(n, class)
        PROVE  Inv' /\ Grows
    BY <2>3, DeclareVarInv
  <2>4. ASSUME NEW static \in BOOLEAN, StartVar(n, static)
        PROVE  Inv' /\ Grows
    BY <2>4, StartVarInv
  <2> QED
    BY <1>1, <2>1, <2>2, <2>3, <2>4 DEF FileScope
<1>2. ASSUME NEW n \in Names, Inside(n)
      PROVE  Inv' /\ Grows
  BY <1>2, DeclareBlockInv, CallImplicitInv, ReferInv DEF Inside
<1>3. ASSUME NEW n \in Names, WriteTentative(n)
      PROVE  Inv' /\ Grows
  BY <1>3, WriteTentativeInv
<1>4. CASE DeclareLocal
  BY <1>4, DeclareLocalInv
<1>5. CASE ExpandRef
  BY <1>5, ExpandRefInv
<1>6. CASE ExpandLocal
  BY <1>6, ExpandLocalInv
<1>7. CASE EmitFunction
  BY <1>7, EmitFunctionInv
<1>8. CASE FinishVar
  BY <1>8, FinishVarInv
<1>9. CASE OutputConstant
  BY <1>9, OutputConstantInv
<1>10. CASE EndBody \/ EndVar \/ EndOfFile \/ Finish \/ UNCHANGED vars
  BY <1>10, PhaseInv
<1> QED
  BY <1>1, <1>2, <1>3, <1>4, <1>5, <1>6, <1>7, <1>8, <1>9, <1>10 DEF Next

(* What is compiled, referred to or named is a declaration of the unit, in
   every reachable state. *)
THEOREM DeclarationsSound == Spec => []Inv
<1>1. Init => Inv
  BY InitInv
<1>2. Inv /\ [Next]_vars => Inv'
  BY StepInv
<1> QED
  BY <1>1, <1>2, PTL DEF Spec

(* For every set of functions and variables, and units of any length: once a
   file-scope name has a symbol no merge of declarations (duplicate_decls,
   pushdecl, start_function) and no later output gives it another. *)
THEOREM SymbolsKept == Spec => NameStable
<1>1. Inv /\ [Next]_vars
      => [\A n \in Names : top[n].rtl # NoRtl => top'[n].rtl = top[n].rtl]_vars
  BY StepInv DEF Grows
<1>2. Spec => []Inv
  BY DeclarationsSound
<1> QED
  BY <1>1, <1>2, PTL DEF Spec, NameStable
=============================================================================
