------------------------------ MODULE HashTable ------------------------------
(***************************************************************************)
(* The open-addressing hash tables of the compiler (libiberty/hashtab.c):  *)
(* values of cselib, types, constants, labels of strings.                  *)
(*                                                                         *)
(* A deleted entry leaves a mark, so that probes go on past it; the next   *)
(* insertion on such a probe may take the slot.  The table grows when      *)
(* three quarters of it are used, and marks count as used.                 *)
(*                                                                         *)
(* An element is equal to itself only.  `members' is a history: what was   *)
(* put in and not taken out.  A slot found with INSERT is filled before    *)
(* anything else is done, as cselib_lookup says it must.  Tables whose     *)
(* allocation may fail (htab_try_create) are not used.                     *)
(***************************************************************************)
EXTENDS Integers, FiniteSets, FiniteSetsExt, SequencesExt

CONSTANTS
  Elements,
  Hash,       \* the hash code of each element
  Primes      \* the sizes of higher_prime_number; the code has thirty

ASSUME HashAssumption == Hash \in [Elements -> Nat]

ASSUME PrimesAssumption ==
  /\ Primes \subseteq Nat /\ IsFiniteSet(Primes)
  /\ \E p \in Primes : TRUE
  /\ \A p \in Primes : p > 2

Empty   == "EMPTY_ENTRY"
Deleted == "DELETED_ENTRY"

VARIABLES
  size, entries,
  n_elements,   \* slots used, those deleted included
  n_deleted,
  members

hashVars == <<size, entries, n_elements, n_deleted, members>>

-----------------------------------------------------------------------------
HigherPrime(n) == Min({p \in Primes : p >= n})

NoEntries(s) == [i \in 0 .. s - 1 |-> Empty]

(* The i-th slot probed in a table of s slots. *)
Probe(s, x, i) == (Hash[x] + i * (1 + (Hash[x] % (s - 2)))) % s

(* The probe at which a search for x stops, and the slot. *)
Stops(s, es, x) == {i \in 0 .. s - 1 : es[Probe(s, x, i)] \in {Empty, x}}
StopSlot(s, es, x) == Probe(s, x, Min(Stops(s, es, x)))

(* htab_find_with_hash *)
HtabFind(s, es, x) == es[StopSlot(s, es, x)]

(* htab_find_slot_with_hash with INSERT: the slot of x, else the first deleted
   one met, else the empty one. *)
SlotFor(s, es, x) ==
  LET stop == Min(Stops(s, es, x))
      free == {i \in 0 .. stop : es[Probe(s, x, i)] = Deleted}
  IN  Probe(s, x, IF HtabFind(s, es, x) = x \/ free = {} THEN stop
                                                         ELSE Min(free))

(* Fault: deleted entries are not counted as used. *)
Crowded_LiveOnly == size * 3 <= (n_elements - n_deleted) * 4

Crowded == size * 3 <= n_elements * 4

(* htab_expand: the elements in the order of their old slots. *)
Expanded(s) ==
  FoldLeft(LAMBDA es, i :
             IF entries[i] \in {Empty, Deleted} THEN es
             ELSE [es EXCEPT ![StopSlot(s, es, entries[i])] = entries[i]],
           NoEntries(s), [k \in 1 .. size |-> k - 1])

-----------------------------------------------------------------------------
(* htab_create *)
HashInit ==
  /\ size = HigherPrime(1) /\ entries = NoEntries(size)
  /\ n_elements = 0 /\ n_deleted = 0
  /\ members = {}

(* An element is looked up with INSERT and the slot is filled. *)
Insert(x) ==
  /\ Crowded => \E p \in Primes : p >= size * 2
  /\ LET s  == IF Crowded THEN HigherPrime(size * 2) ELSE size
         es == IF Crowded THEN Expanded(s) ELSE entries
         n  == IF Crowded THEN n_elements - n_deleted ELSE n_elements
     IN  /\ size' = s
         /\ entries' = [es EXCEPT ![SlotFor(s, es, x)] = x]
         /\ n_elements' = IF HtabFind(s, es, x) = x THEN n ELSE n + 1
         /\ n_deleted' = IF Crowded THEN 0 ELSE n_deleted
  /\ members' = members \cup {x}

(* Fault: the slot is emptied. *)
ClearSlot_Empty(x) ==
  /\ HtabFind(size, entries, x) = x
  /\ entries' = [entries EXCEPT ![StopSlot(size, entries, x)] = Empty]
  /\ n_deleted' = n_deleted + 1
  /\ members' = members \ {x}
  /\ UNCHANGED <<size, n_elements>>

(* htab_find_slot with NO_INSERT and htab_clear_slot. *)
ClearSlot(x) ==
  /\ HtabFind(size, entries, x) = x
  /\ entries' = [entries EXCEPT ![StopSlot(size, entries, x)] = Deleted]
  /\ n_deleted' = n_deleted + 1
  /\ members' = members \ {x}
  /\ UNCHANGED <<size, n_elements>>

(* htab_traverse with a callback that clears the slots of the elements of xs,
   as the collector and cselib do. *)
TraverseAndClear(xs) ==
  /\ xs \subseteq members /\ xs # {}
  /\ entries' = [i \in DOMAIN entries |->
                   IF entries[i] \in xs THEN Deleted ELSE entries[i]]
  /\ n_deleted' = n_deleted +
                    Cardinality({i \in DOMAIN entries : entries[i] \in xs})
  /\ members' = members \ xs
  /\ UNCHANGED <<size, n_elements>>

(* htab_empty; the counts stay. *)
HtabEmpty ==
  /\ entries' = NoEntries(size)
  /\ members' = {}
  /\ UNCHANGED <<size, n_elements, n_deleted>>

HashNext ==
  \/ \E x \in Elements : Insert(x) \/ ClearSlot(x)
  \/ \E xs \in SUBSET Elements : TraverseAndClear(xs)
  \/ HtabEmpty

HashSpec == HashInit /\ [][HashNext]_hashVars

-----------------------------------------------------------------------------
(* Every search ends, at the element or at a slot never used, also right before
   the table grows; it finds an element exactly if it was inserted and not
   deleted since, and no element is in two slots. *)
FindsMembers ==
  /\ \A x \in Elements :
       /\ Stops(size, entries, x) # {}
       /\ (HtabFind(size, entries, x) = x) <=> x \in members
  /\ \A i, j \in DOMAIN entries :
       entries[i] = entries[j] /\ i # j => entries[i] \in {Empty, Deleted}
=============================================================================
