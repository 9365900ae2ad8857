----------------------------- MODULE HashTable -----------------------------
(***************************************************************************)
(* Hash of rust-port/src/util/hash.rs: a dictionary from strings to        *)
(* pointers.  All elements are on one list that starts at first; a bucket  *)
(* has only an entry point into that list, its chain.  Elements live in a  *)
(* pool, and a freed slot is linked through the same next field.           *)
(*                                                                         *)
(* Keys are the case-folded keys that str_icmp tells apart; the spelling,  *)
(* which replacing an element updates, and OOM, which Rust turns into an   *)
(* abort, are left out.  used is never read.  Keys are not empty: a freed  *)
(* slot keeps its hash and has the empty string as its key, so no search   *)
(* for another key ends at it, which NoKey stands for.  insert with a null *)
(* pointer and a key that find misses changes nothing.                     *)
(*                                                                         *)
(* A definition named X_Variant is X with a plausible mistake in it, to    *)
(* show that a property notices the mistake.                               *)
(***************************************************************************)
EXTENDS Integers, FiniteSets, Sequences

CONSTANTS
  Keys, NoKey,
  Pointers, Null,
  HashOf,      \* str_hash of every key
  MinRehash,   \* 5: no bucket array below this number of elements
  MaxLoad,     \* 2: elements per bucket beyond which the array grows
  Growth,      \* 3: buckets per element after growing
  MinBuckets,  \* 8
  MaxElems     \* bound: live elements

ASSUME HashTableAssumption ==
  /\ NoKey \notin Keys /\ Null \notin Pointers
  /\ HashOf \in [Keys -> Nat]
  /\ {MinRehash, MaxLoad, Growth, MinBuckets, MaxElems} \subseteq Nat \ {0}

VARIABLES
  table,
  stored,   \* history: what a dictionary would hold
  dangling  \* history: a chain has pointed at a freed slot since the table
            \* was last empty

vars == <<table, stored, dangling>>

None == 0  \* no slot: slots are numbered from 1 here

new == [first |-> None, count |-> 0, ht |-> << >>, elems |-> << >>,
        free_head |-> None]

(* The slots from slot s on along next.                                     *)
PathFrom(t, s) ==
  LET at[n \in 0 .. Len(t.elems)] ==
        IF n = 0 THEN s
        ELSE IF at[n - 1] = None THEN None ELSE t.elems[at[n - 1]].next
  IN  [n \in {m \in 1 .. Len(t.elems) + 1 : at[m - 1] # None} |-> at[n - 1]]

Bucket(t, k) == (HashOf[k] % Len(t.ht)) + 1

find_with_hash(t, k) ==
  LET start == IF Len(t.ht) > 0 THEN t.ht[Bucket(t, k)].chain ELSE t.first
      path  == PathFrom(t, start)
      hits  == {n \in DOMAIN path : t.elems[path[n]].key = k}
  IN  IF hits = {} THEN None
      ELSE path[CHOOSE n \in hits : \A m \in hits : n <= m]

find(t, k) ==
  LET slot == find_with_hash(t, k)
  IN  IF slot = None THEN Null ELSE t.elems[slot].data

(* The slot a new element gets: the free list's head, or one more slot.     *)
FreshSlot(t) == IF t.free_head # None THEN t.free_head ELSE Len(t.elems) + 1

alloc_slot(t, k, d) ==
  LET elem == [key |-> k, data |-> d, next |-> None, prev |-> None]
  IN  IF t.free_head # None
      THEN [t EXCEPT !.free_head = t.elems[t.free_head].next,
                     !.elems[t.free_head] = elem]
      ELSE [t EXCEPT !.elems = Append(@, elem)]

insert_element_KeepsChain(t, slot) ==
  [t EXCEPT
     !.ht = [b \in DOMAIN @ |->
               IF b = Bucket(t, t.elems[slot].key)
               THEN [chain |-> IF @[b].chain = None THEN slot ELSE @[b].chain,
                     count |-> @[b].count + 1]
               ELSE @[b]],
     !.elems = [s \in DOMAIN @ |->
                  CASE s = slot    -> [@[s] EXCEPT !.prev = None, !.next = t.first]
                    [] s = t.first -> [@[s] EXCEPT !.prev = slot]
                    [] OTHER       -> @[s]],
     !.first = slot]

(* The new element is its bucket's chain and the head of the list.          *)
insert_element(t, slot) ==
  [t EXCEPT
     !.ht = [b \in DOMAIN @ |->
               IF b = Bucket(t, t.elems[slot].key)
               THEN [chain |-> slot, count |-> @[b].count + 1]
               ELSE @[b]],
     !.elems = [s \in DOMAIN @ |->
                  CASE s = slot    -> [@[s] EXCEPT !.prev = None, !.next = t.first]
                    [] s = t.first -> [@[s] EXCEPT !.prev = slot]
                    [] OTHER       -> @[s]],
     !.first = slot]

(* rehash inserts the elements of the list, in its order, into new buckets. *)
rehash(t, size) ==
  LET buckets == IF size < MinBuckets THEN MinBuckets ELSE size
      live == PathFrom(t, t.first)
      empty == [t EXCEPT !.first = None,
                         !.ht = [b \in 1 .. buckets |-> [chain |-> None, count |-> 0]]]
      after[n \in 0 .. Len(live)] ==
        IF n = 0 THEN empty ELSE insert_element(after[n - 1], live[n])
  IN  after[Len(live)]

Unlink_KeepsPrev(t, slot) ==
  LET e == t.elems[slot]
  IN  [t EXCEPT
         !.first = IF e.prev = None THEN e.next ELSE @,
         !.elems = [s \in DOMAIN @ |->
                      IF s = e.prev THEN [@[s] EXCEPT !.next = e.next] ELSE @[s]]]

Unlink(t, slot) ==
  LET e == t.elems[slot]
  IN  [t EXCEPT
         !.first = IF e.prev = None THEN e.next ELSE @,
         !.elems = [s \in DOMAIN @ |->
                      CASE s = e.prev -> [@[s] EXCEPT !.next = e.next]
                        [] s = e.next -> [@[s] EXCEPT !.prev = e.prev]
                        [] OTHER      -> @[s]]]

(* The bucket's chain moves on to the next element of the whole list.       *)
LeaveBucket(t, slot) ==
  [t EXCEPT !.ht = [b \in DOMAIN @ |->
     IF b = Bucket(t, t.elems[slot].key)
     THEN [chain |-> IF @[b].chain = slot THEN t.elems[slot].next ELSE @[b].chain,
           count |-> @[b].count - 1]
     ELSE @[b]]]

Free(t, slot) ==
  [t EXCEPT !.elems[slot] = [key |-> NoKey, data |-> Null,
                             next |-> t.free_head, prev |-> None],
            !.free_head = slot,
            !.count = @ - 1]

Emptied(t) == new

remove_slot(t, slot) ==
  LET rest == Free(LeaveBucket(Unlink(t, slot), slot), slot)
  IN  IF rest.count = 0 THEN Emptied(rest) ELSE rest

-----------------------------------------------------------------------------
Slots == 0 .. Len(table.elems)
Elem == [key : Keys \cup {NoKey}, data : Pointers \cup {Null}, next : Slots, prev : Slots]

TypeOK ==
  /\ table.first \in Slots /\ table.free_head \in Slots
  /\ table.count \in 0 .. MaxElems
  /\ table.elems \in Seq(Elem)
  /\ table.ht \in Seq([chain : Slots, count : 0 .. MaxElems])
  /\ stored \in [Keys -> Pointers \cup {Null}]
  /\ dangling \in BOOLEAN

Init ==
  /\ table = new
  /\ stored = [k \in Keys |-> Null]
  /\ dangling = FALSE

Freed(t, slot) == slot # None /\ t.elems[slot].key = NoKey
Becomes(t) ==
  /\ table' = t
  /\ dangling' = (/\ t.count > 0
                  /\ dangling \/ \E b \in DOMAIN t.ht : Freed(t, t.ht[b].chain))

Replace(k, d) ==
  /\ find_with_hash(table, k) # None
  /\ Becomes([table EXCEPT !.elems[find_with_hash(table, k)].data = d])
  /\ stored' = [stored EXCEPT ![k] = d]

Remove(k) ==
  /\ find_with_hash(table, k) # None
  /\ Becomes(remove_slot(table, find_with_hash(table, k)))
  /\ stored' = [stored EXCEPT ![k] = Null]

Add(k, d) ==
  /\ find_with_hash(table, k) = None
  /\ table.count < MaxElems
  /\ LET slot  == FreshSlot(table)
         added == insert_element([alloc_slot(table, k, d) EXCEPT !.count = @ + 1], slot)
     IN  Becomes(IF added.count >= MinRehash /\ added.count > MaxLoad * Len(added.ht)
                 THEN rehash(added, added.count * Growth)
                 ELSE added)
  /\ stored' = [stored EXCEPT ![k] = d]

insert(k, d) == Replace(k, d) \/ Add(k, d)

(* clear and init.                                                          *)
clear ==
  /\ Becomes(new)
  /\ stored' = [k \in Keys |-> Null]

Next ==
  \/ \E k \in Keys, d \in Pointers : insert(k, d)
  \/ \E k \in Keys : Remove(k)
  \/ clear

Spec == Init /\ [][Next]_vars

-----------------------------------------------------------------------------
Live == PathFrom(table, table.first)
FreeList == PathFrom(table, table.free_head)

(* The list of all elements and the free list share the pool and the next   *)
(* field: every slot is on exactly one of them and once, prev runs against  *)
(* next, and count is the length of the list, also after chains went wrong. *)
ListsPartitionSlots ==
  /\ Len(Live) = table.count
  /\ Len(Live) + Len(FreeList) = Len(table.elems)
  /\ {Live[n] : n \in DOMAIN Live} \cup {FreeList[n] : n \in DOMAIN FreeList}
       = 1 .. Len(table.elems)
  /\ \A n \in DOMAIN Live :
       /\ table.elems[Live[n]].key # NoKey
       /\ table.elems[Live[n]].prev = (IF n = 1 THEN None ELSE Live[n - 1])
  /\ \A n \in DOMAIN FreeList : table.elems[FreeList[n]].key = NoKey

(* A bucket's count, which only removal decrements, is the number of its    *)
(* elements on the list: it never goes below zero.                          *)
BucketCountsAreExact ==
  \A b \in DOMAIN table.ht :
    table.ht[b].count =
      Cardinality({n \in DOMAIN Live : Bucket(table, table.elems[Live[n]].key) = b})

(* The pool, its two lists and the buckets' counts fit together, whatever   *)
(* has been inserted, removed and rehashed (hash.rs 261-496).               *)
ListsAreSound == TypeOK /\ ListsPartitionSlots /\ BucketCountsAreExact

Agrees ==
  /\ \A k \in Keys : find(table, k) = stored[k]
  /\ table.count = Cardinality({k \in Keys : stored[k] # Null})

(* As long as no chain has pointed at a freed slot, and again once the      *)
(* table has been empty, the table is a dictionary: find finds what was     *)
(* stored last, and len counts the keys.                                    *)
DictionaryUntilDangling == dangling \/ Agrees
=============================================================================
