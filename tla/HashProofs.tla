----------------------------- MODULE HashProofs -----------------------------
(***************************************************************************)
(* The pointer structures of rust-port/src/util/hash.rs, for every set of  *)
(* keys, values and sizes.                                                 *)
(*                                                                         *)
(* Of module HashTable: in every reachable state the elements and the free *)
(* slots are on two lists that partition the pool, with exact counts, and  *)
(* the table is a dictionary until a chain has pointed at a freed slot.    *)
(* A list is a sequence p of n slots, called a witness: List(t, p, n, s)   *)
(* says that following next from s visits p.  Each operation is shown to   *)
(* take witnesses of its table to witnesses of the table it returns.       *)
(*                                                                         *)
(* Of module GrowableArray: next_free is the first empty slot and count is *)
(* exact, and therefore push never overwrites a value.                     *)
(***************************************************************************)
EXTENDS HashTable, GrowableArray, FiniteSetTheorems, WellFoundedInduction, TLAPS

(* A non-empty set of natural numbers has a least element.                  *)
LEMMA LeastExists ==
  ASSUME NEW S \in SUBSET Nat, S # {}
  PROVE  \E m \in S : \A s \in S : m <= s
<1> DEFINE R == OpToRel(<, Nat)
<1>1. PICK m \in S : \A s \in S : ~ (<<s, m>> \in R)
  BY NatLessThanWellFounded, WFMin, Zenon
<1>2. ASSUME NEW s \in S, s < m
      PROVE  FALSE
  <2>1. <<s, m>> \in R
    BY <1>2, Zenon DEF OpToRel
  <2> QED
    BY <1>1, <2>1
<1> QED
  BY <1>2

(* Induction up to n, over a set.                                           *)
LEMMA UpTo ==
  ASSUME NEW n \in Nat, NEW S, 0 \in S, \A k \in 1 .. n : k - 1 \in S => k \in S
  PROVE  \A k \in 0 .. n : k \in S
<1> DEFINE F == {k \in 0 .. n : k \notin S}
<1> SUFFICES ASSUME F # {}
             PROVE  FALSE
  OBVIOUS
<1>1. PICK k \in F : \A j \in F : k <= j
  <2>1. F \in SUBSET Nat
    OBVIOUS
  <2> HIDE DEF F
  <2> QED
    BY <2>1, LeastExists
<1>2. k \in 1 .. n /\ k - 1 \in 0 .. n /\ k - 1 \notin F
  BY <1>1
<1> QED
  BY <1>2

(* The types of the proofs, which bound no slot number and no count.        *)
Cell == [key : Keys \cup {NoKey}, data : Pointers \cup {Null}, next : Nat, prev : Nat]
Entry == [chain : Nat, count : Nat]
Table == [first : Nat, count : Nat, ht : Seq(Entry), elems : Seq(Cell), free_head : Nat]

(* The slot at place i of the n slots p, or none.                           *)
At(p, n, i) == IF i \in 1 .. n THEN p[i] ELSE None

(* No slot of p occurs twice.                                               *)
Distinct(p, n) == \A i, j \in 1 .. n : p[i] = p[j] => i = j

(* p lists n different slots, head is the first and next leads on.          *)
List(t, p, n, head) ==
  /\ n \in Nat /\ p \in [1 .. n -> 1 .. Len(t.elems)]
  /\ Distinct(p, n)
  /\ head = At(p, n, 1)
  /\ \A i \in 1 .. n : t.elems[p[i]].next = At(p, n, i + 1)

(* f follows next from slot s, as the local function of PathFrom does.      *)
IsWalk(f, t, s) ==
  f = [n \in 0 .. Len(t.elems) |->
         IF n = 0 THEN s
         ELSE IF f[n - 1] = None THEN None ELSE t.elems[f[n - 1]].next]

(* From the i-th place of a list, next leads to the rest of the list and    *)
(* then nowhere.                                                            *)
LEMMA WalkIs ==
  ASSUME NEW t \in Table, NEW p, NEW n, NEW head, List(t, p, n, head),
         NEW i \in 1 .. n + 1, NEW f, IsWalk(f, t, At(p, n, i))
  PROVE  \A k \in 0 .. Len(t.elems) : f[k] = At(p, n, i + k)
<1> DEFINE N == Len(t.elems)
           S == {k \in 0 .. N : f[k] = At(p, n, i + k)}
<1>1. N \in Nat /\ n \in Nat
  BY DEF Table, List
<1>2. \A k \in 0 .. N : f[k] = IF k = 0 THEN At(p, n, i)
                               ELSE IF f[k - 1] = None THEN None ELSE t.elems[f[k - 1]].next
  BY Zenon DEF IsWalk
<1>3. 0 \in S
  BY <1>1, <1>2
<1>4. ASSUME NEW k \in 1 .. N, k - 1 \in S
      PROVE  k \in S
  <2>1. f[k - 1] = At(p, n, i + k - 1) /\ k \in 0 .. N /\ k # 0 /\ i + k \in Nat
    BY <1>1, <1>4
  <2>2. CASE i + k - 1 \in 1 .. n
    <3>1. f[k - 1] = p[i + k - 1] /\ p[i + k - 1] # None
      BY <1>1, <2>1, <2>2 DEF At, List, None
    <3>2. f[k] = t.elems[p[i + k - 1]].next
      BY <1>2, <2>1, <3>1
    <3>3. t.elems[p[i + k - 1]].next = At(p, n, (i + k - 1) + 1)
      BY <2>2 DEF List
    <3> QED
      BY <1>1, <2>1, <3>2, <3>3
  <2>3. CASE i + k - 1 \notin 1 .. n
    <3>1. f[k - 1] = None /\ i + k \notin 1 .. n
      BY <1>1, <2>1, <2>3 DEF At
    <3> QED
      BY <1>2, <2>1, <3>1 DEF At
  <2> QED
    BY <2>2, <2>3
<1> HIDE DEF S
<1>5. \A k \in 0 .. N : k \in S
  BY <1>1, <1>3, <1>4, UpTo
<1> QED
  BY <1>5 DEF S

(* There is such a function.                                                *)
LEMMA WalkExists ==
  ASSUME NEW t \in Table, NEW p, NEW n, NEW head, List(t, p, n, head),
         NEW i \in 1 .. n + 1
  PROVE  \E f : IsWalk(f, t, At(p, n, i))
<1> DEFINE N == Len(t.elems)
           f == [k \in 0 .. N |-> At(p, n, i + k)]
<1>1. N \in Nat /\ n \in Nat
  BY DEF Table, List
<1>2. ASSUME NEW k \in 0 .. N
      PROVE  At(p, n, i + k) = IF k = 0 THEN At(p, n, i)
                    ELSE IF f[k - 1] = None THEN None ELSE t.elems[f[k - 1]].next
  <2>1. CASE k = 0
    BY <1>1, <2>1
  <2>2. CASE k # 0
    <3>1. k - 1 \in 0 .. N /\ f[k - 1] = At(p, n, i + (k - 1))
      BY <1>1, <2>2
    <3>2. CASE i + (k - 1) \in 1 .. n
      <4>1. t.elems[p[i + (k - 1)]].next = At(p, n, (i + (k - 1)) + 1)
        BY <3>2 DEF List
      <4>2. f[k - 1] = p[i + (k - 1)] /\ f[k - 1] # None
        <5> HIDE DEF f
        <5>1. p[i + (k - 1)] \in 1 .. Len(t.elems)
          BY <3>2 DEF List
        <5>2. p[i + (k - 1)] # None
          BY <1>1, <5>1 DEF None
        <5> QED
          BY <3>1, <3>2, <5>2 DEF At
      <4>3. (i + (k - 1)) + 1 = i + k
        BY <1>1
      <4> HIDE DEF f
      <4> QED
        BY <2>2, <4>1, <4>2, <4>3
    <3>3. CASE i + (k - 1) \notin 1 .. n
      <4>1. f[k - 1] = None /\ i + k \notin 1 .. n
        BY <1>1, <3>1, <3>3 DEF At
      <4> HIDE DEF f
      <4> QED
        BY <2>2, <4>1 DEF At
    <3> QED
      BY <3>2, <3>3
  <2> QED
    BY <2>1, <2>2
<1>3. f = [k \in 0 .. N |-> IF k = 0 THEN At(p, n, i)
                            ELSE IF f[k - 1] = None THEN None ELSE t.elems[f[k - 1]].next]
  BY <1>2, Zenon
<1> HIDE DEF f
<1> QED
  BY <1>3, Zenon DEF IsWalk

(* The slots of a list from its i-th on.                                    *)
Rest(p, n, i) == [k \in 1 .. n - i + 1 |-> p[i + k - 1]]

(* PathFrom computes the rest of a list, from whatever slot of it.          *)
LEMMA PathOnList ==
  ASSUME NEW t \in Table, NEW p, NEW n, NEW head, List(t, p, n, head), n <= Len(t.elems),
         NEW i \in 1 .. n + 1
  PROVE  PathFrom(t, At(p, n, i)) = Rest(p, n, i)
<1> DEFINE N == Len(t.elems)
           f == CHOOSE g : IsWalk(g, t, At(p, n, i))
           D == {m \in 1 .. N + 1 : f[m - 1] # None}
<1>1. N \in Nat /\ n \in Nat
  BY DEF Table, List
<1>2. IsWalk(f, t, At(p, n, i))
  BY WalkExists, Zenon
<1>3. PathFrom(t, At(p, n, i)) = [k \in D |-> f[k - 1]]
  BY Zenon DEF PathFrom, IsWalk
<1> HIDE DEF f
<1>4. \A k \in 0 .. N : f[k] = At(p, n, i + k)
  BY <1>2, WalkIs
<1>5. ASSUME NEW k \in 1 .. N + 1
      PROVE  /\ f[k - 1] # None <=> k \in 1 .. n - i + 1
             /\ f[k - 1] # None => f[k - 1] = p[i + k - 1]
  <2>1. k - 1 \in 0 .. N /\ i + (k - 1) = i + k - 1
    BY <1>1
  <2>2. f[k - 1] = At(p, n, i + k - 1)
    BY <1>4, <2>1
  <2>3. i + k - 1 \in 1 .. n <=> k \in 1 .. n - i + 1
    BY <1>1
  <2>4. i + k - 1 \in 1 .. n => p[i + k - 1] # None
    BY <1>1 DEF List, None
  <2> QED
    BY <2>2, <2>3, <2>4 DEF At
<1>6. D = 1 .. n - i + 1
  BY <1>1, <1>5
<1>7. \A k \in D : f[k - 1] = p[i + k - 1]
  BY <1>5
<1> HIDE DEF D
<1> QED
  BY <1>3, <1>6, <1>7 DEF Rest

(* Where find_with_hash begins, and what it takes from the path.            *)
Start(t, k) == IF Len(t.ht) > 0 THEN t.ht[Bucket(t, k)].chain ELSE t.first

FirstHit(t, k, path) ==
  LET hits == {x \in DOMAIN path : t.elems[path[x]].key = k}
  IN  IF hits = {} THEN None ELSE path[CHOOSE x \in hits : \A y \in hits : x <= y]

(* A search from the i-th place finds the first element with the key from   *)
(* there on, if there is one.                                               *)
LEMMA FindFrom ==
  ASSUME NEW t \in Table, NEW p, NEW n, NEW head, List(t, p, n, head), n <= Len(t.elems),
         NEW i \in 1 .. n + 1, NEW k, Start(t, k) = At(p, n, i)
  PROVE  \/ /\ find_with_hash(t, k) = None
            /\ \A j \in i .. n : t.elems[p[j]].key # k
         \/ \E j \in i .. n : find_with_hash(t, k) = p[j] /\ t.elems[p[j]].key = k
<1> DEFINE path == Rest(p, n, i)
           hits == {x \in DOMAIN path : t.elems[path[x]].key = k}
<1>1. n \in Nat
  BY DEF List
<1>2. PathFrom(t, Start(t, k)) = path
  <2>1. PathFrom(t, At(p, n, i)) = path
    BY PathOnList, Zenon
  <2> HIDE DEF path
  <2> QED
    BY <2>1
<1>3. find_with_hash(t, k) = IF hits = {} THEN None
                             ELSE path[CHOOSE x \in hits : \A y \in hits : x <= y]
  <2>1. find_with_hash(t, k) = FirstHit(t, k, PathFrom(t, Start(t, k)))
    BY Zenon DEF find_with_hash, Start, FirstHit
  <2>2. find_with_hash(t, k) = FirstHit(t, k, path)
    BY <1>2, <2>1
  <2> HIDE DEF path
  <2> QED
    BY <2>2 DEF FirstHit
<1>4. DOMAIN path = 1 .. n - i + 1 /\ \A x \in 1 .. n - i + 1 : path[x] = p[i + x - 1]
  BY DEF Rest
<1>5. CASE hits = {}
  <2>1. ASSUME NEW j \in i .. n, t.elems[p[j]].key = k
        PROVE  FALSE
    <3>1. j - i + 1 \in 1 .. n - i + 1 /\ i + (j - i + 1) - 1 = j
      BY <1>1
    <3>2. path[j - i + 1] = p[j]
      BY <1>4, <3>1
    <3>3. j - i + 1 \in hits
      BY <1>4, <2>1, <3>1, <3>2
    <3> QED
      BY <1>5, <3>3
  <2> QED
    BY <1>3, <1>5, <2>1
<1>6. CASE hits # {}
  <2> DEFINE x == CHOOSE x \in hits : \A y \in hits : x <= y
  <2>1. x \in hits
    <3>1. hits \in SUBSET Nat
      BY <1>1, <1>4
    <3>2. \E x0 \in hits : \A y \in hits : x0 <= y
      <4> HIDE DEF hits
      <4> QED
        BY <1>6, <3>1, LeastExists
    <3> QED
      BY <3>2
  <2>2. find_with_hash(t, k) = path[x]
    BY <1>3, <1>6
  <2> HIDE DEF x
  <2>3. x \in 1 .. n - i + 1 /\ t.elems[p[i + x - 1]].key = k /\ path[x] = p[i + x - 1]
    BY <1>4, <2>1
  <2>4. i + x - 1 \in i .. n
    BY <1>1, <2>3
  <2> QED
    BY <2>2, <2>3, <2>4
<1> QED
  BY <1>5, <1>6

(* The slots of a list, and those of them that belong to bucket b.          *)
On(p, n) == {p[i] : i \in 1 .. n}
Members(t, p, n, b) == {s \in On(p, n) : Bucket(t, t.elems[s].key) = b}

(* The list of the elements, with its links back, and the buckets' counts.  *)
Linked(t, p, n) ==
  /\ List(t, p, n, t.first)
  /\ \A i \in 1 .. n : t.elems[p[i]].key \in Keys
  /\ \A i \in 1 .. n : t.elems[p[i]].prev = At(p, n, i - 1)
  /\ \A b \in 1 .. Len(t.ht) : t.ht[b].count = Cardinality(Members(t, p, n, b))

(* The free list.                                                           *)
Unused(t, q, m) ==
  /\ List(t, q, m, t.free_head)
  /\ \A i \in 1 .. m : t.elems[q[i]].key = NoKey /\ t.elems[q[i]].prev = None

(* Every slot is on one of the two lists.                                   *)
Shared(t, p, n, q, m) ==
  /\ n + m = Len(t.elems)
  /\ \A s \in 1 .. Len(t.elems) : s \in On(p, n) \/ s \in On(q, m)

(* Whatever a chain points at, it is none or a slot of the pool.            *)
ChainsInPool(t) == \A b \in 1 .. Len(t.ht) : t.ht[b].chain \in 0 .. Len(t.elems)

(* What holds of every table: p are its elements and q its free slots.      *)
Sound(t, p, n, q, m) ==
  /\ t \in Table
  /\ Linked(t, p, n)
  /\ Unused(t, q, m)
  /\ Shared(t, p, n, q, m)
  /\ ChainsInPool(t)

(* The facts that the other proofs take from it.                            *)
LEMMA SoundParts ==
  ASSUME NEW t, NEW p, NEW n, NEW q, NEW m, Sound(t, p, n, q, m)
  PROVE  /\ t \in Table /\ Linked(t, p, n) /\ Unused(t, q, m) /\ Shared(t, p, n, q, m)
         /\ List(t, p, n, t.first) /\ List(t, q, m, t.free_head) /\ ChainsInPool(t)
         /\ n \in Nat /\ m \in Nat /\ n + m = Len(t.elems)
         /\ n <= Len(t.elems) /\ m <= Len(t.elems) /\ Len(t.elems) \in Nat
<1>1. /\ t \in Table /\ Linked(t, p, n) /\ Unused(t, q, m) /\ Shared(t, p, n, q, m)
      /\ ChainsInPool(t)
  BY DEF Sound
<1>2. List(t, p, n, t.first) /\ List(t, q, m, t.free_head)
  BY <1>1 DEF Linked, Unused
<1>3. n \in Nat /\ m \in Nat
  BY <1>2 DEF List
<1>4. n + m = Len(t.elems)
  BY <1>1 DEF Shared
<1>5. n <= Len(t.elems) /\ m <= Len(t.elems) /\ Len(t.elems) \in Nat
  BY <1>3, <1>4
<1> QED
  BY <1>1, <1>2, <1>3, <1>4, <1>5

(* A key's bucket is in the bucket array.                                   *)
LEMMA BucketInRange ==
  ASSUME NEW t \in Table, Len(t.ht) > 0, NEW k \in Keys
  PROVE  Bucket(t, k) \in 1 .. Len(t.ht)
<1>1. Len(t.ht) \in Nat \ {0} /\ HashOf[k] \in Nat
  BY HashTableAssumption DEF Table
<1>2. HashOf[k] % Len(t.ht) \in 0 .. Len(t.ht) - 1
  BY <1>1
<1> QED
  BY <1>1, <1>2 DEF Bucket

(* Wherever a search starts, what it finds is an element of the list.       *)
LEMMA FoundIsOnList ==
  ASSUME NEW t, NEW p, NEW n, NEW q, NEW m, Sound(t, p, n, q, m), NEW k \in Keys,
         find_with_hash(t, k) # None
  PROVE  \E j \in 1 .. n : find_with_hash(t, k) = p[j] /\ t.elems[p[j]].key = k
<1>1. /\ t \in Table /\ n \in Nat /\ m \in Nat /\ n <= Len(t.elems) /\ m <= Len(t.elems)
      /\ List(t, p, n, t.first) /\ List(t, q, m, t.free_head)
  BY SoundParts
<1>2. Start(t, k) \in {t.first} \cup 0 .. Len(t.elems)
  BY <1>1, BucketInRange DEF Start, Sound, ChainsInPool, Table
<1>3. CASE \E i \in 1 .. n + 1 : Start(t, k) = At(p, n, i)
  <2>1. PICK i \in 1 .. n + 1 : Start(t, k) = At(p, n, i)
    BY <1>3
  <2>2. \E j \in i .. n : find_with_hash(t, k) = p[j] /\ t.elems[p[j]].key = k
    BY <1>1, <2>1, FindFrom
  <2> QED
    BY <1>1, <2>1, <2>2
<1>4. CASE \E i \in 1 .. m : Start(t, k) = At(q, m, i)
  <2>1. PICK i \in 1 .. m : Start(t, k) = At(q, m, i)
    BY <1>4
  <2>2. \E j \in i .. m : find_with_hash(t, k) = q[j] /\ t.elems[q[j]].key = k
    BY <1>1, <2>1, FindFrom
  <2>3. PICK j \in 1 .. m : t.elems[q[j]].key = k
    BY <1>1, <2>1, <2>2
  <2>4. t.elems[q[j]].key = NoKey
    BY <2>3 DEF Sound, Unused
  <2> QED
    BY <2>3, <2>4, HashTableAssumption
<1>5. \/ \E i \in 1 .. n + 1 : Start(t, k) = At(p, n, i)
      \/ \E i \in 1 .. m : Start(t, k) = At(q, m, i)
  <2>1. CASE Start(t, k) = t.first
    BY <1>1, <2>1 DEF List
  <2>2. CASE Start(t, k) = None
    <3>1. n + 1 \in 1 .. n + 1 /\ n + 1 \notin 1 .. n
      BY <1>1
    <3> QED
      BY <2>2, <3>1 DEF At
  <2>3. CASE Start(t, k) \in 1 .. Len(t.elems)
    <3>1. Start(t, k) \in On(p, n) \/ Start(t, k) \in On(q, m)
      BY <2>3 DEF Sound, Shared
    <3> QED
      BY <1>1, <3>1 DEF On, At
  <2>4. Start(t, k) # None /\ Start(t, k) # t.first => Start(t, k) \in 1 .. Len(t.elems)
    BY <1>1, <1>2 DEF None, Table
  <2> QED
    BY <2>1, <2>2, <2>3, <2>4
<1> QED
  BY <1>3, <1>4, <1>5

(* A function on 1 .. n is a sequence of length n.                          *)
LEMMA SeqOver ==
  ASSUME NEW S, NEW n \in Nat, NEW f \in [1 .. n -> S]
  PROVE  f \in Seq(S) /\ Len(f) = n /\ DOMAIN f = 1 .. n
  OBVIOUS

(* The fields of a table, and of a table with some of them changed.         *)
LEMMA TableParts ==
  ASSUME NEW t \in Table
  PROVE  /\ Len(t.elems) \in Nat /\ DOMAIN t.elems = 1 .. Len(t.elems)
         /\ \A s \in 1 .. Len(t.elems) : t.elems[s] \in Cell
         /\ Len(t.ht) \in Nat /\ DOMAIN t.ht = 1 .. Len(t.ht)
         /\ \A b \in 1 .. Len(t.ht) : t.ht[b] \in Entry
         /\ t.first \in Nat /\ t.free_head \in Nat /\ t.count \in Nat
  BY DEF Table

LEMMA UpdatedFields ==
  ASSUME NEW Hts, NEW Els,
         NEW t \in [first : Nat, count : Nat, ht : Hts, elems : Els, free_head : Nat],
         NEW h \in Hts, NEW e \in Els, NEW f \in Nat
  PROVE  LET u == [t EXCEPT !.ht = h, !.elems = e, !.first = f]
         IN  /\ u \in [first : Nat, count : Nat, ht : Hts, elems : Els, free_head : Nat]
             /\ u.ht = h /\ u.elems = e /\ u.first = f
             /\ u.free_head = t.free_head /\ u.count = t.count
  OBVIOUS

(* What insert_element leaves in the fields of the table and of its slots.  *)
Inserted(t, slot, u) ==
  /\ u \in Table
  /\ u.first = slot /\ u.free_head = t.free_head /\ u.count = t.count
  /\ Len(u.elems) = Len(t.elems) /\ Len(u.ht) = Len(t.ht)
  /\ \A s \in 1 .. Len(t.elems) :
       /\ u.elems[s].key = t.elems[s].key
       /\ u.elems[s].data = t.elems[s].data
       /\ u.elems[s].next = (IF s = slot THEN t.first ELSE t.elems[s].next)
       /\ u.elems[s].prev = (IF s = slot THEN None
                             ELSE IF s = t.first THEN slot ELSE t.elems[s].prev)
  /\ \A b \in 1 .. Len(t.ht) :
       /\ u.ht[b].chain = (IF b = Bucket(t, t.elems[slot].key) THEN slot ELSE t.ht[b].chain)
       /\ u.ht[b].count = (IF b = Bucket(t, t.elems[slot].key)
                           THEN t.ht[b].count + 1 ELSE t.ht[b].count)

LEMMA InsertFields ==
  ASSUME NEW t \in Table, NEW slot \in 1 .. Len(t.elems), slot # t.first
  PROVE  Inserted(t, slot, insert_element(t, slot))
<1> DEFINE B == Bucket(t, t.elems[slot].key)
           hts == [b \in 1 .. Len(t.ht) |->
                     IF b = B THEN [chain |-> slot, count |-> t.ht[b].count + 1] ELSE t.ht[b]]
           els == [s \in 1 .. Len(t.elems) |->
                     CASE s = slot    -> [t.elems[s] EXCEPT !.prev = None, !.next = t.first]
                       [] s = t.first -> [t.elems[s] EXCEPT !.prev = slot]
                       [] OTHER       -> t.elems[s]]
           u == insert_element(t, slot)
<1>1. /\ Len(t.elems) \in Nat /\ DOMAIN t.elems = 1 .. Len(t.elems)
      /\ \A s \in 1 .. Len(t.elems) : t.elems[s] \in Cell
      /\ Len(t.ht) \in Nat /\ DOMAIN t.ht = 1 .. Len(t.ht)
      /\ \A b \in 1 .. Len(t.ht) : t.ht[b] \in Entry
      /\ t.first \in Nat /\ t.free_head \in Nat /\ t.count \in Nat
  BY TableParts
<1>2. u = [t EXCEPT !.ht = hts, !.elems = els, !.first = slot]
  BY <1>1, Zenon DEF insert_element
<1>3. \A b \in 1 .. Len(t.ht) : hts[b] \in Entry
  BY <1>1 DEF Entry
<1>4. ASSUME NEW s \in 1 .. Len(t.elems)
      PROVE  /\ els[s] \in Cell
             /\ els[s].key = t.elems[s].key
             /\ els[s].data = t.elems[s].data
             /\ els[s].next = (IF s = slot THEN t.first ELSE t.elems[s].next)
             /\ els[s].prev = (IF s = slot THEN None
                               ELSE IF s = t.first THEN slot ELSE t.elems[s].prev)
  <2>1. t.elems[s] \in Cell /\ t.first \in Nat /\ slot \in Nat /\ None \in Nat
    BY <1>1 DEF None
  <2>2. CASE s = slot
    <3>1. els[s] = [t.elems[s] EXCEPT !.prev = None, !.next = t.first]
      BY <2>2
    <3> HIDE DEF els
    <3> QED
      BY <2>1, <2>2, <3>1 DEF Cell
  <2>3. CASE s # slot /\ s = t.first
    <3>1. els[s] = [t.elems[s] EXCEPT !.prev = slot]
      BY <2>3
    <3> HIDE DEF els
    <3> QED
      BY <2>1, <2>3, <3>1 DEF Cell
  <2>4. CASE s # slot /\ s # t.first
    <3>1. els[s] = t.elems[s]
      BY <2>4
    <3> HIDE DEF els
    <3> QED
      BY <2>1, <2>4, <3>1
  <2> QED
    BY <2>2, <2>3, <2>4
<1>5. hts \in Seq(Entry) /\ Len(hts) = Len(t.ht)
  <2>1. hts \in [1 .. Len(t.ht) -> Entry]
    BY <1>3
  <2> HIDE DEF hts
  <2> QED
    BY <1>1, <2>1, SeqOver
<1>6. els \in Seq(Cell) /\ Len(els) = Len(t.elems)
  <2>1. els \in [1 .. Len(t.elems) -> Cell]
    BY <1>4
  <2> HIDE DEF els
  <2> QED
    BY <1>1, <2>1, SeqOver
<1>8. ASSUME NEW b \in 1 .. Len(t.ht)
      PROVE  /\ hts[b].chain = (IF b = B THEN slot ELSE t.ht[b].chain)
             /\ hts[b].count = (IF b = B THEN t.ht[b].count + 1 ELSE t.ht[b].count)
  OBVIOUS
<1> HIDE DEF hts, els
<1>9. /\ u \in Table /\ u.ht = hts /\ u.elems = els /\ u.first = slot
      /\ u.free_head = t.free_head /\ u.count = t.count
  <2>1. slot \in Nat
    BY <1>1
  <2> HIDE DEF u
  <2> QED
    BY <1>2, <1>5, <1>6, <2>1, UpdatedFields DEF Table
<1> HIDE DEF u, B
<1>10. /\ u.first = slot /\ u.free_head = t.free_head /\ u.count = t.count
       /\ Len(u.elems) = Len(t.elems) /\ Len(u.ht) = Len(t.ht)
  BY <1>5, <1>6, <1>9
<1>11. \A s \in 1 .. Len(t.elems) :
                  /\ u.elems[s].key = t.elems[s].key
                  /\ u.elems[s].data = t.elems[s].data
                  /\ u.elems[s].next = (IF s = slot THEN t.first ELSE t.elems[s].next)
                  /\ u.elems[s].prev = (IF s = slot THEN None
                                        ELSE IF s = t.first THEN slot ELSE t.elems[s].prev)
  BY <1>4, <1>9, Zenon
<1>12. \A b \in 1 .. Len(t.ht) :
                  /\ u.ht[b].chain = (IF b = B THEN slot ELSE t.ht[b].chain)
                  /\ u.ht[b].count = (IF b = B THEN t.ht[b].count + 1 ELSE t.ht[b].count)
  BY <1>8, <1>9, Zenon
<1> QED
  BY <1>9, <1>10, <1>11, <1>12 DEF u, B, Inserted

(* slot before the n slots p.                                               *)
Cons(slot, p, n) == [i \in 1 .. n + 1 |-> IF i = 1 THEN slot ELSE p[i - 1]]

(* What the proofs need to know of that sequence, as c.                     *)
Consed(slot, p, n, N, c) ==
  /\ c \in [1 .. n + 1 -> 1 .. N]
  /\ Distinct(c, n + 1)
  /\ c[1] = slot
  /\ \A i \in 1 .. n : c[i + 1] = p[i]
  /\ On(c, n + 1) = On(p, n) \cup {slot}

LEMMA ConsList ==
  ASSUME NEW N, NEW n \in Nat, NEW p \in [1 .. n -> 1 .. N],
         NEW slot \in 1 .. N, slot \notin On(p, n),
         Distinct(p, n)
  PROVE  Consed(slot, p, n, N, Cons(slot, p, n))
<1> DEFINE c == Cons(slot, p, n)
<1>1. \A i \in 1 .. n + 1 : c[i] = IF i = 1 THEN slot ELSE p[i - 1]
  BY DEF Cons
<1>2. \A i \in 1 .. n + 1 : i # 1 => i - 1 \in 1 .. n
  OBVIOUS
<1>3. c \in [1 .. n + 1 -> 1 .. N]
  BY <1>2 DEF Cons
<1>4. \A i \in 1 .. n : p[i] # slot
  BY DEF On
<1>5. \A i \in 1 .. n : i + 1 \in 1 .. n + 1 /\ i + 1 # 1 /\ (i + 1) - 1 = i
  OBVIOUS
<1>6. 1 \in 1 .. n + 1 /\ c[1] = slot
  BY <1>1
<1>7. \A i \in 1 .. n : c[i + 1] = p[i]
  BY <1>1, <1>5
<1> HIDE DEF c
<1>8. ASSUME NEW i \in 1 .. n + 1, NEW j \in 1 .. n + 1, c[i] = c[j]
      PROVE  i = j
  BY <1>1, <1>2, <1>4, <1>8 DEF Distinct
<1>9. On(c, n + 1) = On(p, n) \cup {slot}
  <2>1. ASSUME NEW x \in On(c, n + 1)
        PROVE  x \in On(p, n) \cup {slot}
    BY <1>1, <1>2 DEF On
  <2>2. ASSUME NEW x \in On(p, n) \cup {slot}
        PROVE  x \in On(c, n + 1)
    <3>1. slot \in On(c, n + 1)
      BY <1>6 DEF On
    <3>2. CASE x \in On(p, n)
      <4>1. PICK i \in 1 .. n : x = p[i]
        BY <3>2 DEF On
      <4>2. x = c[i + 1] /\ i + 1 \in 1 .. n + 1
        BY <1>5, <1>7, <4>1
      <4> QED
        BY <4>2 DEF On
    <3> QED
      BY <3>1, <3>2
  <2> QED
    BY <2>1, <2>2
<1> QED
  BY <1>3, <1>6, <1>7, <1>8, <1>9 DEF c, Distinct, Consed

(* A list of n places has at most n slots.                                  *)
LEMMA OnFinite ==
  ASSUME NEW n \in Nat, NEW p
  PROVE  IsFiniteSet(On(p, n)) /\ Cardinality(On(p, n)) \in Nat /\ Cardinality(On(p, n)) <= n
<1> DEFINE f == [i \in 1 .. n |-> p[i]]
<1>1. f \in Surjection(1 .. n, On(p, n))
  BY DEF Surjection, On
<1>2. IsFiniteSet(1 .. n) /\ Cardinality(1 .. n) = n
  BY FS_Interval
<1> HIDE DEF f
<1>3. IsFiniteSet(On(p, n)) /\ Cardinality(On(p, n)) <= n
  BY <1>1, <1>2, FS_Surjection
<1> QED
  BY <1>3, FS_CardinalityType

LEMMA MembersFinite ==
  ASSUME NEW n \in Nat, NEW p, NEW t, NEW b
  PROVE  /\ IsFiniteSet(Members(t, p, n, b)) /\ Cardinality(Members(t, p, n, b)) \in Nat
         /\ Cardinality(Members(t, p, n, b)) <= n
<1>1. IsFiniteSet(On(p, n)) /\ Cardinality(On(p, n)) \in Nat /\ Cardinality(On(p, n)) <= n
  BY OnFinite
<1>2. Members(t, p, n, b) \in SUBSET On(p, n)
  BY DEF Members
<1>3. /\ IsFiniteSet(Members(t, p, n, b))
      /\ Cardinality(Members(t, p, n, b)) <= Cardinality(On(p, n))
  BY <1>1, <1>2, FS_Subset
<1>4. Cardinality(Members(t, p, n, b)) \in Nat
  BY <1>3, FS_CardinalityType
<1> QED
  BY <1>1, <1>3, <1>4

(* insert_element puts a slot that is not yet on the list before it.        *)
LEMMA InsertLinks ==
  ASSUME NEW t \in Table, NEW p, NEW n, Linked(t, p, n),
         NEW slot \in 1 .. Len(t.elems), slot \notin On(p, n), t.elems[slot].key \in Keys
  PROVE  Linked(insert_element(t, slot), Cons(slot, p, n), n + 1)
<1> DEFINE u == insert_element(t, slot)
           c == Cons(slot, p, n)
           N == Len(t.elems)
           B == Bucket(t, t.elems[slot].key)
<1>1. /\ n \in Nat /\ N \in Nat /\ p \in [1 .. n -> 1 .. N]
      /\ Distinct(p, n)
      /\ t.first = At(p, n, 1)
      /\ \A i \in 1 .. n : t.elems[p[i]].next = At(p, n, i + 1)
      /\ \A i \in 1 .. n : t.elems[p[i]].key \in Keys
      /\ \A i \in 1 .. n : t.elems[p[i]].prev = At(p, n, i - 1)
  BY DEF Linked, List, Table
<1>2. slot # t.first /\ slot # None
  BY <1>1 DEF At, On, None
<1>3. /\ u \in Table
      /\ u.first = slot
      /\ Len(u.elems) = N /\ Len(u.ht) = Len(t.ht)
      /\ \A s \in 1 .. N :
           /\ u.elems[s].key = t.elems[s].key
           /\ u.elems[s].next = (IF s = slot THEN t.first ELSE t.elems[s].next)
           /\ u.elems[s].prev = (IF s = slot THEN None
                                 ELSE IF s = t.first THEN slot ELSE t.elems[s].prev)
      /\ \A b \in 1 .. Len(t.ht) :
           u.ht[b].count = (IF b = B THEN t.ht[b].count + 1 ELSE t.ht[b].count)
  <2>1. Inserted(t, slot, u)
    BY <1>2, InsertFields
  <2> HIDE DEF u
  <2> QED
    BY <2>1 DEF Inserted
<1>4. /\ c \in [1 .. n + 1 -> 1 .. N]
      /\ Distinct(c, n + 1)
      /\ c[1] = slot
      /\ \A i \in 1 .. n : c[i + 1] = p[i]
      /\ On(c, n + 1) = On(p, n) \cup {slot}
  <2>1. Consed(slot, p, n, N, c)
    BY <1>1, ConsList
  <2> HIDE DEF c
  <2> QED
    BY <2>1 DEF Consed
<1> HIDE DEF u, c
<1>5. \A i \in 1 .. n + 1 : i = 1 \/ (\E j \in 1 .. n : i = j + 1)
  <2> TAKE i \in 1 .. n + 1
  <2>1. i # 1 => i - 1 \in 1 .. n /\ i = (i - 1) + 1
    BY <1>1
  <2> QED
    BY <2>1
<1>6. /\ At(c, n + 1, 1) = slot
      /\ \A j \in 0 .. n : At(c, n + 1, j + 1) = IF j = 0 THEN slot ELSE At(p, n, j)
  <2>1. 1 \in 1 .. n + 1
    BY <1>1
  <2>2. ASSUME NEW j \in 0 .. n
        PROVE  At(c, n + 1, j + 1) = IF j = 0 THEN slot ELSE At(p, n, j)
    <3>1. j + 1 \in 1 .. n + 1 /\ (j # 0 => j \in 1 .. n)
      BY <1>1
    <3> QED
      BY <1>4, <3>1 DEF At
  <2> QED
    BY <1>4, <2>1, <2>2 DEF At
<1>7. List(u, c, n + 1, u.first)
  <2>1. ASSUME NEW i \in 1 .. n + 1
        PROVE  u.elems[c[i]].next = At(c, n + 1, i + 1)
    <3>1. CASE i = 1
      <4>1. u.elems[c[i]].next = t.first
        BY <1>3, <1>4, <3>1
      <4>2. At(c, n + 1, 1 + 1) = At(p, n, 1)
        <5>1. CASE n = 0
          <6>1. 1 + 1 \notin 1 .. n + 1 /\ 1 \notin 1 .. n
            BY <5>1
          <6> QED
            BY <6>1 DEF At
        <5>2. CASE n # 0
          <6>1. 1 \in 0 .. n
            BY <1>1, <5>2
          <6> QED
            BY <1>6, <6>1
        <5> QED
          BY <5>1, <5>2
      <4> QED
        BY <1>1, <3>1, <4>1, <4>2
    <3>2. CASE \E j \in 1 .. n : i = j + 1
      <4>1. PICK j \in 1 .. n : i = j + 1
        BY <3>2
      <4>2. c[i] = p[j] /\ p[j] # slot /\ p[j] \in 1 .. N
        BY <1>1, <1>4, <4>1 DEF On
      <4>3. u.elems[c[i]].next = At(p, n, j + 1)
        <5>1. u.elems[p[j]].next = t.elems[p[j]].next
          BY <1>3, <4>2
        <5> QED
          BY <1>1, <4>2, <5>1
      <4>4. At(c, n + 1, (j + 1) + 1) = At(p, n, j + 1)
        <5>1. CASE j = n
          <6>1. (j + 1) + 1 \notin 1 .. n + 1 /\ j + 1 \notin 1 .. n
            BY <1>1, <5>1
          <6> QED
            BY <6>1 DEF At
        <5>2. CASE j # n
          <6>1. j + 1 \in 0 .. n /\ j + 1 # 0
            BY <1>1, <5>2
          <6> QED
            BY <1>6, <6>1
        <5> QED
          BY <5>1, <5>2
      <4> QED
        BY <4>1, <4>3, <4>4
    <3> QED
      BY <1>5, <3>1, <3>2
  <2>2. n + 1 \in Nat /\ u.first = At(c, n + 1, 1)
    BY <1>1, <1>3, <1>6
  <2> QED
    BY <1>3, <1>4, <2>1, <2>2 DEF List
<1>8. ASSUME NEW i \in 1 .. n + 1
      PROVE  u.elems[c[i]].key \in Keys /\ u.elems[c[i]].prev = At(c, n + 1, i - 1)
  <2>1. CASE i = 1
    <3>1. u.elems[c[i]].key \in Keys /\ u.elems[c[i]].prev = None
      BY <1>3, <1>4, <2>1
    <3>2. i - 1 \notin 1 .. n + 1
      BY <2>1
    <3> QED
      BY <3>1, <3>2 DEF At
  <2>2. CASE \E j \in 1 .. n : i = j + 1
    <3>1. PICK j \in 1 .. n : i = j + 1
      BY <2>2
    <3>2. c[i] = p[j] /\ p[j] # slot /\ p[j] \in 1 .. N
      BY <1>1, <1>4, <3>1 DEF On
      <3>3. u.elems[c[i]].key \in Keys
      <4>1. t.elems[p[j]].key \in Keys
        BY <1>1
      <4>2. u.elems[p[j]].key = t.elems[p[j]].key
        BY <1>3, <3>2
      <4> QED
      BY <3>2, <4>1, <4>2
    <3>4. u.elems[c[i]].prev = IF p[j] = t.first THEN slot ELSE At(p, n, j - 1)
      BY <1>1, <1>3, <3>2
    <3>5. p[j] = t.first <=> j = 1
      <4>1. 1 \in 1 .. n
        BY <1>1
      <4>2. t.first = p[1]
        BY <1>1, <4>1 DEF At
      <4> QED
        BY <1>1, <4>1, <4>2 DEF Distinct
    <3>6. i - 1 = (j - 1) + 1 /\ j - 1 \in 0 .. n /\ (j - 1 = 0 <=> j = 1)
      BY <1>1, <3>1
    <3>7. At(c, n + 1, i - 1) = IF j - 1 = 0 THEN slot ELSE At(p, n, j - 1)
      BY <1>6, <3>6
    <3> QED
      BY <3>3, <3>4, <3>5, <3>6, <3>7
  <2> QED
    BY <1>5, <2>1, <2>2
<1>9. ASSUME NEW b \in 1 .. Len(u.ht)
      PROVE  u.ht[b].count = Cardinality(Members(u, c, n + 1, b))
  <2>1. \A s \in On(p, n) \cup {slot} : Bucket(u, u.elems[s].key) = Bucket(t, t.elems[s].key)
    <3>1. \A s \in On(p, n) \cup {slot} : s \in 1 .. N
      BY <1>1 DEF On
    <3> QED
      BY <1>3, <3>1 DEF Bucket
  <2>2. Members(u, c, n + 1, b) = IF b = B THEN Members(t, p, n, b) \cup {slot}
                                  ELSE Members(t, p, n, b)
    <3>1. \A s : s \in Members(u, c, n + 1, b)
                   <=> s \in On(p, n) \cup {slot} /\ Bucket(t, t.elems[s].key) = b
      BY <1>4, <2>1, Zenon DEF Members
    <3>2. \A s : s \in Members(t, p, n, b) <=> s \in On(p, n) /\ Bucket(t, t.elems[s].key) = b
      BY Zenon DEF Members
    <3> QED
      BY <3>1, <3>2
  <2>3. slot \notin Members(t, p, n, b)
    BY DEF Members
  <2>4. IsFiniteSet(Members(t, p, n, b))
    BY <1>1, MembersFinite
  <2>5. Cardinality(Members(t, p, n, b) \cup {slot}) = Cardinality(Members(t, p, n, b)) + 1
    BY <2>3, <2>4, FS_AddElement
  <2>6. t.ht[b].count = Cardinality(Members(t, p, n, b)) /\ b \in 1 .. Len(t.ht)
    BY <1>3, <1>9 DEF Linked
  <2> QED
    BY <1>3, <2>2, <2>5, <2>6
<1>10. Linked(u, c, n + 1)
  BY <1>7, <1>8, <1>9 DEF Linked
<1> QED
  BY <1>10 DEF u, c

(* After insert_element too, chains point into the pool.                    *)
LEMMA InsertPool ==
  ASSUME NEW t \in Table, NEW slot \in 1 .. Len(t.elems), slot # t.first, ChainsInPool(t)
  PROVE  ChainsInPool(insert_element(t, slot))
<1> DEFINE u == insert_element(t, slot)
<1>1. Inserted(t, slot, u)
  BY InsertFields
<1>2. Len(t.elems) \in Nat
  BY TableParts
<1> HIDE DEF u
<1>3. ChainsInPool(u)
  BY <1>1, <1>2 DEF Inserted, ChainsInPool
<1> QED
  BY <1>3 DEF u

(* No chain is beyond an element of its bucket.                             *)
Chained(t, p, n) ==
  \A b \in 1 .. Len(t.ht) :
    /\ t.ht[b].chain # None => t.ht[b].chain \in On(p, n)
    /\ \A i \in 1 .. n :
         Bucket(t, t.elems[p[i]].key) = b => \E j \in 1 .. i : t.ht[b].chain = p[j]

(* insert_element leaves no chain beyond an element of its bucket.          *)
LEMMA InsertChains ==
  ASSUME NEW t \in Table, NEW p, NEW n, Linked(t, p, n), Chained(t, p, n),
         NEW slot \in 1 .. Len(t.elems), slot \notin On(p, n)
  PROVE  Chained(insert_element(t, slot), Cons(slot, p, n), n + 1)
<1> DEFINE u == insert_element(t, slot)
           c == Cons(slot, p, n)
           N == Len(t.elems)
           B == Bucket(t, t.elems[slot].key)
<1>1. /\ n \in Nat /\ N \in Nat /\ p \in [1 .. n -> 1 .. N] /\ Distinct(p, n)
      /\ t.first = At(p, n, 1)
  BY DEF Linked, List, Table
<1>2. slot # t.first
  BY <1>1 DEF At, On, None
<1>3. Inserted(t, slot, u)
  BY <1>2, InsertFields
<1>4. Consed(slot, p, n, N, c)
  BY <1>1, ConsList
<1> HIDE DEF u, c
<1>5. \A i \in 1 .. n + 1 : i = 1 \/ (\E j \in 1 .. n : i = j + 1)
  <2> TAKE i \in 1 .. n + 1
  <2>1. i # 1 => i - 1 \in 1 .. n /\ i = (i - 1) + 1
    BY <1>1
  <2> QED
    BY <2>1
<1>6. ASSUME NEW b \in 1 .. Len(u.ht)
      PROVE  u.ht[b].chain # None => u.ht[b].chain \in On(c, n + 1)
  <2>1. b \in 1 .. Len(t.ht) /\ u.ht[b].chain = (IF b = B THEN slot ELSE t.ht[b].chain)
    BY <1>3, <1>6 DEF Inserted
  <2>2. On(c, n + 1) = On(p, n) \cup {slot}
    BY <1>4 DEF Consed
  <2> QED
    BY <2>1, <2>2 DEF Chained
<1>7. ASSUME NEW b \in 1 .. Len(u.ht), NEW i \in 1 .. n + 1, Bucket(u, u.elems[c[i]].key) = b
      PROVE  \E j \in 1 .. i : u.ht[b].chain = c[j]
  <2>1. b \in 1 .. Len(t.ht) /\ u.ht[b].chain = (IF b = B THEN slot ELSE t.ht[b].chain)
    BY <1>3, <1>7 DEF Inserted
  <2>2. c[i] \in 1 .. N /\ c[1] = slot
    BY <1>4 DEF Consed
  <2>3. Bucket(t, t.elems[c[i]].key) = b
    BY <1>3, <1>7, <2>2 DEF Inserted, Bucket
  <2>4. CASE b = B
    BY <2>1, <2>2, <2>4
  <2>5. CASE b # B
    <3>1. i # 1
      BY <2>2, <2>3, <2>5
    <3>2. PICK j \in 1 .. n : i = j + 1
      BY <1>5, <3>1
    <3>3. c[i] = p[j]
      BY <1>4, <3>2 DEF Consed
    <3>4. PICK h \in 1 .. j : t.ht[b].chain = p[h]
      BY <2>1, <2>3, <3>3 DEF Chained
    <3>5. h \in 1 .. n /\ h + 1 \in 1 .. i
      BY <1>1, <3>2
    <3>6. c[h + 1] = p[h]
      BY <1>4, <3>5 DEF Consed
    <3> QED
      BY <2>1, <2>5, <3>4, <3>5, <3>6
  <2> QED
    BY <2>4, <2>5
<1>8. Chained(u, c, n + 1)
  BY <1>6, <1>7 DEF Chained
<1> QED
  BY <1>8 DEF u, c

(* The first k of the slots p, in reverse.                                  *)
Rev(p, k) == [i \in 1 .. k |-> p[k + 1 - i]]

(* One more element of p put before a reversed beginning of p.              *)
LEMMA RevCons ==
  ASSUME NEW p, NEW k \in Nat
  PROVE  /\ Rev(p, k + 1) = Cons(p[k + 1], Rev(p, k), k)
         /\ On(Rev(p, k), k) = On(p, k)
<1>1. ASSUME NEW i \in 1 .. k + 1
      PROVE  p[(k + 1) + 1 - i] = IF i = 1 THEN p[k + 1] ELSE Rev(p, k)[i - 1]
  <2>1. CASE i = 1
    BY <2>1
  <2>2. CASE i # 1
    <3>1. i - 1 \in 1 .. k /\ k + 1 - (i - 1) = (k + 1) + 1 - i
      BY <2>2
    <3>2. Rev(p, k)[i - 1] = p[k + 1 - (i - 1)]
      BY <3>1 DEF Rev
    <3> QED
      BY <2>2, <3>1, <3>2
  <2> QED
    BY <2>1, <2>2
<1>2. Rev(p, k + 1) = Cons(p[k + 1], Rev(p, k), k)
  BY <1>1, Zenon DEF Rev, Cons
<1>3. \A i \in 1 .. k : k + 1 - i \in 1 .. k /\ k + 1 - (k + 1 - i) = i
  OBVIOUS
<1>4. ASSUME NEW i \in 1 .. k
      PROVE  Rev(p, k)[i] = p[k + 1 - i] /\ Rev(p, k)[k + 1 - i] = p[i]
  BY <1>3 DEF Rev
<1>5. ASSUME NEW s \in On(p, k)
      PROVE  s \in On(Rev(p, k), k)
  BY <1>3, <1>4 DEF On
<1>6. ASSUME NEW s \in On(Rev(p, k), k)
      PROVE  s \in On(p, k)
  BY <1>3, <1>4 DEF On
<1> QED
  BY <1>2, <1>5, <1>6

(* f inserts the first slots one after the other, as in rehash.             *)
IsRehash(f, start, slots, n) ==
  f = [k \in 0 .. n |-> IF k = 0 THEN start ELSE insert_element(f[k - 1], slots[k])]

(* There is such a function.                                                *)
LEMMA RehashExists ==
  ASSUME NEW start, NEW slots, NEW n \in Nat
  PROVE  \E f : IsRehash(f, start, slots, n)
<1> DEFINE S == {k \in Nat : \E f : IsRehash(f, start, slots, k)}
<1>1. 0 \in S
  <2> DEFINE g == [k \in 0 .. 0 |-> start]
  <2>1. g = [k \in 0 .. 0 |-> IF k = 0 THEN start ELSE insert_element(g[k - 1], slots[k])]
    OBVIOUS
  <2> HIDE DEF g
  <2>2. IsRehash(g, start, slots, 0)
    BY <2>1, Zenon DEF IsRehash
  <2> QED
    BY <2>2
<1>2. ASSUME NEW k \in 1 .. n, k - 1 \in S
      PROVE  k \in S
  <2>1. PICK f : IsRehash(f, start, slots, k - 1)
    BY <1>2
  <2> DEFINE g == [i \in 0 .. k |-> IF i = 0 THEN start ELSE insert_element(f[i - 1], slots[i])]
  <2>2. ASSUME NEW i \in 0 .. k - 1
        PROVE  g[i] = f[i]
    <3>1. f[i] = IF i = 0 THEN start ELSE insert_element(f[i - 1], slots[i])
      BY <2>1, Zenon DEF IsRehash
    <3>2. i \in 0 .. k
      OBVIOUS
    <3> QED
      BY <3>1, <3>2, Zenon
  <2>3. \A i \in 0 .. k : i # 0 => i - 1 \in 0 .. k - 1
    OBVIOUS
  <2>4. \A i \in 0 .. k : g[i] = IF i = 0 THEN start ELSE insert_element(g[i - 1], slots[i])
    <3> TAKE i \in 0 .. k
    <3>1. g[i] = IF i = 0 THEN start ELSE insert_element(f[i - 1], slots[i])
      BY Zenon
    <3>2. i # 0 => g[i - 1] = f[i - 1]
      BY <2>2, <2>3, Zenon
    <3> HIDE DEF g
    <3> QED
      BY <3>1, <3>2, Zenon
  <2>5. g = [i \in 0 .. k |-> g[i]]
    OBVIOUS
  <2> HIDE DEF g
  <2>6. IsRehash(g, start, slots, k)
    BY <2>4, <2>5, Zenon DEF IsRehash
  <2> QED
    BY <2>6
<1> HIDE DEF S
<1>3. \A k \in 0 .. n : k \in S
  BY <1>1, <1>2, UpTo
<1> QED
  BY <1>3 DEF S

(* A list of slots whose next fields are as they were is still a list.      *)
LEMMA ListKept ==
  ASSUME NEW t, NEW u, NEW q, NEW m, NEW head, List(t, q, m, head),
         Len(u.elems) = Len(t.elems),
         \A s \in 1 .. Len(t.elems) : s \in On(q, m) => u.elems[s].next = t.elems[s].next
  PROVE  List(u, q, m, head)
<1>1. \A i \in 1 .. m : q[i] \in 1 .. Len(t.elems) /\ q[i] \in On(q, m)
  BY DEF List, On
<1> QED
  BY <1>1 DEF List

(* rehash's number of buckets, and its table before the first insertion.    *)
Buckets(size) == IF size < MinBuckets THEN MinBuckets ELSE size
Bare(t, buckets) == [t EXCEPT !.first = None,
                              !.ht = [b \in 1 .. buckets |-> [chain |-> None, count |-> 0]]]

(* The table in the middle of rehash, with k elements in their new buckets. *)
HalfRehashed(t, p, k, buckets, a) ==
  /\ a \in Table
  /\ Linked(a, Rev(p, k), k)
  /\ Chained(a, Rev(p, k), k)
  /\ ChainsInPool(a)
  /\ Len(a.elems) = Len(t.elems) /\ Len(a.ht) = buckets
  /\ a.free_head = t.free_head /\ a.count = t.count
  /\ \A s \in 1 .. Len(t.elems) :
       /\ a.elems[s].key = t.elems[s].key /\ a.elems[s].data = t.elems[s].data
       /\ s \notin On(p, k) => /\ a.elems[s].next = t.elems[s].next
                              /\ a.elems[s].prev = t.elems[s].prev

LEMMA BareFields ==
  ASSUME NEW t \in Table, NEW buckets \in Nat
  PROVE  /\ Bare(t, buckets) \in Table
         /\ Bare(t, buckets).first = None
         /\ Bare(t, buckets).free_head = t.free_head
         /\ Bare(t, buckets).count = t.count
         /\ Bare(t, buckets).elems = t.elems
         /\ Len(Bare(t, buckets).ht) = buckets
         /\ \A b \in 1 .. buckets : /\ Bare(t, buckets).ht[b].chain = None
                                   /\ Bare(t, buckets).ht[b].count = 0
<1> DEFINE h == [b \in 1 .. buckets |-> [chain |-> None, count |-> 0]]
<1>1. h \in Seq(Entry) /\ Len(h) = buckets
  <2>1. h \in [1 .. buckets -> Entry]
    BY DEF Entry, None
  <2> HIDE DEF h
  <2> QED
    BY <2>1, SeqOver
<1>2. \A b \in 1 .. buckets : h[b].chain = None /\ h[b].count = 0
  OBVIOUS
<1>3. Bare(t, buckets) = [t EXCEPT !.first = None, !.ht = h]
  BY Zenon DEF Bare
<1> HIDE DEF h
<1>4. None \in Nat
  BY DEF None
<1> QED
  BY <1>1, <1>2, <1>3, <1>4 DEF Table

(* The loop of rehash, its beginning and one turn of it.                    *)
LEMMA RehashStarts ==
  ASSUME NEW t \in Table, NEW p, NEW buckets \in Nat
  PROVE  HalfRehashed(t, p, 0, buckets, Bare(t, buckets))
<1> DEFINE a == Bare(t, buckets)
           e == Rev(p, 0)
<1>1. /\ a \in Table /\ a.first = None /\ a.free_head = t.free_head /\ a.count = t.count
      /\ a.elems = t.elems /\ Len(a.ht) = buckets
      /\ \A b \in 1 .. buckets : a.ht[b].chain = None /\ a.ht[b].count = 0
  BY BareFields
<1> HIDE DEF a
<1>2. e \in [1 .. 0 -> 1 .. Len(a.elems)] /\ 1 .. 0 = {}
  BY DEF Rev
<1> HIDE DEF e
<1>3. On(e, 0) = {}
  BY <1>2 DEF On
<1>4. List(a, e, 0, a.first)
  BY <1>1, <1>2 DEF List, Distinct, At
<1>5. \A b : Members(a, e, 0, b) = {}
  BY <1>3 DEF Members
<1>6. Cardinality({}) = 0
  BY FS_EmptySet
<1>7. Linked(a, e, 0)
  BY <1>1, <1>2, <1>4, <1>5, <1>6 DEF Linked
<1>8. Chained(a, e, 0)
  BY <1>1, <1>2 DEF Chained
<1>9. ChainsInPool(a)
  <2>1. Len(a.elems) \in Nat
    BY <1>1, TableParts
  <2> QED
    BY <1>1, <2>1 DEF ChainsInPool, None
<1>10. HalfRehashed(t, p, 0, buckets, a)
  BY <1>1, <1>7, <1>8, <1>9 DEF HalfRehashed, e
<1> QED
  BY <1>10 DEF a

LEMMA RehashStep ==
  ASSUME NEW t \in Table, NEW p, NEW n, List(t, p, n, t.first),
         \A i \in 1 .. n : t.elems[p[i]].key \in Keys,
         NEW buckets \in Nat, NEW k \in 1 .. n, NEW a, HalfRehashed(t, p, k - 1, buckets, a)
  PROVE  HalfRehashed(t, p, k, buckets, insert_element(a, p[k]))
<1> DEFINE N == Len(t.elems)
           r == Rev(p, k - 1)
           u == insert_element(a, p[k])
<1>1. /\ n \in Nat /\ p \in [1 .. n -> 1 .. N] /\ Distinct(p, n)
      /\ k - 1 \in Nat /\ (k - 1) + 1 = k
  BY DEF List
<1>2. /\ a \in Table
      /\ Linked(a, r, k - 1)
      /\ Chained(a, r, k - 1)
      /\ ChainsInPool(a)
      /\ Len(a.elems) = N /\ Len(a.ht) = buckets
      /\ a.free_head = t.free_head /\ a.count = t.count
      /\ \A s \in 1 .. N :
           /\ a.elems[s].key = t.elems[s].key /\ a.elems[s].data = t.elems[s].data
           /\ s \notin On(p, k - 1) => /\ a.elems[s].next = t.elems[s].next
                                      /\ a.elems[s].prev = t.elems[s].prev
  BY DEF HalfRehashed
<1>3. Rev(p, k) = Cons(p[k], r, k - 1) /\ On(r, k - 1) = On(p, k - 1)
  BY <1>1, RevCons
<1>4. p[k] \in 1 .. Len(a.elems) /\ a.elems[p[k]].key \in Keys
  BY <1>1, <1>2
<1>5. p[k] \notin On(r, k - 1)
  <2>1. \A i \in 1 .. k - 1 : i \in 1 .. n /\ i # k
    BY <1>1
  <2>2. p[k] \notin On(p, k - 1)
    BY <1>1, <2>1 DEF On, Distinct
  <2> QED
    BY <1>3, <2>2
<1> HIDE DEF r
<1>6. Linked(u, Cons(p[k], r, k - 1), k)
  <2>1. Linked(u, Cons(p[k], r, k - 1), (k - 1) + 1)
    BY <1>2, <1>4, <1>5, InsertLinks
  <2> QED
    BY <1>1, <2>1
<1>7. Chained(u, Cons(p[k], r, k - 1), k)
  <2>1. Chained(u, Cons(p[k], r, k - 1), (k - 1) + 1)
    BY <1>2, <1>4, <1>5, InsertChains
  <2> QED
    BY <1>1, <2>1
<1>8. p[k] # a.first /\ (a.first # None => a.first \in On(p, k - 1))
  <2>1. a.first = At(r, k - 1, 1)
    BY <1>2 DEF Linked, List
  <2>2. p[k] # None
    BY <1>4 DEF None
  <2> QED
    BY <1>1, <1>3, <1>5, <2>1, <2>2 DEF At, On
<1>9. Inserted(a, p[k], u)
  BY <1>2, <1>4, <1>8, InsertFields
<1>10. ChainsInPool(u)
  BY <1>2, <1>4, <1>8, InsertPool
<1> HIDE DEF u
<1>11. ASSUME NEW s \in 1 .. N
       PROVE  /\ u.elems[s].key = t.elems[s].key /\ u.elems[s].data = t.elems[s].data
              /\ s \notin On(p, k) => /\ u.elems[s].next = t.elems[s].next
                                     /\ u.elems[s].prev = t.elems[s].prev
  <2>1. /\ u.elems[s].key = a.elems[s].key /\ u.elems[s].data = a.elems[s].data
        /\ u.elems[s].next = (IF s = p[k] THEN a.first ELSE a.elems[s].next)
        /\ u.elems[s].prev = (IF s = p[k] THEN None
                              ELSE IF s = a.first THEN p[k] ELSE a.elems[s].prev)
    BY <1>2, <1>9 DEF Inserted
  <2>2. s \notin On(p, k) => s # p[k] /\ s \notin On(p, k - 1) /\ s # a.first
    <3>1. s \notin On(p, k) => s # p[k] /\ s \notin On(p, k - 1)
      BY <1>1 DEF On
    <3>2. s # None
      BY DEF None
    <3> QED
      BY <1>8, <3>1, <3>2
  <2> QED
    BY <1>2, <2>1, <2>2
<1>12. HalfRehashed(t, p, k, buckets, u)
  BY <1>2, <1>3, <1>6, <1>7, <1>9, <1>10, <1>11 DEF HalfRehashed, Inserted
<1> QED
  BY <1>12 DEF u

(* rehash keeps the elements and the free list, reverses the list and       *)
(* leaves every chain at the first element of its bucket.                   *)
Rehashed(t, p, n, q, m, u) ==
  /\ Sound(u, Rev(p, n), n, q, m)
  /\ Chained(u, Rev(p, n), n)
  /\ Len(u.elems) = Len(t.elems) /\ u.count = t.count
  /\ On(Rev(p, n), n) = On(p, n)
  /\ \A s \in 1 .. Len(t.elems) :
       u.elems[s].key = t.elems[s].key /\ u.elems[s].data = t.elems[s].data

LEMMA RehashKeeps ==
  ASSUME NEW t, NEW p, NEW n, NEW q, NEW m, Sound(t, p, n, q, m), NEW size \in Nat
  PROVE  Rehashed(t, p, n, q, m, rehash(t, size))
<1> DEFINE N == Len(t.elems)
           B == Buckets(size)
           f == CHOOSE g : IsRehash(g, Bare(t, B), p, n)
           u == rehash(t, size)
<1>1. /\ t \in Table /\ List(t, p, n, t.first) /\ Linked(t, p, n) /\ Unused(t, q, m)
      /\ Shared(t, p, n, q, m) /\ n \in Nat /\ m \in Nat /\ n + m = N /\ n <= N
      /\ \A i \in 1 .. n : t.elems[p[i]].key \in Keys
  <2>1. /\ t \in Table /\ List(t, p, n, t.first) /\ Linked(t, p, n) /\ Unused(t, q, m)
        /\ Shared(t, p, n, q, m) /\ n \in Nat /\ m \in Nat /\ n + m = N /\ n <= N
    BY SoundParts
  <2>2. \A i \in 1 .. n : t.elems[p[i]].key \in Keys
    BY <2>1 DEF Linked
  <2> QED
    BY <2>1, <2>2
<1>2. B \in Nat
  BY HashTableAssumption DEF Buckets
<1>3. PathFrom(t, t.first) = p /\ Len(p) = n
  <2>1. t.first = At(p, n, 1) /\ 1 \in 1 .. n + 1
    BY <1>1 DEF List
  <2>2. PathFrom(t, At(p, n, 1)) = Rest(p, n, 1)
    BY <1>1, <2>1, PathOnList
  <2>3. p \in [1 .. n -> 1 .. N]
    BY <1>1 DEF List
  <2>4. Rest(p, n, 1) = p
    <3>1. n - 1 + 1 = n /\ \A k \in 1 .. n : 1 + k - 1 = k
      BY <1>1
    <3>2. Rest(p, n, 1) = [k \in 1 .. n |-> p[k]]
      BY <3>1 DEF Rest
    <3> QED
      BY <2>3, <3>2
  <2>5. Len(p) = n
    BY <1>1, <2>3, SeqOver
  <2> QED
    BY <2>1, <2>2, <2>4, <2>5
<1>4. IsRehash(f, Bare(t, B), p, n)
  BY <1>1, RehashExists, Zenon
<1>5. u = f[n]
  <2>1. \A live, len : PathFrom(t, t.first) = live /\ Len(live) = len =>
           rehash(t, size) = (CHOOSE g : IsRehash(g, Bare(t, B), live, len))[len]
    BY ZenonT(60) DEF rehash, IsRehash, Bare, Buckets
  <2> QED
    BY <1>3, <2>1, Zenon
<1> HIDE DEF f, u, B
<1>6. HalfRehashed(t, p, n, B, f[n])
  <2> DEFINE S == {k \in 0 .. n : HalfRehashed(t, p, k, B, f[k])}
  <2>0. \A k \in 0 .. n : f[k] = IF k = 0 THEN Bare(t, B) ELSE insert_element(f[k - 1], p[k])
    BY <1>4, Zenon DEF IsRehash
  <2>1. 0 \in S
    <3>1. 0 \in 0 .. n
      BY <1>1
    <3>2. f[0] = Bare(t, B)
      BY <2>0, <3>1
    <3>3. HalfRehashed(t, p, 0, B, Bare(t, B))
      BY <1>1, <1>2, RehashStarts
    <3> QED
      BY <3>1, <3>2, <3>3
  <2>2. ASSUME NEW k \in 1 .. n, k - 1 \in S
        PROVE  k \in S
    <3>1. k \in 0 .. n /\ k # 0
      BY <1>1
    <3>2. f[k] = insert_element(f[k - 1], p[k])
      BY <2>0, <3>1
    <3>3. HalfRehashed(t, p, k, B, insert_element(f[k - 1], p[k]))
      BY <1>1, <1>2, <2>2, RehashStep
    <3> QED
      BY <3>1, <3>2, <3>3
  <2> HIDE DEF S
  <2>3. \A k \in 0 .. n : k \in S
    BY <1>1, <2>1, <2>2, UpTo
  <2>4. n \in 0 .. n
    BY <1>1
  <2> QED
    BY <2>3, <2>4 DEF S
<1>7. HalfRehashed(t, p, n, B, u)
  BY <1>5, <1>6
<1>8. On(Rev(p, n), n) = On(p, n)
  BY <1>1, RevCons
<1>9. \A s \in 1 .. N : s \in On(q, m) => s \notin On(p, n)
  <2>1. \A s \in On(q, m) : t.elems[s].key = NoKey
    BY <1>1 DEF On, Unused
  <2>2. \A s \in On(p, n) : t.elems[s].key \in Keys
    BY <1>1 DEF On
  <2> QED
    BY <2>1, <2>2, HashTableAssumption
<1>10. Unused(u, q, m)
  <2>1. \A s \in 1 .. N : s \in On(q, m) => /\ u.elems[s].next = t.elems[s].next
                                            /\ u.elems[s].prev = t.elems[s].prev
    BY <1>7, <1>9 DEF HalfRehashed
  <2>2. Len(u.elems) = Len(t.elems) /\ u.free_head = t.free_head
    BY <1>7 DEF HalfRehashed
  <2>3. List(t, q, m, t.free_head)
    BY <1>1 DEF Unused
  <2>4. List(u, q, m, u.free_head)
    BY <2>1, <2>2, <2>3, ListKept
  <2>5. \A i \in 1 .. m : q[i] \in 1 .. N
    BY <2>3 DEF List
  <2>6. \A i \in 1 .. m : u.elems[q[i]].key = NoKey /\ u.elems[q[i]].prev = None
    <3>1. \A i \in 1 .. m : q[i] \in On(q, m)
      BY DEF On
    <3> QED
      BY <1>1, <1>7, <2>1, <2>5, <3>1 DEF Unused, HalfRehashed
  <2> QED
    BY <2>4, <2>6 DEF Unused
<1>11. Shared(u, Rev(p, n), n, q, m)
  BY <1>1, <1>7, <1>8 DEF Shared, HalfRehashed
<1>12. Rehashed(t, p, n, q, m, u)
  BY <1>7, <1>8, <1>10, <1>11 DEF Rehashed, Sound, HalfRehashed
<1> QED
  BY <1>12 DEF u

(* The three steps of remove_slot, field by field.                          *)
LEMMA UnlinkFields ==
  ASSUME NEW t \in Table, NEW slot \in 1 .. Len(t.elems),
         t.elems[slot].prev # t.elems[slot].next \/ t.elems[slot].prev = None
  PROVE  LET u == Unlink(t, slot)
             prev == t.elems[slot].prev
             next == t.elems[slot].next
         IN  /\ u \in Table
             /\ u.first = (IF prev = None THEN next ELSE t.first)
             /\ u.free_head = t.free_head /\ u.count = t.count /\ u.ht = t.ht
             /\ Len(u.elems) = Len(t.elems)
             /\ \A s \in 1 .. Len(t.elems) :
                  /\ u.elems[s].key = t.elems[s].key
                  /\ u.elems[s].data = t.elems[s].data
                  /\ u.elems[s].next = (IF s = prev THEN next ELSE t.elems[s].next)
                  /\ u.elems[s].prev = (IF s = next THEN prev ELSE t.elems[s].prev)
<1> DEFINE prev == t.elems[slot].prev
           next == t.elems[slot].next
           first == IF prev = None THEN next ELSE t.first
           els == [s \in 1 .. Len(t.elems) |->
                     CASE s = prev -> [t.elems[s] EXCEPT !.next = next]
                       [] s = next -> [t.elems[s] EXCEPT !.prev = prev]
                       [] OTHER    -> t.elems[s]]
           u == Unlink(t, slot)
<1>1. /\ Len(t.elems) \in Nat /\ DOMAIN t.elems = 1 .. Len(t.elems)
      /\ \A s \in 1 .. Len(t.elems) : t.elems[s] \in Cell
      /\ t.first \in Nat /\ t.free_head \in Nat /\ t.count \in Nat
  BY TableParts
<1>2. prev \in Nat /\ next \in Nat
  BY <1>1 DEF Cell
<1>3. u = [t EXCEPT !.first = first, !.elems = els]
  BY <1>1, Zenon DEF Unlink
<1> HIDE DEF prev, next
<1>4. ASSUME NEW s \in 1 .. Len(t.elems)
      PROVE  /\ els[s] \in Cell
             /\ els[s].key = t.elems[s].key
             /\ els[s].data = t.elems[s].data
             /\ els[s].next = (IF s = prev THEN next ELSE t.elems[s].next)
             /\ els[s].prev = (IF s = next THEN prev ELSE t.elems[s].prev)
  <2>1. t.elems[s] \in Cell /\ s # None
    BY <1>1 DEF None
  <2>2. CASE s = prev
    <3>1. s # next
      BY <2>1, <2>2 DEF prev, next
    <3>2. els[s] = [t.elems[s] EXCEPT !.next = next]
      BY <2>2, <3>1
    <3> HIDE DEF els
    <3> QED
      BY <1>2, <2>1, <2>2, <3>1, <3>2 DEF Cell
  <2>3. CASE s # prev /\ s = next
    <3>1. els[s] = [t.elems[s] EXCEPT !.prev = prev]
      BY <2>3
    <3> HIDE DEF els
    <3> QED
      BY <1>2, <2>1, <2>3, <3>1 DEF Cell
  <2>4. CASE s # prev /\ s # next
    <3>1. els[s] = t.elems[s]
      BY <2>4
    <3> HIDE DEF els
    <3> QED
      BY <2>1, <2>4, <3>1
  <2> QED
    BY <2>2, <2>3, <2>4
<1>5. els \in Seq(Cell) /\ Len(els) = Len(t.elems)
  <2>1. els \in [1 .. Len(t.elems) -> Cell]
    BY <1>4
  <2> HIDE DEF els
  <2> QED
    BY <1>1, <2>1, SeqOver
<1>6. first \in Nat
  BY <1>1, <1>2
<1> HIDE DEF els, first
<1>7. /\ u \in Table /\ u.ht = t.ht /\ u.elems = els /\ u.first = first
      /\ u.free_head = t.free_head /\ u.count = t.count
  BY <1>3, <1>5, <1>6 DEF Table
<1> HIDE DEF u
<1> QED
  BY <1>4, <1>5, <1>7 DEF u, first, prev, next

(* What LeaveBucket leaves.                                                 *)
Left(t, slot, u) ==
  /\ u \in Table
  /\ u.first = t.first /\ u.free_head = t.free_head /\ u.count = t.count
  /\ u.elems = t.elems /\ Len(u.ht) = Len(t.ht)
  /\ \A b \in 1 .. Len(t.ht) :
       /\ u.ht[b].chain = (IF b = Bucket(t, t.elems[slot].key) /\ t.ht[b].chain = slot
                           THEN t.elems[slot].next ELSE t.ht[b].chain)
       /\ u.ht[b].count = (IF b = Bucket(t, t.elems[slot].key)
                           THEN t.ht[b].count - 1 ELSE t.ht[b].count)

LEMMA LeaveFields ==
  ASSUME NEW t \in Table, NEW slot \in 1 .. Len(t.elems),
         \A b \in 1 .. Len(t.ht) : b = Bucket(t, t.elems[slot].key) => t.ht[b].count > 0
  PROVE  Left(t, slot, LeaveBucket(t, slot))
<1> DEFINE B == Bucket(t, t.elems[slot].key)
           next == t.elems[slot].next
           hts == [b \in 1 .. Len(t.ht) |->
                     IF b = B
                     THEN [chain |-> IF t.ht[b].chain = slot THEN next ELSE t.ht[b].chain,
                           count |-> t.ht[b].count - 1]
                     ELSE t.ht[b]]
           u == LeaveBucket(t, slot)
<1>1. /\ \A s \in 1 .. Len(t.elems) : t.elems[s] \in Cell
      /\ Len(t.ht) \in Nat /\ DOMAIN t.ht = 1 .. Len(t.ht)
      /\ \A b \in 1 .. Len(t.ht) : t.ht[b] \in Entry
  BY TableParts
<1>2. next \in Nat
  BY <1>1 DEF Cell
<1>3. u = [t EXCEPT !.ht = hts]
  BY <1>1, Zenon DEF LeaveBucket
<1> HIDE DEF next
<1>4. ASSUME NEW b \in 1 .. Len(t.ht)
      PROVE  /\ hts[b] \in Entry
             /\ hts[b].chain = (IF b = B /\ t.ht[b].chain = slot THEN next ELSE t.ht[b].chain)
             /\ hts[b].count = (IF b = B THEN t.ht[b].count - 1 ELSE t.ht[b].count)
  <2>1. t.ht[b] \in Entry /\ (b = B => t.ht[b].count - 1 \in Nat)
    BY <1>1 DEF Entry
  <2> HIDE DEF B
  <2> QED
    BY <1>2, <2>1 DEF Entry
<1>5. hts \in Seq(Entry) /\ Len(hts) = Len(t.ht)
  <2>1. hts \in [1 .. Len(t.ht) -> Entry]
    BY <1>4
  <2> HIDE DEF hts
  <2> QED
    BY <1>1, <2>1, SeqOver
<1> HIDE DEF hts
<1>6. /\ u \in Table /\ u.ht = hts /\ u.elems = t.elems /\ u.first = t.first
      /\ u.free_head = t.free_head /\ u.count = t.count
  BY <1>3, <1>5 DEF Table
<1> HIDE DEF u
<1> QED
  BY <1>4, <1>5, <1>6 DEF u, next, Left

LEMMA FreeFields ==
  ASSUME NEW t \in Table, NEW slot \in 1 .. Len(t.elems), t.count > 0
  PROVE  LET u == Free(t, slot)
         IN  /\ u \in Table
             /\ u.first = t.first /\ u.free_head = slot /\ u.count = t.count - 1
             /\ u.ht = t.ht /\ Len(u.elems) = Len(t.elems)
             /\ u.elems[slot].key = NoKey /\ u.elems[slot].data = Null
             /\ u.elems[slot].next = t.free_head /\ u.elems[slot].prev = None
             /\ \A s \in 1 .. Len(t.elems) : s # slot => u.elems[s] = t.elems[s]
<1> DEFINE cell == [key |-> NoKey, data |-> Null, next |-> t.free_head, prev |-> None]
           els == [t.elems EXCEPT ![slot] = cell]
           u == Free(t, slot)
<1>1. /\ t.elems \in Seq(Cell) /\ t.free_head \in Nat /\ t.count \in Nat /\ t.count - 1 \in Nat
      /\ slot \in Nat
  BY DEF Table
<1>2. cell \in Cell
  BY <1>1 DEF Cell, None
<1>3. u = [t EXCEPT !.elems = els, !.free_head = slot, !.count = t.count - 1]
  BY DEF Free, Table
<1>4. cell.key = NoKey /\ cell.data = Null /\ cell.next = t.free_head /\ cell.prev = None
  OBVIOUS
<1> HIDE DEF cell
<1>5. /\ els \in Seq(Cell) /\ Len(els) = Len(t.elems) /\ els[slot] = cell
      /\ \A s \in 1 .. Len(t.elems) : s # slot => els[s] = t.elems[s]
  BY <1>1, <1>2
<1> HIDE DEF els
<1>6. /\ u \in Table /\ u.first = t.first /\ u.free_head = slot /\ u.count = t.count - 1
      /\ u.ht = t.ht /\ u.elems = els
  BY <1>1, <1>3, <1>5 DEF Table
<1> HIDE DEF u
<1> QED
  BY <1>4, <1>5, <1>6 DEF u

(* What removing an element leaves, before an empty table is dropped.       *)
Removed(t, slot, u) ==
  /\ u \in Table
  /\ u.first = (IF t.elems[slot].prev = None THEN t.elems[slot].next ELSE t.first)
  /\ u.free_head = slot /\ u.count = t.count - 1
  /\ Len(u.elems) = Len(t.elems) /\ Len(u.ht) = Len(t.ht)
  /\ u.elems[slot].key = NoKey /\ u.elems[slot].next = t.free_head
  /\ u.elems[slot].prev = None
  /\ \A s \in 1 .. Len(t.elems) : s # slot =>
       /\ u.elems[s].key = t.elems[s].key
       /\ u.elems[s].data = t.elems[s].data
       /\ u.elems[s].next = (IF s = t.elems[slot].prev THEN t.elems[slot].next
                             ELSE t.elems[s].next)
       /\ u.elems[s].prev = (IF s = t.elems[slot].next THEN t.elems[slot].prev
                             ELSE t.elems[s].prev)
  /\ \A b \in 1 .. Len(t.ht) :
       /\ u.ht[b].chain = (IF b = Bucket(t, t.elems[slot].key) /\ t.ht[b].chain = slot
                           THEN t.elems[slot].next ELSE t.ht[b].chain)
       /\ u.ht[b].count = (IF b = Bucket(t, t.elems[slot].key)
                           THEN t.ht[b].count - 1 ELSE t.ht[b].count)

LEMMA RemovedFields ==
  ASSUME NEW t \in Table, NEW slot \in 1 .. Len(t.elems), t.count > 0,
         t.elems[slot].prev # t.elems[slot].next \/ t.elems[slot].prev = None,
         slot # t.elems[slot].prev, slot # t.elems[slot].next,
         \A b \in 1 .. Len(t.ht) : b = Bucket(t, t.elems[slot].key) => t.ht[b].count > 0
  PROVE  Removed(t, slot, Free(LeaveBucket(Unlink(t, slot), slot), slot))
<1> DEFINE v == Unlink(t, slot)
           w == LeaveBucket(v, slot)
           u == Free(w, slot)
           prev == t.elems[slot].prev
           next == t.elems[slot].next
<1>1. /\ v \in Table
      /\ v.first = (IF prev = None THEN next ELSE t.first)
      /\ v.free_head = t.free_head /\ v.count = t.count /\ v.ht = t.ht
      /\ Len(v.elems) = Len(t.elems)
      /\ \A s \in 1 .. Len(t.elems) :
           /\ v.elems[s].key = t.elems[s].key
           /\ v.elems[s].data = t.elems[s].data
           /\ v.elems[s].next = (IF s = prev THEN next ELSE t.elems[s].next)
           /\ v.elems[s].prev = (IF s = next THEN prev ELSE t.elems[s].prev)
  BY UnlinkFields, Zenon
<1> HIDE DEF v
<1>2. Bucket(v, v.elems[slot].key) = Bucket(t, t.elems[slot].key) /\ v.elems[slot].next = next
  BY <1>1 DEF Bucket
<1>3. /\ w \in Table
      /\ w.first = v.first /\ w.free_head = v.free_head /\ w.count = v.count
      /\ w.elems = v.elems /\ Len(w.ht) = Len(v.ht)
      /\ \A b \in 1 .. Len(v.ht) :
           /\ w.ht[b].chain = (IF b = Bucket(v, v.elems[slot].key) /\ v.ht[b].chain = slot
                               THEN v.elems[slot].next ELSE v.ht[b].chain)
           /\ w.ht[b].count = (IF b = Bucket(v, v.elems[slot].key)
                               THEN v.ht[b].count - 1 ELSE v.ht[b].count)
  <2>1. slot \in 1 .. Len(v.elems)
    BY <1>1
  <2>2. \A b \in 1 .. Len(v.ht) : b = Bucket(v, v.elems[slot].key) => v.ht[b].count > 0
    BY <1>1, <1>2
  <2> QED
    <3>1. Left(v, slot, w)
      BY <1>1, <2>1, <2>2, LeaveFields
    <3> HIDE DEF w
    <3> QED
      BY <3>1 DEF Left
<1> HIDE DEF w
<1>4. /\ u \in Table
      /\ u.first = w.first /\ u.free_head = slot /\ u.count = w.count - 1
      /\ u.ht = w.ht /\ Len(u.elems) = Len(w.elems)
      /\ u.elems[slot].key = NoKey /\ u.elems[slot].data = Null
      /\ u.elems[slot].next = w.free_head /\ u.elems[slot].prev = None
      /\ \A s \in 1 .. Len(w.elems) : s # slot => u.elems[s] = w.elems[s]
  <2>1. slot \in 1 .. Len(w.elems) /\ w.count > 0
    BY <1>1, <1>3
  <2> QED
    BY <1>3, <2>1, FreeFields, Zenon
<1> HIDE DEF u
<1>5. \A s \in 1 .. Len(t.elems) : s # slot => u.elems[s] = v.elems[s]
  BY <1>1, <1>3, <1>4
<1>6. \A b \in 1 .. Len(t.ht) :
        /\ u.ht[b].chain = (IF b = Bucket(t, t.elems[slot].key) /\ t.ht[b].chain = slot
                            THEN next ELSE t.ht[b].chain)
        /\ u.ht[b].count = (IF b = Bucket(t, t.elems[slot].key)
                            THEN t.ht[b].count - 1 ELSE t.ht[b].count)
  BY <1>1, <1>2, <1>3, <1>4
<1>7. Removed(t, slot, u)
  <2>1. \A s \in 1 .. Len(t.elems) : s # slot =>
          /\ u.elems[s].key = t.elems[s].key
          /\ u.elems[s].data = t.elems[s].data
          /\ u.elems[s].next = (IF s = prev THEN next ELSE t.elems[s].next)
          /\ u.elems[s].prev = (IF s = next THEN prev ELSE t.elems[s].prev)
    BY <1>1, <1>5
  <2>2. /\ u.first = (IF prev = None THEN next ELSE t.first)
        /\ u.free_head = slot /\ u.count = t.count - 1
        /\ Len(u.elems) = Len(t.elems) /\ Len(u.ht) = Len(t.ht)
        /\ u.elems[slot].next = t.free_head
    BY <1>1, <1>3, <1>4
  <2> QED
    BY <1>4, <1>6, <2>1, <2>2 DEF Removed
<1> QED
  BY <1>7 DEF u, w, v

(* The n slots p without the j-th.                                          *)
Without(p, n, j) == [i \in 1 .. n - 1 |-> IF i < j THEN p[i] ELSE p[i + 1]]

(* What the proofs need to know of that sequence, as w.                     *)
Shortened(p, n, j, N, w) ==
  /\ w \in [1 .. n - 1 -> 1 .. N]
  /\ Distinct(w, n - 1)
  /\ \A i \in 1 .. n - 1 : w[i] = IF i < j THEN p[i] ELSE p[i + 1]
  /\ On(w, n - 1) = On(p, n) \ {p[j]}
  /\ \A i \in 0 .. n : At(w, n - 1, i) = IF i < j THEN At(p, n, i) ELSE At(p, n, i + 1)

LEMMA WithoutList ==
  ASSUME NEW N, NEW n \in Nat, NEW p \in [1 .. n -> 1 .. N], Distinct(p, n), NEW j \in 1 .. n
  PROVE  Shortened(p, n, j, N, Without(p, n, j))
<1> DEFINE w == Without(p, n, j)
<1>1. \A i \in 1 .. n - 1 : w[i] = IF i < j THEN p[i] ELSE p[i + 1]
  BY DEF Without
<1>2. \A i \in 1 .. n - 1 : i \in 1 .. n /\ i + 1 \in 1 .. n
  OBVIOUS
<1>3. w \in [1 .. n - 1 -> 1 .. N]
  BY <1>2 DEF Without
<1> HIDE DEF w
<1>4. ASSUME NEW i \in 1 .. n - 1, NEW h \in 1 .. n - 1, w[i] = w[h]
      PROVE  i = h
  <2>1. (IF i < j THEN i ELSE i + 1) = (IF h < j THEN h ELSE h + 1)
    BY <1>1, <1>2, <1>4 DEF Distinct
  <2> QED
    BY <2>1
<1>5. On(w, n - 1) = On(p, n) \ {p[j]}
  <2>1. ASSUME NEW s \in On(w, n - 1)
        PROVE  s \in On(p, n) \ {p[j]}
    <3>1. PICK i \in 1 .. n - 1 : s = w[i]
      BY <2>1 DEF On
    <3>2. CASE i < j
      <4>1. s = p[i] /\ i \in 1 .. n /\ i # j
        BY <1>1, <1>2, <3>1, <3>2
      <4> QED
        BY <4>1 DEF On, Distinct
    <3>3. CASE ~ (i < j)
      <4>1. s = p[i + 1] /\ i + 1 \in 1 .. n /\ i + 1 # j
        BY <1>1, <1>2, <3>1, <3>3
      <4> QED
        BY <4>1 DEF On, Distinct
    <3> QED
      BY <3>2, <3>3
  <2>2. ASSUME NEW s \in On(p, n) \ {p[j]}
        PROVE  s \in On(w, n - 1)
    <3>1. PICK i \in 1 .. n : s = p[i] /\ i # j
      BY <2>2 DEF On
    <3>2. CASE i < j
      <4>1. i \in 1 .. n - 1 /\ w[i] = s
        BY <1>1, <3>1, <3>2
      <4> QED
        BY <4>1 DEF On
    <3>3. CASE ~ (i < j)
      <4>1. i - 1 \in 1 .. n - 1 /\ ~ (i - 1 < j) /\ (i - 1) + 1 = i
        BY <3>1, <3>3
      <4>2. w[i - 1] = s
        BY <1>1, <3>1, <4>1
      <4> QED
        BY <4>1, <4>2 DEF On
    <3> QED
      BY <3>2, <3>3
  <2> QED
    BY <2>1, <2>2
<1>6. ASSUME NEW i \in 0 .. n
      PROVE  At(w, n - 1, i) = IF i < j THEN At(p, n, i) ELSE At(p, n, i + 1)
  <2>1. CASE i \in 1 .. n - 1
    BY <1>1, <1>2, <2>1 DEF At
  <2>2. CASE i = 0
    BY <2>2 DEF At
  <2>3. CASE i = n
    <3>1. i \notin 1 .. n - 1 /\ ~ (i < j) /\ i + 1 \notin 1 .. n
      BY <2>3
    <3> QED
      BY <3>1 DEF At
  <2> QED
    BY <2>1, <2>2, <2>3
<1>7. Shortened(p, n, j, N, w)
  BY <1>1, <1>3, <1>4, <1>5, <1>6 DEF Shortened, Distinct
<1> QED
  BY <1>7 DEF w

(* A slot stands at one place of its list.                                  *)
LEMMA OnePlace ==
  ASSUME NEW t, NEW p, NEW n, NEW head, List(t, p, n, head),
         NEW i \in 1 .. n, NEW x \in 0 .. n + 1
  PROVE  p[i] = At(p, n, x) <=> i = x
<1>1. n \in Nat /\ p[i] # None
  BY DEF List, None
<1>2. x \in 1 .. n => (p[i] = p[x] <=> i = x)
  BY DEF List, Distinct
<1> QED
  BY <1>1, <1>2 DEF At

(* Removing the j-th element is such a removal: its neighbours are others.  *)
LEMMA RemoveApplies ==
  ASSUME NEW t, NEW p, NEW n, NEW q, NEW m, Sound(t, p, n, q, m), t.count = n, NEW j \in 1 .. n
  PROVE  Removed(t, p[j], Free(LeaveBucket(Unlink(t, p[j]), p[j]), p[j]))
<1> DEFINE slot == p[j]
<1>1. /\ t \in Table /\ n \in Nat /\ List(t, p, n, t.first) /\ Linked(t, p, n)
      /\ slot \in 1 .. Len(t.elems)
  BY DEF Sound, Linked, List
<1>2. t.elems[slot].prev = At(p, n, j - 1) /\ t.elems[slot].next = At(p, n, j + 1)
  BY <1>1 DEF Linked, List
<1>3. slot # At(p, n, j - 1) /\ slot # At(p, n, j + 1)
  <2>1. j - 1 \in 0 .. n + 1 /\ j + 1 \in 0 .. n + 1 /\ j # j - 1 /\ j # j + 1
    BY <1>1
  <2> QED
    BY <1>1, <2>1, OnePlace
<1>4. At(p, n, j - 1) # At(p, n, j + 1) \/ At(p, n, j - 1) = None
  <2>1. CASE j - 1 \in 1 .. n
    <3>1. j + 1 \in 0 .. n + 1 /\ j - 1 # j + 1
      BY <1>1
    <3>2. p[j - 1] # At(p, n, j + 1)
      BY <1>1, <2>1, <3>1, OnePlace
    <3> QED
      BY <2>1, <3>2 DEF At
  <2>2. CASE j - 1 \notin 1 .. n
    BY <2>2 DEF At
  <2> QED
    BY <2>1, <2>2
<1>5. ASSUME NEW b \in 1 .. Len(t.ht), b = Bucket(t, t.elems[slot].key)
      PROVE  t.ht[b].count > 0
  <2>1. slot \in Members(t, p, n, b)
    BY <1>5 DEF Members, On
  <2>2. IsFiniteSet(Members(t, p, n, b)) /\ Cardinality(Members(t, p, n, b)) \in Nat
    BY <1>1, MembersFinite
  <2>3. Cardinality(Members(t, p, n, b)) # 0
    BY <2>1, <2>2, FS_EmptySet
  <2>4. t.ht[b].count = Cardinality(Members(t, p, n, b))
    BY <1>1 DEF Linked
  <2> QED
    BY <2>2, <2>3, <2>4
<1>6. t.count > 0
  BY <1>1
<1> HIDE DEF slot
<1>7. Removed(t, slot, Free(LeaveBucket(Unlink(t, slot), slot), slot))
  BY <1>1, <1>2, <1>3, <1>4, <1>5, <1>6, RemovedFields
<1> QED
  BY <1>7 DEF slot

(* Removing the j-th element shortens the list and puts its slot before the *)
(* free list.                                                               *)
LEMMA RemoveKeeps ==
  ASSUME NEW t, NEW p, NEW n, NEW q, NEW m, Sound(t, p, n, q, m), NEW j \in 1 .. n,
         NEW u, Removed(t, p[j], u)
  PROVE  Sound(u, Without(p, n, j), n - 1, Cons(p[j], q, m), m + 1)
<1> DEFINE N == Len(t.elems)
           slot == p[j]
           w == Without(p, n, j)
           c == Cons(slot, q, m)
           B == Bucket(t, t.elems[slot].key)
           prev == At(p, n, j - 1)
           next == At(p, n, j + 1)
<1>1. /\ t \in Table /\ n \in Nat /\ m \in Nat /\ N \in Nat
      /\ List(t, p, n, t.first) /\ Linked(t, p, n)
      /\ List(t, q, m, t.free_head) /\ Unused(t, q, m)
      /\ p \in [1 .. n -> 1 .. N] /\ Distinct(p, n)
      /\ q \in [1 .. m -> 1 .. N] /\ Distinct(q, m)
      /\ slot \in 1 .. N /\ n - 1 \in Nat
  <2>1. /\ t \in Table /\ Linked(t, p, n) /\ Unused(t, q, m)
        /\ List(t, p, n, t.first) /\ List(t, q, m, t.free_head)
    BY DEF Sound, Linked, Unused
  <2>2. N \in Nat
    BY <2>1, TableParts
  <2> HIDE DEF N
  <2>3. /\ n \in Nat /\ p \in [1 .. n -> 1 .. N] /\ Distinct(p, n)
        /\ m \in Nat /\ q \in [1 .. m -> 1 .. N] /\ Distinct(q, m)
    BY <2>1 DEF List, N
  <2>4. p[j] \in 1 .. N /\ n - 1 \in Nat
    BY <2>3
  <2> QED
    BY <2>1, <2>2, <2>3, <2>4
<1>2. t.elems[slot].prev = prev /\ t.elems[slot].next = next
  BY <1>1 DEF Linked, List
<1>3. Shortened(p, n, j, N, w)
  BY <1>1, WithoutList
<1>4. slot \notin On(q, m)
  <2>1. t.elems[slot].key \in Keys
    BY <1>1 DEF Linked
  <2>2. \A s \in On(q, m) : t.elems[s].key = NoKey
    BY <1>1 DEF On, Unused
  <2> QED
    BY <2>1, <2>2, HashTableAssumption
<1>5. Consed(slot, q, m, N, c)
  BY <1>1, <1>4, ConsList
<1>6. /\ u \in Table
      /\ u.first = (IF prev = None THEN next ELSE t.first)
      /\ u.free_head = slot
      /\ Len(u.elems) = N /\ Len(u.ht) = Len(t.ht)
      /\ u.elems[slot].key = NoKey /\ u.elems[slot].next = t.free_head
      /\ u.elems[slot].prev = None
      /\ \A s \in 1 .. N : s # slot =>
           /\ u.elems[s].key = t.elems[s].key
           /\ u.elems[s].next = (IF s = prev THEN next ELSE t.elems[s].next)
           /\ u.elems[s].prev = (IF s = next THEN prev ELSE t.elems[s].prev)
      /\ \A b \in 1 .. Len(t.ht) :
           /\ u.ht[b].chain = (IF b = B /\ t.ht[b].chain = slot THEN next ELSE t.ht[b].chain)
           /\ u.ht[b].count = (IF b = B THEN t.ht[b].count - 1 ELSE t.ht[b].count)
  BY <1>2 DEF Removed
<1> HIDE DEF w, c
<1>7. ASSUME NEW i \in 1 .. n, i # j
      PROVE  /\ p[i] # slot /\ p[i] \in 1 .. N
             /\ p[i] = prev <=> i = j - 1
             /\ p[i] = next <=> i = j + 1
  <2>1. j - 1 \in 0 .. n + 1 /\ j + 1 \in 0 .. n + 1
    BY <1>1
  <2>2. p[i] # slot /\ p[i] \in 1 .. N
    BY <1>1, <1>7 DEF Distinct
  <2>0. List(t, p, n, t.first)
    BY <1>1
  <2>3. p[i] = At(p, n, j - 1) <=> i = j - 1
    BY <2>0, <2>1, OnePlace
  <2>4. p[i] = At(p, n, j + 1) <=> i = j + 1
    BY <2>0, <2>1, OnePlace
  <2> QED
    BY <2>2, <2>3, <2>4
<1>8. ASSUME NEW i \in 1 .. n, i # j
      PROVE  /\ u.elems[p[i]].key \in Keys
             /\ u.elems[p[i]].next = (IF i = j - 1 THEN next ELSE At(p, n, i + 1))
             /\ u.elems[p[i]].prev = (IF i = j + 1 THEN prev ELSE At(p, n, i - 1))
  <2>1. /\ t.elems[p[i]].key \in Keys /\ t.elems[p[i]].next = At(p, n, i + 1)
        /\ t.elems[p[i]].prev = At(p, n, i - 1)
    BY <1>1 DEF Linked, List
  <2> HIDE DEF slot, prev, next
  <2> QED
    BY <1>6, <1>7, <1>8, <2>1
<1>9. \A i \in 0 .. n : At(w, n - 1, i) = IF i < j THEN At(p, n, i) ELSE At(p, n, i + 1)
  BY <1>3 DEF Shortened
<1>10. \A i \in 1 .. n - 1 : w[i] = IF i < j THEN p[i] ELSE p[i + 1]
  BY <1>3 DEF Shortened
<1>11. List(u, w, n - 1, u.first)
  <2>1. u.first = At(w, n - 1, 1)
    <3>1. At(w, n - 1, 1) = IF 1 < j THEN At(p, n, 1) ELSE At(p, n, 2)
      BY <1>1, <1>9
    <3>2. prev = None <=> j = 1
      <4>1. j # 1 => j - 1 \in 1 .. n /\ p[j - 1] # None
        BY <1>1 DEF None
      <4>2. j = 1 => j - 1 \notin 1 .. n
        OBVIOUS
      <4> QED
        BY <4>1, <4>2 DEF At
    <3>3. t.first = At(p, n, 1)
      BY <1>1 DEF List
    <3>4. j = 1 => next = At(p, n, 2)
      OBVIOUS
    <3> HIDE DEF prev, next
    <3> QED
      BY <1>1, <1>6, <3>1, <3>2, <3>3, <3>4
  <2>2. ASSUME NEW i \in 1 .. n - 1
        PROVE  u.elems[w[i]].next = At(w, n - 1, i + 1)
    <3>1. i + 1 \in 0 .. n /\ i \in 1 .. n /\ i + 1 \in 1 .. n
      BY <1>1
    <3>2. At(w, n - 1, i + 1) = IF i + 1 < j THEN At(p, n, i + 1) ELSE At(p, n, (i + 1) + 1)
      BY <1>9, <3>1
    <3>3. CASE i < j
      <4>1. u.elems[w[i]].next = IF i = j - 1 THEN next ELSE At(p, n, i + 1)
        BY <1>8, <1>10, <3>1, <3>3
      <4>2. i = j - 1 => next = At(p, n, (i + 1) + 1) /\ ~ (i + 1 < j)
        BY <3>1
      <4>3. i # j - 1 => i + 1 < j
        BY <3>1, <3>3
      <4> HIDE DEF next
      <4> QED
        BY <3>2, <4>1, <4>2, <4>3
    <3>4. CASE ~ (i < j)
      <4>1. i + 1 # j /\ i + 1 # j - 1 /\ ~ (i + 1 < j)
        BY <3>1, <3>4
      <4>2. u.elems[p[i + 1]].next = At(p, n, (i + 1) + 1)
        BY <1>8, <3>1, <4>1
      <4> QED
        BY <1>10, <3>2, <3>4, <4>1, <4>2
    <3> QED
      BY <3>3, <3>4
  <2>3. w \in [1 .. n - 1 -> 1 .. N] /\ Distinct(w, n - 1)
    BY <1>3 DEF Shortened
  <2> QED
    BY <1>1, <1>6, <2>1, <2>2, <2>3 DEF List
<1>12. ASSUME NEW i \in 1 .. n - 1
       PROVE  u.elems[w[i]].key \in Keys /\ u.elems[w[i]].prev = At(w, n - 1, i - 1)
  <2>1. i - 1 \in 0 .. n /\ i \in 1 .. n /\ i + 1 \in 1 .. n
    BY <1>1
  <2>2. At(w, n - 1, i - 1) = IF i - 1 < j THEN At(p, n, i - 1) ELSE At(p, n, (i - 1) + 1)
    BY <1>9, <2>1
  <2>3. CASE i < j
    <3>1. i # j /\ i # j + 1 /\ i - 1 < j
      BY <2>1, <2>3
    <3>2. u.elems[p[i]].key \in Keys /\ u.elems[p[i]].prev = At(p, n, i - 1)
      BY <1>8, <2>1, <3>1
    <3> QED
      BY <1>10, <2>2, <2>3, <3>1, <3>2
  <2>4. CASE ~ (i < j)
    <3>1. i + 1 # j
      BY <2>1, <2>4
    <3>2. u.elems[p[i + 1]].key \in Keys
          /\ u.elems[p[i + 1]].prev = IF i + 1 = j + 1 THEN prev ELSE At(p, n, (i + 1) - 1)
      BY <1>8, <2>1, <3>1
    <3>3. w[i] = p[i + 1]
      BY <1>10, <2>4
    <3>4. CASE i = j
      <4>1. prev = At(p, n, i - 1) /\ i - 1 < j /\ i + 1 = j + 1
        BY <2>1, <3>4
      <4> HIDE DEF prev
      <4> QED
        BY <2>2, <3>2, <3>3, <4>1
    <3>5. CASE i # j
      <4>1. ~ (i - 1 < j) /\ i + 1 # j + 1 /\ (i + 1) - 1 = (i - 1) + 1
        BY <2>1, <2>4, <3>5
      <4> HIDE DEF prev
      <4> QED
        BY <2>2, <3>2, <3>3, <4>1
    <3> QED
      BY <3>4, <3>5
  <2> QED
    BY <2>3, <2>4
<1>13. ASSUME NEW b \in 1 .. Len(u.ht)
       PROVE  u.ht[b].count = Cardinality(Members(u, w, n - 1, b))
  <2>1. On(w, n - 1) = On(p, n) \ {slot}
    BY <1>3 DEF Shortened
  <2>2. \A s \in On(p, n) : s \in 1 .. N
    BY <1>1 DEF On
  <2>3. \A s \in On(p, n) \ {slot} : Bucket(u, u.elems[s].key) = Bucket(t, t.elems[s].key)
    BY <1>6, <2>2 DEF Bucket
  <2>4. \A s : s \in Members(u, w, n - 1, b)
                 <=> s \in On(p, n) \ {slot} /\ Bucket(t, t.elems[s].key) = b
    BY <2>1, <2>3, Zenon DEF Members
  <2>5. \A s : s \in Members(t, p, n, b) <=> s \in On(p, n) /\ Bucket(t, t.elems[s].key) = b
    BY Zenon DEF Members
  <2>6. Members(u, w, n - 1, b) = IF b = B THEN Members(t, p, n, b) \ {slot}
                                  ELSE Members(t, p, n, b)
    BY <2>4, <2>5
  <2>7. b = B => slot \in Members(t, p, n, b)
    BY DEF Members, On
  <2>8. IsFiniteSet(Members(t, p, n, b))
    BY <1>1, MembersFinite
  <2>9. b = B => Cardinality(Members(t, p, n, b) \ {slot}) = Cardinality(Members(t, p, n, b)) - 1
    BY <2>7, <2>8, FS_RemoveElement
  <2>10. t.ht[b].count = Cardinality(Members(t, p, n, b)) /\ b \in 1 .. Len(t.ht)
    BY <1>1, <1>6, <1>13 DEF Linked
  <2> QED
    BY <1>6, <2>6, <2>9, <2>10
<1>14. Linked(u, w, n - 1)
  BY <1>11, <1>12, <1>13 DEF Linked
<1>15. Unused(u, c, m + 1)
  <2>1. \A i \in 1 .. m : q[i] # slot /\ q[i] # prev /\ q[i] # next /\ q[i] \in 1 .. N
    <3>1. \A i \in 1 .. m : q[i] \in 1 .. N /\ q[i] # slot
      BY <1>1, <1>4 DEF On
    <3>2. /\ prev = None \/ t.elems[prev].key \in Keys
          /\ next = None \/ t.elems[next].key \in Keys
      BY <1>1 DEF At, Linked
    <3>3. \A i \in 1 .. m : t.elems[q[i]].key = NoKey
      BY <1>1 DEF Unused
    <3>4. ASSUME NEW i \in 1 .. m
          PROVE  q[i] # slot /\ q[i] # prev /\ q[i] # next /\ q[i] \in 1 .. N
      <4>1. q[i] \in 1 .. N /\ q[i] # slot /\ q[i] # None /\ t.elems[q[i]].key \notin Keys
        <5>1. NoKey \notin Keys
          BY HashTableAssumption
        <5>2. q[i] \in 1 .. N /\ q[i] # slot
          BY <3>1
        <5>3. q[i] # None
          BY <5>2 DEF None
        <5> QED
          BY <3>3, <5>1, <5>2, <5>3
      <4> HIDE DEF slot, prev, next
      <4> QED
        BY <3>2, <4>1
    <3> QED
      BY <3>4
  <2>2. \A i \in 1 .. m : /\ u.elems[q[i]].next = At(q, m, i + 1) /\ u.elems[q[i]].key = NoKey
                          /\ u.elems[q[i]].prev = None
    <3>1. \A i \in 1 .. m : /\ t.elems[q[i]].next = At(q, m, i + 1) /\ t.elems[q[i]].key = NoKey
                            /\ t.elems[q[i]].prev = None
      BY <1>1 DEF Unused, List
    <3> HIDE DEF slot, prev, next
    <3>2. \A s \in 1 .. N : s # slot /\ s # prev /\ s # next =>
            /\ u.elems[s].key = t.elems[s].key
            /\ u.elems[s].next = t.elems[s].next
            /\ u.elems[s].prev = t.elems[s].prev
      BY <1>6
    <3> HIDE DEF N
    <3> QED
      BY <2>1, <3>1, <3>2
  <2>3. /\ c \in [1 .. m + 1 -> 1 .. N] /\ Distinct(c, m + 1) /\ c[1] = slot
        /\ \A i \in 1 .. m : c[i + 1] = q[i]
    BY <1>5 DEF Consed
  <2>4. ASSUME NEW i \in 1 .. m + 1
        PROVE  /\ u.elems[c[i]].next = At(c, m + 1, i + 1) /\ u.elems[c[i]].key = NoKey
               /\ u.elems[c[i]].prev = None
    <3>1. At(c, m + 1, i + 1) = At(q, m, i)
      <4>1. i + 1 \in 1 .. m + 1 <=> i \in 1 .. m
        BY <1>1
      <4> QED
        BY <2>3, <4>1 DEF At
    <3>2. CASE i = 1
      <4>1. t.free_head = At(q, m, 1)
        BY <1>1 DEF List
      <4> QED
        BY <1>6, <2>3, <3>1, <3>2, <4>1
    <3>3. CASE i # 1
      <4>1. i - 1 \in 1 .. m /\ (i - 1) + 1 = i
        BY <1>1, <3>3
      <4>2. c[i] = q[i - 1]
        BY <2>3, <4>1
      <4> QED
        BY <2>2, <3>1, <4>1, <4>2
    <3> QED
      BY <3>2, <3>3
  <2>5. 1 \in 1 .. m + 1 /\ m + 1 \in Nat
    BY <1>1
  <2>6. List(u, c, m + 1, u.free_head)
    BY <1>6, <2>3, <2>4, <2>5 DEF List, At
  <2> QED
    BY <2>4, <2>6 DEF Unused
<1>16. Shared(u, w, n - 1, c, m + 1)
  <2>1. On(w, n - 1) = On(p, n) \ {slot} /\ On(c, m + 1) = On(q, m) \cup {slot}
    BY <1>3, <1>5 DEF Shortened, Consed
  <2>2. n + m = N /\ \A s \in 1 .. N : s \in On(p, n) \/ s \in On(q, m)
    BY DEF Sound, Shared
  <2>3. n - 1 + (m + 1) = N
    <3> HIDE DEF N
    <3> QED
      BY <1>1, <2>2
  <2> QED
    BY <1>6, <2>1, <2>2, <2>3 DEF Shared
<1>17. ChainsInPool(u)
  <2>1. next \in 0 .. N
    BY <1>1 DEF At, None
  <2>2. \A b \in 1 .. Len(t.ht) : t.ht[b].chain \in 0 .. N
    BY DEF Sound, ChainsInPool
  <2> HIDE DEF next
  <2> QED
    BY <1>6, <2>1, <2>2 DEF ChainsInPool
<1>18. Sound(u, w, n - 1, c, m + 1)
  BY <1>6, <1>14, <1>15, <1>16, <1>17 DEF Sound
<1> QED
  BY <1>18 DEF w, c

(* When no chain is left pointing at the slot that was freed, every chain   *)
(* is still not beyond an element of its bucket.                            *)
LEMMA RemoveChains ==
  ASSUME NEW t, NEW p, NEW n, NEW q, NEW m, Sound(t, p, n, q, m), Chained(t, p, n),
         NEW j \in 1 .. n,
         NEW u, Removed(t, p[j], u),
         \A b \in 1 .. Len(u.ht) : ~ Freed(u, u.ht[b].chain)
  PROVE  Chained(u, Without(p, n, j), n - 1)
<1> DEFINE N == Len(t.elems)
           slot == p[j]
           w == Without(p, n, j)
           B == Bucket(t, t.elems[slot].key)
           next == At(p, n, j + 1)
<1>1. /\ t \in Table /\ n \in Nat /\ List(t, p, n, t.first)
      /\ p \in [1 .. n -> 1 .. N] /\ Distinct(p, n) /\ slot \in 1 .. N
  BY DEF Sound, Linked, List
<1>2. t.elems[slot].next = next
  BY <1>1 DEF List
<1>3. Shortened(p, n, j, N, w)
  BY <1>1, WithoutList
<1>4. /\ Len(u.ht) = Len(t.ht) /\ u.elems[slot].key = NoKey
      /\ \A s \in 1 .. N : s # slot => u.elems[s].key = t.elems[s].key
      /\ \A b \in 1 .. Len(t.ht) :
           u.ht[b].chain = (IF b = B /\ t.ht[b].chain = slot THEN next ELSE t.ht[b].chain)
  BY <1>2 DEF Removed
<1> HIDE DEF w, slot, next
<1>5. ASSUME NEW b \in 1 .. Len(t.ht), t.ht[b].chain = slot
      PROVE  b = B
  <2>1. slot # None
    BY <1>1 DEF None
  <2>2. b # B => Freed(u, u.ht[b].chain)
    BY <1>4, <1>5, <2>1 DEF Freed
  <2> QED
    BY <1>4, <2>2
<1>6. On(w, n - 1) = On(p, n) \ {slot}
  BY <1>3 DEF Shortened, slot
<1>7. next # None => next \in On(w, n - 1)
  <2>1. j + 1 \in 1 .. n => p[j + 1] \in On(p, n) /\ p[j + 1] # slot
    BY <1>1 DEF On, Distinct, slot
  <2> QED
    BY <1>6, <2>1 DEF next, At
<1>8. ASSUME NEW b \in 1 .. Len(u.ht), u.ht[b].chain # None
      PROVE  u.ht[b].chain \in On(w, n - 1)
  <2>1. t.ht[b].chain # None => t.ht[b].chain \in On(p, n)
    BY <1>4 DEF Chained
  <2> QED
    BY <1>4, <1>5, <1>6, <1>7, <1>8, <2>1
<1>9. \A i \in 1 .. n - 1 : w[i] = IF i < j THEN p[i] ELSE p[i + 1]
  BY <1>3 DEF Shortened
<1>10. ASSUME NEW b \in 1 .. Len(u.ht), NEW i \in 1 .. n - 1, Bucket(u, u.elems[w[i]].key) = b
       PROVE  \E h \in 1 .. i : u.ht[b].chain = w[h]
  <2> DEFINE x == IF i < j THEN i ELSE i + 1
  <2>1. x \in 1 .. n /\ x # j /\ w[i] = p[x] /\ i <= x /\ x <= i + 1
    BY <1>1, <1>9
  <2>2. p[x] # slot /\ p[x] \in 1 .. N
    BY <1>1, <2>1 DEF Distinct, slot
  <2>3. Bucket(t, t.elems[p[x]].key) = b
    BY <1>4, <1>10, <2>1, <2>2 DEF Bucket
  <2>4. PICK h \in 1 .. x : t.ht[b].chain = p[h]
    BY <1>4, <2>1, <2>3 DEF Chained
  <2>5. CASE h = j
    <3>1. j < x /\ j \in 1 .. i /\ ~ (j < j) /\ j \in 1 .. n - 1 /\ j + 1 \in 1 .. n
      BY <1>1, <2>1, <2>4, <2>5
    <3>2. u.ht[b].chain = next
      BY <1>4, <1>5, <2>4, <2>5 DEF slot
    <3>3. next = w[j]
      BY <1>9, <3>1 DEF next, At
    <3> QED
      BY <3>1, <3>2, <3>3
  <2>6. CASE h # j
    <3>1. h \in 1 .. n /\ p[h] # slot
      BY <1>1, <2>1, <2>4, <2>6 DEF Distinct, slot
    <3>2. u.ht[b].chain = p[h]
      BY <1>4, <2>4, <3>1
    <3>3. CASE h < j
      <4>1. h \in 1 .. i /\ h \in 1 .. n - 1
        BY <1>1, <2>1, <2>4, <3>3
      <4>2. w[h] = p[h]
        BY <1>9, <3>3, <4>1
      <4> QED
        BY <3>2, <4>1, <4>2
    <3>4. CASE ~ (h < j)
      <4>1. h - 1 \in 1 .. i /\ h - 1 \in 1 .. n - 1 /\ ~ (h - 1 < j) /\ (h - 1) + 1 = h
        BY <1>1, <2>1, <2>4, <2>6, <3>1, <3>4
      <4>2. w[h - 1] = p[h]
        BY <1>9, <4>1
      <4> QED
        BY <3>2, <4>1, <4>2
    <3> QED
      BY <3>3, <3>4
  <2> QED
    BY <2>5, <2>6
<1>11. Chained(u, w, n - 1)
  BY <1>8, <1>10 DEF Chained
<1> QED
  BY <1>11 DEF w

(* Changes to other slots and other fields leave the list as it is.         *)
SameLinks(t, u, S) ==
  /\ Len(u.elems) >= Len(t.elems)
  /\ u.first = t.first /\ u.ht = t.ht
  /\ \A s \in S : /\ u.elems[s].key = t.elems[s].key
                  /\ u.elems[s].next = t.elems[s].next
                  /\ u.elems[s].prev = t.elems[s].prev

LEMMA LinkedKept ==
  ASSUME NEW t \in Table, NEW u \in Table, NEW p, NEW n,
         Linked(t, p, n), SameLinks(t, u, On(p, n))
  PROVE  Linked(u, p, n) /\ (Chained(t, p, n) => Chained(u, p, n))
<1>1. \A i \in 1 .. n : p[i] \in On(p, n)
  BY DEF On
<1>2. /\ n \in Nat /\ p \in [1 .. n -> 1 .. Len(t.elems)] /\ Distinct(p, n)
      /\ t.first = At(p, n, 1)
      /\ \A i \in 1 .. n : t.elems[p[i]].next = At(p, n, i + 1)
  BY DEF Linked, List
<1>3. p \in [1 .. n -> 1 .. Len(u.elems)]
  <2>1. Len(t.elems) \in Nat /\ Len(u.elems) \in Nat /\ Len(u.elems) >= Len(t.elems)
    BY TableParts DEF SameLinks
  <2>2. \A s \in 1 .. Len(t.elems) : s \in 1 .. Len(u.elems)
    BY <2>1
  <2> QED
    BY <1>2, <2>2
<1>4. List(u, p, n, u.first)
  BY <1>1, <1>2, <1>3 DEF List, SameLinks
<1>5. \A i \in 1 .. n : Bucket(u, u.elems[p[i]].key) = Bucket(t, t.elems[p[i]].key)
  BY <1>1 DEF SameLinks, Bucket
<1>6. \A b : Members(u, p, n, b) = Members(t, p, n, b)
  <2>1. \A s \in On(p, n) : Bucket(u, u.elems[s].key) = Bucket(t, t.elems[s].key)
    BY DEF SameLinks, Bucket
  <2> QED
    BY <2>1 DEF Members
<1>7. Linked(u, p, n)
  <2>1. \A i \in 1 .. n : u.elems[p[i]].key \in Keys /\ u.elems[p[i]].prev = At(p, n, i - 1)
    BY <1>1 DEF Linked, SameLinks
  <2>2. \A b \in 1 .. Len(u.ht) : u.ht[b].count = Cardinality(Members(u, p, n, b))
    BY <1>6 DEF Linked, SameLinks
  <2> QED
    BY <1>4, <2>1, <2>2 DEF Linked
<1>8. ASSUME Chained(t, p, n)
      PROVE  Chained(u, p, n)
  <2>1. u.ht = t.ht
    BY DEF SameLinks
  <2> QED
    BY <1>5, <1>8, <2>1 DEF Chained
<1> QED
  BY <1>7, <1>8

(* What alloc_slot leaves: the new slot is on neither list.                 *)
Allocated(t, k, d, p, n, q, m, slot, a) ==
  /\ a \in Table
  /\ slot \in 1 .. Len(a.elems) /\ slot \notin On(p, n) /\ slot \notin On(q, m)
  /\ a.elems[slot].key = k /\ a.elems[slot].data = d
  /\ SameLinks(t, a, On(p, n))
  /\ \A s \in On(p, n) : a.elems[s].data = t.elems[s].data
  /\ Unused(a, q, m)
  /\ n + 1 + m = Len(a.elems)
  /\ \A s \in 1 .. Len(a.elems) : s = slot \/ s \in On(p, n) \/ s \in On(q, m)
  /\ a.count = t.count + 1

(* The beginning of insert for a key that is not found.                     *)
AllocAndCount(t, k, d) == [alloc_slot(t, k, d) EXCEPT !.count = @ + 1]

(* What alloc_slot leaves in the fields, with the count raised.             *)
LEMMA AllocFields ==
  ASSUME NEW t \in Table, NEW k \in Keys, NEW d \in Pointers,
         t.free_head \in 0 .. Len(t.elems)
  PROVE  LET a == AllocAndCount(t, k, d)
             slot == FreshSlot(t)
         IN  /\ a \in Table
             /\ a.first = t.first /\ a.ht = t.ht /\ a.count = t.count + 1
             /\ Len(a.elems) = (IF t.free_head # None THEN Len(t.elems) ELSE Len(t.elems) + 1)
             /\ a.free_head = (IF t.free_head # None THEN t.elems[t.free_head].next ELSE None)
             /\ slot \in 1 .. Len(a.elems)
             /\ a.elems[slot].key = k /\ a.elems[slot].data = d
             /\ \A s \in 1 .. Len(t.elems) : s # slot => a.elems[s] = t.elems[s]
<1> DEFINE cell == [key |-> k, data |-> d, next |-> None, prev |-> None]
           a == AllocAndCount(t, k, d)
           slot == FreshSlot(t)
<1>1. /\ t.elems \in Seq(Cell) /\ Len(t.elems) \in Nat
      /\ t.count + 1 \in Nat /\ t.free_head \in Nat
      /\ \A s \in 1 .. Len(t.elems) : t.elems[s] \in Cell
  BY TableParts DEF Table
<1>2. cell \in Cell /\ cell.key = k /\ cell.data = d
  BY DEF Cell, None
<1> HIDE DEF cell
<1>3. CASE t.free_head # None
  <2> DEFINE els == [t.elems EXCEPT ![t.free_head] = cell]
             rest == t.elems[t.free_head].next
  <2>1. slot = t.free_head /\ slot \in 1 .. Len(t.elems)
    BY <1>1, <1>3 DEF FreshSlot, None
  <2>2. rest \in Nat
    BY <1>1, <2>1 DEF Cell
  <2>3. a = [t EXCEPT !.free_head = rest, !.elems = els, !.count = t.count + 1]
    BY <1>3 DEF AllocAndCount, alloc_slot, Table, cell
  <2> HIDE DEF rest
  <2>4. /\ els \in Seq(Cell) /\ Len(els) = Len(t.elems) /\ els[slot] = cell
        /\ \A s \in 1 .. Len(t.elems) : s # slot => els[s] = t.elems[s]
    BY <1>1, <1>2, <2>1
  <2> HIDE DEF els
  <2>5. /\ a \in Table /\ a.first = t.first /\ a.ht = t.ht /\ a.count = t.count + 1
        /\ a.elems = els /\ a.free_head = rest
    BY <1>1, <2>2, <2>3, <2>4 DEF Table
  <2> HIDE DEF a, slot
  <2> QED
    BY <1>2, <1>3, <2>1, <2>4, <2>5 DEF a, slot, rest
<1>4. CASE t.free_head = None
  <2> DEFINE els == Append(t.elems, cell)
  <2>1. slot = Len(t.elems) + 1
    BY <1>4 DEF FreshSlot
  <2>2. a = [t EXCEPT !.elems = els, !.count = t.count + 1]
    BY <1>4 DEF AllocAndCount, alloc_slot, Table, cell
  <2>3. /\ els \in Seq(Cell) /\ Len(els) = Len(t.elems) + 1 /\ els[Len(t.elems) + 1] = cell
        /\ \A s \in 1 .. Len(t.elems) : els[s] = t.elems[s]
    BY <1>1, <1>2
  <2> HIDE DEF els
  <2>4. /\ a \in Table /\ a.first = t.first /\ a.ht = t.ht /\ a.count = t.count + 1
        /\ a.elems = els /\ a.free_head = None
    BY <1>1, <1>4, <2>2, <2>3 DEF Table
  <2>5. slot \in 1 .. Len(a.elems)
    BY <1>1, <2>1, <2>3, <2>4
  <2> HIDE DEF a, slot
  <2> QED
    BY <1>2, <1>4, <2>1, <2>3, <2>4, <2>5 DEF a, slot
<1> QED
  BY <1>3, <1>4

(* alloc_slot takes the free list's head, or one more slot of the pool,     *)
(* and leaves the elements' list alone.                                     *)
LEMMA AllocKeeps ==
  ASSUME NEW t, NEW p, NEW n, NEW q, NEW m, Sound(t, p, n, q, m),
         NEW k \in Keys, NEW d \in Pointers
  PROVE  \E q2, m2 : Allocated(t, k, d, p, n, q2, m2, FreshSlot(t), AllocAndCount(t, k, d))
<1> DEFINE N == Len(t.elems)
           slot == FreshSlot(t)
           a == AllocAndCount(t, k, d)
<1>1. /\ t \in Table /\ Linked(t, p, n) /\ Unused(t, q, m)
      /\ List(t, p, n, t.first) /\ List(t, q, m, t.free_head) /\ n + m = N
      /\ \A s \in 1 .. N : s \in On(p, n) \/ s \in On(q, m)
  BY DEF Sound, Linked, Unused, Shared
<1>2. N \in Nat
  BY <1>1, TableParts
<1>3. /\ n \in Nat /\ p \in [1 .. n -> 1 .. N]
      /\ m \in Nat /\ q \in [1 .. m -> 1 .. N] /\ Distinct(q, m)
      /\ t.free_head = At(q, m, 1)
      /\ \A i \in 1 .. m : t.elems[q[i]].next = At(q, m, i + 1)
      /\ \A i \in 1 .. m : t.elems[q[i]].key = NoKey /\ t.elems[q[i]].prev = None
  BY <1>1 DEF List, Unused
<1>4. t.free_head \in 0 .. N
  <2>1. 1 \in 1 .. m => q[1] \in 1 .. N
    BY <1>3
  <2> HIDE DEF N
  <2> QED
    BY <1>2, <1>3, <2>1 DEF At, None
<1>5. /\ a \in Table
      /\ a.first = t.first /\ a.ht = t.ht /\ a.count = t.count + 1
      /\ Len(a.elems) = (IF t.free_head # None THEN N ELSE N + 1)
      /\ a.free_head = (IF t.free_head # None THEN t.elems[t.free_head].next ELSE None)
      /\ slot \in 1 .. Len(a.elems)
      /\ a.elems[slot].key = k /\ a.elems[slot].data = d
      /\ \A s \in 1 .. N : s # slot => a.elems[s] = t.elems[s]
  BY <1>1, <1>4, AllocFields, Zenon
<1> HIDE DEF a
<1>6. \A s \in On(p, n) : s \in 1 .. N /\ t.elems[s].key \in Keys
  BY <1>1, <1>3 DEF On, Linked
<1>7. CASE t.free_head # None
  <2>1. 1 \in 1 .. m /\ t.free_head = q[1] /\ slot = q[1]
    BY <1>3, <1>7 DEF At, FreshSlot
  <2>2. slot \notin On(p, n)
    <3>1. NoKey \notin Keys /\ t.elems[q[1]].key = NoKey
      BY <1>3, <2>1, HashTableAssumption
    <3> QED
      BY <1>6, <2>1, <3>1
  <2> DEFINE w == Without(q, m, 1)
  <2>3. Shortened(q, m, 1, N, w)
    BY <1>3, <2>1, WithoutList
  <2> HIDE DEF w, slot
  <2>4. SameLinks(t, a, On(p, n)) /\ \A s \in On(p, n) : a.elems[s].data = t.elems[s].data
    BY <1>2, <1>5, <1>6, <1>7, <2>2 DEF SameLinks
  <2>5. /\ w \in [1 .. m - 1 -> 1 .. N] /\ Distinct(w, m - 1)
        /\ On(w, m - 1) = On(q, m) \ {slot}
        /\ \A i \in 1 .. m - 1 : w[i] = q[i + 1]
        /\ \A i \in 1 .. m : At(w, m - 1, i) = At(q, m, i + 1)
    BY <2>1, <2>3 DEF Shortened
  <2>6. \A i \in 1 .. m - 1 : /\ i + 1 \in 1 .. m /\ q[i + 1] # slot /\ q[i + 1] \in 1 .. N
                              /\ i + 1 \in 1 .. m
    BY <1>3, <2>1 DEF Distinct
  <2>7. ASSUME NEW i \in 1 .. m - 1
        PROVE  /\ a.elems[w[i]].next = At(w, m - 1, i + 1) /\ a.elems[w[i]].key = NoKey
               /\ a.elems[w[i]].prev = None
    <3>1. a.elems[w[i]] = t.elems[q[i + 1]]
      BY <1>5, <2>5, <2>6
    <3>2. /\ t.elems[q[i + 1]].next = At(q, m, (i + 1) + 1) /\ t.elems[q[i + 1]].key = NoKey
          /\ t.elems[q[i + 1]].prev = None
      BY <1>3, <2>6
    <3> QED
      BY <2>5, <2>6, <3>1, <3>2
  <2>8. a.free_head = At(w, m - 1, 1)
    <3>1. t.elems[q[1]].next = At(q, m, 1 + 1)
      BY <1>3, <2>1
    <3> QED
      BY <1>5, <1>7, <2>1, <2>5, <3>1
  <2>9. m - 1 \in Nat /\ n + 1 + (m - 1) = N /\ Len(a.elems) = N
    <3>1. Len(a.elems) = N /\ m \in Nat /\ m >= 1 /\ n \in Nat /\ n + m = N
      BY <1>1, <1>3, <1>5, <1>7, <2>1
    <3> HIDE DEF N
    <3> QED
      BY <3>1
  <2>10. Unused(a, w, m - 1)
    BY <2>5, <2>7, <2>8, <2>9 DEF Unused, List
  <2>11. /\ slot \notin On(w, m - 1)
         /\ \A s \in 1 .. Len(a.elems) :
              s = slot \/ s \in On(p, n) \/ s \in On(w, m - 1)
    BY <1>1, <2>5, <2>9
  <2>12. Allocated(t, k, d, p, n, w, m - 1, slot, a)
    BY <1>5, <2>2, <2>4, <2>9, <2>10, <2>11 DEF Allocated
  <2> QED
    BY <2>12 DEF slot, a
<1>8. CASE t.free_head = None
  <2>1. m = 0
    BY <1>3, <1>8 DEF At, None
  <2>2. slot = N + 1 /\ Len(a.elems) = N + 1
    BY <1>5, <1>8 DEF FreshSlot
  <2> HIDE DEF slot, N
  <2>3. \A s \in 1 .. N : s # slot /\ a.elems[s] = t.elems[s]
    BY <1>2, <1>5, <2>2
  <2>4. slot \notin On(p, n) /\ On(q, m) = {}
    BY <1>6, <2>1, <2>3 DEF On
  <2>5. SameLinks(t, a, On(p, n)) /\ \A s \in On(p, n) : a.elems[s].data = t.elems[s].data
    BY <1>2, <1>5, <1>6, <2>2, <2>3 DEF SameLinks, N
  <2>6. \A s \in 1 .. Len(a.elems) : s = slot \/ s \in On(p, n) \/ s \in On(q, m)
    BY <1>1, <1>2, <2>2 DEF N
  <2>7. a.free_head = At(q, m, 1)
    BY <1>3, <1>5, <1>8
  <2>8. q \in [1 .. m -> 1 .. Len(a.elems)]
    BY <1>3, <2>1
  <2>9. Unused(a, q, m)
    BY <1>3, <2>1, <2>7, <2>8 DEF Unused, List
  <2>10. n + 1 + m = Len(a.elems)
    BY <1>1, <1>3, <2>1, <2>2
  <2>11. Allocated(t, k, d, p, n, q, m, slot, a)
    BY <1>5, <2>4, <2>5, <2>6, <2>9, <2>10 DEF Allocated
  <2> QED
    BY <2>11 DEF slot, a
<1> QED
  BY <1>7, <1>8

(* The list after an element with key k and data d has been added in slot.  *)
AddedTo(t, k, d, p, n, slot, u, p2) ==
  /\ u.count = t.count + 1
  /\ slot \notin On(p, n) /\ On(p2, n + 1) = On(p, n) \cup {slot}
  /\ u.elems[slot].key = k /\ u.elems[slot].data = d
  /\ \A s \in On(p, n) : u.elems[s].key = t.elems[s].key /\ u.elems[s].data = t.elems[s].data
  /\ Chained(t, p, n) => Chained(u, p2, n + 1)

(* insert_element makes an element of the slot that alloc_slot returned.    *)
LEMMA AddKeeps ==
  ASSUME NEW t, NEW p, NEW n, NEW q, NEW m, Sound(t, p, n, q, m),
         NEW k \in Keys, NEW d \in Pointers
  PROVE  LET u == insert_element(AllocAndCount(t, k, d), FreshSlot(t))
         IN  \E p2, q2, m2 : /\ Sound(u, p2, n + 1, q2, m2)
                             /\ AddedTo(t, k, d, p, n, FreshSlot(t), u, p2)
<1> DEFINE slot == FreshSlot(t)
           a == AllocAndCount(t, k, d)
           u == insert_element(a, slot)
           p2 == Cons(slot, p, n)
<1>1. PICK q2, m2 : Allocated(t, k, d, p, n, q2, m2, slot, a)
  BY AllocKeeps
<1> HIDE DEF slot, a
<1>2. /\ t \in Table /\ Linked(t, p, n) /\ ChainsInPool(t)
  BY DEF Sound
<1>3. /\ a \in Table
      /\ slot \in 1 .. Len(a.elems) /\ slot \notin On(p, n) /\ slot \notin On(q2, m2)
      /\ a.elems[slot].key = k /\ a.elems[slot].data = d
      /\ SameLinks(t, a, On(p, n))
      /\ \A s \in On(p, n) : a.elems[s].data = t.elems[s].data
      /\ Unused(a, q2, m2)
      /\ n + 1 + m2 = Len(a.elems)
      /\ \A s \in 1 .. Len(a.elems) : s = slot \/ s \in On(p, n) \/ s \in On(q2, m2)
      /\ a.count = t.count + 1
  BY <1>1 DEF Allocated
<1>4. Linked(a, p, n) /\ (Chained(t, p, n) => Chained(a, p, n))
  BY <1>2, <1>3, LinkedKept
<1>5. ChainsInPool(a)
  <2>1. Len(t.elems) \in Nat /\ Len(a.elems) \in Nat
    BY <1>2, <1>3, TableParts
  <2>2. a.ht = t.ht /\ Len(a.elems) >= Len(t.elems)
    BY <1>3 DEF SameLinks
  <2> QED
    BY <1>2, <2>1, <2>2 DEF ChainsInPool
<1>6. List(a, p, n, a.first) /\ slot # a.first
  <2>1. List(a, p, n, a.first)
    BY <1>4 DEF Linked
  <2> QED
    BY <1>3, <2>1 DEF List, At, On, None
<1>7. Linked(u, p2, n + 1)
  BY <1>3, <1>4, InsertLinks
<1>8. Inserted(a, slot, u) /\ ChainsInPool(u)
  BY <1>3, <1>5, <1>6, InsertFields, InsertPool
<1>9. Chained(t, p, n) => Chained(u, p2, n + 1)
  BY <1>3, <1>4, InsertChains
<1>10. On(p2, n + 1) = On(p, n) \cup {slot}
  <2>1. n \in Nat /\ p \in [1 .. n -> 1 .. Len(a.elems)] /\ Distinct(p, n)
    BY <1>6 DEF List
  <2>2. Consed(slot, p, n, Len(a.elems), p2)
    BY <1>3, <2>1, ConsList
  <2> HIDE DEF p2
  <2> QED
    BY <2>2 DEF Consed
<1> HIDE DEF u, p2
<1>11. Unused(u, q2, m2)
  <2>1. /\ List(a, q2, m2, a.free_head)
        /\ \A i \in 1 .. m2 : a.elems[q2[i]].key = NoKey /\ a.elems[q2[i]].prev = None
    BY <1>3 DEF Unused
  <2>2. \A s \in 1 .. Len(a.elems) : s \in On(q2, m2) => u.elems[s].next = a.elems[s].next
    BY <1>3, <1>8 DEF Inserted
  <2>3. Len(u.elems) = Len(a.elems) /\ u.free_head = a.free_head
    BY <1>8 DEF Inserted
  <2>4. List(u, q2, m2, u.free_head)
    BY <2>1, <2>2, <2>3, ListKept
  <2>5. ASSUME NEW i \in 1 .. m2
        PROVE  u.elems[q2[i]].key = NoKey /\ u.elems[q2[i]].prev = None
    <3>1. q2[i] \in 1 .. Len(a.elems) /\ q2[i] # slot
      BY <1>3, <2>1 DEF List, On
    <3>2. q2[i] # a.first
      <4>1. a.first = None \/ a.elems[a.first].key \in Keys
        BY <1>4 DEF Linked, List, At
      <4> QED
        BY <2>1, <3>1, <4>1, HashTableAssumption DEF None
    <3> QED
      BY <1>8, <2>1, <3>1, <3>2 DEF Inserted
  <2> QED
    BY <2>4, <2>5 DEF Unused
<1>12. Shared(u, p2, n + 1, q2, m2)
  BY <1>3, <1>8, <1>10 DEF Shared, Inserted
<1>13. Sound(u, p2, n + 1, q2, m2)
  BY <1>7, <1>8, <1>11, <1>12 DEF Sound, Inserted
<1>14. \A s \in On(p, n) \cup {slot} :
          u.elems[s].key = a.elems[s].key /\ u.elems[s].data = a.elems[s].data
  <2>1. \A s \in On(p, n) : s \in 1 .. Len(a.elems)
    BY <1>6 DEF On, List
  <2> QED
    BY <1>3, <1>8, <2>1 DEF Inserted
<1>15. AddedTo(t, k, d, p, n, slot, u, p2)
  BY <1>3, <1>8, <1>9, <1>10, <1>14 DEF AddedTo, Inserted, SameLinks
<1> QED
  BY <1>13, <1>15 DEF u, slot, a

(* The end of insert: a table that is too full is rehashed.                 *)
WithRoom(t) ==
  IF t.count >= MinRehash /\ t.count > MaxLoad * Len(t.ht)
  THEN rehash(t, t.count * Growth)
  ELSE t

(* The same with the rehash that adding may trigger.                        *)
LEMMA AddAndGrowKeeps ==
  ASSUME NEW t, NEW p, NEW n, NEW q, NEW m, Sound(t, p, n, q, m), t.count \in Nat,
         NEW k \in Keys, NEW d \in Pointers
  PROVE  LET u == WithRoom(insert_element(AllocAndCount(t, k, d), FreshSlot(t)))
         IN  \E p2, q2, m2 : /\ Sound(u, p2, n + 1, q2, m2)
                             /\ AddedTo(t, k, d, p, n, FreshSlot(t), u, p2)
<1> DEFINE slot == FreshSlot(t)
           v == insert_element(AllocAndCount(t, k, d), slot)
           u == rehash(v, v.count * Growth)
<1>1. PICK p2, q2, m2 : Sound(v, p2, n + 1, q2, m2) /\ AddedTo(t, k, d, p, n, slot, v, p2)
  BY AddKeeps
<1> HIDE DEF v, slot
<1>2. CASE ~ (v.count >= MinRehash /\ v.count > MaxLoad * Len(v.ht))
  BY <1>1, <1>2 DEF WithRoom, v, slot
<1>3. CASE v.count >= MinRehash /\ v.count > MaxLoad * Len(v.ht)
  <2>1. Growth \in Nat /\ v.count \in Nat
    BY <1>1, HashTableAssumption DEF AddedTo
  <2>2. v.count * Growth \in Nat
    BY <2>1
  <2>3. Rehashed(v, p2, n + 1, q2, m2, u)
    BY <1>1, <2>2, RehashKeeps
  <2> DEFINE r == Rev(p2, n + 1)
  <2> HIDE DEF r, u
  <2>4. Sound(u, r, n + 1, q2, m2) /\ Chained(u, r, n + 1) /\ u.count = v.count
    BY <2>3 DEF Rehashed, r
  <2>5. On(r, n + 1) = On(p2, n + 1)
    BY <2>3 DEF Rehashed, r
  <2>6. \A s \in On(p2, n + 1) : /\ u.elems[s].key = v.elems[s].key
                                 /\ u.elems[s].data = v.elems[s].data
    <3>1. List(v, p2, n + 1, v.first)
      BY <1>1 DEF Sound, Linked
    <3>2. \A s \in On(p2, n + 1) : s \in 1 .. Len(v.elems)
      BY <3>1 DEF List, On
    <3> QED
      BY <2>3, <3>2 DEF Rehashed
  <2>7. AddedTo(t, k, d, p, n, slot, u, r)
    BY <1>1, <2>4, <2>5, <2>6 DEF AddedTo
  <2>8. u = WithRoom(v)
    BY <1>3 DEF WithRoom, u
  <2> QED
    BY <2>4, <2>7, <2>8 DEF v, slot
<1> QED
  BY <1>2, <1>3

(* With chains that are not beyond their buckets, a search that fails is    *)
(* right.                                                                   *)
LEMMA MissIsAbsent ==
  ASSUME NEW t, NEW p, NEW n, NEW q, NEW m, Sound(t, p, n, q, m), Chained(t, p, n),
         NEW k \in Keys, find_with_hash(t, k) = None
  PROVE  \A s \in On(p, n) : t.elems[s].key # k
<1>1. /\ t \in Table /\ n \in Nat /\ n <= Len(t.elems) /\ List(t, p, n, t.first)
      /\ p \in [1 .. n -> 1 .. Len(t.elems)] /\ Distinct(p, n) /\ t.first = At(p, n, 1)
  BY SoundParts DEF List
<1>2. SUFFICES ASSUME NEW i \in 1 .. n, t.elems[p[i]].key = k
               PROVE  FALSE
  BY DEF On
<1>3. \E h \in 1 .. i : Start(t, k) = At(p, n, h)
  <2>1. CASE Len(t.ht) > 0
    <3>1. Bucket(t, k) \in 1 .. Len(t.ht)
      BY <1>1, <2>1, BucketInRange
    <3>2. PICK h \in 1 .. i : t.ht[Bucket(t, k)].chain = p[h]
      BY <1>2, <3>1 DEF Chained
    <3>3. h \in 1 .. n
      BY <1>1, <3>2
    <3> QED
      BY <2>1, <3>2, <3>3 DEF Start, At
  <2>2. CASE ~ (Len(t.ht) > 0)
    <3>1. 1 \in 1 .. i
      OBVIOUS
    <3> QED
      BY <1>1, <2>2, <3>1 DEF Start
  <2> QED
    BY <2>1, <2>2
<1>4. PICK h \in 1 .. i : Start(t, k) = At(p, n, h)
  BY <1>3
<1>5. h \in 1 .. n + 1 /\ i \in h .. n
  BY <1>1, <1>4
<1>6. \A j \in h .. n : p[j] # None
  BY <1>1, <1>5 DEF None
<1>7. \A j \in h .. n : t.elems[p[j]].key # k
  <2>1. \/ \A j \in h .. n : t.elems[p[j]].key # k
        \/ \E j \in h .. n : find_with_hash(t, k) = p[j]
    <3>1. /\ t \in Table /\ List(t, p, n, t.first) /\ n <= Len(t.elems)
          /\ h \in 1 .. n + 1 /\ Start(t, k) = At(p, n, h)
      BY <1>1, <1>4, <1>5
    <3> QED
      BY <3>1, FindFrom
  <2> QED
    BY <1>6, <2>1
<1> QED
  BY <1>2, <1>5, <1>7

(* What a dictionary holds is on the list.                                  *)
StoredIsListed(t, S, st) == \A k \in Keys : st[k] # Null => \E s \in S : t.elems[s].key = k

(* What is on the list is what the dictionary holds, once.                  *)
ListedIsStored(t, S, st) ==
  /\ \A s \in S : t.elems[s].data \in Pointers /\ t.elems[s].data = st[t.elems[s].key]
  /\ \A s, r \in S : t.elems[s].key = t.elems[r].key => s = r

(* The invariant: the lists are sound and what is stored is on them, and    *)
(* unless a chain has dangled nothing else is and chains can be trusted.    *)
Holds(t, st, dang, p, n, q, m) ==
  /\ Sound(t, p, n, q, m)
  /\ t.count = n /\ n <= MaxElems
  /\ StoredIsListed(t, On(p, n), st)
  /\ dang \/ (Chained(t, p, n) /\ ListedIsStored(t, On(p, n), st))

HashInv ==
  /\ stored \in [Keys -> Pointers \cup {Null}]
  /\ dangling \in BOOLEAN
  /\ \E p, n, q, m : Holds(table, stored, dangling, p, n, q, m)

(* It holds of a new table, and each action preserves it.                   *)
LEMMA NewHolds ==
  ASSUME NEW st, \A k \in Keys : st[k] = Null, NEW dang
  PROVE  \E p, n, q, m : Holds(new, st, dang, p, n, q, m)
<1> DEFINE e == [i \in 1 .. 0 |-> None]
<1>1. new \in Table /\ new.first = None /\ new.free_head = None /\ new.count = 0
      /\ Len(new.elems) = 0 /\ Len(new.ht) = 0
  BY DEF new, Table, None
<1> HIDE DEF new
<1>2. e \in [1 .. 0 -> 1 .. 0] /\ 1 .. 0 = {}
  OBVIOUS
<1> HIDE DEF e
<1>3. List(new, e, 0, None)
  BY <1>1, <1>2 DEF List, Distinct, At
<1>4. On(e, 0) = {}
  BY <1>2 DEF On
<1>5. Linked(new, e, 0)
  BY <1>1, <1>2, <1>3 DEF Linked
<1>6. Unused(new, e, 0)
  BY <1>1, <1>2, <1>3 DEF Unused
<1>7. Shared(new, e, 0, e, 0) /\ ChainsInPool(new) /\ Chained(new, e, 0)
  BY <1>1, <1>2 DEF Shared, ChainsInPool, Chained
<1>8. 0 <= MaxElems
  BY HashTableAssumption
<1>9. Holds(new, st, dang, e, 0, e, 0)
  BY <1>1, <1>4, <1>5, <1>6, <1>7, <1>8 DEF Holds, Sound, StoredIsListed, ListedIsStored
<1> QED
  BY <1>9

LEMMA HashInit == Init => HashInv
<1> SUFFICES ASSUME Init
             PROVE  HashInv
  OBVIOUS
<1>1. stored \in [Keys -> Pointers \cup {Null}] /\ \A k \in Keys : stored[k] = Null
  BY DEF Init
<1>2. table = new /\ dangling \in BOOLEAN
  BY DEF Init
<1>3. \E p, n, q, m : Holds(new, stored, dangling, p, n, q, m)
  BY <1>1, NewHolds
<1> QED
  BY <1>1, <1>2, <1>3 DEF HashInv

(* The history of dangling chains, after a step to u.                       *)
LEMMA DanglingHistory ==
  ASSUME NEW u \in Table, Becomes(u), HashInv
  PROVE  /\ table' = u /\ dangling' \in BOOLEAN
         /\ u.count > 0 /\ ~ dangling' =>
              ~ dangling /\ \A b \in 1 .. Len(u.ht) : ~ Freed(u, u.ht[b].chain)
<1>1. DOMAIN u.ht = 1 .. Len(u.ht)
  BY TableParts
<1>2. /\ table' = u
      /\ dangling' = (/\ u.count > 0
                      /\ dangling \/ \E b \in DOMAIN u.ht : Freed(u, u.ht[b].chain))
  BY DEF Becomes
<1>3. dangling \in BOOLEAN
  BY DEF HashInv
<1> QED
  BY <1>1, <1>2, <1>3

LEMMA ReplaceKeeps ==
  ASSUME HashInv, NEW k \in Keys, NEW d \in Pointers, Replace(k, d)
  PROVE  HashInv'
<1> DEFINE t == table
           slot == find_with_hash(t, k)
           u == [t EXCEPT !.elems[slot].data = d]
<1>1. PICK p, n, q, m : Holds(t, stored, dangling, p, n, q, m)
  BY DEF HashInv
<1>2. slot # None /\ Becomes(u) /\ stored' = [stored EXCEPT ![k] = d]
  BY DEF Replace
<1>3. /\ Sound(t, p, n, q, m) /\ t \in Table /\ Linked(t, p, n) /\ Unused(t, q, m)
      /\ List(t, p, n, t.first) /\ List(t, q, m, t.free_head) /\ Shared(t, p, n, q, m)
      /\ ChainsInPool(t)
  BY <1>1 DEF Holds, Sound, Linked, Unused
<1>4. PICK j \in 1 .. n : slot = p[j] /\ t.elems[p[j]].key = k
  BY <1>2, <1>3, FoundIsOnList
<1>5. slot \in 1 .. Len(t.elems) /\ slot \in On(p, n) /\ t.elems[slot].key = k
  BY <1>3, <1>4 DEF List, On
<1> HIDE DEF slot
<1>6. /\ u \in Table /\ u.first = t.first /\ u.free_head = t.free_head /\ u.count = t.count
      /\ u.ht = t.ht /\ Len(u.elems) = Len(t.elems)
      /\ \A s \in 1 .. Len(t.elems) :
           /\ u.elems[s].key = t.elems[s].key /\ u.elems[s].next = t.elems[s].next
           /\ u.elems[s].prev = t.elems[s].prev
           /\ u.elems[s].data = IF s = slot THEN d ELSE t.elems[s].data
  <2> DEFINE cell == [t.elems[slot] EXCEPT !.data = d]
             els == [t.elems EXCEPT ![slot] = cell]
  <2>1. t.elems[slot] \in Cell
    BY <1>3, <1>5, TableParts
  <2>2. /\ cell \in Cell /\ cell.key = t.elems[slot].key /\ cell.next = t.elems[slot].next
        /\ cell.prev = t.elems[slot].prev /\ cell.data = d
    BY <2>1 DEF Cell
  <2>3. u = [t EXCEPT !.elems = els]
    BY <1>3 DEF Table
  <2> HIDE DEF cell
  <2>4. t.elems \in Seq(Cell)
    BY <1>3 DEF Table
  <2>5. /\ els \in Seq(Cell) /\ Len(els) = Len(t.elems) /\ els[slot] = cell
        /\ \A s \in 1 .. Len(t.elems) : s # slot => els[s] = t.elems[s]
    BY <1>5, <2>2, <2>4
  <2> HIDE DEF els, t
  <2>6. /\ u \in Table /\ u.first = t.first /\ u.free_head = t.free_head /\ u.count = t.count
        /\ u.ht = t.ht /\ u.elems = els
    BY <1>3, <2>3, <2>5 DEF Table
  <2> HIDE DEF u
  <2> QED
    BY <2>2, <2>5, <2>6
<1>7. table' = u /\ dangling' \in BOOLEAN /\ (u.count > 0 /\ ~ dangling' => ~ dangling)
  BY <1>2, <1>6, DanglingHistory
<1> HIDE DEF u, t
<1>8. \A s : s \in On(p, n) \/ s \in On(q, m) => s \in 1 .. Len(t.elems)
  BY <1>3 DEF List, On
<1>9. Linked(u, p, n) /\ (Chained(t, p, n) => Chained(u, p, n))
  <2>1. Len(t.elems) \in Nat
    BY <1>3, TableParts
  <2>2. SameLinks(t, u, On(p, n))
    BY <1>6, <1>8, <2>1 DEF SameLinks
  <2> QED
    BY <1>3, <1>6, <2>2, LinkedKept
<1>10. Unused(u, q, m)
  <2>1. List(u, q, m, u.free_head)
    BY <1>3, <1>6, ListKept
  <2>2. \A i \in 1 .. m : u.elems[q[i]].key = NoKey /\ u.elems[q[i]].prev = None
    <3>1. \A i \in 1 .. m : t.elems[q[i]].key = NoKey /\ t.elems[q[i]].prev = None
      BY <1>3 DEF Unused
    <3>2. \A i \in 1 .. m : q[i] \in 1 .. Len(t.elems)
      BY <1>3 DEF List
    <3> QED
      BY <1>6, <3>1, <3>2
  <2> QED
    BY <2>1, <2>2 DEF Unused
<1>11. Sound(u, p, n, q, m)
  BY <1>3, <1>6, <1>9, <1>10 DEF Sound, Shared, ChainsInPool
<1>12. stored \in [Keys -> Pointers \cup {Null}]
  BY DEF HashInv
<1>13. /\ stored' \in [Keys -> Pointers \cup {Null}] /\ stored'[k] = d
       /\ \A k2 \in Keys : k2 # k => stored'[k2] = stored[k2]
  BY <1>2, <1>12
<1>14. StoredIsListed(u, On(p, n), stored')
  <2>1. StoredIsListed(t, On(p, n), stored)
    BY <1>1 DEF Holds
  <2>2. ASSUME NEW k2 \in Keys, stored'[k2] # Null
        PROVE  \E s \in On(p, n) : u.elems[s].key = k2
    <3>1. CASE k2 = k
      BY <1>5, <1>6, <3>1
    <3>2. CASE k2 # k
      <4>1. PICK s \in On(p, n) : t.elems[s].key = k2
        BY <1>13, <2>1, <2>2, <3>2 DEF StoredIsListed
      <4> QED
        BY <1>6, <1>8, <4>1
    <3> QED
      BY <3>1, <3>2
  <2> QED
    BY <2>2 DEF StoredIsListed
<1>15. ASSUME ListedIsStored(t, On(p, n), stored)
       PROVE  ListedIsStored(u, On(p, n), stored')
  <2>1. \A s \in On(p, n) : t.elems[s].key \in Keys
    BY <1>3 DEF Linked, On
  <2>2. ASSUME NEW s \in On(p, n)
        PROVE  u.elems[s].data \in Pointers /\ u.elems[s].data = stored'[u.elems[s].key]
    <3>1. s \in 1 .. Len(t.elems) /\ t.elems[s].key \in Keys
      BY <1>8, <2>1
    <3>2. t.elems[s].data \in Pointers /\ t.elems[s].data = stored[t.elems[s].key]
      BY <1>15 DEF ListedIsStored
    <3>3. s # slot => t.elems[s].key # k
      BY <1>5, <1>15 DEF ListedIsStored
    <3> QED
      BY <1>5, <1>6, <1>13, <3>1, <3>2, <3>3
  <2>3. \A s, r \in On(p, n) : u.elems[s].key = u.elems[r].key => s = r
    BY <1>6, <1>8, <1>15 DEF ListedIsStored
  <2> QED
    BY <2>2, <2>3 DEF ListedIsStored
<1>16. n > 0 /\ t.count = n /\ n <= MaxElems
  BY <1>1, <1>3, <1>4 DEF Holds, List
<1>17. Holds(u, stored', dangling', p, n, q, m)
  BY <1>1, <1>6, <1>7, <1>9, <1>11, <1>14, <1>15, <1>16 DEF Holds
<1> QED
  BY <1>7, <1>13, <1>17 DEF HashInv

LEMMA AddKeepsInv ==
  ASSUME HashInv, NEW k \in Keys, NEW d \in Pointers, Add(k, d)
  PROVE  HashInv'
<1> DEFINE t == table
           slot == FreshSlot(t)
           u == WithRoom(insert_element(AllocAndCount(t, k, d), slot))
<1>1. PICK p, n, q, m : Holds(t, stored, dangling, p, n, q, m)
  BY DEF HashInv
<1>2. /\ find_with_hash(t, k) = None /\ t.count < MaxElems
      /\ Becomes(u) /\ stored' = [stored EXCEPT ![k] = d]
  BY DEF Add, WithRoom, AllocAndCount
<1>3. Sound(t, p, n, q, m) /\ t.count = n /\ n \in Nat /\ t.count \in Nat
  BY <1>1 DEF Holds, Sound, Linked, List
<1>4. PICK p2, q2, m2 : Sound(u, p2, n + 1, q2, m2) /\ AddedTo(t, k, d, p, n, slot, u, p2)
  BY <1>3, AddAndGrowKeeps
<1> HIDE DEF u, slot
<1>5. u \in Table /\ u.count = n + 1 /\ u.count > 0 /\ n + 1 <= MaxElems
  BY <1>2, <1>3, <1>4, HashTableAssumption DEF Sound, AddedTo
<1>6. /\ table' = u /\ dangling' \in BOOLEAN
      /\ ~ dangling' => ~ dangling
  BY <1>2, <1>5, DanglingHistory
<1> HIDE DEF t
<1>7. /\ stored' \in [Keys -> Pointers \cup {Null}] /\ stored'[k] = d
      /\ \A k2 \in Keys : k2 # k => stored'[k2] = stored[k2]
  BY <1>2 DEF HashInv
<1>8. /\ On(p2, n + 1) = On(p, n) \cup {slot}
      /\ u.elems[slot].key = k /\ u.elems[slot].data = d
      /\ \A s \in On(p, n) : u.elems[s].key = t.elems[s].key /\ u.elems[s].data = t.elems[s].data
      /\ Chained(t, p, n) => Chained(u, p2, n + 1)
  BY <1>4 DEF AddedTo
<1>9. StoredIsListed(u, On(p2, n + 1), stored')
  <2>1. StoredIsListed(t, On(p, n), stored)
    BY <1>1 DEF Holds
  <2>2. ASSUME NEW k2 \in Keys, stored'[k2] # Null
        PROVE  \E s \in On(p2, n + 1) : u.elems[s].key = k2
    <3>1. CASE k2 = k
      BY <1>8, <3>1
    <3>2. CASE k2 # k
      BY <1>7, <1>8, <2>1, <2>2, <3>2 DEF StoredIsListed
    <3> QED
      BY <3>1, <3>2
  <2> QED
    BY <2>2 DEF StoredIsListed
<1>10. ASSUME Chained(t, p, n), ListedIsStored(t, On(p, n), stored)
       PROVE  ListedIsStored(u, On(p2, n + 1), stored')
  <2>1. \A s \in On(p, n) : t.elems[s].key \in Keys
    BY <1>3 DEF Sound, Linked, On
  <2>2. \A s \in On(p, n) : t.elems[s].key # k
    BY <1>2, <1>3, <1>10, MissIsAbsent
  <2>3. ASSUME NEW s \in On(p2, n + 1)
        PROVE  u.elems[s].data \in Pointers /\ u.elems[s].data = stored'[u.elems[s].key]
    <3>1. CASE s = slot
      BY <1>7, <1>8, <3>1
    <3>2. CASE s \in On(p, n)
      BY <1>7, <1>8, <1>10, <2>1, <2>2, <3>2 DEF ListedIsStored
    <3> QED
      BY <1>8, <3>1, <3>2
  <2>4. ASSUME NEW s \in On(p2, n + 1), NEW r \in On(p2, n + 1), u.elems[s].key = u.elems[r].key
        PROVE  s = r
    BY <1>8, <1>10, <2>2, <2>4 DEF ListedIsStored
  <2> QED
    BY <2>3, <2>4 DEF ListedIsStored
<1>11. Holds(u, stored', dangling', p2, n + 1, q2, m2)
  BY <1>1, <1>4, <1>5, <1>6, <1>8, <1>9, <1>10 DEF Holds
<1> QED
  BY <1>6, <1>7, <1>11 DEF HashInv

LEMMA RemoveKeepsInv ==
  ASSUME HashInv, NEW k \in Keys, Remove(k)
  PROVE  HashInv'
<1> DEFINE t == table
           slot == find_with_hash(t, k)
           rest == Free(LeaveBucket(Unlink(t, slot), slot), slot)
           u == remove_slot(t, slot)
<1>1. PICK p, n, q, m : Holds(t, stored, dangling, p, n, q, m)
  BY DEF HashInv
<1>2. slot # None /\ Becomes(u) /\ stored' = [stored EXCEPT ![k] = Null]
  BY DEF Remove
<1>3. Sound(t, p, n, q, m) /\ t.count = n /\ n \in Nat /\ n <= MaxElems /\ List(t, p, n, t.first)
  BY <1>1 DEF Holds, Sound, Linked, List
<1>4. PICK j \in 1 .. n : slot = p[j] /\ t.elems[p[j]].key = k
  BY <1>2, <1>3, FoundIsOnList
<1>5. u = IF rest.count = 0 THEN new ELSE rest
  BY DEF remove_slot, Emptied
<1>6. Removed(t, p[j], rest)
  BY <1>3, <1>4, RemoveApplies
<1> DEFINE w == Without(p, n, j)
           c == Cons(p[j], q, m)
<1>7. Sound(rest, w, n - 1, c, m + 1)
  BY <1>3, <1>6, RemoveKeeps
<1>8. On(w, n - 1) = On(p, n) \ {p[j]}
  <2>1. p \in [1 .. n -> 1 .. Len(t.elems)] /\ Distinct(p, n)
    BY <1>3 DEF List
  <2>2. Shortened(p, n, j, Len(t.elems), w)
    BY <1>3, <2>1, WithoutList
  <2> HIDE DEF w
  <2> QED
    BY <2>2 DEF Shortened
<1> HIDE DEF slot, rest, u, w, c, t
<1>9. rest.count = n - 1 /\ \A s \in 1 .. Len(t.elems) : s # p[j] =>
           rest.elems[s].key = t.elems[s].key /\ rest.elems[s].data = t.elems[s].data
  BY <1>3, <1>6 DEF Removed
<1>10. \A s \in On(p, n) : s \in 1 .. Len(t.elems) /\ t.elems[s].key \in Keys
  <2>1. Linked(t, p, n)
    BY <1>3 DEF Sound
  <2>2. \A i \in 1 .. n : p[i] \in 1 .. Len(t.elems) /\ t.elems[p[i]].key \in Keys
    BY <1>3, <2>1 DEF Linked, List
  <2> QED
    BY <2>2 DEF On
<1>11. /\ stored' \in [Keys -> Pointers \cup {Null}] /\ stored'[k] = Null
       /\ \A k2 \in Keys : k2 # k => stored'[k2] = stored[k2]
  BY <1>2 DEF HashInv
<1>12. StoredIsListed(rest, On(w, n - 1), stored')
  <2>1. StoredIsListed(t, On(p, n), stored)
    BY <1>1 DEF Holds
  <2>2. ASSUME NEW k2 \in Keys, stored'[k2] # Null
        PROVE  \E s \in On(w, n - 1) : rest.elems[s].key = k2
    <3>1. k2 # k /\ stored[k2] # Null
      BY <1>11, <2>2
    <3>2. PICK s \in On(p, n) : t.elems[s].key = k2
      BY <2>1, <3>1 DEF StoredIsListed
    <3>3. s # p[j]
      BY <1>4, <3>1, <3>2
    <3> QED
      BY <1>8, <1>9, <1>10, <3>2, <3>3
  <2> QED
    BY <2>2 DEF StoredIsListed
<1>13. CASE rest.count = 0
  <2>1. u = new
    BY <1>5, <1>13
  <2>2. On(w, n - 1) = {}
    BY <1>3, <1>9, <1>13 DEF On
  <2>3. \A k2 \in Keys : stored'[k2] = Null
    BY <1>12, <2>2 DEF StoredIsListed
  <2>4. \E p2, n2, q2, m2 : Holds(new, stored', dangling', p2, n2, q2, m2)
    BY <2>3, NewHolds
  <2>5. new \in Table
    BY <2>4 DEF Holds, Sound
  <2>6. table' = new /\ dangling' \in BOOLEAN
    BY <1>2, <2>1, <2>5, DanglingHistory
  <2> QED
    BY <1>11, <2>4, <2>6 DEF HashInv
<1>14. CASE rest.count # 0
  <2>1. u = rest /\ rest \in Table /\ rest.count > 0 /\ n - 1 <= MaxElems
    BY <1>3, <1>5, <1>7, <1>9, <1>14, HashTableAssumption DEF Sound
  <2>2. /\ table' = rest /\ dangling' \in BOOLEAN
        /\ ~ dangling' => /\ ~ dangling
                          /\ \A b \in 1 .. Len(rest.ht) : ~ Freed(rest, rest.ht[b].chain)
    BY <1>2, <2>1, DanglingHistory
  <2>3. ASSUME ~ dangling'
        PROVE  Chained(rest, w, n - 1) /\ ListedIsStored(rest, On(w, n - 1), stored')
    <3>1. Chained(t, p, n) /\ ListedIsStored(t, On(p, n), stored)
      BY <1>1, <2>2, <2>3 DEF Holds
    <3>2. Chained(rest, w, n - 1)
      BY <1>3, <1>6, <2>2, <2>3, <3>1, RemoveChains DEF w
    <3>3. p[j] \in On(p, n)
      BY DEF On
    <3>4. ASSUME NEW s \in On(w, n - 1)
          PROVE  /\ rest.elems[s].data \in Pointers
                 /\ rest.elems[s].data = stored'[rest.elems[s].key]
      <4>1. s \in On(p, n) /\ s # p[j]
        BY <1>8
      <4>2. t.elems[s].key # k /\ t.elems[s].key \in Keys
        BY <1>4, <1>10, <3>1, <3>3, <4>1 DEF ListedIsStored
      <4> QED
        BY <1>9, <1>10, <1>11, <3>1, <4>1, <4>2 DEF ListedIsStored
    <3>5. \A s, r \in On(w, n - 1) : rest.elems[s].key = rest.elems[r].key => s = r
      BY <1>8, <1>9, <1>10, <3>1 DEF ListedIsStored
    <3> QED
      BY <3>2, <3>4, <3>5 DEF ListedIsStored
  <2>4. Holds(rest, stored', dangling', w, n - 1, c, m + 1)
    BY <1>7, <1>9, <1>12, <2>1, <2>3 DEF Holds
  <2> QED
    BY <1>11, <2>2, <2>4 DEF HashInv
<1> QED
  BY <1>13, <1>14

LEMMA ClearKeeps ==
  ASSUME HashInv, clear
  PROVE  HashInv'
<1>1. /\ Becomes(new)
      /\ stored' \in [Keys -> Pointers \cup {Null}] /\ \A k \in Keys : stored'[k] = Null
  BY DEF clear
<1>2. \E p, n, q, m : Holds(new, stored', dangling', p, n, q, m)
  BY <1>1, NewHolds
<1>3. new \in Table
  BY <1>2 DEF Holds, Sound
<1>4. table' = new /\ dangling' \in BOOLEAN
  BY <1>1, <1>3, DanglingHistory
<1> QED
  BY <1>1, <1>2, <1>4 DEF HashInv

LEMMA HashStep == HashInv /\ [Next]_vars => HashInv'
<1> SUFFICES ASSUME HashInv, [Next]_vars
             PROVE  HashInv'
  OBVIOUS
<1>1. ASSUME NEW k \in Keys, NEW d \in Pointers, insert(k, d)
      PROVE  HashInv'
  BY <1>1, ReplaceKeeps, AddKeepsInv DEF insert
<1>2. ASSUME NEW k \in Keys, Remove(k)
      PROVE  HashInv'
  BY <1>2, RemoveKeepsInv
<1>3. CASE clear
  BY <1>3, ClearKeeps
<1>4. CASE UNCHANGED vars
  BY <1>4 DEF HashInv, vars
<1> QED
  BY <1>1, <1>2, <1>3, <1>4 DEF Next

LEMMA HashInvariant == Spec => []HashInv
<1> QED
  BY HashInit, HashStep, PTL DEF Spec

(* The invariant implies the properties: paths, types, counts, and then     *)
(* what find returns.                                                       *)
LEMMA HeadPath ==
  ASSUME NEW t \in Table, NEW p, NEW n, NEW head, List(t, p, n, head), n <= Len(t.elems)
  PROVE  PathFrom(t, head) = p /\ Len(p) = n /\ DOMAIN p = 1 .. n
<1>1. n \in Nat /\ p \in [1 .. n -> 1 .. Len(t.elems)] /\ head = At(p, n, 1)
  BY DEF List
<1>2. 1 \in 1 .. n + 1
  BY <1>1
<1>3. PathFrom(t, At(p, n, 1)) = Rest(p, n, 1)
  BY <1>2, PathOnList
<1>4. Rest(p, n, 1) = p
  <2>1. n - 1 + 1 = n /\ \A k \in 1 .. n : 1 + k - 1 = k
    BY <1>1
  <2>2. Rest(p, n, 1) = [k \in 1 .. n |-> p[k]]
    BY <2>1 DEF Rest
  <2> QED
    BY <1>1, <2>2
<1>5. Len(p) = n /\ DOMAIN p = 1 .. n
  BY <1>1, SeqOver
<1> QED
  BY <1>1, <1>3, <1>4, <1>5

LEMMA SoundIsTyped ==
  ASSUME NEW t, NEW p, NEW n, NEW q, NEW m, Sound(t, p, n, q, m), n <= MaxElems, t.count = n
  PROVE  /\ t.first \in 0 .. Len(t.elems) /\ t.free_head \in 0 .. Len(t.elems)
         /\ t.count \in 0 .. MaxElems
         /\ t.elems \in Seq([key : Keys \cup {NoKey}, data : Pointers \cup {Null},
                             next : 0 .. Len(t.elems), prev : 0 .. Len(t.elems)])
         /\ t.ht \in Seq([chain : 0 .. Len(t.elems), count : 0 .. MaxElems])
<1> DEFINE N == Len(t.elems)
           TypedCell == [key : Keys \cup {NoKey}, data : Pointers \cup {Null},
                         next : 0 .. N, prev : 0 .. N]
           TypedEntry == [chain : 0 .. N, count : 0 .. MaxElems]
<1>1. /\ t \in Table /\ Linked(t, p, n) /\ Unused(t, q, m) /\ Shared(t, p, n, q, m)
      /\ List(t, p, n, t.first) /\ List(t, q, m, t.free_head) /\ ChainsInPool(t)
      /\ n \in Nat /\ m \in Nat /\ N \in Nat
  BY SoundParts
<1>2. /\ p \in [1 .. n -> 1 .. N] /\ q \in [1 .. m -> 1 .. N]
      /\ t.first = At(p, n, 1) /\ t.free_head = At(q, m, 1)
      /\ \A i \in 1 .. n : t.elems[p[i]].next = At(p, n, i + 1)
      /\ \A i \in 1 .. m : t.elems[q[i]].next = At(q, m, i + 1)
  BY <1>1 DEF List
<1>3. MaxElems \in Nat
  BY HashTableAssumption
<1>4. \A s \in 1 .. N : t.elems[s] \in Cell
  BY <1>1, TableParts
<1>5. \A s \in 1 .. N : (\E i \in 1 .. n : s = p[i]) \/ (\E i \in 1 .. m : s = q[i])
  BY <1>1 DEF Shared, On
<1> HIDE DEF N
<1>6. \A i : At(p, n, i) \in 0 .. N /\ At(q, m, i) \in 0 .. N
  <2> TAKE i
  <2>1. i \in 1 .. n => p[i] \in 0 .. N
    BY <1>1, <1>2
  <2>2. i \in 1 .. m => q[i] \in 0 .. N
    BY <1>1, <1>2
  <2> QED
    BY <1>1, <2>1, <2>2 DEF At, None
<1>7. ASSUME NEW s \in 1 .. N
      PROVE  t.elems[s].next \in 0 .. N /\ t.elems[s].prev \in 0 .. N
  <2>1. CASE \E i \in 1 .. n : s = p[i]
    <3>1. PICK i \in 1 .. n : s = p[i]
      BY <2>1
    <3>2. t.elems[s].next = At(p, n, i + 1)
      BY <1>2, <3>1
    <3>3. t.elems[s].prev = At(p, n, i - 1)
      BY <1>1, <3>1 DEF Linked
    <3> QED
      BY <1>6, <3>2, <3>3
  <2>2. CASE \E i \in 1 .. m : s = q[i]
    <3>1. PICK i \in 1 .. m : s = q[i]
      BY <2>2
    <3>2. t.elems[s].next = At(q, m, i + 1)
      BY <1>2, <3>1
    <3>3. t.elems[s].prev = None
      BY <1>1, <3>1 DEF Unused
    <3> QED
      BY <1>1, <1>6, <3>2, <3>3 DEF None
  <2> QED
    BY <1>5, <2>1, <2>2
<1>8. t.elems \in Seq(TypedCell)
  <2>1. \A s \in 1 .. N : t.elems[s] \in TypedCell
    BY <1>4, <1>7 DEF Cell
  <2>2. t.elems \in Seq(Cell) /\ Len(t.elems) = N
    BY <1>1 DEF Table, N
  <2> HIDE DEF TypedCell
  <2>3. t.elems = [s \in 1 .. N |-> t.elems[s]]
    BY <2>2
  <2>4. t.elems \in [1 .. N -> TypedCell]
    BY <2>1, <2>3
  <2> QED
    BY <1>1, <2>4, SeqOver
<1>9. t.ht \in Seq(TypedEntry)
  <2>1. Len(t.ht) \in Nat /\ t.ht \in Seq(Entry) /\ \A b \in 1 .. Len(t.ht) : t.ht[b] \in Entry
    BY <1>1, TableParts DEF Table
  <2>2. ASSUME NEW b \in 1 .. Len(t.ht)
        PROVE  t.ht[b].chain \in 0 .. N /\ t.ht[b].count \in 0 .. MaxElems
    <3>1. Cardinality(Members(t, p, n, b)) \in Nat /\ Cardinality(Members(t, p, n, b)) <= n
      BY <1>1, MembersFinite
    <3>2. t.ht[b].count = Cardinality(Members(t, p, n, b))
      BY <1>1 DEF Linked
    <3>3. t.ht[b].chain \in 0 .. N
      BY <1>1 DEF ChainsInPool, N
    <3> QED
      BY <1>1, <1>3, <3>1, <3>2, <3>3
  <2>3. \A b \in 1 .. Len(t.ht) : t.ht[b] \in TypedEntry
    BY <2>1, <2>2 DEF Entry
  <2> HIDE DEF TypedEntry
  <2>4. t.ht = [b \in 1 .. Len(t.ht) |-> t.ht[b]]
    BY <2>1
  <2>5. t.ht \in [1 .. Len(t.ht) -> TypedEntry]
    BY <2>3, <2>4
  <2> QED
    BY <2>1, <2>5, SeqOver
<1>10. t.first \in 0 .. N /\ t.free_head \in 0 .. N /\ t.count \in 0 .. MaxElems
  BY <1>1, <1>2, <1>3, <1>6
<1> QED
  BY <1>8, <1>9, <1>10 DEF N

(* A bucket's members, counted on the list.                                 *)
(* The places of p that belong to bucket b.                                 *)
Places(t, p, n, b) == {i \in 1 .. n : Bucket(t, t.elems[p[i]].key) = b}

(* There are as many of them as there are slots.                            *)
LEMMA MembersByPlace ==
  ASSUME NEW t, NEW p, NEW n \in Nat, Distinct(p, n), NEW b
  PROVE  Cardinality(Places(t, p, n, b)) = Cardinality(Members(t, p, n, b))
<1> DEFINE I == Places(t, p, n, b)
           M == Members(t, p, n, b)
           f == [i \in I |-> p[i]]
<1>1. I \in SUBSET (1 .. n)
  BY DEF Places
<1>2. IsFiniteSet(1 .. n)
  BY FS_Interval
<1>3. IsFiniteSet(I)
  <2> HIDE DEF I
  <2> QED
    BY <1>1, <1>2, FS_Subset
<1>4. \A i \in I : p[i] \in M
  BY DEF Members, On, Places
<1>5. \A s \in M : \E i \in I : p[i] = s
  BY DEF Members, On, Places
<1> HIDE DEF I, M
<1>6. f \in [I -> M] /\ \A i \in I : f[i] = p[i]
  BY <1>4
<1> HIDE DEF f
<1>7. f \in Injection(I, M)
  <2>1. ASSUME NEW i \in I, NEW j \in I, f[i] = f[j]
        PROVE  i = j
    BY <1>1, <1>6, <2>1 DEF Distinct
  <2> QED
    BY <1>6, <2>1, Zenon DEF Injection, IsInjective
<1>8. f \in Surjection(I, M)
  BY <1>5, <1>6 DEF Surjection
<1>9. ExistsBijection(I, M)
  BY <1>7, <1>8 DEF Bijection, ExistsBijection
<1>10. Cardinality(M) = Cardinality(I)
  BY <1>3, <1>9, FS_Bijection
<1> QED
  BY <1>10 DEF I, M

LEMMA InvIsSound == HashInv => ListsAreSound
<1> SUFFICES ASSUME HashInv
             PROVE  ListsAreSound
  OBVIOUS
<1>1. PICK p, n, q, m : Holds(table, stored, dangling, p, n, q, m)
  BY DEF HashInv
<1>2. Sound(table, p, n, q, m) /\ table.count = n /\ n <= MaxElems
  BY <1>1 DEF Holds
<1>3. /\ table \in Table /\ Linked(table, p, n)
      /\ Unused(table, q, m) /\ Shared(table, p, n, q, m)
      /\ List(table, p, n, table.first) /\ List(table, q, m, table.free_head)
      /\ n \in Nat /\ m \in Nat /\ n + m = Len(table.elems)
      /\ n <= Len(table.elems) /\ m <= Len(table.elems)
  BY <1>2, SoundParts
<1>4. Live = p /\ Len(p) = n /\ DOMAIN p = 1 .. n
  BY <1>3, HeadPath DEF Live
<1>5. FreeList = q /\ Len(q) = m /\ DOMAIN q = 1 .. m
  BY <1>3, HeadPath DEF FreeList
<1>6. TypeOK
  BY <1>2, SoundIsTyped DEF TypeOK, Slots, Elem, HashInv
<1>7. ListsPartitionSlots
  <2>1. {Live[i] : i \in DOMAIN Live} \cup {FreeList[i] : i \in DOMAIN FreeList}
          = 1 .. Len(table.elems)
    <3>1. /\ {Live[i] : i \in DOMAIN Live} = On(p, n)
          /\ {FreeList[i] : i \in DOMAIN FreeList} = On(q, m)
      BY <1>4, <1>5 DEF On
    <3>2. /\ On(p, n) \in SUBSET (1 .. Len(table.elems))
          /\ On(q, m) \in SUBSET (1 .. Len(table.elems))
      BY <1>3 DEF List, On
    <3>3. \A s \in 1 .. Len(table.elems) : s \in On(p, n) \/ s \in On(q, m)
      BY <1>3 DEF Shared
    <3> QED
      BY <3>1, <3>2, <3>3
  <2>2. ASSUME NEW i \in DOMAIN Live
        PROVE  /\ table.elems[Live[i]].key # NoKey
               /\ table.elems[Live[i]].prev = (IF i = 1 THEN None ELSE Live[i - 1])
    <3>1. table.elems[p[i]].key \in Keys /\ table.elems[p[i]].prev = At(p, n, i - 1)
      BY <1>3, <1>4, <2>2 DEF Linked
    <3>2. i - 1 \in 1 .. n <=> i # 1
      BY <1>3, <1>4, <2>2
    <3> QED
      BY <1>4, <3>1, <3>2, HashTableAssumption DEF At
  <2>3. \A i \in DOMAIN FreeList : table.elems[FreeList[i]].key = NoKey
    BY <1>3, <1>5 DEF Unused
  <2> QED
    BY <1>2, <1>3, <1>4, <1>5, <2>1, <2>2, <2>3 DEF ListsPartitionSlots
<1>8. BucketCountsAreExact
  <2> SUFFICES ASSUME NEW b \in DOMAIN table.ht
               PROVE  table.ht[b].count =
                        Cardinality({i \in DOMAIN Live :
                                        Bucket(table, table.elems[Live[i]].key) = b})
    BY DEF BucketCountsAreExact
  <2>1. b \in 1 .. Len(table.ht)
    BY <1>3, TableParts
  <2>2. table.ht[b].count = Cardinality(Members(table, p, n, b))
    BY <1>3, <2>1 DEF Linked
  <2>3. Distinct(p, n)
    BY <1>3 DEF List
  <2>4. Cardinality(Places(table, p, n, b)) = Cardinality(Members(table, p, n, b))
    BY <1>3, <2>3, MembersByPlace
  <2>5. {i \in DOMAIN Live : Bucket(table, table.elems[Live[i]].key) = b} = Places(table, p, n, b)
    BY <1>4, Zenon DEF Places
  <2> QED
    BY <2>2, <2>4, <2>5
<1> QED
  BY <1>6, <1>7, <1>8 DEF ListsAreSound

(* As many keys are stored as there are elements on the list.               *)
(* The keys a dictionary has, as many as there are elements.                *)
KeysStored(st) == {k \in Keys : st[k] # Null}

LEMMA StoredAreCounted ==
  ASSUME NEW t, NEW p, NEW n \in Nat, Distinct(p, n), \A s \in On(p, n) : t.elems[s].key \in Keys,
         NEW st, StoredIsListed(t, On(p, n), st), ListedIsStored(t, On(p, n), st)
  PROVE  Cardinality(KeysStored(st)) = n
<1> DEFINE K == KeysStored(st)
           f == [i \in 1 .. n |-> t.elems[p[i]].key]
<1>1. ASSUME NEW i \in 1 .. n
      PROVE  t.elems[p[i]].key \in K /\ p[i] \in On(p, n)
  <2>1. p[i] \in On(p, n)
    BY DEF On
  <2>2. t.elems[p[i]].data \in Pointers /\ t.elems[p[i]].data = st[t.elems[p[i]].key]
    BY <2>1 DEF ListedIsStored
  <2> QED
    BY <2>1, <2>2, HashTableAssumption DEF KeysStored
<1>2. \A k \in K : \E i \in 1 .. n : t.elems[p[i]].key = k
  BY DEF StoredIsListed, On, KeysStored
<1> HIDE DEF K
<1>3. f \in [1 .. n -> K] /\ \A i \in 1 .. n : f[i] = t.elems[p[i]].key
  BY <1>1
<1> HIDE DEF f
<1>4. f \in Injection(1 .. n, K)
  <2>1. ASSUME NEW i \in 1 .. n, NEW j \in 1 .. n, f[i] = f[j]
        PROVE  i = j
    <3>1. p[i] = p[j]
      BY <1>1, <1>3, <2>1 DEF ListedIsStored
    <3> QED
      BY <3>1 DEF Distinct
  <2> QED
    BY <1>3, <2>1, Zenon DEF Injection, IsInjective
<1>5. f \in Surjection(1 .. n, K)
  BY <1>2, <1>3 DEF Surjection
<1>6. ExistsBijection(1 .. n, K)
  BY <1>4, <1>5 DEF Bijection, ExistsBijection
<1>7. IsFiniteSet(1 .. n) /\ Cardinality(1 .. n) = n
  BY FS_Interval
<1>8. Cardinality(K) = Cardinality(1 .. n)
  BY <1>6, <1>7, FS_Bijection
<1> QED
  BY <1>7, <1>8 DEF K

LEMMA InvIsDictionary == HashInv => DictionaryUntilDangling
<1> SUFFICES ASSUME HashInv, ~ dangling
             PROVE  Agrees
  BY DEF DictionaryUntilDangling
<1>1. PICK p, n, q, m : Holds(table, stored, dangling, p, n, q, m)
  BY DEF HashInv
<1>2. /\ Sound(table, p, n, q, m) /\ table.count = n /\ StoredIsListed(table, On(p, n), stored)
      /\ Chained(table, p, n) /\ ListedIsStored(table, On(p, n), stored)
  BY <1>1 DEF Holds
<1>3. n \in Nat /\ Distinct(p, n) /\ \A s \in On(p, n) : table.elems[s].key \in Keys
  BY <1>2, SoundParts DEF List, Linked, On
<1>4. ASSUME NEW k \in Keys
      PROVE  find(table, k) = stored[k]
  <2>1. CASE find_with_hash(table, k) = None
    <3>1. \A s \in On(p, n) : table.elems[s].key # k
      BY <1>2, <2>1, MissIsAbsent
    <3>2. stored[k] = Null
      BY <1>2, <3>1 DEF StoredIsListed
    <3> QED
      BY <2>1, <3>2 DEF find
  <2>2. CASE find_with_hash(table, k) # None
    <3>1. PICK j \in 1 .. n : find_with_hash(table, k) = p[j] /\ table.elems[p[j]].key = k
      BY <1>2, <2>2, FoundIsOnList
    <3>2. p[j] \in On(p, n)
      BY DEF On
    <3>3. table.elems[p[j]].data = stored[k]
      BY <1>2, <3>1, <3>2 DEF ListedIsStored
    <3> QED
      BY <2>2, <3>1, <3>3 DEF find
  <2> QED
    BY <2>1, <2>2
<1>5. table.count = Cardinality({k \in Keys : stored[k] # Null})
  <2>1. Cardinality(KeysStored(stored)) = n
    BY <1>2, <1>3, StoredAreCounted
  <2> QED
    BY <1>2, <2>1 DEF KeysStored
<1> QED
  BY <1>4, <1>5 DEF Agrees

(* After any sequence of inserts, replacements, removals and clears, and of *)
(* the rehashes on the way (hash.rs 224-496), every slot of the pool is on  *)
(* the list of the elements or on the free list, once; the links back, the  *)
(* length and every bucket's count are right.  This holds also after a      *)
(* chain has come to point at a freed slot.                                 *)
THEOREM ListsSound == Spec => []ListsAreSound
<1> QED
  BY HashInvariant, InvIsSound, PTL

(* As long as no chain has pointed at a freed slot, and again once the      *)
(* table has been empty, find (hash.rs 175-222) returns what was stored     *)
(* last under every key, and len the number of keys.                        *)
THEOREM DictionaryCorrect == Spec => []DictionaryUntilDangling
<1> QED
  BY HashInvariant, InvIsDictionary, PTL

-----------------------------------------------------------------------------
(* The growable array.                                                      *)
ArrayInv == ArrayTypeOK /\ CountIsLive /\ NextFreeIsFirstEmpty

LEMMA NumLiveType ==
  ASSUME NEW d \in Seq(Slot)
  PROVE  /\ IsFiniteSet(LiveIn(d))
         /\ NumLive(d) \in Nat
         /\ NumLive(d) <= Len(d)
         /\ NumLive(d) = Len(d) => \A i \in DOMAIN d : d[i] # Empty
         /\ (\A i \in DOMAIN d : d[i] # Empty) => NumLive(d) = Len(d)
<1>1. LiveIn(d) \in SUBSET (1 .. Len(d))
  BY DEF LiveIn
<1>2. IsFiniteSet(1 .. Len(d)) /\ Cardinality(1 .. Len(d)) = Len(d)
  <2>1. Len(d) \in Nat
    OBVIOUS
  <2> QED
    BY <2>1, FS_Interval, SMTT(30)
<1>3. /\ IsFiniteSet(LiveIn(d))
      /\ Cardinality(LiveIn(d)) <= Len(d)
      /\ Len(d) = Cardinality(LiveIn(d)) => 1 .. Len(d) = LiveIn(d)
  BY <1>1, <1>2, FS_Subset, Zenon
<1>4. Cardinality(LiveIn(d)) \in Nat
  BY <1>3, FS_CardinalityType
<1>5. (\A i \in DOMAIN d : d[i] # Empty) => LiveIn(d) = 1 .. Len(d)
  BY DEF LiveIn
<1>6. LiveIn(d) = 1 .. Len(d) => \A i \in DOMAIN d : d[i] # Empty
  BY DEF LiveIn
<1> QED
  BY <1>2, <1>3, <1>4, <1>5, <1>6 DEF NumLive

LEMMA FirstEmptyIsFirst ==
  ASSUME NEW d \in Seq(Slot), NEW n \in 1 .. Len(d) + 1
  PROVE  LET f == FirstEmptyFrom(d, n)
         IN  /\ f \in n .. Len(d) + 1
             /\ f <= Len(d) => d[f] = Empty
             /\ \A j \in n .. f - 1 : d[j] # Empty
<1> DEFINE S == {i \in n .. Len(d) + 1 : i <= Len(d) => d[i] = Empty}
<1>1. Len(d) + 1 \in Nat /\ n \in Nat
  OBVIOUS
<1>2. S \in SUBSET Nat /\ \A i \in S : i <= Len(d) + 1
  BY <1>1
<1>3. Len(d) + 1 \in S
  BY <1>1
<1>4. PICK m \in S : \A i \in S : m <= i
  <2> HIDE DEF S
  <2> QED
    BY <1>1, <1>2, <1>3, LeastExists
<1>5. /\ m \in n .. Len(d) + 1
      /\ m <= Len(d) => d[m] = Empty
      /\ \A j \in n .. m - 1 : d[j] # Empty
  <2>1. ASSUME NEW j \in n .. m - 1, d[j] = Empty PROVE FALSE
    <3>1. j \in S
      BY <1>1, <1>2, <2>1
    <3> QED
      BY <1>1, <1>4, <3>1
  <2> QED
    BY <1>4, <2>1
<1> QED
  BY <1>5 DEF FirstEmptyFrom

LEMMA GrownKeeps ==
  ASSUME NEW d \in Seq(Slot), NEW n \in Nat, n >= Len(d)
  PROVE  /\ Grown(d, n) \in Seq(Slot)
         /\ Len(Grown(d, n)) = n
         /\ \A i \in 1 .. Len(d) : Grown(d, n)[i] = d[i]
         /\ \A i \in Len(d) + 1 .. n : Grown(d, n)[i] = Empty
         /\ LiveIn(Grown(d, n)) = LiveIn(d)
<1>1. \A i \in 1 .. n : i <= Len(d) => d[i] \in Slot
  OBVIOUS
<1>2. Grown(d, n) \in [1 .. n -> Slot]
  BY <1>1 DEF Grown, Slot
<1>3. Grown(d, n) \in Seq(Slot) /\ Len(Grown(d, n)) = n
  BY <1>2
<1>4. /\ \A i \in 1 .. Len(d) : Grown(d, n)[i] = d[i]
      /\ \A i \in Len(d) + 1 .. n : Grown(d, n)[i] = Empty
  BY DEF Grown
<1>5. LiveIn(Grown(d, n)) = LiveIn(d)
  BY <1>3, <1>4 DEF LiveIn
<1> QED
  BY <1>3, <1>4, <1>5

(* Storing a value in an empty slot.                                        *)
LEMMA FillCounts ==
  ASSUME NEW d \in Seq(Slot), NEW n \in DOMAIN d, NEW v \in Values, d[n] = Empty
  PROVE  LET e == [d EXCEPT ![n] = v]
         IN  e \in Seq(Slot) /\ Len(e) = Len(d) /\ NumLive(e) = NumLive(d) + 1
<1> DEFINE e == [d EXCEPT ![n] = v]
<1>1. e \in Seq(Slot) /\ Len(e) = Len(d)
  BY DEF Slot
<1>2. LiveIn(e) = LiveIn(d) \cup {n} /\ n \notin LiveIn(d)
  BY ArrayAssumption, <1>1 DEF LiveIn
<1>3. Cardinality(LiveIn(d) \cup {n}) = Cardinality(LiveIn(d)) + 1
  <2>1. IsFiniteSet(LiveIn(d))
    BY NumLiveType
  <2> QED
    BY <1>2, <2>1, FS_AddElement
<1> QED
  BY <1>1, <1>2, <1>3 DEF NumLive

LEMMA ClearCounts ==
  ASSUME NEW d \in Seq(Slot), NEW n \in DOMAIN d, d[n] # Empty
  PROVE  LET e == [d EXCEPT ![n] = Empty]
         IN  e \in Seq(Slot) /\ Len(e) = Len(d) /\ NumLive(e) = NumLive(d) - 1
<1> DEFINE e == [d EXCEPT ![n] = Empty]
<1>1. e \in Seq(Slot) /\ Len(e) = Len(d)
  BY DEF Slot
<1>2. LiveIn(e) = LiveIn(d) \ {n} /\ n \in LiveIn(d)
  BY <1>1 DEF LiveIn
<1>3. Cardinality(LiveIn(d) \ {n}) = Cardinality(LiveIn(d)) - 1
  <2>1. IsFiniteSet(LiveIn(d))
    BY NumLiveType
  <2> QED
    BY <1>2, <2>1, FS_RemoveElement
<1> QED
  BY <1>1, <1>2, <1>3 DEF NumLive

LEMMA TruncatedCounts ==
  ASSUME NEW d \in Seq(Slot), NEW n \in 1 .. Len(d)
  PROVE  /\ Truncated(d, n) \in Seq(Slot)
         /\ Len(Truncated(d, n)) = n
         /\ \A i \in 1 .. n : Truncated(d, n)[i] = d[i]
         /\ NumLive(Truncated(d, n)) = NumLive(d) - Dropped(d, n)
<1>1. Truncated(d, n) \in [1 .. n -> Slot]
  BY DEF Truncated
<1>2. Truncated(d, n) \in Seq(Slot) /\ Len(Truncated(d, n)) = n
  BY <1>1
<1>3. \A i \in 1 .. n : Truncated(d, n)[i] = d[i]
  BY DEF Truncated
<1>4. LiveIn(Truncated(d, n)) = LiveIn(d) \cap (1 .. n)
  BY <1>2, <1>3 DEF LiveIn
<1>5. IsFiniteSet(LiveIn(d))
  BY NumLiveType
<1>6. /\ Cardinality(LiveIn(d) \ (1 .. n)) =
           Cardinality(LiveIn(d)) - Cardinality(LiveIn(d) \cap (1 .. n))
      /\ Cardinality(LiveIn(d)) \in Nat
      /\ Cardinality(LiveIn(d) \cap (1 .. n)) \in Nat
  BY <1>5, FS_Difference, FS_Intersection, FS_CardinalityType
<1> QED
  BY <1>2, <1>3, <1>4, <1>6 DEF NumLive, Dropped

-----------------------------------------------------------------------------
(* Where push stores: a slot that is empty, behind a prefix of values, in   *)
(* an array that holds what data holds.                                     *)
LEMMA PushHasRoom ==
  ASSUME ArrayInv
  PROVE  LET room == IF count = capacity THEN Grown(data, Double(capacity)) ELSE data
         IN  /\ room \in Seq(Slot)
             /\ next_free \in DOMAIN room
             /\ room[next_free] = Empty
             /\ NumLive(room) = count
             /\ Len(data) <= Len(room)
             /\ \A i \in 1 .. Len(data) : room[i] = data[i]
             /\ \A i \in 1 .. next_free - 1 : room[i] # Empty
<1>1. /\ data \in Seq(Slot) /\ Len(data) \in Nat /\ next_free \in Nat \ {0}
      /\ count = NumLive(data)
      /\ next_free <= Len(data) + 1
      /\ next_free <= Len(data) => data[next_free] = Empty
      /\ \A i \in 1 .. next_free - 1 : data[i] # Empty
  BY DEF ArrayInv, ArrayTypeOK, CountIsLive, NextFreeIsFirstEmpty, capacity
<1>2. CASE count = capacity
  <2>1. next_free = Len(data) + 1
    <3>1. \A i \in DOMAIN data : data[i] # Empty
      BY <1>1, <1>2, NumLiveType DEF capacity
    <3> QED
      BY <1>1, <3>1
  <2>2. Double(capacity) \in Nat /\ Double(capacity) > Len(data)
    BY <1>1, ArrayAssumption DEF Double, capacity
  <2> DEFINE room == Grown(data, Double(capacity))
  <2>3. /\ room \in Seq(Slot) /\ Len(room) = Double(capacity)
        /\ \A i \in 1 .. Len(data) : room[i] = data[i]
        /\ \A i \in Len(data) + 1 .. Double(capacity) : room[i] = Empty
        /\ LiveIn(room) = LiveIn(data)
    BY <1>1, <2>2, GrownKeeps
  <2>4. NumLive(room) = count
    BY <1>1, <2>3 DEF NumLive
  <2> HIDE DEF room
  <2>5. /\ next_free \in DOMAIN room
        /\ room[next_free] = Empty
        /\ \A i \in 1 .. next_free - 1 : room[i] # Empty
    BY <1>1, <2>1, <2>2, <2>3
  <2> QED
    BY <1>2, <2>2, <2>3, <2>4, <2>5 DEF room
<1>3. CASE count # capacity
  <2>1. next_free <= Len(data)
    <3>1. ~ \A i \in DOMAIN data : data[i] # Empty
      BY <1>1, <1>3, NumLiveType DEF capacity
    <3> QED
      BY <1>1, <3>1
  <2> QED
    BY <1>1, <1>3, <2>1
<1> QED
  BY <1>2, <1>3

LEMMA PushStep ==
  ASSUME ArrayInv, NEW v \in Values, push(v)
  PROVE  /\ ArrayInv'
         /\ \A i \in DOMAIN data : data[i] # Empty => data'[i] = data[i]
<1> DEFINE room == IF count = capacity THEN Grown(data, Double(capacity)) ELSE data
<1>1. /\ room \in Seq(Slot)
      /\ next_free \in DOMAIN room
      /\ room[next_free] = Empty
      /\ NumLive(room) = count
      /\ Len(data) <= Len(room)
      /\ \A i \in 1 .. Len(data) : room[i] = data[i]
      /\ \A i \in 1 .. next_free - 1 : room[i] # Empty
  BY PushHasRoom
<1>2. /\ data' = [room EXCEPT ![next_free] = v]
      /\ next_free' = FirstEmptyFrom(data', next_free + 1)
      /\ count' = count + 1
  BY DEF push
<1>3. data \in Seq(Slot) /\ count \in Nat /\ next_free \in Nat \ {0}
  BY DEF ArrayInv, ArrayTypeOK
<1> HIDE DEF room
<1>4. data' \in Seq(Slot) /\ Len(data') = Len(room) /\ NumLive(data') = count'
  BY <1>1, <1>2, FillCounts
<1>5. next_free + 1 \in 1 .. Len(data') + 1
  BY <1>1, <1>3, <1>4
<1>6. /\ next_free' \in next_free + 1 .. Len(data') + 1
      /\ next_free' <= Len(data') => data'[next_free'] = Empty
      /\ \A j \in next_free + 1 .. next_free' - 1 : data'[j] # Empty
  BY <1>2, <1>4, <1>5, FirstEmptyIsFirst
<1>7. \A i \in 1 .. next_free : data'[i] # Empty
  BY <1>1, <1>2, <1>3, ArrayAssumption
<1>8. ASSUME NEW j \in 1 .. next_free' - 1
      PROVE  data'[j] # Empty
  <2>1. CASE j <= next_free
    <3>1. j \in 1 .. next_free
      BY <1>3, <2>1
    <3> QED
      BY <1>7, <3>1
  <2>2. CASE j > next_free
    <3>1. j \in next_free + 1 .. next_free' - 1
      BY <1>3, <2>2
    <3> QED
      BY <1>6, <3>1
  <2> QED
    BY <1>3, <2>1, <2>2
<1>9. ArrayInv'
  <2>1. ArrayTypeOK'
    BY <1>2, <1>3, <1>4, <1>6 DEF ArrayTypeOK
  <2>2. CountIsLive'
    BY <1>4 DEF CountIsLive
  <2>3. NextFreeIsFirstEmpty'
    <3>1. next_free' <= Len(data') + 1
      BY <1>3, <1>4, <1>6
    <3> QED
      BY <1>6, <1>8, <3>1 DEF NextFreeIsFirstEmpty, capacity
  <2> QED
    BY <2>1, <2>2, <2>3 DEF ArrayInv
<1>10. ASSUME NEW i \in DOMAIN data, data[i] # Empty
       PROVE  data'[i] = data[i]
  <2>1. i \in 1 .. Len(data) /\ i # next_free /\ i \in DOMAIN room
    BY <1>1, <1>3, <1>10
  <2> QED
    BY <1>1, <1>2, <2>1
<1> QED
  BY <1>9, <1>10

LEMMA RemoveStep ==
  ASSUME ArrayInv, NEW idx \in DOMAIN data, remove(idx)
  PROVE  ArrayInv'
<1> DEFINE rest == [data EXCEPT ![idx] = Empty]
           cap  == Half(capacity)
           free == PulledBack(idx)
<1>1. /\ data \in Seq(Slot) /\ Len(data) \in Nat /\ next_free \in Nat \ {0}
      /\ count \in Nat /\ count = NumLive(data)
      /\ next_free <= Len(data) + 1
      /\ next_free <= Len(data) => data[next_free] = Empty
      /\ \A i \in 1 .. next_free - 1 : data[i] # Empty
  BY DEF ArrayInv, ArrayTypeOK, CountIsLive, NextFreeIsFirstEmpty, capacity
<1>2. data[idx] # Empty /\ idx \in 1 .. Len(data)
  BY <1>1 DEF remove
<1>3. rest \in Seq(Slot) /\ Len(rest) = Len(data) /\ NumLive(rest) = count - 1
  BY <1>1, <1>2, ClearCounts
<1>4. count - 1 \in Nat
  BY <1>3, NumLiveType
<1>5. /\ free \in 1 .. Len(data)
      /\ rest[free] = Empty
      /\ \A i \in 1 .. free - 1 : rest[i] # Empty
  BY <1>1, <1>2 DEF PulledBack
<1>6. CASE ~ Sparse(count - 1)
  <2>1. data' = rest /\ count' = count - 1 /\ next_free' = free
    BY <1>6 DEF remove
  <2> HIDE DEF rest, free
  <2>2. ArrayTypeOK'
    BY <1>3, <1>4, <1>5, <2>1 DEF ArrayTypeOK
  <2>3. CountIsLive'
    BY <1>3, <2>1 DEF CountIsLive
  <2>4. NextFreeIsFirstEmpty'
    BY <1>1, <1>3, <1>5, <2>1 DEF NextFreeIsFirstEmpty, capacity
  <2> QED
    BY <2>2, <2>3, <2>4 DEF ArrayInv
<1>7. CASE Sparse(count - 1)
  <2>1. /\ data' = Truncated(rest, cap)
        /\ count' = count - 1 - Dropped(rest, cap)
        /\ next_free' = IF free > cap THEN 1 ELSE free
    BY <1>7 DEF remove
  <2>2. cap \in 1 .. Len(data) /\ count - 1 < cap
    BY <1>1, <1>4, <1>7, ArrayAssumption DEF Sparse, Half, capacity
  <2> HIDE DEF rest, free, cap
  <2>3. /\ data' \in Seq(Slot) /\ Len(data') = cap
        /\ \A i \in 1 .. cap : data'[i] = rest[i]
        /\ NumLive(data') = count'
    BY <1>3, <2>1, <2>2, TruncatedCounts
  <2>4. free <= cap
    <3> SUFFICES ASSUME free > cap PROVE FALSE
      BY <1>1, <1>5, <2>2
    <3>1. \A i \in DOMAIN data' : data'[i] # Empty
      BY <1>1, <1>5, <2>2, <2>3
    <3>2. NumLive(data') = cap
      BY <2>3, <3>1, NumLiveType
    <3>3. count' <= count - 1
      <4>1. IsFiniteSet(LiveIn(rest))
        BY <1>3, NumLiveType
      <4>2. Dropped(rest, cap) \in Nat
        BY <4>1, FS_Difference, FS_CardinalityType DEF Dropped
      <4> QED
        BY <1>4, <2>1, <4>2
    <3> QED
      BY <1>1, <1>4, <2>2, <2>3, <3>2, <3>3
  <2>5. next_free' = free
    BY <2>1, <2>2, <2>4, <1>1, <1>5
  <2>6. ArrayTypeOK'
    BY <1>1, <1>5, <2>3, <2>5, NumLiveType DEF ArrayTypeOK
  <2>7. CountIsLive'
    BY <2>3 DEF CountIsLive
  <2>8. NextFreeIsFirstEmpty'
    <3>1. free \in 1 .. cap
      BY <1>1, <1>5, <2>2, <2>4
    <3>2. data'[free] = Empty
      BY <1>5, <2>3, <3>1
    <3>3. \A i \in 1 .. free - 1 : i \in 1 .. cap /\ data'[i] # Empty
      BY <1>5, <2>2, <2>3, <3>1
    <3> QED
      BY <2>2, <2>3, <2>5, <3>1, <3>2, <3>3 DEF NextFreeIsFirstEmpty, capacity
  <2> QED
    BY <2>6, <2>7, <2>8 DEF ArrayInv
<1> QED
  BY <1>6, <1>7

(* No slot is live in an array of empty slots.                              *)
LEMMA EmptyArray ==
  ASSUME NEW n \in Nat, data = [i \in 1 .. n |-> Empty], count = 0, next_free = 1
  PROVE  ArrayInv
<1>1. data \in Seq(Slot) /\ Len(data) = n
  BY DEF Slot
<1>2. LiveIn(data) = {}
  BY <1>1 DEF LiveIn
<1>3. NumLive(data) = 0
  BY <1>2, FS_EmptySet DEF NumLive
<1> QED
  BY <1>1, <1>3 DEF ArrayInv, ArrayTypeOK, CountIsLive, NextFreeIsFirstEmpty, capacity

LEMMA InvInit ==
  ASSUME ArrayInit
  PROVE  ArrayInv
<1>1. \E n \in Nat : data = [i \in 1 .. n |-> Empty]
  <2>1. CASE data = << >>
    <3>1. data = [i \in 1 .. 0 |-> Empty]
      BY <2>1
    <3> QED
      BY <3>1
  <2>2. CASE \E cap \in MinCapacity .. MaxCapacity : data = [i \in 1 .. cap |-> Empty]
    BY <2>2, ArrayAssumption
  <2> QED
    BY <2>1, <2>2 DEF ArrayInit
<1> QED
  BY <1>1, EmptyArray DEF ArrayInit

LEMMA InvStep ==
  ASSUME ArrayInv, [ArrayNext]_array_vars
  PROVE  ArrayInv'
<1>1. CASE \E v \in Values : push(v)
  BY <1>1, PushStep
<1>2. CASE \E idx \in DOMAIN data : remove(idx)
  BY <1>2, RemoveStep
<1>3. CASE drain
  <2>1. data' = << >> /\ count' = 0 /\ next_free' = 1
    BY <1>3 DEF drain
  <2>2. data' \in Seq(Slot) /\ Len(data') = 0 /\ LiveIn(data') = {}
    BY <2>1 DEF LiveIn
  <2>3. NumLive(data') = 0
    BY <2>2, FS_EmptySet DEF NumLive
  <2> QED
    BY <2>1, <2>2, <2>3
       DEF ArrayInv, ArrayTypeOK, CountIsLive, NextFreeIsFirstEmpty, capacity
<1>4. CASE UNCHANGED array_vars
  BY <1>4 DEF array_vars, ArrayInv, ArrayTypeOK, CountIsLive, NextFreeIsFirstEmpty, capacity
<1> QED
  BY <1>1, <1>2, <1>3, <1>4 DEF ArrayNext

-----------------------------------------------------------------------------
(* Whatever is pushed, removed and drained in whatever order, next_free is  *)
(* the first empty slot, also after remove has shrunk the array.            *)
THEOREM NextFreeCorrect == ArraySpec => []NextFreeIsFirstEmpty
<1>1. ArrayInv => NextFreeIsFirstEmpty
  BY DEF ArrayInv
<1> QED
  BY InvInit, InvStep, <1>1, PTL DEF ArraySpec

(* count, which decides when the array grows and shrinks, is the number of  *)
(* values in it, also after remove has cut slots off.                       *)
THEOREM CountCorrect == ArraySpec => []CountIsLive
<1>1. ArrayInv => CountIsLive
  BY DEF ArrayInv
<1> QED
  BY InvInit, InvStep, <1>1, PTL DEF ArraySpec

(* push never stores over a value: what the first two invariants are for.   *)
THEOREM PushSafe == ArraySpec => PushOverwritesNothing
<1>1. ArrayInv => \A v \in Values : push(v) =>
        \A i \in DOMAIN data : data[i] # Empty => data'[i] = data[i]
  BY PushStep
<1> QED
  BY InvInit, InvStep, <1>1, PTL DEF ArraySpec, PushOverwritesNothing
=============================================================================
