---------------------------- MODULE PagerProofs ----------------------------
(***************************************************************************)
(* Proofs about module Pager, for every number of pages, set of contents,  *)
(* cache size and set of crash phases, with and without failing I/O.       *)
(***************************************************************************)
EXTENDS PagerProperties, SequenceTheorems, FiniteSetTheorems, WellFoundedInduction,
        TLAPS

(* A non-empty set of natural numbers has a least element, and one with a   *)
(* bound a greatest.                                                        *)
LEMMA LeastExists ==
  ASSUME NEW S \in SUBSET Nat, S # {}
  PROVE  \E m \in S : \A s \in S : m <= s
<1> DEFINE R == OpToRel(<, Nat)
<1>1. PICK m \in S : \A s \in S : ~ (<<s, m>> \in R)
  BY NatLessThanWellFounded, WFMin, Zenon
<1>2. ASSUME NEW s \in S, s < m
      PROVE  FALSE
  <2>1. <<s, m>> \in R
    BY <1>2, Zenon DEF OpToRel
  <2> QED
    BY <1>1, <2>1
<1> QED
  BY <1>2

LEMMA GreatestExists ==
  ASSUME NEW S \in SUBSET Nat, S # {}, NEW n \in Nat, \A s \in S : s <= n
  PROVE  \E m \in S : \A s \in S : s <= m
<1> DEFINE M == {n - s : s \in S}
<1>1. M \in SUBSET Nat /\ M # {}
  <2>1. ASSUME NEW s \in S PROVE n - s \in Nat
    OBVIOUS
  <2> QED
    BY <2>1
<1>2. PICK m \in M : \A x \in M : m <= x
  <2> HIDE DEF M
  <2> QED
    BY <1>1, LeastExists
<1>3. PICK s \in S : m = n - s
  OBVIOUS
<1>4. ASSUME NEW x \in S PROVE x <= s
  <2>1. n - s <= n - x
    BY <1>2, <1>3
  <2> QED
    BY <2>1
<1> QED
  BY <1>4


-----------------------------------------------------------------------------
(* The operators on files, caches and the journal.                          *)

LEMMA ReadFileType ==
  ASSUME NEW f \in Seq(Contents), NEW p \in Pages
  PROVE  ReadFile(f, p) \in Contents
BY PagerAssumption DEF ReadFile, Contents, Pages

LEMMA LargerType ==
  ASSUME NEW m \in Nat, NEW n \in Nat
  PROVE  /\ Larger(m, n) \in Nat
         /\ Larger(m, n) >= m /\ Larger(m, n) >= n
         /\ Larger(m, n) \in {m, n}
BY DEF Larger

LEMMA WriteFileType ==
  ASSUME NEW f \in Seq(Contents), NEW p \in Pages, NEW c \in Contents
  PROVE  /\ WriteFile(f, p, c) \in Seq(Contents)
         /\ Len(WriteFile(f, p, c)) = Larger(Len(f), p)
<1>1. Len(f) \in Nat /\ p \in Nat
  BY PagerAssumption DEF Pages
<1>2. Larger(Len(f), p) \in Nat
  BY <1>1, LargerType
<1>3. ASSUME NEW q \in 1 .. Larger(Len(f), p)
      PROVE  (IF q = p THEN c ELSE ReadFile(f, q)) \in Contents
  BY <1>1, PagerAssumption DEF ReadFile, Contents
<1>4. WriteFile(f, p, c) \in [1 .. Larger(Len(f), p) -> Contents]
  BY <1>3 DEF WriteFile
<1> QED
  BY <1>2, <1>4

LEMMA InsertType ==
  ASSUME NEW c, c \in [DOMAIN c -> CachedPage], NEW p,
         NEW data \in Contents, NEW dirty \in BOOLEAN
  PROVE  /\ Insert(c, p, data, dirty) \in [DOMAIN c \cup {p} -> CachedPage]
         /\ DOMAIN Insert(c, p, data, dirty) = DOMAIN c \cup {p}
BY DEF Insert, CachedPage

LEMMA TouchType ==
  ASSUME NEW order, NEW D, NEW p,
         \A e \in order : e = <<e[1], e[2]>>
  PROVE  Touch(order, D, p) \subseteq (D \cup {p}) \X (D \cup {p})
BY DEF Touch

LEMMA LastEntryIsEntry ==
  ASSUME TypeOK, NEW p \in Journaled
  PROVE  /\ LastEntry(p) \in DOMAIN Entries
         /\ Entries[LastEntry(p)].pgno = p
         /\ Entries[LastEntry(p)].old_data \in Contents
<1>1. Entries \in Seq(JournalEntry)
  BY DEF TypeOK, Entries
<1>2. EntriesOf(p) \in SUBSET (1 .. Len(Entries)) /\ EntriesOf(p) # {}
  BY <1>1 DEF EntriesOf, Journaled
<1>3. \E m \in EntriesOf(p) : \A i \in EntriesOf(p) : i <= m
  <2>1. EntriesOf(p) \in SUBSET Nat /\ Len(Entries) \in Nat
    BY <1>1, <1>2
  <2>2. \A i \in EntriesOf(p) : i <= Len(Entries)
    BY <1>1, <1>2
  <2> QED
    BY <1>2, <2>1, <2>2, GreatestExists
<1>4. LastEntry(p) \in EntriesOf(p)
  BY <1>3 DEF LastEntry
<1>5. LastEntry(p) \in DOMAIN Entries /\ Entries[LastEntry(p)].pgno = p
  BY <1>4 DEF EntriesOf
<1>6. Entries[LastEntry(p)] \in JournalEntry
  BY <1>1, <1>5
<1> QED
  BY <1>5, <1>6 DEF JournalEntry

LEMMA FirstEntryIsEntry ==
  ASSUME TypeOK, NEW p \in Journaled
  PROVE  LET first == CHOOSE i \in EntriesOf(p) : \A j \in EntriesOf(p) : i <= j
         IN  first \in DOMAIN Entries /\ Entries[first].pgno = p
<1>1. Entries \in Seq(JournalEntry)
  BY DEF TypeOK, Entries
<1>2. EntriesOf(p) \in SUBSET Nat /\ EntriesOf(p) # {}
  BY <1>1 DEF EntriesOf, Journaled
<1>3. Len(Entries) \in Nat /\ \A i \in EntriesOf(p) : i <= Len(Entries)
  BY <1>1 DEF EntriesOf
<1>4. \E i \in EntriesOf(p) : \A j \in EntriesOf(p) : i <= j
  BY <1>2, <1>3, LeastExists
<1> QED
  BY <1>4 DEF EntriesOf

LEMMA ReplayedType ==
  ASSUME TypeOK
  PROVE  /\ Replayed \in [Cached \cup Journaled -> CachedPage]
         /\ \A p \in DOMAIN Replayed : ~Replayed[p].dirty
<1>1. ASSUME NEW p \in Cached \cup Journaled
      PROVE  (IF p \in Journaled THEN Entries[LastEntry(p)].old_data
                                 ELSE cache[p].data) \in Contents
  <2>1. CASE p \in Journaled
    BY <2>1, LastEntryIsEntry
  <2>2. CASE p \notin Journaled
    BY <2>2 DEF TypeOK, CachedPage
  <2> QED
    BY <2>1, <2>2
<1> QED
  BY <1>1 DEF Replayed, CachedPage

LEMMA evict_lruType ==
  ASSUME TypeOK
  PROVE  /\ DOMAIN evict_lru \subseteq Cached
         /\ \A p \in DOMAIN evict_lru : evict_lru[p] = cache[p]
BY DEF evict_lru

LEMMA SurvivesType ==
  ASSUME TypeOK, NEW kept \in SUBSET Unsynced
  PROVE  /\ Survives(kept) \in Seq(Contents)
         /\ Len(Survives(kept)) <= Len(disk)
<1> DEFINE S == {Len(durable)} \cup kept
           size == CHOOSE n \in S : \A m \in S : m <= n
<1>1. S \subseteq 0 .. Len(disk) /\ Len(disk) \in Nat /\ S # {}
  <2>1. Len(durable) \in Nat /\ Len(disk) \in Nat /\ Len(durable) <= Len(disk)
    BY DEF TypeOK
  <2>2. kept \subseteq 1 .. Len(disk)
    BY DEF Unsynced
  <2>3. Len(durable) \in 0 .. Len(disk)
    BY <2>1
  <2>4. 1 .. Len(disk) \subseteq 0 .. Len(disk)
    BY <2>1
  <2> QED
    BY <2>1, <2>2, <2>3, <2>4
<1>2. \E n \in S : \A m \in S : m <= n
  <2>1. S \in SUBSET Nat /\ \A s \in S : s <= Len(disk)
    BY <1>1
  <2> HIDE DEF S
  <2> QED
    BY <1>1, <2>1, GreatestExists
<1>3. size \in S
  <2> HIDE DEF S
  <2> QED
    BY <1>2
<1>4. size \in 0 .. Len(disk)
  BY <1>1, <1>3
<1> HIDE DEF size, S
<1>5. ASSUME NEW p \in 1 .. size
      PROVE  (IF p \in kept THEN disk[p] ELSE ReadFile(durable, p)) \in Contents
  BY <1>1, <1>4, PagerAssumption DEF TypeOK, ReadFile, Contents
<1>6. Survives(kept) = [p \in 1 .. size |-> IF p \in kept THEN disk[p]
                                                       ELSE ReadFile(durable, p)]
  BY DEF Survives, size, S
<1>7. Survives(kept) \in [1 .. size -> Contents]
  BY <1>5, <1>6
<1> QED
  BY <1>1, <1>4, <1>7
-----------------------------------------------------------------------------
(* Type correctness.                                                        *)

LEMMA NothingFoundType == NothingFound \in [Pages -> Contents]
BY PagerAssumption DEF NothingFound, Contents

LEMMA ViewType ==
  ASSUME TypeOK, NEW p \in Pages
  PROVE  View(p) \in Contents
BY ReadFileType DEF TypeOK, CachedPage, View

LEMMA NewPagerType ==
  ASSUME TypeOK, NEW m \in {"closed", "readonly", "writable"},
         NEW s \in {"NoTxn", "Read", "Write"}, NewPager(m, s),
         disk' \in Seq(Contents), Len(disk') <= Len(disk),
         durable' \in Seq(Contents), Len(durable') <= Len(disk')
  PROVE  TypeOK'
<1>1. cache' = << >> /\ Cached' = {} /\ cache' \in [{} -> CachedPage]
  BY DEF NewPager, Cached
<1>2. db_size' \in 0 .. MaxPgno /\ Len(disk') <= MaxPgno
  BY PagerAssumption DEF TypeOK, NewPager
<1>3. found' \in [Pages -> Contents]
  BY NothingFoundType DEF NewPager
<1> QED
  BY <1>1, <1>2, <1>3 DEF NewPager, TypeOK

LEMMA InsertedType ==
  ASSUME TypeOK, NEW c, DOMAIN c \subseteq Cached,
         \A q \in DOMAIN c : c[q] = cache[q], c = [q \in DOMAIN c |-> c[q]],
         NEW p \in Pages, NEW data \in Contents, NEW dirty \in BOOLEAN,
         cache' = Insert(c, p, data, dirty),
         recency' = Touch(recency, DOMAIN c, p)
  PROVE  /\ Cached' = DOMAIN c \cup {p}
         /\ Cached' \in SUBSET Pages /\ cache' \in [Cached' -> CachedPage]
         /\ recency' \in SUBSET (Cached' \X Cached')
<1>1. c \in [DOMAIN c -> CachedPage]
  BY DEF TypeOK
<1>2. Cached' = DOMAIN c \cup {p} /\ cache' \in [DOMAIN c \cup {p} -> CachedPage]
  BY <1>1, InsertType DEF Cached
<1>3. recency' \in SUBSET (Cached' \X Cached')
  <2>1. \A e \in recency : e = <<e[1], e[2]>>
    BY DEF TypeOK
  <2> QED
    BY <1>2, <2>1, TouchType
<1> QED
  BY <1>2, <1>3 DEF TypeOK

LEMMA TypeStep ==
  ASSUME TypeOK, [Next]_vars
  PROVE  TypeOK'
<1>1. CASE open \/ open_writable \/ Drop \/ Crash
  <2>1. disk' = disk /\ durable' = durable
    BY <1>1 DEF open, open_writable, Drop, Crash, file
  <2>2. disk' \in Seq(Contents) /\ Len(disk') <= Len(disk)
    BY <2>1 DEF TypeOK
  <2>3. durable' \in Seq(Contents) /\ Len(durable') <= Len(disk')
    BY <2>1 DEF TypeOK
  <2> QED
    BY <1>1, <2>2, <2>3, NewPagerType DEF open, open_writable, Drop, Crash
<1>2. CASE PowerLoss
  <2>1. PICK kept \in SUBSET Unsynced : disk' = Survives(kept)
    BY <1>2 DEF PowerLoss
  <2>2. disk' \in Seq(Contents) /\ Len(disk') <= Len(disk)
    BY <2>1, SurvivesType
  <2>3. durable' \in Seq(Contents) /\ Len(durable') <= Len(disk')
    BY <1>2, <2>2 DEF PowerLoss
  <2> QED
    BY <1>2, <2>2, <2>3, NewPagerType DEF PowerLoss
<1>3. ASSUME NEW p \in Pages, GetHit(p)
      PROVE  TypeOK'
  <2>1. \A e \in recency : e = <<e[1], e[2]>>
    BY DEF TypeOK
  <2>2. recency' \in SUBSET (Cached \X Cached)
    <3>1. Cached \cup {p} = Cached
      BY <1>3 DEF GetHit
    <3> QED
      BY <1>3, <2>1, <3>1, TouchType DEF GetHit
  <2> QED
    BY <1>3, <2>2 DEF GetHit, TypeOK, file, txn, call, history, Cached
<1>4. ASSUME NEW p \in Pages, GetMiss(p)
      PROVE  TypeOK'
  <2>1. PICK rest \in {evict_lru, cache} :
          /\ cache' = Insert(rest, p, ReadFile(disk, p), FALSE)
          /\ recency' = Touch(recency, DOMAIN rest, p)
    BY <1>4 DEF GetMiss
  <2>2. /\ DOMAIN rest \subseteq Cached
        /\ \A q \in DOMAIN rest : rest[q] = cache[q]
        /\ rest = [q \in DOMAIN rest |-> rest[q]]
    BY evict_lruType DEF TypeOK, evict_lru, Cached
  <2>3. ReadFile(disk, p) \in Contents
    BY ReadFileType DEF TypeOK
  <2>4. /\ Cached' \in SUBSET Pages /\ cache' \in [Cached' -> CachedPage]
        /\ recency' \in SUBSET (Cached' \X Cached')
    BY <2>1, <2>2, <2>3, InsertedType
  <2>5. spilled' \in SUBSET Pages /\ forgotten' \in SUBSET spilled'
    <3>1. CASE in_transaction
      BY <1>4, <3>1 DEF GetMiss, TypeOK
    <3>2. CASE ~in_transaction
      <4>1. forgotten' = {} /\ spilled' \subseteq spilled
        BY <1>4, <3>2 DEF GetMiss, TypeOK
      <4> QED
        BY <4>1 DEF TypeOK
    <3> QED
      BY <3>1, <3>2
  <2>6. in_transaction' \/ forgotten' = {}
    BY <1>4 DEF GetMiss, TypeOK, txn
  <2> QED
    BY <1>4, <2>4, <2>5, <2>6 DEF GetMiss, TypeOK, file, txn, call
<1>5. CASE begin
  <2>1. found' \in [Pages -> Contents]
    BY <1>5, ViewType DEF begin
  <2> QED
    BY <1>5, <2>1 DEF begin, TypeOK, file, call, Cached
<1>6. ASSUME NEW p \in Pages, NEW v \in Values, write(p, v)
      PROVE  TypeOK'
  <2>1. /\ Cached' \in SUBSET Pages /\ cache' \in [Cached' -> CachedPage]
        /\ recency' \in SUBSET (Cached' \X Cached')
    <3>1. cache = [q \in DOMAIN cache |-> cache[q]]
      BY DEF TypeOK
    <3>2. v \in Contents
      BY DEF Contents
    <3>3. cache' = Insert(cache, p, v, TRUE) /\ recency' = Touch(recency, Cached, p)
      BY <1>6 DEF write
    <3> QED
      BY <3>1, <3>2, <3>3, InsertedType DEF Cached
  <2>2. journal' = NoJournal \/ journal' \in Seq(JournalEntry)
    <3>1. View(p) \in Contents
      BY ViewType
    <3>2. [pgno |-> p, old_data |-> View(p)] \in JournalEntry
      BY <3>1 DEF JournalEntry
    <3>3. CASE journal' = journal
      BY <3>3 DEF TypeOK
    <3>4. CASE journal # NoJournal
               /\ journal' = Append(journal, [pgno |-> p, old_data |-> View(p)])
      <4>1. journal \in Seq(JournalEntry)
        BY <3>4 DEF TypeOK
      <4> QED
        BY <3>2, <3>4, <4>1
    <3> QED
      BY <1>6, <3>3, <3>4 DEF write
  <2>3. db_size' \in 0 .. MaxPgno
    BY <1>6, PagerAssumption DEF write, GrownTo, Larger, TypeOK, Pages
  <2> QED
    BY <1>6, <2>1, <2>2, <2>3 DEF write, TypeOK, file, call, history
<1>7. CASE CommitStart
  BY <1>7 DEF CommitStart, DirtyPages, TypeOK, file, txn, history, Cached
<1>8. ASSUME NEW p \in Pages, FlushPage(p) \/ FlushFails(p)
      PROVE  TypeOK'
  <2>1. /\ todo' \in SUBSET Cached' /\ (pc' = "idle" => todo' = {})
        /\ durable' = durable
    BY <1>8 DEF FlushPage, FlushFails, TypeOK, Cached
  <2>2. disk' \in Seq(Contents) /\ Len(disk') <= MaxPgno /\ Len(disk') >= Len(disk)
    <3>1. PICK c \in Contents : disk' \in {disk, WriteFile(disk, p, c)}
      <4>1. CASE FlushFails(p)
        BY <4>1 DEF FlushFails, Contents
      <4>2. CASE FlushPage(p)
        <5>1. cache[p].data \in Contents
          BY <4>2 DEF FlushPage, TypeOK, CachedPage
        <5> QED
          BY <4>2, <5>1 DEF FlushPage
      <4> QED
        BY <1>8, <4>1, <4>2
    <3> QED
      <4>1. p \in Nat /\ p <= MaxPgno /\ Len(disk) \in Nat
        BY PagerAssumption DEF TypeOK, Pages
      <4>2. disk \in Seq(Contents) /\ Len(disk) <= MaxPgno
        BY DEF TypeOK
      <4>3. CASE disk' = WriteFile(disk, p, c)
        <5>1. /\ WriteFile(disk, p, c) \in Seq(Contents)
              /\ Len(WriteFile(disk, p, c)) = Larger(Len(disk), p)
          BY <4>2, WriteFileType
        <5>2. Larger(Len(disk), p) >= Len(disk) /\ Larger(Len(disk), p) <= MaxPgno
          BY <4>1, <4>2 DEF Larger
        <5> QED
          BY <4>3, <5>1, <5>2
      <4> QED
        BY <3>1, <4>1, <4>2, <4>3
  <2>3. durable' \in Seq(Contents) /\ Len(durable') <= Len(disk')
    BY <2>1, <2>2, PagerAssumption DEF TypeOK
  <2>4. /\ pc' \in {"idle", "flush"} /\ found' \in [Pages -> Contents]
        /\ spilled' \in SUBSET Pages /\ forgotten' \in SUBSET spilled'
        /\ in_transaction' \/ forgotten' = {}
    BY <1>8 DEF txn, FlushPage, FlushFails, Flushed, TypeOK, history
  <2> QED
    <3>1. UNCHANGED <<mode, db_size, cache, Cached, recency, state, journal,
                      in_transaction>>
      BY <1>8 DEF FlushPage, FlushFails, txn, Cached
    <3> QED
      BY <2>1, <2>2, <2>3, <2>4, <3>1 DEF TypeOK
<1>9. CASE FinishCommit
  <2>1. Cached' = Cached /\ cache' \in [Cached' -> CachedPage]
    BY <1>9 DEF FinishCommit, TypeOK, Cached, ClearDirty, CachedPage
  <2>2. /\ disk' = disk /\ durable' = disk /\ pc' = "idle" /\ todo' = {}
        /\ UNCHANGED <<mode, db_size, recency>>
        /\ spilled' \subseteq spilled /\ forgotten' = {} /\ found' = NothingFound
        /\ journal' = NoJournal /\ in_transaction' = FALSE /\ state' = "Read"
    BY <1>9 DEF FinishCommit, Sync, EndTxn, Forget
  <2>3. Len(durable') <= Len(disk')
    BY <2>2 DEF TypeOK
  <2> QED
    BY <2>1, <2>2, <2>3, NothingFoundType DEF TypeOK
<1>10. CASE SyncFails
  BY <1>10 DEF SyncFails, Flushed, TypeOK, file, txn, Cached
<1>11. CASE rollback
  <2>1. cache' \in [Cached' -> CachedPage] /\ Cached' = Cached \cup Journaled
    BY <1>11, ReplayedType DEF rollback, Cached
  <2>2. recency' \in SUBSET (Cached' \X Cached')
    BY <1>11, <2>1 DEF rollback, ReplayedOrder
  <2>3. Cached' \in SUBSET Pages
    BY <2>1 DEF TypeOK, Journaled
  <2>4. spilled' \subseteq spilled /\ forgotten' = {} /\ found' \in [Pages -> Contents]
    BY <1>11, NothingFoundType DEF rollback, Forget
  <2> QED
    BY <1>11, <2>1, <2>2, <2>3, <2>4 DEF rollback, TypeOK, file, call, EndTxn
<1>12. CASE UNCHANGED vars
  BY <1>12 DEF vars, file, txn, call, history, TypeOK, Cached
<1> QED
  BY <1>1, <1>2, <1>3, <1>4, <1>5, <1>6, <1>7, <1>8, <1>9, <1>10, <1>11, <1>12
  DEF Next, commit

(* The variables of the pager keep their types: in particular the file     *)
(* never shrinks, and only pages within the bound are cached or journaled.  *)
THEOREM TypeCorrect == Spec => []TypeOK
<1>1. Init => TypeOK
  <2> SUFFICES ASSUME Init PROVE TypeOK
    OBVIOUS
  <2>1. PICK n \in 0 .. MaxPgno : disk \in [1 .. n -> Values]
    BY DEF Init
  <2>2. disk \in Seq(Contents) /\ Len(disk) = n
    BY <2>1, PagerAssumption DEF Contents
  <2>3. Cached = {} /\ cache \in [Cached -> CachedPage]
    BY DEF Init, Cached
  <2>4. n \in Nat /\ n <= MaxPgno
    BY PagerAssumption
  <2>5. durable = disk /\ db_size = 0 /\ recency = {} /\ todo = {}
    BY DEF Init
  <2> QED
    <3>1. /\ Len(disk) <= MaxPgno /\ durable \in Seq(Contents)
          /\ Len(durable) <= Len(disk)
      BY <2>2, <2>4, <2>5
    <3>2. db_size \in 0 .. MaxPgno
      BY <2>5, PagerAssumption
    <3>3. /\ Cached \in SUBSET Pages /\ recency \in SUBSET (Cached \X Cached)
          /\ todo \in SUBSET Cached
      BY <2>3, <2>5
    <3> QED
      BY <2>2, <2>3, <3>1, <3>2, <3>3, NothingFoundType DEF Init, TypeOK
<1>2. TypeOK /\ [Next]_vars => TypeOK'
  BY TypeStep
<1> QED
  BY <1>1, <1>2, PTL DEF Spec

-----------------------------------------------------------------------------
(* The transaction flags.                                                   *)

(* What write does to the journal: nothing for a page that is dirty, and    *)
(* otherwise one entry more, with the page as the client read it.           *)
LEMMA WriteJournal ==
  ASSUME TypeOK, NEW p \in Pages, NEW v \in Values, write(p, v)
  PROVE  \/ /\ already_journaled(p) \/ journal = NoJournal
            /\ journal' = journal
         \/ /\ ~already_journaled(p)
            /\ journal \in Seq(JournalEntry)
            /\ journal' = Append(journal, [pgno |-> p, old_data |-> View(p)])
            /\ journal' \in Seq(JournalEntry)
            /\ journal # NoJournal /\ journal' # NoJournal
<1>1. View(p) \in Contents
  BY ViewType
<1>2. [pgno |-> p, old_data |-> View(p)] \in JournalEntry
  BY <1>1 DEF JournalEntry
<1>3. CASE already_journaled(p) \/ journal = NoJournal
  BY <1>3 DEF write
<1>4. CASE ~(already_journaled(p) \/ journal = NoJournal)
  <2>1. journal \in Seq(JournalEntry)
    BY <1>4 DEF TypeOK
  <2>2. journal' = Append(journal, [pgno |-> p, old_data |-> View(p)])
    BY <1>4 DEF write
  <2>3. journal' \in Seq(JournalEntry)
    BY <1>2, <2>1, <2>2
  <2> QED
    BY <1>4, <2>1, <2>2, <2>3, NoJournalAssumption
<1> QED
  BY <1>3, <1>4

(* state, journal and in_transaction always say the same: begin, commit,   *)
(* rollback, a failed commit and a restart leave no transaction half open.  *)
THEOREM TxnFlags == Spec => []TxnFlagsAgree
<1>1. Init => TxnFlagsAgree
  BY DEF Init, TxnFlagsAgree
<1>2. TypeOK /\ TxnFlagsAgree /\ [Next]_vars => TxnFlagsAgree'
  <2> SUFFICES ASSUME TypeOK, TxnFlagsAgree, [Next]_vars PROVE TxnFlagsAgree'
    OBVIOUS
  <2>1. CASE open \/ open_writable \/ Drop \/ Crash \/ PowerLoss
    BY <2>1 DEF open, open_writable, Drop, Crash, PowerLoss, NewPager, TxnFlagsAgree
  <2>2. ASSUME NEW p \in Pages, GetHit(p) \/ GetMiss(p)
        PROVE  TxnFlagsAgree'
    <3>1. UNCHANGED <<mode, txn, call>>
      BY <2>2 DEF GetHit, GetMiss
    <3> QED
      BY <3>1 DEF txn, call, TxnFlagsAgree
  <2>3. CASE begin
    <3>1. << >> # NoJournal
      BY NoJournalAssumption, EmptySeq
    <3> QED
      BY <2>3, <3>1 DEF begin, call, TxnFlagsAgree
  <2>4. ASSUME NEW p \in Pages, NEW v \in Values, write(p, v)
        PROVE  TxnFlagsAgree'
    <3>1. journal # NoJournal => journal' # NoJournal
      BY <2>4, WriteJournal
    <3> QED
      BY <2>4, <3>1 DEF write, call, TxnFlagsAgree
  <2>5. CASE commit
    BY <2>5 DEF commit, CommitStart, FlushPage, FinishCommit, EndTxn, txn, TxnFlagsAgree
  <2>6. CASE (\E p \in Pages : FlushFails(p)) \/ SyncFails
    BY <2>6 DEF FlushFails, SyncFails, txn, TxnFlagsAgree
  <2>7. CASE rollback
    BY <2>7 DEF rollback, EndTxn, call, TxnFlagsAgree
  <2>8. CASE UNCHANGED vars
    BY <2>8 DEF vars, txn, call, TxnFlagsAgree
  <2> QED
    BY <2>1, <2>2, <2>3, <2>4, <2>5, <2>6, <2>7, <2>8 DEF Next
<1> QED
  BY <1>1, <1>2, TypeCorrect, PTL DEF Spec
-----------------------------------------------------------------------------
(* Dirty pages and the journal.                                             *)

LEMMA JournaledAfterWrite ==
  ASSUME TypeOK, NEW p \in Pages, NEW v \in Values, write(p, v), journal # NoJournal
  PROVE  /\ Journaled \subseteq Journaled'
         /\ already_journaled(p) \/ p \in Journaled'
<1>1. CASE journal' = journal /\ already_journaled(p)
  BY <1>1 DEF Journaled, EntriesOf, Entries
<1>2. CASE /\ journal \in Seq(JournalEntry) /\ journal' # NoJournal
           /\ journal' = Append(journal, [pgno |-> p, old_data |-> View(p)])
  <2>1. /\ Entries = journal /\ Entries' = journal'
        /\ DOMAIN journal = 1 .. Len(journal) /\ Len(journal) \in Nat
        /\ DOMAIN journal' = 1 .. Len(journal) + 1
        /\ \A i \in 1 .. Len(journal) : journal'[i] = journal[i]
        /\ journal'[Len(journal) + 1] = [pgno |-> p, old_data |-> View(p)]
    BY <1>2 DEF Entries
  <2>2. ASSUME NEW q \in Journaled
        PROVE  q \in Journaled'
    <3>1. PICK i \in DOMAIN journal : journal[i].pgno = q
      BY <2>1 DEF Journaled, EntriesOf
    <3>2. i \in EntriesOf(q)'
      BY <2>1, <3>1 DEF EntriesOf
    <3> QED
      BY <3>2 DEF Journaled
  <2>3. Len(journal) + 1 \in EntriesOf(p)'
    BY <2>1 DEF EntriesOf
  <2> QED
    BY <2>2, <2>3 DEF Journaled
<1> QED
  BY <1>1, <1>2, WriteJournal

LEMMA JournaledUnchanged ==
  ASSUME journal' = journal
  PROVE  /\ Entries' = Entries /\ Journaled' = Journaled
         /\ \A p : EntriesOf(p)' = EntriesOf(p)
BY DEF Entries, EntriesOf, Journaled

LEMMA JournaledByWrite ==
  ASSUME TypeOK, NEW p \in Pages, NEW v \in Values, write(p, v)
  PROVE  Journaled' \subseteq Journaled \cup {p}
<1>1. CASE journal' = journal
  BY <1>1, JournaledUnchanged
<1>2. CASE /\ journal \in Seq(JournalEntry) /\ journal # NoJournal /\ journal' # NoJournal
           /\ journal' = Append(journal, [pgno |-> p, old_data |-> View(p)])
  <2>1. /\ Entries = journal /\ Entries' = journal'
        /\ DOMAIN journal = 1 .. Len(journal) /\ Len(journal) \in Nat
        /\ DOMAIN journal' = 1 .. Len(journal) + 1
        /\ \A i \in 1 .. Len(journal) : journal'[i] = journal[i]
        /\ journal'[Len(journal) + 1] = [pgno |-> p, old_data |-> View(p)]
    BY <1>2 DEF Entries
  <2>2. ASSUME NEW q \in Journaled', q # p
        PROVE  q \in Journaled
    <3>1. q \in Pages /\ EntriesOf(q)' # {}
      BY <2>2 DEF Journaled
    <3>2. PICK i \in DOMAIN journal' : journal'[i].pgno = q
      BY <2>1, <3>1 DEF EntriesOf
    <3>3. i \in 1 .. Len(journal)
      BY <2>1, <2>2, <3>2
    <3>4. i \in EntriesOf(q)
      BY <2>1, <3>2, <3>3 DEF EntriesOf
    <3> QED
      BY <3>1, <3>4 DEF Journaled
  <2> QED
    BY <2>2
<1> QED
  BY <1>1, <1>2, WriteJournal

LEMMA DirtyStep ==
  ASSUME TypeOK, TxnFlagsAgree, DirtyIsJournaled, [Next]_vars
  PROVE  DirtyIsJournaled'
<1>1. CASE open \/ open_writable \/ Drop \/ Crash \/ PowerLoss
  <2>1. Cached' = {} /\ todo' = {}
    BY <1>1 DEF open, open_writable, Drop, Crash, PowerLoss, NewPager, Cached
  <2> QED
    BY <2>1 DEF DirtyIsJournaled
<1>2. ASSUME NEW p \in Pages, GetHit(p)
      PROVE  DirtyIsJournaled'
  BY <1>2, JournaledUnchanged DEF GetHit, txn, call, DirtyIsJournaled, Cached
<1>3. ASSUME NEW p \in Pages, GetMiss(p)
      PROVE  DirtyIsJournaled'
  <2>1. PICK rest \in {evict_lru, cache} :
          cache' = Insert(rest, p, ReadFile(disk, p), FALSE)
    BY <1>3 DEF GetMiss
  <2>2. /\ todo' = {} /\ in_transaction' = in_transaction
        /\ Journaled' = Journaled
    BY <1>3, JournaledUnchanged DEF GetMiss, txn, call, TypeOK
  <2>3. ASSUME NEW q \in Cached', cache'[q].dirty
        PROVE  q \in Cached /\ cache[q].dirty
    <3>1. q # p /\ q \in DOMAIN rest /\ cache'[q] = rest[q]
      BY <2>1, <2>3 DEF Insert, Cached
    <3> QED
      BY <2>3, <3>1, evict_lruType DEF Cached
  <2> QED
    BY <2>2, <2>3 DEF DirtyIsJournaled
<1>4. CASE begin
  BY <1>4 DEF begin, call, DirtyIsJournaled, TypeOK, Cached
<1>5. ASSUME NEW p \in Pages, NEW v \in Values, write(p, v)
      PROVE  DirtyIsJournaled'
  <2>1. /\ todo' = {} /\ in_transaction /\ in_transaction'
        /\ journal # NoJournal
        /\ cache' = Insert(cache, p, v, TRUE)
    BY <1>5 DEF write, call, TypeOK, TxnFlagsAgree
  <2>2. /\ Journaled \subseteq Journaled'
        /\ already_journaled(p) \/ p \in Journaled'
    BY <1>5, <2>1, JournaledAfterWrite
  <2>3. ASSUME NEW q \in Cached', cache'[q].dirty
        PROVE  q \in Journaled'
    <3>1. CASE q = p
      BY <2>2, <3>1 DEF already_journaled, DirtyIsJournaled
    <3>2. CASE q # p
      <4>1. q \in Cached /\ cache'[q] = cache[q]
        BY <2>1, <3>2 DEF Insert, Cached
      <4> QED
        BY <2>2, <2>3, <4>1 DEF DirtyIsJournaled
    <3> QED
      BY <3>1, <3>2
  <2> QED
    BY <2>1, <2>3 DEF DirtyIsJournaled
<1>6. CASE CommitStart
  BY <1>6, JournaledUnchanged DEF CommitStart, DirtyPages, txn, DirtyIsJournaled, Cached
<1>7. ASSUME NEW p \in Pages, FlushPage(p) \/ FlushFails(p)
      PROVE  DirtyIsJournaled'
  <2>1. UNCHANGED <<cache, journal, in_transaction>> /\ todo' \subseteq todo
    BY <1>7 DEF FlushPage, FlushFails, txn
  <2> QED
    BY <2>1, JournaledUnchanged DEF DirtyIsJournaled, Cached
<1>8. CASE FinishCommit
  <2>1. todo' = {} /\ \A q \in Cached' : ~cache'[q].dirty
    BY <1>8 DEF FinishCommit, ClearDirty, TypeOK, CachedPage, Cached
  <2> QED
    BY <2>1 DEF DirtyIsJournaled
<1>9. CASE SyncFails
  BY <1>9, JournaledUnchanged DEF SyncFails, txn, DirtyIsJournaled, Cached
<1>10. CASE rollback
  <2>1. todo' = {} /\ \A q \in Cached' : ~cache'[q].dirty
    BY <1>10, ReplayedType DEF rollback, call, TypeOK, Cached
  <2> QED
    BY <2>1 DEF DirtyIsJournaled
<1>11. CASE UNCHANGED vars
  BY <1>11, JournaledUnchanged DEF vars, txn, call, DirtyIsJournaled, Cached
<1> QED
  BY <1>1, <1>2, <1>3, <1>4, <1>5, <1>6, <1>7, <1>8, <1>9, <1>10, <1>11 DEF Next, commit

(* Every dirty page belongs to the open transaction and is in its journal,  *)
(* also when the page was evicted and written again.                        *)
THEOREM DirtyJournaled == Spec => []DirtyIsJournaled
<1>1. Init => DirtyIsJournaled
  BY DEF Init, DirtyIsJournaled, Cached
<1>2. TypeOK /\ TxnFlagsAgree /\ DirtyIsJournaled /\ [Next]_vars => DirtyIsJournaled'
  BY DirtyStep
<1> QED
  BY <1>1, <1>2, TypeCorrect, TxnFlags, PTL DEF Spec
-----------------------------------------------------------------------------
(* File, cache and journal.  No one of the three facts about them survives  *)
(* a step alone: write journals what the cache holds, which is the file's   *)
(* page while it is clean; rollback makes clean pages of journal entries,   *)
(* and a commit that returns OK makes clean pages of what it has written.   *)

LEMMA ReadWritten ==
  ASSUME NEW f \in Seq(Contents), NEW p \in Pages, NEW c \in Contents, NEW q \in Pages
  PROVE  ReadFile(WriteFile(f, p, c), q) = IF q = p THEN c ELSE ReadFile(f, q)
<1>1. Len(f) \in Nat /\ p \in Nat /\ q \in Nat /\ q >= 1
  BY PagerAssumption DEF Pages
<1>2. Larger(Len(f), p) \in Nat /\ Larger(Len(f), p) >= Len(f) /\ Larger(Len(f), p) >= p
  BY <1>1, LargerType
<1>3. Len(WriteFile(f, p, c)) = Larger(Len(f), p)
  BY WriteFileType
<1>4. CASE q <= Larger(Len(f), p)
  <2>1. q \in 1 .. Larger(Len(f), p)
    BY <1>1, <1>2, <1>4
  <2>2. WriteFile(f, p, c)[q] = IF q = p THEN c ELSE ReadFile(f, q)
    BY <2>1 DEF WriteFile
  <2> QED
    BY <1>3, <1>4, <2>2 DEF ReadFile
<1>5. CASE ~(q <= Larger(Len(f), p))
  <2>1. q # p /\ ~(q <= Len(f))
    BY <1>1, <1>2, <1>5
  <2> QED
    BY <1>3, <1>5, <2>1 DEF ReadFile
<1> QED
  BY <1>4, <1>5

(* All that is written, or will be by commit, lies within db_size.          *)
WrittenWithinDb ==
  mode # "closed" =>
    /\ Len(disk) <= db_size
    /\ \A p \in Cached : cache[p].dirty => p <= db_size

(* What commit has taken off its list is in the file.                       *)
FlushedIsWritten ==
  pc = "flush" =>
    \A p \in Cached :
      cache[p].dirty /\ p \notin todo => ReadFile(disk, p) = cache[p].data

(* A page the transaction has not written reads as it did when it began.    *)
UnwrittenIsFound ==
  in_transaction => \A p \in Pages \ (Journaled \cup forgotten) : View(p) = found[p]

(* A page that a failed commit of the transaction has written is still      *)
(* dirty, so that write does not journal it again, unless it was evicted.   *)
SpilledIsDirty ==
  \A p \in Journaled \cap spilled : p \in forgotten \/ (p \in Cached /\ cache[p].dirty)

FilesInv ==
  /\ TypeOK /\ TxnFlagsAgree /\ DirtyIsJournaled
  /\ WrittenWithinDb /\ FlushedIsWritten
  /\ CleanPageIsFilePage /\ JournalHoldsPreImage
  /\ UnwrittenIsFound /\ SpilledIsDirty

(* What a get that misses leaves of the cache.                              *)
LEMMA Missed ==
  ASSUME TypeOK, NEW p \in Pages, GetMiss(p), NEW q \in Cached'
  PROVE  \/ q = p /\ cache'[q].data = ReadFile(disk, p) /\ ~cache'[q].dirty
         \/ q # p /\ q \in Cached /\ cache'[q] = cache[q]
<1>1. PICK rest \in {evict_lru, cache} :
        cache' = Insert(rest, p, ReadFile(disk, p), FALSE)
  BY DEF GetMiss
<1>2. DOMAIN rest \subseteq Cached /\ \A r \in DOMAIN rest : rest[r] = cache[r]
  BY evict_lruType DEF Cached
<1> QED
  BY <1>1, <1>2 DEF Insert, Cached

LEMMA Overwritten ==
  ASSUME NEW p \in Pages, NEW v \in Values, write(p, v)
  PROVE  /\ Cached' = Cached \cup {p}
         /\ cache'[p].data = v /\ cache'[p].dirty
         /\ \A q \in Cached \ {p} : cache'[q] = cache[q]
BY DEF write, Insert, Cached

(* A step of commit that may write the file: only the first page on the     *)
(* list, which is dirty, reads differently after it.                        *)
LEMMA FlushedPage ==
  ASSUME TypeOK, NEW p \in Pages, FlushPage(p)
  PROVE  /\ p \in Cached /\ p \in todo
         /\ ReadFile(disk', p) = cache[p].data
         /\ \A q \in Pages \ {p} : ReadFile(disk', q) = ReadFile(disk, q)
         /\ Len(disk') = Larger(Len(disk), p)
<1>1. p \in Cached /\ p \in todo /\ cache[p].data \in Contents /\ disk \in Seq(Contents)
  BY DEF FlushPage, TypeOK, CachedPage
<1>2. disk' = WriteFile(disk, p, cache[p].data)
  BY DEF FlushPage
<1>3. \A q \in Pages :
        ReadFile(disk', q) = IF q = p THEN cache[p].data ELSE ReadFile(disk, q)
  BY <1>1, <1>2, ReadWritten
<1>4. Len(disk') = Larger(Len(disk), p)
  BY <1>1, <1>2, WriteFileType
<1> QED
  BY <1>1, <1>3, <1>4

LEMMA FailedPage ==
  ASSUME TypeOK, NEW p \in Pages, FlushFails(p)
  PROVE  \A q \in Pages \ {p} : ReadFile(disk', q) = ReadFile(disk, q)
<1>1. disk \in Seq(Contents) /\ Torn \in Contents
  BY DEF TypeOK, Contents
<1>2. disk' = disk \/ disk' = WriteFile(disk, p, Torn)
  BY DEF FlushFails
<1> QED
  BY <1>1, <1>2, ReadWritten

LEMMA EntryPages ==
  ASSUME TypeOK
  PROVE  \A i \in DOMAIN Entries : Entries[i].pgno \in Pages
<1>1. Entries \in Seq(JournalEntry)
  BY DEF TypeOK, Entries
<1>2. \A i \in DOMAIN Entries : Entries[i] \in JournalEntry
  BY <1>1
<1> QED
  BY <1>2 DEF JournalEntry

LEMMA WithinDbStep ==
  ASSUME TypeOK, TxnFlagsAgree, DirtyIsJournaled, WrittenWithinDb, [Next]_vars
  PROVE  WrittenWithinDb'
<1>1. CASE open \/ open_writable \/ Drop \/ Crash \/ PowerLoss
  <2>1. Cached' = {} /\ db_size' = Len(disk)
    BY <1>1 DEF open, open_writable, Drop, Crash, PowerLoss, NewPager, Cached
  <2>2. CASE mode' = "closed"
    BY <2>2 DEF WrittenWithinDb
  <2>3. CASE mode' # "closed"
    <3>1. disk' = disk
      BY <1>1, <2>3 DEF open, open_writable, Drop, Crash, PowerLoss, NewPager, file
    <3>2. Len(disk') <= db_size'
      BY <2>1, <3>1 DEF TypeOK
    <3> QED
      BY <2>1, <3>2 DEF WrittenWithinDb
  <2> QED
    BY <2>2, <2>3
<1>2. ASSUME NEW p \in Pages, GetHit(p)
      PROVE  WrittenWithinDb'
  BY <1>2 DEF GetHit, file, WrittenWithinDb, Cached
<1>3. ASSUME NEW p \in Pages, GetMiss(p)
      PROVE  WrittenWithinDb'
  <2>1. UNCHANGED <<disk, db_size, mode>>
    BY <1>3 DEF GetMiss, file
  <2>2. ASSUME NEW q \in Cached', cache'[q].dirty
        PROVE  q \in Cached /\ cache[q].dirty
    BY <1>3, <2>2, Missed
  <2> QED
    BY <2>1, <2>2 DEF WrittenWithinDb
<1>4. CASE begin
  BY <1>4 DEF begin, file, WrittenWithinDb, Cached
<1>5. ASSUME NEW p \in Pages, NEW v \in Values, write(p, v)
      PROVE  WrittenWithinDb'
  <2>1. UNCHANGED <<disk, mode>> /\ mode # "closed" /\ db_size' = Larger(db_size, p)
    BY <1>5 DEF write, file, GrownTo
  <2>2. /\ p \in Nat /\ db_size \in Nat /\ db_size' \in Nat
        /\ db_size' >= p /\ db_size' >= db_size
    <3>1. p \in Nat /\ db_size \in Nat
      BY PagerAssumption DEF TypeOK, Pages
    <3> QED
      BY <2>1, <3>1, LargerType
  <2>3. Len(disk) \in Nat /\ Len(disk) <= db_size
    BY <2>1 DEF TypeOK, WrittenWithinDb
  <2>4. ASSUME NEW q \in Cached', cache'[q].dirty
        PROVE  q <= db_size'
    <3>1. CASE q = p
      BY <2>2, <3>1
    <3>2. CASE q # p
      <4>1. q \in Cached /\ cache[q].dirty
        BY <1>5, <2>4, <3>2, Overwritten
      <4>2. q <= db_size /\ q \in Nat
        BY <2>1, <4>1 DEF WrittenWithinDb, TypeOK, Pages
      <4> QED
        BY <2>2, <4>2
    <3> QED
      BY <3>1, <3>2
  <2> QED
    BY <2>1, <2>2, <2>3, <2>4 DEF WrittenWithinDb
<1>6. CASE CommitStart
  BY <1>6 DEF CommitStart, file, WrittenWithinDb, Cached
<1>7. ASSUME NEW p \in Pages, FlushPage(p) \/ FlushFails(p)
      PROVE  WrittenWithinDb'
  <2>1. UNCHANGED <<mode, db_size, cache, Cached>> /\ p \in todo
    BY <1>7 DEF FlushPage, FlushFails, Cached
  <2>2. mode # "closed" /\ p <= db_size
    <3>1. mode # "closed"
      BY <1>7 DEF FlushPage, FlushFails, TxnFlagsAgree
    <3>2. p \in Cached /\ cache[p].dirty
      BY <2>1 DEF TypeOK, DirtyIsJournaled
    <3> QED
      BY <3>1, <3>2 DEF WrittenWithinDb
  <2>3. \/ disk' = disk
        \/ Len(disk') = Larger(Len(disk), p)
    <3>1. CASE FlushPage(p)
      BY <3>1, FlushedPage
    <3>2. CASE FlushFails(p)
      BY <3>2, WriteFileType DEF FlushFails, TypeOK, Contents
    <3> QED
      BY <1>7, <3>1, <3>2
  <2>4. Len(disk') <= db_size
    BY <2>2, <2>3 DEF WrittenWithinDb, Larger
  <2> QED
    BY <2>1, <2>4 DEF WrittenWithinDb
<1>8. CASE FinishCommit
  <2>1. UNCHANGED <<disk, db_size, mode>> /\ \A q \in Cached' : ~cache'[q].dirty
    BY <1>8 DEF FinishCommit, ClearDirty, TypeOK, CachedPage, Cached
  <2> QED
    BY <2>1 DEF WrittenWithinDb
<1>9. CASE SyncFails
  BY <1>9 DEF SyncFails, file, WrittenWithinDb, Cached
<1>10. CASE rollback
  <2>1. UNCHANGED <<disk, db_size, mode>> /\ \A q \in Cached' : ~cache'[q].dirty
    BY <1>10, ReplayedType DEF rollback, file, Cached
  <2> QED
    BY <2>1 DEF WrittenWithinDb
<1>11. CASE UNCHANGED vars
  BY <1>11 DEF vars, file, WrittenWithinDb, Cached
<1> QED
  BY <1>1, <1>2, <1>3, <1>4, <1>5, <1>6, <1>7, <1>8, <1>9, <1>10, <1>11 DEF Next, commit

LEMMA FlushedStep ==
  ASSUME TypeOK, FlushedIsWritten, [Next]_vars
  PROVE  FlushedIsWritten'
<1>1. ASSUME pc' # "flush"
      PROVE  FlushedIsWritten'
  BY <1>1 DEF FlushedIsWritten
<1>2. CASE CommitStart
  BY <1>2 DEF CommitStart, DirtyPages, FlushedIsWritten, Cached
<1>3. ASSUME NEW p \in Pages, FlushPage(p)
      PROVE  FlushedIsWritten'
  <2>1. cache' = cache /\ Cached' = Cached /\ todo' = todo \ {p} /\ pc = "flush"
    BY <1>3 DEF FlushPage, Cached
  <2>2. ASSUME NEW q \in Cached', cache'[q].dirty, q \notin todo'
        PROVE  ReadFile(disk', q) = cache'[q].data
    <3>1. q \in Cached /\ q \in Pages /\ cache[q].dirty /\ (q = p \/ q \notin todo)
      BY <2>1, <2>2 DEF TypeOK
    <3>2. CASE q = p
      BY <1>3, <2>1, <3>2, FlushedPage
    <3>3. CASE q # p
      <4>1. ReadFile(disk, q) = cache[q].data
        BY <2>1, <3>1, <3>3 DEF FlushedIsWritten
      <4>2. ReadFile(disk', q) = ReadFile(disk, q)
        BY <1>3, <3>1, <3>3, FlushedPage
      <4> QED
        BY <2>1, <4>1, <4>2
    <3> QED
      BY <3>2, <3>3
  <2> QED
    BY <2>2 DEF FlushedIsWritten
<1>4. CASE UNCHANGED vars
  BY <1>4 DEF vars, file, call, FlushedIsWritten, Cached
<1>5. CASE open \/ open_writable \/ Drop \/ Crash \/ PowerLoss
  BY <1>1, <1>5 DEF open, open_writable, Drop, Crash, PowerLoss, NewPager
<1>6. ASSUME NEW p \in Pages, GetHit(p) \/ GetMiss(p)
      PROVE  FlushedIsWritten'
  BY <1>1, <1>6 DEF GetHit, GetMiss, call
<1>7. CASE begin
  BY <1>1, <1>7 DEF begin, call
<1>8. ASSUME NEW p \in Pages, NEW v \in Values, write(p, v)
      PROVE  FlushedIsWritten'
  BY <1>1, <1>8 DEF write, call
<1>9. CASE FinishCommit
  BY <1>1, <1>9 DEF FinishCommit
<1>10. CASE (\E p \in Pages : FlushFails(p)) \/ SyncFails
  BY <1>1, <1>10 DEF FlushFails, SyncFails
<1>11. CASE rollback
  BY <1>1, <1>11 DEF rollback, call
<1> QED
  BY <1>2, <1>3, <1>4, <1>5, <1>6, <1>7, <1>8, <1>9, <1>10, <1>11 DEF Next, commit

(* What leaves the cache in a transaction and a failed commit has written is *)
(* forgotten; out of a transaction the history drops it.                    *)
LEMMA MissedHistory ==
  ASSUME NEW p \in Pages, GetMiss(p)
  PROVE  /\ p \notin Cached /\ p \in Cached' /\ found' = found
         /\ \A q \in Cached \ Cached' :
              IF in_transaction THEN q \in spilled => q \in forgotten'
                                ELSE q \notin spilled'
         /\ forgotten \subseteq forgotten' /\ spilled' \subseteq spilled
         /\ \A q \in Cached \cap Cached' : q \in spilled => q \in spilled'
         /\ in_transaction => spilled' = spilled
<1>1. PICK rest \in {evict_lru, cache} :
        /\ cache' = Insert(rest, p, ReadFile(disk, p), FALSE)
        /\ IF in_transaction
           THEN /\ forgotten' = forgotten \cup (spilled \cap (Cached \ DOMAIN rest))
                /\ UNCHANGED spilled
           ELSE /\ spilled' = spilled \cap DOMAIN rest
                /\ UNCHANGED forgotten
  BY DEF GetMiss
<1>2. Cached' = DOMAIN rest \cup {p}
  BY <1>1 DEF Insert, Cached
<1>3. p \notin Cached /\ found' = found
  BY DEF GetMiss
<1> QED
  BY <1>1, <1>2, <1>3

LEMMA CleanStep ==
  ASSUME FilesInv, [Next]_vars
  PROVE  CleanPageIsFilePage'
<1> USE DEF FilesInv
<1>2. ASSUME Cached' = {}
      PROVE  CleanPageIsFilePage'
  BY <1>2 DEF CleanPageIsFilePage
<1>3. ASSUME UNCHANGED <<disk, cache>>, spilled \subseteq spilled'
      PROVE  CleanPageIsFilePage'
  BY <1>3 DEF CleanPageIsFilePage, Cached
<1>4. CASE open \/ open_writable \/ Drop \/ Crash \/ PowerLoss
  BY <1>2, <1>4 DEF open, open_writable, Drop, Crash, PowerLoss, NewPager, Cached
<1>5. ASSUME NEW p \in Pages, GetHit(p)
      PROVE  CleanPageIsFilePage'
  BY <1>3, <1>5 DEF GetHit, file, history
<1>6. ASSUME NEW p \in Pages, GetMiss(p)
      PROVE  CleanPageIsFilePage'
  <2>1. disk' = disk
    BY <1>6 DEF GetMiss, file
  <2>2. ASSUME NEW q \in Cached' \ spilled', ~cache'[q].dirty
        PROVE  cache'[q].data = ReadFile(disk, q)
    <3>1. \/ q = p /\ cache'[q].data = ReadFile(disk, p)
          \/ q # p /\ q \in Cached /\ cache'[q] = cache[q]
      BY <1>6, Missed
    <3>2. q \in Cached => q \notin spilled
      BY <1>6, MissedHistory
    <3> QED
      BY <2>2, <3>1, <3>2 DEF CleanPageIsFilePage
  <2> QED
    BY <2>1, <2>2 DEF CleanPageIsFilePage
<1>7. CASE begin
  BY <1>3, <1>7 DEF begin, file
<1>8. ASSUME NEW p \in Pages, NEW v \in Values, write(p, v)
      PROVE  CleanPageIsFilePage'
  <2>1. UNCHANGED <<disk, spilled>>
    BY <1>8 DEF write, file, history
  <2>2. ASSUME NEW q \in Cached', ~cache'[q].dirty
        PROVE  q \in Cached /\ cache'[q] = cache[q]
    BY <1>8, <2>2, Overwritten
  <2> QED
    BY <2>1, <2>2 DEF CleanPageIsFilePage
<1>9. CASE CommitStart
  BY <1>3, <1>9 DEF CommitStart, file, history
<1>10. ASSUME NEW p \in Pages, FlushPage(p)
       PROVE  CleanPageIsFilePage'
  <2>1. UNCHANGED <<cache, Cached, spilled>>
    BY <1>10 DEF FlushPage, Cached, history
  <2>2. ASSUME NEW q \in Cached, ~cache[q].dirty
        PROVE  ReadFile(disk', q) = ReadFile(disk, q)
    <3>1. q \in Pages /\ q # p
      BY <1>10, <2>2, FlushedPage DEF TypeOK, DirtyIsJournaled
    <3> QED
      BY <1>10, <3>1, FlushedPage
  <2> QED
    BY <2>1, <2>2 DEF CleanPageIsFilePage
<1>11. CASE FinishCommit
  <2>1. /\ UNCHANGED <<disk, Cached>> /\ pc = "flush" /\ todo = {}
        /\ spilled' = (spilled \ Flushed) \cap Cached
    BY <1>11 DEF FinishCommit, ClearDirty, Cached
  <2>2. ASSUME NEW q \in Cached \ spilled'
        PROVE  cache[q].data = ReadFile(disk, q)
    BY <2>1, <2>2 DEF CleanPageIsFilePage, FlushedIsWritten, Flushed
  <2>3. \A q \in Cached : cache'[q].data = cache[q].data
    BY <1>11 DEF FinishCommit, ClearDirty, TypeOK, CachedPage, Cached
  <2> QED
    BY <2>1, <2>2, <2>3 DEF CleanPageIsFilePage
<1>12. ASSUME NEW p \in Pages, FlushFails(p)
       PROVE  CleanPageIsFilePage'
  <2>1. /\ UNCHANGED <<cache, Cached>> /\ spilled \subseteq spilled'
        /\ p \in Cached /\ cache[p].dirty
    BY <1>12 DEF FlushFails, Cached, DirtyIsJournaled, TypeOK
  <2>2. ASSUME NEW q \in Cached, ~cache[q].dirty
        PROVE  ReadFile(disk', q) = ReadFile(disk, q)
    <3>1. q \in Pages /\ q # p
      BY <2>1, <2>2 DEF TypeOK
    <3> QED
      BY <1>12, <3>1, FailedPage
  <2> QED
    BY <2>1, <2>2 DEF CleanPageIsFilePage
<1>13. CASE SyncFails
  BY <1>3, <1>13 DEF SyncFails, file
<1>14. CASE rollback
  <2>1. /\ disk' = disk /\ pc = "idle"
        /\ cache' = Replayed /\ Cached' = Cached \cup Journaled
        /\ spilled' = spilled \cap Cached'
    BY <1>14 DEF rollback, file, call, Replayed, Cached
  <2>2. ASSUME NEW q \in Cached', q \notin spilled
        PROVE  cache'[q].data = ReadFile(disk, q)
    <3>1. CASE q \in Journaled
      <4>1. cache'[q].data = Entries[LastEntry(q)].old_data
        BY <2>1, <3>1 DEF Replayed
      <4>2. LastEntry(q) \in DOMAIN Entries /\ Entries[LastEntry(q)].pgno = q
        BY <3>1, LastEntryIsEntry
      <4> QED
        BY <2>1, <2>2, <4>1, <4>2 DEF JournalHoldsPreImage, Flushed
    <3>2. CASE q \notin Journaled
      <4>1. q \in Cached /\ ~cache[q].dirty /\ cache'[q].data = cache[q].data
        BY <2>1, <3>2 DEF Replayed, DirtyIsJournaled
      <4> QED
        BY <2>2, <4>1 DEF CleanPageIsFilePage
    <3> QED
      BY <3>1, <3>2
  <2> QED
    BY <2>1, <2>2 DEF CleanPageIsFilePage
<1>15. CASE UNCHANGED vars
  BY <1>3, <1>15 DEF vars, file, history
<1> QED
  BY <1>4, <1>5, <1>6, <1>7, <1>8, <1>9, <1>10, <1>11, <1>12, <1>13, <1>14, <1>15
  DEF Next, commit

(* A page that write journals is as the transaction found it, and as the    *)
(* file has it: it was not written before, or it was evicted and, no failed *)
(* commit having written it, the file still has what was journaled first.   *)
LEMMA JournaledAsFound ==
  ASSUME FilesInv, NEW p \in Pages, NEW v \in Values, write(p, v),
         ~already_journaled(p)
  PROVE  /\ p \notin spilled => View(p) = ReadFile(disk, p)
         /\ p \notin forgotten => View(p) = found[p]
<1> USE DEF FilesInv
<1>1. p \notin spilled => View(p) = ReadFile(disk, p)
  BY DEF View, CleanPageIsFilePage, already_journaled
<1>2. in_transaction /\ Flushed = {}
  BY DEF write, Flushed
<1>3. ASSUME p \notin forgotten, p \in Journaled
      PROVE  View(p) = found[p]
  <2>1. p \notin spilled
    BY <1>3 DEF SpilledIsDirty, already_journaled
  <2>2. PICK i \in DOMAIN Entries : Entries[i].pgno = p
    BY <1>3 DEF Journaled, EntriesOf
  <2>3. Entries[i].old_data = ReadFile(disk, p) /\ Entries[i].old_data = found[p]
    BY <1>2, <1>3, <2>1, <2>2 DEF JournalHoldsPreImage
  <2> QED
    BY <1>1, <2>1, <2>3
<1> QED
  BY <1>1, <1>2, <1>3 DEF UnwrittenIsFound

LEMMA PreImageStep ==
  ASSUME FilesInv, [Next]_vars
  PROVE  JournalHoldsPreImage'
<1> USE DEF FilesInv
<1>2. ASSUME Entries' = << >>
      PROVE  JournalHoldsPreImage'
  BY <1>2 DEF JournalHoldsPreImage
<1>3. ASSUME UNCHANGED <<disk, journal, found>>, forgotten \subseteq forgotten',
             spilled \cup Flushed \subseteq spilled' \cup Flushed'
      PROVE  JournalHoldsPreImage'
  BY <1>3 DEF JournalHoldsPreImage, Entries
<1>4. CASE open \/ open_writable \/ Drop \/ Crash \/ PowerLoss
  BY <1>2, <1>4 DEF open, open_writable, Drop, Crash, PowerLoss, NewPager, Entries
<1>5. ASSUME NEW p \in Pages, GetHit(p)
      PROVE  JournalHoldsPreImage'
  BY <1>3, <1>5 DEF GetHit, file, txn, call, history, Flushed, Cached
<1>6. ASSUME NEW p \in Pages, GetMiss(p)
      PROVE  JournalHoldsPreImage'
  <2>1. UNCHANGED <<disk, journal, in_transaction>> /\ Flushed = {}
    BY <1>6 DEF GetMiss, file, txn, Flushed
  <2>2. CASE in_transaction
    <3>1. found' = found /\ forgotten \subseteq forgotten' /\ spilled' = spilled
      BY <1>6, <2>2, MissedHistory
    <3> QED
      BY <1>3, <2>1, <3>1
  <2>3. CASE ~in_transaction
    BY <1>2, <2>1, <2>3 DEF TxnFlagsAgree, Entries
  <2> QED
    BY <2>2, <2>3
<1>7. CASE begin
  BY <1>2, <1>7 DEF begin, Entries
<1>8. ASSUME NEW p \in Pages, NEW v \in Values, write(p, v)
      PROVE  JournalHoldsPreImage'
  <2>1. /\ UNCHANGED <<disk, pc, todo, spilled, forgotten, found>> /\ pc = "idle"
        /\ Flushed = {} /\ Flushed' = {}
    BY <1>8 DEF write, file, call, history, Flushed
  <2>2. CASE journal' = journal
    BY <1>3, <2>1, <2>2
  <2>3. CASE journal' # journal
    <3>1. /\ ~already_journaled(p) /\ journal \in Seq(JournalEntry)
          /\ journal' = Append(journal, [pgno |-> p, old_data |-> View(p)])
          /\ journal # NoJournal /\ journal' # NoJournal
      BY <1>8, <2>3, WriteJournal
    <3>2. /\ p \notin spilled => View(p) = ReadFile(disk, p)
          /\ p \notin forgotten => View(p) = found[p]
      BY <1>8, <3>1, JournaledAsFound
    <3>3. /\ Entries = journal /\ Entries' = journal'
          /\ DOMAIN journal = 1 .. Len(journal) /\ Len(journal) \in Nat
          /\ DOMAIN journal' = 1 .. Len(journal) + 1
          /\ \A i \in 1 .. Len(journal) : journal'[i] = journal[i]
          /\ journal'[Len(journal) + 1] = [pgno |-> p, old_data |-> View(p)]
      BY <3>1 DEF Entries
    <3>5. ASSUME NEW i \in DOMAIN journal'
          PROVE  LET e == journal'[i]
                 IN  /\ e.pgno \notin forgotten => e.old_data = found[e.pgno]
                     /\ e.pgno \notin spilled => e.old_data = ReadFile(disk, e.pgno)
      <4>1. CASE i = Len(journal) + 1
        BY <3>2, <3>3, <4>1
      <4>2. CASE i # Len(journal) + 1
        <5>1. i \in 1 .. Len(journal)
          BY <3>3, <4>2
        <5> QED
          BY <2>1, <3>3, <5>1 DEF JournalHoldsPreImage
      <4> QED
        BY <4>1, <4>2
    <3> QED
      BY <2>1, <3>3, <3>5 DEF JournalHoldsPreImage
  <2> QED
    BY <2>2, <2>3
<1>9. CASE CommitStart
  <2>1. UNCHANGED <<disk, journal, spilled, forgotten, found>> /\ Flushed = {}
    BY <1>9 DEF CommitStart, file, txn, history, Flushed
  <2> QED
    BY <1>3, <2>1
<1>10. ASSUME NEW p \in Pages, FlushPage(p)
      PROVE  JournalHoldsPreImage'
  <2>1. /\ UNCHANGED <<journal, spilled, forgotten, found, Entries>>
        /\ Flushed' = Flushed \cup {p}
    BY <1>10 DEF FlushPage, txn, history, Flushed, Cached, Entries, TypeOK,
                 DirtyIsJournaled
  <2>2. \A q \in Pages \ {p} : ReadFile(disk', q) = ReadFile(disk, q)
    BY <1>10, FlushedPage
  <2>3. \A i \in DOMAIN Entries : Entries[i].pgno \in Pages
    BY EntryPages
  <2> QED
    BY <2>1, <2>2, <2>3 DEF JournalHoldsPreImage
<1>11. CASE FinishCommit
  BY <1>2, <1>11 DEF FinishCommit, EndTxn, Entries
<1>12. ASSUME NEW p \in Pages, FlushFails(p)
       PROVE  JournalHoldsPreImage'
  <2>1. /\ UNCHANGED <<journal, forgotten, found, Entries>>
        /\ spilled \cup Flushed \subseteq spilled'
        /\ disk' = disk \/ p \in spilled'
    BY <1>12 DEF FlushFails, txn, Entries
  <2>2. \A q \in Pages \ {p} : ReadFile(disk', q) = ReadFile(disk, q)
    BY <1>12, FailedPage
  <2>3. \A i \in DOMAIN Entries : Entries[i].pgno \in Pages
    BY EntryPages
  <2> QED
    BY <2>1, <2>2, <2>3 DEF JournalHoldsPreImage
<1>13. CASE SyncFails
  BY <1>3, <1>13 DEF SyncFails, file, txn
<1>14. CASE rollback
  BY <1>2, <1>14 DEF rollback, EndTxn, Entries
<1>15. CASE UNCHANGED vars
  BY <1>3, <1>15 DEF vars, file, txn, call, history, Flushed, Cached
<1> QED
  BY <1>4, <1>5, <1>6, <1>7, <1>8, <1>9, <1>10, <1>11, <1>12, <1>13, <1>14, <1>15
  DEF Next, commit

LEMMA UnwrittenStep ==
  ASSUME FilesInv, [Next]_vars
  PROVE  UnwrittenIsFound'
<1> USE DEF FilesInv
<1>1. ASSUME ~in_transaction'
      PROVE  UnwrittenIsFound'
  BY <1>1 DEF UnwrittenIsFound
<1>2. ASSUME UNCHANGED <<disk, cache, journal, forgotten, found, in_transaction>>
      PROVE  UnwrittenIsFound'
  BY <1>2, JournaledUnchanged DEF UnwrittenIsFound, View, Cached
<1>3. CASE open \/ open_writable \/ Drop \/ Crash \/ PowerLoss
  BY <1>1, <1>3 DEF open, open_writable, Drop, Crash, PowerLoss, NewPager
<1>4. ASSUME NEW p \in Pages, GetHit(p)
      PROVE  UnwrittenIsFound'
  BY <1>2, <1>4 DEF GetHit, file, txn, history
<1>5. ASSUME NEW p \in Pages, GetMiss(p), in_transaction
      PROVE  UnwrittenIsFound'
  <2>1. UNCHANGED <<disk, journal, in_transaction, Journaled>>
    BY <1>5, JournaledUnchanged DEF GetMiss, file, txn
  <2>2. ASSUME NEW q \in Pages \ (Journaled \cup forgotten')
        PROVE  View(q)' = View(q)
    <3>1. CASE q \in Cached \ Cached'
      <4>1. q \notin spilled
        BY <1>5, <2>2, <3>1, MissedHistory
      <4> QED
        BY <2>1, <2>2, <3>1, <4>1 DEF View, CleanPageIsFilePage, DirtyIsJournaled
    <3>2. CASE q \in Cached /\ q \in Cached'
      <4>1. cache'[q] = cache[q]
        BY <1>5, <3>2, Missed, MissedHistory
      <4> QED
        BY <3>2, <4>1 DEF View
    <3>3. CASE q \notin Cached
      BY <1>5, <2>1, <3>3, Missed DEF View
    <3> QED
      BY <3>1, <3>2, <3>3
  <2>3. found' = found /\ forgotten \subseteq forgotten'
    BY <1>5, MissedHistory
  <2> QED
    BY <1>5, <2>1, <2>2, <2>3 DEF UnwrittenIsFound
<1>6. ASSUME NEW p \in Pages, GetMiss(p), ~in_transaction
      PROVE  UnwrittenIsFound'
  BY <1>1, <1>6 DEF GetMiss, txn
<1>7. CASE begin
  <2>1. UNCHANGED <<disk, cache>> /\ found' = [p \in Pages |-> View(p)]
    BY <1>7 DEF begin, file
  <2> QED
    BY <2>1 DEF UnwrittenIsFound, View, Cached
<1>8. ASSUME NEW p \in Pages, NEW v \in Values, write(p, v)
      PROVE  UnwrittenIsFound'
  <2>1. /\ UNCHANGED <<disk, forgotten, found>> /\ in_transaction
        /\ journal # NoJournal
    BY <1>8 DEF write, file, history, TxnFlagsAgree
  <2>2. Journaled \subseteq Journaled' /\ p \in Journaled'
    <3>1. Journaled \subseteq Journaled' /\ (already_journaled(p) \/ p \in Journaled')
      BY <1>8, <2>1, JournaledAfterWrite
    <3> QED
      BY <3>1 DEF already_journaled, DirtyIsJournaled
  <2>3. \A q \in Pages \ {p} : View(q)' = View(q)
    BY <1>8, <2>1, Overwritten DEF View
  <2> QED
    BY <2>1, <2>2, <2>3 DEF UnwrittenIsFound
<1>9. CASE CommitStart
  BY <1>2, <1>9 DEF CommitStart, file, txn, history
<1>10. ASSUME NEW p \in Pages, FlushPage(p) \/ FlushFails(p)
       PROVE  UnwrittenIsFound'
  <2>1. /\ UNCHANGED <<cache, Cached, journal, forgotten, found, in_transaction>>
        /\ p \in Journaled
    BY <1>10 DEF FlushPage, FlushFails, txn, history, Cached, DirtyIsJournaled, TypeOK
  <2>2. \A q \in Pages \ {p} : ReadFile(disk', q) = ReadFile(disk, q)
    BY <1>10, FlushedPage, FailedPage
  <2>3. Journaled' = Journaled
    BY <2>1, JournaledUnchanged
  <2> QED
    BY <2>1, <2>2, <2>3 DEF UnwrittenIsFound, View
<1>11. CASE FinishCommit
  BY <1>1, <1>11 DEF FinishCommit, EndTxn
<1>12. CASE SyncFails
  BY <1>2, <1>12 DEF SyncFails, file, txn
<1>13. CASE rollback
  BY <1>1, <1>13 DEF rollback, EndTxn
<1>14. CASE UNCHANGED vars
  BY <1>2, <1>14 DEF vars, file, txn, history
<1> QED
  BY <1>3, <1>4, <1>5, <1>6, <1>7, <1>8, <1>9, <1>10, <1>11, <1>12, <1>13, <1>14
  DEF Next, commit

LEMMA SpilledStep ==
  ASSUME FilesInv, [Next]_vars
  PROVE  SpilledIsDirty'
<1> USE DEF FilesInv
<1>1. ASSUME Entries' = << >>
      PROVE  SpilledIsDirty'
  BY <1>1 DEF SpilledIsDirty, Journaled, EntriesOf
<1>2. ASSUME UNCHANGED <<cache, journal, forgotten>>,
             \A q \in spilled' \ spilled : q \in Cached /\ cache[q].dirty
      PROVE  SpilledIsDirty'
  BY <1>2, JournaledUnchanged DEF SpilledIsDirty, Cached
<1>3. CASE open \/ open_writable \/ Drop \/ Crash \/ PowerLoss
  BY <1>1, <1>3 DEF open, open_writable, Drop, Crash, PowerLoss, NewPager, Entries
<1>4. ASSUME NEW p \in Pages, GetHit(p)
      PROVE  SpilledIsDirty'
  BY <1>2, <1>4 DEF GetHit, txn, history
<1>5. ASSUME NEW p \in Pages, GetMiss(p), in_transaction
      PROVE  SpilledIsDirty'
  <2>1. Journaled' = Journaled /\ spilled' = spilled /\ forgotten \subseteq forgotten'
    BY <1>5, JournaledUnchanged, MissedHistory DEF GetMiss, txn
  <2>2. ASSUME NEW q \in Journaled \cap spilled, q \notin forgotten'
        PROVE  q \in Cached' /\ cache'[q].dirty
    <3>1. q \in Cached /\ cache[q].dirty
      BY <2>1, <2>2 DEF SpilledIsDirty
    <3>2. q \in Cached'
      BY <1>5, <2>2, <3>1, MissedHistory
    <3>3. q # p
      BY <1>5, <3>1, MissedHistory
    <3>4. cache'[q] = cache[q]
      BY <1>5, <3>2, <3>3, Missed
    <3> QED
      BY <3>1, <3>2, <3>4
  <2> QED
    BY <2>1, <2>2 DEF SpilledIsDirty
<1>6. ASSUME NEW p \in Pages, GetMiss(p), ~in_transaction
      PROVE  SpilledIsDirty'
  BY <1>1, <1>6 DEF GetMiss, txn, TxnFlagsAgree, Entries
<1>7. CASE begin
  BY <1>1, <1>7 DEF begin, Entries
<1>8. ASSUME NEW p \in Pages, NEW v \in Values, write(p, v)
      PROVE  SpilledIsDirty'
  <2>1. UNCHANGED <<spilled, forgotten>>
    BY <1>8 DEF write, history
  <2>2. Journaled' \subseteq Journaled \cup {p}
    BY <1>8, JournaledByWrite
  <2>3. ASSUME NEW q \in Journaled' \cap spilled, q \notin forgotten
        PROVE  q \in Cached' /\ cache'[q].dirty
    <3>1. CASE q = p
      BY <1>8, <3>1, Overwritten
    <3>2. CASE q # p
      <4>1. q \in Cached /\ cache[q].dirty
        BY <2>2, <2>3, <3>2 DEF SpilledIsDirty
      <4> QED
        BY <1>8, <3>2, <4>1, Overwritten
    <3> QED
      BY <3>1, <3>2
  <2> QED
    BY <2>1, <2>3 DEF SpilledIsDirty
<1>9. CASE CommitStart
  BY <1>2, <1>9 DEF CommitStart, txn, history
<1>10. ASSUME NEW p \in Pages, FlushPage(p)
       PROVE  SpilledIsDirty'
  BY <1>2, <1>10 DEF FlushPage, txn, history
<1>11. ASSUME NEW p \in Pages, FlushFails(p)
       PROVE  SpilledIsDirty'
  <2>1. UNCHANGED <<cache, journal, forgotten>>
    BY <1>11 DEF FlushFails, txn
  <2>2. spilled' \ spilled \subseteq Flushed \cup {p} /\ p \in Cached /\ cache[p].dirty
    BY <1>11 DEF FlushFails, TypeOK, DirtyIsJournaled
  <2> QED
    BY <1>2, <2>1, <2>2 DEF Flushed
<1>12. CASE FinishCommit
  BY <1>1, <1>12 DEF FinishCommit, EndTxn, Entries
<1>13. CASE SyncFails
  BY <1>2, <1>13 DEF SyncFails, txn, Flushed
<1>14. CASE rollback
  BY <1>1, <1>14 DEF rollback, EndTxn, Entries
<1>15. CASE UNCHANGED vars
  BY <1>2, <1>15 DEF vars, txn, history
<1> QED
  BY <1>3, <1>4, <1>5, <1>6, <1>7, <1>8, <1>9, <1>10, <1>11, <1>12, <1>13, <1>14, <1>15
  DEF Next, commit

LEMMA FilesInvariant == Spec => []FilesInv
<1>1. Init => WrittenWithinDb /\ FlushedIsWritten /\ CleanPageIsFilePage
                /\ JournalHoldsPreImage /\ UnwrittenIsFound /\ SpilledIsDirty
  BY DEF Init, WrittenWithinDb, FlushedIsWritten, CleanPageIsFilePage,
         JournalHoldsPreImage, UnwrittenIsFound, SpilledIsDirty, Entries, Cached
<1>2. TypeOK /\ TxnFlagsAgree /\ DirtyIsJournaled /\ WrittenWithinDb /\ FlushedIsWritten
        /\ CleanPageIsFilePage /\ JournalHoldsPreImage /\ UnwrittenIsFound
        /\ SpilledIsDirty /\ [Next]_vars
      => WrittenWithinDb' /\ FlushedIsWritten' /\ CleanPageIsFilePage'
           /\ JournalHoldsPreImage' /\ UnwrittenIsFound' /\ SpilledIsDirty'
  BY WithinDbStep, FlushedStep, CleanStep, PreImageStep, UnwrittenStep, SpilledStep
  DEF FilesInv
<1>3. FilesInv <=> /\ TypeOK /\ TxnFlagsAgree /\ DirtyIsJournaled
                   /\ WrittenWithinDb /\ FlushedIsWritten
                   /\ CleanPageIsFilePage /\ JournalHoldsPreImage
                   /\ UnwrittenIsFound /\ SpilledIsDirty
  BY DEF FilesInv
<1> QED
  BY <1>1, <1>2, <1>3, TypeCorrect, TxnFlags, DirtyJournaled, PTL DEF Spec

(* Every journal entry of a page is the page as the transaction found it,   *)
(* unless a failed commit has written the page and it was evicted since;    *)
(* and what neither a failed commit nor the commit under way has written    *)
(* the file still holds: wherever writes and syncs fail.                    *)
THEOREM JournalPreImage == Spec => []JournalHoldsPreImage
<1>1. FilesInv => JournalHoldsPreImage
  BY DEF FilesInv
<1> QED
  BY <1>1, FilesInvariant, PTL

(* A clean page of the cache is the file's, unless a failed commit has      *)
(* written the page, and no page of the file lies beyond db_size, even      *)
(* after a torn write.                                                      *)
THEOREM FileAndCache == Spec => []FileAndCacheAgree
<1>1. FilesInv => FileAndCacheAgree
  BY DEF FilesInv, FileAndCacheAgree, WrittenWithinDb, FileWithinDb
<1> QED
  BY <1>1, FilesInvariant, PTL

LEMMA RollbackReads ==
  ASSUME FilesInv, rollback, NEW p \in Pages \ forgotten
  PROVE  View(p)' = found[p]
<1> USE DEF FilesInv
<1>1. /\ in_transaction /\ disk' = disk
      /\ cache' = Replayed /\ Cached' = Cached \cup Journaled
  BY DEF rollback, file, Replayed, Cached
<1>2. CASE p \in Journaled
  <2>1. LastEntry(p) \in DOMAIN Entries /\ Entries[LastEntry(p)].pgno = p
    BY <1>2, LastEntryIsEntry
  <2>2. View(p)' = Entries[LastEntry(p)].old_data
    BY <1>1, <1>2 DEF View, Replayed
  <2> QED
    BY <2>1, <2>2 DEF JournalHoldsPreImage
<1>3. CASE p \notin Journaled
  <2>1. View(p)' = View(p)
    BY <1>1, <1>3 DEF View, Replayed
  <2> QED
    BY <1>1, <1>3, <2>1 DEF UnwrittenIsFound
<1> QED
  BY <1>2, <1>3

(* After rollback every page reads as when the transaction began, also the  *)
(* pages that a failed commit of it has written, unless evicted since.      *)
THEOREM Rollback == Spec => RollbackRestores
<1>1. FilesInv /\ [Next]_vars
      => [rollback => \A p \in Pages \ forgotten : View(p)' = found[p]]_vars
  BY RollbackReads
<1> QED
  BY <1>1, FilesInvariant, PTL DEF Spec, RollbackRestores

(* When commit returns OK, every page it found dirty is on the medium, also *)
(* when an earlier commit of the transaction failed and tore some of them.  *)
THEOREM Commit == Spec => CommitIsDurable
<1>1. FilesInv /\ [Next]_vars
      => [FinishCommit => \A p \in Cached :
            cache[p].dirty => ReadFile(durable', p) = cache[p].data]_vars
  BY DEF FilesInv, FlushedIsWritten, FinishCommit, Sync
<1> QED
  BY <1>1, FilesInvariant, PTL DEF Spec, CommitIsDurable
-----------------------------------------------------------------------------
(* The pager is an atomic store, as long as no dirty page is evicted (the   *)
(* cache has room for every page), no write or sync fails and the process   *)
(* does not die inside commit.  pager_evict_violation shows what a smaller  *)
(* cache does; a commit that fails or dies half-way is not atomic because   *)
(* the journal is in memory only.                                           *)

RoomAndNoFaults ==
  /\ MaxCache >= MaxPgno
  /\ CrashPhases \subseteq {"idle"}
  /\ ~IoFaults

(* No commit has failed, and between commits the medium has what the        *)
(* operating system has.                                                    *)
Synced == spilled = {} /\ (pc = "idle" => durable = disk)

(* Outside commit the file still holds what the transaction found.          *)
PreImagesOnFile ==
  spilled = {} /\ pc = "idle" => \A p \in Pages : Original(p) = ReadFile(disk, p)

LEMMA OriginalOnFile ==
  ASSUME FilesInv
  PROVE  PreImagesOnFile
<1> USE DEF FilesInv
<1> SUFFICES ASSUME spilled = {}, pc = "idle", NEW p \in Pages
             PROVE  Original(p) = ReadFile(disk, p)
  BY DEF PreImagesOnFile
<1>1. CASE p \in Journaled
  <2> DEFINE first == CHOOSE i \in EntriesOf(p) : \A j \in EntriesOf(p) : i <= j
  <2>1. first \in DOMAIN Entries /\ Entries[first].pgno = p
    BY <1>1, FirstEntryIsEntry
  <2>2. Original(p) = Entries[first].old_data
    BY <1>1 DEF Original
  <2> QED
    BY <2>1, <2>2 DEF JournalHoldsPreImage, Flushed
<1>2. CASE p \notin Journaled
  BY <1>2 DEF Original
<1> QED
  BY <1>1, <1>2

LEMMA OriginalIsFound ==
  ASSUME FilesInv, in_transaction, spilled = {}, NEW p \in Pages
  PROVE  Original(p) = found[p]
<1> USE DEF FilesInv
<1>1. forgotten = {}
  BY DEF TypeOK
<1>2. CASE p \in Journaled
  <2> DEFINE first == CHOOSE i \in EntriesOf(p) : \A j \in EntriesOf(p) : i <= j
  <2>1. first \in DOMAIN Entries /\ Entries[first].pgno = p
    BY <1>2, FirstEntryIsEntry
  <2>2. Original(p) = Entries[first].old_data
    BY <1>2 DEF Original
  <2> QED
    BY <1>1, <2>1, <2>2 DEF JournalHoldsPreImage
<1>3. CASE p \notin Journaled
  <2>1. View(p) = found[p]
    BY <1>1, <1>3 DEF UnwrittenIsFound
  <2>2. View(p) = ReadFile(disk, p)
    BY <1>3 DEF View, CleanPageIsFilePage, DirtyIsJournaled
  <2> QED
    BY <1>3, <2>1, <2>2 DEF Original
<1> QED
  BY <1>2, <1>3

StoreInv == FilesInv /\ PreImagesOnFile /\ Synced

LEMMA NothingIsLost ==
  ASSUME TypeOK, durable = disk, NEW kept \in SUBSET Unsynced
  PROVE  Survives(kept) = disk
<1>1. Unsynced = {}
  BY DEF TypeOK, Unsynced
<1>2. Survives(kept) = [p \in 1 .. Len(disk) |-> ReadFile(disk, p)]
  <2>1. {Len(durable)} \cup kept = {Len(disk)} /\ Len(disk) \in Nat
    BY <1>1 DEF TypeOK
  <2>2. (CHOOSE n \in {Len(disk)} : \A m \in {Len(disk)} : m <= n) = Len(disk)
    BY <2>1
  <2> QED
    BY <1>1, <2>1, <2>2 DEF Survives
<1>3. \A p \in 1 .. Len(disk) : ReadFile(disk, p) = disk[p]
  BY DEF ReadFile, TypeOK
<1> QED
  BY <1>2, <1>3 DEF TypeOK

LEMMA SyncedStep ==
  ASSUME RoomAndNoFaults, TypeOK, TxnFlagsAgree, Synced, [Next]_vars
  PROVE  Synced'
<1>1. CASE open \/ open_writable \/ Drop \/ Crash
  <2>1. pc # "flush"
    BY <1>1 DEF open, open_writable, Drop, Crash, TxnFlagsAgree, RoomAndNoFaults
  <2> QED
    BY <1>1, <2>1 DEF open, open_writable, Drop, Crash, NewPager, file, Synced, TypeOK
<1>2. CASE PowerLoss
  BY <1>2 DEF PowerLoss, NewPager, Synced
<1>3. ASSUME NEW p \in Pages, GetHit(p) \/ GetMiss(p)
      PROVE  Synced'
  <2>1. UNCHANGED <<file, call>> /\ (spilled = {} => spilled' = {})
    BY <1>3 DEF GetHit, GetMiss, history
  <2> QED
    BY <2>1 DEF file, call, Synced
<1>4. CASE begin
  BY <1>4 DEF begin, file, call, Synced
<1>5. ASSUME NEW p \in Pages, NEW v \in Values, write(p, v)
      PROVE  Synced'
  BY <1>5 DEF write, file, call, history, Synced
<1>6. CASE CommitStart
  BY <1>6 DEF CommitStart, history, Synced
<1>7. ASSUME NEW p \in Pages, FlushPage(p)
      PROVE  Synced'
  BY <1>7 DEF FlushPage, history, Synced
<1>8. CASE FinishCommit
  BY <1>8 DEF FinishCommit, Sync, Synced
<1>9. CASE (\E p \in Pages : FlushFails(p)) \/ SyncFails
  BY <1>9 DEF FlushFails, SyncFails, RoomAndNoFaults
<1>10. CASE rollback
  BY <1>10 DEF rollback, file, call, Synced
<1>11. CASE UNCHANGED vars
  BY <1>11 DEF vars, file, call, history, Synced
<1> QED
  BY <1>1, <1>2, <1>3, <1>4, <1>5, <1>6, <1>7, <1>8, <1>9, <1>10, <1>11 DEF Next, commit

(* With room for every page a get that misses evicts nothing.               *)
LEMMA MissKeeps ==
  ASSUME RoomAndNoFaults, TypeOK, NEW p \in Pages, GetMiss(p)
  PROVE  cache' = Insert(cache, p, ReadFile(disk, p), FALSE)
<1>1. Cached \subseteq Pages \ {p}
  BY DEF GetMiss, TypeOK
<1>2. IsFiniteSet(Pages) /\ Cardinality(Pages) = MaxPgno
  BY FS_Interval, PagerAssumption DEF Pages
<1>3. IsFiniteSet(Pages \ {p}) /\ Cardinality(Pages \ {p}) = MaxPgno - 1
  BY <1>2, FS_RemoveElement
<1>4. Cardinality(Cached) <= MaxPgno - 1 /\ Cardinality(Cached) \in Nat
  BY <1>1, <1>3, FS_Subset, FS_CardinalityType
<1>5. ~(Cardinality(Cached) >= MaxCache)
  BY <1>4, PagerAssumption DEF RoomAndNoFaults
<1> QED
  BY <1>5 DEF GetMiss


LEMMA StoreStep ==
  ASSUME RoomAndNoFaults, StoreInv, StoreInv', [Next]_vars
  PROVE  [Store!Next]_Store!vars
<1> DEFINE KeepsCommitted == \A q \in Pages : Original(q)' = Original(q)
           KeepsCurrent   == \A q \in Pages : View(q)' = View(q)
<1> USE DEF StoreInv, FilesInv
<1>1. ASSUME pc = "idle", pc' = "idle", disk' = disk
      PROVE  KeepsCommitted
  BY <1>1 DEF Synced, PreImagesOnFile
<1>2. ASSUME UNCHANGED <<cache, disk>>
      PROVE  KeepsCurrent
  BY <1>2 DEF View, Cached
<1>3. ASSUME KeepsCommitted, KeepsCurrent, in_transaction' = in_transaction
      PROVE  UNCHANGED Store!vars
  BY <1>3 DEF Store!vars
<1>4. ASSUME KeepsCommitted, \A q \in Pages : View(q)' = Original(q), ~in_transaction'
      PROVE  Store!Abandon
  BY <1>4 DEF Store!Abandon, TypeOK
<1>5. CASE open \/ open_writable \/ Drop \/ Crash \/ PowerLoss
  <2>1. pc = "idle" /\ pc' = "idle" /\ ~in_transaction' /\ Cached' = {}
    BY <1>5 DEF open, open_writable, Drop, Crash, PowerLoss, NewPager, Cached,
                TypeOK, TxnFlagsAgree, RoomAndNoFaults
  <2>2. disk' = disk
    <3>1. CASE open \/ open_writable \/ Drop \/ Crash
      BY <3>1 DEF open, open_writable, Drop, Crash, file
    <3>2. CASE PowerLoss
      BY <2>1, <3>2, NothingIsLost DEF PowerLoss, Synced
    <3> QED
      BY <1>5, <3>1, <3>2
  <2>3. KeepsCommitted
    BY <1>1, <2>1, <2>2
  <2>4. \A q \in Pages : View(q)' = Original(q)
    BY <2>1, <2>2 DEF View, Synced, PreImagesOnFile
  <2> QED
    BY <1>4, <2>1, <2>3, <2>4 DEF Store!Next
<1>6. ASSUME NEW p \in Pages, GetHit(p)
      PROVE  UNCHANGED Store!vars
  BY <1>1, <1>2, <1>3, <1>6 DEF GetHit, file, txn, call
<1>7. ASSUME NEW p \in Pages, GetMiss(p)
      PROVE  UNCHANGED Store!vars
  <2>1. UNCHANGED <<disk, pc, in_transaction>> /\ pc = "idle" /\ p \notin Cached
    BY <1>7 DEF GetMiss, file, txn, call
  <2>2. cache' = Insert(cache, p, ReadFile(disk, p), FALSE)
    BY <1>7, MissKeeps
  <2>3. KeepsCurrent
    BY <2>1, <2>2 DEF View, Insert, Cached
  <2> QED
    BY <1>1, <1>3, <2>1, <2>3
<1>8. CASE begin
  <2>1. UNCHANGED <<disk, cache, pc>> /\ pc = "idle" /\ ~in_transaction /\ in_transaction'
    BY <1>8 DEF begin, file, call
  <2>2. KeepsCommitted /\ KeepsCurrent
    BY <1>1, <1>2, <2>1
  <2> QED
    BY <2>1, <2>2 DEF Store!Next, Store!Begin, TypeOK
<1>9. ASSUME NEW p \in Pages, NEW v \in Values, write(p, v)
      PROVE  Store!Next
  <2>1. UNCHANGED <<disk, pc, in_transaction>> /\ pc = "idle" /\ in_transaction
    BY <1>9 DEF write, file, call
  <2>2. KeepsCommitted
    BY <1>1, <2>1
  <2>3. \A q \in Pages : View(q)' = IF q = p THEN v ELSE View(q)
    BY <1>9, <2>1, Overwritten DEF View
  <2>4. Store!Write(p, v)
    BY <2>1, <2>2, <2>3 DEF Store!Write
  <2> QED
    BY <2>4 DEF Store!Next
<1>10. CASE CommitStart
  <2>1. UNCHANGED <<disk, cache, journal, in_transaction>>
    BY <1>10 DEF CommitStart, file, txn
  <2>2. KeepsCommitted
    BY <2>1 DEF Original, Journaled, EntriesOf, Entries
  <2> QED
    BY <1>2, <1>3, <2>1, <2>2
<1>11. ASSUME NEW p \in Pages, FlushPage(p)
       PROVE  UNCHANGED Store!vars
  <2>1. UNCHANGED <<cache, Cached, journal, in_transaction>>
    BY <1>11 DEF FlushPage, txn, Cached
  <2>2. p \in Cached /\ p \in Journaled
    BY <1>11, FlushedPage DEF DirtyIsJournaled
  <2>3. \A q \in Pages \ {p} : ReadFile(disk', q) = ReadFile(disk, q)
    BY <1>11, FlushedPage
  <2>4. KeepsCurrent
    BY <2>1, <2>2, <2>3 DEF View
  <2>5. KeepsCommitted
    <3>1. ASSUME NEW q \in Journaled
          PROVE  Original(q)' = Original(q)
      BY <2>1 DEF Original, Journaled, EntriesOf, Entries
    <3>2. ASSUME NEW q \in Pages \ Journaled
          PROVE  Original(q)' = Original(q)
      <4>1. q \notin Journaled'
        BY <2>1, JournaledUnchanged
      <4> QED
        BY <2>2, <2>3, <4>1 DEF Original
    <3> QED
      BY <3>1, <3>2
  <2> QED
    BY <1>3, <2>1, <2>4, <2>5
<1>12. CASE FinishCommit
  <2>1. /\ disk' = disk /\ in_transaction /\ ~in_transaction' /\ pc = "flush" /\ todo = {}
        /\ pc' = "idle" /\ cache' = ClearDirty(cache) /\ Cached' = Cached
    BY <1>12 DEF FinishCommit, EndTxn, ClearDirty, Cached, TxnFlagsAgree
  <2>2. KeepsCurrent
    BY <2>1 DEF View, ClearDirty, TypeOK, CachedPage, Cached
  <2>3. \A q \in Pages : View(q) = ReadFile(disk, q)
    BY <2>1 DEF View, Synced, CleanPageIsFilePage, FlushedIsWritten
  <2>4. \A q \in Pages : Original(q)' = View(q)
    BY <2>1, <2>3 DEF Synced, PreImagesOnFile
  <2>5. Store!Commit
    BY <2>1, <2>2, <2>4 DEF Store!Commit, TypeOK
  <2> QED
    BY <2>5 DEF Store!Next
<1>13. CASE (\E p \in Pages : FlushFails(p)) \/ SyncFails
  BY <1>13 DEF FlushFails, SyncFails, RoomAndNoFaults
<1>14. CASE rollback
  <2>1. UNCHANGED <<disk, pc>> /\ pc = "idle" /\ ~in_transaction'
    BY <1>14 DEF rollback, file, call, EndTxn
  <2>2. \A q \in Pages : View(q)' = Original(q)
    BY <1>14, RollbackReads, OriginalIsFound DEF Synced, rollback, TypeOK
  <2> QED
    BY <1>1, <1>4, <2>1, <2>2 DEF Store!Next
<1>15. CASE UNCHANGED vars
  <2>1. UNCHANGED <<disk, cache, journal, in_transaction>>
    BY <1>15 DEF vars, file, txn
  <2>2. KeepsCommitted
    BY <2>1 DEF Original, Journaled, EntriesOf, Entries
  <2> QED
    BY <1>2, <1>3, <2>1, <2>2
<1> QED
  BY <1>5, <1>6, <1>7, <1>8, <1>9, <1>10, <1>11, <1>12, <1>13, <1>14, <1>15
  DEF Next, commit

(* The pager implements the atomic store of module PagedStore: every call   *)
(* is one step of the store or none, a transaction takes effect as a whole  *)
(* at the end of commit, and at rollback, at drop and at a crash or power   *)
(* loss between calls the store is as before it.                            *)
THEOREM Refinement ==
  ASSUME RoomAndNoFaults
  PROVE  Spec => ImplementsPagedStore
<1>1. Init => Store!Init
  <2> SUFFICES ASSUME Init PROVE Store!Init
    OBVIOUS
  <2>1. PICK n \in 0 .. MaxPgno : disk \in [1 .. n -> Values]
    BY DEF Init
  <2>2. Cached = {} /\ Entries = << >> /\ ~in_transaction
    BY DEF Init, Cached, Entries
  <2>3. \A p \in Pages : Original(p) = ReadFile(disk, p) /\ View(p) = ReadFile(disk, p)
    BY <2>2 DEF Original, View, Journaled, EntriesOf
  <2>4. n \in Nat /\ Len(disk) = n
    BY <2>1, PagerAssumption
  <2>5. \A p \in Pages : ReadFile(disk, p) \in Values
    BY <2>1, <2>4, PagerAssumption DEF ReadFile, Pages
  <2> QED
    BY <2>2, <2>3, <2>5 DEF Store!Init, Init
<1>2. Init => Synced
  BY DEF Init, Synced
<1>3. FilesInv /\ Synced /\ [Next]_vars => Synced'
  BY SyncedStep DEF FilesInv
<1>4. FilesInv => PreImagesOnFile
  BY OriginalOnFile
<1>5. FilesInv /\ PreImagesOnFile /\ Synced <=> StoreInv
  BY DEF StoreInv
<1>6. StoreInv /\ StoreInv' /\ [Next]_vars => [Store!Next]_Store!vars
  BY StoreStep
<1> QED
  BY <1>1, <1>2, <1>3, <1>4, <1>5, <1>6, FilesInvariant, PTL
  DEF Spec, ImplementsPagedStore, Store!Spec
=============================================================================
