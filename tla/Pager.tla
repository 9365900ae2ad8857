------------------------------- MODULE Pager -------------------------------
(***************************************************************************)
(* The page cache and rollback journal of rust-port/src/pager/mod.rs over  *)
(* one database file of rust-port/src/vfs/unix.rs.                         *)
(*                                                                         *)
(* Every call of the pager is one action, except commit: its loop of file  *)
(* writes and the sync after it are steps of their own (CommitStart,       *)
(* FlushPage, FinishCommit), because the process may die and the file may  *)
(* fail between any two of them.  A page's bytes are one value.  Calls     *)
(* that return an error before changing anything are disabled here.  The   *)
(* fields hits, misses, n_rec, journal_has_data and path are never read by *)
(* the pager (n_rec is the length of the journal) and are left out.        *)
(*                                                                         *)
(* A definition named X_Variant is X with a plausible mistake in it.  The  *)
(* specification does not use it: it takes the place of X to show that a   *)
(* property does notice the mistake.                                       *)
(***************************************************************************)
EXTENDS Integers, FiniteSets, Sequences

CONSTANTS
  MaxPgno,      \* bound: the largest page number a client writes
  Values,       \* contents of a page, of which Zero is the all-zero page
  Zero,
  Torn,         \* the content of a page whose write failed half-way
  MaxCache,     \* max_cache
  NoJournal,    \* journal == None
  MaxJournal,   \* bound: journal entries in one transaction
  CrashPhases,  \* the values of pc at which the process or the machine dies
  IoFaults      \* TRUE iff a write or sync of the file may fail

ASSUME PagerAssumption ==
  /\ MaxPgno \in Nat \ {0}
  /\ Zero \in Values
  /\ Torn \notin Values
  /\ MaxCache \in Nat
  /\ MaxJournal \in Nat
  /\ CrashPhases \subseteq {"idle", "flush"}
  /\ IoFaults \in BOOLEAN

VARIABLES
  disk,     \* the file as the operating system shows it: one content a page
  durable,  \* the file as the last sync left it on the medium
  mode,     \* "closed" without a Pager, "readonly", "writable"
  db_size, cache, state, journal, in_transaction,
  recency,  \* {<<p, q>> : cached p has a smaller last_access than cached q}
  pc,       \* "idle" between calls, "flush" inside commit
  todo,     \* the pages commit has collected and not written yet
  spilled,   \* history: pages a commit that failed has written or torn, while
             \* the transaction or the cache may still hold what they were
  forgotten, \* history: those of them the open transaction has had evicted
  found      \* history: what a get of each page gave when it began

file == <<disk, durable>>
txn == <<state, journal, in_transaction>>
call == <<pc, todo>>
history == <<spilled, forgotten, found>>
vars == <<file, mode, db_size, cache, recency, txn, call, history>>

Pages == 1 .. MaxPgno
Contents == Values \cup {Torn}
CachedPage == [data : Contents, dirty : BOOLEAN]
JournalEntry == [pgno : Pages, old_data : Contents]

ASSUME NoJournalAssumption == NoJournal \notin Seq(JournalEntry)

Cached == DOMAIN cache
Larger(m, n) == IF m < n THEN n ELSE m

-----------------------------------------------------------------------------
(* The file: a read past the end is zero-padded, a write past it extends.  *)

ReadFile(f, p) == IF p <= Len(f) THEN f[p] ELSE Zero

WriteFile(f, p, c) ==
  [q \in 1 .. Larger(Len(f), p) |-> IF q = p THEN c ELSE ReadFile(f, q)]

Unsynced == {p \in 1 .. Len(disk) : p > Len(durable) \/ disk[p] # durable[p]}

(* The medium after power is lost with the writes of the pages in kept.    *)
Survives(kept) ==
  LET size == CHOOSE n \in {Len(durable)} \cup kept :
                \A m \in {Len(durable)} \cup kept : m <= n
  IN  [p \in 1 .. size |-> IF p \in kept THEN disk[p] ELSE ReadFile(durable, p)]

(* The cache: a fresh entry for p, and the order of last accesses after it. *)

Insert(c, p, data, dirty) ==
  [q \in DOMAIN c \cup {p} |-> IF q = p THEN [data |-> data, dirty |-> dirty]
                                        ELSE c[q]]

Touch(order, pages, p) ==
  {e \in order : e[1] \in pages \ {p} /\ e[2] \in pages \ {p}}
    \cup ((pages \ {p}) \X {p})

(* evict_lru: the cache without the page that was accessed least recently.  *)
evict_lru ==
  LET victim == CHOOSE p \in Cached : \A q \in Cached : <<q, p>> \notin recency
  IN  [p \in Cached \ {victim} |-> cache[p]]

ClearDirty(c) == [p \in DOMAIN c |-> [c[p] EXCEPT !.dirty = FALSE]]

(* The journal: None holds no entry; a later entry of a page replaces an    *)
(* earlier one when the journal is replayed.                                *)

Entries == IF journal = NoJournal THEN << >> ELSE journal
EntriesOf(p) == {i \in DOMAIN Entries : Entries[i].pgno = p}
Journaled == {p \in Pages : EntriesOf(p) # {}}
LastEntry(p) == CHOOSE i \in EntriesOf(p) : \A j \in EntriesOf(p) : j <= i

(* The content a get of page p gives, whatever db_size says.                *)
View(p) == IF p \in Cached THEN cache[p].data ELSE ReadFile(disk, p)

(* What commit writes, and what it has written so far.                      *)
DirtyPages_SkipLast == {p \in Cached : cache[p].dirty /\ p < db_size}
DirtyPages == {p \in Cached : cache[p].dirty}
Flushed == {p \in Cached : cache[p].dirty /\ pc = "flush" /\ p \notin todo}

Replayed_KeepsNew ==
  [p \in Cached \cup Journaled |->
     [data |-> IF p \in Cached THEN cache[p].data
                               ELSE Entries[LastEntry(p)].old_data,
      dirty |-> FALSE]]

Replayed ==
  [p \in Cached \cup Journaled |->
     [data  |-> IF p \in Journaled THEN Entries[LastEntry(p)].old_data
                                   ELSE cache[p].data,
      dirty |-> FALSE]]

ReplayedOrder ==
  {e \in (Cached \cup Journaled) \X (Cached \cup Journaled) :
     IF e[2] \in Journaled
     THEN e[1] \in Journaled => LastEntry(e[1]) < LastEntry(e[2])
     ELSE e \in recency}

-----------------------------------------------------------------------------
TypeOK ==
  /\ disk \in Seq(Contents) /\ Len(disk) <= MaxPgno
  /\ durable \in Seq(Contents) /\ Len(durable) <= Len(disk)
  /\ mode \in {"closed", "readonly", "writable"}
  /\ db_size \in 0 .. MaxPgno
  /\ Cached \in SUBSET Pages /\ cache \in [Cached -> CachedPage]
  /\ recency \in SUBSET (Cached \X Cached)
  /\ state \in {"NoTxn", "Read", "Write"}
  /\ journal = NoJournal \/ journal \in Seq(JournalEntry)
  /\ in_transaction \in BOOLEAN
  /\ pc \in {"idle", "flush"}
  /\ todo \in SUBSET Cached /\ (pc = "idle" => todo = {})
  /\ spilled \in SUBSET Pages /\ forgotten \in SUBSET spilled
  /\ in_transaction \/ forgotten = {}
  /\ found \in [Pages -> Contents]

NothingFound == [p \in Pages |-> Zero]

NewPager(m, s) ==
  /\ mode' = m
  /\ state' = s
  /\ db_size' = Len(disk)
  /\ cache' = << >> /\ recency' = {}
  /\ journal' = NoJournal /\ in_transaction' = FALSE
  /\ pc' = "idle" /\ todo' = {}
  /\ spilled' = {} /\ forgotten' = {} /\ found' = NothingFound

Init ==
  /\ disk \in UNION {[1 .. n -> Values] : n \in 0 .. MaxPgno}
  /\ durable = disk
  /\ mode = "closed" /\ state = "NoTxn" /\ db_size = 0
  /\ cache = << >> /\ recency = {}
  /\ journal = NoJournal /\ in_transaction = FALSE
  /\ pc = "idle" /\ todo = {}
  /\ spilled = {} /\ forgotten = {} /\ found = NothingFound

open ==
  /\ mode = "closed"
  /\ NewPager("readonly", "Read")
  /\ UNCHANGED file

open_writable ==
  /\ mode = "closed"
  /\ NewPager("writable", "NoTxn")
  /\ UNCHANGED file

(* The pager and its cache are dropped: nothing is flushed.                 *)
Drop ==
  /\ mode # "closed" /\ pc = "idle"
  /\ NewPager("closed", "NoTxn")
  /\ UNCHANGED file

(* The process dies; what it wrote is in the operating system's hands.      *)
Crash ==
  /\ mode # "closed" /\ pc \in CrashPhases
  /\ NewPager("closed", "NoTxn")
  /\ UNCHANGED file

(* The machine dies; any of the pages written since the last sync are lost. *)
PowerLoss ==
  /\ mode # "closed" /\ pc \in CrashPhases
  /\ NewPager("closed", "NoTxn")
  /\ \E kept \in SUBSET Unsynced : disk' = Survives(kept)
  /\ durable' = disk'

GetHit(p) ==
  /\ mode # "closed" /\ pc = "idle"
  /\ p <= db_size /\ p \in Cached
  /\ recency' = Touch(recency, Cached, p)
  /\ UNCHANGED <<file, mode, db_size, cache, txn, call, history>>

GetMiss(p) ==
  /\ mode # "closed" /\ pc = "idle"
  /\ p <= db_size /\ p \notin Cached
  /\ LET rest == IF Cardinality(Cached) >= MaxCache /\ Cached # {}
                 THEN evict_lru ELSE cache
     IN  /\ cache' = Insert(rest, p, ReadFile(disk, p), FALSE)
         /\ recency' = Touch(recency, DOMAIN rest, p)
         /\ IF in_transaction
            THEN /\ forgotten' = forgotten \cup (spilled \cap (Cached \ DOMAIN rest))
                 /\ UNCHANGED spilled
            ELSE /\ spilled' = spilled \cap DOMAIN rest
                 /\ UNCHANGED forgotten
  /\ UNCHANGED <<file, mode, db_size, txn, call, found>>

begin ==
  /\ mode = "writable" /\ pc = "idle" /\ ~in_transaction
  /\ state' = "Write" /\ journal' = << >> /\ in_transaction' = TRUE
  /\ found' = [p \in Pages |-> View(p)]
  /\ UNCHANGED <<file, mode, db_size, cache, recency, call, spilled, forgotten>>

already_journaled_IfCached(p) == p \in Cached
already_journaled_Never(p) == FALSE
already_journaled(p) == p \in Cached /\ cache[p].dirty

GrownTo(p) == Larger(db_size, p)

(* A page that is not cached is read from the file to journal it; nothing   *)
(* is evicted to make room for it.                                          *)
write(p, v) ==
  /\ mode = "writable" /\ pc = "idle" /\ in_transaction
  /\ IF already_journaled(p) \/ journal = NoJournal
     THEN UNCHANGED journal
     ELSE /\ Len(journal) < MaxJournal
          /\ journal' = Append(journal, [pgno |-> p, old_data |-> View(p)])
  /\ cache' = Insert(cache, p, v, TRUE)
  /\ recency' = Touch(recency, Cached, p)
  /\ db_size' = GrownTo(p)
  /\ UNCHANGED <<file, mode, state, in_transaction, call, history>>

EndTxn_KeepsJournal ==
  /\ in_transaction' = FALSE /\ state' = "Read"
  /\ UNCHANGED journal

Forget == forgotten' = {} /\ found' = NothingFound

EndTxn == journal' = NoJournal /\ in_transaction' = FALSE /\ state' = "Read"

Sync_Skipped == UNCHANGED durable
Sync == durable' = disk

(* commit collects the dirty pages ...                                      *)
CommitStart ==
  /\ mode = "writable" /\ pc = "idle" /\ in_transaction
  /\ pc' = "flush"
  /\ todo' = DirtyPages
  /\ UNCHANGED <<file, mode, db_size, cache, recency, txn, history>>

(* ... writes them in page-number order ...                                 *)
FlushPage(p) ==
  /\ pc = "flush" /\ p \in todo /\ \A q \in todo : p <= q
  /\ disk' = WriteFile(disk, p, cache[p].data)
  /\ todo' = todo \ {p}
  /\ UNCHANGED <<durable, mode, db_size, cache, recency, txn, pc, history>>

(* ... syncs the file, and only then forgets the transaction.               *)
FinishCommit ==
  /\ pc = "flush" /\ todo = {}
  /\ Sync
  /\ cache' = ClearDirty(cache)
  /\ EndTxn
  /\ pc' = "idle"
  /\ spilled' = (spilled \ Flushed) \cap Cached /\ Forget
  /\ UNCHANGED <<disk, mode, db_size, recency, todo>>

(* A failed write returns from commit at once: the page is as it was or     *)
(* torn, the pages before it are written and the transaction is still open. *)
FlushFails(p) ==
  /\ IoFaults
  /\ pc = "flush" /\ p \in todo /\ \A q \in todo : p <= q
  /\ \/ disk' = disk /\ spilled' = spilled \cup Flushed
     \/ /\ disk' = WriteFile(disk, p, Torn)
        /\ spilled' = spilled \cup Flushed \cup {p}
  /\ pc' = "idle" /\ todo' = {}
  /\ UNCHANGED <<durable, mode, db_size, cache, recency, txn, forgotten, found>>

SyncFails ==
  /\ IoFaults
  /\ pc = "flush" /\ todo = {}
  /\ pc' = "idle" /\ spilled' = spilled \cup Flushed
  /\ UNCHANGED <<file, mode, db_size, cache, recency, txn, todo, forgotten, found>>

rollback ==
  /\ mode = "writable" /\ pc = "idle" /\ in_transaction
  /\ cache' = Replayed
  /\ recency' = ReplayedOrder
  /\ EndTxn
  /\ spilled' = spilled \cap DOMAIN Replayed /\ Forget
  /\ UNCHANGED <<file, mode, db_size, call>>

commit == CommitStart \/ (\E p \in Pages : FlushPage(p)) \/ FinishCommit

Next ==
  \/ open \/ open_writable \/ Drop \/ Crash \/ PowerLoss
  \/ \E p \in Pages : GetHit(p) \/ GetMiss(p)
  \/ begin
  \/ \E p \in Pages, v \in Values : write(p, v)
  \/ commit
  \/ (\E p \in Pages : FlushFails(p)) \/ SyncFails
  \/ rollback

Spec == Init /\ [][Next]_vars
=============================================================================
