-------------------------- MODULE PagerProperties --------------------------
(***************************************************************************)
(* What must be true of the pager of module Pager.                         *)
(***************************************************************************)
EXTENDS Pager

(* The content of page p when the open transaction began, no commit of it   *)
(* having failed: the first entry the journal has for it, or the file's     *)
(* page.                                                                    *)
Original(p) ==
  IF p \in Journaled
  THEN Entries[CHOOSE i \in EntriesOf(p) : \A j \in EntriesOf(p) : i <= j].old_data
  ELSE ReadFile(disk, p)

-----------------------------------------------------------------------------
(* Safety, with any cache size, crashes anywhere and failing I/O.           *)

(* begin, commit and rollback set state, journal and in_transaction         *)
(* separately: they agree whatever calls fail, and only a writable pager    *)
(* has a transaction, which is open all through commit.                     *)
TxnFlagsAgree ==
  /\ in_transaction <=> state = "Write"
  /\ in_transaction <=> journal # NoJournal
  /\ in_transaction => mode = "writable"
  /\ pc = "flush" => in_transaction

(* A dirty page belongs to the open transaction and write has journaled it, *)
(* although write decides by the dirty flag alone whether it has to, and    *)
(* commit collects at most such pages.                                      *)
DirtyIsJournaled ==
  /\ \A p \in Cached : cache[p].dirty => in_transaction /\ p \in Journaled
  /\ \A p \in todo : cache[p].dirty

(* Every journal entry of a page, a second one made after the page was      *)
(* evicted included, is the page as the transaction found it, unless a      *)
(* commit that failed has written the page and a get has evicted it since.  *)
(* And the file still holds it until a commit writes the page.              *)
JournalHoldsPreImage ==
  \A i \in DOMAIN Entries :
    LET e == Entries[i]
    IN  /\ e.pgno \notin forgotten => e.old_data = found[e.pgno]
        /\ e.pgno \notin spilled \cup Flushed => e.old_data = ReadFile(disk, e.pgno)

(* A cached page that is not dirty is the file's page, so that evicting it  *)
(* loses nothing and reading it again gives the same bytes, unless a commit *)
(* that failed has written the page: rollback then takes the cache back and *)
(* the file not.                                                            *)
CleanPageIsFilePage ==
  \A p \in Cached \ spilled : ~cache[p].dirty => cache[p].data = ReadFile(disk, p)

(* No page of the file is out of reach: get never refuses one of them.      *)
FileWithinDb == mode # "closed" => Len(disk) <= db_size

(* Cache, file and db_size tell one story of every page.  (pager/mod.rs     *)
(* 395-409 and 431-441 change the three one after the other.)               *)
FileAndCacheAgree == CleanPageIsFilePage /\ FileWithinDb

(* After rollback every page reads as when the transaction began: the pages *)
(* evicted or rewritten in between, and the pages that a commit of it has   *)
(* written before it failed, included.  Not the ones of these that a get    *)
(* has evicted since: nothing but the file has them.                        *)
RollbackRestores ==
  [][rollback => \A p \in Pages \ forgotten : View(p)' = found[p]]_vars

(* When commit returns OK, every page it found dirty is on the medium, torn *)
(* writes of an earlier commit that failed included.                        *)
CommitIsDurable ==
  [][FinishCommit => \A p \in Cached :
       cache[p].dirty => ReadFile(durable', p) = cache[p].data]_vars

-----------------------------------------------------------------------------
(* With room for every page in the cache and no crash inside commit.        *)

(* The pager implements the atomic store: its committed pages are the       *)
(* originals, its current pages what get returns.                          *)
Store == INSTANCE PagedStore WITH
  committed <- [p \in Pages |-> Original(p)],
  current   <- [p \in Pages |-> View(p)],
  in_txn    <- in_transaction

ImplementsPagedStore == Store!Spec

-----------------------------------------------------------------------------
(* What the module comment claims and small caches or rollback refute.      *)

(* "`write` modifies a page in the cache; on `commit` the changes are       *)
(* written to the file" (lines 6-7): commit finds every page that the       *)
(* transaction wrote among the dirty pages of the cache.                    *)
CommitFlushesEveryWrite ==
  [][CommitStart => \A p \in Journaled : p \in Cached /\ cache[p].dirty]_vars
=============================================================================
