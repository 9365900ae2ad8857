# HippoDB in TLA+

HippoDB is a Rust port of a slim subset of SQLite (`src/rust-port`) together
with the Python scheduler that drives its development (`src/workflow`). This
directory holds TLA+ modules that model the parts of it that keep state or
follow a protocol, TLC configurations that check them on small instances, and
TLAPS proofs of theorems about them.

## 1. Inventory

Sizes are lines of source. "State" is what a component keeps between calls.

| Component | Source | State | Operations |
| --- | --- | --- | --- |
| Pager | `pager/mod.rs` (810) over `vfs/unix.rs` | page cache with LRU counter and dirty bits, in-memory rollback journal, transaction flags, `db_size` | `open`, `open_writable`, `get`, `begin`, `write`, `commit`, `rollback` |
| VFS | `vfs/mod.rs`, `vfs/unix.rs` (676) | the file, a cached size, a count of open files | `open`, `read`, `write`, `sync`, `truncate`, `file_size` |
| B-tree reader | `btree/mod.rs` (548) | cursor: page, cell index, cell count, row | `first` with `load_leftmost_leaf`, `next`, cell and varint decoding |
| Hash table | `util/hash.rs` 1-500 | element pool with `next`/`prev` links and a free list, bucket array of chain heads and counts | `find`, `insert` (also removes), `clear`, `init`, `iter`, internal `rehash` |
| GrowableArray | `util/hash.rs` 605-817 | slots, `count`, `capacity`, `next_free` | `push`, `remove`, `get`, `drain`, internal `resize_to` |
| C-style API | `api.rs` (692), `handle.rs` (170) | per connection: schema behind a mutex, last error code and message; per statement: compiled code, rows, current row, flags | `sqlite3_open`, `close`, `prepare_v2`, `step`, `reset`, `finalize`, `column_*`, `exec`, `errmsg` |
| VDBE and compiler | `vdbe/mod.rs`, `where_compiler/mod.rs` (783) | registers, program counter, cursor; the in-memory schema | `compile_*`, `exec`, `run_select` |
| Resolver | `resolve/mod.rs` (340) | none | name resolution, validation of a WHERE tree |
| Expressions, functions | `expr/mod.rs`, `func/mod.rs` (1455) | none | evaluation over four types and NULL, scalar functions |
| Tokenizer, parser | `tokenize/mod.rs`, `parse/mod.rs` (1325) | none between calls; an index, a line and a column, and a position in the tokens, within one | `tokenize`, `parse_sql` |
| Allocator, PRNG | `util/alloc.rs`, `util/random.rs` (498) | a table from the address of a block to its size, behind a mutex; ChaCha state and unread bytes | `malloc`, `realloc`, `free`; `sqlite3_randomness` |
| Text utilities | `util/{pattern,utf8,str,datetime}.rs`, `util/printf/` (3987) | none | LIKE and GLOB, UTF-8, dates, formatting |
| Scheduler | `workflow/runner.py` (759), `run-once.sh`, `trigger.sh` | `queue.jsonl` with a status and attempt count per task, a lock file, the git work tree | one run: lock, pick, implement, classify, build, commit, unlock, trigger |
| Event router | `workflow/event_router.py` (293) | none | a handler per event: runs the runner, reviews a pull request, starts an agent for a failed Actions run |
| GitHub poller | `workflow/gh_poller.py` (171), `run-gh-poller.sh` | `gh-state.json`: what was seen of pull requests and runs; a lock file | one loop: poll, save, start a handler per change, sleep |

How they interact. The SQL side is a chain of calls on one thread per
statement: the API prepares a statement with the parser and the compiler, and
`step` runs the whole program in the VDBE against the schema while it holds the
connection's mutex. The storage side is separate at this commit: the B-tree
reader calls the pager, which calls the VFS, and neither is used by the SQL side,
whose tables live in memory. The scheduler is a set of processes that share only
files: the queue, the lock and the work tree; the event router and the poller
start it, and it starts its successor.

What is hard in it, by component, and what makes it correct:

* **Pager.** A cache smaller than a transaction, dirty pages and a journal kept by
  dirty bit, I/O that fails or a machine that stops between two page writes,
  `db_size` kept through rollbacks. Correct: rollback gives back what the
  transaction found; a commit that returns OK is on the medium as a whole; clean
  cached pages are the file's pages; no page is out of reach.
* **B-tree reader.** Pages of one file that point to each other, and offsets read from
  them that are used as indexes. Correct: a cursor returns the rows of the leaf its descent
  leads to, each once; it fails only where the file gives it a reason; the descent ends.
* **Hash table.** Bucket chains are only entry points into one list that all
  buckets share, so removing an element can change what another bucket needs;
  freed slots are linked through the same `next`. Correct: a dictionary; every slot
  is on exactly one list; bucket counts never go below zero.
* **GrowableArray.** `next_free` is kept incrementally through removals and
  shrinking. Correct: `push` never overwrites, nothing disappears unless removed.
* **C-style API.** Statements outlive what they refer to (dropped tables, closed
  connections), an error code and an error message are set separately, `exec`
  calls back under the mutex. Correct: a row returned is a row of the table; the
  message belongs to the code; no call waits for itself.
* **VDBE and compiler.** Jump targets, the empty table. Correct: the program
  returns the rows the statement denotes.
* **Expressions, functions.** NULL, and conversions between integers, reals, texts and
  blobs on the way of every operator. Correct: SQL's three-valued logic; an operator, a form
  (IN, BETWEEN, CASE) and a function that say the same thing agree.
* **Tokenizer, parser.** Indexes moved by hand. Correct: every byte belongs to one token or
  to the blanks between two; what is accepted is what the grammar derives, and the tree is
  the text's.
* **Text utilities.** Backtracking over several wildcards with an early way out. Correct: a
  pattern matches the strings it means.
* **Allocator.** The table of sizes and the heap change in separate steps. Correct: the
  table holds every live block with its size; a block has one owner; its bytes outlive
  `realloc`.
* **GitHub poller.** It saves what it has seen before it acts on it, it is killed every few
  minutes, and its handlers change what it polls. Correct: an event is handled once, and is
  handled.
* **Scheduler.** Several starts at once, a process killed at any step, a queue
  rewritten in place. Correct: one run at a time, a task reported done was verified,
  a task is not lost or retried for ever, work continues while there is any.

## 2. Plan

Done, in this order:

1. `Pager`, `PagedStore`, `PagerProperties`, `PagerProofs`: the transactional core.
2. `HashTable`, `GrowableArray`, `HashProofs`: the pointer structures, and their proofs.
3. `Scheduler`, `SchedulerProofs`: runs, lock, queue, deaths.
4. `Vdbe`, `Engine`, `EngineProofs`, `Query`, `QueryProofs`: one statement, from compilation
   to its answer, against what it means, with the proof that they agree.
5. `Session`, `Database`, `SessionProofs`: connections that threads share, composed with
   `Engine`, what they promise, and the proof that they keep it.
6. `Alloc`, `AllocProofs`: the allocator under several threads, and its proofs.
7. `Btree`: the cursor over the bytes of pages.
8. `Poller`, `PollerProofs`: the poller, its state file and its handlers.
9. `Tokenizer`, `Parser`: from the bytes of a text to its statements. `Pattern`, `Expr`, `Func`,
   `Eval`: the values of SQL and everything that computes on them. One run, `language`, checks
   them.

Next:

10. Proofs: the cursor of the B-tree reader, which needs its decoding of bytes as functions.
11. `printf`, dates and UTF-8 against reference definitions, as far as their arithmetic is not
    the only thing in them.

Abstract specifications: `PagedStore` (one atomic transaction at a time) and `Database` (one
statement at a time, and rows from one answer); a dictionary for the hash table and the meaning
of a statement for the engine, both stated as functions that the detailed state must agree with.
A vector for the array is the next one worth writing.

## 3. Modules and the code they model

A definition named `X_Variant` is `X` with a plausible mistake in it. No specification
uses it; put in the place of `X` it makes the property fail that is meant to notice the
mistake, which is how each property is shown to depend on the code.

### Pager (`Pager`, `PagedStore`, `PagerProperties`)

State: `disk` is the file as the operating system shows it and `durable` as the last sync
left it, each a sequence of page contents; `cache` maps cached pages to `[data, dirty]`;
`recency` orders them by `last_access`; `journal`, `state`, `in_transaction` and `db_size`
are the fields of `Pager`; `mode` says how it was opened. Each call is one action (`open`,
`open_writable`, `GetHit`, `GetMiss` with its `evict_lru`, `begin`, `write`, `rollback`)
except `commit`, whose collecting of dirty pages (`CommitStart`), file writes (`FlushPage`)
and sync (`FinishCommit`) are steps, because the process may die (`Crash`), the machine lose
power (`PowerLoss`, which keeps any subset of the pages written since the sync) and the file
fail (`FlushFails`, torn or not at all, and `SyncFails`) between them. A page's bytes are one
value. Three variables are history: `found` is what a get of each page gave at `begin`,
`spilled` the pages that a commit has written before it failed, as long as the transaction or the
cache may still hold what they were, and `forgotten` those of them that the open transaction has
had evicted since. `PagedStore` is the promise: one transaction at a time that takes effect as a
whole or not at all.

### Hash table (`HashTable`, `MCHashTable`, `HashProofs`)

`table` is the struct: `first`, `count`, `ht` (chain and count of each bucket), `elems` (the
pool) and `free_head`. Slots are numbered from 1 and 0 is none. `insert` is `Replace`, `Add`
(which rehashes when the load says so) or `Remove` (a null pointer); `clear` stands for
`clear` and `init`. `stored` is a history variable, the dictionary; `dangling` records that
some bucket's chain has pointed at a freed slot since the table was last empty.

### Growable array (`GrowableArray`, `HashProofs`)

`data`, `count` and `next_free`; `push` grows and fills, `remove` empties and shrinks, which
cuts off whatever the upper half holds, `drain` takes all.

### Scheduler (`Scheduler`, `MCScheduler`)

`queue` is `backlog/queue.jsonl`; `lock` is the flock; `pc`, `items`, `task` and `result` are
the variables of a run of `runner.py` at its place in `main`, `items` its copy of the queue;
`tree` and `head` say of the work tree and of the last commit whether they build and pass
(`good`), do not (`bad`), or lack the file that the sanity build looks for first (`bare`). The
actions follow `main`, and a read of the queue and its write are two steps: `Start` (lock, read,
pick) and `Mark` (write); `AgentEnds`, where the agent has edited the tree and, as the prompt
tells it, perhaps committed it; `Record` (read again) and `Save` (write); `Sanity`; `Demote`
(writes the copy of `Record` without reading again); `Commit`; `Finish`. A run may die before any
of them (`Die`) and inside a write of the queue (`DieWriting`), which leaves a prefix. The
environment is a person who edits a line at any moment (`Edit`: queues a task again, or holds one
back), and agents without the lock, which edit and commit: the one that `event_router.py` starts
and one that outlives its runner. What `sanity_build` sees is fixed only while none of them
edits: it passes a bare tree unbuilt, may time out on a good one, and may say anything of a tree
that changes under it. History: `verified` and `interrupted` (tasks whose last run passed, or died
before the verdict), `late` (lines edited since the queue was last read), `clean` (no edit since
the sanity build began) and `trusted` (the last commit is a runner's, of a clean tree).

### Statements (`Vdbe`, `Engine`, `Query`, `MCQuery`)

`Vdbe` has the compiler (`compile_select` and its siblings, each the list of opcodes it
pushes) and the machine (`DoOpen` ... `DoHalt`, one operator for each opcode, `Turn` for the
loop, `exec`). `Engine` adds what happens around a run: the comparisons and the three-valued
AND and OR of `expr::eval`, `validate_where_tree`, and `run_select`, which fetches whole rows,
filters and projects; and, written without a machine, what a statement means (`Denoted`,
`Effect`). The code's loop has no limit; `exec` is given one, `Turns`, by which every program
has halted, as is proved. `Query` is one statement from compilation to its answer, a step for
each turn of the machine, so that what the machine does on the way can be stated.

### Connections (`Session`, `Database`, `MCSession`)

Threads share one connection: `schema` behind its mutex (`holder`), `err_code` and `err_msg`.
Each thread has at most one prepared statement (`handle`: the statement, column names, `rows`,
`row_idx`, `current_row`) and at most one call in progress (`pc`, `call`, `fault`). A call is cut
where another thread can see or change something: the two stores of `clear_error`, the two of
`set_error`, each time the mutex changes hands and each callback of `exec`. The execution of a
statement happens under the mutex and is one step (`Run`, with the machine of `Vdbe`);
`EngineProofs` says for every program what that one step computes. `rows` is an Option, `None`
until the statement has run. `given`, `answer`, `runs` and `results` are history; `results` has
the codes that `prepare_v2`, `step` and `exec` have returned since one of them last began with no
other in progress, as long as the code or the message tells of them.

`Database` is the promise to the clients, without mutex, calls in progress, cursors or errors.
`opened` is a client's statement, `answer` the rows it answered when it ran, `given` those its
client has taken and `serving` those that `exec` has still to hand to a callback. Its actions are
`Open`, `Run`, `Take`, `Rewind`, `Close`, `Execute` and `Serve`; which changes and answers a
statement may make is a parameter, for which `Session` gives what the statement means (`Effect`,
`Denoted`). Several calls map to nothing: one that fails, a statement of `exec` that changes
and answers nothing, and `step` after the last row. That nothing changes under a callback
(`CallbackHoldsStill`) is part of it: nothing runs while rows are still to be served.

Assumptions on callers, all SQLite's own: a statement is used by one thread, the connection
is closed after its statements, and a callback does not use the connection it is called
from. The last one is needed: `exec` holds the mutex in the callback, and a callback that
prepared or stepped a statement would wait for itself.

### Allocator (`Alloc`, `MCAlloc`, `AllocProofs`)

`heap` maps each address to the bytes of its block, `sizes` is `ALLOC_SIZES`, `malloc_failed`
the flag of the handle a caller passes. A call of a thread is cut (`pc`, `call`) where the code
takes or gives up the lock of the table or calls the heap: `HeapAlloc` or `OutOfMemory`,
`record_alloc`, `WriteZeros`, `ReallocLookup`, `Copy`, `FreeLookup`, `forget_alloc`, `Dealloc`.
malloc and free inside `realloc` are the same steps. `held` says which pointers a thread owns
between calls and `known` which leading bytes of a block its owner may rely on. Callers pass
pointers they own, null, or one the allocator never gave them.

### B-tree cursor (`Btree`, `MCBtree`)

`file` is a sequence of pages of bytes; `tree` is what they are meant to hold, a shape per
page, from which `Layout` builds the bytes as the tests of the source do, whole or damaged: no
first cell, another page type, a cell pointer of an interior page or of a leaf that leaves the
page, a payload length that runs past it or is negative.
`first` starts the descent, whose turn is one action for each of its outcomes (`Descend`,
`LoadLeaf`, `LoadCorrupt`, `GetRefuses`, `ReadFails`, `Panic`); `FirstCell` and `next` advance.
`get` is the pager as a reader sees it: it refuses a page number outside the file.

### GitHub poller (`Poller`)

`updated` and `runs` are GitHub; `file` is `gh-state.json`, absent, torn, not UTF-8 or saved;
`lock` the poller's lock. `pc`, `state` and `events` are the place and locals of each poller
in its loop: `load_state`, `poll_prs`, `poll_actions`, `SaveTruncates`, `SaveWrites`, `trigger`,
`Wake`. `TimedOut` and `Crash` end it anywhere, `CutShort` in the middle of a save. `handlers`
is the bag of handlers that run: one for a pull request may update it, and with that make
another event. `triggered`, `lost` and `torn` are history.

### Text to statements (`Tokenizer`, `Parser`)

`Tokenizer` is the loop of `tokenize` with its `i`, `line`, `col` and tokens, an action for each
branch. `Parser` keeps the calls of the recursive descent that are to come as a stack of
symbols, `plan`, and the statement it is building; an action takes the first symbol and at
most one token. The grammar it is compared with (`Written`, `Writings`) goes the other way,
from a statement to its tokens.

### Values and expressions (`Pattern`, `Expr`, `Func`, `Eval`)

Operators with the names of the Rust functions: the matcher of GLOB and LIKE; values with their
conversions and operators; the scalar functions and their dispatch; the evaluator. They are
RECURSIVE where the code recurses and reach no module with a theorem. An i64 has 8 bits, so that
its ends occur among the values; a real is a fraction, so that rounding is left out, with a
zero denominator for infinities and NaN; a text is a sequence of code points.

`OperatorsAgree` and `FunctionsAgree` say what forms owe each other, as sets of laws, each two
expressions that must have one value (IN and a chain of `=`,
BETWEEN and two comparisons, CASE and its conditions, `coalesce` and `ifnull`, `substr` and
concatenation, `upper` and `lower`, `quote` and the tokenizer); where the code departs from SQL
they state the departure, and section 7 lists it. `Reals` has the arithmetic of fractions and
infinities keep the order, `Rounding` and `Rewriting` the laws of `round`, `typeof`, `replace`,
`hex` and `zeroblob`, and `Matching` those of GLOB and LIKE on texts without wildcards.

## 4. Runs

| Run | Checks | Bounds |
| --- | --- | --- |
| `pager_store` | `ImplementsPagedStore` | 3 pages, 2 contents, a cache of 3, 3 journal entries, crashes between calls |
| `pager_faults` | `TxnFlagsAgree`, `DirtyIsJournaled`, `JournalHoldsPreImage`, `FileAndCacheAgree`, `RollbackRestores`, `CommitIsDurable` | 2 pages, 2 contents, a cache of 1, 2 journal entries, crashes anywhere, I/O that fails |
| `pager_evict_violation` | `CommitFlushesEveryWrite` is violated | as above, 3 journal entries, crashes between calls, no faults |
| `hash_dict` | `ListsAreSound`, `DictionaryUntilDangling` | 4 keys, 2 pointers, 3 elements, thresholds of 1 and 2 |
| `array` | `CountIsLive`, `NextFreeIsFirstEmpty`, `PushOverwritesNothing` | 2 values, capacities 2 to 8 |
| `scheduler` | `DoneWasVerified`, `DependenciesStayDone`, `RetriesAreBounded`, `CommitsAreTested`, `EditsAreKept`, `QueueDrains` | 2 tasks, 2 runners, one death, two edits of the queue, one stray agent, limits 2 and 1 |
| `query` | `ScanFollowsTable`, `StatementIsExact`, `Terminates` | every comparison operator, clauses of up to three comparisons, tables of up to 3 rows and 2 columns with NULLs |
| `session` | `RowsAreOfOneMoment`, `OneEffectPerReset`, `RowsAreSound`, `ErrorsAreRecent`, `ImplementsDatabase`, no deadlock | 2 threads, 3 statements to prepare, 3 scripts of 3 statements for `exec`, 2 rows in a table |
| `alloc` | `TableIsHeap`, `OneOwner`, `BytesSurvive`, no deadlock | 2 threads, 3 addresses, sizes 0 to 3 with 2 as the limit, a heap that refuses at will |
| `btree` | `ScanIsLeftmostLeaf`, `FailuresAreTheFiles`, `DescentEnds` | every file of 3 pages of 15 shapes, roots 0 to 4, pages of 32 bytes, varints of up to 3 bytes |
| `poller` | `TriggeredOnce`, `SeenIsTriggered`, `ChangesAreHandled` | 2 pollers, one pull request with 2 updates, 2 failing runs, a listing of 1 run, one fault |
| `language` | `TokenizeTilesTheText`, `ParseIsTheGrammar`, `EvaluationAgrees`, `ScalarFunctionsAgree`, `MatchIsMeaning` | texts of up to 3 bytes of 17, and up to 5 of fewer; 23 programs in 4 spellings and with one token changed; triples of 29 values; patterns of up to 4 code points on strings of up to 3 |

`FileAndCacheAgree` joins that clean cached pages are the file's with that `db_size` reaches the
whole file; `ListsAreSound` the types, the partition of the slots and the counts of the buckets;
`StatementIsExact` the answer of a SELECT and the effect of everything else; `RowsAreSound` the
widths of stored rows and of rows handed out.

**Why the bounds suffice.** A cache of one page evicts at every miss, so a transaction of two
pages already loses and re-journals pages, and two journal entries are one page journaled
twice or both once, before and after a commit that fails; two contents are enough to tell old
from new. Three pages with
room for all give the refinement every order of flushes and every subset that power loss keeps.
The hash run scales the four thresholds down so that three elements
grow the table, collide in a bucket and separate again, which the code's own thresholds do with
more elements. The array doubles twice and shrinks twice on the way back. Two tasks of which the
first line depends on the second exercise the order of `next_task`; two runners are enough for
every race for the lock, one person and one stray agent for every step they can come between;
two edits hold a task back and queue it again, or change two lines between a read and a write;
the limits 2 and 1 keep the difference between retrying and failing.
The WHERE clauses contain each pair of the truth values 0, 1 and NULL on either side of AND and
OR, and an AND below an OR. Two threads are enough for every overlap of one call with another;
the two widths of the one table, exchanged by a script, are what makes a prepared statement
stale. `Turns` is no bound of the check: `RunIsExact` proves that every program has halted by
then, and a run cut short would violate `RowsAreOfOneMoment`. Threads are interchangeable,
so `session` uses symmetry; it checks no liveness.

Two threads and three addresses are enough for a block of one thread, the new block of its
`realloc` and one of another thread; the copy is cut to either size. Pages of 32 bytes hold
three cells with row ids of one to three bytes, and three pages give every chain, cycle and
pointer out of the file. One pull request with two updates is a change found while the one
before is handled; a listing of one run with two failing ones is a run that falls out of it
before it is polled; one fault is one loss, and what the faults have cost is stated by `lost`
and `torn`, so more of them add no new case. The alphabet of `language` has a byte for each
branch of the tokenizer and the second byte of each pair it looks at; the values have both ends
of the integers, reals on both sides of zero and the infinities, texts that read as numbers and
texts that do not, blobs that are UTF-8 and blobs that are not.

**What the passing runs show.** The pager with room for every page and files that do not fail is
an atomic store, and what power loss takes back belongs to commits that had not returned. With
the smallest cache and writes and syncs that fail, a journal entry is a pre-image, rollback
restores every page, after a commit that failed too, except a page which that commit has written
and a get has evicted since, and a commit that returned OK is on the medium. The list, free list
and counts of the hash table are right in every state; it is a dictionary until a bucket points
at a freed slot. The array never overwrites. A runner of the scheduler commits nothing that its
sanity build would reject, unless an agent edits the tree under it, while agents commit what they
like; it keeps a person's edits of other lines but for those that fall between its read and its
write of the queue; retries are bounded and the queue drains. A SELECT returns the rows its
clause is true of in SQL's logic, but for the one without a clause on an empty table; an INSERT,
CREATE or DROP does what it says and touches nothing else. Over one connection a SELECT is a
snapshot, an INSERT is applied once until it is reset, no order of calls blocks everybody, all
that clients see is explained by statements that run one at a time, and the error kept is one of
the last `prepare_v2`, `step` or `exec`, or of those that overlapped it. The allocator's table is
right between any two steps because `free` forgets before it gives back and `malloc` records
after it has taken; a `realloc` that fails leaves the caller its block. The cursor returns its
one leaf exactly and blames only files that deserve it. Every change on GitHub is handled, once,
unless a poller dies between saving and triggering or a save is cut short. The tokenizer loses no
byte and makes no token of a comment that ends, the parser accepts exactly the grammar, and
expressions, functions and patterns mean the same however they are written, within the departures
that section 7 lists.

**What the violated one shows.** `get` may evict a dirty page, whose write commit then
misses, against the module comment of the pager. `PROJECT.json` quotes the sentence.

## 5. Fairness

Four specifications assume any. `Scheduler`: weak fairness of `Start` for some runner, since
`register-cron.sh` starts one for ever at fixed intervals, and of each runner's own steps, since
each of them ends: `runner.py` kills an agent after ten minutes and gives the build and the
tests five and ten, and git a minute. Nothing forces the person, the stray agents or a death.
`Query`: weak fairness of the one thread's next step, which is a loop without waiting. `Btree`:
weak fairness of the descent, a loop of one thread; the calls are the caller's to make.
`Poller`: weak fairness of `Start` for some poller, which cron starts every five minutes, and of
each poller's own steps; strong fairness of the two polls, because `gh` may fail at any one of
them but answers again and again. Crashes and cut saves are bounded and never forced, timeouts
come as they like, and no handler is ever forced to end. `Pager`, `HashTable`, `GrowableArray`,
`Session` and `Alloc` state safety only: their calls are the caller's to make.

## 6. Proofs

`tlapm` checks every theorem for all values of the constants that satisfy the named
assumptions of the modules.

* `PagerProofs`: `TypeCorrect`, `TxnFlags`, `DirtyJournaled`, `JournalPreImage`,
  `FileAndCache`, `Rollback`, `Commit`, with and without faults and for every size of the
  cache. `TypeOK` is inductive as it stands. The others are not, and `FilesInv` joins them: that
  state, journal and flag agree (a commit is in progress only inside a transaction); that
  a dirty page is journaled (`write` needs that appending an entry takes no page out of
  `Journaled`); that a clean page is the file's and a journal entry its pre-image, each of
  which needs the other, since `write` journals what the cache has and `rollback` fills the
  cache from the journal; that a page not journaled reads as it was found (`UnwrittenIsFound`) and
  that a page a failed commit has written is still dirty until it is evicted (`SpilledIsDirty`),
  without which neither would survive a commit that fails; and two facts on lengths and on
  commit, `WrittenWithinDb` and `FlushedIsWritten`: what commit has taken off its list is in the
  file.
* `Refinement`, also in `PagerProofs`: the pager implements `PagedStore`, step by step, if
  the cache has room for every page, the process dies only between calls and files do not fail
  (`RoomAndNoFaults`, the constants of `pager_store`). Each hypothesis is needed: an evicted
  dirty page is lost, and a commit that fails or dies half-way cannot be undone. `StoreInv` adds
  to `FilesInv` that the file holds the pre-images while no commit runs, which makes a
  rollback the abstract one, and that between commits the medium has what the system has
  (`Synced`), which makes a loss of power lose nothing.
* `HashProofs`, of the hash table: `ListsSound` and `DictionaryCorrect`, for every set of keys,
  every hash function and all thresholds. What `next` leads to is not a variable of the table,
  so the invariant (`HashInv`) says that witnesses exist: a sequence `p` of the elements' slots
  and a sequence `q` of the free ones (`List`), which together are the pool, with the links back
  and the buckets' counts (`Sound`). That both partition the pool is what makes reusing a freed
  slot safe; that `prev` of the head is none is what makes removing it different from removing
  another. While no chain has dangled it adds that a chain is at or before every element
  of its bucket (`Chained`), so that a search that fails is right (`MissIsAbsent`), and that what
  is on the list is what is stored; without that it keeps only that what is stored is on the
  list. Every operation is shown to turn its witnesses into new ones: `insert_element` puts a
  slot before `p` (`InsertLinks`), `rehash` reverses `p` turn by turn (`HalfRehashed`),
  `remove_slot` takes a place out of `p` and puts it before `q` (`RemoveKeeps`). The paths of the
  code are followed through `WalkIs` by least counterexample (`UpTo`), as in `EngineProofs`.
* `HashProofs`, of the array: `NextFreeCorrect`, `CountCorrect`, `PushSafe`. The invariant joins
  `CountIsLive` and `NextFreeIsFirstEmpty`: `push` finds room only because `count` equal to
  `capacity` means no empty slot, and the search for the next one starts at a first empty
  slot; the counting lemmas (`FillCounts`, `ClearCounts`, `TruncatedCounts`) rest on
  cardinalities of finite sets.
* `SchedulerProofs`: `TypeCorrect`, `RetriesBounded`, `OneRunnerAtATime`, `RunnerCommitsTested`,
  `DoneAlwaysVerified`, `DependenciesAlwaysDone`, `EditsKept`. `QueueOK` (ids distinct, attempts
  bounded) is carried for the queue and for every runner's copy of it, through lemmas on
  `WithStatus`, `update_task`, `Demoted` and prefixes; `LockHeld` says that who is not idle has
  the lock; four of them add what is known at each place of `main`. `CommitIsTested` says
  that who has passed the sanity build and not committed yet has a tree that is not bad, or not
  clean. For `DoneAlwaysVerified`, `CopyIsNotAhead`: no copy of the queue has a task done that the
  file has not, but the runner's own before it is saved. A task that is done is undone only by
  `Demote`, from a copy read before others may have started: `NothingToUndo` says that no started
  task of that copy depends on the one demoted. For `EditsKept`, `CopyIsCurrent`: the copy and the
  file differ at most in the runner's own line and in those edited since the read.
  `FailLimit <= RetryLimit`, as in
  the code (3 and 5), is needed: otherwise a task could be queued with its attempts used up.
* `EngineProofs`: `RunIsExact`, for every rectangular schema and every statement valid on it: the
  program ends, a SELECT answers what it denotes, any other statement has its effect and no
  rows. `ScanShape` and its siblings prove from the concatenations of the compiler where each
  opcode is; `State` says by place which registers are filled and how many rows are emitted in
  relation to the cursor; `MachineStep` preserves it and counts down the turns that are left
  (`LeftIsCount`), so that `ExecEnds` needs no liveness. What loops compute is here a
  function on an interval: that it exists and obeys its equation is shown by its least
  counterexample (`LeastExists`, `UpTo`), which replaces induction. `ChainMeaning` turns
  the folded AND and OR over NULLs into quantifiers, `EvalIsSatisfies` puts them together,
  and `KeptArePassing` finds the k-th row kept at the k-th place that satisfies the clause
  (`RankCounts`, `NthFinds`).
* `QueryProofs`: `ScanIsFaithful` and `AnswerIsExact` (`StatementIsExact`), the same turn by turn.
  `QueryInv` says that the machine is in a state that `EngineProofs` describes, and that what
  was answered comes from the last of them. That the table has rows is an essential precondition
  of the first: see the empty table in section 7.
* `SessionProofs`: `Callbacks`, `LastError`, `OneEffect`, `OneMoment`, `SoundRows`, for any
  number of threads. `Shapes` is `TypeOK`, with who holds the mutex where, and the fields of the
  records. `ErrorIsAccounted` names for each half of the last error a call that has returned it,
  or one in progress that has stored it and will return it, through the two stores of
  `clear_error` and of `set_error`. `RunShowsInRows` says that a statement that has run has
  its rows, and that `step` comes to the mutex only without them, which another thread could not
  change while it waited. `RowsInv` says that the schema is sound, that a call
  on its way holds statements the parser made, and that each handle has handed out the
  first `row_idx` rows of its answer; the steps that run a statement cite `RunIsExact`.
* `Implements`, also in `SessionProofs`: `Session` implements `Database`, for any number of
  threads and without further hypotheses. It needs all of the above together: `Execute` runs an
  abstract statement that has not run (`RunShowsInRows`) while nothing is served, since
  whoever has rows to serve has the mutex (`FreeMutex`), and a later `step` takes the
  row after those taken (`RowsInv`). `HandlesTyped` adds that a statement is never a null
  pointer. `UnseenStutters` has the calls that show nothing; one lemma for each other call
  names the abstract step it is (`PrepareOpens`, `ExecuteRuns`, `ClearingTakes`,
  `ResetRewinds`, `FinalizeCloses`, `ExecExecutes`, `CallbackServes`).
* `PollerProofs`: `Seen` and `Once`, for any number of pollers, changes and faults. `SeenInv`
  follows an event from the poll to its handler: what the state file calls seen was handled,
  is lost, or is in the list of the one process that holds the lock. `OnceInv`
  goes the other way: no poll can find again what has a handler, because every dictionary that
  is read from the file is past it (`FileCovers`), GitHub's times only grow (`NotAhead`), and a
  list has only what is new to the dictionary it was made with (`ListIsNew`). This second one
  lapses once a save was cut short, as the property says.
* `AllocProofs`: `TypeCorrect`, `TableCorrect`, `OwnersCorrect`, `BytesCorrect`, for every set
  of threads and addresses and every limit. `AllocInv` joins five parts, and no property is
  inductive without the others: `TypeOK`; `CallShape`, what the locals of a call are at each of
  its steps; `OneOwner`, without which the step of one thread could take the block of another;
  `TableInv`, which says of every step of a `realloc` what `TableIsHeap` says of its copy, since
  the size was looked up earlier and stays right only because nobody else owns the block;
  `BytesInv`, which holds the known bytes of a block also while a call has it. `OwnerChange` and
  `TableChange` reduce each action to the blocks it takes and gives up, or to the one address
  whose entry or block changes; each of `OwnerStep`, `TableStep` and `BytesStep` then goes
  action by action.

Assumptions: those named in the modules (`PagerAssumption`, `NoJournalAssumption`,
`HashTableAssumption`, `ArrayAssumption`, `SchedulerAssumption`, `MarkersAssumption`,
`QueryAssumption`, `SessionAssumption`, `AddrsAssumption`, `MaxSizeAssumption`,
`FailingAssumption`); they say that markers are not values, that bounds are numbers, that the
queue's ids are distinct, and that statements and schemas are what the parser and the inserts
make. TLC evaluates them in the runs. One theorem has a hypothesis of its own, `RoomAndNoFaults`
of `Refinement`.

The type invariants of the pager, the scheduler and the allocator are proved, so no run checks
them again; those of `Query` and `Session` are parts of `StatementIsExact` and `RowsAreSound`,
which are proved too, that of the hash table is part of `ListsAreSound`, and those of the array
and the poller are proved with their theorems. `CallbackHoldsStill` is proved by itself and, in
the runs, part of `ImplementsDatabase`.

Model-checked only:

* Liveness (`QueueDrains`, `Terminates`, `DescentEnds`, `ChangesAreHandled`), which is out of
  the prover's reach; `ExecEnds` has the counting part of `Terminates`.
* The cursor (`ScanIsLeftmostLeaf`, `FailuresAreTheFiles`): it decodes bytes that a recursive
  layout has written.
* Everything in `language`: recursion over texts, expressions and patterns, in RECURSIVE
  operators.

## 7. Not modelled

* Formatting (`util/printf`), dates, UTF-8 and the string helpers: pure functions without
  state that no other part calls; what is hard in them is arithmetic on single inputs.
* The random generator: a cipher whose arithmetic would have to be copied.
* Of the interface: open and close, the column and error accessors, `exec` without a callback.
  `active_stmt_count` is never raised, so closing a connection frees it under its open
  statements (`handle.rs:20`).
* Of the hash table: the spelling of keys, the empty key and the helpers for integer keys. A
  freed slot keeps its hash and gets the empty key (`hash.rs:402`), so that once a chain points
  at a slot that held the empty key, a search for it ends at the freed slot. `format_i64` negates
  with `wrapping_neg`, so the smallest i64 is stored under a sign without digits.
* Of `resolve`: everything but `validate_where_tree`, which alone is called. So
  `CREATE TABLE` accepts two columns of one name; such a table is among the schemas of `query`.
* Of values: the rounding of reals and the sign of zero, exponents and the names of infinities in
  texts that are read, `hex` of a real, and invalid UTF-8 of more than single bytes. No value of
  the run is NaN; some results are.
* A crash of the pager inside a commit cannot be undone, since the journal is in memory, which
  the source says (`pager/mod.rs:31-33`): `pager_store` has crashes between calls only. A runner
  that dies while it writes the queue loses tasks, and one that writes it undoes the edits made
  since it read it: both are in `Scheduler`, and the properties of the queue say where they stop.
* A write of the file that ends early and is reported as Ok: `UnixFile::write` stops at a
  `pwrite` of 0 bytes (`vfs/unix.rs:91,102`), which the system does not return for a regular file,
  and commit does not look at the count (`pager/mod.rs:434`). A write of the model is whole, or
  fails, torn or not at all.
* Of damaged pages in `btree`: a payload length that is wrong and stays within its page, which
  shows other bytes of it as the row.
* VFS locks, prompts, reports and notifications of the scheduler and the router.

Observed while modelling, and part of the models as the code has it:

* Hash table: removing the head of a bucket moves its chain to the next element of the shared
  list (`hash.rs:392`), which may be another bucket's; when that one is removed too, `find`
  misses a key that is stored, against lines 177-178. `DictionaryUntilDangling` is the guarantee
  that is left.
* Array: `remove` shrinks and drops live values above the cut (`hash.rs:753`), which the comment
  on `resize_to` (775-776) says only of a capacity below `count`.
* Pager: a commit that fails leaves the pages it has written in the file. A rollback takes the
  cache back, not the file, so once such a page is evicted, before the rollback or after it, `get`
  gives its new bytes; within the transaction a second journal entry then holds them too.
* Scheduler: a task is written as done before its sanity build (`runner.py:689`); a runner that
  dies in between leaves it done and untested, against the comment on 691-692. The prompt has the
  agent commit before that build (`prompt-template.md:53`), so a tree that fails it is committed
  all the same and only the task is demoted, against the same comment. A tree without
  `BUILD.bazel` or `Cargo.toml` passes unbuilt (`runner.py:567-569`, 625-627). Nothing keeps a
  person's edit of the queue between a read (664, 687) and the next write (681, 689), and the
  write after a failed build (698-708) is of what was read before it.
* A SELECT without a clause on an empty table answers one row of NULLs: the loop tests
  for a row only at its end (`where_compiler/mod.rs:59`).
* After a rollback `db_size` still counts pages that were never written; the column names of
  a prepared `SELECT *` are those of the table at the time; errors of overlapping calls mix a
  code of one with a message of the other; `sqlite3_reset` and `sqlite3_finalize` return OK and
  leave the error as it is (`api.rs:316-338`); a callback of `exec` that uses its connection
  waits for itself (`api.rs:628`).
* Cursor: the comment on the module speaks of the rightmost child, the code follows the first
  one and never leaves its leaf; the header of page 1 is not skipped.
* Poller: an event saved and not yet triggered is lost with its process (`gh_poller.py:144`); a
  review that comments on a pull request makes the next event for it.
* Tokenizer: the column after a string counts its body twice; newlines in a blob are not
  counted; an unterminated block comment leaves its last byte to be read as a token; `''` inside
  a string stays doubled; `^` and a single `!` are refused. Parser: the comment on column types
  says lower case (`parse/mod.rs:103`), the code makes them upper case (287).
* Evaluator: AND and OR take a real 0.0 and every text as true, NOT does not; unary minus and
  plus make an integer of a real; dividing by a text that reads 0 gives an infinity and not
  NULL; the smallest integer divided by -1 panics; BETWEEN with any NULL is NULL; a blob is never
  less than a blob; the order of texts and integers is not transitive; `func` has an equality of
  its own that `nullif` uses.
* Functions: `round(x, d)` divides by 10^d before it rounds and multiplies after, so it rounds
  to a multiple of 10^d; `hex` of an integer has no leading zeros; `quote` of a whole real
  writes an integer; `substr` with start 0 or a negative length differs from SQLite.
* Patterns: after `%` an escape is compared at one place only, and the flag of an escape is never
  cleared, so that a later `_` is no wildcard.
