------------------------------- MODULE Alloc -------------------------------
(***************************************************************************)
(* The allocator of util/alloc.rs: malloc, malloc_zero, realloc and free   *)
(* keep the size of every block in one global table behind a mutex and     *)
(* take the memory itself from the system heap.  A call is several steps   *)
(* (a heap call, a table call, a copy), and other threads run in between.  *)
(***************************************************************************)
EXTENDS Naturals, Sequences, SequencesExt, FiniteSets

CONSTANTS
    Threads,        \* the threads that allocate
    Addrs,          \* the addresses the heap can hand out
    NULL,           \* the null pointer
    Foreign,        \* a pointer that did not come from this allocator
    MaxSize         \* SQLITE_MAX_ALLOCATION_SIZE

ASSUME AddrsAssumption == NULL \notin Addrs /\ Foreign \notin Addrs /\ NULL # Foreign
ASSUME MaxSizeAssumption == MaxSize \in Nat \ {0}

VARIABLES
    heap,           \* heap[a]: the bytes of the block at a, <<>> when it is free
    sizes,          \* ALLOC_SIZES: sizes[a] is the entry of a, 0 for none
    malloc_failed,  \* the flag of the db handle the callers pass
    pc,             \* pc[t]: where t is inside a call, "idle" outside
    call,           \* call[t]: the arguments and locals of t's call
    held,           \* held[t]: the pointers t owns between calls
    known           \* known[a]: the leading bytes its owner may rely on

vars == <<heap, sizes, malloc_failed, pc, call, held, known>>

Pointers == Addrs \cup {NULL, Foreign}
Requests == 0 .. MaxSize + 1
Junk == "junk"
Zero == "zero"
Bytes == Threads \cup {Junk, Zero}
Filled(b, n) == [i \in 1 .. n |-> b]

\* p: the block given; q: the block malloc got; n: the size asked for;
\* size: what lookup_size said of p; db: whether a db handle was passed.
NoCall == [op |-> "none", p |-> NULL, q |-> NULL, n |-> 0, size |-> 0, db |-> FALSE]
Call(op, p, n, db) == [op |-> op, p |-> p, q |-> NULL, n |-> n, size |-> 0, db |-> db]

Init ==
    /\ heap = [a \in Addrs |-> <<>>]
    /\ sizes = [a \in Addrs |-> 0]
    /\ malloc_failed = FALSE
    /\ pc = [t \in Threads |-> "idle"]
    /\ call = [t \in Threads |-> NoCall]
    /\ held = [t \in Threads |-> {}]
    /\ known = [a \in Addrs |-> <<>>]

Goto(t, l) == pc' = [pc EXCEPT ![t] = l]
With(t, c) == call' = [call EXCEPT ![t] = c]

Return(t, owned) ==
    /\ Goto(t, "idle")
    /\ With(t, NoCall)
    /\ held' = [held EXCEPT ![t] = owned]

\* The sizes malloc and realloc turn down before they touch anything.
Refused(n) == n = 0 \/ n > MaxSize

----------------------------------------------------------------------------
(* The entries of the calls: the pointer given leaves the caller's hands.  *)

malloc(t, zeroed) ==
    /\ pc[t] = "idle"
    /\ \E n \in Requests, db \in BOOLEAN :
          \/ /\ Refused(n)
             /\ UNCHANGED <<pc, call>>
          \/ /\ ~Refused(n)
             /\ Goto(t, "alloc")
             /\ With(t, Call(IF zeroed THEN "malloc_zero" ELSE "malloc", NULL, n, db))
    /\ UNCHANGED <<heap, sizes, malloc_failed, held, known>>

\* realloc(NULL, n) is malloc(n), realloc(p, 0) is free(p), and a size over
\* the limit is refused with p left to its owner.
realloc(t) ==
    /\ pc[t] = "idle"
    /\ \E p \in held[t] \cup {Foreign}, n \in Requests, db \in BOOLEAN :
          \/ /\ n > MaxSize
             /\ UNCHANGED <<pc, call, held>>
          \/ /\ n = 0
             /\ Goto(t, "free_lookup")
             /\ With(t, Call("free", p, 0, FALSE))
             /\ held' = [held EXCEPT ![t] = @ \ {p}]
          \/ /\ ~Refused(n)
             /\ Goto(t, "lookup")
             /\ With(t, Call("realloc", p, n, db))
             /\ held' = [held EXCEPT ![t] = @ \ {p}]
    /\ UNCHANGED <<heap, sizes, malloc_failed, known>>

\* free(NULL) returns at once and is not a step.
free(t) ==
    /\ pc[t] = "idle"
    /\ \E p \in held[t] \cup {Foreign} :
          /\ Goto(t, "free_lookup")
          /\ With(t, Call("free", p, 0, FALSE))
          /\ held' = [held EXCEPT ![t] = @ \ {p}]
    /\ UNCHANGED <<heap, sizes, malloc_failed, known>>

\* The owner writes the whole block (external: the caller's use of it).
Fill(t) ==
    /\ pc[t] = "idle"
    /\ \E a \in held[t] :
          /\ heap' = [heap EXCEPT ![a] = Filled(t, Len(@))]
          /\ known' = [known EXCEPT ![a] = heap'[a]]
    /\ UNCHANGED <<sizes, malloc_failed, pc, call, held>>

----------------------------------------------------------------------------
(* The steps of malloc.                                                    *)

SetMallocFailed(t) == malloc_failed' = (malloc_failed \/ call[t].db)

\* What the caller still owns when a call fails: the pointer it passed.
Kept_Forgotten(t) == held[t]
Kept(t) == held[t] \cup ({call[t].p} \cap Addrs)

HeapAlloc(t) ==
    /\ pc[t] = "alloc"
    /\ \E a \in Addrs :
          /\ heap[a] = <<>>
          /\ heap' = [heap EXCEPT ![a] = Filled(Junk, call[t].n)]
          /\ With(t, [call[t] EXCEPT !.q = a])
          /\ known' = [known EXCEPT ![a] = <<>>]
    /\ Goto(t, "record")
    /\ UNCHANGED <<sizes, malloc_failed, held>>

\* The heap may refuse at any time: the flag of the handle is set, and a
\* realloc leaves the old block with its owner.
OutOfMemory(t) ==
    /\ pc[t] = "alloc"
    /\ SetMallocFailed(t)
    /\ Return(t, Kept(t))
    /\ UNCHANGED <<heap, sizes, known>>

record_alloc(t) ==
    LET c == call[t] IN
    /\ pc[t] = "record"
    /\ sizes' = [sizes EXCEPT ![c.q] = c.n]
    /\ CASE c.op = "malloc"      -> Return(t, held[t] \cup {c.q})
         [] c.op = "malloc_zero" -> Goto(t, "zero") /\ UNCHANGED <<call, held>>
         [] c.op = "realloc"     -> Goto(t, "copy") /\ UNCHANGED <<call, held>>
    /\ UNCHANGED <<heap, malloc_failed, known>>

WriteZeros(t) ==
    LET c == call[t] IN
    /\ pc[t] = "zero"
    /\ heap' = [heap EXCEPT ![c.q] = Filled(Zero, c.n)]
    /\ known' = [known EXCEPT ![c.q] = heap'[c.q]]
    /\ Return(t, held[t] \cup {c.q})
    /\ UNCHANGED <<sizes, malloc_failed>>

----------------------------------------------------------------------------
(* The steps of realloc and free.                                          *)

\* lookup_size: the table's entry of p, 0 for none.
SizeOf(p) == IF p \in Addrs THEN sizes[p] ELSE 0

\* An unknown pointer counts as out of memory.
ReallocLookup(t) ==
    LET c == call[t] IN
    /\ pc[t] = "lookup"
    /\ \/ /\ SizeOf(c.p) = 0
          /\ SetMallocFailed(t)
          /\ Return(t, Kept(t))
       \/ /\ SizeOf(c.p) # 0
          /\ Goto(t, "alloc")
          /\ With(t, [c EXCEPT !.size = SizeOf(c.p)])
          /\ UNCHANGED <<malloc_failed, held>>
    /\ UNCHANGED <<heap, sizes, known>>

Lesser(m, n) == IF m < n THEN m ELSE n

\* min(old_size, new_size) bytes go from the old block to the new one; a read
\* past the end of the old block would find anything.
CopyLen_ShortByOne(c) == Lesser(c.size, c.n) - 1
CopyLen(c) == Lesser(c.size, c.n)
ByteAt(a, i) == IF i <= Len(heap[a]) THEN heap[a][i] ELSE Junk
Copied(c) == [i \in 1 .. c.n |-> ByteAt(IF i <= CopyLen(c) THEN c.p ELSE c.q, i)]

Copy(t) ==
    LET c == call[t] IN
    /\ pc[t] = "copy"
    /\ heap' = [heap EXCEPT ![c.q] = Copied(c)]
    /\ known' = [known EXCEPT ![c.q] = SubSeq(known[c.p], 1, Lesser(Len(known[c.p]), c.n))]
    /\ Goto(t, "free_lookup")
    /\ UNCHANGED <<sizes, malloc_failed, call, held>>

\* An unknown pointer is ignored.
FreeLookup(t) ==
    LET c == call[t] IN
    /\ pc[t] = "free_lookup"
    /\ \/ /\ SizeOf(c.p) = 0
          /\ Return(t, held[t] \cup ({c.q} \ {NULL}))
       \/ /\ SizeOf(c.p) # 0
          /\ Goto(t, "forget")
          /\ With(t, [c EXCEPT !.size = SizeOf(c.p)])
          /\ UNCHANGED held
    /\ UNCHANGED <<heap, sizes, malloc_failed, known>>

\* The table forgets the block before the heap may hand it out again.
Release(t, atForget, atDealloc) ==
    LET c == call[t] IN
    \/ /\ pc[t] = atForget
       /\ sizes' = [sizes EXCEPT ![c.p] = 0]
       /\ UNCHANGED heap
    \/ /\ pc[t] = atDealloc
       /\ heap' = [heap EXCEPT ![c.p] = <<>>]
       /\ UNCHANGED sizes
FreeStep_DeallocFirst(t) == Release(t, "dealloc", "forget")
FreeStep(t) == Release(t, "forget", "dealloc")

forget_alloc(t) ==
    /\ pc[t] = "forget"
    /\ FreeStep(t)
    /\ Goto(t, "dealloc")
    /\ UNCHANGED <<malloc_failed, call, held, known>>

Dealloc(t) ==
    /\ pc[t] = "dealloc"
    /\ FreeStep(t)
    /\ Return(t, held[t] \cup ({call[t].q} \ {NULL}))
    /\ UNCHANGED <<malloc_failed, known>>

----------------------------------------------------------------------------

Next ==
    \E t \in Threads :
        \/ malloc(t, FALSE) \/ malloc(t, TRUE) \/ realloc(t) \/ free(t) \/ Fill(t)
        \/ HeapAlloc(t) \/ OutOfMemory(t) \/ record_alloc(t) \/ WriteZeros(t)
        \/ ReallocLookup(t) \/ Copy(t) \/ FreeLookup(t) \/ forget_alloc(t) \/ Dealloc(t)

Spec == Init /\ [][Next]_vars

----------------------------------------------------------------------------

\* The type invariant.
TypeOK ==
    /\ heap \in [Addrs -> Seq(Bytes)]
    /\ known \in [Addrs -> Seq(Bytes)]
    /\ sizes \in [Addrs -> 0 .. MaxSize]
    /\ malloc_failed \in BOOLEAN
    /\ pc \in [Threads -> {"idle", "alloc", "record", "zero", "lookup", "copy",
                           "free_lookup", "forget", "dealloc"}]
    /\ call \in [Threads -> [op : {"none", "malloc", "malloc_zero", "realloc", "free"},
                             p : Pointers, q : Addrs \cup {NULL}, n : 0 .. MaxSize,
                             size : 0 .. MaxSize, db : BOOLEAN]]
    /\ held \in [Threads -> SUBSET Addrs]

\* The blocks that only t's current call refers to.
InCall(t) == {call[t].p, call[t].q} \cap Addrs
Live == {a \in Addrs : heap[a] # <<>>}

\* Between the heap's step and the table's step of a call, and only there, a
\* live block has no entry; and free hands the heap the size the block was
\* allocated with.  (record_alloc, forget_alloc and dealloc are three steps
\* under no common lock: src/rust-port/src/util/alloc.rs:59-71 and 137-150.)
TableIsHeap ==
    /\ \A a \in Addrs :
          IF \E t \in Threads : \/ pc[t] = "record" /\ call[t].q = a
                                \/ pc[t] = "dealloc" /\ call[t].p = a
          THEN sizes[a] = 0 /\ a \in Live
          ELSE sizes[a] = Len(heap[a])
    /\ \A t \in Threads : pc[t] \in {"copy", "forget", "dealloc"} =>
          call[t].size = Len(heap[call[t].p])

\* Every live block belongs to exactly one thread, in its hands or inside one
\* call of it, and every pointer a thread holds is live: nothing leaks, a
\* failed realloc gives the old block back, and no address is handed out
\* twice.
OneOwner ==
    /\ \A t \in Threads : held[t] \cap InCall(t) = {}
    /\ \A t, u \in Threads : t # u =>
          (held[t] \cup InCall(t)) \cap (held[u] \cup InCall(u)) = {}
    /\ Live = UNION {held[t] \cup InCall(t) : t \in Threads}

\* What an owner wrote, what malloc_zero cleared and what realloc carried over
\* stays in the block, whatever the other threads allocate and free.
BytesSurvive ==
    \A t \in Threads : \A a \in held[t] : IsPrefix(known[a], heap[a])
=============================================================================
