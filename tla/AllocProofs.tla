----------------------------- MODULE AllocProofs -----------------------------
(***************************************************************************)
(* For every set of threads, every heap and every size limit: the table of *)
(* sizes agrees with the heap, every live block has one owner, and the     *)
(* bytes an owner may rely on stay in its block.                           *)
(***************************************************************************)
EXTENDS Alloc, SequenceTheorems, TLAPS

\* What the locals of a call hold at each of its steps.
Shape(t) ==
  /\ pc[t] = "idle" => call[t] = NoCall
  /\ pc[t] \in {"alloc", "record", "zero", "lookup", "copy"} => call[t].n \in 1 .. MaxSize
  /\ pc[t] \in {"alloc", "lookup"} => call[t].q = NULL
  /\ pc[t] \in {"record", "zero", "copy"} => call[t].q \in Addrs
  /\ pc[t] \in {"alloc", "record"} =>
        \/ call[t].op \in {"malloc", "malloc_zero"} /\ call[t].p = NULL
        \/ call[t].op = "realloc" /\ call[t].p \in Addrs
  /\ pc[t] = "zero" => call[t].op = "malloc_zero" /\ call[t].p = NULL
  /\ pc[t] = "lookup" => call[t].op = "realloc" /\ call[t].p \in Addrs \cup {Foreign}
  /\ pc[t] = "copy" => call[t].op = "realloc" /\ call[t].p \in Addrs
  /\ pc[t] = "free_lookup" =>
        \/ call[t].q = NULL /\ call[t].p \in Addrs \cup {Foreign}
        \/ call[t].q \in Addrs /\ call[t].p \in Addrs
  /\ pc[t] \in {"forget", "dealloc"} => call[t].p \in Addrs
  /\ call[t].p # call[t].q \/ call[t].p = NULL

CallShape == \A t \in Threads : Shape(t)

\* Whose a block is, in its owner's hands or in a call of it.
Owned(t) == held[t] \cup InCall(t)

\* The parts of TableIsHeap, and the size a realloc carries to its copy.
NoEntryYet(t, a) ==
  \/ pc[t] = "record" /\ call[t].q = a
  \/ pc[t] = "dealloc" /\ call[t].p = a

EntryOf(a) ==
  IF \E t \in Threads : NoEntryYet(t, a)
  THEN sizes[a] = 0 /\ heap[a] # <<>>
  ELSE sizes[a] = Len(heap[a])

SizeRight(t) ==
  (\/ pc[t] \in {"copy", "forget", "dealloc"}
   \/ pc[t] \in {"alloc", "record"} /\ call[t].op = "realloc")
  => call[t].size = Len(heap[call[t].p])

\* The block a call has got has the size it asked for.
NewRight(t) == pc[t] \in {"record", "zero", "copy"} => Len(heap[call[t].q]) = call[t].n

TableInv ==
  /\ \A a \in Addrs : EntryOf(a)
  /\ \A t \in Threads : SizeRight(t) /\ NewRight(t)

\* The leading bytes of a live block are those its owner may rely on, in the
\* owner's hands as well as inside a call.
StartsWith(s, p) == Len(p) <= Len(s) /\ \A i \in 1 .. Len(p) : s[i] = p[i]
BytesInv == \A a \in Addrs : heap[a] # <<>> => StartsWith(heap[a], known[a])

AllocInv == TypeOK /\ CallShape /\ OneOwner /\ TableInv /\ BytesInv

-----------------------------------------------------------------------------
(* The blocks as sequences.                                                *)

LEMMA EmptyIsLength ==
  ASSUME NEW s \in Seq(Bytes)
  PROVE  (s = <<>>) <=> (Len(s) = 0)
BY EmptySeq

LEMMA FilledBlock ==
  ASSUME NEW b \in Bytes, NEW n \in Nat
  PROVE  /\ Filled(b, n) \in Seq(Bytes)
         /\ Len(Filled(b, n)) = n
         /\ n # 0 => Filled(b, n) # <<>>
<1>1. Filled(b, n) \in [1 .. n -> Bytes]
  BY DEF Filled
<1>2. Filled(b, n) \in Seq(Bytes) /\ Len(Filled(b, n)) = n
  BY <1>1
<1> QED
  BY <1>2, EmptyIsLength

LEMMA Starts ==
  ASSUME NEW s \in Seq(Bytes)
  PROVE  StartsWith(s, s) /\ StartsWith(s, <<>>)
BY DEF StartsWith

LEMMA PrefixIsStart ==
  ASSUME NEW s \in Seq(Bytes), NEW p \in Seq(Bytes), StartsWith(s, p)
  PROVE  IsPrefix(p, s)
<1>1. Len(p) \in Nat /\ Len(s) \in Nat /\ Len(p) <= Len(s)
  BY DEF StartsWith
<1>2. SubSeq(p, 1, Len(p)) = SubSeq(s, 1, Len(p))
  <2>1. \A i \in 1 .. Len(p) : s[i] = p[i]
    BY DEF StartsWith
  <2>2. /\ SubSeq(p, 1, Len(p)) = [i \in 1 .. Len(p) |-> p[i]]
        /\ SubSeq(s, 1, Len(p)) = [i \in 1 .. Len(p) |-> s[i]]
    BY <1>1, SubSeqProperties
  <2> QED
    BY <2>1, <2>2
<1> QED
  BY <1>1, <1>2 DEF IsPrefix

-----------------------------------------------------------------------------
(* Types.                                                                  *)

USE AddrsAssumption, MaxSizeAssumption

Labels == {"idle", "alloc", "record", "zero", "lookup", "copy",
           "free_lookup", "forget", "dealloc"}
Calls == [op : {"none", "malloc", "malloc_zero", "realloc", "free"},
          p : Pointers, q : Addrs \cup {NULL}, n : 0 .. MaxSize,
          size : 0 .. MaxSize, db : BOOLEAN]

LEMMA TypesOfParts ==
  TypeOK <=> /\ heap \in [Addrs -> Seq(Bytes)]
             /\ known \in [Addrs -> Seq(Bytes)]
             /\ sizes \in [Addrs -> 0 .. MaxSize]
             /\ malloc_failed \in BOOLEAN
             /\ pc \in [Threads -> Labels]
             /\ call \in [Threads -> Calls]
             /\ held \in [Threads -> SUBSET Addrs]
BY DEF TypeOK, Labels, Calls

LEMMA TypesOfPartsNext ==
  TypeOK' <=> /\ heap' \in [Addrs -> Seq(Bytes)]
              /\ known' \in [Addrs -> Seq(Bytes)]
              /\ sizes' \in [Addrs -> 0 .. MaxSize]
              /\ malloc_failed' \in BOOLEAN
              /\ pc' \in [Threads -> Labels]
              /\ call' \in [Threads -> Calls]
              /\ held' \in [Threads -> SUBSET Addrs]
BY DEF TypeOK, Labels, Calls

LEMMA CallType ==
  ASSUME TypeOK, NEW t \in Threads
  PROVE  /\ call[t] \in Calls
         /\ call[t].op \in {"none", "malloc", "malloc_zero", "realloc", "free"}
         /\ call[t].p \in Pointers
         /\ call[t].q \in Addrs \cup {NULL}
         /\ call[t].n \in 0 .. MaxSize
         /\ call[t].size \in 0 .. MaxSize
         /\ call[t].db \in BOOLEAN
<1>1. call[t] \in Calls
  BY TypesOfParts
<1> QED
  BY <1>1 DEF Calls

LEMMA CallsAreRecords ==
  /\ NoCall \in Calls
  /\ \A op \in {"malloc", "malloc_zero", "realloc", "free"}, p \in Pointers,
        n \in 0 .. MaxSize, db \in BOOLEAN :
        /\ Call(op, p, n, db) \in Calls
        /\ Call(op, p, n, db) = [op |-> op, p |-> p, q |-> NULL, n |-> n, size |-> 0, db |-> db]
  /\ \A c \in Calls : /\ \A a \in Addrs : [c EXCEPT !.q = a] \in Calls
                      /\ \A m \in 0 .. MaxSize : [c EXCEPT !.size = m] \in Calls
<1>1. 0 \in 0 .. MaxSize
  OBVIOUS
<1>2. NoCall = [op |-> "none", p |-> NULL, q |-> NULL, n |-> 0, size |-> 0, db |-> FALSE]
  BY DEF NoCall
<1>3. NoCall \in Calls
  BY <1>1, <1>2 DEF Calls, Pointers
<1>4. ASSUME NEW op \in {"malloc", "malloc_zero", "realloc", "free"}, NEW p \in Pointers,
             NEW n \in 0 .. MaxSize, NEW db \in BOOLEAN
      PROVE  Call(op, p, n, db) = [op |-> op, p |-> p, q |-> NULL, n |-> n, size |-> 0, db |-> db]
  BY DEF Call, NoCall
<1>5. ASSUME NEW op \in {"malloc", "malloc_zero", "realloc", "free"}, NEW p \in Pointers,
             NEW n \in 0 .. MaxSize, NEW db \in BOOLEAN
      PROVE  [op |-> op, p |-> p, q |-> NULL, n |-> n, size |-> 0, db |-> db] \in Calls
  BY <1>1 DEF Calls
<1>6. ASSUME NEW c \in Calls, NEW a \in Addrs PROVE [c EXCEPT !.q = a] \in Calls
  BY DEF Calls
<1>7. ASSUME NEW c \in Calls, NEW m \in 0 .. MaxSize PROVE [c EXCEPT !.size = m] \in Calls
  BY DEF Calls
<1> QED
  BY <1>3, <1>4, <1>5, <1>6, <1>7

LEMMA ReturnTypes ==
  ASSUME TypeOK, NEW t \in Threads, NEW owned \in SUBSET Addrs, Return(t, owned)
  PROVE  /\ pc' \in [Threads -> Labels]
         /\ call' \in [Threads -> Calls]
         /\ held' \in [Threads -> SUBSET Addrs]
BY CallsAreRecords, TypesOfParts DEF Return, Goto, With, Labels

LEMMA GoOnTypes ==
  ASSUME TypeOK, NEW t \in Threads, NEW l \in Labels, Goto(t, l)
  PROVE  /\ pc' \in [Threads -> Labels]
         /\ \A c \in Calls : With(t, c) => call' \in [Threads -> Calls]
<1>1. pc \in [Threads -> Labels] /\ call \in [Threads -> Calls]
  BY TypesOfParts
<1>2. pc' \in [Threads -> Labels]
  BY <1>1 DEF Goto
<1>3. ASSUME NEW c \in Calls, With(t, c)
      PROVE  call' \in [Threads -> Calls]
  BY <1>1, <1>3 DEF With
<1> QED
  BY <1>2, <1>3

LEMMA CopiedBlock ==
  ASSUME TypeOK, CallShape, NEW t \in Threads, pc[t] = "copy"
  PROVE  /\ Copied(call[t]) \in Seq(Bytes)
         /\ Len(Copied(call[t])) = call[t].n
         /\ Copied(call[t]) # <<>>
<1> DEFINE c == call[t]
<1>1. c.n \in 1 .. MaxSize /\ c.p \in Addrs /\ c.q \in Addrs
  BY DEF CallShape, Shape
<1>2. \A a \in Addrs, i \in 1 .. MaxSize : ByteAt(a, i) \in Bytes
  <2> SUFFICES ASSUME NEW a \in Addrs, NEW i \in 1 .. MaxSize PROVE ByteAt(a, i) \in Bytes
    OBVIOUS
  <2>1. heap[a] \in Seq(Bytes)
    BY DEF TypeOK
  <2>2. i <= Len(heap[a]) => heap[a][i] \in Bytes
    BY <2>1, ElementOfSeq
  <2> QED
    BY <2>2 DEF ByteAt, Bytes
<1>3. Copied(c) \in [1 .. c.n -> Bytes]
  BY <1>1, <1>2 DEF Copied
<1>4. Copied(c) \in Seq(Bytes) /\ Len(Copied(c)) = c.n
  BY <1>1, <1>3
<1> QED
  BY <1>1, <1>4, EmptyIsLength

LEMMA TypeStep ==
  ASSUME AllocInv, [Next]_vars
  PROVE  TypeOK'
<1> USE DEF AllocInv
<1> USE TypesOfParts, TypesOfPartsNext
<1>1. ASSUME NEW t \in Threads, NEW z \in BOOLEAN, malloc(t, z) PROVE TypeOK'
  <2>1. CASE UNCHANGED <<pc, call>>
    BY <1>1, <2>1 DEF malloc
  <2>2. ASSUME NEW n \in Requests, NEW db \in BOOLEAN, ~Refused(n), Goto(t, "alloc"),
               With(t, Call(IF z THEN "malloc_zero" ELSE "malloc", NULL, n, db))
        PROVE  pc' \in [Threads -> Labels] /\ call' \in [Threads -> Calls]
    <3>1. n \in 0 .. MaxSize
      BY <2>2 DEF Requests, Refused
    <3>2. Call(IF z THEN "malloc_zero" ELSE "malloc", NULL, n, db) \in Calls
      BY <3>1, CallsAreRecords DEF Pointers
    <3> QED
      BY <2>2, <3>2, GoOnTypes DEF Labels
  <2> QED
    BY <1>1, <2>1, <2>2 DEF malloc
<1>2. ASSUME NEW t \in Threads, realloc(t) PROVE TypeOK'
  <2>1. ASSUME NEW p \in held[t] \cup {Foreign}, NEW n \in 0 .. MaxSize, NEW db \in BOOLEAN
        PROVE  p \in Pointers /\ Call("free", p, 0, FALSE) \in Calls /\ Call("realloc", p, n, db) \in Calls
    <3>1. p \in Pointers /\ 0 \in 0 .. MaxSize
      BY DEF Pointers
    <3> QED
      BY <3>1, CallsAreRecords
  <2>2. PICK p \in held[t] \cup {Foreign}, n \in Requests, db \in BOOLEAN :
          \/ UNCHANGED <<pc, call, held>>
          \/ /\ Goto(t, "free_lookup")
             /\ With(t, Call("free", p, 0, FALSE))
             /\ held' = [held EXCEPT ![t] = @ \ {p}]
          \/ /\ ~Refused(n)
             /\ Goto(t, "lookup")
             /\ With(t, Call("realloc", p, n, db))
             /\ held' = [held EXCEPT ![t] = @ \ {p}]
    BY <1>2, Zenon DEF realloc
  <2>3. ~Refused(n) => n \in 0 .. MaxSize
    BY DEF Refused, Requests
  <2>4. pc' \in [Threads -> Labels] /\ call' \in [Threads -> Calls]
    <3>1. CASE UNCHANGED <<pc, call, held>>
      BY <3>1
    <3>2. CASE Goto(t, "free_lookup") /\ With(t, Call("free", p, 0, FALSE))
      <4>1. 0 \in 0 .. MaxSize
        OBVIOUS
      <4>2. Call("free", p, 0, FALSE) \in Calls
        BY <2>1, <4>1
      <4> QED
        BY <3>2, <4>2, GoOnTypes DEF Labels
    <3>3. CASE ~Refused(n) /\ Goto(t, "lookup") /\ With(t, Call("realloc", p, n, db))
      BY <2>1, <2>3, <3>3, GoOnTypes DEF Labels
    <3> QED
      BY <2>2, <3>1, <3>2, <3>3
  <2>5. held' \in [Threads -> SUBSET Addrs]
    <3>1. held[t] \ {p} \in SUBSET Addrs
      OBVIOUS
    <3> QED
      BY <2>2, <3>1
  <2> QED
    BY <1>2, <2>4, <2>5 DEF realloc
<1>3. ASSUME NEW t \in Threads, free(t) PROVE TypeOK'
  <2>1. PICK p \in held[t] \cup {Foreign} :
          /\ Goto(t, "free_lookup")
          /\ With(t, Call("free", p, 0, FALSE))
          /\ held' = [held EXCEPT ![t] = @ \ {p}]
    BY <1>3, Zenon DEF free
  <2>2. Call("free", p, 0, FALSE) \in Calls
    <3>1. p \in Pointers /\ 0 \in 0 .. MaxSize
      BY DEF Pointers
    <3> QED
      BY <3>1, CallsAreRecords
  <2>3. pc' \in [Threads -> Labels] /\ call' \in [Threads -> Calls]
    BY <2>1, <2>2, GoOnTypes DEF Labels
  <2>4. held' \in [Threads -> SUBSET Addrs]
    BY <2>1
  <2> QED
    BY <1>3, <2>3, <2>4 DEF free
<1>4. ASSUME NEW t \in Threads, Fill(t) PROVE TypeOK'
  <2>1. PICK a \in held[t] : /\ heap' = [heap EXCEPT ![a] = Filled(t, Len(@))]
                             /\ known' = [known EXCEPT ![a] = heap'[a]]
    BY <1>4 DEF Fill
  <2>2. a \in Addrs /\ heap[a] \in Seq(Bytes)
    OBVIOUS
  <2>3. Len(heap[a]) \in Nat /\ t \in Bytes
    BY <2>2, LenProperties DEF Bytes
  <2>4. Filled(t, Len(heap[a])) \in Seq(Bytes)
    BY <2>3, FilledBlock
  <2>5. heap' \in [Addrs -> Seq(Bytes)] /\ known' \in [Addrs -> Seq(Bytes)]
    BY <2>1, <2>2, <2>4
  <2> QED
    BY <1>4, <2>5 DEF Fill
<1>5. ASSUME NEW t \in Threads, HeapAlloc(t) PROVE TypeOK'
  <2>1. call[t].n \in Nat
    BY CallType
  <2>2. Filled(Junk, call[t].n) \in Seq(Bytes) /\ <<>> \in Seq(Bytes)
    <3>1. Junk \in Bytes
      BY DEF Bytes
    <3> QED
      BY <2>1, <3>1, FilledBlock
  <2>3. PICK a \in Addrs : /\ heap' = [heap EXCEPT ![a] = Filled(Junk, call[t].n)]
                           /\ With(t, [call[t] EXCEPT !.q = a])
                           /\ known' = [known EXCEPT ![a] = <<>>]
    BY <1>5, Zenon DEF HeapAlloc
  <2>4. heap' \in [Addrs -> Seq(Bytes)] /\ known' \in [Addrs -> Seq(Bytes)]
    BY <2>2, <2>3
  <2>5. [call[t] EXCEPT !.q = a] \in Calls
    BY CallType, CallsAreRecords
  <2>6. pc' \in [Threads -> Labels] /\ call' \in [Threads -> Calls]
    BY <1>5, <2>3, <2>5, GoOnTypes DEF HeapAlloc, Labels
  <2> QED
    BY <1>5, <2>4, <2>6 DEF HeapAlloc
<1>6. ASSUME NEW t \in Threads, OutOfMemory(t) PROVE TypeOK'
  <2>1. malloc_failed' \in BOOLEAN
    BY <1>6, CallType DEF OutOfMemory, SetMallocFailed
  <2>2. Kept(t) \in SUBSET Addrs
    BY DEF Kept
  <2> QED
    BY <1>6, <2>1, <2>2, ReturnTypes DEF OutOfMemory
<1>7. ASSUME NEW t \in Threads, record_alloc(t) PROVE TypeOK'
  <2>1. call[t].q \in Addrs /\ call[t].n \in 0 .. MaxSize
    BY <1>7, CallType DEF record_alloc, CallShape, Shape
  <2>2. call[t].op \in {"malloc", "malloc_zero", "realloc"}
    BY <1>7 DEF record_alloc, CallShape, Shape
  <2>3. /\ sizes' = [sizes EXCEPT ![call[t].q] = call[t].n]
        /\ \/ Return(t, held[t] \cup {call[t].q})
           \/ Goto(t, "zero") /\ UNCHANGED <<call, held>>
           \/ Goto(t, "copy") /\ UNCHANGED <<call, held>>
        /\ UNCHANGED <<heap, malloc_failed, known>>
    BY <1>7, <2>2 DEF record_alloc
  <2>4. held[t] \cup {call[t].q} \in SUBSET Addrs
    BY <2>1
  <2>5. /\ pc' \in [Threads -> Labels]
        /\ call' \in [Threads -> Calls]
        /\ held' \in [Threads -> SUBSET Addrs]
    BY <2>3, <2>4, ReturnTypes, GoOnTypes DEF Labels
  <2> QED
    BY <2>1, <2>3, <2>5
<1>8. ASSUME NEW t \in Threads, WriteZeros(t) PROVE TypeOK'
  <2>1. call[t].q \in Addrs /\ call[t].n \in Nat
    BY <1>8, CallType DEF WriteZeros, CallShape, Shape
  <2>2. Filled(Zero, call[t].n) \in Seq(Bytes)
    BY <2>1, FilledBlock DEF Bytes
  <2>3. heap' \in [Addrs -> Seq(Bytes)] /\ known' \in [Addrs -> Seq(Bytes)]
    BY <1>8, <2>1, <2>2 DEF WriteZeros
  <2>4. held[t] \cup {call[t].q} \in SUBSET Addrs
    BY <2>1
  <2> QED
    BY <1>8, <2>3, <2>4, ReturnTypes DEF WriteZeros
<1>9. ASSUME NEW t \in Threads, ReallocLookup(t) PROVE TypeOK'
  <2>1. SizeOf(call[t].p) \in 0 .. MaxSize
    BY DEF SizeOf
  <2>2. [call[t] EXCEPT !.size = SizeOf(call[t].p)] \in Calls
    BY <2>1, CallType, CallsAreRecords
  <2>3. Kept(t) \in SUBSET Addrs
    BY DEF Kept
  <2>4. CASE SetMallocFailed(t) /\ Return(t, Kept(t))
    <3>1. malloc_failed' \in BOOLEAN
      BY <2>4, CallType DEF SetMallocFailed
    <3> QED
      BY <1>9, <2>3, <2>4, <3>1, ReturnTypes DEF ReallocLookup
  <2>5. CASE /\ Goto(t, "alloc")
             /\ With(t, [call[t] EXCEPT !.size = SizeOf(call[t].p)])
             /\ UNCHANGED <<malloc_failed, held>>
    BY <1>9, <2>2, <2>5, GoOnTypes DEF ReallocLookup, Labels
  <2> QED
    BY <1>9, <2>4, <2>5 DEF ReallocLookup
<1>10. ASSUME NEW t \in Threads, Copy(t) PROVE TypeOK'
  <2>1. pc[t] = "copy" /\ call[t].q \in Addrs /\ call[t].p \in Addrs /\ call[t].n \in Nat
    BY <1>10, CallType DEF Copy, CallShape, Shape
  <2>2. Copied(call[t]) \in Seq(Bytes)
    BY <2>1, CopiedBlock
  <2>3. known[call[t].p] \in Seq(Bytes)
    BY <2>1
  <2> DEFINE l == Lesser(Len(known[call[t].p]), call[t].n)
  <2>4. l \in Nat /\ l <= Len(known[call[t].p])
    BY <2>1, <2>3 DEF Lesser
  <2>5. \A i \in 1 .. l : known[call[t].p][i] \in Bytes
    BY <2>3, <2>4, ElementOfSeq
  <2>6. SubSeq(known[call[t].p], 1, l) \in Seq(Bytes)
    <3> HIDE DEF l
    <3> QED
      BY <2>4, <2>5, SubSeqProperties
  <2>7. heap' \in [Addrs -> Seq(Bytes)] /\ known' \in [Addrs -> Seq(Bytes)]
    BY <1>10, <2>1, <2>2, <2>6 DEF Copy
  <2> QED
    BY <1>10, <2>7, GoOnTypes DEF Copy, Labels
<1>11. ASSUME NEW t \in Threads, FreeLookup(t) PROVE TypeOK'
  <2>1. SizeOf(call[t].p) \in 0 .. MaxSize
    BY DEF SizeOf
  <2>2. [call[t] EXCEPT !.size = SizeOf(call[t].p)] \in Calls
    BY <2>1, CallType, CallsAreRecords
  <2>3. held[t] \cup ({call[t].q} \ {NULL}) \in SUBSET Addrs
    BY CallType
  <2>4. CASE Return(t, held[t] \cup ({call[t].q} \ {NULL}))
    BY <1>11, <2>3, <2>4, ReturnTypes DEF FreeLookup
  <2>5. CASE /\ Goto(t, "forget")
             /\ With(t, [call[t] EXCEPT !.size = SizeOf(call[t].p)])
             /\ UNCHANGED held
    BY <1>11, <2>2, <2>5, GoOnTypes DEF FreeLookup, Labels
  <2> QED
    BY <1>11, <2>4, <2>5 DEF FreeLookup
<1>12. ASSUME NEW t \in Threads, forget_alloc(t) PROVE TypeOK'
  <2>1. sizes' = [sizes EXCEPT ![call[t].p] = 0] /\ heap' = heap
    BY <1>12 DEF forget_alloc, FreeStep, Release
  <2>2. sizes' \in [Addrs -> 0 .. MaxSize]
    <3>1. 0 \in 0 .. MaxSize
      OBVIOUS
    <3> QED
      BY <2>1, <3>1
  <2> QED
    BY <1>12, <2>1, <2>2, GoOnTypes DEF forget_alloc, Labels
<1>13. ASSUME NEW t \in Threads, Dealloc(t) PROVE TypeOK'
  <2>1. heap' = [heap EXCEPT ![call[t].p] = <<>>] /\ sizes' = sizes
    BY <1>13 DEF Dealloc, FreeStep, Release
  <2>2. heap' \in [Addrs -> Seq(Bytes)]
    <3>1. <<>> \in Seq(Bytes)
      OBVIOUS
    <3> QED
      BY <2>1, <3>1
  <2>3. held[t] \cup ({call[t].q} \ {NULL}) \in SUBSET Addrs
    BY CallType
  <2> QED
    BY <1>13, <2>1, <2>2, <2>3, ReturnTypes DEF Dealloc
<1>14. CASE UNCHANGED vars
  BY <1>14 DEF vars
<1> QED
  BY <1>1, <1>2, <1>3, <1>4, <1>5, <1>6, <1>7, <1>8, <1>9, <1>10, <1>11, <1>12, <1>13, <1>14 DEF Next

-----------------------------------------------------------------------------
(* The locals of the calls.                                                *)

\* Every action is of one thread and leaves the calls of the others alone.
LEMMA OthersKeepShape ==
  ASSUME TypeOK, CallShape, NEW t \in Threads, NEW l \in Labels, NEW c \in Calls,
         Goto(t, l), With(t, c), Shape(t)'
  PROVE  CallShape'
<1>1. \A u \in Threads \ {t} : pc'[u] = pc[u] /\ call'[u] = call[u]
  BY TypesOfParts DEF Goto, With
<1>2. \A u \in Threads \ {t} : Shape(u)'
  BY <1>1 DEF CallShape, Shape
<1> QED
  BY <1>2 DEF CallShape

LEMMA OthersKeepShapeSameCall ==
  ASSUME TypeOK, CallShape, NEW t \in Threads, NEW l \in Labels,
         Goto(t, l), call' = call, Shape(t)'
  PROVE  CallShape'
<1>1. \A u \in Threads \ {t} : pc'[u] = pc[u] /\ call'[u] = call[u]
  BY TypesOfParts DEF Goto
<1>2. \A u \in Threads \ {t} : Shape(u)'
  BY <1>1 DEF CallShape, Shape
<1> QED
  BY <1>2 DEF CallShape

LEMMA NewLocals ==
  ASSUME TypeOK, NEW t \in Threads, NEW l, NEW c
  PROVE  /\ Goto(t, l) => pc'[t] = l
         /\ With(t, c) => call'[t] = c
BY TypesOfParts DEF Goto, With

LEMMA ReturnShape ==
  ASSUME TypeOK, CallShape, NEW t \in Threads, NEW owned, Return(t, owned)
  PROVE  CallShape'
<1>1. Goto(t, "idle") /\ With(t, NoCall)
  BY DEF Return
<1>2. pc'[t] = "idle" /\ call'[t] = NoCall
  BY <1>1, NewLocals
<1>3. Shape(t)'
  BY <1>2 DEF Shape, NoCall
<1> QED
  BY <1>1, <1>3, OthersKeepShape, CallsAreRecords DEF Labels

\* A new call begins.
LEMMA CallBegins ==
  ASSUME TypeOK, CallShape, NEW t \in Threads, NEW l \in {"alloc", "lookup", "free_lookup"},
         NEW op \in {"malloc", "malloc_zero", "realloc", "free"}, NEW p \in Pointers,
         NEW n \in 0 .. MaxSize, NEW db \in BOOLEAN,
         Goto(t, l), With(t, Call(op, p, n, db)),
         l = "alloc" => op \in {"malloc", "malloc_zero"} /\ p = NULL /\ n # 0,
         l = "lookup" => op = "realloc" /\ p # NULL /\ n # 0,
         l = "free_lookup" => op = "free" /\ p # NULL
  PROVE  CallShape'
<1>1. pc'[t] = l /\ call'[t] = Call(op, p, n, db)
  BY NewLocals
<1>2. call'[t] = [op |-> op, p |-> p, q |-> NULL, n |-> n, size |-> 0, db |-> db]
  BY <1>1, CallsAreRecords
<1>3. n # 0 => n \in 1 .. MaxSize
  OBVIOUS
<1>4. p # NULL => p \in Addrs \cup {Foreign}
  BY DEF Pointers
<1>5. Shape(t)'
  BY <1>1, <1>2, <1>3, <1>4 DEF Shape
<1> QED
  BY <1>5, OthersKeepShape, CallsAreRecords DEF Labels

LEMMA ShapeStep ==
  ASSUME AllocInv, [Next]_vars
  PROVE  CallShape'
<1> USE DEF AllocInv
<1>1. ASSUME NEW t \in Threads, NEW z \in BOOLEAN, malloc(t, z) PROVE CallShape'
  <2>1. CASE UNCHANGED <<pc, call>>
    BY <2>1 DEF CallShape, Shape
  <2>2. ASSUME NEW n \in Requests, NEW db \in BOOLEAN, ~Refused(n), Goto(t, "alloc"),
               With(t, Call(IF z THEN "malloc_zero" ELSE "malloc", NULL, n, db))
        PROVE  CallShape'
    <3>1. n \in 0 .. MaxSize /\ n # 0
      BY <2>2 DEF Requests, Refused
    <3>2. (IF z THEN "malloc_zero" ELSE "malloc") \in {"malloc", "malloc_zero"} /\ NULL \in Pointers
      BY DEF Pointers
    <3> QED
      BY <2>2, <3>1, <3>2, CallBegins
  <2> QED
    BY <1>1, <2>1, <2>2 DEF malloc
<1>2. ASSUME NEW t \in Threads, realloc(t) PROVE CallShape'
  <2>1. PICK p \in held[t] \cup {Foreign}, n \in Requests, db \in BOOLEAN :
          \/ UNCHANGED <<pc, call>>
          \/ Goto(t, "free_lookup") /\ With(t, Call("free", p, 0, FALSE))
          \/ ~Refused(n) /\ Goto(t, "lookup") /\ With(t, Call("realloc", p, n, db))
    BY <1>2, Zenon DEF realloc
  <2>2. p \in Pointers /\ p # NULL
    BY TypesOfParts DEF Pointers
  <2>3. CASE UNCHANGED <<pc, call>>
    BY <2>3 DEF CallShape, Shape
  <2>4. CASE Goto(t, "free_lookup") /\ With(t, Call("free", p, 0, FALSE))
    <3>1. 0 \in 0 .. MaxSize
      OBVIOUS
    <3> QED
      BY <2>2, <2>4, <3>1, CallBegins
  <2>5. CASE ~Refused(n) /\ Goto(t, "lookup") /\ With(t, Call("realloc", p, n, db))
    <3>1. n \in 0 .. MaxSize /\ n # 0
      BY <2>5 DEF Requests, Refused
    <3> QED
      BY <2>2, <2>5, <3>1, CallBegins
  <2> QED
    BY <2>1, <2>3, <2>4, <2>5
<1>3. ASSUME NEW t \in Threads, free(t) PROVE CallShape'
  <2>1. PICK p \in held[t] \cup {Foreign} :
          Goto(t, "free_lookup") /\ With(t, Call("free", p, 0, FALSE))
    BY <1>3, Zenon DEF free
  <2>2. p \in Pointers /\ p # NULL /\ 0 \in 0 .. MaxSize
    BY TypesOfParts DEF Pointers
  <2> QED
    BY <2>1, <2>2, CallBegins
<1>4. ASSUME NEW t \in Threads, Fill(t) PROVE CallShape'
  BY <1>4 DEF Fill, CallShape, Shape
<1>5. ASSUME NEW t \in Threads, HeapAlloc(t) PROVE CallShape'
  <2>1. PICK a \in Addrs : heap[a] = <<>> /\ With(t, [call[t] EXCEPT !.q = a])
    BY <1>5, Zenon DEF HeapAlloc
  <2> DEFINE c == [call[t] EXCEPT !.q = a]
  <2>2. c \in Calls /\ c.q = a /\ c.p = call[t].p /\ c.n = call[t].n /\ c.op = call[t].op
    BY CallType, CallsAreRecords DEF Calls
  <2>3. call[t].p \in Addrs => heap[call[t].p] # <<>>
    BY DEF OneOwner, Live, InCall
  <2>4. c.p # a
    <3>1. call[t].p = NULL \/ call[t].p \in Addrs
      BY <1>5 DEF HeapAlloc, CallShape, Shape
    <3> QED
      BY <2>1, <2>2, <2>3, <3>1
  <2>5. pc'[t] = "record" /\ call'[t] = c
    BY <1>5, <2>1, NewLocals DEF HeapAlloc
  <2>6. Shape(t)'
    <3> HIDE DEF c
    <3> QED
      BY <1>5, <2>2, <2>4, <2>5 DEF HeapAlloc, CallShape, Shape
  <2> QED
    BY <1>5, <2>1, <2>2, <2>6, OthersKeepShape DEF HeapAlloc, Labels
<1>6. ASSUME NEW t \in Threads, OutOfMemory(t) PROVE CallShape'
  BY <1>6, ReturnShape DEF OutOfMemory
<1>7. ASSUME NEW t \in Threads, record_alloc(t) PROVE CallShape'
  <2>1. pc[t] = "record" /\ Shape(t)
    BY <1>7 DEF record_alloc, CallShape
  <2>2. \/ Return(t, held[t] \cup {call[t].q})
        \/ call[t].op = "malloc_zero" /\ Goto(t, "zero") /\ call' = call
        \/ call[t].op = "realloc" /\ Goto(t, "copy") /\ call' = call
    BY <1>7, <2>1 DEF record_alloc, Shape
  <2>3. CASE call[t].op = "malloc_zero" /\ Goto(t, "zero") /\ call' = call
    <3>1. pc'[t] = "zero"
      BY <2>3, NewLocals
    <3>2. Shape(t)'
      BY <2>1, <2>3, <3>1 DEF Shape
    <3> QED
      BY <2>3, <3>2, OthersKeepShapeSameCall DEF Labels
  <2>4. CASE call[t].op = "realloc" /\ Goto(t, "copy") /\ call' = call
    <3>1. pc'[t] = "copy"
      BY <2>4, NewLocals
    <3>2. Shape(t)'
      BY <2>1, <2>4, <3>1 DEF Shape
    <3> QED
      BY <2>4, <3>2, OthersKeepShapeSameCall DEF Labels
  <2> QED
    BY <2>2, <2>3, <2>4, ReturnShape
<1>8. ASSUME NEW t \in Threads, WriteZeros(t) PROVE CallShape'
  BY <1>8, ReturnShape DEF WriteZeros
<1>9. ASSUME NEW t \in Threads, ReallocLookup(t) PROVE CallShape'
  <2>1. CASE Return(t, Kept(t))
    BY <2>1, ReturnShape
  <2>2. CASE /\ SizeOf(call[t].p) # 0
             /\ Goto(t, "alloc")
             /\ With(t, [call[t] EXCEPT !.size = SizeOf(call[t].p)])
    <3> DEFINE c == [call[t] EXCEPT !.size = SizeOf(call[t].p)]
    <3>1. SizeOf(call[t].p) \in 0 .. MaxSize /\ call[t].p \in Addrs
      BY <2>2, TypesOfParts DEF SizeOf
    <3>2. c \in Calls /\ c.p = call[t].p /\ c.q = call[t].q /\ c.n = call[t].n /\ c.op = call[t].op
      BY <3>1, CallType, CallsAreRecords DEF Calls
    <3>3. pc'[t] = "alloc" /\ call'[t] = c
      BY <2>2, NewLocals
    <3>4. Shape(t)'
      <4> HIDE DEF c
      <4> QED
        BY <1>9, <3>1, <3>2, <3>3 DEF ReallocLookup, CallShape, Shape
    <3> QED
      BY <2>2, <3>2, <3>4, OthersKeepShape DEF Labels
  <2> QED
    BY <1>9, <2>1, <2>2 DEF ReallocLookup
<1>10. ASSUME NEW t \in Threads, Copy(t) PROVE CallShape'
  <2>1. pc[t] = "copy" /\ Shape(t) /\ Goto(t, "free_lookup") /\ call' = call
    BY <1>10 DEF Copy, CallShape
  <2>2. pc'[t] = "free_lookup"
    BY <2>1, NewLocals
  <2>3. Shape(t)'
    BY <2>1, <2>2 DEF Shape
  <2> QED
    BY <2>1, <2>3, OthersKeepShapeSameCall DEF Labels
<1>11. ASSUME NEW t \in Threads, FreeLookup(t) PROVE CallShape'
  <2>1. CASE Return(t, held[t] \cup ({call[t].q} \ {NULL}))
    BY <2>1, ReturnShape
  <2>2. CASE /\ SizeOf(call[t].p) # 0
             /\ Goto(t, "forget")
             /\ With(t, [call[t] EXCEPT !.size = SizeOf(call[t].p)])
    <3> DEFINE c == [call[t] EXCEPT !.size = SizeOf(call[t].p)]
    <3>1. SizeOf(call[t].p) \in 0 .. MaxSize /\ call[t].p \in Addrs
      BY <2>2, TypesOfParts DEF SizeOf
    <3>2. c \in Calls /\ c.p = call[t].p /\ c.q = call[t].q
      BY <3>1, CallType, CallsAreRecords DEF Calls
    <3>3. pc'[t] = "forget" /\ call'[t] = c
      BY <2>2, NewLocals
    <3>4. Shape(t)'
      <4> HIDE DEF c
      <4> QED
        BY <1>11, <3>1, <3>2, <3>3 DEF FreeLookup, CallShape, Shape
    <3> QED
      BY <2>2, <3>2, <3>4, OthersKeepShape DEF Labels
  <2> QED
    BY <1>11, <2>1, <2>2 DEF FreeLookup
<1>12. ASSUME NEW t \in Threads, forget_alloc(t) PROVE CallShape'
  <2>1. pc[t] = "forget" /\ Shape(t) /\ Goto(t, "dealloc") /\ call' = call
    BY <1>12 DEF forget_alloc, CallShape
  <2>2. pc'[t] = "dealloc"
    BY <2>1, NewLocals
  <2>3. Shape(t)'
    BY <2>1, <2>2 DEF Shape
  <2> QED
    BY <2>1, <2>3, OthersKeepShapeSameCall DEF Labels
<1>13. ASSUME NEW t \in Threads, Dealloc(t) PROVE CallShape'
  BY <1>13, ReturnShape DEF Dealloc
<1>14. CASE UNCHANGED vars
  BY <1>14 DEF vars, CallShape, Shape
<1> QED
  BY <1>1, <1>2, <1>3, <1>4, <1>5, <1>6, <1>7, <1>8, <1>9, <1>10, <1>11, <1>12, <1>13, <1>14 DEF Next

-----------------------------------------------------------------------------
(* Owners.                                                                 *)

\* A step of t that takes Fresh blocks into t's hands and Gone ones out of
\* them, where the heap does the same.
LEMMA OwnerChange ==
  ASSUME OneOwner, NEW t \in Threads, NEW Fresh \in SUBSET Addrs, NEW Gone \in SUBSET Addrs,
         \A u \in Threads \ {t} : held'[u] = held[u] /\ call'[u] = call[u],
         held'[t] \cap InCall(t)' = {},
         Owned(t)' = (Owned(t) \ Gone) \cup Fresh,
         Live' = (Live \ Gone) \cup Fresh,
         Fresh \cap Live = {},
         Gone \subseteq Owned(t)
  PROVE  OneOwner'
<1>1. \A u \in Threads \ {t} : InCall(u)' = InCall(u) /\ Owned(u)' = Owned(u)
  BY DEF InCall, Owned
<1>2. \A u \in Threads : held[u] \cap InCall(u) = {}
  BY DEF OneOwner
<1>3. \A u, v \in Threads : u # v => Owned(u) \cap Owned(v) = {}
  BY DEF OneOwner, Owned
<1>4. Live = UNION {Owned(u) : u \in Threads}
  BY DEF OneOwner, Owned
<1>5. \A u \in Threads : held'[u] \cap InCall(u)' = {}
  BY <1>1, <1>2
<1>6. \A u, v \in Threads : u # v => Owned(u)' \cap Owned(v)' = {}
  <2>1. \A u \in Threads : Owned(u) \subseteq Live
    BY <1>4
  <2>2. \A u \in Threads \ {t} : Owned(u) \cap Fresh = {}
    BY <2>1
  <2>3. \A u \in Threads \ {t} : Owned(t)' \cap Owned(u)' = {}
    BY <1>1, <1>3, <2>2
  <2> QED
    BY <1>1, <1>3, <2>3
<1>7. Live' = UNION {Owned(u)' : u \in Threads}
  <2>1. ASSUME NEW a \in Live' PROVE \E u \in Threads : a \in Owned(u)'
    <3>1. CASE a \in Fresh
      BY <3>1
    <3>2. CASE a \in Live \ Gone
      <4>1. PICK u \in Threads : a \in Owned(u)
        BY <1>4, <3>2
      <4> QED
        BY <1>1, <3>2, <4>1
    <3> QED
      BY <2>1, <3>1, <3>2
  <2>2. ASSUME NEW u \in Threads, NEW a \in Owned(u)' PROVE a \in Live'
    <3>1. CASE u = t
      BY <1>4, <3>1
    <3>2. CASE u # t
      <4>1. a \in Owned(u)
        BY <1>1, <3>2
      <4>2. a \notin Gone
        BY <1>3, <3>2, <4>1
      <4> QED
        BY <1>4, <4>1, <4>2
    <3> QED
      BY <3>1, <3>2
  <2> QED
    BY <2>1, <2>2
<1> QED
  BY <1>5, <1>6, <1>7 DEF OneOwner, Owned

\* A step that moves blocks only between t's hands and t's call.
LEMMA OwnerKept ==
  ASSUME OneOwner, NEW t \in Threads,
         \A u \in Threads \ {t} : held'[u] = held[u] /\ call'[u] = call[u],
         held'[t] \cap InCall(t)' = {},
         Owned(t)' = Owned(t),
         Live' = Live
  PROVE  OneOwner'
<1>1. /\ Owned(t)' = (Owned(t) \ {}) \cup {}
      /\ Live' = (Live \ {}) \cup {}
      /\ {} \in SUBSET Addrs /\ {} \cap Live = {} /\ {} \subseteq Owned(t)
  OBVIOUS
<1> QED
  BY <1>1, OwnerChange

\* A call that returns with every block of it in t's hands, but for Gone ones.
LEMMA OwnerReturn ==
  ASSUME TypeOK, OneOwner, NEW t \in Threads, NEW owned \in SUBSET Addrs, Return(t, owned)
  PROVE  /\ \A u \in Threads \ {t} : held'[u] = held[u] /\ call'[u] = call[u]
         /\ held'[t] = owned
         /\ InCall(t)' = {}
         /\ Owned(t)' = owned
<1>1. /\ \A u \in Threads \ {t} : held'[u] = held[u] /\ call'[u] = call[u]
      /\ held'[t] = owned
      /\ call'[t] = NoCall
  BY TypesOfParts DEF Return, With
<1>2. InCall(t)' = {}
  BY <1>1 DEF InCall, NoCall
<1> QED
  BY <1>1, <1>2 DEF Owned

LEMMA OwnedBlocks ==
  ASSUME TypeOK, OneOwner, NEW t \in Threads
  PROVE  /\ held[t] \in SUBSET Addrs
         /\ InCall(t) \in SUBSET Addrs
         /\ held[t] \cap InCall(t) = {}
         /\ \A a \in Owned(t) : heap[a] # <<>>
BY TypesOfParts DEF OneOwner, InCall, Owned, Live

\* The block that a call is about is given up into it, or it is Foreign.
LEMMA OwnerGivesUp ==
  ASSUME AllocInv, NEW t \in Threads, pc[t] = "idle", NEW l, NEW p \in held[t] \cup {Foreign},
         NEW op \in {"malloc", "malloc_zero", "realloc", "free"},
         NEW n \in 0 .. MaxSize, NEW db \in BOOLEAN,
         With(t, Call(op, p, n, db)),
         held' = [held EXCEPT ![t] = @ \ {p}],
         heap' = heap
  PROVE  OneOwner'
<1> USE DEF AllocInv
<1>1. InCall(t) = {}
  BY DEF CallShape, Shape, InCall, NoCall
<1>2. p \in Pointers /\ held[t] \in SUBSET Addrs
  BY TypesOfParts DEF Pointers
<1>3. /\ \A u \in Threads \ {t} : held'[u] = held[u] /\ call'[u] = call[u]
      /\ held'[t] = held[t] \ {p}
      /\ call'[t] = Call(op, p, n, db)
  BY TypesOfParts DEF With
<1>4. InCall(t)' = {p} \cap Addrs
  BY <1>2, <1>3, CallsAreRecords DEF InCall
<1>5. Owned(t)' = Owned(t) /\ held'[t] \cap InCall(t)' = {}
  BY <1>1, <1>2, <1>3, <1>4 DEF Owned
<1> QED
  BY <1>3, <1>5, OwnerKept DEF Live

LEMMA OwnerStep ==
  ASSUME AllocInv, [Next]_vars
  PROVE  OneOwner'
<1> USE DEF AllocInv
<1>1. ASSUME NEW t \in Threads, NEW z \in BOOLEAN, malloc(t, z) PROVE OneOwner'
  <2>1. CASE UNCHANGED <<pc, call>>
    BY <1>1, <2>1 DEF malloc, OneOwner, InCall, Live
  <2>2. ASSUME NEW n \in Requests, NEW db \in BOOLEAN, ~Refused(n),
               With(t, Call(IF z THEN "malloc_zero" ELSE "malloc", NULL, n, db))
        PROVE  OneOwner'
    <3>1. n \in 0 .. MaxSize /\ NULL \in Pointers
      BY <2>2 DEF Requests, Refused, Pointers
    <3>2. call'[t] = Call(IF z THEN "malloc_zero" ELSE "malloc", NULL, n, db)
      BY <2>2, NewLocals
    <3>3. call'[t].p = NULL /\ call'[t].q = NULL
      BY <3>1, <3>2, CallsAreRecords
    <3>4. InCall(t)' = {} /\ InCall(t) = {}
      BY <1>1, <3>3 DEF InCall, malloc, CallShape, Shape, NoCall
    <3>5. /\ \A u \in Threads \ {t} : held'[u] = held[u] /\ call'[u] = call[u]
          /\ held'[t] = held[t]
          /\ Live' = Live
      BY <1>1, <2>2, TypesOfParts DEF malloc, With, Live
    <3> QED
      BY <3>4, <3>5, OwnerKept DEF Owned
  <2> QED
    BY <1>1, <2>1, <2>2 DEF malloc
<1>2. ASSUME NEW t \in Threads, realloc(t) PROVE OneOwner'
  <2>1. PICK p \in held[t] \cup {Foreign}, n \in Requests, db \in BOOLEAN :
          \/ UNCHANGED <<call, held>>
          \/ With(t, Call("free", p, 0, FALSE)) /\ held' = [held EXCEPT ![t] = @ \ {p}]
          \/ ~Refused(n) /\ With(t, Call("realloc", p, n, db)) /\ held' = [held EXCEPT ![t] = @ \ {p}]
    BY <1>2, Zenon DEF realloc
  <2>2. heap' = heap /\ pc[t] = "idle" /\ 0 \in 0 .. MaxSize
    BY <1>2 DEF realloc
  <2>3. ~Refused(n) => n \in 0 .. MaxSize
    BY DEF Refused, Requests
  <2>4. CASE UNCHANGED <<call, held>>
    BY <2>2, <2>4 DEF OneOwner, InCall, Live
  <2>5. CASE With(t, Call("free", p, 0, FALSE)) /\ held' = [held EXCEPT ![t] = @ \ {p}]
    BY <2>2, <2>5, OwnerGivesUp
  <2>6. CASE /\ ~Refused(n)
             /\ With(t, Call("realloc", p, n, db))
             /\ held' = [held EXCEPT ![t] = @ \ {p}]
    BY <2>2, <2>3, <2>6, OwnerGivesUp
  <2> QED
    BY <2>1, <2>4, <2>5, <2>6
<1>3. ASSUME NEW t \in Threads, free(t) PROVE OneOwner'
  <2>1. PICK p \in held[t] \cup {Foreign} :
          With(t, Call("free", p, 0, FALSE)) /\ held' = [held EXCEPT ![t] = @ \ {p}]
    BY <1>3, Zenon DEF free
  <2>2. heap' = heap /\ pc[t] = "idle" /\ 0 \in 0 .. MaxSize
    BY <1>3 DEF free
  <2> QED
    BY <2>1, <2>2, OwnerGivesUp
<1>4. ASSUME NEW t \in Threads, Fill(t) PROVE OneOwner'
  <2>1. PICK a \in held[t] : heap' = [heap EXCEPT ![a] = Filled(t, Len(@))]
    BY <1>4 DEF Fill
  <2>2. a \in Addrs /\ heap[a] # <<>> /\ heap[a] \in Seq(Bytes)
    BY OwnedBlocks, TypesOfParts DEF Owned
  <2>3. Len(heap[a]) \in Nat /\ Len(heap[a]) # 0 /\ t \in Bytes
    BY <2>2, EmptyIsLength, LenProperties DEF Bytes
  <2>4. Filled(t, Len(heap[a])) # <<>>
    BY <2>3, FilledBlock
  <2>5. Live' = Live
    BY <2>1, <2>2, <2>4, TypesOfParts DEF Live
  <2> QED
    BY <1>4, <2>5 DEF Fill, OneOwner, InCall
<1>5. ASSUME NEW t \in Threads, HeapAlloc(t) PROVE OneOwner'
  <2>1. PICK a \in Addrs : /\ heap[a] = <<>>
                           /\ heap' = [heap EXCEPT ![a] = Filled(Junk, call[t].n)]
                           /\ With(t, [call[t] EXCEPT !.q = a])
    BY <1>5, Zenon DEF HeapAlloc
  <2>2. call[t].n \in Nat /\ call[t].n # 0 /\ call[t].q = NULL /\ Junk \in Bytes
    BY <1>5, CallType DEF HeapAlloc, CallShape, Shape, Bytes
  <2>3. Filled(Junk, call[t].n) # <<>>
    BY <2>2, FilledBlock
  <2>4. a \notin Live /\ Live' = (Live \ {}) \cup {a}
    BY <2>1, <2>3, TypesOfParts DEF Live
  <2>5. call'[t].p = call[t].p /\ call'[t].q = a
    <3>1. call'[t] = [call[t] EXCEPT !.q = a]
      BY <2>1, NewLocals
    <3> QED
      BY <3>1, CallType DEF Calls
  <2>6. InCall(t)' = InCall(t) \cup {a}
    BY <2>2, <2>5 DEF InCall
  <2>7. held' = held /\ \A u \in Threads \ {t} : call'[u] = call[u]
    BY <1>5, <2>1, TypesOfParts DEF HeapAlloc, With
  <2>8. held[t] \subseteq Live /\ held[t] \cap InCall(t) = {}
    BY OwnedBlocks DEF Live, Owned
  <2>9. held'[t] \cap InCall(t)' = {} /\ Owned(t)' = (Owned(t) \ {}) \cup {a}
    BY <2>4, <2>6, <2>7, <2>8 DEF Owned
  <2>10. {a} \in SUBSET Addrs /\ {} \in SUBSET Addrs /\ {} \subseteq Owned(t) /\ {a} \cap Live = {}
    BY <2>4
  <2> QED
    BY <2>4, <2>7, <2>9, <2>10, OwnerChange
<1>6. ASSUME NEW t \in Threads, OutOfMemory(t) PROVE OneOwner'
  <2>1. Kept(t) \in SUBSET Addrs /\ Kept(t) = Owned(t)
    BY <1>6, OwnedBlocks DEF OutOfMemory, Kept, Owned, InCall, CallShape, Shape
  <2>2. Live' = Live /\ Return(t, Kept(t))
    BY <1>6 DEF OutOfMemory, Live
  <2> QED
    BY <2>1, <2>2, OwnerReturn, OwnerKept
<1>7. ASSUME NEW t \in Threads, record_alloc(t) PROVE OneOwner'
  <2>1. Live' = Live
    BY <1>7 DEF record_alloc, Live
  <2>2. pc[t] = "record" /\ Shape(t)
    BY <1>7 DEF record_alloc, CallShape
  <2>3. \/ call[t].op = "malloc" /\ Return(t, held[t] \cup {call[t].q})
        \/ call[t].op = "malloc_zero" /\ UNCHANGED <<call, held>>
        \/ call[t].op = "realloc" /\ UNCHANGED <<call, held>>
    BY <1>7, <2>2 DEF record_alloc, Shape
  <2>4. CASE call[t].op = "malloc" /\ Return(t, held[t] \cup {call[t].q})
    <3>1. call[t].p = NULL /\ call[t].q \in Addrs
      BY <2>2, <2>4 DEF Shape
    <3>2. held[t] \cup {call[t].q} \in SUBSET Addrs /\ held[t] \cup {call[t].q} = Owned(t)
      BY <3>1, OwnedBlocks DEF Owned, InCall
    <3> QED
      BY <2>1, <2>4, <3>2, OwnerReturn, OwnerKept
  <2>5. CASE UNCHANGED <<call, held>>
    BY <2>1, <2>5 DEF OneOwner, InCall
  <2> QED
    BY <2>3, <2>4, <2>5
<1>8. ASSUME NEW t \in Threads, WriteZeros(t) PROVE OneOwner'
  <2>1. pc[t] = "zero" /\ call[t].q \in Addrs /\ call[t].p = NULL /\ call[t].n \in Nat /\ call[t].n # 0
    BY <1>8, CallType DEF WriteZeros, CallShape, Shape
  <2>2. Filled(Zero, call[t].n) # <<>>
    BY <2>1, FilledBlock DEF Bytes
  <2>3. heap[call[t].q] # <<>>
    BY <2>1, OwnedBlocks DEF Owned, InCall
  <2>4. Live' = Live
    BY <1>8, <2>1, <2>2, <2>3, TypesOfParts DEF WriteZeros, Live
  <2>5. held[t] \cup {call[t].q} \in SUBSET Addrs /\ held[t] \cup {call[t].q} = Owned(t)
    BY <2>1, OwnedBlocks DEF Owned, InCall
  <2> QED
    BY <1>8, <2>4, <2>5, OwnerReturn, OwnerKept DEF WriteZeros
<1>9. ASSUME NEW t \in Threads, ReallocLookup(t) PROVE OneOwner'
  <2>1. Live' = Live
    BY <1>9 DEF ReallocLookup, Live
  <2>2. pc[t] = "lookup" /\ Shape(t)
    BY <1>9 DEF ReallocLookup, CallShape
  <2>3. CASE Return(t, Kept(t))
    <3>1. Kept(t) \in SUBSET Addrs /\ Kept(t) = Owned(t)
      BY <2>2, OwnedBlocks DEF Kept, Owned, InCall, Shape
    <3> QED
      BY <2>1, <2>3, <3>1, OwnerReturn, OwnerKept
  <2>4. CASE With(t, [call[t] EXCEPT !.size = SizeOf(call[t].p)]) /\ held' = held
    <3>1. call'[t] = [call[t] EXCEPT !.size = SizeOf(call[t].p)]
      BY <2>4, NewLocals
    <3>2. call'[t].p = call[t].p /\ call'[t].q = call[t].q
      BY <3>1, CallType DEF Calls
    <3>3. \A u \in Threads \ {t} : call'[u] = call[u]
      BY <2>4, TypesOfParts DEF With
    <3> QED
      BY <2>1, <2>4, <3>2, <3>3 DEF OneOwner, InCall
  <2> QED
    BY <1>9, <2>3, <2>4 DEF ReallocLookup
<1>10. ASSUME NEW t \in Threads, Copy(t) PROVE OneOwner'
  <2>1. pc[t] = "copy" /\ call[t].q \in Addrs
    BY <1>10 DEF Copy, CallShape, Shape
  <2>2. heap[call[t].q] # <<>>
    BY <2>1, OwnedBlocks DEF Owned, InCall
  <2>3. Copied(call[t]) # <<>>
    BY <2>1, CopiedBlock
  <2>4. Live' = Live
    BY <1>10, <2>1, <2>2, <2>3, TypesOfParts DEF Copy, Live
  <2> QED
    BY <1>10, <2>4 DEF Copy, OneOwner, InCall
<1>11. ASSUME NEW t \in Threads, FreeLookup(t) PROVE OneOwner'
  <2>1. Live' = Live
    BY <1>11 DEF FreeLookup, Live
  <2>2. pc[t] = "free_lookup" /\ Shape(t)
    BY <1>11 DEF FreeLookup, CallShape
  <2>3. CASE SizeOf(call[t].p) = 0 /\ Return(t, held[t] \cup ({call[t].q} \ {NULL}))
    <3>1. call[t].p \notin Addrs
      <4> SUFFICES ASSUME call[t].p \in Addrs PROVE FALSE
        OBVIOUS
      <4>1. call[t].p \in Owned(t) /\ heap[call[t].p] # <<>> /\ heap[call[t].p] \in Seq(Bytes)
        BY OwnedBlocks, TypesOfParts DEF Owned, InCall
      <4>2. sizes[call[t].p] = 0
        BY <2>3 DEF SizeOf
      <4>3. EntryOf(call[t].p)
        BY DEF TableInv
      <4>4. PICK u \in Threads : NoEntryYet(u, call[t].p)
        BY <4>1, <4>2, <4>3, EmptyIsLength DEF EntryOf
      <4>5. u # t
        BY <2>2, <4>4 DEF NoEntryYet
      <4>6. call[t].p \in Owned(u)
        BY <4>4 DEF NoEntryYet, Owned, InCall
      <4> QED
        BY <4>1, <4>5, <4>6 DEF OneOwner, Owned
    <3>2. /\ held[t] \cup ({call[t].q} \ {NULL}) \in SUBSET Addrs
          /\ held[t] \cup ({call[t].q} \ {NULL}) = Owned(t)
      BY <2>2, <3>1, OwnedBlocks, CallType DEF Owned, InCall
    <3> QED
      BY <2>1, <2>3, <3>2, OwnerReturn, OwnerKept
  <2>4. CASE With(t, [call[t] EXCEPT !.size = SizeOf(call[t].p)]) /\ held' = held
    <3>1. call'[t] = [call[t] EXCEPT !.size = SizeOf(call[t].p)]
      BY <2>4, NewLocals
    <3>2. call'[t].p = call[t].p /\ call'[t].q = call[t].q
      BY <3>1, CallType DEF Calls
    <3>3. \A u \in Threads \ {t} : call'[u] = call[u]
      BY <2>4, TypesOfParts DEF With
    <3> QED
      BY <2>1, <2>4, <3>2, <3>3 DEF OneOwner, InCall
  <2> QED
    BY <1>11, <2>3, <2>4 DEF FreeLookup
<1>12. ASSUME NEW t \in Threads, forget_alloc(t) PROVE OneOwner'
  BY <1>12 DEF forget_alloc, FreeStep, Release, OneOwner, InCall, Live
<1>13. ASSUME NEW t \in Threads, Dealloc(t) PROVE OneOwner'
  <2>1. call[t].p \in Addrs /\ call[t].p # call[t].q
    BY <1>13 DEF Dealloc, CallShape, Shape
  <2>2. heap' = [heap EXCEPT ![call[t].p] = <<>>]
    BY <1>13 DEF Dealloc, FreeStep, Release
  <2>3. Live' = (Live \ {call[t].p}) \cup {}
    BY <2>1, <2>2, TypesOfParts DEF Live
  <2> DEFINE owned == held[t] \cup ({call[t].q} \ {NULL})
  <2>4. owned \in SUBSET Addrs /\ owned = (Owned(t) \ {call[t].p}) \cup {}
    BY <2>1, OwnedBlocks, CallType DEF Owned, InCall
  <2>5. Return(t, owned)
    BY <1>13 DEF Dealloc
  <2>6. {call[t].p} \in SUBSET Addrs /\ {call[t].p} \subseteq Owned(t) /\ {} \in SUBSET Addrs
    BY <2>1 DEF Owned, InCall
  <2>7. /\ \A u \in Threads \ {t} : held'[u] = held[u] /\ call'[u] = call[u]
        /\ held'[t] \cap InCall(t)' = {}
        /\ Owned(t)' = owned
    <3> HIDE DEF owned
    <3> QED
      BY <2>4, <2>5, OwnerReturn
  <2>8. {} \cap Live = {}
    OBVIOUS
  <2> QED
    <3>1. Owned(t)' = (Owned(t) \ {call[t].p}) \cup {}
      BY <2>4, <2>7
    <3>2. PICK Gone : Gone = {call[t].p}
      OBVIOUS
    <3>3. PICK Fresh : Fresh = {}
      OBVIOUS
    <3>4. /\ Owned(t)' = (Owned(t) \ Gone) \cup Fresh
          /\ Live' = (Live \ Gone) \cup Fresh
          /\ Gone \in SUBSET Addrs /\ Gone \subseteq Owned(t)
          /\ Fresh \in SUBSET Addrs /\ Fresh \cap Live = {}
      BY <2>3, <2>6, <3>1, <3>2, <3>3
    <3> HIDE DEF owned
    <3> QED
      BY <2>7, <3>4, OwnerChange
<1>14. CASE UNCHANGED vars
  BY <1>14 DEF vars, OneOwner, InCall, Live
<1> QED
  BY <1>1, <1>2, <1>3, <1>4, <1>5, <1>6, <1>7, <1>8, <1>9, <1>10, <1>11, <1>12, <1>13, <1>14 DEF Next

-----------------------------------------------------------------------------
(* The table and the heap.                                                 *)

EntryFor(t, a) ==
  IF NoEntryYet(t, a) THEN sizes[a] = 0 /\ heap[a] # <<>> ELSE sizes[a] = Len(heap[a])

\* Of a block t owns, only t's call can have a step left.
LEMMA OwnEntry ==
  ASSUME OneOwner, TableInv, NEW t \in Threads, NEW a \in Owned(t), a \in Addrs
  PROVE  EntryFor(t, a)
<1>1. \A u \in Threads \ {t} : ~NoEntryYet(u, a)
  <2> SUFFICES ASSUME NEW u \in Threads \ {t}, NoEntryYet(u, a) PROVE FALSE
    OBVIOUS
  <2>1. a \in Owned(u)
    BY DEF NoEntryYet, Owned, InCall
  <2> QED
    BY <2>1 DEF OneOwner, Owned
<1>2. EntryOf(a)
  BY DEF TableInv
<1> QED
  BY <1>1, <1>2 DEF EntryOf, EntryFor

\* Every step of t: what it does to the blocks that are t's before or after
\* it is enough.
LEMMA TableChange ==
  ASSUME TypeOK, CallShape, OneOwner, TableInv, OneOwner', NEW t \in Threads,
         \A u \in Threads \ {t} : pc'[u] = pc[u] /\ call'[u] = call[u],
         \A a \in Addrs : a \notin Owned(t) /\ a \notin Owned(t)' =>
            heap'[a] = heap[a] /\ sizes'[a] = sizes[a],
         \A a \in Addrs : a \in Owned(t) \/ a \in Owned(t)' => EntryFor(t, a)',
         SizeRight(t)', NewRight(t)'
  PROVE  TableInv'
<1>1. \A u \in Threads \ {t}, a \in Addrs : NoEntryYet(u, a)' <=> NoEntryYet(u, a)
  BY DEF NoEntryYet
<1>2. \A u \in Threads, a \in Addrs : NoEntryYet(u, a) => a \in Owned(u)
  BY DEF NoEntryYet, Owned, InCall
<1>3. \A u \in Threads, a \in Addrs : NoEntryYet(u, a)' => a \in Owned(u)'
  BY DEF NoEntryYet, Owned, InCall
<1>4. ASSUME NEW a \in Addrs PROVE EntryOf(a)'
  <2>1. CASE a \notin Owned(t) /\ a \notin Owned(t)'
    <3>1. ~NoEntryYet(t, a) /\ ~NoEntryYet(t, a)'
      BY <1>2, <1>3, <2>1
    <3>2. (\E u \in Threads : NoEntryYet(u, a)') <=> (\E u \in Threads : NoEntryYet(u, a))
      BY <1>1, <3>1
    <3>3. EntryOf(a) /\ heap'[a] = heap[a] /\ sizes'[a] = sizes[a]
      BY <2>1 DEF TableInv
    <3> QED
      BY <3>2, <3>3 DEF EntryOf
  <2>2. CASE a \in Owned(t) \/ a \in Owned(t)'
    <3>1. \A u \in Threads \ {t} : ~NoEntryYet(u, a)'
      <4> SUFFICES ASSUME NEW u \in Threads \ {t}, NoEntryYet(u, a)' PROVE FALSE
        OBVIOUS
      <4>1. a \in Owned(u) /\ a \in Owned(u)'
        BY <1>1, <1>2, <1>3
      <4> QED
        BY <2>2, <4>1 DEF OneOwner, Owned
    <3>2. EntryFor(t, a)'
      BY <2>2
    <3> QED
      BY <3>1, <3>2 DEF EntryOf, EntryFor
  <2> QED
    BY <2>1, <2>2
<1>5. ASSUME NEW u \in Threads \ {t}, NEW a \in InCall(u)
      PROVE  heap'[a] = heap[a]
  <2>1. a \in InCall(u)' /\ a \in Addrs
    BY DEF InCall
  <2>2. a \notin Owned(t) /\ a \notin Owned(t)'
    BY <2>1 DEF OneOwner, Owned
  <2> QED
    BY <2>1, <2>2
<1>6. ASSUME NEW u \in Threads \ {t} PROVE SizeRight(u)' /\ NewRight(u)'
  <2>1. /\ pc[u] \in {"copy", "forget", "dealloc"} => call[u].p \in InCall(u)
        /\ pc[u] \in {"alloc", "record"} /\ call[u].op = "realloc" => call[u].p \in InCall(u)
        /\ pc[u] \in {"record", "zero", "copy"} => call[u].q \in InCall(u)
    BY DEF CallShape, Shape, InCall
  <2>2. SizeRight(u) /\ NewRight(u)
    BY DEF TableInv
  <2> QED
    BY <1>5, <2>1, <2>2 DEF SizeRight, NewRight
<1> QED
  BY <1>4, <1>6 DEF TableInv

\* A step of t that touches neither the heap nor the table, nor one of the
\* places where they differ.
LEMMA TableKept ==
  ASSUME TableInv, NEW t \in Threads,
         \A u \in Threads \ {t} : pc'[u] = pc[u] /\ call'[u] = call[u],
         heap' = heap, sizes' = sizes,
         pc[t] \notin {"record", "dealloc"}, pc'[t] \notin {"record", "dealloc"},
         SizeRight(t)', NewRight(t)'
  PROVE  TableInv'
<1>1. \A u \in Threads, a \in Addrs : NoEntryYet(u, a)' <=> NoEntryYet(u, a)
  BY DEF NoEntryYet
<1>2. \A a \in Addrs : EntryOf(a)'
  BY <1>1 DEF TableInv, EntryOf
<1>3. \A u \in Threads \ {t} : SizeRight(u)' /\ NewRight(u)'
  BY DEF TableInv, SizeRight, NewRight
<1> QED
  BY <1>2, <1>3 DEF TableInv

LEMMA OthersWait ==
  ASSUME TypeOK, NEW t \in Threads, NEW l, Goto(t, l)
  PROVE  /\ pc'[t] = l
         /\ \A u \in Threads \ {t} : pc'[u] = pc[u]
         /\ \A c : With(t, c) => call'[t] = c /\ \A u \in Threads \ {t} : call'[u] = call[u]
BY TypesOfParts DEF Goto, With

LEMMA TableReturn ==
  ASSUME TypeOK, TableInv, NEW t \in Threads, NEW owned, Return(t, owned),
         heap' = heap, sizes' = sizes, pc[t] \notin {"record", "dealloc"}
  PROVE  TableInv'
<1>1. pc'[t] = "idle" /\ \A u \in Threads \ {t} : pc'[u] = pc[u] /\ call'[u] = call[u]
  BY OthersWait DEF Return
<1>2. SizeRight(t)' /\ NewRight(t)'
  BY <1>1 DEF SizeRight, NewRight
<1> QED
  BY <1>1, <1>2, TableKept

\* The beginning of a call.
LEMMA TableCall ==
  ASSUME TypeOK, TableInv, NEW t \in Threads, NEW l \in {"alloc", "lookup", "free_lookup"},
         NEW c, c.op # "realloc" \/ l # "alloc", pc[t] = "idle",
         Goto(t, l), With(t, c), heap' = heap, sizes' = sizes
  PROVE  TableInv'
<1>1. /\ pc'[t] = l /\ call'[t] = c
      /\ \A u \in Threads \ {t} : pc'[u] = pc[u] /\ call'[u] = call[u]
  BY OthersWait
<1>2. SizeRight(t)' /\ NewRight(t)'
  BY <1>1 DEF SizeRight, NewRight
<1> QED
  BY <1>1, <1>2, TableKept

LEMMA TableStep ==
  ASSUME AllocInv, [Next]_vars, OneOwner'
  PROVE  TableInv'
<1> USE DEF AllocInv
<1>1. ASSUME NEW t \in Threads, NEW z \in BOOLEAN, malloc(t, z) PROVE TableInv'
  <2>1. CASE UNCHANGED <<pc, call>>
    BY <1>1, <2>1 DEF malloc, TableInv, EntryOf, NoEntryYet, SizeRight, NewRight
  <2>2. ASSUME NEW n \in Requests, NEW db \in BOOLEAN, ~Refused(n), Goto(t, "alloc"),
               With(t, Call(IF z THEN "malloc_zero" ELSE "malloc", NULL, n, db))
        PROVE  TableInv'
    <3> DEFINE c == Call(IF z THEN "malloc_zero" ELSE "malloc", NULL, n, db)
    <3>1. c.op # "realloc"
      BY DEF Call
    <3>2. heap' = heap /\ sizes' = sizes /\ pc[t] = "idle"
      BY <1>1 DEF malloc
    <3> HIDE DEF c
    <3>3. With(t, c)
      BY <2>2 DEF c
    <3> QED
      BY <2>2, <3>1, <3>2, <3>3, TableCall
  <2> QED
    BY <1>1, <2>1, <2>2 DEF malloc
<1>2. ASSUME NEW t \in Threads, realloc(t) PROVE TableInv'
  <2>1. PICK p \in held[t] \cup {Foreign}, n \in Requests, db \in BOOLEAN :
          \/ UNCHANGED <<pc, call>>
          \/ Goto(t, "free_lookup") /\ With(t, Call("free", p, 0, FALSE))
          \/ Goto(t, "lookup") /\ With(t, Call("realloc", p, n, db))
    BY <1>2, Zenon DEF realloc
  <2>2. heap' = heap /\ sizes' = sizes /\ pc[t] = "idle"
    BY <1>2 DEF realloc
  <2>3. CASE UNCHANGED <<pc, call>>
    BY <2>2, <2>3 DEF TableInv, EntryOf, NoEntryYet, SizeRight, NewRight
  <2>4. CASE Goto(t, "free_lookup") /\ With(t, Call("free", p, 0, FALSE))
    BY <2>2, <2>4, TableCall
  <2>5. CASE Goto(t, "lookup") /\ With(t, Call("realloc", p, n, db))
    BY <2>2, <2>5, TableCall
  <2> QED
    BY <2>1, <2>3, <2>4, <2>5
<1>3. ASSUME NEW t \in Threads, free(t) PROVE TableInv'
  <2>1. PICK p \in held[t] \cup {Foreign} :
          Goto(t, "free_lookup") /\ With(t, Call("free", p, 0, FALSE))
    BY <1>3, Zenon DEF free
  <2>2. heap' = heap /\ sizes' = sizes /\ pc[t] = "idle"
    BY <1>3 DEF free
  <2> QED
    BY <2>1, <2>2, TableCall
<1>4. ASSUME NEW t \in Threads, Fill(t) PROVE TableInv'
  <2>1. PICK b \in held[t] : heap' = [heap EXCEPT ![b] = Filled(t, Len(@))]
    BY <1>4 DEF Fill
  <2>2. b \in Addrs /\ heap[b] \in Seq(Bytes) /\ t \in Bytes
    BY OwnedBlocks, TypesOfParts DEF Bytes
  <2>3. Len(heap[b]) \in Nat
    BY <2>2, LenProperties
  <2>4. Len(Filled(t, Len(heap[b]))) = Len(heap[b])
    BY <2>2, <2>3, FilledBlock
  <2>5. sizes' = sizes /\ pc' = pc /\ call' = call /\ held' = held /\ pc[t] = "idle"
    BY <1>4 DEF Fill
  <2>6. \A a \in Addrs : a \in Owned(t) => EntryFor(t, a)'
    <3> SUFFICES ASSUME NEW a \in Addrs, a \in Owned(t) PROVE EntryFor(t, a)'
      OBVIOUS
    <3>1. EntryFor(t, a) /\ ~NoEntryYet(t, a) /\ ~NoEntryYet(t, a)'
      BY <2>5, OwnEntry DEF NoEntryYet
    <3>2. Len(heap'[a]) = Len(heap[a])
      BY <2>1, <2>2, <2>4, TypesOfParts
    <3> QED
      BY <2>5, <3>1, <3>2 DEF EntryFor
  <2>7. Owned(t)' = Owned(t)
    BY <2>5 DEF Owned, InCall
  <2>8. \A a \in Addrs : a \notin Owned(t) => heap'[a] = heap[a]
    BY <2>1, TypesOfParts DEF Owned
  <2>9. SizeRight(t)' /\ NewRight(t)'
    BY <2>5 DEF SizeRight, NewRight
  <2> QED
    BY <2>5, <2>6, <2>7, <2>8, <2>9, TableChange
<1>5. ASSUME NEW t \in Threads, HeapAlloc(t) PROVE TableInv'
  <2>1. PICK b \in Addrs : /\ heap[b] = <<>>
                           /\ heap' = [heap EXCEPT ![b] = Filled(Junk, call[t].n)]
                           /\ With(t, [call[t] EXCEPT !.q = b])
    BY <1>5, Zenon DEF HeapAlloc
  <2>2. call[t].n \in Nat /\ call[t].n # 0 /\ Junk \in Bytes
    BY <1>5, CallType DEF HeapAlloc, CallShape, Shape, Bytes
  <2>3. Filled(Junk, call[t].n) # <<>> /\ Len(Filled(Junk, call[t].n)) = call[t].n
    BY <2>2, FilledBlock
  <2>4. heap'[b] # <<>> /\ Len(heap'[b]) = call[t].n /\ \A a \in Addrs \ {b} : heap'[a] = heap[a]
    BY <2>1, <2>3, TypesOfParts
  <2>5. sizes' = sizes /\ held' = held /\ pc[t] = "alloc" /\ Goto(t, "record")
    BY <1>5 DEF HeapAlloc
  <2>6. /\ pc'[t] = "record" /\ call'[t] = [call[t] EXCEPT !.q = b]
        /\ \A u \in Threads \ {t} : pc'[u] = pc[u] /\ call'[u] = call[u]
    BY <2>1, <2>5, OthersWait
  <2>7. /\ call'[t].q = b /\ call'[t].p = call[t].p /\ call'[t].n = call[t].n
        /\ call'[t].op = call[t].op /\ call'[t].size = call[t].size
    BY <2>6, CallType DEF Calls
  <2>8. sizes[b] = 0
    <3>1. EntryOf(b)
      BY DEF TableInv
    <3> QED
      BY <2>1, <3>1, EmptySeq DEF EntryOf
  <2>9. call[t].q = NULL
    BY <2>5 DEF CallShape, Shape
  <2>10. Owned(t)' = Owned(t) \cup {b} /\ b \notin Owned(t)
    BY <2>1, <2>5, <2>7, <2>9, OwnedBlocks DEF Owned, InCall
  <2>11. \A a \in Addrs : a \in Owned(t)' => EntryFor(t, a)'
    <3> SUFFICES ASSUME NEW a \in Addrs, a \in Owned(t)' PROVE EntryFor(t, a)'
      OBVIOUS
    <3>1. CASE a = b
      BY <2>4, <2>5, <2>6, <2>7, <2>8, <3>1 DEF EntryFor, NoEntryYet
    <3>2. CASE a # b
      <4>1. a \in Owned(t) /\ heap'[a] = heap[a]
        BY <2>4, <2>10, <3>2
      <4>2. EntryFor(t, a)
        BY <4>1, OwnEntry
      <4>3. ~NoEntryYet(t, a) /\ ~NoEntryYet(t, a)'
        BY <2>5, <2>6, <2>7, <3>2 DEF NoEntryYet
      <4> QED
        BY <2>5, <4>1, <4>2, <4>3 DEF EntryFor
    <3> QED
      BY <3>1, <3>2
  <2>12. NewRight(t)'
    BY <2>4, <2>7 DEF NewRight
  <2>13. SizeRight(t)'
    <3>1. call[t].op = "realloc" => call[t].p \in Addrs /\ call[t].p \in Owned(t)
      BY <2>5, AddrsAssumption DEF CallShape, Shape, Owned, InCall
    <3>2. SizeRight(t)
      BY DEF TableInv
    <3> QED
      BY <2>4, <2>5, <2>6, <2>7, <2>10, <3>1, <3>2 DEF SizeRight
  <2> QED
    BY <2>4, <2>5, <2>6, <2>10, <2>11, <2>12, <2>13, TableChange
<1>6. ASSUME NEW t \in Threads, OutOfMemory(t) PROVE TableInv'
  BY <1>6, TableReturn DEF OutOfMemory
<1>7. ASSUME NEW t \in Threads, record_alloc(t) PROVE TableInv'
  <2> DEFINE b == call[t].q
  <2>1. pc[t] = "record" /\ Shape(t) /\ SizeRight(t) /\ NewRight(t) /\ b \in Addrs
    BY <1>7 DEF record_alloc, CallShape, Shape, TableInv
  <2>2. sizes' = [sizes EXCEPT ![b] = call[t].n] /\ heap' = heap
    BY <1>7 DEF record_alloc
  <2>3. sizes'[b] = Len(heap'[b]) /\ \A a \in Addrs \ {b} : sizes'[a] = sizes[a]
    BY <2>1, <2>2, TypesOfParts DEF NewRight
  <2>4. \/ call[t].op = "malloc" /\ Return(t, held[t] \cup {b})
        \/ call[t].op = "malloc_zero" /\ Goto(t, "zero") /\ UNCHANGED <<call, held>>
        \/ call[t].op = "realloc" /\ Goto(t, "copy") /\ UNCHANGED <<call, held>>
    BY <1>7, <2>1 DEF record_alloc, Shape
  <2>5. /\ \A u \in Threads \ {t} : pc'[u] = pc[u] /\ call'[u] = call[u]
        /\ pc'[t] \in {"idle", "zero", "copy"}
    BY <2>4, OthersWait DEF Return
  <2>6. b \in Owned(t)
    BY <2>1 DEF Owned, InCall
  <2>7. Owned(t)' = Owned(t)
    <3>1. CASE call[t].op = "malloc" /\ Return(t, held[t] \cup {b})
      <4>1. held[t] \cup {b} \in SUBSET Addrs /\ held[t] \cup {b} = Owned(t)
        BY <2>1, <3>1, OwnedBlocks DEF Owned, InCall, Shape
      <4> QED
        BY <3>1, <4>1, OwnerReturn
    <3>2. CASE UNCHANGED <<call, held>>
      BY <3>2 DEF Owned, InCall
    <3> QED
      BY <2>4, <3>1, <3>2
  <2>8. \A a \in Addrs : a \in Owned(t) => EntryFor(t, a)'
    <3> SUFFICES ASSUME NEW a \in Addrs, a \in Owned(t) PROVE EntryFor(t, a)'
      OBVIOUS
    <3>1. ~NoEntryYet(t, a)'
      BY <2>5 DEF NoEntryYet
    <3>2. CASE a = b
      BY <2>3, <3>1, <3>2 DEF EntryFor
    <3>3. CASE a # b
      <4>1. EntryFor(t, a) /\ ~NoEntryYet(t, a)
        BY <2>1, <3>3, OwnEntry DEF NoEntryYet
      <4> QED
        BY <2>2, <2>3, <3>1, <3>3, <4>1 DEF EntryFor
    <3> QED
      BY <3>2, <3>3
  <2>9. SizeRight(t)' /\ NewRight(t)'
    <3>1. CASE Return(t, held[t] \cup {b})
      <4>1. pc'[t] = "idle"
        BY <3>1, OthersWait DEF Return
      <4> QED
        BY <4>1 DEF SizeRight, NewRight
    <3>2. CASE call[t].op = "malloc_zero" /\ Goto(t, "zero") /\ UNCHANGED <<call, held>>
      <4>1. pc'[t] = "zero"
        BY <3>2, OthersWait
      <4> QED
        BY <2>1, <2>2, <3>2, <4>1 DEF SizeRight, NewRight
    <3>3. CASE call[t].op = "realloc" /\ Goto(t, "copy") /\ UNCHANGED <<call, held>>
      <4>1. pc'[t] = "copy"
        BY <3>3, OthersWait
      <4> QED
        BY <2>1, <2>2, <3>3, <4>1 DEF SizeRight, NewRight
    <3> QED
      BY <2>4, <3>1, <3>2, <3>3
  <2>10. \A a \in Addrs : a \notin Owned(t) => heap'[a] = heap[a] /\ sizes'[a] = sizes[a]
    BY <2>2, <2>3, <2>6
  <2> HIDE DEF b
  <2> QED
    BY <2>5, <2>7, <2>8, <2>9, <2>10, TableChange
<1>8. ASSUME NEW t \in Threads, WriteZeros(t) PROVE TableInv'
  <2> DEFINE b == call[t].q
  <2>1. pc[t] = "zero" /\ b \in Addrs /\ call[t].p = NULL /\ call[t].n \in Nat
    BY <1>8, CallType DEF WriteZeros, CallShape, Shape
  <2>2. Len(Filled(Zero, call[t].n)) = call[t].n
    BY <2>1, FilledBlock DEF Bytes
  <2>3. Len(heap[b]) = call[t].n
    BY <2>1 DEF TableInv, NewRight
  <2>4. /\ heap' = [heap EXCEPT ![b] = Filled(Zero, call[t].n)]
        /\ sizes' = sizes
        /\ Return(t, held[t] \cup {b})
    BY <1>8 DEF WriteZeros
  <2>5. /\ pc'[t] = "idle"
        /\ \A u \in Threads \ {t} : pc'[u] = pc[u] /\ call'[u] = call[u]
    BY <2>4, OthersWait DEF Return
  <2>6. held[t] \cup {b} \in SUBSET Addrs /\ held[t] \cup {b} = Owned(t) /\ b \in Owned(t)
    BY <2>1, OwnedBlocks DEF Owned, InCall
  <2>7. Owned(t)' = Owned(t)
    BY <2>4, <2>6, OwnerReturn
  <2>8. \A a \in Addrs : a \in Owned(t) => EntryFor(t, a)'
    <3> SUFFICES ASSUME NEW a \in Addrs, a \in Owned(t) PROVE EntryFor(t, a)'
      OBVIOUS
    <3>1. EntryFor(t, a) /\ ~NoEntryYet(t, a) /\ ~NoEntryYet(t, a)'
      BY <2>1, <2>5, OwnEntry DEF NoEntryYet
    <3>2. Len(heap'[a]) = Len(heap[a])
      BY <2>1, <2>2, <2>3, <2>4, TypesOfParts
    <3> QED
      BY <2>4, <3>1, <3>2 DEF EntryFor
  <2>9. SizeRight(t)' /\ NewRight(t)'
    BY <2>5 DEF SizeRight, NewRight
  <2>10. \A a \in Addrs : a \notin Owned(t) => heap'[a] = heap[a] /\ sizes'[a] = sizes[a]
    BY <2>4, <2>6, TypesOfParts
  <2> HIDE DEF b
  <2> QED
    BY <2>5, <2>7, <2>8, <2>9, <2>10, TableChange
<1>9. ASSUME NEW t \in Threads, ReallocLookup(t) PROVE TableInv'
  <2>1. pc[t] = "lookup" /\ heap' = heap /\ sizes' = sizes
    BY <1>9 DEF ReallocLookup
  <2>2. CASE Return(t, Kept(t))
    BY <2>1, <2>2, TableReturn
  <2>3. CASE /\ SizeOf(call[t].p) # 0
             /\ Goto(t, "alloc")
             /\ With(t, [call[t] EXCEPT !.size = SizeOf(call[t].p)])
    <3>1. /\ pc'[t] = "alloc" /\ call'[t] = [call[t] EXCEPT !.size = SizeOf(call[t].p)]
          /\ \A u \in Threads \ {t} : pc'[u] = pc[u] /\ call'[u] = call[u]
      BY <2>3, OthersWait
    <3>2. call'[t].p = call[t].p /\ call'[t].size = SizeOf(call[t].p)
      BY <3>1, CallType DEF Calls
    <3>3. call[t].p \in Addrs /\ SizeOf(call[t].p) = sizes[call[t].p]
      BY <2>3 DEF SizeOf
    <3>4. call[t].p \in Owned(t)
      BY <3>3 DEF Owned, InCall
    <3>5. sizes[call[t].p] = Len(heap[call[t].p])
      BY <2>1, <3>3, <3>4, OwnEntry DEF EntryFor, NoEntryYet
    <3>6. SizeRight(t)' /\ NewRight(t)'
      BY <2>1, <3>1, <3>2, <3>3, <3>5 DEF SizeRight, NewRight
    <3> QED
      BY <2>1, <3>1, <3>6, TableKept
  <2> QED
    BY <1>9, <2>2, <2>3 DEF ReallocLookup
<1>10. ASSUME NEW t \in Threads, Copy(t) PROVE TableInv'
  <2> DEFINE b == call[t].q
  <2>1. pc[t] = "copy" /\ b \in Addrs
    BY <1>10 DEF Copy, CallShape, Shape
  <2>2. Len(Copied(call[t])) = Len(heap[b])
    BY <2>1, CopiedBlock DEF TableInv, NewRight
  <2>3. heap' = [heap EXCEPT ![b] = Copied(call[t])] /\ sizes' = sizes /\ call' = call /\ held' = held
    BY <1>10 DEF Copy
  <2>4. pc'[t] = "free_lookup" /\ \A u \in Threads \ {t} : pc'[u] = pc[u]
    BY <1>10, OthersWait DEF Copy
  <2>5. Owned(t)' = Owned(t) /\ b \in Owned(t)
    BY <2>1, <2>3 DEF Owned, InCall
  <2>6. \A a \in Addrs : a \in Owned(t) => EntryFor(t, a)'
    <3> SUFFICES ASSUME NEW a \in Addrs, a \in Owned(t) PROVE EntryFor(t, a)'
      OBVIOUS
    <3>1. EntryFor(t, a) /\ ~NoEntryYet(t, a) /\ ~NoEntryYet(t, a)'
      BY <2>1, <2>4, OwnEntry DEF NoEntryYet
    <3>2. Len(heap'[a]) = Len(heap[a])
      BY <2>1, <2>2, <2>3, TypesOfParts
    <3> QED
      BY <2>3, <3>1, <3>2 DEF EntryFor
  <2>7. SizeRight(t)' /\ NewRight(t)'
    BY <2>4 DEF SizeRight, NewRight
  <2>8. \A a \in Addrs : a \notin Owned(t) => heap'[a] = heap[a] /\ sizes'[a] = sizes[a]
    BY <2>3, <2>5, TypesOfParts
  <2> HIDE DEF b
  <2> QED
    BY <2>3, <2>4, <2>5, <2>6, <2>7, <2>8, TableChange
<1>11. ASSUME NEW t \in Threads, FreeLookup(t) PROVE TableInv'
  <2>1. pc[t] = "free_lookup" /\ heap' = heap /\ sizes' = sizes
    BY <1>11 DEF FreeLookup
  <2>2. CASE Return(t, held[t] \cup ({call[t].q} \ {NULL}))
    BY <2>1, <2>2, TableReturn
  <2>3. CASE /\ SizeOf(call[t].p) # 0
             /\ Goto(t, "forget")
             /\ With(t, [call[t] EXCEPT !.size = SizeOf(call[t].p)])
    <3>1. /\ pc'[t] = "forget" /\ call'[t] = [call[t] EXCEPT !.size = SizeOf(call[t].p)]
          /\ \A u \in Threads \ {t} : pc'[u] = pc[u] /\ call'[u] = call[u]
      BY <2>3, OthersWait
    <3>2. call'[t].p = call[t].p /\ call'[t].size = SizeOf(call[t].p)
      BY <3>1, CallType DEF Calls
    <3>3. call[t].p \in Addrs /\ SizeOf(call[t].p) = sizes[call[t].p]
      BY <2>3 DEF SizeOf
    <3>4. call[t].p \in Owned(t)
      BY <3>3 DEF Owned, InCall
    <3>5. sizes[call[t].p] = Len(heap[call[t].p])
      BY <2>1, <3>3, <3>4, OwnEntry DEF EntryFor, NoEntryYet
    <3>6. SizeRight(t)' /\ NewRight(t)'
      BY <2>1, <3>1, <3>2, <3>3, <3>5 DEF SizeRight, NewRight
    <3> QED
      BY <2>1, <3>1, <3>6, TableKept
  <2> QED
    BY <1>11, <2>2, <2>3 DEF FreeLookup
<1>12. ASSUME NEW t \in Threads, forget_alloc(t) PROVE TableInv'
  <2> DEFINE b == call[t].p
  <2>1. pc[t] = "forget" /\ b \in Addrs
    BY <1>12 DEF forget_alloc, CallShape, Shape
  <2>2. sizes' = [sizes EXCEPT ![b] = 0] /\ heap' = heap /\ call' = call /\ held' = held
    BY <1>12 DEF forget_alloc, FreeStep, Release
  <2>3. pc'[t] = "dealloc" /\ \A u \in Threads \ {t} : pc'[u] = pc[u]
    BY <1>12, OthersWait DEF forget_alloc
  <2>4. Owned(t)' = Owned(t) /\ b \in Owned(t)
    BY <2>1, <2>2 DEF Owned, InCall
  <2>5. sizes'[b] = 0 /\ \A a \in Addrs \ {b} : sizes'[a] = sizes[a]
    BY <2>1, <2>2, TypesOfParts
  <2>6. \A a \in Addrs : a \in Owned(t) => EntryFor(t, a)'
    <3> SUFFICES ASSUME NEW a \in Addrs, a \in Owned(t) PROVE EntryFor(t, a)'
      OBVIOUS
    <3>1. CASE a = b
      <4>1. NoEntryYet(t, a)' /\ heap'[a] # <<>>
        BY <2>2, <2>3, <2>4, <3>1, OwnedBlocks DEF NoEntryYet
      <4> QED
        BY <2>5, <3>1, <4>1 DEF EntryFor
    <3>2. CASE a # b
      <4>1. EntryFor(t, a) /\ ~NoEntryYet(t, a) /\ ~NoEntryYet(t, a)'
        BY <2>1, <2>2, <2>3, <3>2, OwnEntry DEF NoEntryYet
      <4> QED
        BY <2>2, <2>5, <3>2, <4>1 DEF EntryFor
    <3> QED
      BY <3>1, <3>2
  <2>7. SizeRight(t)' /\ NewRight(t)'
    BY <2>1, <2>2, <2>3 DEF SizeRight, NewRight, TableInv
  <2>8. \A a \in Addrs : a \notin Owned(t) => heap'[a] = heap[a] /\ sizes'[a] = sizes[a]
    BY <2>2, <2>4, <2>5
  <2> HIDE DEF b
  <2> QED
    BY <2>2, <2>3, <2>4, <2>6, <2>7, <2>8, TableChange
<1>13. ASSUME NEW t \in Threads, Dealloc(t) PROVE TableInv'
  <2> DEFINE b == call[t].p
  <2>1. pc[t] = "dealloc" /\ b \in Addrs /\ call[t].p # call[t].q
    BY <1>13 DEF Dealloc, CallShape, Shape
  <2>2. heap' = [heap EXCEPT ![b] = <<>>] /\ sizes' = sizes
    BY <1>13 DEF Dealloc, FreeStep, Release
  <2>3. Return(t, held[t] \cup ({call[t].q} \ {NULL}))
    BY <1>13 DEF Dealloc
  <2>4. pc'[t] = "idle" /\ \A u \in Threads \ {t} : pc'[u] = pc[u] /\ call'[u] = call[u]
    BY <2>3, OthersWait DEF Return
  <2>5. /\ held[t] \cup ({call[t].q} \ {NULL}) \in SUBSET Addrs
        /\ held[t] \cup ({call[t].q} \ {NULL}) \subseteq Owned(t)
        /\ b \in Owned(t)
    BY <2>1, OwnedBlocks, CallType DEF Owned, InCall
  <2>6. Owned(t)' \subseteq Owned(t)
    BY <2>3, <2>5, OwnerReturn
  <2>7. heap'[b] = <<>> /\ \A a \in Addrs \ {b} : heap'[a] = heap[a]
    BY <2>1, <2>2, TypesOfParts
  <2>8. \A a \in Addrs : a \in Owned(t) => EntryFor(t, a)'
    <3> SUFFICES ASSUME NEW a \in Addrs, a \in Owned(t) PROVE EntryFor(t, a)'
      OBVIOUS
    <3>1. EntryFor(t, a) /\ ~NoEntryYet(t, a)'
      BY <2>4, OwnEntry DEF NoEntryYet
    <3>2. CASE a = b
      <4>1. sizes[b] = 0
        BY <2>1, <3>1, <3>2 DEF EntryFor, NoEntryYet
      <4>2. Len(heap'[b]) = 0
        BY <2>7, EmptySeq
      <4> QED
        BY <2>2, <3>1, <3>2, <4>1, <4>2 DEF EntryFor
    <3>3. CASE a # b
      <4>1. ~NoEntryYet(t, a)
        BY <2>1, <3>3 DEF NoEntryYet
      <4> QED
        BY <2>2, <2>7, <3>1, <3>3, <4>1 DEF EntryFor
    <3> QED
      BY <3>2, <3>3
  <2>9. SizeRight(t)' /\ NewRight(t)'
    BY <2>4 DEF SizeRight, NewRight
  <2>10. \A a \in Addrs : a \notin Owned(t) => heap'[a] = heap[a] /\ sizes'[a] = sizes[a]
    BY <2>2, <2>5, <2>7
  <2> HIDE DEF b
  <2> QED
    BY <2>4, <2>6, <2>8, <2>9, <2>10, TableChange
<1>14. CASE UNCHANGED vars
  BY <1>14 DEF vars, TableInv, EntryOf, NoEntryYet, SizeRight, NewRight
<1> QED
  BY <1>1, <1>2, <1>3, <1>4, <1>5, <1>6, <1>7, <1>8, <1>9, <1>10, <1>11, <1>12, <1>13, <1>14 DEF Next

-----------------------------------------------------------------------------
(* The bytes.                                                              *)

\* What a realloc carries over: of the known bytes of the old block, as many
\* as the new block holds.
LEMMA CopyCarriesOver ==
  ASSUME AllocInv, NEW t \in Threads, pc[t] = "copy"
  PROVE  LET c == call[t]
             k == SubSeq(known[c.p], 1, Lesser(Len(known[c.p]), c.n))
         IN  StartsWith(Copied(c), k)
<1> USE DEF AllocInv
<1> DEFINE c == call[t]
           l == Lesser(Len(known[c.p]), c.n)
           k == SubSeq(known[c.p], 1, l)
<1>1. c.p \in Addrs /\ c.q \in Addrs /\ c.n \in 1 .. MaxSize
  BY DEF CallShape, Shape
<1>2. heap[c.p] \in Seq(Bytes) /\ known[c.p] \in Seq(Bytes) /\ heap[c.p] # <<>>
  BY <1>1, TypesOfParts, OwnedBlocks DEF Owned, InCall
<1>3. StartsWith(heap[c.p], known[c.p])
  BY <1>1, <1>2 DEF BytesInv
<1>4. c.size = Len(heap[c.p])
  BY DEF TableInv, SizeRight
<1>5. /\ Len(known[c.p]) \in Nat /\ Len(heap[c.p]) \in Nat
      /\ Len(known[c.p]) <= Len(heap[c.p])
  BY <1>2, <1>3, LenProperties DEF StartsWith
<1>6. /\ l \in Nat /\ l <= c.n /\ l <= Len(known[c.p])
      /\ l <= CopyLen(c) /\ l <= Len(heap[c.p])
  BY <1>1, <1>4, <1>5 DEF Lesser, CopyLen
<1>7. \A i \in 1 .. l : known[c.p][i] \in Bytes
  BY <1>2, <1>6, ElementOfSeq
<1>8. Len(k) = l /\ \A i \in 1 .. l : k[i] = known[c.p][i]
  <2> HIDE DEF l, c
  <2>1. /\ Len(SubSeq(known[c.p], 1, l)) = IF 1 <= l THEN l - 1 + 1 ELSE 0
        /\ \A i \in 1 .. l - 1 + 1 : SubSeq(known[c.p], 1, l)[i] = known[c.p][1 + i - 1]
    BY <1>6, <1>7, SubSeqProperties
  <2> QED
    BY <1>6, <2>1
<1>9. \A i \in 1 .. l : Copied(c)[i] = known[c.p][i]
  <2> SUFFICES ASSUME NEW i \in 1 .. l PROVE Copied(c)[i] = known[c.p][i]
    OBVIOUS
  <2>1. i \in 1 .. c.n /\ i <= CopyLen(c) /\ i <= Len(heap[c.p]) /\ i \in 1 .. Len(known[c.p])
    <3> HIDE DEF l, c
    <3> QED
      <4>1. CopyLen(c) \in Nat
        BY <1>1, <1>4, <1>5 DEF CopyLen, Lesser
      <4> QED
        BY <1>1, <1>5, <1>6, <4>1
  <2>2. Copied(c)[i] = heap[c.p][i]
    <3> HIDE DEF l, c
    <3> QED
      BY <2>1 DEF Copied, ByteAt
  <2>3. heap[c.p][i] = known[c.p][i]
    BY <1>3, <2>1 DEF StartsWith
  <2> QED
    BY <2>2, <2>3
<1>10. Len(Copied(c)) = c.n
  BY CopiedBlock
<1> HIDE DEF l, c
<1>11. StartsWith(Copied(c), k)
  BY <1>1, <1>6, <1>8, <1>9, <1>10 DEF StartsWith
<1> QED
  BY <1>11 DEF l, c

LEMMA BytesStep ==
  ASSUME AllocInv, [Next]_vars
  PROVE  BytesInv'
<1> USE DEF AllocInv
<1>1. CASE UNCHANGED <<heap, known>>
  BY <1>1 DEF BytesInv
<1>2. ASSUME NEW b \in Addrs, NEW s \in Seq(Bytes), NEW k,
             heap' = [heap EXCEPT ![b] = s], known' = [known EXCEPT ![b] = k],
             StartsWith(s, k)
      PROVE  BytesInv'
  BY <1>2, TypesOfParts DEF BytesInv
<1>3. ASSUME NEW t \in Threads, malloc(t, FALSE) \/ malloc(t, TRUE) PROVE BytesInv'
  BY <1>1, <1>3 DEF malloc
<1>4. ASSUME NEW t \in Threads, realloc(t) \/ free(t) PROVE BytesInv'
  BY <1>1, <1>4 DEF realloc, free
<1>5. ASSUME NEW t \in Threads, Fill(t) PROVE BytesInv'
  <2>1. PICK b \in held[t] : /\ heap' = [heap EXCEPT ![b] = Filled(t, Len(@))]
                             /\ known' = [known EXCEPT ![b] = heap'[b]]
    BY <1>5 DEF Fill
  <2>2. b \in Addrs /\ heap[b] \in Seq(Bytes) /\ t \in Bytes
    BY TypesOfParts DEF Bytes
  <2>3. Filled(t, Len(heap[b])) \in Seq(Bytes)
    BY <2>2, FilledBlock, LenProperties
  <2>4. heap'[b] = Filled(t, Len(heap[b]))
    BY <2>1, <2>2, TypesOfParts
  <2> QED
    BY <1>2, <2>1, <2>2, <2>3, <2>4, Starts
<1>6. ASSUME NEW t \in Threads, HeapAlloc(t) PROVE BytesInv'
  <2>1. PICK b \in Addrs : /\ heap' = [heap EXCEPT ![b] = Filled(Junk, call[t].n)]
                           /\ known' = [known EXCEPT ![b] = <<>>]
    BY <1>6, Zenon DEF HeapAlloc
  <2>2. call[t].n \in Nat /\ Junk \in Bytes
    BY CallType DEF Bytes
  <2>3. Filled(Junk, call[t].n) \in Seq(Bytes)
    BY <2>2, FilledBlock
  <2> QED
    BY <1>2, <2>1, <2>3, Starts
<1>7. ASSUME NEW t \in Threads, OutOfMemory(t) \/ record_alloc(t) PROVE BytesInv'
  BY <1>1, <1>7 DEF OutOfMemory, record_alloc
<1>8. ASSUME NEW t \in Threads, WriteZeros(t) PROVE BytesInv'
  <2>1. call[t].q \in Addrs /\ call[t].n \in Nat /\ Zero \in Bytes
    BY <1>8, CallType DEF WriteZeros, CallShape, Shape, Bytes
  <2>2. Filled(Zero, call[t].n) \in Seq(Bytes)
    BY <2>1, FilledBlock
  <2>3. /\ heap' = [heap EXCEPT ![call[t].q] = Filled(Zero, call[t].n)]
        /\ known' = [known EXCEPT ![call[t].q] = Filled(Zero, call[t].n)]
    BY <1>8, <2>1, TypesOfParts DEF WriteZeros
  <2> QED
    BY <1>2, <2>1, <2>2, <2>3, Starts
<1>9. ASSUME NEW t \in Threads, ReallocLookup(t) \/ FreeLookup(t) PROVE BytesInv'
  BY <1>1, <1>9 DEF ReallocLookup, FreeLookup
<1>10. ASSUME NEW t \in Threads, Copy(t) PROVE BytesInv'
  <2> DEFINE k == SubSeq(known[call[t].p], 1, Lesser(Len(known[call[t].p]), call[t].n))
  <2>1. pc[t] = "copy" /\ call[t].q \in Addrs
    BY <1>10 DEF Copy, CallShape, Shape
  <2>2. /\ heap' = [heap EXCEPT ![call[t].q] = Copied(call[t])]
        /\ known' = [known EXCEPT ![call[t].q] = k]
    BY <1>10 DEF Copy
  <2>3. Copied(call[t]) \in Seq(Bytes) /\ StartsWith(Copied(call[t]), k)
    BY <2>1, CopiedBlock, CopyCarriesOver
  <2> HIDE DEF k
  <2> QED
    BY <1>2, <2>1, <2>2, <2>3
<1>11. ASSUME NEW t \in Threads, forget_alloc(t) PROVE BytesInv'
  BY <1>1, <1>11 DEF forget_alloc, FreeStep, Release
<1>12. ASSUME NEW t \in Threads, Dealloc(t) PROVE BytesInv'
  <2>1. heap' = [heap EXCEPT ![call[t].p] = <<>>] /\ known' = known
    BY <1>12 DEF Dealloc, FreeStep, Release
  <2> QED
    BY <2>1, TypesOfParts DEF BytesInv
<1>13. CASE UNCHANGED vars
  BY <1>1, <1>13 DEF vars
<1> QED
  BY <1>3, <1>4, <1>5, <1>6, <1>7, <1>8, <1>9, <1>10, <1>11, <1>12, <1>13 DEF Next

-----------------------------------------------------------------------------
(* The theorems.                                                           *)

LEMMA AllocInit == Init => AllocInv
<1> SUFFICES ASSUME Init PROVE AllocInv
  OBVIOUS
<1>1. TypeOK
  <2>1. <<>> \in Seq(Bytes) /\ 0 \in 0 .. MaxSize /\ {} \in SUBSET Addrs
    OBVIOUS
  <2> QED
    BY <2>1, CallsAreRecords, TypesOfParts DEF Init, Labels
<1>2. CallShape
  BY DEF Init, CallShape, Shape, NoCall
<1>3. OneOwner
  BY DEF Init, OneOwner, InCall, Live, NoCall
<1>4. TableInv
  BY EmptySeq DEF Init, TableInv, EntryOf, NoEntryYet, SizeRight, NewRight
<1>5. BytesInv
  BY DEF Init, BytesInv
<1> QED
  BY <1>1, <1>2, <1>3, <1>4, <1>5 DEF AllocInv

LEMMA AllocStep == AllocInv /\ [Next]_vars => AllocInv'
BY TypeStep, ShapeStep, OwnerStep, TableStep, BytesStep DEF AllocInv

LEMMA AllocInvariant == Spec => []AllocInv
BY AllocInit, AllocStep, PTL DEF Spec

LEMMA InvariantMeans ==
  AllocInv => TypeOK /\ TableIsHeap /\ OneOwner /\ BytesSurvive
<1> SUFFICES ASSUME AllocInv PROVE TypeOK /\ TableIsHeap /\ OneOwner /\ BytesSurvive
  OBVIOUS
<1> USE DEF AllocInv
<1>1. TableIsHeap
  <2>1. \A a \in Addrs :
           IF \E t \in Threads : \/ pc[t] = "record" /\ call[t].q = a
                                 \/ pc[t] = "dealloc" /\ call[t].p = a
           THEN sizes[a] = 0 /\ a \in Live
           ELSE sizes[a] = Len(heap[a])
    BY DEF TableInv, EntryOf, NoEntryYet, Live
  <2>2. \A t \in Threads : pc[t] \in {"copy", "forget", "dealloc"} =>
           call[t].size = Len(heap[call[t].p])
    BY DEF TableInv, SizeRight
  <2> QED
    BY <2>1, <2>2 DEF TableIsHeap
<1>2. BytesSurvive
  <2> SUFFICES ASSUME NEW t \in Threads, NEW a \in held[t] PROVE IsPrefix(known[a], heap[a])
    BY DEF BytesSurvive
  <2>1. a \in Addrs /\ heap[a] # <<>> /\ heap[a] \in Seq(Bytes) /\ known[a] \in Seq(Bytes)
    BY OwnedBlocks, TypesOfParts DEF Owned
  <2> QED
    BY <2>1, PrefixIsStart DEF BytesInv
<1> QED
  BY <1>1, <1>2

\* The variables keep their types, in every step of every call.
THEOREM TypeCorrect == Spec => []TypeOK
BY AllocInvariant, InvariantMeans, PTL

\* The table of sizes is the heap's, but for the blocks between the heap's
\* step and the table's step of one call, whatever the calls of the other
\* threads do between the two: alloc.rs:59-71 and 137-150.
THEOREM TableCorrect == Spec => []TableIsHeap
BY AllocInvariant, InvariantMeans, PTL

\* No block leaks, none is freed under an owner or handed out twice, and a
\* realloc that fails gives the old block back: alloc.rs:100-133.
THEOREM OwnersCorrect == Spec => []OneOwner
BY AllocInvariant, InvariantMeans, PTL

\* What was written into a block stays there until its owner gives it up, and
\* goes with it through realloc: alloc.rs:127-129.
THEOREM BytesCorrect == Spec => []BytesSurvive
BY AllocInvariant, InvariantMeans, PTL


=============================================================================
