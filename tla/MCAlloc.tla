------------------------------- MODULE MCAlloc -------------------------------
(* The allocator with two threads, three addresses and blocks of one or two bytes. *)
EXTENDS Alloc, TLC

Symmetric == Permutations(Threads) \cup Permutations(Addrs)
=============================================================================
