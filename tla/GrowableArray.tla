--------------------------- MODULE GrowableArray ---------------------------
(***************************************************************************)
(* GrowableArray of rust-port/src/util/hash.rs: slots that are a value or  *)
(* empty, a count of values, and next_free, which push fills and then      *)
(* advances, and which remove pulls back.  capacity is the number of slots *)
(* (the length of data) after every call.                                  *)
(*                                                                         *)
(* Slots are numbered from 1 here, so next_free is one more than in the    *)
(* code.  remove of an empty or absent slot changes nothing; growing fails *)
(* by aborting the process.                                                *)
(*                                                                         *)
(* A definition named X_Variant is X with a plausible mistake in it, to    *)
(* show that a property notices the mistake.                               *)
(***************************************************************************)
EXTENDS Integers, FiniteSets, Sequences

CONSTANTS
  Values,
  Empty,        \* a slot that is None
  MinCapacity,  \* GROWABLE_MIN_CAPACITY, 4
  MaxCapacity   \* bound: capacity up to which push is called

ASSUME ArrayAssumption ==
  /\ Empty \notin Values
  /\ MinCapacity \in Nat \ {0}
  /\ MaxCapacity \in Nat

VARIABLES data, count, next_free

array_vars == <<data, count, next_free>>

capacity == Len(data)

(* resize_to, growing: the new slots are empty.                             *)
Grown(d, n) == [i \in 1 .. n |-> IF i <= Len(d) THEN d[i] ELSE Empty]

(* resize_to, shrinking.                                                    *)
Truncated(d, n) == [i \in 1 .. n |-> d[i]]

LiveIn(d) == {i \in DOMAIN d : d[i] # Empty}
NumLive(d) == Cardinality(LiveIn(d))

Dropped_Uncounted(d, n) == 0
Dropped(d, n) == Cardinality(LiveIn(d) \ (1 .. n))

FirstEmptyFrom_StopsAtNext(d, n) == n

(* The first empty slot of d from n on, or the one after the last.          *)
FirstEmptyFrom(d, n) ==
  CHOOSE i \in n .. Len(d) + 1 :
    /\ i <= Len(d) => d[i] = Empty
    /\ \A j \in n .. i - 1 : d[j] # Empty

PulledBack_Never(idx) == next_free

PulledBack(idx) == IF idx < next_free THEN idx ELSE next_free

-----------------------------------------------------------------------------
Slot == Values \cup {Empty}

ArrayTypeOK ==
  /\ data \in Seq(Slot)
  /\ count \in Nat
  /\ next_free \in Nat \ {0}

ArrayInit ==
  /\ \/ data = << >>
     \/ \E cap \in MinCapacity .. MaxCapacity : data = [i \in 1 .. cap |-> Empty]
  /\ count = 0
  /\ next_free = 1

Double(n) == IF n = 0 THEN MinCapacity ELSE 2 * n

push(v) ==
  /\ count < MaxCapacity
  /\ LET room == IF count = capacity THEN Grown(data, Double(capacity)) ELSE data
     IN  /\ data' = [room EXCEPT ![next_free] = v]
         /\ next_free' = FirstEmptyFrom(data', next_free + 1)
  /\ count' = count + 1

Half(n) == IF n \div 2 > MinCapacity THEN n \div 2 ELSE MinCapacity

Sparse(n) == capacity > MinCapacity /\ n < capacity \div 4

(* Shrinking cuts the upper slots off, whatever they hold.                  *)
remove(idx) ==
  /\ data[idx] # Empty
  /\ LET rest == [data EXCEPT ![idx] = Empty]
         cap  == Half(capacity)
     IN  IF Sparse(count - 1)
         THEN /\ data' = Truncated(rest, cap)
              /\ count' = count - 1 - Dropped(rest, cap)
              /\ next_free' = IF PulledBack(idx) > cap THEN 1 ELSE PulledBack(idx)
         ELSE /\ data' = rest
              /\ count' = count - 1
              /\ next_free' = PulledBack(idx)

drain ==
  /\ data' = << >>
  /\ count' = 0
  /\ next_free' = 1

ArrayNext ==
  \/ \E v \in Values : push(v)
  \/ \E idx \in DOMAIN data : remove(idx)
  \/ drain

ArraySpec == ArrayInit /\ [][ArrayNext]_array_vars

-----------------------------------------------------------------------------
(* count is the number of live values: len, and the decision to grow, are   *)
(* right although shrinking drops values.                                   *)
CountIsLive == count = NumLive(data)

(* "`next_free < capacity` implies `data[next_free].is_none()`, and all     *)
(* slots `[0, next_free)` are `Some`" (lines 628-629), in every state and   *)
(* not only where push needs it.                                            *)
NextFreeIsFirstEmpty ==
  /\ next_free <= capacity + 1
  /\ next_free <= capacity => data[next_free] = Empty
  /\ \A i \in 1 .. next_free - 1 : data[i] # Empty

(* push stores into a slot that was empty and leaves every other value in   *)
(* its slot, so the indices it has returned stay valid.                     *)
PushOverwritesNothing ==
  [][\A v \in Values : push(v) =>
       \A i \in DOMAIN data : data[i] # Empty => data'[i] = data[i]]_array_vars
=============================================================================
