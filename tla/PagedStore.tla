----------------------------- MODULE PagedStore -----------------------------
(***************************************************************************)
(* What the pager promises its clients (rust-port/src/pager/mod.rs, the    *)
(* "Behavior contract" of its module comment): a store of pages with one   *)
(* transaction at a time that takes effect as a whole, at commit, or not   *)
(* at all, at rollback or when the process stops.                          *)
(***************************************************************************)
CONSTANTS Pages, Values

VARIABLES
  committed,  \* the content of every page without the open transaction
  current,    \* the content of every page as a client reads it
  in_txn

vars == <<committed, current, in_txn>>

TypeOK ==
  /\ committed \in [Pages -> Values]
  /\ current \in [Pages -> Values]
  /\ in_txn \in BOOLEAN

Init ==
  /\ committed \in [Pages -> Values]
  /\ current = committed
  /\ in_txn = FALSE

Begin ==
  /\ ~in_txn
  /\ in_txn' = TRUE
  /\ UNCHANGED <<committed, current>>

Write(p, v) ==
  /\ in_txn
  /\ current' = [current EXCEPT ![p] = v]
  /\ UNCHANGED <<committed, in_txn>>

Commit ==
  /\ in_txn
  /\ committed' = current
  /\ in_txn' = FALSE
  /\ UNCHANGED current

(* Rollback, and the end of the process with or without a transaction.      *)
Abandon ==
  /\ current' = committed
  /\ in_txn' = FALSE
  /\ UNCHANGED committed

Next ==
  \/ Begin
  \/ \E p \in Pages, v \in Values : Write(p, v)
  \/ Commit
  \/ Abandon

Spec == Init /\ [][Next]_vars
=============================================================================
