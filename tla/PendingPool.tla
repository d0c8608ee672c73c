----------------------------- MODULE PendingPool -----------------------------
(***************************************************************************)
(* What the transaction pool of go-ethereum (core/tx_pool.go) promises to  *)
(* the code that reads it: for every account, executable transactions      *)
(* whose nonces follow each other without a gap, starting at the nonce of  *)
(* the head state that the pool has last seen.  The pool may drop what it  *)
(* knows, and take it up again from its journal; it never makes up a       *)
(* transaction, and it takes a new one only with the next nonce of its     *)
(* account.                                                                *)
(***************************************************************************)
EXTENDS Integers

CONSTANTS
  Accounts,
  Txs        \* transactions: records with at least the fields from and nonce

VARIABLES
  head,      \* the account's nonce in the head state the pool has seen
  known,     \* every transaction in the pool or its journal
  pending    \* the account's executable transactions

vars == <<head, known, pending>>

\* The transactions have the nonces from lo on, up to but not including hi.
Fill(txs, lo, hi) == lo <= hi /\ {tx.nonce : tx \in txs} = lo..(hi - 1)

\* The transactions are known, the account's own, one for each nonce of a run.
Executable(a, nonce, txs, from) ==
  /\ txs \subseteq from
  /\ \A tx \in txs : tx.from = a
  /\ \A s, t \in txs : s.nonce = t.nonce => s = t
  /\ \E next \in {nonce} \cup {tx.nonce + 1 : tx \in txs} : Fill(txs, nonce, next)

Init ==
  /\ head \in [Accounts -> Nat]
  /\ known = {}
  /\ pending = [a \in Accounts |-> {}]

\* What is left or put back after any operation is executable.
Sound ==
  /\ DOMAIN head' = Accounts /\ DOMAIN pending' = Accounts
  /\ \A a \in Accounts : Executable(a, head'[a], pending'[a], known')

\* A transaction with the next nonce is taken; others may have to make room.
Submit(tx) ==
  /\ Fill(pending[tx.from], head[tx.from], tx.nonce)
  /\ known' \subseteq known \cup {tx}
  /\ UNCHANGED head
  /\ Sound

\* A new head moves the nonces forward; a limit or a price drops transactions.
Revise ==
  /\ \A a \in Accounts : head'[a] >= head[a]
  /\ known' \subseteq known
  /\ Sound

Next == (\E tx \in Txs : Submit(tx)) \/ Revise

Spec == Init /\ [][Next]_vars
==============================================================================
