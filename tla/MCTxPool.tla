------------------------------- MODULE MCTxPool -------------------------------
(* TLC instances of TxPool. *)
EXTENDS TxPool

CONSTANTS a1, a2

MCAccounts == {a1, a2}
MCTxs == {[from |-> a1, nonce |-> n, cost |-> c] : n \in 0..2, c \in 1..2} \cup
         {[from |-> a2, nonce |-> n, cost |-> 1] : n \in 0..1}
MCBalances == {0, 1, 3}
===============================================================================
