------------------------------ MODULE MCTxRelay ------------------------------
(* TLC instances of TxRelay. *)
EXTENDS TxRelay

CONSTANTS a1, x

MCTxs == [from : {a1}, nonce : 0..1, id : {x}]

\* What peers may send as well: the first transaction, or only the second.
MCFirst == {tx \in MCTxs : tx.nonce = 0}
MCSecond == {tx \in MCTxs : tx.nonce = 1}
===============================================================================
