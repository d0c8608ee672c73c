------------------------------ MODULE MCMempool ------------------------------
(* TLC instances of Mempool. *)
EXTENDS Mempool

CONSTANTS a1, x, y

MCTxs == [from : {a1}, nonce : 0..2, id : {x}]

\* Two transactions compete for the first nonce of the account.
MCRivals == [from : {a1}, nonce : {0}, id : {x, y}] \cup [from : {a1}, nonce : {1}, id : {x}]
===============================================================================
