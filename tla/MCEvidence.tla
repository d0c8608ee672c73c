------------------------------ MODULE MCEvidence ------------------------------
(***************************************************************************)
(* A small instance of Evidence: a piece of evidence that gets too old,    *)
(* and a piece that does not verify.                                       *)
(***************************************************************************)
EXTENDS Evidence

MCHeightOf == [ev \in Ev |-> 1]
=============================================================================
